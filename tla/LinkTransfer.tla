---------------------------- MODULE LinkTransfer ----------------------------
(***************************************************************************)
(* What a PCIe link promises its transaction layers: every TLP the sender  *)
(* accepts is handed to the receiver once, in the order of acceptance.     *)
(***************************************************************************)
EXTENDS Naturals, Sequences

CONSTANT Tlp

VARIABLES accepted, received    \* sequences of TLPs

Init == accepted = <<>> /\ received = <<>>

Accept ==
  /\ \E p \in Tlp : accepted' = Append(accepted, p)
  /\ UNCHANGED received

Receive ==
  /\ Len(received) < Len(accepted)
  /\ received' = Append(received, accepted[Len(received) + 1])
  /\ UNCHANGED accepted

Spec == Init /\ [][Accept \/ Receive]_<<accepted, received>>
=============================================================================
