----------------------------- MODULE MsixTable -----------------------------
(***************************************************************************)
(* MsiXTable (src/src/tlm/gpu/msix_table_mvp.cc): the MSI-X vector table   *)
(* with its mask bits, the pending bit array (PBA) and the queue of        *)
(* interrupt events on their way out.  A vector's address and data are not *)
(* modelled: an event is its vector number.                                *)
(***************************************************************************)
EXTENDS Naturals, Sequences

CONSTANTS
  MaxVec,     \* bound: the largest table size a run uses
  MaxQueue    \* bound: events in pending_irq_out_

ASSUME MsixBounds == MaxVec \in Nat \ {0} /\ MaxQueue \in Nat

VARIABLES
  nvec,       \* num_vectors_
  masked,     \* vectors whose control bit 0 is set
  pba,        \* vectors whose PBA bit is set
  irq_out,    \* pending_irq_out_
  delivered,  \* did_deliver_last_update_
  owed,       \* history: vectors updated and since then neither handed to
              \* the endpoint nor acknowledged by the driver
  bypassed    \* history: vectors whose mask configure_vector cleared while
              \* their PBA bit was set

msixVars == <<nvec, masked, pba, irq_out, delivered, owed, bypassed>>

Vector == 0..(MaxVec - 1)
Table  == 0..(nvec - 1)     \* the vectors of the present table

MsixInit ==
  /\ nvec \in 1..MaxVec
  /\ masked = {} /\ pba = {} /\ irq_out = <<>> /\ delivered = FALSE
  /\ owed = {} /\ bypassed = {}

(* init(): entries, PBA, queue and flag are cleared.                       *)
Clear(n) ==
  /\ nvec' = n
  /\ masked' = {} /\ pba' = {} /\ irq_out' = <<>> /\ delivered' = FALSE
  /\ owed' = {} /\ bypassed' = {}

(* The events of s whose vector is below n, in their order.                *)
Below(s, n) ==
  LET kept[i \in 0..Len(s)] ==
        IF i = 0 THEN <<>>
        ELSE IF s[i] < n THEN Append(kept[i - 1], s[i]) ELSE kept[i - 1]
  IN  kept[Len(s)]

(* Mutant: the queue keeps the events of the vectors that are cut off.     *)
ResizeKeepsQueue(n) ==
  /\ n # 0
  /\ nvec' = n
  /\ masked' = masked \cap 0..(n - 1)
  /\ pba' = pba \cap 0..(n - 1)
  /\ owed' = owed \cap 0..(n - 1) /\ bypassed' = bypassed \cap 0..(n - 1)
  /\ UNCHANGED <<irq_out, delivered>>

(* resize(n): a shorter table drops the state and the events of the        *)
(* vectors it no longer has.                                               *)
Resize(n) ==
  /\ n # 0
  /\ nvec' = n
  /\ masked' = masked \cap 0..(n - 1)
  /\ pba' = pba \cap 0..(n - 1)
  /\ owed' = owed \cap 0..(n - 1) /\ bypassed' = bypassed \cap 0..(n - 1)
  /\ irq_out' = Below(irq_out, n)
  /\ UNCHANGED delivered

SetMask(v) ==
  /\ v \in Table
  /\ masked' = masked \cup {v} /\ bypassed' = bypassed \ {v}
  /\ UNCHANGED <<nvec, pba, irq_out, delivered, owed>>

(* Mutant: the pending bit is left to the next update.                     *)
ClearMaskSilent(v) ==
  /\ v \in Table
  /\ masked' = masked \ {v}
  /\ UNCHANGED <<nvec, pba, irq_out, delivered, owed, bypassed>>

(* set_mask(v, false): a masked vector whose PBA bit is set is queued, and *)
(* the bit stays until the driver clears it.                               *)
ClearMask(v) ==
  /\ v \in Table
  /\ masked' = masked \ {v}
  /\ irq_out' = IF v \in masked \cap pba THEN Append(irq_out, v) ELSE irq_out
  /\ UNCHANGED <<nvec, pba, delivered, owed, bypassed>>

(* configure_vector: address, data and the whole control word, mask bit    *)
(* included, are overwritten; a pending bit it unmasks is not delivered.   *)
ConfigureVector(v, mask) ==
  /\ v \in Table
  /\ masked' = IF mask THEN masked \cup {v} ELSE masked \ {v}
  /\ bypassed' = IF mask THEN bypassed \ {v}
                         ELSE bypassed \cup ({v} \cap masked \cap pba)
  /\ UNCHANGED <<nvec, pba, irq_out, delivered, owed>>

(* Mutant: a masked vector's PBA bit is not set.                           *)
UpdatePendingIfUnmasked(v) ==
  /\ v \in Table
  /\ pba' = IF v \in masked THEN pba ELSE pba \cup {v}
  /\ owed' = owed \cup {v} /\ bypassed' = bypassed \ {v}
  /\ irq_out' = IF v \in masked THEN irq_out ELSE Append(irq_out, v)
  /\ delivered' = (v \notin masked)
  /\ UNCHANGED <<nvec, masked>>

(* update_pending(v) in the table: the PBA bit is set whatever the mask.   *)
UpdatePending(v) ==
  /\ v \in Table
  /\ pba' = pba \cup {v}
  /\ owed' = owed \cup {v} /\ bypassed' = bypassed \ {v}
  /\ irq_out' = IF v \in masked THEN irq_out ELSE Append(irq_out, v)
  /\ delivered' = (v \notin masked)
  /\ UNCHANGED <<nvec, masked>>

RejectUpdate(v) ==
  /\ v \notin Table
  /\ delivered' = FALSE
  /\ UNCHANGED <<nvec, masked, pba, irq_out, owed, bypassed>>

Occurs(v, s) == \E i \in DOMAIN s : s[i] = v
WithoutFirst(v, s) ==
  IF Occurs(v, s)
  THEN LET k == CHOOSE i \in DOMAIN s :
                  s[i] = v /\ \A j \in 1..(i - 1) : s[j] # v
       IN  SubSeq(s, 1, k - 1) \o SubSeq(s, k + 1, Len(s))
  ELSE s

(* clear_pending(v), the driver's EOI: the PBA bit and the first queued    *)
(* event of v, not the ones behind it.                                     *)
ClearPending(v) ==
  /\ delivered' = FALSE
  /\ pba' = pba \ (Table \cap {v})
  /\ owed' = owed \ (Table \cap {v}) /\ bypassed' = bypassed \ (Table \cap {v})
  /\ irq_out' = IF v \in Table THEN WithoutFirst(v, irq_out) ELSE irq_out
  /\ UNCHANGED <<nvec, masked>>

(* try_pop_irq_out() and consume_irq_out(), by a ticking endpoint.         *)
ConsumeIrq ==
  /\ irq_out # <<>>
  /\ irq_out' = Tail(irq_out)
  /\ owed' = owed \ {Head(irq_out)}
  /\ UNCHANGED <<nvec, masked, pba, delivered, bypassed>>

Room == Len(irq_out) < MaxQueue

MsixNext ==
  \/ \E n \in 0..MaxVec : Resize(n)
  \/ Clear(nvec)
  \/ \E v \in Vector :
       \/ SetMask(v) \/ (Room /\ ClearMask(v))
       \/ \E mask \in BOOLEAN : ConfigureVector(v, mask)
       \/ (Room /\ UpdatePending(v)) \/ RejectUpdate(v) \/ ClearPending(v)
  \/ ConsumeIrq

MsixSpec == MsixInit /\ [][MsixNext]_msixVars

-----------------------------------------------------------------------------
(* The fields of MsiXTable keep their types, and no mask bit, PBA bit or   *)
(* queued event names a vector beyond the table, also after it shrank with *)
(* events queued (msix_table_mvp.cc:35).                                   *)
MsixTypeOK ==
  /\ nvec \in 1..MaxVec
  /\ masked \subseteq Table
  /\ pba \subseteq Table
  /\ irq_out \in Seq(Table)
  /\ delivered \in BOOLEAN
  /\ owed \subseteq Table /\ bypassed \subseteq Table

(* An accepted interrupt, until it is handed out or acknowledged, is queued*)
(* or remembered in the PBA, behind a mask so that the unmask will queue   *)
(* it, or forgotten by configure_vector, which alone may unmask it silently*)
(* (msix_table_mvp.cc:60); whatever masks, unmasks, resizes and EOIs of    *)
(* other vectors come between.                                             *)
NoPendingLost ==
  \A v \in owed : Occurs(v, irq_out) \/ v \in pba \cap (masked \cup bypassed)

(* "WHEN vector is masked, then pending is set, then vector is unmasked    *)
(* THEN ... trigger fires after unmask"                                    *)
(* (openspec/specs/pcie-slice-prerequisites/spec.md:67).  True of a table  *)
(* nobody configures anew; configure_vector breaks it.                     *)
PendingDelivered ==
  \A v \in owed : Occurs(v, irq_out) \/ v \in masked \cap pba

=============================================================================
