----------------------------- MODULE LinkLayer -----------------------------
(***************************************************************************)
(* PcieLinkLayer (src/src/tlm/pcie/pcie_link_layer_tlm.cc): transmission   *)
(* of TLPs with sequence numbers, a retry buffer, cumulative ACKs and      *)
(* NAKs, reception with generated ACKs, credit-based flow control in both  *)
(* directions, error injection, rate switches, and the clean-up of         *)
(* PcieBypassMux::apply_mode (src/src/tlm/pcie/pcie_bypass_mux.cc).        *)
(*                                                                         *)
(* The peer is external: it takes the TLPs from the wire in the order of   *)
(* their sequence numbers, acknowledges, and asks again from the first     *)
(* missing one, as the tests of the link layer do; its DLLPs travel on a   *)
(* wire that may lose them.  A TLP is its serial number.                   *)
(*                                                                         *)
(* The link layer is single-threaded: an action is a whole call.           *)
(***************************************************************************)
EXTENDS Integers, FiniteSets, SequencesExt

CONSTANTS
  FcType,     \* TLP classes: Posted, NonPosted, Completion
  FcCapacity, \* fc_token_bucket_capacity
  DefaultCredit, \* capacity of a bucket that bucket(vf) creates
  SeqWrap,    \* SEQ_WRAP: number of sequence numbers
  Vf,         \* virtual functions; 0 is the physical function
  FcInit,     \* fc_init_p, fc_init_np, fc_init_cpl
  Encoded,    \* enc_enabled_: set_encoding_latency was called, before traffic
  MaxTlp,     \* bound: TLPs accepted from the transaction layer
  MaxRx,      \* bound: TLPs accepted from the host
  MaxFaults,  \* bound: injected losses and losses on the wire
  MaxNaks,    \* bound: injected NAKs
  MaxModes,   \* bound: apply_mode calls
  MaxWire,    \* bound: DLLPs in flight in one direction
  MaxBill     \* bound: block times up to which the wire's bill is told apart

ASSUME FcAssumption ==
  FcType # {} /\ FcCapacity \in Nat \ {0} /\ DefaultCredit \in Nat \ {0}

-----------------------------------------------------------------------------
(* FcTokenBucket and FcEngine                                              *)
(* (src/src/tlm/pcie/pcie_flow_control_token_bucket.cc): the flow-control  *)
(* credits of one direction of a link, one bucket per virtual function,    *)
(* with a counter per TLP class.  Every weight is 1, as in all production  *)
(* constructions.                                                          *)
Credits == [FcType -> Nat]
Bucket  == [capacity : Nat, tokens : Credits]

(* A bucket is born full.                                                  *)
FullBucket(cap) == [capacity |-> cap, tokens |-> [t \in FcType |-> cap]]

CanSend(b, t) == b.tokens[t] >= 1
Consume(b, t) == [b EXCEPT !.tokens[t] = @ - 1]

Capped(n, cap) == IF n > cap THEN cap ELSE n
(* update(): credit is added for each class, up to the capacity.           *)
UpdateCredit(b, c) ==
  [b EXCEPT !.tokens = [t \in FcType |-> Capped(@[t] + c[t], b.capacity)]]

(* init_fc(): the capacity is the largest of cap and the initial credits.  *)
InitFc(cap, c) ==
  [capacity |-> CHOOSE m \in {cap} \cup {c[t] : t \in FcType} :
                  m >= cap /\ \A t \in FcType : m >= c[t],
   tokens |-> c]

-----------------------------------------------------------------------------
ASSUME LinkAssumption ==
  /\ SeqWrap \in Nat /\ SeqWrap >= 2 /\ SeqWrap % 2 = 0
  /\ Vf \subseteq Nat /\ 0 \in Vf
  /\ FcInit \in Credits
  /\ Encoded \in BOOLEAN
  /\ {MaxTlp, MaxRx, MaxFaults, MaxNaks, MaxModes, MaxWire, MaxBill}
       \subseteq Nat

Window == SeqWrap \div 2        \* SEQ_WINDOW
SeqNum == 0..(SeqWrap - 1)
Serial == 1..MaxTlp
None   == 0                    \* no entry in the retry buffer
Dir    == {"up", "down"}       \* fc_upstream_, fc_downstream_

VARIABLES
  fc,             \* fc_upstream_ and fc_downstream_: a bucket per VF
  next_tx_seq, last_acked_seq,
  retry_buf,      \* retry_buf_[s], or None
  tx_tlp_out,     \* (seq, TLP) pairs on their way to the wire
  billed,         \* tx_wire_busy_until_ns_, in block times, up to MaxBill
  next_rx_seq,
  tx_dllp_out,    \* sequence numbers of the ACKs on their way to the host
  tlp_loss,       \* error injector: tlp_loss_seqs
  drop_next_dllp, \* error injector
  switching,      \* a rate switch whose ready time has not come
  expect, got,    \* peer: next sequence number, TLPs taken since the last
                  \* change of mode
  nak_sent,       \* peer: it has asked again for the TLP it expects
  dllp_in,        \* wire: ACKs and NAKs of the peer
  sent, taken, faults, naks, modes,  \* counters of the bounds
  base,           \* history: sent at the last change of mode
  granted, used   \* history: credit granted to a bucket since it was last
                  \* initialised, and TLPs it let through since then

txVars == <<next_tx_seq, last_acked_seq, retry_buf, tx_tlp_out, sent, base,
            billed>>
rxVars == <<next_rx_seq, tx_dllp_out, taken>>
fcVars == <<fc, granted, used>>
errVars == <<tlp_loss, drop_next_dllp, faults, naks>>
peerVars == <<expect, got, nak_sent, dllp_in>>
vars == <<txVars, rxVars, fcVars, errVars, peerVars, switching, modes>>

(* Distance from b forward to a in the ring of sequence numbers.           *)
Dist(a, b) == (a - b) % SeqWrap
(* Mutant: the counter is not masked.                                      *)
AfterUnmasked(s) == s + 1
After(s) == (s + 1) % SeqWrap

NoCredits == [t \in FcType |-> 0]

(* The buckets the constructor and reset_fc_buckets install: full, so that *)
(* adding the configured credit changes nothing.                           *)
ResetBucket == UpdateCredit(FullBucket(FcCapacity), FcInit)
(* Only the bucket of the physical function is installed; others are       *)
(* created on their first use.                                             *)
NewBuckets == [v \in Vf |-> IF v = 0 THEN ResetBucket
                            ELSE FullBucket(DefaultCredit)]

Install(b) ==
  /\ fc' = [d \in Dir |-> [fc[d] EXCEPT ![0] = b]]
  /\ granted' = [d \in Dir |-> [granted[d] EXCEPT ![0] = b.tokens]]
  /\ used' = [d \in Dir |-> [used[d] EXCEPT ![0] = NoCredits]]

Init ==
  /\ fc = [d \in Dir |-> NewBuckets]
  /\ granted = [d \in Dir |-> [v \in Vf |-> NewBuckets[v].tokens]]
  /\ used = [d \in Dir |-> [v \in Vf |-> NoCredits]]
  /\ next_tx_seq = 0 /\ last_acked_seq = SeqWrap - 1
  /\ retry_buf = [s \in SeqNum |-> None] /\ tx_tlp_out = <<>> /\ billed = 0
  /\ next_rx_seq = 0 /\ tx_dllp_out = <<>>
  /\ tlp_loss = {} /\ drop_next_dllp = FALSE /\ switching = FALSE
  /\ expect = 0 /\ got = <<>> /\ nak_sent = FALSE /\ dllp_in = <<>>
  /\ sent = 0 /\ taken = 0 /\ faults = 0 /\ naks = 0 /\ modes = 0 /\ base = 0

-----------------------------------------------------------------------------
(* Transmission.                                                           *)

Outstanding == {s \in SeqNum : retry_buf[s] # None}

(* Mutant: the outstanding TLPs are not limited.                           *)
NeverFull == FALSE
WindowFull == Cardinality(Outstanding) >= Window

(* With the encoding latency on, an accepted TLP is billed a block after   *)
(* the last one, or after now: any number of block times may have passed.  *)
LaterBills == IF Encoded THEN {b \in 0..MaxBill : b > billed \/ b = MaxBill}
              ELSE {billed}

(* tx_tlp: the credit is taken first; a full window then refuses the TLP   *)
(* and keeps the credit.                                                   *)
TxTlp(v, t) ==
  /\ ~switching /\ sent < MaxTlp
  /\ CanSend(fc["down"][v], t)
  /\ fc' = [fc EXCEPT !["down"][v] = Consume(@, t)]
  /\ IF WindowFull
     THEN UNCHANGED <<txVars, used>>
     ELSE /\ sent' = sent + 1
          /\ next_tx_seq' = After(next_tx_seq)
          /\ retry_buf' = IF next_tx_seq \in Outstanding THEN retry_buf
                          ELSE [retry_buf EXCEPT ![next_tx_seq] = sent + 1]
          /\ tx_tlp_out' = Append(tx_tlp_out,
                                  [seq |-> next_tx_seq, tlp |-> sent + 1])
          /\ billed' \in LaterBills
          /\ used' = [used EXCEPT !["down"][v][t] = @ + 1]
          /\ UNCHANGED <<last_acked_seq, base>>
  /\ UNCHANGED <<rxVars, granted, errVars, peerVars, switching, modes>>

(* Mutant: the entry after the acknowledged one goes too.                  *)
AckOneTooMany(a) ==
  LET delta == Dist(a, last_acked_seq) IN
  IF delta = 0 \/ delta > Window
  THEN UNCHANGED <<last_acked_seq, retry_buf>>
  ELSE /\ retry_buf' = [s \in SeqNum |->
             IF Dist(s, last_acked_seq) \in 1..(delta + 1) THEN None
             ELSE retry_buf[s]]
       /\ last_acked_seq' = a

(* Mutant: last_acked_seq_ stays.                                          *)
AckForgotten(a) ==
  LET delta == Dist(a, last_acked_seq) IN
  /\ retry_buf' = [s \in SeqNum |->
             IF delta <= Window /\ Dist(s, last_acked_seq) \in 1..delta
             THEN None ELSE retry_buf[s]]
  /\ UNCHANGED last_acked_seq

(* on_ack_received: cumulative; an ACK more than a window ahead is stale.  *)
OnAck(a) ==
  LET delta == Dist(a, last_acked_seq) IN
  IF delta = 0 \/ delta > Window
  THEN UNCHANGED <<last_acked_seq, retry_buf>>
  ELSE /\ retry_buf' = [s \in SeqNum |->
             IF Dist(s, last_acked_seq) \in 1..delta THEN None
             ELSE retry_buf[s]]
       /\ last_acked_seq' = a

(* on_nak_received collects its entries in the order of the std::map, by   *)
(* number, and puts them before what is already on its way.                *)
Retransmitted(s) == [seq |-> s, tlp |-> retry_buf[s]]

(* Mutant: the TLP asked for is not sent again, only the ones after it.    *)
SkipsFirst(n) == {s \in Outstanding : Dist(s, n) \in 1..(Window - 1)}
AskedFor(n) == {s \in Outstanding : Dist(s, n) < Window}
Ascending(S) == {q \in [1..Cardinality(S) -> S] :
                   \A i, j \in 1..Cardinality(S) : i < j => q[i] < q[j]}

OnNak(n) ==
  \E q \in Ascending(AskedFor(n)) :
    tx_tlp_out' = [i \in DOMAIN q |-> Retransmitted(q[i])] \o tx_tlp_out

(* rx_dllp_from_host of an ACK or a NAK.                                   *)
RxDllp ==
  /\ dllp_in # <<>>
  /\ dllp_in' = Tail(dllp_in)
  /\ IF Head(dllp_in).kind = "ACK"
     THEN OnAck(Head(dllp_in).seq) /\ UNCHANGED tx_tlp_out
     ELSE OnNak(Head(dllp_in).seq) /\ UNCHANGED <<last_acked_seq, retry_buf>>
  /\ UNCHANGED <<next_tx_seq, sent, base, billed, rxVars, fcVars, errVars,
                 expect, got, nak_sent, switching, modes>>

-----------------------------------------------------------------------------
(* The wire and the peer.                                                  *)

(* try_pop_tx_tlp skips the entries that are to be lost, one per injected  *)
(* sequence number.                                                        *)
Lost == LET IsLost(k) == \A i \in 1..k :
                           /\ tx_tlp_out[i].seq \in tlp_loss
                           /\ \A j \in 1..(i - 1) :
                                tx_tlp_out[j].seq # tx_tlp_out[i].seq
        IN  CHOOSE k \in 0..Len(tx_tlp_out) :
              IsLost(k) /\ (k = Len(tx_tlp_out) \/ ~IsLost(k + 1))

(* The peer's answer to a TLP: it is the next one, one it has already, or  *)
(* one after a gap, for which it asks again once.                          *)
PeerTakes(e) ==
  \/ /\ e.seq = expect
     /\ got' = Append(got, e.tlp) /\ expect' = After(expect)
     /\ nak_sent' = FALSE
     /\ dllp_in' = Append(dllp_in, [kind |-> "ACK", seq |-> e.seq])
  \/ /\ Dist(e.seq, expect) >= Window
     /\ dllp_in' = Append(dllp_in, [kind |-> "ACK", seq |-> Dist(expect, 1)])
     /\ UNCHANGED <<expect, got, nak_sent>>
  \/ /\ Dist(e.seq, expect) \in 1..(Window - 1)
     /\ nak_sent' = TRUE
     /\ dllp_in' = IF nak_sent THEN dllp_in
                   ELSE Append(dllp_in, [kind |-> "NAK", seq |-> expect])
     /\ UNCHANGED <<expect, got>>

(* The head is ready a block time per TLP behind it before the wire is     *)
(* free.  The time comes, unless the bill is too short for the queue: the  *)
(* unsigned difference then lies beyond every cycle.                       *)
HeadGetsReady == Encoded => billed >= Len(tx_tlp_out) - 1

PopTlp ==
  /\ tx_tlp_out # <<>> /\ Len(dllp_in) < MaxWire
  /\ HeadGetsReady
  /\ tlp_loss' = tlp_loss \ {tx_tlp_out[i].seq : i \in 1..Lost}
  /\ tx_tlp_out' = SubSeq(tx_tlp_out, Lost + 2, Len(tx_tlp_out))
  /\ IF Lost < Len(tx_tlp_out) THEN PeerTakes(tx_tlp_out[Lost + 1])
     ELSE UNCHANGED peerVars
  /\ UNCHANGED <<next_tx_seq, last_acked_seq, retry_buf, sent, base, billed,
                 rxVars, fcVars, drop_next_dllp, faults, naks, switching, modes>>

LoseDllp ==
  /\ dllp_in # <<>> /\ faults < MaxFaults
  /\ faults' = faults + 1
  /\ dllp_in' = Tail(dllp_in)
  /\ UNCHANGED <<txVars, rxVars, fcVars, tlp_loss, drop_next_dllp, naks, expect,
                 got, nak_sent, switching, modes>>

(* A peer that has heard nothing for a while asks again.                   *)
PeerAsksAgain ==
  /\ tx_tlp_out = <<>> /\ dllp_in = <<>> /\ Len(got) < sent - base
  /\ dllp_in' = Append(dllp_in, [kind |-> "NAK", seq |-> expect])
  /\ UNCHANGED <<txVars, rxVars, fcVars, errVars, expect, got, nak_sent,
                 switching, modes>>

-----------------------------------------------------------------------------
(* Reception.                                                              *)

(* Mutant: the TLP is let through without taking its credit.               *)
RxTlpFree(v, t) ==
  /\ ~switching /\ taken < MaxRx
  /\ CanSend(fc["up"][v], t)
  /\ used' = [used EXCEPT !["up"][v][t] = @ + 1]
  /\ taken' = taken + 1
  /\ next_rx_seq' = After(next_rx_seq)
  /\ tx_dllp_out' = Append(tx_dllp_out, next_rx_seq)
  /\ UNCHANGED <<txVars, fc, granted, errVars, peerVars, switching, modes>>

(* Mutant: the ACK names the number of the next TLP.                       *)
RxTlpAcksNext(v, t) ==
  /\ ~switching /\ taken < MaxRx
  /\ CanSend(fc["up"][v], t)
  /\ fc' = [fc EXCEPT !["up"][v] = Consume(@, t)]
  /\ used' = [used EXCEPT !["up"][v][t] = @ + 1]
  /\ taken' = taken + 1
  /\ next_rx_seq' = After(next_rx_seq)
  /\ tx_dllp_out' = Append(tx_dllp_out, After(next_rx_seq))
  /\ UNCHANGED <<txVars, granted, errVars, peerVars, switching, modes>>

(* rx_tlp_from_host: credit, sequence number, ACK, then the sink.          *)
RxTlp(v, t) ==
  /\ ~switching /\ taken < MaxRx
  /\ CanSend(fc["up"][v], t)
  /\ fc' = [fc EXCEPT !["up"][v] = Consume(@, t)]
  /\ used' = [used EXCEPT !["up"][v][t] = @ + 1]
  /\ taken' = taken + 1
  /\ next_rx_seq' = After(next_rx_seq)
  /\ tx_dllp_out' = Append(tx_dllp_out, next_rx_seq)
  /\ UNCHANGED <<txVars, granted, errVars, peerVars, switching, modes>>

(* try_pop_tx_dllp, by the host; an injected loss eats the first DLLP.     *)
PopDllp ==
  /\ tx_dllp_out # <<>>
  /\ tx_dllp_out' = SubSeq(tx_dllp_out, IF drop_next_dllp THEN 3 ELSE 2,
                           Len(tx_dllp_out))
  /\ drop_next_dllp' = FALSE
  /\ UNCHANGED <<txVars, next_rx_seq, taken, fcVars, tlp_loss, faults, naks,
                 peerVars, switching, modes>>

(* rx_dllp of UPDATE_FC: the upstream bucket of the physical function.     *)
RxUpdateFc(c) ==
  LET b == UpdateCredit(fc["up"][0], c) IN
  /\ fc' = [fc EXCEPT !["up"][0] = b]
  /\ granted' = [granted EXCEPT !["up"][0] =
                   [t \in FcType |-> @[t] + (b.tokens[t]
                                             - fc["up"][0].tokens[t])]]
  /\ UNCHANGED <<used, txVars, rxVars, errVars, peerVars, switching, modes>>

(* INIT_FC1 or INIT_FC2, and set_fc_initial_credits: both directions of    *)
(* the physical function.                                                  *)
RxInitFc(c) ==
  /\ Install(InitFc(FcCapacity, c))
  /\ UNCHANGED <<txVars, rxVars, errVars, peerVars, switching, modes>>

-----------------------------------------------------------------------------
(* Error injection, rate switches, changes of mode.                        *)

Inject == faults < MaxFaults /\ faults' = faults + 1 /\ UNCHANGED naks

InjectTlpLoss(s) ==
  /\ Inject
  /\ tlp_loss' = tlp_loss \cup {s}
  /\ UNCHANGED <<txVars, rxVars, fcVars, drop_next_dllp, peerVars, switching,
                 modes>>

InjectDllpLoss ==
  /\ Inject
  /\ drop_next_dllp' = TRUE
  /\ UNCHANGED <<txVars, rxVars, fcVars, tlp_loss, peerVars, switching, modes>>

(* inject_nak and the tick that consumes it.                               *)
TickInjectedNak(n) ==
  /\ naks < MaxNaks /\ naks' = naks + 1
  /\ OnNak(n)
  /\ UNCHANGED <<next_tx_seq, last_acked_seq, retry_buf, sent, base, billed,
                 rxVars, fcVars, tlp_loss, drop_next_dllp, faults, peerVars,
                 switching, modes>>

(* The bill is forgotten, the queue towards the wire is not.               *)
TriggerRateSwitch ==
  /\ switching' = TRUE
  /\ billed' = 0
  /\ UNCHANGED <<next_tx_seq, last_acked_seq, retry_buf, tx_tlp_out, sent, base,
                 rxVars, fcVars, errVars, peerVars, modes>>

RateReady ==
  /\ switching
  /\ switching' = FALSE
  /\ UNCHANGED <<txVars, rxVars, fcVars, errVars, peerVars, modes>>

(* apply_mode, whatever the drain policy: the retry buffer, the counters   *)
(* and the buckets of the physical function; the queues towards the wire   *)
(* stay.  The peer is told and starts again at 0.                          *)
ApplyMode ==
  /\ modes < MaxModes /\ modes' = modes + 1
  /\ retry_buf' = [s \in SeqNum |-> None]
  /\ next_tx_seq' = 0 /\ next_rx_seq' = 0 /\ last_acked_seq' = SeqWrap - 1
  /\ Install(ResetBucket)
  /\ expect' = 0 /\ got' = <<>> /\ nak_sent' = FALSE /\ dllp_in' = <<>>
  /\ base' = sent
  /\ UNCHANGED <<tx_tlp_out, sent, billed, tx_dllp_out, taken, errVars,
                 switching>>

-----------------------------------------------------------------------------
(* A credit of one for each class, a credit that is never used up, and     *)
(* what the peer grants.                                                   *)
OneCredit   == [t \in FcType |-> 1]
ManyCredits == [t \in FcType |-> 8]
Grants == {FcInit, OneCredit}

(* What happens to TLPs towards the peer, within one mode, when every NAK  *)
(* is the peer's.                                                          *)
Sending ==
  \/ \E v \in Vf, t \in FcType : TxTlp(v, t)
  \/ RxDllp \/ PopTlp \/ LoseDllp \/ PeerAsksAgain
  \/ \E c \in Grants : RxUpdateFc(c) \/ RxInitFc(c)
  \/ \E s \in SeqNum : InjectTlpLoss(s)
  \/ InjectDllpLoss \/ TriggerRateSwitch \/ RateReady

Next ==
  \/ Sending
  \/ \E v \in Vf, t \in FcType : RxTlp(v, t)
  \/ PopDllp
  \/ \E s \in SeqNum : TickInjectedNak(s)
  \/ ApplyMode

(* The link is ticked and the peer takes and answers what arrives.         *)
Fairness == WF_vars(RxDllp) /\ WF_vars(PopTlp) /\ WF_vars(RateReady)

Spec == Init /\ [][Next]_vars
FairSpec == Spec /\ Fairness
SendingSpec ==
  Init /\ [][Sending]_vars /\ Fairness /\ WF_vars(PeerAsksAgain)

-----------------------------------------------------------------------------
(* Every variable keeps the type of the field it stands for.               *)
TypeOK ==
  /\ fc \in [Dir -> [Vf -> Bucket]]
  /\ granted \in [Dir -> [Vf -> Credits]] /\ used \in [Dir -> [Vf -> Credits]]
  /\ next_tx_seq \in SeqNum /\ last_acked_seq \in SeqNum
  /\ retry_buf \in [SeqNum -> Serial \cup {None}]
  /\ tx_tlp_out \in Seq([seq : SeqNum, tlp : Serial])
  /\ billed \in 0..MaxBill
  /\ next_rx_seq \in SeqNum /\ tx_dllp_out \in Seq(SeqNum)
  /\ tlp_loss \subseteq SeqNum /\ drop_next_dllp \in BOOLEAN
  /\ switching \in BOOLEAN
  /\ expect \in SeqNum /\ got \in Seq(Serial) /\ nak_sent \in BOOLEAN
  /\ dllp_in \in Seq([kind : {"ACK", "NAK"}, seq : SeqNum])
  /\ sent \in 0..MaxTlp /\ taken \in 0..MaxRx /\ base \in 0..sent
  /\ faults \in 0..MaxFaults /\ naks \in 0..MaxNaks /\ modes \in 0..MaxModes

(* The link transfers each TLP once and in order, whatever TLPs and DLLPs  *)
(* are lost, NAKed and sent again (pcie_link_layer_tlm.cc:344-385,         *)
(* 495-529; "a NAK sends again in ascending order",                        *)
(* test_pcie_link_layer_nak_retransmit_order.cc:2).  It holds as long as   *)
(* every queued copy is less than a turn of the ring behind the peer, as   *)
(* in the first turn.  The code does not see to that: on_nak_received      *)
(* leaves the copies that are still queued and puts fresh ones in front,   *)
(* so an old copy may arrive a turn late, under the number of another TLP. *)
Transfer == INSTANCE LinkTransfer WITH
  Tlp <- Serial,
  accepted <- [i \in 1..(sent - base) |-> base + i],
  received <- got
TransfersInOrder == Transfer!Spec

(* A TLP that has not reached the peer can still be sent again: no ACK     *)
(* frees it early (pcie_link_layer_tlm.cc:498).                            *)
UnreceivedIsRetained ==
  \A n \in (base + Len(got) + 1)..sent : \E s \in SeqNum : retry_buf[s] = n

(* The retry buffer holds the sequence numbers after the last acknowledged *)
(* one, a half-ring at most, so that a distance is never ambiguous and     *)
(* emplace never meets an entry (pcie_link_layer_tlm.cc:360-369).          *)
RetryIsWindow ==
  /\ Outstanding = {s \in SeqNum : Dist(s, last_acked_seq) \in
                                     1..Dist(next_tx_seq, After(last_acked_seq))}
  /\ Cardinality(Outstanding) <= Window

(* No direction lets more TLPs through than it was granted credit for      *)
(* (pcie_link_layer_tlm.cc:354-357, 452-467).                              *)
CreditCoversTraffic ==
  \A d \in Dir, v \in Vf, t \in FcType :
    used[d][v][t] + fc[d][v].tokens[t] <= granted[d][v][t]

(* The ACKs towards the host name the TLPs taken, each once and in order,  *)
(* so that the last one acknowledges them all (pcie_link_layer_tlm.cc:476);*)
(* a change of mode leaves the ACKs of the old mode before the new ones.   *)
AcksInOrder ==
  modes = 0 =>
    \A i \in 1..Len(tx_dllp_out) :
      tx_dllp_out[i] = Dist(next_rx_seq, Len(tx_dllp_out) - i + 1)

(* When the transaction layer pauses, every TLP that was accepted reaches  *)
(* the peer.  It holds for a peer that keeps asking, without the encoding  *)
(* latency, which is off by default; a link layer without a replay timer   *)
(* does not recover the last TLP, or a NAK, by itself                      *)
(* (pcie_link_layer_tlm.cc:405-418).                                       *)
EveryTlpReceived ==
  sent > base + Len(got) ~> sent = base + Len(got)

(* The wire is unavailable during rate_switch_delay_us                     *)
(* (pcie_link_layer_tlm.hh:201), and only then: what is on its way to it   *)
(* when the rate is switched reaches it when the transaction layer pauses. *)
WireComesBack ==
  switching /\ tx_tlp_out # <<>> ~> tx_tlp_out = <<>>

=============================================================================
