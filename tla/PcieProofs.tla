------------------------------ MODULE PcieProofs ------------------------------
(***************************************************************************)
(* Proofs about PCIe components, for all values of their constants: the    *)
(* state of the physical link (PhyCtrl), the tags of the requester and the *)
(* functions that share one link (VfPool), requests and beats of the AXI   *)
(* bypass (HostAxi), and what the endpoint keeps twice (EndpointIp).       *)
(***************************************************************************)
EXTENDS PhyCtrl, HostAxi, VfPool, EndpointIp, FiniteSetTheorems,
        WellFoundedInduction, TLAPS

(* The physical link.  An EXCEPT changes a field because the registers     *)
(* are a record with these fields; ASPM never enters L0.                   *)
Fields == {"state", "up", "training", "rate", "switching", "to", "aspm",
           "idle", "exit", "wait", "prsnt", "slot"}

PhyRegs(p) == DOMAIN p = Fields /\ p.aspm # "L0"

(* L0 is up; what is up is in L0 or was forced up.                         *)
UpInL0(p) == (p.state = "L0" => p.up) /\ (p.up => p.state = "L0" \/ forced)

(* A removed card stays down because nothing that may bring it up is under *)
(* way: no training, no rate switch and no low-power state to leave.       *)
NothingUnderWay(p) ==
  quiet /\ ~p.prsnt => ~p.up /\ ~p.training /\ ~p.switching /\ p.state = "Detect"

ForcedIsUp == forced => phy.up /\ phy.state # "L0"

PhyInv ==
  /\ PhyRegs(phy) /\ DOMAIN link = {"switching", "ready"} /\ link.ready \in Nat
  /\ UpInL0(phy) /\ NothingUnderWay(phy) /\ ForcedIsUp /\ SwitchInStep

(* What Up and Down leave alone.                                           *)
LEMMA UpFields ==
  ASSUME NEW p, PhyRegs(p)
  PROVE  /\ PhyRegs(Up(p))
         /\ Up(p).state = "L0" /\ Up(p).up = TRUE /\ Up(p).training = p.training
         /\ Up(p).switching = p.switching /\ Up(p).prsnt = p.prsnt
         /\ Up(p).aspm = p.aspm
  BY DEF Up, PhyRegs, Fields

LEMMA DownFields ==
  ASSUME NEW p, PhyRegs(p), NEW s
  PROVE  /\ PhyRegs(Down(p, s))
         /\ Down(p, s).state = s /\ Down(p, s).up = FALSE
         /\ Down(p, s).training = p.training
         /\ Down(p, s).switching = p.switching /\ Down(p, s).prsnt = p.prsnt
         /\ Down(p, s).aspm = p.aspm
  BY DEF Down, PhyRegs, Fields

LEMMA DetectedFields ==
  ASSUME NEW p, PhyRegs(p)
  PROVE  /\ PhyRegs(Detected(p))
         /\ Detected(p).state = "Detect" /\ Detected(p).up = FALSE
         /\ Detected(p).training = FALSE
         /\ Detected(p).switching = p.switching /\ Detected(p).prsnt = p.prsnt
<1> DEFINE d == Down(p, "Detect")
<1>1. /\ PhyRegs(d) /\ d.state = "Detect" /\ d.up = FALSE
      /\ d.switching = p.switching /\ d.prsnt = p.prsnt
  BY DEF Down, PhyRegs, Fields
<1> HIDE DEF d
<1>2. Detected(p) = [d EXCEPT !.training = FALSE]
  BY DEF Detected, d
<1>3. QED
  BY <1>1, <1>2 DEF PhyRegs, Fields

LEMMA StartTrainingFields ==
  ASSUME NEW p, PhyRegs(p)
  PROVE  /\ PhyRegs(StartTraining(p))
         /\ StartTraining(p).state = "Detect" /\ StartTraining(p).up = FALSE
         /\ StartTraining(p).switching = p.switching /\ StartTraining(p).prsnt = p.prsnt
<1> DEFINE d == Down(p, "Detect")
<1>1. /\ PhyRegs(d) /\ d.state = "Detect" /\ d.up = FALSE
      /\ d.switching = p.switching /\ d.prsnt = p.prsnt
  BY DEF Down, PhyRegs, Fields
<1> HIDE DEF d
<1>2. StartTraining(p) = [d EXCEPT !.training = TRUE]
  BY DEF StartTraining, d
<1>3. QED
  BY <1>1, <1>2 DEF PhyRegs, Fields

(* Each part of tick keeps the record, L0 up and a removed card down, and  *)
(* only Switched ends a rate switch.                                       *)
Kept(p) == PhyRegs(p) /\ UpInL0(p) /\ NothingUnderWay(p)

LEMMA TrainedKeeps ==
  ASSUME NEW p, Kept(p)
  PROVE  Kept(Trained(p)) /\ Trained(p).switching = p.switching
<1>1. CASE ~p.training
  BY <1>1 DEF Trained
<1>2. CASE p.training /\ p.state = "Configuration"
  <2> DEFINE q == [Up(p) EXCEPT !.training = FALSE]
  <2>1. Trained(p) = q
    BY <1>2 DEF Trained
  <2>2. /\ PhyRegs(q) /\ q.state = "L0" /\ q.up = TRUE
        /\ q.switching = p.switching /\ q.prsnt = p.prsnt
    BY UpFields DEF Kept, PhyRegs, Fields
  <2>3. QED
    BY <1>2, <2>1, <2>2 DEF Kept, UpInL0, NothingUnderWay
<1>3. CASE p.training /\ p.state # "Configuration"
  <2> DEFINE q == [p EXCEPT !.state = AfterState(p.state)]
  <2>1. Trained(p) = q
    BY <1>3 DEF Trained
  <2>2. /\ PhyRegs(q) /\ q.state = AfterState(p.state) /\ q.up = p.up
        /\ q.switching = p.switching /\ q.prsnt = p.prsnt
    BY DEF Kept, PhyRegs, Fields
  <2>3. AfterState(p.state) = "L0" <=> p.state = "L0"
    BY DEF AfterState
  <2>4. QED
    BY <1>3, <2>1, <2>2, <2>3 DEF Kept, UpInL0, NothingUnderWay
<1>4. QED
  BY <1>1, <1>2, <1>3

LEMMA SwitchedKeeps ==
  ASSUME NEW p, Kept(p)
  PROVE  /\ Kept(Switched(p))
         /\ Switched(p).switching <=> p.switching /\ link.ready # 0
<1>1. CASE ~(p.switching /\ link.ready = 0)
  BY <1>1 DEF Switched
<1>2. CASE p.switching /\ link.ready = 0
  <2> DEFINE q == [Up(p) EXCEPT !.switching = FALSE, !.rate = p.to]
  <2>1. Switched(p) = q
    BY <1>2 DEF Switched
  <2>2. PhyRegs(q) /\ q.state = "L0" /\ q.up = TRUE /\ q.switching = FALSE /\ q.prsnt = p.prsnt
    BY UpFields DEF Kept, PhyRegs, Fields
  <2>3. QED
    BY <1>2, <2>1, <2>2 DEF Kept, UpInL0, NothingUnderWay
<1>3. QED
  BY <1>1, <1>2

LEMMA IdledKeeps ==
  ASSUME NEW p, Kept(p)
  PROVE  Kept(Idled(p)) /\ Idled(p).switching = p.switching
<1>1. CASE Idled(p) = p
  BY <1>1
<1>2. CASE Idled(p) # p
  <2>1. Idled(p) = Down(p, p.aspm) /\ p.state = "L0"
    BY <1>2 DEF Idled
  <2> DEFINE d == Down(p, p.aspm)
  <2>2. /\ PhyRegs(d) /\ d.state = p.aspm /\ d.up = FALSE
        /\ d.training = p.training /\ d.switching = p.switching /\ d.prsnt = p.prsnt
    BY DEF Down, PhyRegs, Fields, Kept
  <2>3. QED
    BY <2>1, <2>2 DEF Kept, UpInL0, NothingUnderWay, PhyRegs
<1>3. QED
  BY <1>1, <1>2

LEMMA ExitLowPowerKeeps ==
  ASSUME NEW p, Kept(p)
  PROVE  Kept(ExitLowPower(p)) /\ ExitLowPower(p).switching = p.switching
  BY UpFields DEF ExitLowPower, Kept, UpInL0, NothingUnderWay

LEMMA WokenKeeps ==
  ASSUME NEW p, Kept(p)
  PROVE  Kept(Woken(p)) /\ Woken(p).switching = p.switching
<1>1. CASE Woken(p) = p
  BY <1>1
<1>2. CASE Woken(p) # p
  <2> DEFINE e == ExitLowPower(p)
             q == [e EXCEPT !.exit = FALSE]
  <2>1. Woken(p) = q
    BY <1>2 DEF Woken
  <2>2. Kept(e) /\ e.switching = p.switching
    BY ExitLowPowerKeeps
  <2> HIDE DEF e
  <2>3. /\ PhyRegs(q) /\ q.state = e.state /\ q.up = e.up /\ q.training = e.training
        /\ q.switching = e.switching /\ q.prsnt = e.prsnt
    BY <2>2 DEF Kept, PhyRegs, Fields
  <2>4. QED
    BY <2>1, <2>2, <2>3 DEF Kept, UpInL0, NothingUnderWay
<1>3. QED
  BY <1>1, <1>2

(* An operation a host asks for keeps the invariant if it keeps the record *)
(* and the rate switch, and says L0 only of a link that is up.             *)
LEMMA AskedKeeps ==
  ASSUME PhyInv, NEW p, Asked(p), PhyRegs(p), UpInL0(p), p.switching = phy.switching
  PROVE  PhyInv'
<1>1. phy' = p /\ ~quiet' /\ link' = link /\ forced' = (forced /\ p.up /\ p.state # "L0")
  BY DEF Asked
<1>2. PhyRegs(phy)' /\ NothingUnderWay(phy)' /\ ForcedIsUp' /\ SwitchInStep'
  BY <1>1 DEF PhyInv, PhyRegs, NothingUnderWay, ForcedIsUp, SwitchInStep
<1>3. UpInL0(phy)'
  BY <1>1 DEF UpInL0
<1>4. QED
  BY <1>1, <1>2, <1>3 DEF PhyInv

LEMMA StepPhyInv ==
  ASSUME PhyInv, [PhyNext]_phyVars, SwitchDelay \in Nat
  PROVE  PhyInv'
<1> USE DEF PhyInv
<1>1. CASE StartLinkTraining
  BY <1>1, StartTrainingFields, AskedKeeps DEF StartLinkTraining, UpInL0
<1>2. CASE ExitLow
  BY <1>2, ExitLowPowerKeeps, AskedKeeps DEF ExitLow, Kept
<1>3. CASE OnTraffic
  <2>1. /\ PhyRegs(phy') /\ phy'.state = phy.state /\ phy'.up = phy.up
        /\ phy'.training = phy.training /\ phy'.switching = phy.switching
        /\ phy'.prsnt = phy.prsnt
    BY <1>3 DEF OnTraffic, PhyRegs, Fields
  <2>2. QED
    BY <1>3, <2>1 DEF OnTraffic, PhyRegs, UpInL0, NothingUnderWay, ForcedIsUp, SwitchInStep
<1>4. ASSUME NEW b \in BOOLEAN, SetLinkUp(b) PROVE PhyInv'
  <2>1. CASE b
    <3>1. /\ PhyRegs(phy') /\ phy'.state = phy.state /\ phy'.up = TRUE
          /\ phy'.switching = phy.switching /\ phy'.prsnt = phy.prsnt
      BY <1>4, <2>1 DEF SetLinkUp, PhyRegs, Fields
    <3>2. QED
      BY <1>4, <2>1, <3>1 DEF SetLinkUp, PhyRegs, UpInL0, NothingUnderWay, ForcedIsUp, SwitchInStep
  <2>2. CASE ~b
    BY <1>4, <2>2, DetectedFields
       DEF SetLinkUp, PhyRegs, UpInL0, NothingUnderWay, ForcedIsUp, SwitchInStep
  <2>3. QED
    BY <2>1, <2>2
<1>5. ASSUME NEW b \in BOOLEAN, SignalPrsnt(b) PROVE PhyInv'
  <2>1. CASE phy.prsnt /\ ~b
    <3> DEFINE d == Detected(phy)
    <3>1. PhyRegs(d) /\ d.state = "Detect" /\ d.up = FALSE /\ d.training = FALSE
          /\ d.switching = phy.switching
      BY DetectedFields
    <3>2. phy' = [d EXCEPT !.prsnt = FALSE] /\ ~forced' /\ quiet' = ~phy.switching
          /\ link' = link
      BY <1>5, <2>1 DEF SignalPrsnt
    <3> HIDE DEF d
    <3>3. /\ PhyRegs(phy') /\ phy'.state = "Detect" /\ phy'.up = FALSE
          /\ phy'.training = FALSE /\ phy'.switching = phy.switching
      BY <3>1, <3>2 DEF PhyRegs, Fields
    <3>4. QED
      BY <3>2, <3>3 DEF PhyRegs, UpInL0, NothingUnderWay, ForcedIsUp, SwitchInStep
  <2>2. CASE ~(phy.prsnt /\ ~b)
    <3>1. /\ PhyRegs(phy') /\ phy'.state = phy.state /\ phy'.up = phy.up
          /\ phy'.training = phy.training /\ phy'.switching = phy.switching
          /\ phy'.prsnt = b
      BY <1>5, <2>2 DEF SignalPrsnt, PhyRegs, Fields
    <3>2. QED
      BY <1>5, <2>2, <3>1
         DEF SignalPrsnt, PhyRegs, UpInL0, NothingUnderWay, ForcedIsUp, SwitchInStep
  <2>3. QED
    BY <2>1, <2>2
<1>6. ASSUME NEW b \in BOOLEAN, SignalSlot(b) PROVE PhyInv'
  <2>1. /\ PhyRegs(phy') /\ phy'.state = phy.state /\ phy'.up = phy.up
        /\ phy'.training = phy.training /\ phy'.switching = phy.switching
        /\ phy'.prsnt = phy.prsnt
    BY <1>6 DEF SignalSlot, PhyRegs, Fields
  <2>2. QED
    BY <1>6, <2>1 DEF SignalSlot, PhyRegs, UpInL0, NothingUnderWay, ForcedIsUp, SwitchInStep
<1>7. ASSUME NEW b \in BOOLEAN, SignalPerst(b) PROVE PhyInv'
  <2>1. /\ link' = link /\ quiet' = quiet /\ forced' = (forced /\ phy'.up)
        /\ \/ phy' = Down(phy, "Hot_Reset") /\ phy.state \in {"Recovery", "Hot_Reset"}
           \/ phy' = Detected(phy)
           \/ phy' = StartTraining(phy) /\ phy.prsnt
           \/ phy' = phy
    BY <1>7 DEF SignalPerst
  <2>2. CASE phy' = Down(phy, "Hot_Reset") /\ phy.state \in {"Recovery", "Hot_Reset"}
    <3> DEFINE d == Down(phy, "Hot_Reset")
    <3>1. /\ PhyRegs(d) /\ d.state = "Hot_Reset" /\ d.up = FALSE
          /\ d.training = phy.training /\ d.switching = phy.switching
          /\ d.prsnt = phy.prsnt
      BY DEF Down, PhyRegs, Fields
    <3> HIDE DEF d
    <3>2. phy' = d
      BY <2>2 DEF d
    <3>3. QED
      BY <2>1, <2>2, <3>1, <3>2
         DEF PhyRegs, UpInL0, NothingUnderWay, ForcedIsUp, SwitchInStep
  <2>3. CASE phy' = Detected(phy)
    BY <2>1, <2>3, DetectedFields
       DEF PhyRegs, UpInL0, NothingUnderWay, ForcedIsUp, SwitchInStep
  <2>4. CASE phy' = StartTraining(phy) /\ phy.prsnt
    BY <2>1, <2>4, StartTrainingFields
       DEF PhyRegs, UpInL0, NothingUnderWay, ForcedIsUp, SwitchInStep
  <2>5. CASE phy' = phy
    BY <2>1, <2>5 DEF PhyRegs, UpInL0, NothingUnderWay, ForcedIsUp, SwitchInStep
  <2>6. QED
    BY <2>1, <2>2, <2>3, <2>4, <2>5
<1>8. ASSUME NEW s \in LowPower, SetActiveState(s) PROVE PhyInv'
  BY <1>8, DownFields, AskedKeeps DEF SetActiveState, UpInL0, LowPower
<1>9. ASSUME NEW s \in {"Disabled", "Loopback", "Hot_Reset"}, EnterState(s) PROVE PhyInv'
  BY <1>9, DownFields, AskedKeeps DEF EnterState, UpInL0
<1>10. ASSUME NEW r \in Rates, StartRateSwitch(r) PROVE PhyInv'
  <2> DEFINE d == Down(phy, "Recovery")
  <2>1. PhyRegs(d) /\ d.state = "Recovery" /\ d.up = FALSE
    BY DEF Down, PhyRegs, Fields
  <2>2. /\ phy' = [d EXCEPT !.switching = TRUE, !.to = r, !.training = FALSE]
        /\ link' = [switching |-> TRUE, ready |-> SwitchDelay] /\ ~forced' /\ ~quiet'
    BY <1>10 DEF StartRateSwitch
  <2> HIDE DEF d
  <2>3. PhyRegs(phy') /\ phy'.state = "Recovery" /\ phy'.up = FALSE /\ phy'.switching = TRUE
    BY <2>1, <2>2 DEF PhyRegs, Fields
  <2>4. QED
    BY <2>2, <2>3 DEF PhyRegs, UpInL0, NothingUnderWay, ForcedIsUp, SwitchInStep
<1>11. ASSUME NEW l \in AspmLevel, EnableAspm(l) PROVE PhyInv'
  <2> DEFINE p == [phy EXCEPT !.aspm = l, !.idle = 0]
             e == ExitLowPower(p)
             q == [e EXCEPT !.exit = FALSE]
  <2>1. /\ PhyRegs(p) /\ p.state = phy.state /\ p.up = phy.up /\ p.training = phy.training
        /\ p.switching = phy.switching /\ p.prsnt = phy.prsnt
    BY DEF PhyRegs, Fields, AspmLevel
  <2>2. Asked(q) \/ Asked(p)
    BY <1>11 DEF EnableAspm
  <2> HIDE DEF p
  <2>3. Kept(p)
    BY <2>1 DEF Kept, UpInL0, NothingUnderWay
  <2>4. Kept(e) /\ e.switching = phy.switching
    BY <2>1, <2>3, ExitLowPowerKeeps
  <2> HIDE DEF e
  <2>5. PhyRegs(q) /\ q.state = e.state /\ q.up = e.up /\ q.switching = e.switching
    BY <2>4 DEF Kept, PhyRegs, Fields
  <2> HIDE DEF q
  <2>6. PhyRegs(q) /\ UpInL0(q) /\ q.switching = phy.switching
    BY <2>4, <2>5 DEF Kept, UpInL0
  <2>7. QED
    BY <2>1, <2>2, <2>3, <2>6, AskedKeeps DEF Kept
<1>12. CASE LpmTick
  <2> DEFINE t == Trained(phy)
             s == Switched(t)
             i == Idled(s)
             p == Woken(i)
  <2>1. Kept(phy)
    BY DEF Kept
  <2>2. Kept(t) /\ t.switching = phy.switching
    BY <2>1, TrainedKeeps
  <2>3. Kept(s) /\ (s.switching <=> phy.switching /\ link.ready # 0)
    BY <2>2, SwitchedKeeps
  <2>4. Kept(i) /\ i.switching = s.switching
    BY <2>3, IdledKeeps
  <2>5. Kept(p) /\ p.switching = i.switching
    BY <2>4, WokenKeeps
  <2>6. /\ phy' = [p EXCEPT !.idle = AtMost(p.idle + 1, IdleL1),
                            !.wait = AtMost(p.wait + 1, ExitL1)]
        /\ link' = [switching |-> link.switching /\ link.ready > 0,
                    ready |-> IF link.ready > 0 THEN link.ready - 1 ELSE 0]
        /\ forced' = (forced /\ p.up /\ p.state # "L0") /\ quiet' = quiet
    BY <1>12 DEF LpmTick
  <2> HIDE DEF t, s, i, p
  <2>7. /\ PhyRegs(phy') /\ phy'.state = p.state /\ phy'.up = p.up
        /\ phy'.training = p.training /\ phy'.switching = p.switching
        /\ phy'.prsnt = p.prsnt
    BY <2>5, <2>6 DEF Kept, PhyRegs, Fields
  <2>8. UpInL0(phy)' /\ NothingUnderWay(phy)' /\ ForcedIsUp'
    BY <2>5, <2>6, <2>7 DEF Kept, UpInL0, NothingUnderWay, ForcedIsUp
  <2>9. /\ link'.switching <=> link.switching /\ link.ready # 0
        /\ DOMAIN link' = {"switching", "ready"} /\ link'.ready \in Nat
    <3>1. /\ link'.switching = (link.switching /\ link.ready > 0)
          /\ link'.ready = IF link.ready > 0 THEN link.ready - 1 ELSE 0
          /\ DOMAIN link' = {"switching", "ready"}
      BY <2>6
    <3>2. link.ready > 0 <=> link.ready # 0
      OBVIOUS
    <3>3. link'.switching <=> link.switching /\ link.ready # 0
      BY <3>1, <3>2, Zenon
    <3>4. link'.ready \in Nat
      BY <3>1
    <3>5. QED
      BY <3>1, <3>3, <3>4
  <2>10. phy'.switching <=> phy.switching /\ link.ready # 0
    BY <2>3, <2>4, <2>5, <2>7
  <2>11. SwitchInStep'
    <3>1. link.ready # 0 => (phy.switching => link.switching)
      BY DEF SwitchInStep
    <3>2. QED
      BY <2>9, <2>10, <3>1 DEF SwitchInStep
  <2>12. QED
    BY <2>7, <2>8, <2>9, <2>11 DEF PhyRegs
<1>13. CASE LinkTraffic
  <2>1. /\ DOMAIN link' = {"switching", "ready"} /\ link'.ready = link.ready
        /\ link'.switching = (link.switching /\ link.ready > 0)
    BY <1>13 DEF LinkTraffic
  <2>2. phy' = phy /\ forced' = forced /\ quiet' = quiet
    BY <1>13 DEF LinkTraffic
  <2>3. link.ready > 0 \/ link.ready = 0
    OBVIOUS
  <2>4. SwitchInStep'
    BY <2>1, <2>2, <2>3, Zenon DEF SwitchInStep
  <2>5. QED
    BY <2>1, <2>2, <2>4 DEF PhyRegs, UpInL0, NothingUnderWay, ForcedIsUp
<1>14. CASE UNCHANGED phyVars
  BY <1>14 DEF phyVars, PhyRegs, UpInL0, NothingUnderWay, ForcedIsUp, SwitchInStep
<1>15. QED
  BY <1>1, <1>2, <1>3, <1>4, <1>5, <1>6, <1>7, <1>8, <1>9, <1>10, <1>11, <1>12,
     <1>13, <1>14 DEF PhyNext

(* The PHY's link is up exactly in L0 unless set_link_up said otherwise,   *)
(* the link layer switches the rate only while the PHY does and no longer  *)
(* than the PHY, and a removed card stays down: whatever the delays, and   *)
(* whatever order requests and packets come in.                            *)
THEOREM LinkStateHolds ==
  ASSUME SwitchDelay \in Nat
  PROVE  PhySpec => []LinkStateSound
<1>1. PhyInit => PhyInv
  BY DEF PhyInit, PhyInv, PhyRegs, Fields, UpInL0, NothingUnderWay, ForcedIsUp, SwitchInStep
<1>2. PhyInv /\ [PhyNext]_phyVars => PhyInv'
  BY StepPhyInv
<1>3. PhyInv => LinkStateSound
  BY DEF PhyInv, UpInL0, NothingUnderWay, LinkStateSound, UpIsL0, SwitchInStep,
         RemovedStaysDown
<1>4. QED
  BY <1>1, <1>2, <1>3, PTL DEF PhySpec
-----------------------------------------------------------------------------
(* A set of numbers has a least one.                                       *)
LEMMA LeastNat ==
  ASSUME NEW T, T \subseteq Nat, T # {}
  PROVE  \E m \in T : \A k \in T : m <= k
<1>1. PICK m \in T : \A k \in T : ~(<<k, m>> \in OpToRel(<, Nat))
  BY WFMin, NatLessThanWellFounded
<1>2. ASSUME NEW k \in T PROVE m <= k
  <2>1. k \in Nat /\ m \in Nat
    OBVIOUS
  <2>2. ~(k < m)
    BY <1>1, <2>1 DEF OpToRel
  <2> QED BY <2>1, <2>2
<1> QED BY <1>2

(* MAX_TAG and the ring of the tags on the wire, TagMod, which is not      *)
(* empty.                                                                  *)
TagsOk == MaxTag \in Nat /\ TagMod \in Nat \ {0}

(* Reads are numbered as they are posted; each has the tag it was given.   *)
ReadsNumbered ==
  /\ last_tag \in Nat
  /\ Cardinality(DOMAIN reads) \in Nat
  /\ DOMAIN reads = 1..Cardinality(DOMAIN reads)
  /\ \A r \in DOMAIN reads : reads[r] \in Nat

(* A tag that is outstanding is that of the read it stands for, so no two  *)
(* tags stand for one read.                                                *)
TagsNameReads ==
  /\ IsFiniteSet(DOMAIN outstanding)
  /\ \A t \in DOMAIN outstanding :
       /\ outstanding[t] \in [read : DOMAIN reads, age : Int]
       /\ reads[outstanding[t].read] = t

(* Each read is awaited, ended by a completion, or timed out, and never    *)
(* two of these.                                                           *)
EndedOnce ==
  /\ DOMAIN reads = Awaiting \cup Finished \cup errors
  /\ Awaiting \cap Finished = {} /\ Awaiting \cap errors = {} /\ Finished \cap errors = {}
  /\ IsFiniteSet(done) /\ done \subseteq [read : DOMAIN reads, of : DOMAIN reads]
  /\ \A d, e \in done : d.read = e.read => d = e

(* The completer answers a request once: a request is on the wire, its     *)
(* completion is on the way back, or it was taken, and no two completions  *)
(* are of one request.                                                     *)
AnsweredOnce ==
  /\ wire \subseteq DOMAIN reads
  /\ \A c \in back : /\ c \in [tag : Nat, of : DOMAIN reads]
                     /\ c.tag = reads[c.of] % TagMod
  /\ \A c \in back : c.of \notin wire
  /\ \A d \in done : d.of \notin wire
  /\ \A c \in back, d \in done : c.of # d.of

(* The reads that a completion of another one ended.                       *)
Mistaken == {e.read : e \in {x \in done : x.read # x.of}}

(* A completion is taken for its own read, but for the two cases the code  *)
(* leaves open: a tag that was cut on the wire, and a read that was over.  *)
TakenForOwn ==
  \A d \in done : d.read = d.of \/ reads[d.of] >= TagMod \/ d.of \in errors \cup Mistaken

ReqInv == ReadsNumbered /\ TagsNameReads /\ EndedOnce /\ AnsweredOnce /\ TakenForOwn

(* The tag that mrd_read chooses is not outstanding.                       *)
LEMMA TagIsFree ==
  ASSUME TagsOk, last_tag \in Nat, Free # {}
  PROVE  Tag \notin DOMAIN outstanding /\ Tag \in Nat
<1> DEFINE i == CHOOSE i \in Free : \A j \in Free : i <= j
<1>1. Free \subseteq Nat
  BY DEF Free, TagsOk
<1>2. \E x \in Free : \A j \in Free : x <= j
  BY <1>1, LeastNat
<1>3. i \in Free
  BY <1>2
<1>4. Tag = Candidate(i)
  BY DEF Tag
<1> HIDE DEF i
<1>5. i \in 1..MaxTag /\ Candidate(i) \notin DOMAIN outstanding
  BY <1>3 DEF Free
<1>6. Candidate(i) \in Nat
  BY <1>5 DEF Candidate, TagsOk
<1> QED BY <1>4, <1>5, <1>6

(* What is left of the outstanding requests when the tags S are struck.    *)
LEMMA WithoutIs ==
  ASSUME NEW S
  PROVE  /\ DOMAIN Without(S) = DOMAIN outstanding \ S
         /\ \A t \in DOMAIN outstanding \ S : Without(S)[t] = outstanding[t]
BY DEF Without

(* A read is posted under a free tag.                                      *)
LEMMA MrdReadKeeps ==
  ASSUME TagsOk, ReqInv, MrdRead
  PROVE  ReqInv'
<1> DEFINE n == Cardinality(DOMAIN reads)
           r == n + 1
<1>1. /\ n \in Nat /\ DOMAIN reads = 1..n /\ r \notin DOMAIN reads
  BY DEF ReqInv, ReadsNumbered
<1>2. Tag \notin DOMAIN outstanding /\ Tag \in Nat
  BY TagIsFree DEF ReqInv, ReadsNumbered, MrdRead
<1>3. /\ DOMAIN reads' = DOMAIN reads \cup {r} /\ reads'[r] = Tag
      /\ \A x \in DOMAIN reads : reads'[x] = reads[x]
  BY <1>1 DEF MrdRead
<1>4. /\ DOMAIN outstanding' = DOMAIN outstanding \cup {Tag}
      /\ outstanding'[Tag] = [read |-> r, age |-> 0]
      /\ \A t \in DOMAIN outstanding : outstanding'[t] = outstanding[t]
  BY <1>2 DEF MrdRead
<1>5. /\ last_tag' = Tag /\ wire' = wire \cup {r}
      /\ UNCHANGED <<back, done, errors>>
  BY DEF MrdRead
<1>6. ReadsNumbered'
  <2>1. DOMAIN reads' = 1..(n + 1)
    BY <1>1, <1>3
  <2>2. Cardinality(1..(n + 1)) = n + 1
    BY <1>1, FS_Interval
  <2>3. \A x \in DOMAIN reads' : reads'[x] \in Nat
    BY <1>2, <1>3 DEF ReqInv, ReadsNumbered
  <2> QED BY <1>1, <1>2, <1>5, <2>1, <2>2, <2>3 DEF ReadsNumbered
<1> HIDE DEF n, r
<1>7. TagsNameReads'
  <2>1. IsFiniteSet(DOMAIN outstanding')
    BY <1>4, FS_AddElement DEF ReqInv, TagsNameReads
  <2>2. ASSUME NEW t \in DOMAIN outstanding'
        PROVE  /\ outstanding'[t] \in [read : DOMAIN reads', age : Int]
               /\ reads'[outstanding'[t].read] = t
    <3>1. CASE t = Tag
      BY <1>3, <1>4, <3>1
    <3>2. CASE t # Tag
      <4>1. /\ outstanding[t] \in [read : DOMAIN reads, age : Int]
            /\ reads[outstanding[t].read] = t /\ outstanding'[t] = outstanding[t]
        BY <1>4, <2>2, <3>2 DEF ReqInv, TagsNameReads
      <4> QED BY <1>3, <4>1
    <3> QED BY <3>1, <3>2
  <2> QED BY <2>1, <2>2 DEF TagsNameReads
<1>8. Awaiting' = Awaiting \cup {r} /\ Finished' = Finished
  BY <1>4, <1>5 DEF Awaiting, Finished
<1>9. EndedOnce'
  <2>1. r \notin Finished /\ r \notin errors
    BY <1>1 DEF ReqInv, EndedOnce
  <2>2. done' \subseteq [read : DOMAIN reads', of : DOMAIN reads']
    BY <1>3, <1>5 DEF ReqInv, EndedOnce
  <2> QED BY <1>3, <1>5, <1>8, <2>1, <2>2 DEF ReqInv, EndedOnce
<1>10. AnsweredOnce'
  <2>1. \A c \in back : c.of # r /\ c.of \in DOMAIN reads
    BY <1>1 DEF ReqInv, AnsweredOnce
  <2>2. \A d \in done : d.of # r
    BY <1>1 DEF ReqInv, EndedOnce
  <2>3. wire' \subseteq DOMAIN reads'
    BY <1>3, <1>5 DEF ReqInv, AnsweredOnce
  <2>4. \A c \in back' : c \in [tag : Nat, of : DOMAIN reads'] /\ c.tag = reads'[c.of] % TagMod
    BY <1>3, <1>5, <2>1 DEF ReqInv, AnsweredOnce
  <2> QED BY <1>5, <2>1, <2>2, <2>3, <2>4 DEF ReqInv, AnsweredOnce
<1>11. TakenForOwn'
  <2>1. \A d \in done : d.of \in DOMAIN reads
    BY DEF ReqInv, EndedOnce
  <2>2. Mistaken' = Mistaken
    BY <1>5 DEF Mistaken
  <2> QED BY <1>3, <1>5, <2>1, <2>2 DEF ReqInv, TakenForOwn
<1> QED BY <1>6, <1>7, <1>9, <1>10, <1>11 DEF ReqInv

(* The completer answers a request.                                        *)
LEMMA HandleKeeps ==
  ASSUME TagsOk, ReqInv, NEW r \in wire, HandleMemRead(r)
  PROVE  ReqInv'
<1> DEFINE c == [tag |-> reads[r] % TagMod, of |-> r]
<1>1. /\ wire' = wire \ {r} /\ back' = back \cup {c}
      /\ UNCHANGED <<outstanding, last_tag, reads, done, errors>>
  BY DEF HandleMemRead
<1>2. r \in DOMAIN reads /\ reads[r] \in Nat
  BY DEF ReqInv, AnsweredOnce, ReadsNumbered
<1>3. c \in [tag : Nat, of : DOMAIN reads] /\ c.tag = reads[c.of] % TagMod /\ c.of = r
  BY <1>2 DEF TagsOk
<1> HIDE DEF c
<1>4. AnsweredOnce'
  BY <1>1, <1>3 DEF ReqInv, AnsweredOnce
<1>5. Awaiting' = Awaiting /\ Finished' = Finished /\ Mistaken' = Mistaken
  BY <1>1 DEF Awaiting, Finished, Mistaken
<1> QED BY <1>1, <1>4, <1>5 DEF ReqInv, ReadsNumbered, TagsNameReads, EndedOnce, TakenForOwn

(* A packet is lost.                                                       *)
LEMMA LostKeeps ==
  ASSUME ReqInv, Lost
  PROVE  ReqInv'
<1>1. /\ wire' \subseteq wire /\ back' \subseteq back
      /\ UNCHANGED <<outstanding, last_tag, reads, done, errors>>
  BY DEF Lost
<1>2. AnsweredOnce'
  BY <1>1 DEF ReqInv, AnsweredOnce
<1>3. Awaiting' = Awaiting /\ Finished' = Finished /\ Mistaken' = Mistaken
  BY <1>1 DEF Awaiting, Finished, Mistaken
<1> QED BY <1>1, <1>2, <1>3 DEF ReqInv, ReadsNumbered, TagsNameReads, EndedOnce, TakenForOwn

(* A read is outstanding under one tag.                                    *)
LEMMA ReadNamesTag ==
  ASSUME ReqInv, NEW t \in DOMAIN outstanding, NEW u \in DOMAIN outstanding,
         outstanding[t].read = outstanding[u].read
  PROVE  t = u
BY DEF ReqInv, TagsNameReads

(* A completion ends the read outstanding under its tag: its own, unless   *)
(* the tag was cut or its own was over.                                    *)
LEMMA CpldKeeps ==
  ASSUME TagsOk, ReqInv, NEW c \in back, OnCpldReceived(c)
  PROVE  ReqInv'
<1>1. /\ c \in [tag : Nat, of : DOMAIN reads] /\ c.tag = reads[c.of] % TagMod
      /\ reads[c.of] \in Nat
  BY DEF ReqInv, AnsweredOnce, ReadsNumbered
<1>2. back' = back \ {c} /\ UNCHANGED <<last_tag, reads, wire, errors>>
  BY DEF OnCpldReceived
<1>3. ReadsNumbered'
  BY <1>2 DEF ReqInv, ReadsNumbered
<1>4. CASE c.tag \notin DOMAIN outstanding
  <2>1. UNCHANGED <<outstanding, done>>
    BY <1>4 DEF OnCpldReceived
  <2>2. AnsweredOnce'
    BY <1>2, <2>1 DEF ReqInv, AnsweredOnce
  <2>3. Awaiting' = Awaiting /\ Finished' = Finished /\ Mistaken' = Mistaken
    BY <2>1 DEF Awaiting, Finished, Mistaken
  <2> QED BY <1>2, <1>3, <2>1, <2>2, <2>3
          DEF ReqInv, TagsNameReads, EndedOnce, TakenForOwn
<1>5. CASE c.tag \in DOMAIN outstanding
  <2> DEFINE r == outstanding[c.tag].read
             d == [read |-> r, of |-> c.of]
  <2>1. done' = done \cup {d} /\ outstanding' = Without({c.tag})
    BY <1>5 DEF OnCpldReceived
  <2>2. r \in DOMAIN reads /\ reads[r] = c.tag /\ r \in Awaiting
    BY <1>5 DEF ReqInv, TagsNameReads, Awaiting
  <2>3. d \in [read : DOMAIN reads, of : DOMAIN reads] /\ d.read = r /\ d.of = c.of
    BY <1>1, <2>2
  <2>4. /\ DOMAIN outstanding' = DOMAIN outstanding \ {c.tag}
        /\ \A t \in DOMAIN outstanding' : outstanding'[t] = outstanding[t]
    BY <2>1, WithoutIs
  <2>5. Awaiting' = Awaiting \ {r}
    BY <1>5, <2>4, ReadNamesTag DEF Awaiting
  <2> HIDE DEF r, d
  <2>6. Finished' = Finished \cup {r} /\ Mistaken \subseteq Mistaken'
    BY <2>1, <2>3 DEF Finished, Mistaken
  <2>7. TagsNameReads'
    BY <1>2, <2>4, FS_RemoveElement DEF ReqInv, TagsNameReads
  <2>8. EndedOnce'
    <3>1. r \notin Finished /\ r \notin errors
      BY <2>2 DEF ReqInv, EndedOnce
    <3>2. IsFiniteSet(done') /\ done' \subseteq [read : DOMAIN reads', of : DOMAIN reads']
      BY <1>2, <2>1, <2>3, FS_AddElement DEF ReqInv, EndedOnce
    <3>3. \A x, y \in done' : x.read = y.read => x = y
      <4>1. \A x \in done : x.read # r
        BY <3>1 DEF Finished
      <4> QED BY <2>1, <2>3, <4>1 DEF ReqInv, EndedOnce
    <3>4. /\ DOMAIN reads' = Awaiting' \cup Finished' \cup errors'
          /\ Awaiting' \cap Finished' = {} /\ Awaiting' \cap errors' = {}
          /\ Finished' \cap errors' = {}
      BY <1>2, <2>2, <2>5, <2>6, <3>1 DEF ReqInv, EndedOnce
    <3> QED BY <3>2, <3>3, <3>4 DEF EndedOnce
  <2>9. AnsweredOnce'
    <3>1. \A x \in back' : x.of # c.of
      <4>1. \A x \in back : x \in [tag : Nat, of : DOMAIN reads] /\ x.tag = reads[x.of] % TagMod
        BY DEF ReqInv, AnsweredOnce
      <4>2. \A x \in back : x.of = c.of => x = c
        BY <1>1, <4>1
      <4> QED BY <1>2, <4>2
    <3>2. c.of \notin wire
      BY DEF ReqInv, AnsweredOnce
    <3> QED BY <1>2, <2>1, <2>3, <3>1, <3>2 DEF ReqInv, AnsweredOnce
  <2>10. TakenForOwn'
    <3>1. d.read = d.of \/ reads[d.of] >= TagMod \/ d.of \in errors \cup Mistaken
      <4> SUFFICES ASSUME r # c.of, ~(reads[c.of] >= TagMod), c.of \notin errors
                   PROVE  c.of \in Mistaken
        BY <2>3
      <4>1. c.tag = reads[c.of]
        BY <1>1 DEF TagsOk
      <4>2. c.of \notin Awaiting
        <5> SUFFICES ASSUME NEW t \in DOMAIN outstanding, outstanding[t].read = c.of
                     PROVE  FALSE
          BY DEF Awaiting
        <5>1. t = c.tag
          BY <4>1 DEF ReqInv, TagsNameReads
        <5> QED BY <5>1 DEF r
      <4>3. c.of \in Finished
        BY <1>1, <4>2 DEF ReqInv, EndedOnce
      <4>4. PICK e \in done : e.read = c.of
        BY <4>3 DEF Finished
      <4>5. e.of # c.of
        BY DEF ReqInv, AnsweredOnce
      <4> QED BY <4>4, <4>5 DEF Mistaken
    <3>2. \A x \in done : x.read = x.of \/ reads[x.of] >= TagMod \/ x.of \in errors \cup Mistaken
      BY DEF ReqInv, TakenForOwn
    <3> QED BY <1>2, <2>1, <2>6, <3>1, <3>2 DEF TakenForOwn
  <2> QED BY <1>3, <2>7, <2>8, <2>9, <2>10 DEF ReqInv
<1> QED BY <1>4, <1>5

(* A tick ends the reads that are too old.                                 *)
LEMMA TickKeepsReads ==
  ASSUME ReqInv, RequesterTick
  PROVE  ReqInv'
<1> DEFINE Old == {t \in DOMAIN outstanding : outstanding[t].age + 1 >= TimeoutNs}
           failed == {outstanding[t].read : t \in Old}
<1>1. /\ errors' = errors \cup failed /\ UNCHANGED <<last_tag, reads, wire, back, done>>
      /\ outstanding' = [t \in DOMAIN Without(Old) |-> [Without(Old)[t] EXCEPT !.age = @ + 1]]
  BY DEF RequesterTick
<1>2. /\ DOMAIN outstanding' = DOMAIN outstanding \ Old
      /\ \A t \in DOMAIN outstanding' :
           outstanding'[t] = [outstanding[t] EXCEPT !.age = @ + 1]
  BY <1>1, WithoutIs
<1>3. \A t \in DOMAIN outstanding' :
        /\ outstanding'[t] \in [read : DOMAIN reads, age : Int]
        /\ outstanding'[t].read = outstanding[t].read
  BY <1>2 DEF ReqInv, TagsNameReads
<1>4. failed \subseteq Awaiting
  BY DEF Awaiting
<1>5. Awaiting' = Awaiting \ failed
  <2>1. \A t \in DOMAIN outstanding \ Old : outstanding[t].read \notin failed
    <3> SUFFICES ASSUME NEW t \in DOMAIN outstanding \ Old, NEW u \in Old,
                        outstanding[t].read = outstanding[u].read
                 PROVE  FALSE
      OBVIOUS
    <3>1. u \in DOMAIN outstanding
      OBVIOUS
    <3> QED BY <3>1, ReadNamesTag
  <2> HIDE DEF Old
  <2>2. \A t \in Old : t \in DOMAIN outstanding /\ outstanding[t].read \in failed
    BY DEF Old
  <2> HIDE DEF failed
  <2> QED BY <1>2, <1>3, <2>1, <2>2 DEF Awaiting
<1> HIDE DEF Old, failed
<1>6. ReadsNumbered'
  BY <1>1 DEF ReqInv, ReadsNumbered
<1>7. TagsNameReads'
  <2>1. IsFiniteSet(DOMAIN outstanding')
    <3>1. IsFiniteSet(DOMAIN outstanding)
      BY DEF ReqInv, TagsNameReads
    <3>2. IsFiniteSet(DOMAIN outstanding \ Old)
      BY <3>1, FS_Difference
    <3> QED BY <1>2, <3>2
  <2> QED BY <1>1, <1>2, <1>3, <2>1 DEF ReqInv, TagsNameReads
<1>8. Finished' = Finished /\ Mistaken' = Mistaken
  BY <1>1 DEF Finished, Mistaken
<1>9. EndedOnce'
  BY <1>1, <1>4, <1>5, <1>8 DEF ReqInv, EndedOnce
<1>10. AnsweredOnce'
  BY <1>1 DEF ReqInv, AnsweredOnce
<1>11. TakenForOwn'
  BY <1>1, <1>8 DEF ReqInv, TakenForOwn
<1> QED BY <1>6, <1>7, <1>9, <1>10, <1>11 DEF ReqInv

(* What the invariant says of the sets, in the numbers of the property.    *)
LEMMA ReqCounts ==
  ASSUME ReqInv
  PROVE  ReadsAccounted
<1>1. Cardinality(done) = Cardinality(Finished)
  <2> DEFINE f == [d \in done |-> d.read]
  <2>1. f \in [done -> Finished] /\ \A x \in Finished : \E d \in done : f[d] = x
    BY DEF Finished
  <2>2. \A d, e \in done : f[d] = f[e] => d = e
    BY DEF ReqInv, EndedOnce
  <2>3. f \in Bijection(done, Finished)
    BY <2>1, <2>2 DEF Bijection, Injection, Surjection, IsInjective
  <2> HIDE DEF f
  <2> QED BY <2>3, FS_Bijection DEF ReqInv, EndedOnce, ExistsBijection
<1>2. Cardinality(DOMAIN outstanding) = Cardinality(Awaiting)
  <2> DEFINE f == [t \in DOMAIN outstanding |-> outstanding[t].read]
  <2>1. /\ f \in [DOMAIN outstanding -> Awaiting]
        /\ \A x \in Awaiting : \E t \in DOMAIN outstanding : f[t] = x
    BY DEF Awaiting
  <2>2. \A t, u \in DOMAIN outstanding : f[t] = f[u] => t = u
    BY ReadNamesTag
  <2>3. f \in Bijection(DOMAIN outstanding, Awaiting)
    BY <2>1, <2>2 DEF Bijection, Injection, Surjection, IsInjective
  <2> HIDE DEF f
  <2> QED BY <2>3, FS_Bijection DEF ReqInv, TagsNameReads, ExistsBijection
<1> QED BY <1>1, <1>2 DEF ReqInv, EndedOnce, TakenForOwn, Mistaken, ReadsAccounted

(* For any number of tags and reads, whatever is lost and however late an  *)
(* answer is: each read ends once, by a completion or by the time-out, and *)
(* a completion ends its own read unless its tag was cut on the wire or    *)
(* its own read was over.                                                  *)
THEOREM ReadsEndOnce ==
  ASSUME TagsOk
  PROVE  RequesterSpec => []ReadsAccounted
<1>1. RequesterInit => ReqInv
  <2> SUFFICES ASSUME RequesterInit PROVE ReqInv
    OBVIOUS
  <2>1. DOMAIN reads = {} /\ DOMAIN outstanding = {}
    BY DEF RequesterInit
  <2>2. Cardinality({}) = 0 /\ IsFiniteSet({})
    BY FS_EmptySet
  <2>3. ReadsNumbered
    BY <2>1, <2>2 DEF RequesterInit, ReadsNumbered
  <2> QED BY <2>1, <2>2, <2>3 DEF RequesterInit, ReqInv, TagsNameReads, EndedOnce, AnsweredOnce,
             TakenForOwn, Awaiting, Finished
<1>2. ReqInv /\ [RequesterNext]_reqVars => ReqInv'
  <2> SUFFICES ASSUME ReqInv, [RequesterNext]_reqVars PROVE ReqInv'
    OBVIOUS
  <2>1. CASE UNCHANGED reqVars
    <3>1. UNCHANGED <<outstanding, last_tag, reads, wire, back, done, errors>>
      BY <2>1 DEF reqVars
    <3>2. Awaiting' = Awaiting /\ Finished' = Finished /\ Mistaken' = Mistaken
      BY <3>1 DEF Awaiting, Finished, Mistaken
    <3> QED BY <3>1, <3>2 DEF ReqInv, ReadsNumbered, TagsNameReads, EndedOnce,
                              AnsweredOnce, TakenForOwn
  <2>2. CASE RequesterNext
    BY <2>2, MrdReadKeeps, HandleKeeps, CpldKeeps, LostKeeps, TickKeepsReads DEF RequesterNext
  <2> QED BY <2>1, <2>2
<1>3. ReqInv => ReadsAccounted
  BY ReqCounts
<1> QED BY <1>1, <1>2, <1>3, PTL DEF RequesterSpec
-----------------------------------------------------------------------------
(* The slots hold numbers of requests and of beats, 0 if they are empty.   *)
AxiTyped ==
  /\ host \in [req : Nat, resp : Nat, sreq : Nat]
  /\ ep \in [sreq : Nat, sresp : Nat, mreq : Nat]
  /\ ready \in BOOLEAN /\ tries \in Nat /\ reqs \in Seq(IdKeys)
  /\ awaited \in [IdKeys -> Nat]
  /\ beats \in [pushed : Nat, arrived : SUBSET Nat, lost : SUBSET Nat]

(* No number is in two slots.                                              *)
SlotsApart ==
  /\ host.req # 0 => host.req # ep.sreq /\ host.req # ep.sresp
  /\ ep.sreq # 0 => ep.sreq # ep.sresp
  /\ ep.mreq # 0 => ep.mreq # host.sreq

(* A beat on its way has neither arrived nor been lost.                    *)
BeatsApart ==
  Filled({ep.mreq, host.sreq}) \cap (beats.arrived \cup beats.lost) = {}

SomewhereInv == AxiTyped /\ SlotsApart /\ BeatsApart /\ EveryRequestSomewhere

AxiInv == SomewhereInv /\ IdsAwaited

(* The key of a write with id 0, which is never struck.                    *)
Special == [write |-> TRUE, id |-> 0]

(* The requests an id is still noted for.                                  *)
Noted(k, q, struck) ==
  {n \in DOMAIN q : q[n] = k /\ (n \notin struck \/ k = Special)}

(* An id is noted for finitely many requests.                              *)
LEMMA NotedFinite ==
  ASSUME NEW q \in Seq(IdKeys), NEW k, NEW struck
  PROVE  IsFiniteSet(Noted(k, q, struck)) /\ Cardinality(Noted(k, q, struck)) \in Nat
<1>1. DOMAIN q = 1..Len(q) /\ Len(q) \in Nat
  OBVIOUS
<1>2. IsFiniteSet(1..Len(q))
  BY <1>1, FS_Interval
<1>3. Noted(k, q, struck) \in SUBSET (1..Len(q))
  BY <1>1 DEF Noted
<1> QED BY <1>2, <1>3, FS_Subset, FS_CardinalityType

(* IdsAwaited in the words of Noted.                                       *)
LEMMA IdsAre ==
  IdsAwaited <=> \A k \in IdKeys : awaited[k] = Cardinality(Noted(k, reqs, answered))
BY DEF IdsAwaited, Noted, Special

(* A step that moves no request and answers none.                          *)
LEMMA SameIds ==
  ASSUME IdsAwaited, UNCHANGED <<awaited, reqs, answered>>
  PROVE  IdsAwaited'
BY DEF IdsAwaited

(* A step that changes no slot and no history.                             *)
LEMMA SameSlots ==
  ASSUME AxiInv, tries' \in Nat, ready' \in BOOLEAN,
         UNCHANGED <<host, ep, reqs, awaited, answered, dropped, beats>>
  PROVE  AxiInv'
<1>1. AxiTyped'
  BY DEF AxiInv, SomewhereInv, AxiTyped
<1>2. SlotsApart' /\ BeatsApart'
  BY DEF AxiInv, SomewhereInv, SlotsApart, BeatsApart, Filled
<1>3. EveryRequestSomewhere'
  BY DEF AxiInv, SomewhereInv, EveryRequestSomewhere, OnTheWay, Filled
<1> QED BY <1>1, <1>2, <1>3, SameIds DEF AxiInv, SomewhereInv

(* A request of the host, taken or refused, and the id noted for it.       *)
LEMMA BarKeeps ==
  ASSUME IdRing \in Nat \ {0}, AxiInv, NEW write \in BOOLEAN, NEW zero \in BOOLEAN,
         BarRequest(write, zero)
  PROVE  AxiInv'
<1> DEFINE id == ((tries % IdRing) + 1) % IdRing
           k == [write |-> write /\ ~(id = 0 /\ zero), id |-> id]
           n == Len(reqs) + 1
<1>1. /\ tries \in Nat /\ reqs \in Seq(IdKeys) /\ Len(reqs) \in Nat
      /\ DOMAIN reqs = 1..Len(reqs)
  BY DEF AxiInv, SomewhereInv, AxiTyped
<1>2. k \in IdKeys
  <2>1. id \in 0..(IdRing - 1)
    BY <1>1
  <2> HIDE DEF id
  <2> QED BY <2>1 DEF IdKeys
<1>3. /\ tries' = tries + 1
      /\ UNCHANGED <<ep, answered, dropped, burst, beats, ready, attached>>
  BY DEF BarRequest, burstVars, fixed
<1>4. CASE host.req # 0
  <2>1. UNCHANGED <<host, reqs, awaited>>
    BY <1>4 DEF BarRequest
  <2>2. burst' = burst /\ ready' = ready /\ tries' \in Nat
    BY <1>1, <1>3
  <2> QED BY <1>3, <2>1, <2>2, SameSlots DEF AxiInv, SomewhereInv, AxiTyped
<1>5. CASE host.req = 0
  <2>1. /\ host' = [host EXCEPT !.req = n] /\ reqs' = Append(reqs, k)
        /\ awaited' = [awaited EXCEPT ![k] = @ + 1]
    BY <1>5 DEF BarRequest
  <2> HIDE DEF k
  <2>2. /\ reqs' \in Seq(IdKeys) /\ DOMAIN reqs' = DOMAIN reqs \cup {n}
        /\ reqs'[n] = k /\ \A m \in DOMAIN reqs : reqs'[m] = reqs[m]
        /\ n \notin DOMAIN reqs /\ n \in Nat /\ n # 0
    BY <1>1, <1>2, <2>1
  <2> HIDE DEF n
  <2>3. n \notin OnTheWay /\ n \notin answered /\ n \notin dropped
    BY <2>2 DEF AxiInv, SomewhereInv, EveryRequestSomewhere
  <2>4. host'.req = n /\ host'.resp = host.resp /\ host'.sreq = host.sreq
        /\ host' \in [req : Nat, resp : Nat, sreq : Nat]
    BY <2>1, <2>2 DEF AxiInv, SomewhereInv, AxiTyped
  <2>5. OnTheWay' = OnTheWay \cup {n}
    BY <1>3, <1>5, <2>2, <2>4 DEF OnTheWay, Filled
  <2>6. AxiTyped'
    <3>1. awaited \in [IdKeys -> Nat] /\ awaited[k] \in Nat
      BY <1>2 DEF AxiInv, SomewhereInv, AxiTyped
    <3>2. awaited' \in [IdKeys -> Nat]
      BY <1>2, <2>1, <3>1
    <3> QED BY <1>1, <1>3, <2>2, <2>4, <3>2 DEF AxiInv, SomewhereInv, AxiTyped
  <2>7. SlotsApart' /\ BeatsApart'
    BY <1>3, <2>2, <2>3, <2>4
       DEF AxiInv, SomewhereInv, SlotsApart, BeatsApart, OnTheWay, Filled
  <2>8. EveryRequestSomewhere'
    BY <1>3, <2>2, <2>3, <2>4, <2>5 DEF AxiInv, SomewhereInv, EveryRequestSomewhere, Filled
  <2>9. IdsAwaited'
    <3> SUFFICES ASSUME NEW j \in IdKeys
                 PROVE  awaited'[j] = Cardinality(Noted(j, reqs', answered'))
      BY IdsAre DEF IdsAwaited, Noted, Special
    <3>1. awaited[j] = Cardinality(Noted(j, reqs, answered))
      BY IdsAre DEF AxiInv
    <3>2. CASE j = k
      <4>1. Noted(j, reqs', answered') = Noted(j, reqs, answered) \cup {n}
        BY <1>3, <2>2, <2>3, <3>2 DEF Noted
      <4>2. n \notin Noted(j, reqs, answered)
        BY <2>2 DEF Noted
      <4>3. Cardinality(Noted(j, reqs', answered')) = Cardinality(Noted(j, reqs, answered)) + 1
        BY <1>1, <4>1, <4>2, FS_AddElement, NotedFinite
      <4> QED BY <2>1, <3>1, <3>2, <4>3 DEF AxiInv, SomewhereInv, AxiTyped
    <3>3. CASE j # k
      <4>1. Noted(j, reqs', answered') = Noted(j, reqs, answered)
        BY <1>3, <2>2, <3>3 DEF Noted
      <4> QED BY <2>1, <3>1, <3>3, <4>1 DEF AxiInv, SomewhereInv, AxiTyped
    <3> QED BY <3>2, <3>3
  <2> QED BY <2>6, <2>7, <2>8, <2>9 DEF AxiInv, SomewhereInv
<1> QED BY <1>4, <1>5

(* master_resp strikes the id of a request that had no answer yet.         *)
LEMMA StruckIs ==
  ASSUME AxiInv, NEW n \in DOMAIN reqs, n \notin answered
  PROVE  /\ Struck(n) \in [IdKeys -> Nat]
         /\ \A k \in IdKeys : Struck(n)[k] = Cardinality(Noted(k, reqs, answered \cup {n}))
<1> DEFINE k == reqs[n]
<1>1. k \in IdKeys /\ reqs \in Seq(IdKeys) /\ awaited \in [IdKeys -> Nat]
  BY DEF AxiInv, SomewhereInv, AxiTyped
<1>2. \A j \in IdKeys : awaited[j] = Cardinality(Noted(j, reqs, answered))
  BY IdsAre DEF AxiInv
<1>3. \A j \in IdKeys : j # k =>
        Noted(j, reqs, answered \cup {n}) = Noted(j, reqs, answered)
  BY DEF Noted
<1>4. CASE k = Special
  <2>1. Struck(n) = awaited
    BY <1>4 DEF Struck, Special
  <2>2. Noted(k, reqs, answered \cup {n}) = Noted(k, reqs, answered)
    BY <1>4 DEF Noted
  <2> QED BY <1>1, <1>2, <1>3, <2>1, <2>2
<1>5. CASE k # Special
  <2>1. ~(k.write /\ k.id = 0)
    BY <1>1, <1>5 DEF IdKeys, Special
  <2>2. Struck(n) = [awaited EXCEPT ![k] = IF @ > 0 THEN @ - 1 ELSE 0]
    BY <2>1 DEF Struck
  <2>3. /\ Noted(k, reqs, answered \cup {n}) = Noted(k, reqs, answered) \ {n}
        /\ n \in Noted(k, reqs, answered)
    BY <1>5 DEF Noted
  <2> HIDE DEF k
  <2>4. /\ IsFiniteSet(Noted(k, reqs, answered)) /\ Cardinality(Noted(k, reqs, answered)) \in Nat
        /\ Cardinality(Noted(k, reqs, answered \cup {n})) \in Nat
    BY <1>1, NotedFinite
  <2>5. Cardinality(Noted(k, reqs, answered \cup {n})) = Cardinality(Noted(k, reqs, answered)) - 1
    BY <2>3, <2>4, FS_RemoveElement
  <2>6. Struck(n) \in [IdKeys -> Nat] /\ Struck(n)[k] = awaited[k] - 1
        /\ \A j \in IdKeys : j # k => Struck(n)[j] = awaited[j]
    <3>1. awaited[k] = Cardinality(Noted(k, reqs, answered)) /\ awaited[k] > 0
      BY <1>1, <1>2, <2>4, <2>5
    <3> QED BY <1>1, <2>2, <3>1
  <2>7. awaited[k] = Cardinality(Noted(k, reqs, answered))
    BY <1>1, <1>2
  <2> QED BY <1>2, <1>3, <2>5, <2>6, <2>7
<1> QED BY <1>4, <1>5

(* What a tick of the attached host moves from slot to slot, keeps or      *)
(* loses.                                                                  *)
LEMMA MoveKeeps ==
  ASSUME AxiInv, NEW kept \in Nat, NEW lost,
         kept = 0 \/ kept = host.req,
         Move(kept, lost),
         lost = Filled({m \in {host.req} : ep.sreq # 0 /\ kept = 0}
                       \cup {m \in {ep.sresp} : host.resp # 0}),
         kept # 0 => ep.sreq # 0
  PROVE  AxiInv'
<1>1. /\ host'.req = kept
      /\ host'.resp = IF host.resp = 0 THEN ep.sresp ELSE host.resp
      /\ host'.sreq = IF host.sreq = 0 THEN ep.mreq ELSE host.sreq
      /\ ep'.sreq = (IF ep.sreq = 0 THEN host.req ELSE ep.sreq)
      /\ ep'.sresp = 0 /\ ep'.mreq = 0
      /\ awaited' = IF host.resp = 0 /\ ep.sresp # 0 THEN Struck(ep.sresp) ELSE awaited
      /\ answered' = IF host.resp = 0 THEN answered \cup Filled({ep.sresp}) ELSE answered
      /\ dropped' = dropped \cup lost
      /\ beats' = [beats EXCEPT !.lost = IF host.sreq = 0 THEN @ ELSE @ \cup Filled({ep.mreq})]
      /\ UNCHANGED <<tries, reqs, burst, ready, attached>>
  BY DEF Move, fixed
<1>2. /\ host.req \in Nat /\ host.resp \in Nat /\ host.sreq \in Nat
      /\ ep.sreq \in Nat /\ ep.sresp \in Nat /\ ep.mreq \in Nat
      /\ beats.pushed \in Nat /\ beats.arrived \subseteq Nat /\ beats.lost \subseteq Nat
  BY DEF AxiInv, SomewhereInv, AxiTyped
<1>3. /\ beats'.pushed = beats.pushed /\ beats'.arrived = beats.arrived
      /\ beats'.lost = IF host.sreq = 0 THEN beats.lost ELSE beats.lost \cup Filled({ep.mreq})
      /\ beats' \in [pushed : Nat, arrived : SUBSET Nat, lost : SUBSET Nat]
  <2>1. Filled({ep.mreq}) \subseteq Nat
    BY <1>2 DEF Filled
  <2> QED BY <1>1, <1>2, <2>1 DEF AxiInv, SomewhereInv, AxiTyped
<1>4. /\ host' \in [req : Nat, resp : Nat, sreq : Nat]
      /\ ep' \in [sreq : Nat, sresp : Nat, mreq : Nat]
  BY <1>2 DEF Move
<1>5. ep.sresp # 0 => ep.sresp \in DOMAIN reqs /\ ep.sresp \notin answered
  BY DEF AxiInv, SomewhereInv, EveryRequestSomewhere, OnTheWay, Filled
<1>6. AxiTyped'
  <2>1. awaited' \in [IdKeys -> Nat]
    BY <1>1, <1>5, StruckIs DEF AxiInv, SomewhereInv, AxiTyped
  <2> QED BY <1>1, <1>3, <1>4, <2>1 DEF AxiInv, SomewhereInv, AxiTyped
<1>7. SlotsApart'
  BY <1>1 DEF AxiInv, SomewhereInv, SlotsApart
<1>8. BeatsApart' /\ (1..beats.pushed = Filled({ep.mreq, host.sreq}) \cup beats.arrived \cup beats.lost
        /\ beats.arrived \cap beats.lost = {})'
  <2>1. BeatsApart /\ (1..beats.pushed = Filled({ep.mreq, host.sreq}) \cup beats.arrived \cup beats.lost
          /\ beats.arrived \cap beats.lost = {}) /\ (ep.mreq # 0 => ep.mreq # host.sreq)
    BY DEF AxiInv, SomewhereInv, EveryRequestSomewhere, SlotsApart
  <2> QED BY <1>1, <1>3, <2>1 DEF BeatsApart, Filled
<1>9. (/\ DOMAIN reqs = OnTheWay \cup answered \cup dropped
       /\ OnTheWay \cap answered = {} /\ OnTheWay \cap dropped = {} /\ answered \cap dropped = {})'
  <2>1. /\ DOMAIN reqs = OnTheWay \cup answered \cup dropped
        /\ OnTheWay \cap answered = {} /\ OnTheWay \cap dropped = {} /\ answered \cap dropped = {}
        /\ SlotsApart
    BY DEF AxiInv, SomewhereInv, EveryRequestSomewhere
  <2>2. OnTheWay' = Filled({kept, IF ep.sreq = 0 THEN host.req ELSE ep.sreq})
    BY <1>1 DEF OnTheWay, Filled
  <2> QED BY <1>1, <2>1, <2>2 DEF OnTheWay, Filled, SlotsApart
<1>10. IdsAwaited'
  <2>1. CASE host.resp = 0 /\ ep.sresp # 0
    <3>1. answered' = answered \cup {ep.sresp} /\ awaited' = Struck(ep.sresp) /\ reqs' = reqs
      BY <1>1, <2>1 DEF Filled
    <3>2. \A k \in IdKeys : awaited'[k] = Cardinality(Noted(k, reqs', answered'))
      BY <1>5, <2>1, <3>1, StruckIs
    <3> QED BY <3>2 DEF IdsAwaited, Noted, Special
  <2>2. CASE ~(host.resp = 0 /\ ep.sresp # 0)
    <3>1. answered' = answered /\ awaited' = awaited /\ reqs' = reqs
      BY <1>1, <2>2 DEF Filled
    <3> QED BY <3>1, SameIds DEF AxiInv
  <2> QED BY <2>1, <2>2
<1> QED BY <1>6, <1>7, <1>8, <1>9, <1>10 DEF AxiInv, SomewhereInv, EveryRequestSomewhere

(* A tick of the host, with an endpoint attached or alone.                 *)
LEMMA HostTickKeeps ==
  ASSUME AxiInv, HostTick
  PROVE  AxiInv'
<1>1. CASE attached
  <2>1. Move(KeptRequest, RefusedRequest \cup Refused(host.resp, ep.sresp))
    BY <1>1 DEF HostTick
  <2>2. /\ KeptRequest \in {0, host.req}
        /\ KeptRequest # 0 => ep.sreq # 0
    BY DEF KeptRequest, AxiInv, SomewhereInv, AxiTyped
  <2>3. RefusedRequest \cup Refused(host.resp, ep.sresp)
          = Filled({m \in {host.req} : ep.sreq # 0 /\ KeptRequest = 0}
                   \cup {m \in {ep.sresp} : host.resp # 0})
    BY DEF KeptRequest, RefusedRequest, Refused, Filled
  <2>4. KeptRequest \in Nat
    BY DEF KeptRequest, AxiInv, SomewhereInv, AxiTyped
  <2> QED BY <2>1, <2>2, <2>3, <2>4, MoveKeeps
<1>2. CASE ~attached
  <2>1. /\ host' = [host EXCEPT !.req = IF ready THEN 0 ELSE @]
        /\ dropped' = dropped \cup (IF ready THEN Filled({host.req}) ELSE {})
        /\ UNCHANGED <<ep, tries, reqs, awaited, answered, burst, beats, ready, attached>>
    BY <1>2 DEF HostTick, TickAlone, burstVars, fixed
  <2>2. /\ host'.req = (IF ready THEN 0 ELSE host.req) /\ host'.resp = host.resp
        /\ host'.sreq = host.sreq /\ host' \in [req : Nat, resp : Nat, sreq : Nat]
    BY <2>1 DEF AxiInv, SomewhereInv, AxiTyped
  <2>3. AxiTyped'
    BY <2>1, <2>2 DEF AxiInv, SomewhereInv, AxiTyped
  <2>4. SlotsApart' /\ BeatsApart' /\ EveryRequestSomewhere'
    BY <2>1, <2>2 DEF AxiInv, SomewhereInv, SlotsApart, BeatsApart, EveryRequestSomewhere,
                      OnTheWay, Filled
  <2> QED BY <2>1, <2>3, <2>4, SameIds DEF AxiInv, SomewhereInv
<1> QED BY <1>1, <1>2

(* A tick of the endpoint answers the request in its slot.                 *)
LEMMA EndpointTickKeeps ==
  ASSUME AxiInv, EndpointTick
  PROVE  AxiInv'
<1>1. /\ ep' = [ep EXCEPT !.sreq = 0, !.sresp = IF @ = 0 THEN ep.sreq ELSE @]
      /\ dropped' = IF ep.sresp = 0 THEN dropped ELSE dropped \cup {ep.sreq}
      /\ UNCHANGED <<host, tries, reqs, awaited, answered, burst, beats, ready, attached>>
      /\ ep.sreq # 0
  BY DEF EndpointTick, burstVars, fixed
<1>2. /\ ep'.sreq = 0 /\ ep'.sresp = (IF ep.sresp = 0 THEN ep.sreq ELSE ep.sresp)
      /\ ep'.mreq = ep.mreq /\ ep' \in [sreq : Nat, sresp : Nat, mreq : Nat]
  BY <1>1 DEF AxiInv, SomewhereInv, AxiTyped
<1>3. AxiTyped'
  BY <1>1, <1>2 DEF AxiInv, SomewhereInv, AxiTyped
<1>4. SlotsApart' /\ BeatsApart' /\ EveryRequestSomewhere'
  BY <1>1, <1>2 DEF AxiInv, SomewhereInv, SlotsApart, BeatsApart, EveryRequestSomewhere,
                    OnTheWay, Filled
<1> QED BY <1>1, <1>3, <1>4, SameIds DEF AxiInv, SomewhereInv

(* A response or a beat is taken by the host.                              *)
LEMMA TakeKeeps ==
  ASSUME AxiInv, TakeResp \/ TakeBeat
  PROVE  AxiInv'
<1>1. UNCHANGED <<ep, tries, reqs, awaited, answered, dropped, burst, ready, attached>>
  BY DEF TakeResp, TakeBeat, burstVars, fixed
<1>2. CASE TakeResp
  <2>1. /\ host'.req = host.req /\ host'.sreq = host.sreq
        /\ host' \in [req : Nat, resp : Nat, sreq : Nat] /\ beats' = beats
    BY <1>2 DEF TakeResp, AxiInv, SomewhereInv, AxiTyped, burstVars
  <2> QED BY <1>1, <2>1, SameIds DEF AxiInv, SomewhereInv, AxiTyped, SlotsApart, BeatsApart,
             EveryRequestSomewhere, OnTheWay, Filled
<1>3. CASE TakeBeat
  <2>1. /\ host'.req = host.req /\ host'.resp = host.resp /\ host'.sreq = 0 /\ host.sreq # 0
        /\ host' \in [req : Nat, resp : Nat, sreq : Nat]
        /\ beats'.pushed = beats.pushed /\ beats'.arrived = beats.arrived \cup {host.sreq}
        /\ beats'.lost = beats.lost
        /\ beats' \in [pushed : Nat, arrived : SUBSET Nat, lost : SUBSET Nat]
    BY <1>3 DEF TakeBeat, AxiInv, SomewhereInv, AxiTyped
  <2>2. AxiTyped'
    BY <1>1, <2>1 DEF AxiInv, SomewhereInv, AxiTyped
  <2>3. SlotsApart' /\ BeatsApart' /\ EveryRequestSomewhere'
    BY <1>1, <2>1 DEF AxiInv, SomewhereInv, SlotsApart, BeatsApart, EveryRequestSomewhere,
                      OnTheWay, Filled
  <2> QED BY <1>1, <2>2, <2>3, SameIds DEF AxiInv, SomewhereInv
<1> QED BY <1>2, <1>3

(* Another endpoint is attached: what was in the slots of the old one is   *)
(* lost.                                                                   *)
LEMMA ReattachKeeps ==
  ASSUME AxiInv, NEW there \in BOOLEAN, Reattach(there)
  PROVE  AxiInv'
<1>1. /\ ep' = [sreq |-> 0, sresp |-> 0, mreq |-> 0]
      /\ dropped' = dropped \cup Filled({ep.sreq, ep.sresp})
      /\ beats' = [beats EXCEPT !.lost = @ \cup Filled({ep.mreq})]
      /\ burst' = [burst EXCEPT !.left = 0, !.beat = 0, !.written = FALSE, !.ids = 0]
      /\ UNCHANGED <<host, ready, tries, reqs, awaited, answered>>
  BY DEF Reattach
<1>2. /\ beats'.pushed = beats.pushed /\ beats'.arrived = beats.arrived
      /\ beats'.lost = beats.lost \cup Filled({ep.mreq})
      /\ beats' \in [pushed : Nat, arrived : SUBSET Nat, lost : SUBSET Nat]
  <2> DEFINE F == Filled({ep.mreq})
  <2>1. F \subseteq Nat
    BY DEF AxiInv, SomewhereInv, AxiTyped, Filled
  <2>2. beats' = [beats EXCEPT !.lost = @ \cup F]
    BY <1>1
  <2> HIDE DEF F
  <2>3. /\ beats'.pushed = beats.pushed /\ beats'.arrived = beats.arrived
        /\ beats'.lost = beats.lost \cup F
        /\ beats' \in [pushed : Nat, arrived : SUBSET Nat, lost : SUBSET Nat]
    BY <2>1, <2>2 DEF AxiInv, SomewhereInv, AxiTyped
  <2> QED BY <2>3 DEF F
<1>3. AxiTyped'
  BY <1>1, <1>2 DEF AxiInv, SomewhereInv, AxiTyped
<1>4. SlotsApart' /\ BeatsApart' /\ EveryRequestSomewhere'
  BY <1>1, <1>2 DEF AxiInv, SomewhereInv, SlotsApart, BeatsApart, EveryRequestSomewhere,
                    OnTheWay, Filled
<1> QED BY <1>1, <1>3, <1>4, SameIds DEF AxiInv, SomewhereInv

(* A beat of a burst is pushed, or none.                                   *)
LEMMA BurstKeeps ==
  ASSUME AxiInv, UNCHANGED <<host, ready, attached, tries, reqs, awaited, answered, dropped>>,
         \/ UNCHANGED <<ep, beats>>
         \/ /\ ep.mreq = 0 /\ ep' = [ep EXCEPT !.mreq = beats.pushed + 1]
            /\ beats' = [beats EXCEPT !.pushed = @ + 1]
  PROVE  AxiInv'
<1>1. CASE UNCHANGED <<ep, beats>>
  BY <1>1, SameIds DEF AxiInv, SomewhereInv, AxiTyped, SlotsApart, BeatsApart,
                       EveryRequestSomewhere, OnTheWay, Filled
<1>2. CASE /\ ep.mreq = 0 /\ ep' = [ep EXCEPT !.mreq = beats.pushed + 1]
           /\ beats' = [beats EXCEPT !.pushed = @ + 1]
  <2> DEFINE p == beats.pushed
  <2>0. p \in Nat /\ 1..(p + 1) = 1..p \cup {p + 1} /\ p + 1 \notin 1..p /\ p + 1 # 0
    BY DEF AxiInv, SomewhereInv, AxiTyped
  <2>1. /\ ep'.sreq = ep.sreq /\ ep'.sresp = ep.sresp /\ ep'.mreq = p + 1
        /\ beats'.pushed = p + 1 /\ beats'.arrived = beats.arrived
        /\ beats'.lost = beats.lost
        /\ ep' \in [sreq : Nat, sresp : Nat, mreq : Nat]
        /\ beats' \in [pushed : Nat, arrived : SUBSET Nat, lost : SUBSET Nat]
    <3>1. /\ ep \in [sreq : Nat, sresp : Nat, mreq : Nat]
          /\ beats \in [pushed : Nat, arrived : SUBSET Nat, lost : SUBSET Nat]
      BY DEF AxiInv, SomewhereInv, AxiTyped
    <3>2. p + 1 \in Nat /\ ep' = [ep EXCEPT !.mreq = p + 1]
          /\ beats' = [beats EXCEPT !.pushed = p + 1]
      BY <1>2, <2>0
    <3> QED BY <3>1, <3>2
  <2>2. AxiTyped'
    BY <2>1 DEF AxiInv, SomewhereInv, AxiTyped
  <2>3. p + 1 \notin Filled({ep.mreq, host.sreq}) \cup beats.arrived \cup beats.lost
    BY <2>0 DEF AxiInv, SomewhereInv, EveryRequestSomewhere
  <2>4. SlotsApart' /\ BeatsApart'
    BY <1>2, <2>0, <2>1, <2>3 DEF AxiInv, SomewhereInv, SlotsApart, BeatsApart, Filled
  <2>5. EveryRequestSomewhere'
    BY <1>2, <2>0, <2>1 DEF AxiInv, SomewhereInv, EveryRequestSomewhere, OnTheWay, Filled
  <2> QED BY <2>2, <2>4, <2>5, SameIds DEF AxiInv, SomewhereInv
<1> QED BY <1>1, <1>2

(* Every step.                                                             *)
LEMMA AxiStep ==
  ASSUME IdRing \in Nat \ {0}, AxiInv, AxiNext
  PROVE  AxiInv'
<1>1. ASSUME NEW write \in BOOLEAN, NEW zero \in BOOLEAN, BarRequest(write, zero)
      PROVE  AxiInv'
  BY <1>1, BarKeeps
<1>2. CASE HostTick \/ EndpointTick \/ TakeResp \/ TakeBeat
  BY <1>2, HostTickKeeps, EndpointTickKeeps, TakeKeeps
<1>3. CASE SetMasterReady
  <2>1. ready' \in BOOLEAN /\ tries' \in Nat
        /\ UNCHANGED <<host, ep, reqs, awaited, answered, dropped, beats>>
    BY <1>3 DEF SetMasterReady, burstVars, AxiInv, SomewhereInv, AxiTyped
  <2> QED BY <2>1, SameSlots
<1>4. ASSUME NEW there \in BOOLEAN, Reattach(there)
      PROVE  AxiInv'
  BY <1>4, ReattachKeeps
<1>5. CASE (\E n \in Beats : MasterWriteBurst(n)) \/ WriteBeat \/ PushBeat \/ ResetBurst
  <2>1. /\ UNCHANGED <<host, ready, attached, tries, reqs, awaited, answered, dropped>>
        /\ \/ UNCHANGED <<ep, beats>>
           \/ /\ ep.mreq = 0 /\ ep' = [ep EXCEPT !.mreq = beats.pushed + 1]
              /\ beats' = [beats EXCEPT !.pushed = @ + 1]
    BY <1>5 DEF MasterWriteBurst, WriteBeat, PushBeat, ResetBurst, others
  <2> QED BY <2>1, BurstKeeps
<1> QED BY <1>1, <1>2, <1>3, <1>4, <1>5 DEF AxiNext

(* For every ring of ids and any number of requests, bursts, ticks and     *)
(* changes of endpoint: an accepted request is on its way, answered or     *)
(* dropped and never two of these, so is a beat of the endpoint, and the   *)
(* ids outstanding are those of the requests without an answer.            *)
THEOREM RequestsSomewhere ==
  ASSUME IdRing \in Nat \ {0}
  PROVE  AxiSpec => []AxiAccounted
<1>1. AxiInit => AxiInv
  <2> SUFFICES ASSUME AxiInit PROVE AxiInv
    OBVIOUS
  <2>1. AxiTyped
    BY DEF AxiInit, AxiTyped
  <2>2. SlotsApart /\ BeatsApart /\ EveryRequestSomewhere
    BY DEF AxiInit, SlotsApart, BeatsApart, EveryRequestSomewhere, OnTheWay, Filled
  <2>3. IdsAwaited
    <3>1. \A k \in IdKeys : Noted(k, reqs, answered) = {}
      BY DEF AxiInit, Noted
    <3> QED BY <3>1, IdsAre, FS_EmptySet DEF AxiInit
  <2> QED BY <2>1, <2>2, <2>3 DEF AxiInv, SomewhereInv
<1>2. AxiInv /\ [AxiNext]_axiVars => AxiInv'
  <2>1. ASSUME AxiInv, UNCHANGED axiVars PROVE AxiInv'
    BY <2>1, SameSlots DEF axiVars, AxiInv, SomewhereInv, AxiTyped
  <2> QED BY <2>1, AxiStep
<1>3. AxiInv => AxiAccounted
  BY DEF AxiInv, SomewhereInv, AxiAccounted
<1> QED BY <1>1, <1>2, <1>3, PTL DEF AxiSpec
-----------------------------------------------------------------------------
(* There is a physical function, and a routing id is a number.             *)
FnsOk == 0 \in Fns

(* A function's table, tracker and count.                                  *)
FnState == [masked : SUBSET Vecs, pba : SUBSET Vecs, np : SUBSET Ids, completed : Nat]

(* Trackers are finite, counts are numbers.                                *)
PoolTyped ==
  /\ fns \in [Fns -> FnState]
  /\ \A f \in Fns : IsFiniteSet(fns[f].np)
  /\ tally \in [Fns -> [registered : Nat, flushed : Nat]]

(* Messages, and the positions of those the link layer took.               *)
QueueTyped ==
  /\ queue \in Seq([fn : Fns, vec : Vecs, delivered : BOOLEAN])
  /\ mwr \in Seq(Nat)

(* What the link layer has of a function is the front of its messages.     *)
FrontDelivered ==
  \A i, j \in DOMAIN queue :
    i < j /\ queue[i].fn = queue[j].fn /\ queue[j].delivered => queue[i].delivered

(* The invariant of the pool.                                              *)
PoolInv == PoolTyped /\ QueueTyped /\ FrontDelivered /\ FunctionsApart

(* A function to which a routing id leads.                                 *)
LEMMA RouteIsFn ==
  ASSUME FnsOk, NEW rid
  PROVE  RouteIdToVf(rid) \in Fns
BY DEF FnsOk, RouteIdToVf

(* A request is registered, unless its id is outstanding or the tracker    *)
(* is full.                                                                *)
LEMMA CfgReadAccounts ==
  ASSUME PoolTyped, RequestsAccounted, NEW f \in Fns, NEW id \in Ids,
         DispatchCfgRead(f, id)
  PROVE  PoolTyped' /\ RequestsAccounted'
<1> DEFINE taken == id \notin fns[f].np /\ Cardinality(fns[f].np) < Capacity
           np == IF taken THEN fns[f].np \cup {id} ELSE fns[f].np
           more == IF taken THEN 1 ELSE 0
<1>1. /\ fns' = [fns EXCEPT ![f] = [fns[f] EXCEPT !.np = np]]
      /\ tally' = [tally EXCEPT ![f] =
                     [tally[f] EXCEPT !.registered = tally[f].registered + more]]
  <2>1. fns' = [fns EXCEPT ![f].np = np]
    BY DEF DispatchCfgRead
  <2>2. tally' = [tally EXCEPT ![f].registered = IF taken THEN @ + 1 ELSE @]
    BY DEF DispatchCfgRead
  <2>3. tally[f].registered \in Nat
    BY DEF PoolTyped
  <2>4. fns' = [fns EXCEPT ![f] = [fns[f] EXCEPT !.np = np]]
    <3> HIDE DEF np
    <3> QED BY <2>1
  <2>5. CASE taken
    BY <2>2, <2>4, <2>5
  <2>6. CASE ~taken
    <3>1. tally' = tally /\ tally[f].registered + more = tally[f].registered
      BY <2>2, <2>3, <2>6 DEF PoolTyped
    <3>2. tally = [tally EXCEPT ![f] = [tally[f] EXCEPT !.registered = tally[f].registered]]
      BY DEF PoolTyped
    <3> QED BY <2>4, <3>1, <3>2
  <2> QED BY <2>5, <2>6
<1>2. /\ IsFiniteSet(np) /\ np \in SUBSET Ids
      /\ Cardinality(np) = Cardinality(fns[f].np) + more
      /\ Cardinality(fns[f].np) \in Nat
  BY FS_AddElement, FS_CardinalityType DEF PoolTyped, FnState
<1>3. PoolTyped'
  <2>1. [fns[f] EXCEPT !.np = np] \in FnState
    BY <1>2 DEF PoolTyped, FnState
  <2>2. [tally[f] EXCEPT !.registered = tally[f].registered + more]
          \in [registered : Nat, flushed : Nat]
    BY DEF PoolTyped
  <2> HIDE DEF np, more
  <2> QED BY <1>1, <1>2, <2>1, <2>2 DEF PoolTyped, FnState
<1>4. RequestsAccounted'
  <2> HIDE DEF np, more
  <2> SUFFICES ASSUME NEW g \in Fns
               PROVE  tally'[g].registered =
                        fns'[g].completed + Cardinality(fns'[g].np) + tally'[g].flushed
    BY DEF RequestsAccounted
  <2>1. CASE g = f
    <3>1. more \in Nat
      BY DEF more
    <3>2. /\ tally'[f].registered = tally[f].registered + more
          /\ tally'[f].flushed = tally[f].flushed
          /\ fns'[f].np = np /\ fns'[f].completed = fns[f].completed
      BY <1>1 DEF PoolTyped, FnState
    <3> QED BY <1>2, <2>1, <3>1, <3>2 DEF RequestsAccounted, PoolTyped, FnState
  <2>2. CASE g # f
    BY <1>1, <2>2 DEF RequestsAccounted, PoolTyped
  <2> QED BY <2>1, <2>2
<1> QED BY <1>3, <1>4

(* A completion takes its request out.                                     *)
LEMMA CompletionAccounts ==
  ASSUME PoolTyped, RequestsAccounted, NEW f \in Fns, NEW id, DispatchCompletion(f, id)
  PROVE  PoolTyped' /\ RequestsAccounted'
<1> DEFINE np == fns[f].np \ {id}
           e == [fns[f] EXCEPT !.np = np, !.completed = fns[f].completed + 1]
<1>1. fns' = [fns EXCEPT ![f] = e] /\ UNCHANGED tally
  BY DEF DispatchCompletion, PoolTyped, FnState
<1>2. /\ IsFiniteSet(np) /\ Cardinality(np) = Cardinality(fns[f].np) - 1
      /\ Cardinality(np) \in Nat /\ Cardinality(fns[f].np) \in Nat
  <2>1. IsFiniteSet(fns[f].np) /\ id \in fns[f].np
    BY DEF PoolTyped, DispatchCompletion
  <2>2. IsFiniteSet(np) /\ Cardinality(np) = Cardinality(fns[f].np) - 1
    BY <2>1, FS_RemoveElement
  <2> QED BY <2>1, <2>2, FS_CardinalityType
<1>3. fns[f] \in FnState /\ np \in SUBSET Ids
  BY DEF PoolTyped, FnState
<1> HIDE DEF np
<1>6. /\ e \in FnState
      /\ e.np = np /\ e.completed = fns[f].completed + 1
  <2> DEFINE less == [fns[f] EXCEPT !.np = np]
  <2>1. less \in FnState /\ less.np = np /\ less.completed = fns[f].completed
    BY <1>3 DEF FnState
  <2>2. e = [less EXCEPT !.completed = less.completed + 1]
    BY <2>1
  <2> HIDE DEF less, e
  <2> QED BY <2>1, <2>2 DEF FnState
<1> HIDE DEF e
<1>4. PoolTyped'
  BY <1>1, <1>2, <1>6 DEF PoolTyped
<1>5. ASSUME NEW g \in Fns
      PROVE  tally'[g].registered =
               fns'[g].completed + Cardinality(fns'[g].np) + tally'[g].flushed
  <2>1. CASE g = f
    BY <1>1, <1>2, <1>6, <2>1 DEF RequestsAccounted, PoolTyped, FnState
  <2>2. CASE g # f
    BY <1>1, <2>2 DEF RequestsAccounted, PoolTyped
  <2> QED BY <2>1, <2>2
<1> QED BY <1>4, <1>5 DEF RequestsAccounted

(* A reset of the functions R counts what they had as discarded, and no    *)
(* other function loses a request.                                         *)
LEMMA ResetAccounts ==
  ASSUME PoolTyped, RequestsAccounted, NEW R, AfterReset(R), Flushed(R)
  PROVE  PoolTyped' /\ RequestsAccounted'
<1>1. ASSUME NEW f \in Fns
      PROVE  /\ fns'[f] \in FnState /\ IsFiniteSet(fns'[f].np)
             /\ tally'[f] \in [registered : Nat, flushed : Nat]
             /\ tally'[f].registered =
                  fns'[f].completed + Cardinality(fns'[f].np) + tally'[f].flushed
  <2>1. Cardinality(fns[f].np) \in Nat
    BY FS_CardinalityType DEF PoolTyped
  <2>2. /\ fns[f] \in FnState /\ tally[f] \in [registered : Nat, flushed : Nat]
        /\ tally[f].registered =
             fns[f].completed + Cardinality(fns[f].np) + tally[f].flushed
    BY DEF PoolTyped, RequestsAccounted
  <2>3. CASE f \in R
    <3>1. /\ fns'[f] = [Fresh EXCEPT !.completed = fns[f].completed]
          /\ tally'[f] = [tally[f] EXCEPT !.flushed = tally[f].flushed + Cardinality(fns[f].np)]
      BY <2>3, <2>2 DEF AfterReset, Flushed
    <3>2. fns'[f].np = {} /\ fns'[f].completed = fns[f].completed /\ fns'[f] \in FnState
      BY <3>1, <2>2 DEF Fresh, FnState
    <3>3. IsFiniteSet({}) /\ Cardinality({}) = 0
      BY FS_EmptySet
    <3>4. /\ tally'[f].registered = tally[f].registered
          /\ tally'[f].flushed = tally[f].flushed + Cardinality(fns[f].np)
          /\ tally'[f] \in [registered : Nat, flushed : Nat]
      BY <3>1, <2>1, <2>2
    <3> QED BY <2>1, <2>2, <3>2, <3>3, <3>4 DEF FnState
  <2>4. CASE f \notin R
    BY <2>2, <2>4 DEF AfterReset, Flushed, PoolTyped
  <2> QED BY <2>3, <2>4
<1>2. DOMAIN fns' = Fns /\ DOMAIN tally' = Fns
  BY DEF AfterReset, Flushed
<1>3. fns' = [f \in Fns |-> fns'[f]] /\ tally' = [f \in Fns |-> tally'[f]]
  BY DEF AfterReset, Flushed
<1> QED BY <1>1, <1>3 DEF PoolTyped, RequestsAccounted
-----------------------------------------------------------------------------
(* Masks and pending bits of one table.                                    *)
LEMMA TableAccounts ==
  ASSUME PoolTyped, RequestsAccounted, NEW f \in Fns, NEW e \in FnState,
         e.np = fns[f].np, e.completed = fns[f].completed,
         fns' = [fns EXCEPT ![f] = e], UNCHANGED tally
  PROVE  PoolTyped' /\ RequestsAccounted'
BY DEF PoolTyped, RequestsAccounted
-----------------------------------------------------------------------------

(* The place of i in S.                                                    *)
Rank(S, i) == Cardinality({j \in S : j <= i})

(* The members of a finite set of numbers, in their order.                 *)
LEMMA InOrder ==
  ASSUME NEW S \in SUBSET Nat, IsFiniteSet(S)
  PROVE  /\ \A k \in 1..Cardinality(S) : \E i \in S : Rank(S, i) = k
         /\ \A i \in S : Rank(S, i) \in 1..Cardinality(S)
         /\ \A i, j \in S : i < j <=> Rank(S, i) < Rank(S, j)
<1> DEFINE low(i) == {j \in S : j <= i}
           n == Cardinality(S)
           r == [i \in S |-> Rank(S, i)]
<1>1. n \in Nat /\ \A i \in S : i \in Nat
  BY FS_CardinalityType
<1>2. \A i \in S : i \in low(i)
  BY <1>1
<1>3. \A i \in S : IsFiniteSet(low(i))
  <2> SUFFICES ASSUME NEW i \in S PROVE IsFiniteSet(low(i))
    OBVIOUS
  <2>1. low(i) \in SUBSET S
    OBVIOUS
  <2> QED BY <2>1, FS_Subset
<1>4. \A i \in S : Rank(S, i) \in 1..n
  <2> SUFFICES ASSUME NEW i \in S PROVE Rank(S, i) \in 1..n
    OBVIOUS
  <2>1. IsFiniteSet(low(i)) /\ low(i) \in SUBSET S /\ low(i) # {}
    BY <1>2, <1>3
  <2> HIDE DEF low
  <2>2. Cardinality(low(i)) \in Nat /\ Cardinality(low(i)) <= n
    BY <2>1, FS_CardinalityType, FS_Subset
  <2>3. Cardinality(low(i)) # 0
    BY <2>1, FS_EmptySet
  <2>4. Rank(S, i) = Cardinality(low(i))
    BY DEF Rank, low
  <2> HIDE DEF n
  <2> QED BY <1>1, <2>2, <2>3, <2>4
<1> HIDE DEF n
<1>5. \A i, j \in S : i < j => Rank(S, i) < Rank(S, j)
  <2> SUFFICES ASSUME NEW i \in S, NEW j \in S, i < j
               PROVE  Rank(S, i) < Rank(S, j)
    OBVIOUS
  <2>1. low(i) \in SUBSET low(j)
    <3> SUFFICES ASSUME NEW x \in low(i) PROVE x \in low(j)
      OBVIOUS
    <3> QED BY <1>1
  <2>2. j \in low(j) /\ j \notin low(i)
    BY <1>1
  <2>3. IsFiniteSet(low(j))
    BY <1>3
  <2>4. Rank(S, i) = Cardinality(low(i)) /\ Rank(S, j) = Cardinality(low(j))
    BY DEF Rank
  <2> HIDE DEF low
  <2>5. Cardinality(low(i)) <= Cardinality(low(j))
    BY <2>1, <2>3, FS_Subset
  <2>6. Cardinality(low(i)) # Cardinality(low(j))
    BY <2>1, <2>2, <2>3, FS_Subset
  <2>7. Rank(S, i) \in Nat /\ Rank(S, j) \in Nat
    BY <1>4, <1>1
  <2> QED BY <2>4, <2>5, <2>6, <2>7
<1>6. \A i, j \in S : i < j <=> Rank(S, i) < Rank(S, j)
  <2> SUFFICES ASSUME NEW i \in S, NEW j \in S
               PROVE  i < j <=> Rank(S, i) < Rank(S, j)
    OBVIOUS
  <2>1. i < j \/ i = j \/ j < i
    BY <1>1
  <2>2. Rank(S, i) \in Nat /\ Rank(S, j) \in Nat
    BY <1>4, <1>1
  <2> QED BY <2>1, <2>2, <1>5
<1>7. r \in Injection(S, 1..n)
  <2>1. r \in [S -> 1..n]
    BY <1>4
  <2>2. ASSUME NEW i \in S, NEW j \in S, r[i] = r[j]
        PROVE  i = j
    <3>1. Rank(S, i) = Rank(S, j) /\ Rank(S, i) \in Nat
      BY <2>2, <1>4, <1>1
    <3>2. ~(Rank(S, i) < Rank(S, j)) /\ ~(Rank(S, j) < Rank(S, i))
      BY <3>1
    <3>3. ~(i < j) /\ ~(j < i)
      BY <3>2, <1>6
    <3> QED BY <1>1, <3>3
  <2> HIDE DEF r
  <2> QED BY <2>1, <2>2 DEF Injection, IsInjective
<1>8. \A k \in 1..n : \E i \in S : Rank(S, i) = k
  <2>1. IsFiniteSet(1..n) /\ Cardinality(1..n) = n
    BY <1>1, FS_Interval
  <2>2. \A k \in 1..n : \E i \in S : r[i] = k
    <3> HIDE DEF r
    <3>1. r \in Surjection(S, 1..n)
      BY <1>7, <2>1, FS_Injection DEF n
    <3> QED BY <3>1 DEF Surjection
  <2> QED BY <2>2
<1> QED BY <1>4, <1>6, <1>8 DEF n

(* A tick: what the link layer takes becomes delivered and goes to the end *)
(* of what it has, in the order of the queue.                              *)
LEMMA TickKeeps ==
  ASSUME QueueTyped, FrontDelivered, MessagesOnce, NEW S \in Taken, PoolTick(S)
  PROVE  QueueTyped' /\ FrontDelivered' /\ MessagesOnce'
<1> DEFINE Msg == [fn : Fns, vec : Vecs, delivered : BOOLEAN]
           n == Cardinality(S)
           nth == [k \in 1..n |-> CHOOSE i \in S : Rank(S, i) = k]
<1>1. /\ DOMAIN queue = 1..Len(queue) /\ Len(queue) \in Nat
      /\ \A i \in DOMAIN queue : queue[i] \in Msg
      /\ DOMAIN mwr = 1..Len(mwr) /\ Len(mwr) \in Nat
      /\ \A k \in DOMAIN mwr : mwr[k] \in DOMAIN queue /\ queue[mwr[k]].delivered
  <2>1. queue \in Seq(Msg) /\ mwr \in Seq(Nat)
    BY DEF QueueTyped
  <2>2. \A k \in DOMAIN mwr : mwr[k] \in DOMAIN queue /\ queue[mwr[k]].delivered
    BY DEF MessagesOnce
  <2> HIDE DEF Msg
  <2> QED BY <2>1, <2>2
<1>2. /\ S \in SUBSET DOMAIN queue /\ S \in SUBSET Nat
      /\ \A i \in S : ~queue[i].delivered
      /\ \A i \in S : \A j \in DOMAIN queue :
           j < i /\ queue[j].fn = queue[i].fn /\ ~queue[j].delivered => j \in S
  BY <1>1 DEF Taken, Unsent
<1>3. IsFiniteSet(S) /\ n \in Nat
  <2>1. IsFiniteSet(1..Len(queue)) /\ S \in SUBSET (1..Len(queue))
    BY <1>1, <1>2, FS_Interval
  <2>2. IsFiniteSet(S)
    BY <2>1, FS_Subset
  <2> QED BY <2>2, FS_CardinalityType
<1>4. /\ \A k \in 1..n : nth[k] \in S /\ Rank(S, nth[k]) = k
      /\ \A i \in S : \E k \in 1..n : nth[k] = i
      /\ \A j, k \in 1..n : j < k => nth[j] < nth[k]
  <2> HIDE DEF n
  <2>1. /\ \A k \in 1..n : \E i \in S : Rank(S, i) = k
        /\ \A i \in S : Rank(S, i) \in 1..n
        /\ \A i, j \in S : i < j <=> Rank(S, i) < Rank(S, j)
    BY <1>2, <1>3, InOrder DEF n
  <2>2. \A k \in 1..n : nth[k] \in S /\ Rank(S, nth[k]) = k
    BY <2>1
  <2> HIDE DEF nth
  <2>3. \A i, j \in S : Rank(S, i) = Rank(S, j) => i = j
    <3> SUFFICES ASSUME NEW i \in S, NEW j \in S, Rank(S, i) = Rank(S, j)
                 PROVE  i = j
      OBVIOUS
    <3>1. ~(Rank(S, i) < Rank(S, j)) /\ ~(Rank(S, j) < Rank(S, i))
      BY <2>1, <1>3
    <3>2. ~(i < j) /\ ~(j < i) /\ i \in Nat /\ j \in Nat
      BY <3>1, <2>1, <1>2
    <3> QED BY <3>2
  <2>4. \A i \in S : \E k \in 1..n : nth[k] = i
    BY <2>1, <2>2, <2>3
  <2> QED BY <2>1, <2>2, <2>4
<1>5. /\ queue' = [i \in DOMAIN queue |->
                     [queue[i] EXCEPT !.delivered = queue[i].delivered \/ i \in S]]
      /\ mwr' = mwr \o nth
  BY DEF PoolTick, Rank
<1> HIDE DEF nth, n
<1>6. /\ DOMAIN queue' = DOMAIN queue
      /\ \A i \in DOMAIN queue :
           /\ queue'[i] \in Msg /\ queue'[i].fn = queue[i].fn
           /\ queue'[i].delivered <=> queue[i].delivered \/ i \in S
  BY <1>1, <1>5
<1>7. queue' \in Seq(Msg)
  <2>1. queue' = [i \in 1..Len(queue) |-> queue'[i]]
    BY <1>1, <1>5
  <2>2. \A i \in 1..Len(queue) : queue'[i] \in Msg
    BY <1>1, <1>6
  <2>3. Len(queue) \in Nat
    BY <1>1
  <2> HIDE DEF Msg
  <2> QED BY <2>1, <2>2, <2>3
<1>8. nth \in Seq(Nat) /\ Len(nth) = n /\ DOMAIN nth = 1..n
  <2>1. nth = [k \in 1..n |-> nth[k]]
    BY DEF nth
  <2> QED BY <1>2, <1>3, <1>4, <2>1
<1>9. /\ mwr' \in Seq(Nat) /\ DOMAIN mwr' = 1..(Len(mwr) + n)
      /\ \A k \in DOMAIN mwr : k \in DOMAIN mwr' /\ mwr'[k] = mwr[k]
      /\ \A k \in DOMAIN mwr' \ DOMAIN mwr : k - Len(mwr) \in 1..n /\ mwr'[k] = nth[k - Len(mwr)]
      /\ \A k \in 1..n : Len(mwr) + k \in DOMAIN mwr' /\ mwr'[Len(mwr) + k] = nth[k]
  BY <1>1, <1>3, <1>5, <1>8 DEF QueueTyped
<1>10. FrontDelivered'
  <2> SUFFICES ASSUME NEW i \in DOMAIN queue, NEW j \in DOMAIN queue,
                      i < j, queue[i].fn = queue[j].fn, queue'[j].delivered
               PROVE  queue'[i].delivered
    BY <1>6 DEF FrontDelivered
  <2>1. CASE queue[j].delivered
    BY <1>6, <2>1 DEF FrontDelivered
  <2>2. CASE j \in S
    BY <1>2, <1>6, <2>2
  <2> QED BY <1>6, <2>1, <2>2
<1>11. MessagesOnce'
  <2>1. ASSUME NEW k \in DOMAIN mwr'
        PROVE  mwr'[k] \in DOMAIN queue' /\ queue'[mwr'[k]].delivered
    BY <1>1, <1>2, <1>4, <1>6, <1>9
  <2>2. ASSUME NEW i \in DOMAIN queue', queue'[i].delivered
        PROVE  \E k \in DOMAIN mwr' : mwr'[k] = i
    <3>1. CASE queue[i].delivered
      <4>1. \E k \in DOMAIN mwr : mwr[k] = i
        BY <1>6, <2>2, <3>1 DEF MessagesOnce
      <4> QED BY <1>9, <4>1
    <3>2. CASE i \in S
      BY <1>4, <1>9, <3>2
    <3> QED BY <1>6, <2>2, <3>1, <3>2
  <2>3. {mwr'[k] : k \in DOMAIN mwr'} = {i \in DOMAIN queue' : queue'[i].delivered}
    BY <2>1, <2>2
  <2>4. ASSUME NEW j \in DOMAIN mwr', NEW k \in DOMAIN mwr', j < k
        PROVE  /\ mwr'[j] # mwr'[k]
               /\ queue'[mwr'[j]].fn = queue'[mwr'[k]].fn => mwr'[j] < mwr'[k]
    <3>1. CASE j \in DOMAIN mwr /\ k \in DOMAIN mwr
      BY <1>1, <1>6, <1>9, <2>4, <3>1 DEF MessagesOnce
    <3>2. CASE j \in DOMAIN mwr /\ k \notin DOMAIN mwr
      <4> DEFINE p == mwr'[j]
                 q == mwr'[k]
      <4>1. /\ p \in DOMAIN queue /\ queue[p].delivered
            /\ q \in S /\ q \in DOMAIN queue /\ ~queue[q].delivered
        BY <1>1, <1>2, <1>4, <1>9, <3>2
      <4>2. p \in Nat /\ q \in Nat
        BY <1>1, <4>1
      <4> HIDE DEF p, q
      <4>3. p # q /\ (queue[p].fn = queue[q].fn => ~(q < p))
        BY <4>1 DEF FrontDelivered
      <4>4. p # q /\ (queue[p].fn = queue[q].fn => p < q)
        BY <4>2, <4>3
      <4> QED BY <1>6, <4>1, <4>4 DEF p, q
    <3>3. CASE j \notin DOMAIN mwr /\ k \notin DOMAIN mwr
      <4>1. j - Len(mwr) \in 1..n /\ k - Len(mwr) \in 1..n /\ j - Len(mwr) < k - Len(mwr)
        BY <1>1, <1>3, <1>9, <2>4, <3>3
      <4>2. nth[j - Len(mwr)] < nth[k - Len(mwr)]
        BY <1>4, <4>1
      <4>3. /\ mwr'[j] = nth[j - Len(mwr)] /\ mwr'[k] = nth[k - Len(mwr)]
            /\ mwr'[j] \in Nat /\ mwr'[k] \in Nat
        BY <1>2, <1>4, <1>9, <3>3, <4>1
      <4> QED BY <4>2, <4>3
    <3>4. ~(j \notin DOMAIN mwr /\ k \in DOMAIN mwr)
      BY <1>1, <1>3, <1>9, <2>4
    <3> QED BY <3>1, <3>2, <3>3, <3>4
  <2> QED BY <2>3, <2>4 DEF MessagesOnce
<1> QED BY <1>7, <1>9, <1>10, <1>11 DEF QueueTyped

(* A message enters at the end, not yet taken.                             *)
LEMMA MessageEnters ==
  ASSUME QueueTyped, FrontDelivered, MessagesOnce, NEW f \in Fns, NEW v \in Vecs,
         queue' = Append(queue, [fn |-> f, vec |-> v, delivered |-> FALSE]),
         UNCHANGED mwr
  PROVE  QueueTyped' /\ FrontDelivered' /\ MessagesOnce'
<1> DEFINE Msg == [fn : Fns, vec : Vecs, delivered : BOOLEAN]
           m == [fn |-> f, vec |-> v, delivered |-> FALSE]
<1>1. m \in Msg /\ ~m.delivered
  OBVIOUS
<1> HIDE DEF m
<1>2. /\ queue \in Seq(Msg) /\ queue' = Append(queue, m)
      /\ DOMAIN queue = 1..Len(queue) /\ Len(queue) \in Nat
  BY DEF QueueTyped, m
<1> HIDE DEF Msg
<1>3. /\ queue' \in Seq(Msg) /\ DOMAIN queue' = DOMAIN queue \cup {Len(queue) + 1}
      /\ Len(queue) + 1 \notin DOMAIN queue
      /\ \A i \in DOMAIN queue : queue'[i] = queue[i]
      /\ ~queue'[Len(queue) + 1].delivered
  BY <1>1, <1>2
<1>4. QueueTyped'
  BY <1>3 DEF QueueTyped, Msg
<1>5. FrontDelivered'
  <2> SUFFICES ASSUME NEW i \in DOMAIN queue', NEW j \in DOMAIN queue',
                      i < j, queue'[i].fn = queue'[j].fn, queue'[j].delivered
               PROVE  queue'[i].delivered
    BY DEF FrontDelivered
  <2>1. j \in DOMAIN queue
    BY <1>3
  <2>2. i \in DOMAIN queue
    BY <1>2, <1>3, <2>1
  <2> QED BY <1>3, <2>1, <2>2 DEF FrontDelivered
<1>6. MessagesOnce'
  <2>1. {i \in DOMAIN queue' : queue'[i].delivered} = {i \in DOMAIN queue : queue[i].delivered}
    BY <1>3
  <2>2. \A k \in DOMAIN mwr : mwr[k] \in DOMAIN queue
    BY DEF MessagesOnce
  <2> QED BY <1>3, <2>1, <2>2 DEF MessagesOnce
<1> QED BY <1>4, <1>5, <1>6

(* A step that moves no message.                                           *)
LEMMA MessagesStay ==
  ASSUME QueueTyped, FrontDelivered, MessagesOnce, UNCHANGED <<queue, mwr>>
  PROVE  QueueTyped' /\ FrontDelivered' /\ MessagesOnce'
BY DEF QueueTyped, FrontDelivered, MessagesOnce

(* Every step.                                                             *)
LEMMA PoolInvInductive ==
  ASSUME FnsOk, PoolInv, [PoolNext]_poolVars
  PROVE  PoolInv'
<1> USE DEF PoolInv, FunctionsApart
<1>1. ASSUME NEW id \in Ids, NEW rid \in Fns, DispatchCfgRead(RouteIdToVf(rid), id)
      PROVE  PoolInv'
  <2>1. RouteIdToVf(rid) \in Fns
    BY RouteIsFn
  <2>2. UNCHANGED <<queue, mwr>>
    BY <1>1 DEF DispatchCfgRead
  <2> QED BY <1>1, <2>1, <2>2, CfgReadAccounts, MessagesStay
<1>2. ASSUME NEW id \in Ids, NEW rid \in Fns, DispatchCompletion(rid, id)
      PROVE  PoolInv'
  <2>1. UNCHANGED <<queue, mwr>>
    BY <1>2 DEF DispatchCompletion
  <2> QED BY <1>2, <2>1, CompletionAccounts, MessagesStay
<1>3. ASSUME NEW f \in Fns, NEW v \in Vecs, DispatchMsix(f, v)
      PROVE  PoolInv'
  <2> DEFINE e == [fns[f] EXCEPT !.pba = fns[f].pba \cup {v}]
  <2>0. fns[f] \in FnState
    BY DEF PoolTyped
  <2>1. e \in FnState /\ e.np = fns[f].np /\ e.completed = fns[f].completed
    BY <2>0 DEF FnState
  <2>2. fns' = [fns EXCEPT ![f] = e] /\ UNCHANGED <<tally, mwr>>
    BY <1>3 DEF DispatchMsix
  <2>3. PoolTyped' /\ RequestsAccounted'
    BY <2>1, <2>2, TableAccounts
  <2>4. QueueTyped' /\ FrontDelivered' /\ MessagesOnce'
    BY <1>3, <2>2, MessageEnters, MessagesStay DEF DispatchMsix
  <2> QED BY <2>3, <2>4
<1>4. ASSUME NEW f \in Fns, NEW v \in Vecs, NEW mask \in BOOLEAN,
             ConfigureVector(f, v, mask)
      PROVE  PoolInv'
  <2> DEFINE set == IF mask THEN fns[f].masked \cup {v} ELSE fns[f].masked \ {v}
             e == [fns[f] EXCEPT !.masked = set]
  <2>0. fns[f] \in FnState /\ set \in SUBSET Vecs
    BY DEF PoolTyped, FnState
  <2>1. fns' = [fns EXCEPT ![f] = e] /\ UNCHANGED <<tally, queue, mwr>>
    BY <1>4 DEF ConfigureVector
  <2> HIDE DEF set
  <2>2. e \in FnState /\ e.np = fns[f].np /\ e.completed = fns[f].completed
    BY <2>0 DEF FnState
  <2> HIDE DEF e
  <2> QED BY <2>1, <2>2, TableAccounts, MessagesStay
<1>5. ASSUME NEW R, AfterReset(R), Flushed(R), UNCHANGED <<queue, mwr>>
      PROVE  PoolInv'
  BY <1>5, ResetAccounts, MessagesStay
<1>6. ASSUME NEW S \in Taken, PoolTick(S)
      PROVE  PoolInv'
  <2>1. UNCHANGED <<fns, tally>>
    BY <1>6 DEF PoolTick
  <2>2. PoolTyped' /\ RequestsAccounted'
    BY <2>1 DEF PoolTyped, RequestsAccounted
  <2> QED BY <1>6, <2>2, TickKeeps
<1>7. ASSUME UNCHANGED <<fns, tally, queue, mwr>>
      PROVE  PoolInv'
  <2>1. PoolTyped' /\ RequestsAccounted'
    BY <1>7 DEF PoolTyped, RequestsAccounted
  <2> QED BY <1>7, <2>1, MessagesStay
<1> HIDE DEF PoolInv, FunctionsApart
<1>8. CASE UNCHANGED poolVars
  BY <1>7, <1>8 DEF poolVars
<1>9. CASE PoolNext
  BY <1>1, <1>2, <1>3, <1>4, <1>5, <1>6, <1>7, <1>9
     DEF PoolNext, FlrPf, FlrVf, SetAriEnabled
<1> QED BY <1>8, <1>9

(* For any number of functions, vectors and requests: a request is         *)
(* outstanding, completed or discarded by a reset of its own function, and *)
(* each message goes to the link layer once, a function's in the order of  *)
(* its interrupts, whatever the link layer refuses in between and whichever*)
(* function is reset.                                                      *)
THEOREM FunctionsStayApart ==
  ASSUME FnsOk
  PROVE  PoolSpec => []FunctionsApart
<1>1. PoolInit => PoolInv
  <2> SUFFICES ASSUME PoolInit PROVE PoolInv
    OBVIOUS
  <2>1. IsFiniteSet({}) /\ Cardinality({}) = 0
    BY FS_EmptySet
  <2>2. Fresh \in FnState /\ Fresh.np = {} /\ Fresh.completed = 0
    BY DEF Fresh, FnState
  <2>3. PoolTyped /\ RequestsAccounted
    <3> HIDE DEF Fresh, FnState
    <3>1. \A f \in Fns : fns[f] = Fresh
      BY DEF PoolInit
    <3>2. tally \in [Fns -> [registered : Nat, flushed : Nat]]
      BY DEF PoolInit
    <3>3. \A f \in Fns : tally[f].registered = 0 /\ tally[f].flushed = 0
      BY DEF PoolInit
    <3>4. PoolTyped
      BY <2>1, <2>2, <3>1, <3>2 DEF PoolInit, PoolTyped
    <3> QED BY <2>1, <2>2, <3>1, <3>3, <3>4 DEF RequestsAccounted
  <2>4. queue = << >> /\ mwr = << >> /\ DOMAIN queue = {} /\ DOMAIN mwr = {}
    BY DEF PoolInit
  <2>5. QueueTyped /\ FrontDelivered /\ MessagesOnce
    BY <2>4 DEF QueueTyped, FrontDelivered, MessagesOnce
  <2> QED BY <2>3, <2>5 DEF PoolInv, FunctionsApart
<1>2. PoolInv => FunctionsApart
  BY DEF PoolInv
<1>3. PoolInv /\ [PoolNext]_poolVars => PoolInv'
  BY PoolInvInductive
<1> QED BY <1>1, <1>2, <1>3, PTL DEF PoolSpec

-----------------------------------------------------------------------------
(* The endpoint.                                                           *)

(* What the proofs need of the inputs: a register is written with an       *)
(* integer, an offset is one, and a document turns the link on or off or   *)
(* leaves it out.                                                          *)
InputsOk ==
  /\ \A w \in CfgWrites : w[1] \in Int /\ w[2] \in Int
  /\ Offsets \subseteq Int
  /\ \A doc \in Docs : doc.link \in {"absent", "off", "on"}

Bits == 0 .. 3

(* The two bits of PMCSR are those its callback saw last, if any; the      *)
(* device is in the state of those of them that name one.                  *)
PmSeen ==
  <<"power">> \notin apart =>
    /\ caps
    /\ \/ seen.pws = 4 /\ cfg[Pmcsr] % 4 = 0 /\ power = 0
       \/ cfg[Pmcsr] % 4 = seen.pws /\ (seen.pws \in {0, 3} => power = seen.pws)

(* The same for LNKCTL and the PHY, which is not told to leave a state.    *)
LnkSeen ==
  caps /\ <<"aspm">> \notin apart =>
    /\ cfg[Lnkctl] % 4 = IF seen.lnk = 4 THEN 0 ELSE seen.lnk
    /\ seen.lnk \in 1 .. 3 => aspm_level = (IF seen.lnk >= 2 THEN 2 ELSE 1)

SeenType == seen \in [pws : 0 .. 4, lnk : 0 .. 4]
CfgType  == DOMAIN cfg = Regs /\ DOMAIN ccfg = Regs

IpKeys == {"others", "built", "active", "mode", "mux", "settings", "hot", "linkSink",
           "tlpSink", "adapters", "axi", "ari", "pfVecs", "vfVecs", "size", "regs",
           "warned", "doc", "wanted"}

(* The composite is built by the first document that enables the link, and *)
(* enabling it attaches both sinks and sets both modes.                    *)
Composed(p) ==
  /\ p.active \in BOOLEAN /\ p.built \in BOOLEAN /\ p.others \in BOOLEAN
  /\ p.wanted \in BOOLEAN
  /\ p.active = p.wanted /\ (p.built => ~p.others) /\ (p.active => p.built \/ p.others)
  /\ Composite(p) => p.linkSink /\ p.tlpSink /\ p.mode = p.mux

Warned(p) ==
  /\ p.warned \subseteq p.doc.unknown \cup {"config_size", "resized"}
  /\ p.doc.unknown \ p.warned \subseteq (IF Composite(p) THEN {} ELSE {"phy_digital"})

IpInv == DOMAIN ip = IpKeys /\ Composed(ip) /\ Warned(ip) /\ ip.axi = ip.doc.axi

EpInv == /\ SeenType /\ CfgType /\ PmSeen /\ LnkSeen
         /\ StoresAgree /\ RegistersAgree /\ IpInv

-----------------------------------------------------------------------------
(* A write of a config space moves each of the registers or none, and the  *)
(* power state and the PHY go with the bits that are seen.                 *)
LEMMA SpaceWriteKeeps ==
  ASSUME SeenType, CfgType, PmSeen, LnkSeen, NEW reg \in Int, NEW v \in Int,
         ConfigSpaceWrite(reg, v), DOMAIN ccfg' = Regs,
         \A x \in {<<"power">>, <<"aspm">>} :
           x \in apart' <=> x \in (apart \ Met(reg, v)) \cup Parted(reg, v)
  PROVE  SeenType' /\ CfgType' /\ PmSeen' /\ LnkSeen'
<1>1. v % 4 \in Bits
  BY DEF Bits
<1>2. /\ cfg' = IF Writable(reg) THEN [cfg EXCEPT ![reg] = v] ELSE cfg
      /\ seen' = [pws |-> IF TellsPm(reg, v) THEN v % 4 ELSE seen.pws,
                  lnk |-> IF TellsPhy(reg, v) THEN v % 4 ELSE seen.lnk]
      /\ power' = IF TellsPm(reg, v) /\ v % 4 \in {0, 3} THEN v % 4 ELSE power
      /\ aspm_level' = IF TellsPhy(reg, v) /\ Composite(ip) /\ v % 4 # 0
                THEN (IF v % 4 >= 2 THEN 2 ELSE 1) ELSE aspm_level
      /\ caps' = caps
  BY DEF ConfigSpaceWrite
<1>3. SeenType' /\ CfgType'
  <2>1. SeenType'
    BY <1>1, <1>2 DEF SeenType, Bits
  <2>2. DOMAIN cfg' = Regs
    BY <1>2 DEF CfgType
  <2> QED BY <2>1, <2>2 DEF CfgType
<1>4. Pmcsr \in Regs /\ Lnkctl \in Regs /\ Pmcsr # Lnkctl
  BY DEF Pmcsr, Lnkctl, Regs
<1>5. /\ cfg'[Pmcsr] = IF Writable(reg) /\ reg = Pmcsr THEN v ELSE cfg[Pmcsr]
      /\ cfg'[Lnkctl] = IF Writable(reg) /\ reg = Lnkctl THEN v ELSE cfg[Lnkctl]
  BY <1>2, <1>4 DEF CfgType
<1>6. /\ seen'.pws = IF TellsPm(reg, v) THEN v % 4 ELSE seen.pws
      /\ seen'.lnk = IF TellsPhy(reg, v) THEN v % 4 ELSE seen.lnk
      /\ seen.pws \in 0 .. 4 /\ seen.lnk \in 0 .. 4
  BY <1>2 DEF SeenType
<1>7. /\ <<"power">> \in Met(reg, v) <=> TellsPm(reg, v) /\ v % 4 \in {0, 3}
      /\ <<"aspm">> \in Met(reg, v) <=> TellsPhy(reg, v) /\ Composite(ip)
      /\ <<"power">> \notin Parted(reg, v)
      /\ <<"aspm">> \in Parted(reg, v) <=> TellsPhy(reg, v) /\ ~Composite(ip)
  BY DEF Met, Parted
<1>8. PmSeen'
  <2>1. CASE TellsPm(reg, v)
    <3>1. Writable(reg) /\ reg = Pmcsr /\ caps
      BY <2>1 DEF TellsPm
    <3>2. cfg'[Pmcsr] % 4 = seen'.pws
      BY <1>5, <1>6, <2>1, <3>1
    <3>3. CASE v % 4 \in {0, 3}
      BY <1>2, <1>6, <2>1, <3>1, <3>2, <3>3 DEF PmSeen
    <3>4. CASE v % 4 \notin {0, 3}
      <4>1. seen'.pws \notin {0, 3}
        BY <1>6, <2>1, <3>4
      <4> QED BY <1>2, <3>1, <3>2, <4>1 DEF PmSeen
    <3> QED BY <3>3, <3>4
  <2>2. CASE ~TellsPm(reg, v)
    <3>1. <<"power">> \in apart' <=> <<"power">> \in apart
      BY <1>7, <2>2
    <3>2. power' = power /\ caps' = caps /\ seen'.pws = seen.pws
      BY <1>2, <1>6, <2>2
    <3>3. CASE Writable(reg) /\ reg = Pmcsr
      <4>1. caps => v % 4 = seen.pws /\ cfg'[Pmcsr] = v
        BY <1>5, <2>2, <3>3 DEF TellsPm
      <4>2. caps => seen.pws # 4
        BY <1>1, <4>1 DEF Bits
      <4> QED BY <3>1, <3>2, <4>1, <4>2 DEF PmSeen
    <3>4. CASE ~(Writable(reg) /\ reg = Pmcsr)
      <4>1. cfg'[Pmcsr] = cfg[Pmcsr]
        BY <1>5, <3>4
      <4> QED BY <3>1, <3>2, <4>1 DEF PmSeen
    <3> QED BY <3>3, <3>4
  <2> QED BY <2>1, <2>2
<1>9. LnkSeen'
  <2>1. CASE TellsPhy(reg, v)
    <3>1. Writable(reg) /\ reg = Lnkctl /\ caps
      BY <2>1 DEF TellsPhy
    <3>2. cfg'[Lnkctl] % 4 = seen'.lnk /\ seen'.lnk = v % 4
      BY <1>5, <1>6, <2>1, <3>1
    <3>3. CASE Composite(ip)
      <4>1. seen'.lnk \in 1 .. 3 => aspm_level' = (IF seen'.lnk >= 2 THEN 2 ELSE 1)
        <5>1. v % 4 # 0 => aspm_level' = (IF v % 4 >= 2 THEN 2 ELSE 1)
          BY <1>2, <2>1, <3>3
        <5>2. seen'.lnk # 0 => aspm_level' = (IF seen'.lnk >= 2 THEN 2 ELSE 1)
          BY <3>2, <5>1
        <5> QED BY <5>2
      <4> QED BY <3>2, <4>1 DEF LnkSeen
    <3>4. CASE ~Composite(ip)
      <4>1. <<"aspm">> \in apart'
        BY <1>7, <2>1, <3>4
      <4> QED BY <4>1 DEF LnkSeen
    <3> QED BY <3>3, <3>4
  <2>2. CASE ~TellsPhy(reg, v)
    <3>1. <<"aspm">> \in apart' <=> <<"aspm">> \in apart
      BY <1>7, <2>2
    <3>2. aspm_level' = aspm_level /\ caps' = caps /\ seen'.lnk = seen.lnk
      BY <1>2, <1>6, <2>2
    <3>3. CASE Writable(reg) /\ reg = Lnkctl
      <4>1. caps => v % 4 = seen.lnk /\ cfg'[Lnkctl] = v
        BY <1>5, <2>2, <3>3 DEF TellsPhy
      <4> QED BY <3>1, <3>2, <4>1 DEF LnkSeen
    <3>4. CASE ~(Writable(reg) /\ reg = Lnkctl)
      <4>1. cfg'[Lnkctl] = cfg[Lnkctl]
        BY <1>5, <3>4
      <4> QED BY <3>1, <3>2, <4>1 DEF LnkSeen
    <3> QED BY <3>3, <3>4
  <2> QED BY <2>1, <2>2
<1> QED BY <1>3, <1>8, <1>9

(* What a write leaves in a store.                                         *)
LEMMA StoredIs ==
  ASSUME NEW s, NEW x, NEW datum, NEW y
  PROVE  BarStoreValue(Stored(s, x, datum), y) =
           IF y = x THEN datum ELSE BarStoreValue(s, y)
BY DEF BarStoreValue, Stored

(* No word is at an offset that is not aligned.                            *)
LEMMA WordsAligned ==
  ASSUME NEW o \in Int, NEW q \in Int, Aligned(q) = o
  PROVE  Aligned(o) = o
BY DEF Aligned

(* A write of the endpoint's store alone is noted.                         *)
LEMMA StoreKeeps ==
  ASSUME StoresAgree, NEW x, NEW datum, WriteStore(x, datum)
  PROVE  StoresAgree'
<1> SUFFICES ASSUME NEW y \in Bars \X {Aligned(o) : o \in Offsets}, <<"bar", y>> \notin apart'
    PROVE BarStoreValue(store', y) = BarStoreValue(cstore', y)
  BY DEF StoresAgree
<1>1. store' = Stored(store, x, datum) /\ cstore' = cstore
      /\ apart' = apart \cup {<<"bar", x>>}
  BY DEF WriteStore
<1>2. y # x /\ <<"bar", y>> \notin apart
  BY <1>1
<1> QED BY <1>1, <1>2, StoredIs DEF StoresAgree

(* A TLP's write reaches the same word of both stores, or is noted.        *)
LEMMA TlpWriteKeeps ==
  ASSUME InputsOk, StoresAgree, NEW bar \in Bars, NEW o \in Offsets, NEW v,
         DispatchTlpWrite(bar, o, v)
  PROVE  StoresAgree'
<1> DEFINE x == <<bar, Aligned(o)>>
<1> SUFFICES ASSUME NEW y \in Bars \X {Aligned(q) : q \in Offsets}, <<"bar", y>> \notin apart'
    PROVE BarStoreValue(store', y) = BarStoreValue(cstore', y)
  BY DEF StoresAgree
<1>1. /\ store' = Stored(store, x, <<v, v, v>>)
      /\ cstore' = Stored(cstore, <<bar, o>>, <<v, v, v>>)
      /\ apart' = IF o = Aligned(o) THEN apart \ {<<"bar", x>>} ELSE apart \cup {<<"bar", x>>}
  BY DEF DispatchTlpWrite, CompleterBarWrite
<1>2. /\ BarStoreValue(store', y) = IF y = x THEN <<v, v, v>> ELSE BarStoreValue(store, y)
      /\ BarStoreValue(cstore', y) =
           IF y = <<bar, o>> THEN <<v, v, v>> ELSE BarStoreValue(cstore, y)
  BY <1>1, StoredIs
<1>3. CASE o = Aligned(o)
  <2>1. x = <<bar, o>>
    BY <1>3
  <2>2. y # x => <<"bar", y>> \notin apart
    BY <1>1, <1>3
  <2> HIDE DEF x
  <2> QED BY <1>2, <2>1, <2>2 DEF StoresAgree
<1>4. CASE o # Aligned(o)
  <2>1. y # x /\ <<"bar", y>> \notin apart
    BY <1>1, <1>4
  <2>2. y # <<bar, o>>
    <3>1. PICK q \in Offsets : y = <<y[1], Aligned(q)>>
      OBVIOUS
    <3>2. o \in Int /\ q \in Int
      BY DEF InputsOk
    <3> QED BY <1>4, <3>1, <3>2, WordsAligned
  <2> HIDE DEF x
  <2> QED BY <1>2, <2>1, <2>2 DEF StoresAgree
<1> QED BY <1>3, <1>4

(* ... and a register of both sides.                                       *)
LEMMA TlpConfigKeeps ==
  ASSUME CfgType, RegistersAgree, NEW reg, NEW v, DispatchTlpConfig(reg, v)
  PROVE  RegistersAgree'
<1> SUFFICES ASSUME NEW q \in Regs, <<"cfg", q>> \notin apart' PROVE cfg'[q] = ccfg'[q]
  BY DEF RegistersAgree
<1>1. /\ cfg' = IF Writable(reg) THEN [cfg EXCEPT ![reg] = v] ELSE cfg
      /\ ccfg' = [ccfg EXCEPT ![reg] = v]
      /\ apart' = IF Writable(reg)
                  THEN ((apart \ Met(reg, v)) \cup Parted(reg, v)) \ {<<"cfg", reg>>}
                  ELSE ((apart \ Met(reg, v)) \cup Parted(reg, v)) \cup {<<"cfg", reg>>}
  BY DEF DispatchTlpConfig, ConfigSpaceWrite, CompleterConfigWrite
<1>2. <<"cfg", q>> \notin Met(reg, v)
  BY DEF Met
<1>3. CASE q = reg
  BY <1>1, <1>3 DEF CfgType
<1>4. CASE q # reg
  <2>1. <<"cfg", q>> \notin apart
    BY <1>1, <1>2, <1>4
  <2> QED BY <1>1, <1>4, <2>1 DEF CfgType, RegistersAgree
<1> QED BY <1>3, <1>4

-----------------------------------------------------------------------------
(* What one document makes of the composite, group by group.               *)
DocOk(doc) == doc.link \in {"absent", "off", "on"}

(* All that holds of an endpoint between two documents but the warnings.   *)
IpShape(p) == DOMAIN p = IpKeys /\ Composed(p)

(* A field that a group writes is one of the endpoint's.                   *)
LEMMA LinkComposes ==
  ASSUME NEW p, IpShape(p), NEW doc, DocOk(doc), NEW q,
         q = AttachLink(AttachAxi(Instantiated(p, doc), doc), doc)
  PROVE  /\ DOMAIN q = IpKeys /\ q.axi = doc.axi
         /\ IpShape([q EXCEPT !.wanted = IF doc.link = "absent" THEN @ ELSE LinkEnabled(doc)])
<1> DEFINE e(r) == [r EXCEPT !.active = TRUE, !.built = r.built \/ ~r.others]
           i == Instantiated(p, doc)
           a == AttachAxi(i, doc)
           l == e(a)
           m == CASE doc.mode = "absent" -> l.mux [] doc.mode = "other" -> "Full"
                  [] OTHER -> doc.mode
           w == [q EXCEPT !.wanted = IF doc.link = "absent" THEN @ ELSE LinkEnabled(doc)]
<1>1. /\ DOMAIN p = IpKeys /\ p.active \in BOOLEAN /\ p.built \in BOOLEAN
      /\ p.others \in BOOLEAN /\ p.wanted \in BOOLEAN /\ p.active = p.wanted
      /\ (p.built => ~p.others) /\ (p.active => p.built \/ p.others)
      /\ (p.active /\ p.built => p.linkSink /\ p.tlpSink /\ p.mode = p.mux)
  BY DEF IpShape, Composed, Composite
<1>2. CASE doc.link = "absent"
  <2>1. i = p /\ q = [p EXCEPT !.axi = doc.axi]
    BY <1>2 DEF Instantiated, LinkEnabled, AttachAxi, AttachLink
  <2>2. DOMAIN q = IpKeys /\ q.axi = doc.axi
    BY <1>1, <2>1 DEF IpKeys
  <2>3. /\ q.active = p.active /\ q.built = p.built /\ q.others = p.others
        /\ q.wanted = p.wanted /\ q.linkSink = p.linkSink /\ q.tlpSink = p.tlpSink
        /\ q.mode = p.mode /\ q.mux = p.mux
    BY <1>1, <2>1 DEF IpKeys
  <2>4. /\ DOMAIN w = IpKeys /\ w.active = q.active /\ w.built = q.built
        /\ w.others = q.others /\ w.wanted = q.wanted /\ w.linkSink = q.linkSink
        /\ w.tlpSink = q.tlpSink /\ w.mode = q.mode /\ w.mux = q.mux
    BY <1>2, <2>2 DEF IpKeys
  <2> QED BY <1>1, <2>2, <2>3, <2>4 DEF IpShape, Composed, Composite
<1>3. CASE doc.link = "off"
  <2>1. i = p /\ q = [[p EXCEPT !.axi = doc.axi] EXCEPT !.active = FALSE]
    BY <1>3 DEF Instantiated, LinkEnabled, AttachAxi, AttachLink
  <2>2. /\ DOMAIN q = IpKeys /\ q.axi = doc.axi /\ q.active = FALSE
        /\ q.built = p.built /\ q.others = p.others
    BY <1>1, <2>1 DEF IpKeys
  <2>3. /\ DOMAIN w = IpKeys /\ w.active = FALSE /\ w.built = q.built
        /\ w.others = q.others /\ w.wanted = FALSE
    BY <1>3, <2>2 DEF IpKeys, LinkEnabled
  <2> QED BY <1>1, <2>2, <2>3 DEF IpShape, Composed, Composite
<1>4. CASE doc.link = "on"
  <2>1. i = IF ~p.built /\ ~p.others THEN e(p) ELSE p
    BY <1>4 DEF Instantiated, LinkEnabled, EnsureComposite
  <2>2. /\ DOMAIN i = IpKeys /\ i.others = p.others
        /\ (~p.others => i.built) /\ (p.others => i.built = p.built)
        /\ i.built \in BOOLEAN
    BY <1>1, <2>1 DEF IpKeys
  <2>3. a = [i EXCEPT !.axi = doc.axi]
    BY DEF AttachAxi
  <2> HIDE DEF i
  <2>4. /\ DOMAIN a = IpKeys /\ a.others = i.others /\ a.built = i.built /\ a.axi = doc.axi
    BY <2>2, <2>3 DEF IpKeys
  <2> HIDE DEF a
  <2>5. /\ DOMAIN l = IpKeys /\ l.active = TRUE /\ l.built = (a.built \/ ~a.others)
        /\ l.others = a.others /\ l.axi = doc.axi
    BY <2>4 DEF IpKeys
  <2>6. l = EnsureComposite(a)
    BY DEF EnsureComposite
  <2>7. q = IF Composite(l)
            THEN [l EXCEPT !.mux = m, !.mode = m, !.settings = doc.settings,
                           !.linkSink = TRUE, !.tlpSink = TRUE]
            ELSE l
    BY <1>4, <2>6 DEF AttachLink, a, i
  <2> HIDE DEF l, m
  <2>8. /\ DOMAIN q = IpKeys /\ q.axi = doc.axi /\ q.active = TRUE
        /\ q.built = l.built /\ q.others = l.others
        /\ (l.built => q.linkSink = TRUE /\ q.tlpSink = TRUE /\ q.mode = q.mux)
    <3>1. CASE Composite(l)
      BY <2>5, <2>7, <3>1 DEF IpKeys
    <3>2. CASE ~Composite(l)
      BY <2>5, <2>7, <3>2 DEF Composite
    <3> QED BY <3>1, <3>2
  <2>9. /\ DOMAIN w = IpKeys /\ w.active = TRUE /\ w.built = q.built /\ w.others = q.others
        /\ w.wanted = TRUE /\ w.linkSink = q.linkSink /\ w.tlpSink = q.tlpSink
        /\ w.mode = q.mode /\ w.mux = q.mux
    BY <1>4, <2>8 DEF IpKeys, LinkEnabled
  <2>10. q.built = ~q.others /\ q.others \in BOOLEAN
    BY <1>1, <2>2, <2>4, <2>5, <2>8
  <2>11. IpShape(w)
    BY <2>5, <2>8, <2>9, <2>10 DEF IpShape, Composed, Composite
  <2> QED BY <2>8, <2>11
<1> QED BY <1>2, <1>3, <1>4 DEF DocOk

(* The fields that make the composite.                                     *)
Core(p) == <<p.others, p.built, p.active, p.mode, p.mux, p.linkSink, p.tlpSink, p.wanted>>

(* What has the same of these is composed in the same way.                 *)
LEMMA SameCore ==
  ASSUME NEW p, NEW q, IpShape(p), DOMAIN q = IpKeys, Core(q) = Core(p)
  PROVE  IpShape(q) /\ (Composite(q) <=> Composite(p))
<1>1. /\ q.others = p.others /\ q.built = p.built /\ q.active = p.active
      /\ q.mode = p.mode /\ q.mux = p.mux /\ q.linkSink = p.linkSink
      /\ q.tlpSink = p.tlpSink /\ q.wanted = p.wanted
  BY DEF Core
<1> QED BY <1>1 DEF IpShape, Composed, Composite

(* The groups after the link leave the composite alone.                    *)
LEMMA GroupsKeepCore ==
  ASSUME NEW p, DOMAIN p = IpKeys, NEW doc, NEW q,
         q = AttachRegisters(AttachGroups(AttachPhy(p, doc), doc), doc)
  PROVE  DOMAIN q = IpKeys /\ Core(q) = Core(p) /\ q.axi = p.axi
<1>1. PICK h : AttachPhy(p, doc) = [p EXCEPT !.hot = h]
  BY DEF AttachPhy
<1>2. DOMAIN AttachPhy(p, doc) = IpKeys /\ Core(AttachPhy(p, doc)) = Core(p)
      /\ AttachPhy(p, doc).axi = p.axi
  BY <1>1 DEF IpKeys, Core
<1> DEFINE f == AttachPhy(p, doc)
           g == AttachGroups(f, doc)
<1> HIDE DEF f
<1>4. DOMAIN g = IpKeys /\ Core(g) = Core(p) /\ g.axi = p.axi
  BY <1>2 DEF AttachGroups, IpKeys, Core, f
<1>5. PICK s : q = [g EXCEPT !.regs = s]
  BY DEF AttachRegisters, f
<1> HIDE DEF g
<1> QED BY <1>4, <1>5 DEF IpKeys, Core

(* A document keeps the invariant of the composition.                      *)
LEMMA ConfigComposes ==
  ASSUME IpInv, NEW doc, DocOk(doc), OnConfigLoaded(doc)
  PROVE  IpInv'
<1> DEFINE linked == AttachLink(AttachAxi(Instantiated(ip, doc), doc), doc)
           p == AttachRegisters(AttachGroups(AttachPhy(linked, doc), doc), doc)
           want(r) == IF doc.link = "absent" THEN r.wanted ELSE LinkEnabled(doc)
           aim == [linked EXCEPT !.wanted = want(linked)]
           warn == {g \in doc.unknown : g = "phy_digital" => Composite(p)}
                     \cup {w \in {"config_size"} : BadSize(doc)}
<1>1. IpShape(ip)
  BY DEF IpInv, IpShape
<1>2. DOMAIN linked = IpKeys /\ linked.axi = doc.axi
  BY <1>1, LinkComposes
<1>3. IpShape([linked EXCEPT !.wanted = IF doc.link = "absent" THEN @ ELSE LinkEnabled(doc)])
  BY <1>1, LinkComposes
<1>4. IpShape(aim)
  BY <1>3
<1> HIDE DEF linked
<1>5. DOMAIN p = IpKeys /\ Core(p) = Core(linked) /\ p.axi = doc.axi
  BY <1>2, GroupsKeepCore
<1>6. ip' = [[p EXCEPT !.warned = warn] EXCEPT !.doc = doc,
               !.wanted = IF doc.link = "absent" THEN @ ELSE LinkEnabled(doc)]
  BY DEF OnConfigLoaded, WarnUnconsumed, linked
<1> HIDE DEF p, warn
<1>7. /\ DOMAIN ip' = IpKeys /\ ip'.warned = warn /\ ip'.doc = doc /\ ip'.axi = p.axi
      /\ ip'.wanted = want(p)
      /\ ip'.others = p.others /\ ip'.built = p.built /\ ip'.active = p.active
      /\ ip'.mode = p.mode /\ ip'.mux = p.mux /\ ip'.linkSink = p.linkSink
      /\ ip'.tlpSink = p.tlpSink
  BY <1>5, <1>6 DEF IpKeys
<1>8. /\ aim.others = linked.others /\ aim.built = linked.built /\ aim.active = linked.active
      /\ aim.mode = linked.mode /\ aim.mux = linked.mux /\ aim.linkSink = linked.linkSink
      /\ aim.tlpSink = linked.tlpSink /\ aim.wanted = want(linked)
  BY <1>2 DEF IpKeys
<1>9. Core(ip') = Core(aim)
  BY <1>5, <1>7, <1>8 DEF Core
<1>10. IpShape(ip')
  BY <1>4, <1>7, <1>9, SameCore
<1>11. Composite(ip') <=> Composite(p)
  BY <1>7 DEF Composite
<1>12. Warned(ip')
  BY <1>7, <1>11 DEF Warned, warn
<1>13. ip'.axi = ip'.doc.axi
  BY <1>5, <1>7
<1> QED BY <1>10, <1>12, <1>13 DEF IpInv, IpShape

(* The other steps change the mode, the adapters, ARI or the warnings.     *)
LEMMA OthersCompose ==
  ASSUME IpInv,
         \/ ip' = ip
         \/ \E mode : ip' = [ip EXCEPT !.mode = mode, !.mux = IF Composite(ip) THEN mode ELSE @]
         \/ ip' = [ip EXCEPT !.adapters = TRUE]
         \/ ip' = [ip EXCEPT !.ari = "off"]
         \/ \E W \in SUBSET {"resized"} : ip' = [ip EXCEPT !.warned = @ \cup W]
  PROVE  IpInv'
<1>0. DOMAIN ip = IpKeys /\ IpShape(ip) /\ Warned(ip) /\ ip.axi = ip.doc.axi
  BY DEF IpInv, IpShape
<1>1. CASE ip' = ip
  BY <1>1 DEF IpInv, Composed, Warned, Composite
<1>2. ASSUME NEW mode,
             ip' = [ip EXCEPT !.mode = mode, !.mux = IF Composite(ip) THEN mode ELSE @]
      PROVE  IpInv'
  <2>1. /\ DOMAIN ip' = IpKeys /\ ip'.mode = mode
        /\ ip'.mux = (IF Composite(ip) THEN mode ELSE ip.mux)
        /\ ip'.others = ip.others /\ ip'.built = ip.built /\ ip'.active = ip.active
        /\ ip'.linkSink = ip.linkSink /\ ip'.tlpSink = ip.tlpSink /\ ip'.wanted = ip.wanted
        /\ ip'.warned = ip.warned /\ ip'.doc = ip.doc /\ ip'.axi = ip.axi
    BY <1>0, <1>2 DEF IpKeys
  <2>2. Composite(ip') <=> Composite(ip)
    BY <2>1 DEF Composite
  <2>3. Composed(ip')
    BY <1>0, <2>1, <2>2 DEF Composed, IpShape
  <2> QED BY <1>0, <2>1, <2>2, <2>3 DEF IpInv, Warned
<1>3. ASSUME DOMAIN ip' = IpKeys, Core(ip') = Core(ip), ip'.doc = ip.doc, ip'.axi = ip.axi,
             \E W \in SUBSET {"resized"} : ip'.warned = ip.warned \cup W
      PROVE  IpInv'
  <2>1. IpShape(ip') /\ (Composite(ip') <=> Composite(ip))
    BY <1>0, <1>3, SameCore
  <2>2. Warned(ip')
    BY <1>0, <1>3, <2>1 DEF Warned
  <2> QED BY <1>0, <1>3, <2>1, <2>2 DEF IpInv, IpShape
<1>4. CASE ip' = [ip EXCEPT !.adapters = TRUE]
  <2>1. /\ DOMAIN ip' = IpKeys /\ Core(ip') = Core(ip) /\ ip'.doc = ip.doc
        /\ ip'.axi = ip.axi /\ ip'.warned = ip.warned \cup {}
    BY <1>0, <1>4 DEF IpKeys, Core
  <2> QED BY <1>3, <2>1
<1>5. CASE ip' = [ip EXCEPT !.ari = "off"]
  <2>1. /\ DOMAIN ip' = IpKeys /\ Core(ip') = Core(ip) /\ ip'.doc = ip.doc
        /\ ip'.axi = ip.axi /\ ip'.warned = ip.warned \cup {}
    BY <1>0, <1>5 DEF IpKeys, Core
  <2> QED BY <1>3, <2>1
<1>6. ASSUME NEW W \in SUBSET {"resized"}, ip' = [ip EXCEPT !.warned = @ \cup W]
      PROVE  IpInv'
  <2>1. /\ DOMAIN ip' = IpKeys /\ Core(ip') = Core(ip) /\ ip'.doc = ip.doc
        /\ ip'.axi = ip.axi /\ ip'.warned = ip.warned \cup W
    BY <1>0, <1>6 DEF IpKeys, Core
  <2> QED BY <1>3, <1>6, <2>1
<1> QED BY <1>1, <1>2, <1>4, <1>5, <1>6

-----------------------------------------------------------------------------
(* What concerns the registers is left alone by what writes none.          *)
LEMMA RegistersFrame ==
  ASSUME SeenType, CfgType, PmSeen, LnkSeen, RegistersAgree,
         UNCHANGED <<cfg, ccfg, seen, caps, power, aspm_level>>,
         \A x : x \in apart /\ ~(\E y : x = <<"bar", y>>) => x \in apart',
         \A x : x \in apart' /\ ~(\E y : x = <<"bar", y>>) => x \in apart
  PROVE  SeenType' /\ CfgType' /\ PmSeen' /\ LnkSeen' /\ RegistersAgree'
<1>1. \A y : <<"power">> # <<"bar", y>> /\ <<"aspm">> # <<"bar", y>>
  OBVIOUS
<1>2. \A r, y : <<"cfg", r>> # <<"bar", y>>
  OBVIOUS
<1>3. <<"power">> \in apart' <=> <<"power">> \in apart
  BY <1>1
<1>4. <<"aspm">> \in apart' <=> <<"aspm">> \in apart
  BY <1>1
<1>5. \A r : <<"cfg", r>> \in apart' <=> <<"cfg", r>> \in apart
  BY <1>2
<1>6. SeenType' /\ CfgType'
  BY DEF SeenType, CfgType
<1>7. PmSeen'
  BY <1>3 DEF PmSeen
<1>8. LnkSeen'
  BY <1>4 DEF LnkSeen
<1>9. RegistersAgree'
  BY <1>5 DEF RegistersAgree
<1> QED BY <1>6, <1>7, <1>8, <1>9

(* The stores agree where no write was taken back.                         *)
LEMMA StoresFrame ==
  ASSUME StoresAgree, UNCHANGED <<store, cstore>>, \A x : <<"bar", x>> \in apart => <<"bar", x>> \in apart'
  PROVE  StoresAgree'
BY DEF StoresAgree

(* A register written on the endpoint's side is noted.                     *)
LEMMA ConfigWriteKeeps ==
  ASSUME InputsOk, EpInv, NEW reg \in Int, NEW v \in Int, ConfigWrite(reg, v)
  PROVE  EpInv'
<1>1. /\ ConfigSpaceWrite(reg, v) /\ ccfg' = ccfg /\ cstore' = cstore
      /\ apart' = (apart \ Met(reg, v)) \cup Parted(reg, v) \cup {<<"cfg", reg>>}
      /\ store' = store /\ ip' = ip
      /\ cfg' = IF Writable(reg) THEN [cfg EXCEPT ![reg] = v] ELSE cfg
  BY DEF ConfigWrite, ConfigSpaceWrite
<1>2. \A x : <<"bar", x>> \notin Met(reg, v)
  BY DEF Met
<1>3. \A x : <<"cfg", x>> \notin Met(reg, v)
  BY DEF Met
<1>4. SeenType' /\ CfgType' /\ PmSeen' /\ LnkSeen'
  <2>1. DOMAIN ccfg' = Regs
    BY <1>1 DEF EpInv, CfgType
  <2>2. \A x \in {<<"power">>, <<"aspm">>} :
          x \in apart' <=> x \in (apart \ Met(reg, v)) \cup Parted(reg, v)
    BY <1>1
  <2> QED BY <1>1, <2>1, <2>2, SpaceWriteKeeps DEF EpInv
<1>5. StoresAgree'
  BY <1>1, <1>2, StoresFrame DEF EpInv
<1>6. RegistersAgree'
  <2> SUFFICES ASSUME NEW q \in Regs, <<"cfg", q>> \notin apart' PROVE cfg'[q] = ccfg'[q]
    BY DEF RegistersAgree
  <2>1. q # reg /\ <<"cfg", q>> \notin apart
    BY <1>1, <1>3
  <2> QED BY <1>1, <2>1 DEF EpInv, CfgType, RegistersAgree
<1>7. IpInv'
  BY <1>1, OthersCompose DEF EpInv
<1> QED BY <1>4, <1>5, <1>6, <1>7 DEF EpInv

(* A TLP reaches both sides.                                               *)
LEMMA TlpKeeps ==
  ASSUME InputsOk, EpInv, InjectTlp
  PROVE  EpInv'
<1>1. ASSUME NEW bar \in Bars, NEW o \in Offsets, NEW v, DispatchTlpWrite(bar, o, v)
      PROVE  EpInv'
  <2>1. UNCHANGED <<cfg, ccfg, seen, caps, power, aspm_level>> /\ ip' = ip
    BY <1>1 DEF DispatchTlpWrite
  <2>2. \A x : ~(\E y : x = <<"bar", y>>) => (x \in apart' <=> x \in apart)
    BY <1>1 DEF DispatchTlpWrite
  <2>3. SeenType' /\ CfgType' /\ PmSeen' /\ LnkSeen' /\ RegistersAgree'
    BY <2>1, <2>2, RegistersFrame DEF EpInv
  <2>4. StoresAgree'
    BY <1>1, TlpWriteKeeps DEF EpInv
  <2>5. IpInv'
    BY <2>1, OthersCompose DEF EpInv
  <2> QED BY <2>3, <2>4, <2>5 DEF EpInv
<1>2. ASSUME NEW w \in CfgWrites, DispatchTlpConfig(w[1], w[2])
      PROVE  EpInv'
  <2> DEFINE reg == w[1]
             v == w[2]
  <2>1. reg \in Int /\ v \in Int
    BY DEF InputsOk
  <2>2. DispatchTlpConfig(reg, v)
    BY <1>2
  <2> HIDE DEF reg, v
  <2>3. /\ ConfigSpaceWrite(reg, v) /\ ccfg' = [ccfg EXCEPT ![reg] = v] /\ cstore' = cstore
        /\ store' = store /\ ip' = ip
        /\ apart' = IF Writable(reg)
                    THEN ((apart \ Met(reg, v)) \cup Parted(reg, v)) \ {<<"cfg", reg>>}
                    ELSE ((apart \ Met(reg, v)) \cup Parted(reg, v)) \cup {<<"cfg", reg>>}
    BY <2>2 DEF DispatchTlpConfig, ConfigSpaceWrite, CompleterConfigWrite
  <2>4. SeenType' /\ CfgType' /\ PmSeen' /\ LnkSeen'
    <3>1. DOMAIN ccfg' = Regs
      BY <2>3 DEF EpInv, CfgType
    <3>2. \A x \in {<<"power">>, <<"aspm">>} :
            x \in apart' <=> x \in (apart \ Met(reg, v)) \cup Parted(reg, v)
      BY <2>3
    <3> QED BY <2>1, <2>3, <3>1, <3>2, SpaceWriteKeeps DEF EpInv
  <2>5. StoresAgree'
    <3>1. \A x : <<"bar", x>> \notin Met(reg, v) /\ <<"bar", x>> # <<"cfg", reg>>
      BY DEF Met
    <3> QED BY <2>3, <3>1, StoresFrame DEF EpInv
  <2>6. RegistersAgree'
    BY <2>2, TlpConfigKeeps DEF EpInv
  <2>7. IpInv'
    BY <2>3, OthersCompose DEF EpInv
  <2> QED BY <2>4, <2>5, <2>6, <2>7 DEF EpInv
<1> QED BY <1>1, <1>2 DEF InjectTlp

(* A reset: each register of the pool's may differ from the completer's,   *)
(* the power state is no longer the register's, LNKCTL asks for nothing.   *)
LEMMA ResetKeepsEp ==
  ASSUME EpInv, DoReset \/ EpFlrPf
  PROVE  EpInv'
<1>1. /\ apart' = Swept /\ ccfg' = ccfg /\ store' = store /\ cstore' = cstore
      /\ aspm_level' = aspm_level
  BY DEF DoReset, EpFlrPf
<1>2. DOMAIN cfg' = Regs
  BY DEF DoReset, EpFlrPf, Installed, Wiped
<1>3. <<"power">> \in apart' /\ \A r \in Regs : <<"cfg", r>> \in apart'
  BY <1>1 DEF Swept
<1>4. \A x : <<"bar", x>> \in apart => <<"bar", x>> \in apart'
  BY <1>1 DEF Swept
<1>5. CfgType' /\ PmSeen' /\ RegistersAgree'
  BY <1>1, <1>2, <1>3 DEF EpInv, CfgType, PmSeen, RegistersAgree
<1>6. StoresAgree'
  BY <1>1, <1>4, StoresFrame DEF EpInv
<1>7. CASE DoReset
  <2>1. cfg' = Installed(ip.size, FALSE) /\ seen' = [seen EXCEPT !.lnk = 0] /\ ip' = ip
    BY <1>7 DEF DoReset
  <2>2. SeenType' /\ seen'.lnk = 0
    BY <2>1 DEF EpInv, SeenType
  <2>3. cfg'[Lnkctl] = 16
    BY <2>1 DEF Installed, Wiped, Regs, Lnkctl
  <2>4. LnkSeen'
    BY <2>2, <2>3 DEF LnkSeen
  <2>5. IpInv'
    BY <2>1, OthersCompose DEF EpInv
  <2> QED BY <1>5, <1>6, <2>2, <2>4, <2>5 DEF EpInv
<1>8. CASE EpFlrPf
  <2>1. caps' = FALSE /\ seen' = seen /\ ip' = [ip EXCEPT !.ari = "off"]
    BY <1>8 DEF EpFlrPf
  <2>2. SeenType' /\ LnkSeen'
    BY <2>1 DEF EpInv, SeenType, LnkSeen
  <2>3. IpInv'
    BY <2>1, OthersCompose DEF EpInv
  <2> QED BY <1>5, <1>6, <2>2, <2>3 DEF EpInv
<1> QED BY <1>7, <1>8

(* A document writes registers that are neither PMCSR nor LNKCTL.          *)
LEMMA ConfigKeepsEp ==
  ASSUME EpInv, NEW doc, DocOk(doc), OnConfigLoaded(doc)
  PROVE  EpInv'
<1>1. /\ AttachConfigSpace(doc) /\ ccfg' = ccfg /\ seen' = seen /\ caps' = caps
      /\ power' = power /\ aspm_level' = aspm_level /\ store' = store /\ cstore' = cstore
  BY DEF OnConfigLoaded, hostVars
<1>2. IpInv'
  BY ConfigComposes DEF EpInv
<1> DEFINE pm == caps /\ doc.pm # 0
           new == {<<"cfg", r>> : r \in {x \in {64} : pm} \cup {x \in {16} : doc.sizes}}
<1>3. /\ cfg' = [cfg EXCEPT ![64] = IF pm THEN PmCap(doc.pm) ELSE @,
                            ![16] = IF doc.sizes THEN 0 ELSE @]
      /\ apart' = apart \cup new
  BY <1>1 DEF AttachConfigSpace
<1> HIDE DEF pm
<1>4. DOMAIN cfg' = Regs /\ \A r \in Regs : cfg'[r] # cfg[r] => (r = 64 /\ pm) \/ (r = 16 /\ doc.sizes)
  BY <1>3 DEF EpInv, CfgType, Regs
<1>5. Pmcsr \in Regs /\ Lnkctl \in Regs /\ Pmcsr \notin {16, 64} /\ Lnkctl \notin {16, 64}
  BY DEF Pmcsr, Lnkctl, Regs
<1>6. cfg'[Pmcsr] = cfg[Pmcsr] /\ cfg'[Lnkctl] = cfg[Lnkctl]
  BY <1>4, <1>5
<1>7. <<"power">> \notin new /\ <<"aspm">> \notin new
  OBVIOUS
<1>8. /\ <<"power">> \in apart' <=> <<"power">> \in apart
      /\ <<"aspm">> \in apart' <=> <<"aspm">> \in apart
  BY <1>3, <1>7
<1>9. SeenType' /\ CfgType' /\ PmSeen' /\ LnkSeen'
  BY <1>1, <1>4, <1>6, <1>8 DEF EpInv, SeenType, CfgType, PmSeen, LnkSeen
<1>10. StoresAgree'
  BY <1>1, <1>3, StoresFrame DEF EpInv
<1>11. RegistersAgree'
  <2> SUFFICES ASSUME NEW q \in Regs, <<"cfg", q>> \notin apart' PROVE cfg'[q] = ccfg'[q]
    BY DEF RegistersAgree
  <2>1. <<"cfg", q>> \notin apart /\ <<"cfg", q>> \notin new
    BY <1>3
  <2>2. cfg'[q] = cfg[q]
    BY <1>4, <2>1
  <2> QED BY <1>1, <2>1, <2>2 DEF EpInv, RegistersAgree
<1> QED BY <1>2, <1>9, <1>10, <1>11 DEF EpInv

(* A step that touches no register: what it does to the endpoint's store   *)
(* is noted.                                                               *)
LEMMA PlainKeeps ==
  ASSUME EpInv, UNCHANGED <<cfg, ccfg, seen, caps, power, aspm_level>>, IpInv', StoresAgree',
         \A x : ~(\E y : x = <<"bar", y>>) => (x \in apart' <=> x \in apart)
  PROVE  EpInv'
<1>1. SeenType' /\ CfgType' /\ PmSeen' /\ LnkSeen' /\ RegistersAgree'
  BY RegistersFrame DEF EpInv
<1> QED BY <1>1 DEF EpInv

(* A write of the endpoint's store.                                        *)
LEMMA WriteKeepsEp ==
  ASSUME EpInv, NEW x, NEW datum, WriteStore(x, datum)
  PROVE  EpInv'
<1>1. UNCHANGED <<cfg, ccfg, seen, caps, power, aspm_level>> /\ ip' = ip
      /\ apart' = apart \cup {<<"bar", x>>}
  BY DEF WriteStore
<1>2. StoresAgree'
  BY StoreKeeps DEF EpInv
<1>3. IpInv'
  BY <1>1, OthersCompose DEF EpInv
<1> QED BY <1>1, <1>2, <1>3, PlainKeeps

(* What a smaller BAR loses is noted.                                      *)
LEMMA ResizeKeepsEp ==
  ASSUME EpInv, NEW bar \in Bars, EnableResizableBar(bar)
  PROVE  EpInv'
<1> DEFINE beyond == {x \in DOMAIN store : x[1] = bar /\ x[2] >= rebar[bar].size % SizeMod}
<1>1. /\ UNCHANGED <<cfg, ccfg, seen, caps, power, aspm_level, cstore>>
      /\ store' = [x \in DOMAIN store \ beyond |-> store[x]]
      /\ apart' = apart \cup {<<"bar", x>> : x \in beyond}
      /\ ip' = [ip EXCEPT !.warned = IF beyond = {} THEN @ ELSE @ \cup {"resized"}]
  BY DEF EnableResizableBar, SetBar
<1> HIDE DEF beyond
<1>2. StoresAgree'
  <2> SUFFICES ASSUME NEW y \in Bars \X {Aligned(o) : o \in Offsets}, <<"bar", y>> \notin apart'
      PROVE BarStoreValue(store', y) = BarStoreValue(cstore', y)
    BY DEF StoresAgree
  <2>1. y \notin beyond /\ <<"bar", y>> \notin apart
    BY <1>1
  <2>2. BarStoreValue(store', y) = BarStoreValue(store, y)
    BY <1>1, <2>1 DEF BarStoreValue
  <2> QED BY <1>1, <2>1, <2>2 DEF EpInv, StoresAgree
<1>3. \E W \in SUBSET {"resized"} : ip' = [ip EXCEPT !.warned = @ \cup W]
  <2>1. CASE beyond = {}
    <3>1. ip' = [ip EXCEPT !.warned = @]
      BY <1>1, <2>1
    <3>2. ip.warned = ip.warned \cup {}
      OBVIOUS
    <3>3. ip' = [ip EXCEPT !.warned = @ \cup {}]
      BY <3>1, <3>2
    <3> QED BY <3>3
  <2>2. CASE beyond # {}
    BY <1>1, <2>2
  <2> QED BY <2>1, <2>2
<1>4. IpInv'
  BY <1>3, OthersCompose DEF EpInv
<1>5. \A x : ~(\E y : x = <<"bar", y>>) => (x \in apart' <=> x \in apart)
  BY <1>1
<1> QED BY <1>1, <1>2, <1>4, <1>5, PlainKeeps

(* Every step of the endpoint keeps the invariant ...                      *)
LEMMA EpKeeps ==
  ASSUME InputsOk, EpInv, [EpNext]_epVars
  PROVE  EpInv'
<1>1. ASSUME UNCHANGED <<cfg, ccfg, seen, caps, power, aspm_level, store, cstore, apart>>, IpInv'
      PROVE  EpInv'
  <2>1. StoresAgree'
    BY <1>1, StoresFrame DEF EpInv
  <2> QED BY <1>1, <2>1, PlainKeeps
<1>2. ip' = ip => IpInv'
  BY OthersCompose DEF EpInv
<1>3. ASSUME NEW doc \in Docs, OnConfigLoaded(doc) PROVE EpInv'
  BY <1>3, ConfigKeepsEp DEF InputsOk, DocOk
<1>4. ASSUME NEW mode, SetBypassMuxMode(mode) PROVE EpInv'
  <2>1. IpInv'
    BY <1>4, OthersCompose DEF EpInv, SetBypassMuxMode
  <2> QED BY <1>1, <1>4, <2>1 DEF SetBypassMuxMode, hostVars
<1>5. CASE SetStreamAdapter
  <2>1. IpInv'
    BY <1>5, OthersCompose DEF EpInv, SetStreamAdapter
  <2> QED BY <1>1, <1>5, <2>1 DEF SetStreamAdapter, hostVars
<1>6. ASSUME NEW s, SetPowerState(s) PROVE EpInv'
  <2>1. /\ UNCHANGED <<cfg, ccfg, seen, caps, aspm_level, store, cstore, ip>>
        /\ apart' = apart \cup {<<"power">>}
    BY <1>6 DEF SetPowerState
  <2>2. SeenType' /\ CfgType' /\ PmSeen'
    BY <2>1 DEF EpInv, SeenType, CfgType, PmSeen
  <2>3. LnkSeen' /\ RegistersAgree'
    BY <2>1 DEF EpInv, LnkSeen, RegistersAgree
  <2>4. StoresAgree'
    BY <2>1, StoresFrame DEF EpInv
  <2> QED BY <1>2, <2>1, <2>2, <2>3, <2>4 DEF EpInv
<1>7. ASSUME NEW w \in CfgWrites, ConfigWrite(w[1], w[2]) PROVE EpInv'
  BY <1>7, ConfigWriteKeeps DEF InputsOk
<1>8. CASE DoReset \/ EpFlrPf
  BY <1>8, ResetKeepsEp
<1>9. ASSUME NEW bar \in Bars, NEW o \in Offsets, NEW v \in Values, MmioWrite(bar, o, v)
      PROVE  EpInv'
  <2>1. CASE bar = 1 /\ o = DoorbellOffset
    BY <1>1, <1>2, <1>9, <2>1 DEF MmioWrite
  <2>2. CASE ~(bar = 1 /\ o = DoorbellOffset)
    BY <1>9, <2>2, WriteKeepsEp DEF MmioWrite
  <2> QED BY <2>1, <2>2
<1>10. ASSUME NEW w \in CfgWrites, NEW byte \in 0 .. 3, AxiConfigWrite(w[1] + byte, w[2])
       PROVE  EpInv'
  <2>1. Aligned(w[1] + byte) \in Int /\ w[2] \in Int
    BY DEF InputsOk, Aligned
  <2>2. ConfigWrite(Aligned(w[1] + byte), w[2])
    BY <1>10 DEF AxiConfigWrite
  <2> QED BY <2>1, <2>2, ConfigWriteKeeps
<1>11. ASSUME NEW o \in Offsets, NEW v \in Values, NEW strobes, AxiBarWrite(o, v, strobes)
       PROVE  EpInv'
  BY <1>11, WriteKeepsEp DEF AxiBarWrite
<1>12. CASE InjectTlp
  BY <1>12, TlpKeeps
<1>13. ASSUME NEW bar \in Bars, NEW size, ReprogramSize(bar, size) PROVE EpInv'
  BY <1>1, <1>2, <1>13 DEF ReprogramSize, SetBar
<1>14. ASSUME NEW bar \in Bars, EnableResizableBar(bar) PROVE EpInv'
  BY <1>14, ResizeKeepsEp
<1>15. ASSUME NEW bar \in Bars, DisableResizableBar(bar) PROVE EpInv'
  BY <1>1, <1>2, <1>15 DEF DisableResizableBar, SetBar
<1>16. CASE UNCHANGED epVars
  BY <1>1, <1>2, <1>16 DEF epVars, hostVars
<1>17. CASE EpStep
  BY <1>6, <1>7, <1>8, <1>9, <1>10, <1>11, <1>12, <1>13, <1>14, <1>15, <1>17 DEF EpStep
<1>18. CASE CompStep
  BY <1>3, <1>4, <1>5, <1>18 DEF CompStep
<1> QED BY <1>16, <1>17, <1>18 DEF EpNext

(* ... which holds after the constructor ...                               *)
LEMMA EpStarts == EpInit => EpInv
<1> SUFFICES ASSUME EpInit PROVE EpInv
  OBVIOUS
<1>1. cfg = Installed(4096, TRUE) /\ ccfg = Wiped
  BY DEF EpInit
<1>2. DOMAIN cfg = Regs /\ DOMAIN ccfg = Regs
  BY <1>1 DEF Installed, Wiped
<1>3. cfg[Pmcsr] % 4 = 0 /\ cfg[Lnkctl] % 4 = 0
  <2>1. cfg[Pmcsr] = 0 /\ cfg[Lnkctl] = 16
    BY <1>1 DEF Installed, Wiped, Regs, Pmcsr, Lnkctl
  <2> QED BY <2>1
<1>4. seen = [pws |-> 4, lnk |-> 4]
  BY DEF EpInit
<1>5. seen.pws = 4 /\ seen.lnk = 4 /\ SeenType
  BY <1>4 DEF SeenType
<1>6. PmSeen
  <2>1. caps /\ power = 0
    BY DEF EpInit
  <2> QED BY <1>3, <1>5, <2>1 DEF PmSeen
<1>7. LnkSeen
  BY <1>3, <1>5 DEF LnkSeen
<1>8. RegistersAgree /\ StoresAgree /\ CfgType
  <2>1. apart = {<<"cfg", r>> : r \in {x \in Regs : cfg[x] # 0}}
    BY DEF EpInit
  <2>2. \A r \in Regs : ccfg[r] = 0
    BY <1>1 DEF Wiped
  <2>3. RegistersAgree
    BY <2>1, <2>2 DEF RegistersAgree
  <2>4. store = << >> /\ cstore = << >>
    BY DEF EpInit
  <2> QED BY <1>2, <2>3, <2>4 DEF StoresAgree, CfgType
<1>9. IpInv
  <2>1. PICK more \in BOOLEAN :
          ip = [others |-> more, built |-> FALSE, active |-> FALSE, mode |-> "Full",
                mux |-> "Full", settings |-> "default", hot |-> "cold", linkSink |-> FALSE,
                tlpSink |-> FALSE, adapters |-> FALSE, axi |-> "absent", ari |-> "off",
                pfVecs |-> 16, vfVecs |-> 16, size |-> 4096, regs |-> {"DOORBELL"},
                warned |-> {}, doc |-> NoDoc, wanted |-> FALSE]
    BY DEF EpInit, IpInit
  <2>2. DOMAIN ip = IpKeys
    BY <2>1 DEF IpKeys
  <2>3. Composed(ip)
    BY <2>1 DEF Composed, Composite
  <2>4. NoDoc.unknown = {} /\ NoDoc.axi = "absent"
    BY DEF NoDoc
  <2>5. Warned(ip) /\ ip.axi = ip.doc.axi
    BY <2>1, <2>4 DEF Warned
  <2> QED BY <2>2, <2>3, <2>5 DEF IpInv
<1> QED BY <1>5, <1>6, <1>7, <1>8, <1>9 DEF EpInv

(* ... and says what the two properties do.                                *)
LEMMA EpMeans == EpInv => EndpointConsistent /\ CompositionFollowsConfig
<1> SUFFICES ASSUME EpInv PROVE EndpointConsistent /\ CompositionFollowsConfig
  OBVIOUS
<1>1. PowerFollowsPmcsr
  BY DEF EpInv, PmSeen, PowerFollowsPmcsr
<1>2. AspmFollowsLnkctl
  <2> SUFFICES ASSUME caps, <<"aspm">> \notin apart, cfg[Lnkctl] % 4 # 0
      PROVE aspm_level = (IF cfg[Lnkctl] % 4 >= 2 THEN 2 ELSE 1)
    BY DEF AspmFollowsLnkctl
  <2>0. /\ cfg[Lnkctl] % 4 = IF seen.lnk = 4 THEN 0 ELSE seen.lnk
        /\ seen.lnk \in 1 .. 3 => aspm_level = (IF seen.lnk >= 2 THEN 2 ELSE 1)
    BY DEF EpInv, LnkSeen
  <2>1. cfg[Lnkctl] % 4 = seen.lnk
    BY <2>0
  <2>2. seen.lnk \in 0 .. 4 /\ seen.lnk # 0
    BY <2>1 DEF EpInv, SeenType
  <2>3. seen.lnk # 4 => seen.lnk \in 1 .. 3
    BY <2>2
  <2>4. seen.lnk # 4
    BY <2>0
  <2>5. aspm_level = (IF seen.lnk >= 2 THEN 2 ELSE 1)
    BY <2>0, <2>3, <2>4
  <2> QED BY <2>1, <2>5
<1>3. CompositionFollowsConfig
  <2>1. Composed(ip) /\ Warned(ip) /\ ip.axi = ip.doc.axi
    BY DEF EpInv, IpInv
  <2>2. Composite(ip) <=> ip.wanted /\ ~ip.others
    BY <2>1 DEF Composed, Composite
  <2>3. Composite(ip) => ip.mode = ip.mux /\ InjectedIsDispatched
    BY <2>1 DEF Composed, InjectedIsDispatched
  <2> QED BY <2>1, <2>2, <2>3 DEF CompositionFollowsConfig, Warned
<1> QED BY <1>1, <1>2, <1>3 DEF EpInv, EndpointConsistent

(* For all offsets, values and documents: whatever the host, the board, an *)
(* AXI request or a TLP writes, whatever is reset, resized or configured,  *)
(* the device is in the state of its PMCSR, its PHY in that of LNKCTL, and *)
(* both copies of a register or a datum agree, but for what was changed on *)
(* one side alone; and the composition is what the documents say.          *)
THEOREM EndpointStaysConsistent ==
  ASSUME InputsOk
  PROVE  EpSpec => [](EndpointConsistent /\ CompositionFollowsConfig)
<1>1. EpInit => EpInv
  BY EpStarts
<1>2. EpInv /\ [EpNext]_epVars => EpInv'
  BY EpKeeps
<1>3. EpInv => EndpointConsistent /\ CompositionFollowsConfig
  BY EpMeans
<1> QED BY <1>1, <1>2, <1>3, PTL DEF EpSpec
=============================================================================
