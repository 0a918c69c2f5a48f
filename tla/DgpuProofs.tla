----------------------------- MODULE DgpuProofs -----------------------------
(***************************************************************************)
(* Proofs about the device side: the interrupts of the board (IrqCoalesce, *)
(* MsixTable), the tasks of the front end (GpuFront), the instructions of  *)
(* a core (GpuCore) and the stores of the board (BoardStores).             *)
(*                                                                         *)
(* The accounting of windows in IrqCoalesce does not depend on the table   *)
(* or on the threads' control points, so its invariant names the window    *)
(* variables only.                                                         *)
(***************************************************************************)
EXTENDS IrqCoalesce, GpuFront, GpuCore, BoardStores, FiniteSetTheorems,
        SequenceTheorems, WellFoundedInduction, TLAPS

WindowInv ==
  /\ count \in Nat /\ handed \in Nat /\ settled \in Nat
  /\ NoDeliveryLost
  /\ RepresentativeOfWindow

LEMMA WindowInit == Init => WindowInv
BY DEF Init, WindowInv, NoDeliveryLost, RepresentativeOfWindow

(* A step that leaves the window alone keeps its accounting.               *)
LEMMA WindowFrame ==
  ASSUME WindowInv, UNCHANGED window
  PROVE  WindowInv'
BY DEF WindowInv, NoDeliveryLost, RepresentativeOfWindow, window

(* A step that closes the window settles its count.                        *)
LEMMA WindowClosed ==
  ASSUME WindowInv, CloseWindow(count), handed' = handed
  PROVE  WindowInv'
BY DEF WindowInv, NoDeliveryLost, RepresentativeOfWindow, CloseWindow

LEMMA ArmOrDrainWindow ==
  ASSUME WindowInv, NEW u \in Updater, ArmOrDrain(u)
  PROVE  WindowInv'
<1>1. CASE count + 1 >= threshold
  <2>1. /\ count' = 0 /\ armed' = FALSE /\ settled' = settled + (count + 1)
        /\ handed' = handed + 1
    BY <1>1 DEF ArmOrDrain, CloseWindow
  <2> QED BY <2>1 DEF WindowInv, NoDeliveryLost, RepresentativeOfWindow
<1>2. CASE ~(count + 1 >= threshold)
  <2>1. /\ count' = count + 1 /\ handed' = handed + 1 /\ settled' = settled
        /\ armed' = (IF count + 1 = 1 THEN TRUE ELSE armed)
        /\ rep' = (IF count = 0 THEN uarg[u] ELSE rep)
        /\ win' = win \cup {uarg[u]}
    BY <1>2 DEF ArmOrDrain, Representative
  <2>2. armed' = TRUE
    BY <2>1 DEF WindowInv, NoDeliveryLost
  <2>3. rep' \in win'
    BY <2>1 DEF WindowInv, NoDeliveryLost, RepresentativeOfWindow
  <2> QED BY <2>1, <2>2, <2>3 DEF WindowInv, NoDeliveryLost, RepresentativeOfWindow
<1> QED BY <1>1, <1>2

LEMMA TimerWindow ==
  ASSUME WindowInv, TimerStep
  PROVE  WindowInv'
<1>1. CASE TimerLook \/ TimerSleep \/ TimerTimeout \/ TimerFire
  BY <1>1, WindowFrame
     DEF TimerLook, TimerSleep, TimerTimeout, TimerFire, TimerOnly, window
<1>2. CASE TimerExpired
  <2>1. handed' = handed /\ rep' = rep
    BY <1>2 DEF TimerExpired, TimerOnly
  <2>2. CASE armed /\ count > 0
    BY <1>2, <2>1, <2>2, WindowClosed DEF TimerExpired
  <2>3. CASE ~(armed /\ count > 0)
    <3>1. armed' = FALSE /\ count' = count /\ settled' = settled
      BY <1>2, <2>3 DEF TimerExpired
    <3>2. count = 0
      BY <2>3 DEF WindowInv, NoDeliveryLost
    <3> QED BY <2>1, <3>1, <3>2 DEF WindowInv, NoDeliveryLost, RepresentativeOfWindow
  <2> QED BY <2>2, <2>3
<1> QED BY <1>1, <1>2 DEF TimerStep

LEMMA FlushWindowWindow ==
  ASSUME WindowInv, FlushWindow
  PROVE  WindowInv'
<1>1. handed' = handed /\ rep' = rep
  BY DEF FlushWindow
<1>2. CASE armed /\ count > 0
  BY <1>1, <1>2, WindowClosed DEF FlushWindow
<1>3. CASE ~(armed /\ count > 0)
  BY <1>1, <1>3, WindowFrame DEF FlushWindow, window
<1> QED BY <1>2, <1>3

LEMMA WindowNext == WindowInv /\ [Next]_vars => WindowInv'
<1> SUFFICES ASSUME WindowInv, [Next]_vars PROVE WindowInv'
  OBVIOUS
<1>1. ASSUME NEW u \in Updater, UpdaterStep(u) PROVE WindowInv'
  BY <1>1, WindowFrame, ArmOrDrainWindow DEF UpdaterStep, Ask, UpdaterFire
<1>2. ASSUME NEW u \in Updater, NEW a \in Arg, Update(u, a)
      PROVE  WindowInv'
  BY <1>2, WindowFrame DEF Update
<1>3. ASSUME NEW a \in Arg, Callback(a) \/ Acknowledge(a) PROVE WindowInv'
  BY <1>3, WindowFrame DEF Callback, Acknowledge
<1>4. CASE TimerStep
  BY <1>4, TimerWindow
<1>5. CASE ControlStep
  BY <1>5, WindowFrame DEF ControlStep, FlushFire, SetTable, StopTimer, JoinTimer
<1>6. CASE (\E k \in Thresholds : SetThreshold(k)) \/ SetTimeout
           \/ (\E b \in BOOLEAN : SetEnabled(b) \/ SetCallback(b))
  BY <1>6, WindowFrame DEF SetThreshold, SetTimeout, SetEnabled, SetCallback
<1>7. CASE FlushWindow
  BY <1>7, FlushWindowWindow
<1>8. CASE Destroy \/ Restart
  BY <1>8, WindowFrame DEF Destroy, Restart
<1>9. CASE UNCHANGED vars
  BY <1>9, WindowFrame DEF vars, window
<1> QED BY <1>1, <1>2, <1>3, <1>4, <1>5, <1>6, <1>7, <1>8, <1>9 DEF Next

(* Deliveries are counted in exactly one window: none is dropped between   *)
(* the threshold, the timer and a forced flush.                            *)
THEOREM DeliveriesAccounted == Spec => []NoDeliveryLost
<1>1. WindowInv => NoDeliveryLost
  BY DEF WindowInv
<1> QED BY <1>1, WindowInit, WindowNext, PTL DEF Spec

(* The vector a window reports was delivered in that window.               *)
THEOREM RepresentativeDelivered == Spec => []RepresentativeOfWindow
<1>1. WindowInv => RepresentativeOfWindow
  BY DEF WindowInv
<1> QED BY <1>1, WindowInit, WindowNext, PTL DEF Spec

-----------------------------------------------------------------------------
(* Types.                                                                  *)

USE DEF Vector, TimerState

(* An emptied table is well typed.                                         *)
LEMMA EmptyTableType ==
  ASSUME nvec \in 1..MaxVec, masked \subseteq Table, pba = {},
         irq_out = <<>>, delivered = FALSE, owed = {}, bypassed = {}
  PROVE  MsixTypeOK
<1>1. irq_out \in Seq(Table)
  BY EmptySeq
<1> QED BY <1>1 DEF MsixTypeOK

LEMMA TypeInit == Init => TypeOK
<1> SUFFICES ASSUME Init PROVE TypeOK
  OBVIOUS
<1>1. MsixTypeOK
  BY MsixBounds, EmptyTableType DEF Init, MsixInit
<1>2. armed \in BOOLEAN /\ enabled \in BOOLEAN /\ tstop \in BOOLEAN
      /\ up \in BOOLEAN /\ hooked \in BOOLEAN
  BY DEF Init
<1>3. /\ count \in Nat /\ rep \in Arg /\ frep \in Arg /\ trep \in Arg
      /\ uarg \in [Updater -> Arg] /\ spawned \in [Arg -> Nat] /\ dropped \in Nat
      /\ updates \in 0..MaxUpdates /\ configs \in 0..MaxConfigs /\ lives \in Nat
      /\ handed \in Nat /\ settled \in Nat /\ win \subseteq Arg
      /\ fires \in Nat /\ called \in Nat
  BY CoalesceAssumption DEF Init, Arg
<1>4. /\ threshold \in Thresholds /\ timer \in TimerState
      /\ upc \in [Updater -> {"idle", "ask", "arm", "fire"}]
      /\ cpc \in {"idle", "flushed", "table", "stop", "join"}
  BY DEF Init
<1> QED BY <1>1, <1>2, <1>3, <1>4 DEF TypeOK

(* The part of the types that is arithmetic, without the Boolean fields.   *)
LEMMA CounterTypes ==
  ASSUME TypeOK
  PROVE  /\ count \in Nat /\ handed \in Nat /\ settled \in Nat
         /\ fires \in Nat /\ win \subseteq Arg
         /\ rep \in Arg /\ frep \in Arg /\ trep \in Arg
         /\ timer \in TimerState
         /\ cpc \in {"idle", "flushed", "table", "stop", "join"}
         /\ upc \in [Updater -> {"idle", "ask", "arm", "fire"}]
         /\ uarg \in [Updater -> Arg]
BY DEF TypeOK

(* Taking the first event of a vector out of the queue leaves a queue.     *)
LEMMA WithoutFirstType ==
  ASSUME NEW S, NEW s \in Seq(S), NEW v PROVE WithoutFirst(v, s) \in Seq(S)
<1>1. CASE Occurs(v, s)
  <2> DEFINE k == CHOOSE i \in DOMAIN s :
                    s[i] = v /\ \A j \in 1..(i - 1) : s[j] # v
  <2>1. \E i \in DOMAIN s : s[i] = v /\ \A j \in 1..(i - 1) : s[j] # v
    <3> DEFINE at == {i \in Nat : i \in DOMAIN s /\ s[i] = v}
    <3>1. DOMAIN s = 1..Len(s) /\ Len(s) \in Nat
      BY LenProperties
    <3>2. at # {} /\ at \in SUBSET Nat
      BY <1>1, <3>1 DEF Occurs
    <3>3. PICK i \in at : \A j \in at : ~(<<j, i>> \in OpToRel(<, Nat))
      BY <3>2, WFMin, NatLessThanWellFounded
    <3>4. \A j \in at : ~(j < i)
      BY <3>2, <3>3 DEF OpToRel
    <3> QED BY <3>1, <3>4
  <2>2. k \in 1..Len(s) /\ Len(s) \in Nat
    BY <2>1, LenProperties
  <2> HIDE DEF k
  <2>5. \A i \in 1..Len(s) : s[i] \in S
    BY ElementOfSeq
  <2>3. SubSeq(s, 1, k - 1) \in Seq(S)
    <3>1. \A i \in 1..(k - 1) : s[i] \in S
      BY <2>2, <2>5
    <3> QED BY <2>2, <3>1, SubSeqProperties
  <2>4. SubSeq(s, k + 1, Len(s)) \in Seq(S)
    <3>1. \A i \in (k + 1)..Len(s) : s[i] \in S
      BY <2>2, <2>5
    <3> QED BY <2>2, <3>1, SubSeqProperties
  <2> QED BY <1>1, <2>3, <2>4, ConcatProperties DEF WithoutFirst, k
<1>2. CASE ~Occurs(v, s)
  BY <1>2 DEF WithoutFirst
<1> QED BY <1>1, <1>2

LEMMA UpdateType ==
  ASSUME TypeOK, NEW u \in Updater, NEW a \in Arg, Update(u, a)
  PROVE  TypeOK'
<1>1. MsixTypeOK'
  <2>1. CASE UpdatePending(Narrow(a))
    BY <2>1, AppendProperties
       DEF UpdatePending, TypeOK, MsixTypeOK, Table
  <2>2. CASE RejectUpdate(Narrow(a))
    BY <2>2 DEF RejectUpdate, TypeOK, MsixTypeOK, Table
  <2> QED BY <2>1, <2>2 DEF Update
<1> QED BY <1>1, CoalesceAssumption
        DEF Update, UpdaterGoto, window, TypeOK

LEMMA UpdaterStepType ==
  ASSUME TypeOK, NEW u \in Updater, UpdaterStep(u)
  PROVE  TypeOK'
<1>1. MsixTypeOK'
  BY DEF UpdaterStep, Ask, ArmOrDrain, UpdaterFire, msixVars, TypeOK,
         MsixTypeOK, Table
<1>2. CASE Ask(u)
  BY <1>1, <1>2 DEF Ask, UpdaterGoto, window, boardVars, TypeOK
<1>3. CASE ArmOrDrain(u)
  <2>1. uarg[u] \in Arg /\ Representative(u) \in Arg
    BY <1>3 DEF ArmOrDrain, Representative, TypeOK
  <2>2. armed' \in BOOLEAN
    BY <1>3 DEF ArmOrDrain, CloseWindow, TypeOK
  <2>3. /\ count' \in Nat /\ handed' \in Nat /\ settled' \in Nat
        /\ fires' \in Nat /\ win' \subseteq Arg
    <3>1. CASE count + 1 >= threshold
      <4>1. /\ count' = 0 /\ handed' = handed + 1 /\ win' = {}
            /\ settled' = settled + (count + 1) /\ fires' = fires + 1
        BY <1>3, <3>1 DEF ArmOrDrain, CloseWindow
      <4> QED BY <4>1, CounterTypes
    <3>2. CASE ~(count + 1 >= threshold)
      <4>1. /\ count' = count + 1 /\ handed' = handed + 1 /\ settled' = settled
            /\ fires' = fires /\ win' = win \cup {uarg[u]}
        BY <1>3, <3>2 DEF ArmOrDrain
      <4> QED BY <2>1, <4>1, CounterTypes
    <3> QED BY <3>1, <3>2
  <2>4. /\ upc' \in [Updater -> {"idle", "ask", "arm", "fire"}]
        /\ uarg' \in [Updater -> Arg]
    <3>1. uarg' = uarg \/ uarg' = [uarg EXCEPT ![u] = Representative(u)]
      BY <1>3 DEF ArmOrDrain
    <3>2. upc' = [upc EXCEPT ![u] = "fire"] \/ upc' = [upc EXCEPT ![u] = "idle"]
      BY <1>3 DEF ArmOrDrain, UpdaterGoto
    <3> QED BY <2>1, <3>1, <3>2, CounterTypes
  <2>5. timer' \in TimerState /\ rep' \in Arg
    BY <1>3, <2>1 DEF ArmOrDrain, Arming, Awake, Started, TypeOK
  <2>6. UNCHANGED <<threshold, enabled, hooked, dropped, tstop, cpc, frep, trep, up, spawned,
                    updates, configs, lives, called>>
    BY <1>3 DEF ArmOrDrain, boardVars
  <2> QED BY <1>1, <2>2, <2>3, <2>4, <2>5, <2>6 DEF TypeOK
<1>4. CASE UpdaterFire(u)
  BY <1>1, <1>4
     DEF UpdaterFire, Trigger, UpdaterGoto, window, boardVars, TypeOK
<1> QED BY <1>2, <1>3, <1>4 DEF UpdaterStep

LEMMA TimerType ==
  ASSUME TypeOK, TimerStep
  PROVE  TypeOK'
<1>1. MsixTypeOK'
  BY DEF TimerStep, TimerLook, TimerSleep, TimerTimeout, TimerExpired,
         TimerFire, TimerOnly, msixVars, TypeOK, MsixTypeOK, Table
<1>2. CASE TimerLook \/ TimerSleep \/ TimerTimeout
  <2>1. timer' \in TimerState
    BY <1>2 DEF TimerLook, TimerSleep, TimerTimeout, TimerState
  <2>2. UNCHANGED <<count, rep, armed, settled, win, trep, spawned, dropped, fires,
                    threshold, enabled, hooked, up, lives, configs, updates, tstop, upc,
                    uarg, cpc, frep, handed, called>>
    BY <1>2 DEF TimerLook, TimerSleep, TimerTimeout, TimerOnly, boardVars
  <2> QED BY <1>1, <2>1, <2>2 DEF TypeOK
<1>3. CASE TimerExpired
  <2>1. armed' = FALSE
    BY <1>3 DEF TimerExpired, CloseWindow
  <2>2. /\ count' \in Nat /\ settled' \in Nat /\ fires' \in Nat
        /\ win' \subseteq Arg /\ trep' \in Arg /\ timer' \in TimerState
    BY <1>3, CounterTypes DEF TimerExpired, CloseWindow
  <2>3. UNCHANGED <<rep, spawned, dropped, threshold, enabled, hooked, up, lives,
                    configs, updates, tstop, upc, uarg, cpc, frep, handed, called>>
    BY <1>3 DEF TimerExpired, TimerOnly, boardVars
  <2> QED BY <1>1, <2>1, <2>2, <2>3 DEF TypeOK
<1>4. CASE TimerFire
  BY <1>1, <1>4 DEF TimerFire, Trigger, TimerOnly, boardVars, TypeOK
<1> QED BY <1>2, <1>3, <1>4 DEF TimerStep

LEMMA CallbackType ==
  ASSUME TypeOK, NEW a \in Arg, Callback(a) \/ Acknowledge(a)
  PROVE  TypeOK'
<1>1. CASE Callback(a)
  <2>1. MsixTypeOK'
    BY <1>1 DEF Callback, msixVars, TypeOK, MsixTypeOK, Table
  <2>2. spawned' \in [Arg -> Nat] /\ called' \in Nat
    BY <1>1 DEF Callback, TypeOK
  <2>3. UNCHANGED <<count, rep, armed, settled, win, trep, fires, threshold,
                    enabled, hooked, dropped, timer, up, lives, configs, updates, tstop, upc,
                    uarg, cpc, frep, handed>>
    BY <1>1 DEF Callback, window, boardVars
  <2> QED BY <2>1, <2>2, <2>3 DEF TypeOK
<1>2. CASE Acknowledge(a)
  <2>1. MsixTypeOK'
    BY <1>2, WithoutFirstType
       DEF Acknowledge, ClearPending, TypeOK, MsixTypeOK, Table
  <2> QED BY <1>2, <2>1, CoalesceAssumption
          DEF Acknowledge, Configure, window, TypeOK
<1> QED BY <1>1, <1>2

LEMMA SettingType ==
  ASSUME TypeOK,
         \/ \E k \in Thresholds : SetThreshold(k)
         \/ SetTimeout
         \/ \E b \in BOOLEAN : SetEnabled(b) \/ SetCallback(b)
         \/ FlushWindow
  PROVE  TypeOK'
<1>1. MsixTypeOK'
  BY DEF SetThreshold, SetTimeout, SetEnabled, SetCallback, FlushWindow, msixVars, TypeOK, MsixTypeOK, Table
<1>2. configs' \in 0..MaxConfigs
  BY CoalesceAssumption DEF SetThreshold, SetTimeout, SetEnabled, SetCallback, FlushWindow,
         Configure, TypeOK
<1>3. CASE \E k \in Thresholds : SetThreshold(k)
  BY <1>1, <1>2, <1>3 DEF SetThreshold, Awake, window, TypeOK
<1>4. CASE SetTimeout
  BY <1>1, <1>2, <1>4 DEF SetTimeout, Awake, window, TypeOK
<1>5. CASE \E b \in BOOLEAN : SetEnabled(b) \/ SetCallback(b)
  BY <1>1, <1>2, <1>5 DEF SetEnabled, SetCallback, window, TypeOK
<1>6. CASE FlushWindow
  <2>1. armed' \in BOOLEAN
    BY <1>6 DEF FlushWindow, CloseWindow, TypeOK
  <2>2. /\ count' \in Nat /\ settled' \in Nat /\ fires' \in Nat
        /\ win' \subseteq Arg /\ frep' \in Arg /\ timer' \in TimerState
        /\ cpc' \in {"idle", "flushed", "table", "stop", "join"}
    BY <1>6, CounterTypes DEF FlushWindow, CloseWindow, Awake
  <2>3. UNCHANGED <<rep, handed, threshold, enabled, hooked, up, lives, updates, tstop,
                    upc, uarg, trep, spawned, dropped, called>>
    BY <1>6 DEF FlushWindow
  <2> QED BY <1>1, <1>2, <2>1, <2>2, <2>3 DEF TypeOK
<1> QED BY <1>3, <1>4, <1>5, <1>6

LEMMA ControlType ==
  ASSUME TypeOK, ControlStep \/ Destroy \/ Restart
  PROVE  TypeOK'
<1>1. CASE FlushFire \/ StopTimer \/ JoinTimer \/ Destroy
  <2>1. MsixTypeOK'
    BY <1>1 DEF FlushFire, StopTimer, JoinTimer, Destroy, msixVars, TypeOK, MsixTypeOK, Table
  <2>2. CASE FlushFire
    BY <2>1, <2>2 DEF FlushFire, Trigger, window, boardVars, TypeOK
  <2>3. CASE StopTimer
    BY <2>1, <2>3 DEF StopTimer, Awake, window, boardVars, TypeOK
  <2>4. CASE JoinTimer
    BY <2>1, <2>4 DEF JoinTimer, window, boardVars, TypeOK
  <2>5. CASE Destroy
    BY <2>1, <2>5 DEF Destroy, window, TypeOK
  <2> QED BY <1>1, <2>2, <2>3, <2>4, <2>5
<1>2. CASE \E n \in 0..MaxVec, m \in SUBSET Vector : SetTable(n, m)
  <2>1. PICK n \in 0..MaxVec, m \in SUBSET Vector : SetTable(n, m)
    BY <1>2
  <2>2. MsixTypeOK'
    <3>1. CASE n = 0
      BY <2>1, <3>1 DEF SetTable, msixVars, TypeOK, MsixTypeOK, Table
    <3>2. CASE n # 0
      <4>1. nvec' \in 1..MaxVec /\ masked' \subseteq Table' /\ pba' = {}
            /\ delivered' = FALSE /\ owed' = {} /\ bypassed' = {}
        BY <2>1, <3>2, MsixBounds DEF SetTable, Table
      <4>2. irq_out' \in Seq(Table')
        BY <2>1, <3>2, EmptySeq DEF SetTable
      <4> QED BY <4>1, <4>2 DEF MsixTypeOK
    <3> QED BY <3>1, <3>2
  <2> QED BY <2>1, <2>2 DEF SetTable, window, boardVars, TypeOK
<1>3. CASE Restart
  <2>1. MsixTypeOK'
    <3>1. nvec' \in 1..MaxVec /\ masked' = {} /\ pba' = {}
          /\ delivered' = FALSE /\ owed' = {} /\ bypassed' = {}
      BY <1>3, MsixBounds DEF Restart, Clear
    <3>2. irq_out' \in Seq(Table')
      BY <1>3, EmptySeq DEF Restart, Clear
    <3> QED BY <3>1, <3>2 DEF MsixTypeOK
  <2> QED BY <1>3, <2>1 DEF Restart, window, TypeOK
<1> QED BY <1>1, <1>2, <1>3 DEF ControlStep

LEMMA TypeNext == TypeOK /\ [Next]_vars => TypeOK'
<1> SUFFICES ASSUME TypeOK, [Next]_vars PROVE TypeOK'
  OBVIOUS
<1>1. CASE UNCHANGED vars
  BY <1>1 DEF vars, msixVars, TypeOK, MsixTypeOK, Table
<1>2. CASE Next
  BY <1>2, UpdateType, UpdaterStepType, TimerType, CallbackType, SettingType,
     ControlType DEF Next
<1> QED BY <1>1, <1>2

(* Every reachable state is well typed: the counters never go below zero   *)
(* and no vector beyond the table is masked, pending or queued.            *)
THEOREM TypeCorrect == Spec => []TypeOK
  BY TypeInit, TypeNext, PTL DEF Spec
-----------------------------------------------------------------------------
(* The table alone.  An interrupt waits in the queue or behind a mask, and *)
(* each operation keeps the place of the vectors it is not about.          *)

(* Every set of natural numbers that is not empty has a least one.         *)
LEMMA LeastNat ==
  ASSUME NEW T, T \subseteq Nat, T # {}
  PROVE  \E m \in T : \A k \in T : m <= k
<1>1. PICK m \in T : \A k \in T : ~(<<k, m>> \in OpToRel(<, Nat))
  BY WFMin, NatLessThanWellFounded
<1>2. ASSUME NEW k \in T PROVE m <= k
  <2>1. k \in Nat /\ m \in Nat
    OBVIOUS
  <2>2. ~(k < m)
    BY <1>1, <2>1 DEF OpToRel
  <2> QED BY <2>1, <2>2
<1> QED BY <1>2

LEMMA OccursAppend ==
  ASSUME NEW S, NEW s \in Seq(S), NEW w \in S, NEW v, Occurs(v, s) \/ v = w
  PROVE  Occurs(v, Append(s, w))
BY AppendProperties, LenProperties DEF Occurs

LEMMA OccursTail ==
  ASSUME NEW S, NEW s \in Seq(S), s # <<>>, NEW v, Occurs(v, s), v # Head(s)
  PROVE  Occurs(v, Tail(s))
<1>1. PICK i \in 1..Len(s) : s[i] = v
  BY LenProperties DEF Occurs
<1>2. i # 1 /\ Len(s) \in Nat
  BY <1>1, LenProperties, HeadTailProperties
<1>3. i - 1 \in DOMAIN Tail(s) /\ Tail(s)[i - 1] = v
  BY <1>1, <1>2, HeadTailProperties
<1> QED BY <1>3 DEF Occurs

(* Where the first event of a vector is, when there is one.                *)
LEMMA FirstOccurrence ==
  ASSUME NEW S, NEW s \in Seq(S), NEW v, Occurs(v, s)
  PROVE  \E i \in DOMAIN s : s[i] = v /\ \A j \in 1..(i - 1) : s[j] # v
<1> DEFINE at == {i \in Nat : i \in DOMAIN s /\ s[i] = v}
<1>1. DOMAIN s = 1..Len(s) /\ Len(s) \in Nat
  BY LenProperties
<1>2. at # {} /\ at \in SUBSET Nat
  BY <1>1 DEF Occurs
<1>3. PICK i \in at : \A j \in at : ~(<<j, i>> \in OpToRel(<, Nat))
  BY <1>2, WFMin, NatLessThanWellFounded
<1>4. \A j \in at : ~(j < i)
  BY <1>2, <1>3 DEF OpToRel
<1> QED BY <1>1, <1>4

LEMMA OccursRemove ==
  ASSUME NEW S, NEW s \in Seq(S), NEW w, NEW v, v # w, Occurs(v, s)
  PROVE  Occurs(v, WithoutFirst(w, s))
<1>1. CASE ~Occurs(w, s)
  BY <1>1 DEF WithoutFirst
<1>2. CASE Occurs(w, s)
  <2> DEFINE k == CHOOSE i \in DOMAIN s :
                    s[i] = w /\ \A j \in 1..(i - 1) : s[j] # w
             a == SubSeq(s, 1, k - 1)
             b == SubSeq(s, k + 1, Len(s))
  <2>1. k \in 1..Len(s) /\ s[k] = w /\ Len(s) \in Nat
    BY <1>2, FirstOccurrence, LenProperties
  <2>2. WithoutFirst(w, s) = a \o b
    BY <1>2 DEF WithoutFirst
  <2>3. PICK i \in 1..Len(s) : s[i] = v
    BY LenProperties DEF Occurs
  <2> HIDE DEF k
  <2>4. \A h \in 1..Len(s) : s[h] \in S
    BY ElementOfSeq
  <2>5. a \in Seq(S) /\ Len(a) = k - 1 /\ \A h \in 1..(k - 1) : a[h] = s[h]
    <3>1. \A h \in 1..(k - 1) : s[h] \in S
      BY <2>1, <2>4
    <3> QED BY <2>1, <3>1, SubSeqProperties
  <2>6. /\ b \in Seq(S) /\ Len(b) = Len(s) - k
        /\ \A h \in 1..(Len(s) - k) : b[h] = s[k + h]
    <3>1. \A h \in (k + 1)..Len(s) : s[h] \in S
      BY <2>1, <2>4
    <3>2. b \in Seq(S)
      BY <2>1, <3>1, SubSeqProperties
    <3>3. Len(b) = Len(s) - k
      BY <2>1, <3>1, SubSeqProperties
    <3>4. \A h \in 1..(Len(s) - k) : b[h] = s[k + 1 + h - 1]
      BY <2>1, <3>1, <3>3, SubSeqProperties
    <3>5. \A h \in 1..(Len(s) - k) : k + 1 + h - 1 = k + h
      BY <2>1
    <3> QED BY <3>2, <3>3, <3>4, <3>5
  <2> HIDE DEF a, b
  <2>7. Len(a \o b) = Len(s) - 1 /\ DOMAIN (a \o b) = 1..(Len(s) - 1)
    <3>1. a \o b \in Seq(S) /\ Len(a \o b) = Len(a) + Len(b)
      BY <2>5, <2>6, ConcatProperties
    <3>2. Len(a) + Len(b) = Len(s) - 1
      BY <2>1, <2>5, <2>6
    <3>3. DOMAIN (a \o b) = 1..Len(a \o b)
      BY <3>1, LenProperties
    <3> QED BY <3>1, <3>2, <3>3
  <2>8. CASE i < k
    <3>1. i \in 1..Len(a) /\ i \in 1..(Len(s) - 1)
      BY <2>1, <2>3, <2>5, <2>8
    <3>2. (a \o b)[i] = v
      BY <2>3, <2>5, <2>6, <2>8, <3>1, ConcatProperties
    <3> QED BY <2>2, <2>7, <3>1, <3>2 DEF Occurs
  <2>9. CASE i > k
    <3>1. i - 1 \in 1..(Len(s) - 1) /\ i - 1 > Len(a) /\ i - 1 <= Len(a) + Len(b)
          /\ (i - 1) - Len(a) = i - k /\ i - k \in 1..(Len(s) - k)
      BY <2>1, <2>3, <2>5, <2>6, <2>9
    <3>2. (a \o b)[i - 1] = b[i - k]
      BY <2>5, <2>6, <3>1, ConcatProperties
    <3>3. b[i - k] = v
      <4>1. k + (i - k) = i
        BY <2>1, <2>3
      <4> QED BY <2>3, <2>6, <3>1, <4>1
    <3> QED BY <2>2, <2>7, <3>1, <3>2, <3>3 DEF Occurs
  <2> QED BY <2>1, <2>3, <2>8, <2>9
<1> QED BY <1>1, <1>2

LEMMA ClearPendingKeeps ==
  ASSUME MsixTypeOK, NoPendingLost, NEW v, ClearPending(v)
  PROVE  NoPendingLost'
<1> SUFFICES ASSUME NEW w \in owed' PROVE Occurs(w, irq_out') \/ w \in (pba \cap (masked \cup bypassed))'
  BY DEF NoPendingLost
<1>1. w \in owed /\ ~(v \in Table /\ w = v) /\ masked' = masked
  BY DEF ClearPending
<1>2. CASE Occurs(w, irq_out)
  BY <1>1, <1>2, OccursRemove DEF ClearPending, MsixTypeOK
<1>3. CASE w \in pba \cap (masked \cup bypassed)
  BY <1>1, <1>3 DEF ClearPending
<1> QED BY <1>1, <1>2, <1>3 DEF NoPendingLost

LEMMA MaskUpdateKeeps ==
  ASSUME MsixTypeOK, NoPendingLost, NEW v,
         \/ SetMask(v) \/ ClearMask(v) \/ UpdatePending(v) \/ RejectUpdate(v)
         \/ \E m \in BOOLEAN : ConfigureVector(v, m)
  PROVE  NoPendingLost'
<1>1. CASE SetMask(v)
  BY <1>1 DEF SetMask, NoPendingLost
<1>2. CASE ClearMask(v)
  <2> SUFFICES ASSUME NEW w \in owed PROVE Occurs(w, irq_out') \/ w \in (pba \cap (masked \cup bypassed))'
    BY <1>2 DEF ClearMask, NoPendingLost
  <2>1. CASE Occurs(w, irq_out)
    BY <1>2, <2>1, OccursAppend DEF ClearMask, MsixTypeOK
  <2>2. CASE w \in pba \cap (masked \cup bypassed) /\ w = v
    <3>1. CASE v \in masked
      BY <1>2, <2>2, <3>1, OccursAppend DEF ClearMask, MsixTypeOK
    <3>2. CASE v \notin masked
      BY <1>2, <2>2, <3>2 DEF ClearMask
    <3> QED BY <3>1, <3>2
  <2>3. CASE w \in pba \cap (masked \cup bypassed) /\ w # v
    BY <1>2, <2>3 DEF ClearMask
  <2> QED BY <2>1, <2>2, <2>3 DEF NoPendingLost
<1>3. CASE UpdatePending(v)
  <2> SUFFICES ASSUME NEW w \in owed \cup {v}
               PROVE  Occurs(w, irq_out') \/ w \in (pba \cap (masked \cup bypassed))'
    BY <1>3 DEF UpdatePending, NoPendingLost
  <2>1. CASE w = v
    BY <1>3, <2>1, OccursAppend DEF UpdatePending, MsixTypeOK
  <2>2. CASE w # v /\ Occurs(w, irq_out)
    BY <1>3, <2>2, OccursAppend DEF UpdatePending, MsixTypeOK
  <2>3. CASE w # v /\ w \in pba \cap (masked \cup bypassed)
    BY <1>3, <2>3 DEF UpdatePending
  <2> QED BY <2>1, <2>2, <2>3 DEF NoPendingLost
<1>4. CASE RejectUpdate(v)
  BY <1>4 DEF RejectUpdate, NoPendingLost
<1>5. ASSUME NEW m \in BOOLEAN, ConfigureVector(v, m) PROVE NoPendingLost'
  BY <1>5 DEF ConfigureVector, NoPendingLost
<1> QED BY <1>1, <1>2, <1>3, <1>4, <1>5

LEMMA ConsumeKeeps ==
  ASSUME MsixTypeOK, NoPendingLost, ConsumeIrq
  PROVE  NoPendingLost'
<1> SUFFICES ASSUME NEW w \in owed, w # Head(irq_out)
             PROVE  Occurs(w, irq_out') \/ w \in (pba \cap (masked \cup bypassed))'
  BY DEF ConsumeIrq, NoPendingLost
<1>1. CASE Occurs(w, irq_out)
  BY <1>1, OccursTail DEF ConsumeIrq, MsixTypeOK
<1>2. CASE w \in pba \cap (masked \cup bypassed)
  BY <1>2 DEF ConsumeIrq
<1> QED BY <1>1, <1>2 DEF NoPendingLost

(* What a resize leaves in the queue, event by event.                      *)
IsFilter(f, s, n, m) ==
  f = [i \in 0..m |->
         IF i = 0 THEN <<>>
         ELSE IF s[i] < n THEN Append(f[i - 1], s[i]) ELSE f[i - 1]]

LEMMA FilterExists ==
  ASSUME NEW s, NEW n, NEW m \in Nat
  PROVE  \E f : IsFilter(f, s, n, m)
<1> DEFINE T == {k \in Nat : ~\E f : IsFilter(f, s, n, k)}
<1>1. SUFFICES ASSUME T # {} PROVE FALSE
  OBVIOUS
<1>2. PICK k \in T : \A j \in T : k <= j
  BY <1>1, LeastNat
<1>3. CASE k = 0
  <2>1. IsFilter([i \in 0..0 |-> <<>>], s, n, 0)
    BY DEF IsFilter
  <2> QED BY <1>2, <1>3, <2>1
<1>4. CASE k # 0
  <2>1. k \in Nat /\ k - 1 \in Nat /\ ~(k <= k - 1)
    BY <1>2, <1>4
  <2>2. PICK f : IsFilter(f, s, n, k - 1)
    BY <1>2, <2>1
  <2>3. f = [i \in 0..(k - 1) |->
               IF i = 0 THEN <<>>
               ELSE IF s[i] < n THEN Append(f[i - 1], s[i]) ELSE f[i - 1]]
    BY <2>2 DEF IsFilter
  <2> DEFINE r == [i \in 0..k |->
                     IF i = 0 THEN <<>>
                     ELSE IF s[i] < n THEN Append(f[i - 1], s[i]) ELSE f[i - 1]]
  <2>4. ASSUME NEW i \in 0..(k - 1) PROVE r[i] = f[i]
    <3>1. i \in 0..k
      BY <2>1
    <3> QED BY <2>3, <3>1
  <2>5. ASSUME NEW i \in 0..k
        PROVE  r[i] = IF i = 0 THEN <<>>
                      ELSE IF s[i] < n THEN Append(r[i - 1], s[i]) ELSE r[i - 1]
    <3>1. CASE i = 0
      BY <3>1
    <3>2. CASE i # 0
      <4>1. i - 1 \in 0..(k - 1)
        BY <2>1, <3>2
      <4>2. r[i] = IF s[i] < n THEN Append(f[i - 1], s[i]) ELSE f[i - 1]
        BY <3>2
      <4> QED BY <2>4, <3>2, <4>1, <4>2
    <3> QED BY <3>1, <3>2
  <2>6. r = [i \in 0..k |-> r[i]]
    OBVIOUS
  <2>7. IsFilter(r, s, n, k)
    <3> HIDE DEF r
    <3> QED BY <2>5, <2>6 DEF IsFilter
  <2> QED BY <1>2, <2>7
<1> QED BY <1>3, <1>4

(* It names vectors of the new table only, and every one that was queued.  *)
LEMMA BelowKeeps ==
  ASSUME NEW s \in Seq(Nat), NEW n \in Nat
  PROVE  /\ Below(s, n) \in Seq(0..(n - 1))
         /\ \A v \in 0..(n - 1) : Occurs(v, s) => Occurs(v, Below(s, n))
<1> DEFINE f == CHOOSE g : IsFilter(g, s, n, Len(s))
<1>1. Len(s) \in Nat /\ DOMAIN s = 1..Len(s)
  BY LenProperties
<1>2. IsFilter(f, s, n, Len(s))
  BY <1>1, FilterExists
<1>3. Below(s, n) = f[Len(s)]
  BY DEF Below, IsFilter
<1> HIDE DEF f
<1>4. /\ f[0] = <<>>
      /\ \A i \in 1..Len(s) :
           f[i] = IF s[i] < n THEN Append(f[i - 1], s[i]) ELSE f[i - 1]
  <2>1. 0 \in 0..Len(s)
    BY <1>1
  <2>2. f[0] = <<>>
    BY <1>2, <2>1 DEF IsFilter
  <2>3. ASSUME NEW i \in 1..Len(s)
        PROVE  f[i] = IF s[i] < n THEN Append(f[i - 1], s[i]) ELSE f[i - 1]
    <3>1. i \in 0..Len(s) /\ i # 0
      BY <1>1
    <3> QED BY <1>2, <3>1 DEF IsFilter
  <2> QED BY <2>2, <2>3
<1> DEFINE Good(i) == /\ f[i] \in Seq(0..(n - 1))
                      /\ \A j \in 1..i : s[j] < n => Occurs(s[j], f[i])
           T == {i \in Nat : i <= Len(s) /\ ~Good(i)}
<1>5. T = {}
  <2> SUFFICES ASSUME T # {} PROVE FALSE
    OBVIOUS
  <2>1. PICK k \in T : \A j \in T : k <= j
    BY LeastNat
  <2>2. CASE k = 0
    <3>1. Good(0)
      BY <1>4, EmptySeq
    <3> QED BY <2>1, <2>2, <3>1
  <2>3. CASE k # 0
    <3>1. k \in 1..Len(s) /\ k - 1 \in Nat /\ ~(k <= k - 1) /\ k - 1 <= Len(s)
      BY <1>1, <2>1, <2>3
    <3>2. Good(k - 1)
      BY <2>1, <3>1
    <3>3. s[k] \in Nat
      BY <1>1, <3>1, ElementOfSeq
    <3>4. CASE s[k] < n
      <4>1. f[k] = Append(f[k - 1], s[k]) /\ s[k] \in 0..(n - 1)
        <5>1. s[k] \in 0..(n - 1)
          BY <3>3, <3>4
        <5> QED BY <1>4, <3>1, <3>4, <5>1
      <4>2. f[k] \in Seq(0..(n - 1))
        BY <3>2, <4>1, AppendProperties
      <4>3. ASSUME NEW j \in 1..k, s[j] < n PROVE Occurs(s[j], f[k])
        <5>1. j = k \/ j \in 1..(k - 1)
          BY <3>1
        <5>2. s[j] = s[k] \/ Occurs(s[j], f[k - 1])
          BY <3>2, <4>3, <5>1
        <5> QED BY <3>2, <4>1, <5>2, OccursAppend
      <4> QED BY <2>1, <4>2, <4>3
    <3>5. CASE ~(s[k] < n)
      <4>1. f[k] = f[k - 1]
        BY <1>4, <3>1, <3>5
      <4>2. ASSUME NEW j \in 1..k, s[j] < n PROVE Occurs(s[j], f[k])
        <5>1. j \in 1..(k - 1)
          BY <3>1, <3>5, <4>2
        <5> QED BY <3>2, <4>1, <4>2, <5>1
      <4> QED BY <2>1, <3>2, <4>1, <4>2
    <3> QED BY <3>4, <3>5
  <2> QED BY <2>2, <2>3
<1>6. Good(Len(s))
  BY <1>1, <1>5
<1>7. ASSUME NEW v \in 0..(n - 1), Occurs(v, s) PROVE Occurs(v, f[Len(s)])
  <2>1. PICK j \in 1..Len(s) : s[j] = v
    BY <1>1, <1>7 DEF Occurs
  <2>2. s[j] < n
    BY <2>1
  <2> QED BY <1>6, <2>1, <2>2
<1> QED BY <1>3, <1>6, <1>7

LEMMA ResizeKeeps ==
  ASSUME MsixTypeOK, NoPendingLost, NEW n \in 0..MaxVec, Resize(n)
  PROVE  MsixTypeOK' /\ NoPendingLost'
<1>1. n \in 1..MaxVec /\ n \in Nat /\ nvec' = n
  BY MsixBounds DEF Resize
<1>2. irq_out \in Seq(Nat)
  <2>1. Table \subseteq Nat
    BY DEF Table
  <2> QED BY <2>1, SeqMonotonic DEF MsixTypeOK
<1>3. /\ irq_out' \in Seq(0..(n - 1))
      /\ \A v \in 0..(n - 1) : Occurs(v, irq_out) => Occurs(v, irq_out')
  BY <1>1, <1>2, BelowKeeps DEF Resize
<1>4. MsixTypeOK'
  BY <1>1, <1>3 DEF Resize, MsixTypeOK, Table
<1>5. ASSUME NEW v \in owed' PROVE Occurs(v, irq_out') \/ v \in (pba \cap (masked \cup bypassed))'
  <2>1. v \in owed /\ v \in 0..(n - 1)
    BY DEF Resize
  <2>2. Occurs(v, irq_out) \/ v \in pba \cap (masked \cup bypassed)
    BY <2>1 DEF NoPendingLost
  <2> QED BY <1>3, <2>1, <2>2 DEF Resize
<1> QED BY <1>4, <1>5 DEF NoPendingLost

LEMMA TableStepType ==
  ASSUME MsixTypeOK, NoPendingLost, MsixNext
  PROVE  MsixTypeOK'
<1>1. CASE Clear(nvec)
  BY <1>1, EmptyTableType, EmptySeq DEF Clear, MsixTypeOK, Table
<1>2. CASE ConsumeIrq
  BY <1>2, HeadTailProperties DEF ConsumeIrq, MsixTypeOK, Table
<1>3. ASSUME NEW v \in Vector,
             SetMask(v) \/ ClearMask(v) \/ UpdatePending(v) \/ RejectUpdate(v)
      PROVE  MsixTypeOK'
  <2>1. CASE SetMask(v)
    BY <2>1 DEF SetMask, MsixTypeOK, Table
  <2>2. CASE ClearMask(v)
    BY <2>2, AppendProperties DEF ClearMask, MsixTypeOK, Table
  <2>3. CASE UpdatePending(v)
    BY <2>3, AppendProperties DEF UpdatePending, MsixTypeOK, Table
  <2>4. CASE RejectUpdate(v)
    BY <2>4 DEF RejectUpdate, MsixTypeOK, Table
  <2> QED BY <1>3, <2>1, <2>2, <2>3, <2>4
<1>4. ASSUME NEW v \in Vector, ClearPending(v) PROVE MsixTypeOK'
  BY <1>4, WithoutFirstType DEF ClearPending, MsixTypeOK, Table
<1>5. ASSUME NEW n \in 0..MaxVec, Resize(n) PROVE MsixTypeOK'
  BY <1>5, ResizeKeeps
<1>6. ASSUME NEW v \in Vector, NEW m \in BOOLEAN, ConfigureVector(v, m)
      PROVE  MsixTypeOK'
  BY <1>6 DEF ConfigureVector, MsixTypeOK, Table
<1> QED BY <1>1, <1>2, <1>3, <1>4, <1>5, <1>6 DEF MsixNext

(* An accepted interrupt of a table of any size is queued, remembered      *)
(* behind a mask, or was unmasked by configure_vector, the one operation   *)
(* that may leave it undelivered; no update, mask, unmask, acknowledgement,*)
(* init, resize, configuration or delivery forgets it, and nothing names a *)
(* vector the table no longer has.                                         *)
THEOREM AcceptedIsKept == MsixSpec => [](MsixTypeOK /\ NoPendingLost)
<1> DEFINE TableInv == MsixTypeOK /\ NoPendingLost
<1>1. MsixInit => TableInv
  BY MsixBounds, EmptySeq DEF MsixInit, MsixTypeOK, NoPendingLost, Table
<1>2. TableInv /\ [MsixNext]_msixVars => TableInv'
  <2> SUFFICES ASSUME TableInv, [MsixNext]_msixVars PROVE TableInv'
    OBVIOUS
  <2>1. CASE UNCHANGED msixVars
    BY <2>1 DEF msixVars, MsixTypeOK, NoPendingLost, Table
  <2>2. CASE Clear(nvec)
    BY <2>2, TableStepType DEF Clear, MsixNext, NoPendingLost
  <2>3. CASE ConsumeIrq
    BY <2>3, TableStepType, ConsumeKeeps DEF MsixNext
  <2>4. ASSUME NEW v \in Vector,
               \/ SetMask(v) \/ (Room /\ ClearMask(v))
               \/ \E m \in BOOLEAN : ConfigureVector(v, m)
               \/ (Room /\ UpdatePending(v)) \/ RejectUpdate(v) \/ ClearPending(v)
        PROVE  TableInv'
    <3>1. MsixTypeOK'
      BY <2>4, TableStepType DEF MsixNext
    <3>2. NoPendingLost'
      BY <2>4, MaskUpdateKeeps, ClearPendingKeeps
    <3> QED BY <3>1, <3>2
  <2>5. ASSUME NEW n \in 0..MaxVec, Resize(n) PROVE TableInv'
    BY <2>5, ResizeKeeps
  <2> QED BY <2>1, <2>2, <2>3, <2>4, <2>5 DEF MsixNext
<1> QED BY <1>1, <1>2, PTL DEF MsixSpec

(* The board does not use configure_vector on its table, so there the      *)
(* stronger promise holds: an accepted interrupt that nobody took or       *)
(* acknowledged is queued, or the unmask of its vector will queue it, with *)
(* updaters between the timer, callbacks, acknowledgements,                *)
(* reconfigurations and restarts.                                          *)
THEOREM BoardKeepsPending == Spec => []PendingDelivered
<1> DEFINE BoardTableInv == NoPendingLost /\ bypassed = {}
<1>1. Init => BoardTableInv
  BY DEF Init, MsixInit, NoPendingLost
<1>2. TypeOK /\ BoardTableInv /\ [Next]_vars => BoardTableInv'
  <2> SUFFICES ASSUME TypeOK, BoardTableInv, [Next]_vars PROVE BoardTableInv'
    OBVIOUS
  <2> USE DEF TypeOK
  <2>1. CASE UNCHANGED msixVars
    BY <2>1 DEF msixVars, NoPendingLost
  <2>2. CASE \E u \in Updater, a \in Arg : Update(u, a)
    <3>1. PICK a \in Arg : UpdatePending(Narrow(a)) \/ RejectUpdate(Narrow(a))
      BY <2>2 DEF Update
    <3>2. bypassed' = {}
      BY <3>1 DEF UpdatePending, RejectUpdate
    <3> QED BY <3>1, <3>2, MaskUpdateKeeps
  <2>3. CASE \E a \in Arg : Acknowledge(a)
    <3>1. PICK a \in Arg : ClearPending(Narrow(a))
      BY <2>3 DEF Acknowledge
    <3>2. bypassed' = {}
      BY <3>1 DEF ClearPending
    <3> QED BY <3>1, <3>2, ClearPendingKeeps
  <2>4. CASE (\E n \in 0..MaxVec, m \in SUBSET Vector : SetTable(n, m)) \/ Restart
    BY <2>4 DEF SetTable, Restart, Clear, msixVars, NoPendingLost
  <2>5. CASE \/ (\E u \in Updater : UpdaterStep(u)) \/ TimerStep
             \/ \E a \in Arg : Callback(a)
    BY <2>1, <2>5 DEF UpdaterStep, Ask, ArmOrDrain, UpdaterFire, TimerStep,
       TimerLook, TimerSleep, TimerTimeout, TimerExpired, TimerFire, TimerOnly,
       Callback, msixVars
  <2>6. CASE FlushFire \/ StopTimer \/ JoinTimer \/ FlushWindow \/ Destroy \/ SetTimeout
             \/ (\E k \in Thresholds : SetThreshold(k))
             \/ \E b \in BOOLEAN : SetEnabled(b) \/ SetCallback(b)
    BY <2>1, <2>6 DEF FlushFire, StopTimer, JoinTimer, FlushWindow, Destroy,
       SetTimeout, SetThreshold, SetEnabled, SetCallback, msixVars
  <2>7. CASE UNCHANGED vars
    BY <2>1, <2>7 DEF vars, msixVars
  <2> QED BY <2>2, <2>3, <2>4, <2>5, <2>6, <2>7 DEF Next, ControlStep
<1>3. BoardTableInv => PendingDelivered
  BY DEF NoPendingLost, PendingDelivered
<1> QED BY <1>1, <1>2, <1>3, TypeInit, TypeNext, PTL DEF Spec

-----------------------------------------------------------------------------
(* The callbacks owed: SumOver adds one number per vector argument, so a   *)
(* thread spawned or run for one of them changes it by one.                *)

(* The partial sums of f, up to n.                                         *)
IsSum(s, f, n) ==
  s = [k \in 0..n |-> IF k = 0 THEN 0 ELSE s[k - 1] + f[k - 1]]

LEMMA PartialSumsExist ==
  ASSUME NEW f, NEW n \in Nat
  PROVE  \E s : IsSum(s, f, n)
<1> DEFINE T == {k \in Nat : ~\E s : IsSum(s, f, k)}
<1>1. SUFFICES ASSUME T # {} PROVE FALSE
  OBVIOUS
<1>2. PICK m \in T : \A k \in T : m <= k
  BY <1>1, LeastNat
<1>3. CASE m = 0
  <2>1. IsSum([k \in 0..0 |-> 0], f, 0)
    BY DEF IsSum
  <2> QED BY <1>2, <1>3, <2>1
<1>4. CASE m # 0
  <2>1. m \in Nat /\ m - 1 \in Nat /\ ~(m <= m - 1)
    BY <1>2, <1>4
  <2>2. PICK s : IsSum(s, f, m - 1)
    BY <1>2, <2>1
  <2>3. s = [k \in 0..(m - 1) |-> IF k = 0 THEN 0 ELSE s[k - 1] + f[k - 1]]
    BY <2>2 DEF IsSum
  <2> DEFINE r == [k \in 0..m |-> IF k = 0 THEN 0 ELSE s[k - 1] + f[k - 1]]
  <2>4. ASSUME NEW k \in 0..(m - 1) PROVE r[k] = s[k]
    <3>1. k \in 0..m
      BY <2>1
    <3> QED BY <2>3, <3>1
  <2>5. ASSUME NEW k \in 0..m
        PROVE  r[k] = IF k = 0 THEN 0 ELSE r[k - 1] + f[k - 1]
    <3>1. CASE k = 0
      BY <3>1
    <3>2. CASE k # 0
      <4>1. k - 1 \in 0..(m - 1)
        BY <2>1, <3>2
      <4>2. r[k] = s[k - 1] + f[k - 1]
        BY <3>2
      <4> QED BY <2>4, <3>2, <4>1, <4>2
    <3> QED BY <3>1, <3>2
  <2>6. r = [k \in 0..m |-> r[k]]
    OBVIOUS
  <2>7. IsSum(r, f, m)
    <3> HIDE DEF r
    <3> QED BY <2>5, <2>6 DEF IsSum
  <2> QED BY <1>2, <2>7
<1> QED BY <1>3, <1>4

LEMMA SumIs ==
  ASSUME NEW f
  PROVE  \E s : /\ s[0] = 0 /\ SumOver(f) = s[MaxArg + 1]
                /\ \A k \in 1..(MaxArg + 1) : s[k] = s[k - 1] + f[k - 1]
<1> DEFINE s == CHOOSE r : IsSum(r, f, MaxArg + 1)
<1>0. MaxArg + 1 \in Nat
  BY CoalesceAssumption
<1>1. \E r : IsSum(r, f, MaxArg + 1)
  BY <1>0, PartialSumsExist
<1>2. IsSum(s, f, MaxArg + 1)
  BY <1>1
<1>3. SumOver(f) = s[MaxArg + 1]
  BY DEF SumOver, IsSum
<1> HIDE DEF s
<1>4. s = [k \in 0..(MaxArg + 1) |-> IF k = 0 THEN 0 ELSE s[k - 1] + f[k - 1]]
  BY <1>2 DEF IsSum
<1>5. s[0] = 0
  <2>1. 0 \in 0..(MaxArg + 1)
    BY <1>0
  <2> QED BY <1>4, <2>1
<1>6. ASSUME NEW k \in 1..(MaxArg + 1) PROVE s[k] = s[k - 1] + f[k - 1]
  <2>1. k \in 0..(MaxArg + 1) /\ k # 0
    BY <1>0
  <2> QED BY <1>4, <2>1
<1> QED BY <1>3, <1>5, <1>6

LEMMA SumMoves ==
  ASSUME NEW f \in [Arg -> Nat], NEW g \in [Arg -> Nat], NEW v \in Arg,
         g[v] = f[v] + 1, \A u \in Arg : u # v => g[u] = f[u]
  PROVE  SumOver(f) \in Nat /\ SumOver(g) = SumOver(f) + 1
<1>0. MaxArg \in Nat /\ MaxArg + 1 \in Nat /\ Arg = 0..MaxArg
  BY CoalesceAssumption DEF Arg
<1>1. PICK s : /\ s[0] = 0 /\ SumOver(f) = s[MaxArg + 1]
               /\ \A k \in 1..(MaxArg + 1) : s[k] = s[k - 1] + f[k - 1]
  BY SumIs
<1>2. PICK r : /\ r[0] = 0 /\ SumOver(g) = r[MaxArg + 1]
               /\ \A k \in 1..(MaxArg + 1) : r[k] = r[k - 1] + g[k - 1]
  BY SumIs
<1> DEFINE Good(k) == s[k] \in Nat /\ r[k] = s[k] + (IF k > v THEN 1 ELSE 0)
           T == {k \in 0..(MaxArg + 1) : ~Good(k)}
<1>3. \A k \in 0..(MaxArg + 1) : Good(k)
  <2>1. SUFFICES ASSUME T # {} PROVE FALSE
    OBVIOUS
  <2>2. T \subseteq Nat
    BY <1>0
  <2>3. PICK m \in T : \A k \in T : m <= k
    <3> HIDE DEF T
    <3> QED BY <2>1, <2>2, LeastNat
  <2>4. v \in Nat /\ v < MaxArg + 1
    BY <1>0
  <2>5. CASE m = 0
    BY <1>1, <1>2, <2>3, <2>4, <2>5
  <2>6. CASE m # 0
    <3>1. m \in 1..(MaxArg + 1) /\ m - 1 \in 0..(MaxArg + 1) /\ ~(m <= m - 1)
          /\ m - 1 \in Arg
      BY <1>0, <2>3, <2>6
    <3>2. Good(m - 1)
      BY <2>3, <3>1
    <3>3. s[m] = s[m - 1] + f[m - 1] /\ r[m] = r[m - 1] + g[m - 1]
      BY <1>1, <1>2, <3>1
    <3>4. f[m - 1] \in Nat /\ g[m - 1] \in Nat
      BY <3>1
    <3>5. CASE m - 1 = v
      <4>1. g[m - 1] = f[m - 1] + 1 /\ ~(m - 1 > v) /\ m > v
        BY <2>4, <3>1, <3>5
      <4>2. r[m - 1] = s[m - 1] /\ s[m - 1] \in Nat
        BY <3>2, <4>1
      <4>3. s[m] \in Nat /\ r[m] = s[m] + 1
        BY <3>3, <3>4, <4>1, <4>2
      <4>4. Good(m)
        BY <4>1, <4>3
      <4> QED BY <2>3, <4>4
    <3>6. CASE m - 1 # v
      <4>1. g[m - 1] = f[m - 1] /\ (m - 1 > v <=> m > v)
        BY <2>4, <3>1, <3>6
      <4>2. s[m] \in Nat /\ r[m] = s[m] + (IF m > v THEN 1 ELSE 0)
        BY <3>2, <3>3, <3>4, <4>1
      <4>3. Good(m)
        BY <4>2
      <4> QED BY <2>3, <4>3
    <3> QED BY <3>5, <3>6
  <2> QED BY <2>5, <2>6
<1>4. Good(MaxArg + 1) /\ MaxArg + 1 > v
  BY <1>0, <1>3
<1> QED BY <1>1, <1>2, <1>4

LEMMA SumOfNone ==
  SumOver([a \in Arg |-> 0]) = 0
<1> DEFINE f == [a \in Arg |-> 0]
<1>0. MaxArg \in Nat /\ MaxArg + 1 \in Nat /\ Arg = 0..MaxArg
  BY CoalesceAssumption DEF Arg
<1>1. PICK s : /\ s[0] = 0 /\ SumOver(f) = s[MaxArg + 1]
               /\ \A k \in 1..(MaxArg + 1) : s[k] = s[k - 1] + f[k - 1]
  BY SumIs
<1> DEFINE T == {k \in 0..(MaxArg + 1) : s[k] # 0}
<1>2. \A k \in 0..(MaxArg + 1) : s[k] = 0
  <2>1. SUFFICES ASSUME T # {} PROVE FALSE
    OBVIOUS
  <2>2. T \subseteq Nat
    BY <1>0
  <2>3. PICK m \in T : \A k \in T : m <= k
    <3> HIDE DEF T
    <3> QED BY <2>1, <2>2, LeastNat
  <2>4. m # 0
    BY <1>1, <2>3
  <2>5. m \in 1..(MaxArg + 1) /\ m - 1 \in 0..(MaxArg + 1) /\ ~(m <= m - 1) /\ m - 1 \in Arg
    BY <1>0, <2>3, <2>4
  <2>6. s[m - 1] = 0 /\ f[m - 1] = 0
    BY <2>3, <2>5
  <2>7. s[m] = 0
    BY <1>1, <2>5, <2>6
  <2> QED BY <2>3, <2>7
<1> QED BY <1>0, <1>1, <1>2

Firing == {u \in Updater : upc[u] = "fire"}
TimerOwes == IF timer = "fire" THEN 1 ELSE 0
FlushOwes == IF cpc = "flushed" THEN 1 ELSE 0

(* Added to OneCallbackPerWindow: what is counted is finite.               *)
CallInv == IsFiniteSet(Firing) /\ SumOver(spawned) \in Nat /\ OneCallbackPerWindow

(* An updater comes to, or leaves, the point where it triggers.            *)
LEMMA FiringGoes ==
  ASSUME TypeOK, IsFiniteSet(Firing), NEW u \in Updater, NEW l,
         UpdaterGoto(u, l)
  PROVE  /\ IsFiniteSet(Firing') /\ Cardinality(Firing) \in Nat
         /\ (upc[u] = "fire" <=> l = "fire") =>
              Cardinality(Firing') = Cardinality(Firing)
         /\ upc[u] # "fire" /\ l = "fire" =>
              Cardinality(Firing') = Cardinality(Firing) + 1
         /\ upc[u] = "fire" /\ l # "fire" =>
              Cardinality(Firing) = Cardinality(Firing') + 1
<1>1. \A x \in Updater : upc'[x] = IF x = u THEN l ELSE upc[x]
  BY DEF UpdaterGoto, TypeOK
<1>2. Cardinality(Firing) \in Nat
  BY FS_CardinalityType
<1>3. CASE upc[u] = "fire" <=> l = "fire"
  <2>1. Firing' = Firing
    BY <1>1, <1>3 DEF Firing
  <2> QED BY <1>2, <1>3, <2>1
<1>4. CASE upc[u] # "fire" /\ l = "fire"
  <2>1. Firing' = Firing \cup {u} /\ u \notin Firing
    BY <1>1, <1>4 DEF Firing
  <2>2. IsFiniteSet(Firing') /\ Cardinality(Firing') = Cardinality(Firing) + 1
    BY <2>1, FS_AddElement
  <2> QED BY <1>2, <1>4, <2>2
<1>5. CASE upc[u] = "fire" /\ l # "fire"
  <2>1. Firing' = Firing \ {u} /\ u \in Firing
    BY <1>1, <1>5 DEF Firing
  <2>2. IsFiniteSet(Firing') /\ Cardinality(Firing') = Cardinality(Firing) - 1
    BY <2>1, FS_RemoveElement
  <2> QED BY <1>2, <1>5, <2>2
<1> QED BY <1>3, <1>4, <1>5

(* A trigger detaches a thread, or finds no callback.                      *)
LEMMA TriggerAdds ==
  ASSUME TypeOK, NEW a \in Arg, Trigger(a)
  PROVE  /\ SumOver(spawned) \in Nat /\ SumOver(spawned)' \in Nat
         /\ dropped' + SumOver(spawned)' = dropped + SumOver(spawned) + 1
<1>1. spawned \in [Arg -> Nat] /\ dropped \in Nat
  BY DEF TypeOK
<1> DEFINE more == [spawned EXCEPT ![a] = @ + 1]
<1>2. /\ more \in [Arg -> Nat] /\ more[a] = spawned[a] + 1
      /\ \A b \in Arg : b # a => more[b] = spawned[b]
  BY <1>1
<1> HIDE DEF more
<1>3. SumOver(more) = SumOver(spawned) + 1 /\ SumOver(spawned) \in Nat
  BY <1>1, <1>2, SumMoves
<1>4. SumOver(spawned)' = SumOver(spawned')
  BY DEF SumOver
<1>5. CASE hooked
  <2>1. spawned' = more /\ dropped' = dropped
    BY <1>5 DEF Trigger, more
  <2> QED BY <1>1, <1>3, <1>4, <2>1
<1>6. CASE ~hooked
  <2>1. spawned' = spawned /\ dropped' = dropped + 1
    BY <1>6 DEF Trigger
  <2> QED BY <1>1, <1>3, <1>4, <2>1
<1> QED BY <1>5, <1>6

-----------------------------------------------------------------------------
LEMMA OwedIs ==
  /\ InFlight = Cardinality(Firing) + TimerOwes + FlushOwes
  /\ TimerOwes \in 0..1 /\ FlushOwes \in 0..1
BY DEF InFlight, Firing, TimerOwes, FlushOwes

LEMMA OwedIsNext ==
  InFlight' = Cardinality(Firing') + TimerOwes' + FlushOwes'
BY DEF InFlight, Firing, TimerOwes, FlushOwes

(* A step that neither decides nor triggers.                               *)
LEMMA CallFrame ==
  ASSUME CallInv, UNCHANGED <<fires, called, spawned, dropped>>, Firing' = Firing,
         TimerOwes' = TimerOwes, FlushOwes' = FlushOwes
  PROVE  CallInv'
<1>1. InFlight' = InFlight
  BY OwedIs, OwedIsNext
<1>2. SumOver(spawned)' = SumOver(spawned)
  BY DEF SumOver
<1>3. IsFiniteSet(Firing')
  BY DEF CallInv
<1>4. OneCallbackPerWindow'
  BY <1>1, <1>2 DEF CallInv, OneCallbackPerWindow
<1> QED BY <1>2, <1>3, <1>4 DEF CallInv

LEMMA NotifyOwes ==
  /\ timer' = Awake(timer) => TimerOwes' = TimerOwes
  /\ timer' = Arming(timer) => TimerOwes' = TimerOwes
BY DEF Awake, Arming, Started, TimerOwes

(* The steps of an updater: it decides, and later triggers.                *)
LEMMA UpdaterCalls ==
  ASSUME TypeOK, CallInv, NEW u \in Updater, UpdaterStep(u)
  PROVE  CallInv'
<1>0. /\ fires \in Nat /\ called \in Nat /\ dropped \in Nat
      /\ SumOver(spawned) \in Nat
      /\ IsFiniteSet(Firing) /\ Cardinality(Firing) \in Nat
      /\ fires = called + dropped + SumOver(spawned) + InFlight
  BY FS_CardinalityType DEF TypeOK, CallInv, OneCallbackPerWindow
<1>1. CASE Ask(u)
  <2>1. /\ upc[u] = "ask" /\ UNCHANGED <<timer, cpc, spawned, dropped, called>>
        /\ UpdaterGoto(u, IF ~delivered THEN "idle"
                          ELSE IF enabled THEN "arm" ELSE "fire")
        /\ fires' = fires + (IF delivered /\ ~enabled THEN 1 ELSE 0)
    BY <1>1 DEF Ask
  <2>2. /\ SumOver(spawned)' = SumOver(spawned)
        /\ TimerOwes' = TimerOwes /\ FlushOwes' = FlushOwes
    BY <2>1 DEF SumOver, TimerOwes, FlushOwes
  <2>3. CASE delivered /\ ~enabled
    <3>1. UpdaterGoto(u, "fire") /\ fires' = fires + 1
      BY <2>1, <2>3
    <3>2. IsFiniteSet(Firing') /\ Cardinality(Firing') = Cardinality(Firing) + 1
      BY <1>0, <2>1, <3>1, FiringGoes
    <3>3. OneCallbackPerWindow'
      BY <1>0, <2>1, <2>2, <3>1, <3>2, OwedIs, OwedIsNext DEF OneCallbackPerWindow
    <3> QED BY <1>0, <2>2, <3>2, <3>3 DEF CallInv
  <2>4. CASE ~(delivered /\ ~enabled)
    <3>1. PICK l \in {"idle", "arm"} : UpdaterGoto(u, l)
      BY <2>1, <2>4
    <3>2. IsFiniteSet(Firing') /\ Cardinality(Firing') = Cardinality(Firing)
      BY <1>0, <2>1, <3>1, FiringGoes
    <3>3. fires' = fires
      BY <1>0, <2>1, <2>4
    <3>4. OneCallbackPerWindow'
      BY <1>0, <2>1, <2>2, <3>2, <3>3, OwedIs, OwedIsNext DEF OneCallbackPerWindow
    <3> QED BY <1>0, <2>2, <3>2, <3>4 DEF CallInv
  <2> QED BY <2>3, <2>4
<1>2. CASE ArmOrDrain(u)
  <2>1. /\ upc[u] = "arm" /\ UNCHANGED <<cpc, spawned, dropped, called>>
        /\ timer' = Arming(timer)
    BY <1>2 DEF ArmOrDrain
  <2>2. /\ SumOver(spawned)' = SumOver(spawned)
        /\ TimerOwes' = TimerOwes /\ FlushOwes' = FlushOwes
    BY <2>1, NotifyOwes DEF SumOver, FlushOwes
  <2>3. CASE count + 1 >= threshold
    <3>1. UpdaterGoto(u, "fire") /\ fires' = fires + 1
      BY <1>2, <2>3 DEF ArmOrDrain, CloseWindow
    <3>2. IsFiniteSet(Firing') /\ Cardinality(Firing') = Cardinality(Firing) + 1
      BY <1>0, <2>1, <3>1, FiringGoes
    <3>3. OneCallbackPerWindow'
      BY <1>0, <2>1, <2>2, <3>1, <3>2, OwedIs, OwedIsNext DEF OneCallbackPerWindow
    <3> QED BY <1>0, <2>2, <3>2, <3>3 DEF CallInv
  <2>4. CASE ~(count + 1 >= threshold)
    <3>1. UpdaterGoto(u, "idle") /\ fires' = fires
      BY <1>2, <2>4 DEF ArmOrDrain
    <3>2. IsFiniteSet(Firing') /\ Cardinality(Firing') = Cardinality(Firing)
      BY <1>0, <2>1, <3>1, FiringGoes
    <3>3. OneCallbackPerWindow'
      BY <1>0, <2>1, <2>2, <3>1, <3>2, OwedIs, OwedIsNext DEF OneCallbackPerWindow
    <3> QED BY <1>0, <2>2, <3>2, <3>3 DEF CallInv
  <2> QED BY <2>3, <2>4
<1>3. CASE UpdaterFire(u)
  <2>1. /\ upc[u] = "fire" /\ Trigger(uarg[u]) /\ UpdaterGoto(u, "idle")
        /\ UNCHANGED <<timer, cpc, fires, called>>
    BY <1>3 DEF UpdaterFire
  <2>2. TimerOwes' = TimerOwes /\ FlushOwes' = FlushOwes
    BY <2>1 DEF TimerOwes, FlushOwes
  <2>3. /\ IsFiniteSet(Firing') /\ Cardinality(Firing) = Cardinality(Firing') + 1
        /\ Cardinality(Firing') \in Nat
    BY <1>0, <2>1, FiringGoes, FS_CardinalityType
  <2>4. dropped' + SumOver(spawned)' = dropped + SumOver(spawned) + 1
        /\ SumOver(spawned)' \in Nat /\ dropped' \in Nat
    <3>1. uarg[u] \in Arg
      BY <2>1 DEF TypeOK
    <3>2. dropped' \in Nat
      BY <2>1 DEF Trigger, TypeOK
    <3> QED BY <2>1, <3>1, <3>2, TriggerAdds
  <2>5. OneCallbackPerWindow'
    BY <1>0, <2>1, <2>2, <2>3, <2>4, OwedIs, OwedIsNext DEF OneCallbackPerWindow
  <2> QED BY <1>0, <2>3, <2>4, <2>5 DEF CallInv
<1> QED BY <1>1, <1>2, <1>3 DEF UpdaterStep

LEMMA TimerCalls ==
  ASSUME TypeOK, CallInv, TimerStep
  PROVE  CallInv'
<1>0. /\ fires \in Nat /\ called \in Nat /\ dropped \in Nat
      /\ SumOver(spawned) \in Nat
      /\ IsFiniteSet(Firing) /\ Cardinality(Firing) \in Nat
      /\ fires = called + dropped + SumOver(spawned) + InFlight
  BY FS_CardinalityType DEF TypeOK, CallInv, OneCallbackPerWindow
<1>1. UNCHANGED <<upc, cpc, called>>
  BY DEF TimerStep, TimerLook, TimerSleep, TimerTimeout, TimerExpired, TimerFire,
         TimerOnly
<1>2. Firing' = Firing /\ FlushOwes' = FlushOwes
  BY <1>1 DEF Firing, FlushOwes
<1>3. CASE TimerLook \/ TimerSleep \/ TimerTimeout
  <2>1. UNCHANGED <<fires, spawned, dropped>> /\ TimerOwes' = TimerOwes
    BY <1>3 DEF TimerLook, TimerSleep, TimerTimeout, TimerOwes
  <2> QED BY <1>1, <1>2, <2>1, CallFrame
<1>4. CASE TimerExpired
  <2>1. timer = "expired" /\ spawned' = spawned /\ dropped' = dropped
    BY <1>4 DEF TimerExpired
  <2>2. SumOver(spawned)' = SumOver(spawned)
    BY <2>1 DEF SumOver
  <2>3. CASE armed /\ count > 0
    <3>1. timer' = "fire" /\ fires' = fires + 1
      BY <1>4, <2>3 DEF TimerExpired, CloseWindow
    <3>2. TimerOwes = 0 /\ TimerOwes' = 1
      BY <2>1, <3>1 DEF TimerOwes
    <3>3. OneCallbackPerWindow'
      BY <1>0, <1>1, <1>2, <2>1, <2>2, <3>1, <3>2, OwedIs, OwedIsNext
         DEF OneCallbackPerWindow
    <3> QED BY <1>0, <1>2, <2>2, <3>3 DEF CallInv
  <2>4. CASE ~(armed /\ count > 0)
    <3>1. fires' = fires /\ TimerOwes' = TimerOwes
      BY <1>4, <2>4 DEF TimerExpired, TimerOwes
    <3> QED BY <1>1, <1>2, <2>1, <3>1, CallFrame
  <2> QED BY <2>3, <2>4
<1>5. CASE TimerFire
  <2>1. /\ timer = "fire" /\ timer' = "awake" /\ Trigger(trep) /\ fires' = fires
    BY <1>5 DEF TimerFire
  <2>2. TimerOwes = 1 /\ TimerOwes' = 0
    BY <2>1 DEF TimerOwes
  <2>3. dropped' + SumOver(spawned)' = dropped + SumOver(spawned) + 1
        /\ SumOver(spawned)' \in Nat /\ dropped' \in Nat
    <3>1. trep \in Arg
      BY DEF TypeOK
    <3>2. dropped' \in Nat
      BY <2>1 DEF Trigger, TypeOK
    <3> QED BY <2>1, <3>1, <3>2, TriggerAdds
  <2>4. OneCallbackPerWindow'
    BY <1>0, <1>1, <1>2, <2>1, <2>2, <2>3, OwedIs, OwedIsNext
       DEF OneCallbackPerWindow
  <2> QED BY <1>0, <1>2, <2>3, <2>4 DEF CallInv
<1> QED BY <1>3, <1>4, <1>5 DEF TimerStep

(* A detached thread runs the callback.                                    *)
LEMMA CallbackCalls ==
  ASSUME TypeOK, CallInv, NEW a \in Arg, Callback(a)
  PROVE  CallInv'
<1>0. /\ fires \in Nat /\ called \in Nat /\ dropped \in Nat
      /\ SumOver(spawned) \in Nat
      /\ IsFiniteSet(Firing) /\ Cardinality(Firing) \in Nat
      /\ fires = called + dropped + SumOver(spawned) + InFlight
      /\ spawned \in [Arg -> Nat]
  BY FS_CardinalityType DEF TypeOK, CallInv, OneCallbackPerWindow
<1>1. /\ spawned[a] > 0 /\ spawned' = [spawned EXCEPT ![a] = @ - 1]
      /\ called' = called + 1 
      /\ UNCHANGED <<upc, timer, cpc, fires, dropped>>
  BY DEF Callback, boardVars
<1>2. /\ Firing' = Firing /\ TimerOwes' = TimerOwes /\ FlushOwes' = FlushOwes
  BY <1>1 DEF Firing, TimerOwes, FlushOwes
<1>3. /\ spawned' \in [Arg -> Nat] /\ spawned[a] = spawned'[a] + 1
      /\ \A b \in Arg : b # a => spawned[b] = spawned'[b]
  <2>1. spawned[a] - 1 \in Nat /\ spawned[a] = (spawned[a] - 1) + 1
    BY <1>0, <1>1
  <2> QED BY <1>0, <1>1, <2>1
<1>4. SumOver(spawned') \in Nat /\ SumOver(spawned) = SumOver(spawned') + 1
  BY <1>0, <1>3, SumMoves
<1>5. SumOver(spawned)' = SumOver(spawned')
  BY DEF SumOver
<1>6. OneCallbackPerWindow'
  BY <1>0, <1>1, <1>2, <1>4, <1>5, OwedIs, OwedIsNext DEF OneCallbackPerWindow
<1> QED BY <1>0, <1>2, <1>4, <1>5, <1>6 DEF CallInv

(* A forced flush closes the window, and its trigger follows.              *)
LEMMA FlushCalls ==
  ASSUME TypeOK, CallInv, FlushWindow \/ FlushFire
  PROVE  CallInv'
<1>0. /\ fires \in Nat /\ called \in Nat /\ dropped \in Nat
      /\ SumOver(spawned) \in Nat
      /\ IsFiniteSet(Firing) /\ Cardinality(Firing) \in Nat
      /\ fires = called + dropped + SumOver(spawned) + InFlight
  BY FS_CardinalityType DEF TypeOK, CallInv, OneCallbackPerWindow
<1>1. CASE FlushWindow
  <2>1. /\ cpc = "idle" /\ timer' = Awake(timer)
        /\ UNCHANGED <<upc, spawned, dropped, called>>
    BY <1>1 DEF FlushWindow, Configure
  <2>2. /\ Firing' = Firing /\ TimerOwes' = TimerOwes
        /\ SumOver(spawned)' = SumOver(spawned)
    BY <2>1, NotifyOwes DEF Firing, SumOver
  <2>3. CASE armed /\ count > 0
    <3>1. cpc' = "flushed" /\ fires' = fires + 1
      BY <1>1, <2>3 DEF FlushWindow, CloseWindow
    <3>2. FlushOwes = 0 /\ FlushOwes' = 1
      BY <2>1, <3>1 DEF FlushOwes
    <3>3. OneCallbackPerWindow'
      BY <1>0, <2>1, <2>2, <3>1, <3>2, OwedIs, OwedIsNext DEF OneCallbackPerWindow
    <3> QED BY <1>0, <2>2, <3>3 DEF CallInv
  <2>4. CASE ~(armed /\ count > 0)
    <3>1. fires' = fires /\ cpc' = "table"
      BY <1>1, <2>4 DEF FlushWindow
    <3>2. FlushOwes' = FlushOwes
      BY <2>1, <3>1 DEF FlushOwes
    <3> QED BY <2>1, <2>2, <3>1, <3>2, CallFrame
  <2> QED BY <2>3, <2>4
<1>2. CASE FlushFire
  <2>1. /\ cpc = "flushed" /\ cpc' = "table" /\ Trigger(frep)
        /\ UNCHANGED <<upc, timer, fires, called>>
    BY <1>2 DEF FlushFire
  <2>2. /\ Firing' = Firing /\ TimerOwes' = TimerOwes
        /\ FlushOwes = 1 /\ FlushOwes' = 0
    BY <2>1 DEF Firing, TimerOwes, FlushOwes
  <2>3. dropped' + SumOver(spawned)' = dropped + SumOver(spawned) + 1
        /\ SumOver(spawned)' \in Nat /\ dropped' \in Nat
    <3>1. frep \in Arg
      BY DEF TypeOK
    <3>2. dropped' \in Nat
      BY <2>1 DEF Trigger, TypeOK
    <3> QED BY <2>1, <3>1, <3>2, TriggerAdds
  <2>4. OneCallbackPerWindow'
    BY <1>0, <2>1, <2>2, <2>3, OwedIs, OwedIsNext DEF OneCallbackPerWindow
  <2> QED BY <1>0, <2>2, <2>3, <2>4 DEF CallInv
<1> QED BY <1>1, <1>2

(* The other steps of the board neither decide nor trigger.                *)
LEMMA OtherCalls ==
  ASSUME TypeOK, CallInv,
         \/ UNCHANGED vars
         \/ \E a \in Arg : Acknowledge(a)
         \/ \E n \in 0..MaxVec, m \in SUBSET Vector : SetTable(n, m)
         \/ StopTimer \/ JoinTimer \/ Destroy \/ Restart \/ SetTimeout
         \/ \E k \in Thresholds : SetThreshold(k)
         \/ \E b \in BOOLEAN : SetEnabled(b) \/ SetCallback(b)
  PROVE  CallInv'
<1>1. UNCHANGED <<fires, called, spawned, dropped, upc>>
  BY DEF vars, Acknowledge, SetTable, StopTimer, JoinTimer, Destroy, Restart,
         SetTimeout, SetThreshold, SetEnabled, SetCallback
<1>2. Firing' = Firing
  BY <1>1 DEF Firing
<1>3. TimerOwes' = TimerOwes
  <2>1. timer' = timer \/ timer' = Awake(timer)
          \/ (timer \in {"none", "exited"} /\ timer' = "none")
    BY DEF vars, Acknowledge, SetTable, StopTimer, JoinTimer, Destroy, Restart,
           SetTimeout, SetThreshold, SetEnabled, SetCallback
  <2> QED BY <2>1, NotifyOwes DEF TimerOwes
<1>4. FlushOwes' = FlushOwes
  <2>1. cpc' = cpc \/ (cpc # "flushed" /\ cpc' # "flushed")
    BY DEF vars, Acknowledge, SetTable, StopTimer, JoinTimer, Destroy, Restart,
           SetTimeout, SetThreshold, SetEnabled, SetCallback
  <2> QED BY <2>1 DEF FlushOwes
<1> QED BY <1>1, <1>2, <1>3, <1>4, CallFrame

LEMMA CallInit == Init => CallInv
<1> SUFFICES ASSUME Init PROVE CallInv
  OBVIOUS
<1>1. Firing = {} /\ TimerOwes = 0 /\ FlushOwes = 0
  BY DEF Init, Firing, TimerOwes, FlushOwes
<1>2. IsFiniteSet(Firing) /\ Cardinality(Firing) = 0
  BY <1>1, FS_EmptySet
<1>3. SumOver(spawned) = 0 /\ dropped = 0 /\ fires = 0 /\ called = 0
  BY SumOfNone DEF Init
<1> QED BY <1>1, <1>2, <1>3, OwedIs DEF CallInv, OneCallbackPerWindow

LEMMA CallNext == TypeOK /\ CallInv /\ [Next]_vars => CallInv'
<1> SUFFICES ASSUME TypeOK, CallInv, [Next]_vars PROVE CallInv'
  OBVIOUS
<1>1. CASE \E u \in Updater, a \in Arg : Update(u, a)
  <2>1. PICK u \in Updater, a \in Arg : Update(u, a)
    BY <1>1
  <2>2. /\ upc[u] = "idle" /\ UNCHANGED <<timer, cpc, spawned, dropped, fires, called>>
        /\ UpdaterGoto(u, IF Narrow(a) \in Table THEN "ask" ELSE "idle")
    BY <2>1 DEF Update
  <2>3. Firing' = Firing
    BY <2>2 DEF UpdaterGoto, Firing, TypeOK
  <2>4. TimerOwes' = TimerOwes /\ FlushOwes' = FlushOwes
    BY <2>2 DEF TimerOwes, FlushOwes
  <2> QED BY <2>2, <2>3, <2>4, CallFrame
<1>2. CASE \/ \E u \in Updater : UpdaterStep(u)
           \/ TimerStep \/ FlushWindow \/ FlushFire
           \/ \E a \in Arg : Callback(a)
  BY <1>2, UpdaterCalls, TimerCalls, FlushCalls, CallbackCalls
<1>3. CASE \/ UNCHANGED vars
           \/ \E a \in Arg : Acknowledge(a)
           \/ \E n \in 0..MaxVec, m \in SUBSET Vector : SetTable(n, m)
           \/ StopTimer \/ JoinTimer \/ Destroy \/ Restart \/ SetTimeout
           \/ \E k \in Thresholds : SetThreshold(k)
           \/ \E b \in BOOLEAN : SetEnabled(b) \/ SetCallback(b)
  BY <1>3, OtherCalls
<1> QED BY <1>1, <1>2, <1>3 DEF Next, ControlStep

(* Every window that was closed, by the threshold, the timer or a forced   *)
(* flush, and every direct delivery, is triggered exactly once: the        *)
(* callback has run, its thread was detached, there was none to run, or    *)
(* one of the three that decide is about to trigger it.                    *)
THEOREM CallbacksAccounted == Spec => []OneCallbackPerWindow
<1>1. CallInv => OneCallbackPerWindow
  BY DEF CallInv
<1> QED BY <1>1, CallInit, CallNext, TypeInit, TypeNext, PTL DEF Spec

-----------------------------------------------------------------------------
(* GpuFront: the tasks from dispatch to the notice of the host.            *)
(* What the proofs need of the constants: the fences of the SDMA engine    *)
(* are told apart from the tasks, as the history of notices is by id.      *)
FrontAssumption ==
  /\ MaxTasks \in Nat /\ Fifo \in Nat /\ Slots \in Nat /\ MaxId \in Nat
  /\ Ids \cap Fences = {}

Given == 1..(nextId - 1)

(* The queue names tasks that were given out, in the order of dispatch.    *)
QueueHolds ==
  /\ nextId \in 1..(MaxId + 1)
  /\ active \in Seq(Nat) /\ pending \in Seq(Nat)
  /\ \A i \in DOMAIN active : active[i] \in Given
  /\ \A i \in DOMAIN pending : pending[i] \in Given
  /\ Len(active) <= Slots /\ Len(pending) <= Fifo
  /\ \A i, j \in DOMAIN active : i < j => active[i] < active[j]
  /\ \A i, j \in DOMAIN pending : i < j => pending[i] < pending[j]
  /\ \A i \in DOMAIN active, j \in DOMAIN pending : active[i] < pending[j]

IsActive(t)  == \E i \in DOMAIN active : active[i] = t
IsPending(t) == \E i \in DOMAIN pending : pending[i] = t

(* Only active tasks end; the queue keeps one until it is told.            *)
EndsKnown ==
  /\ DOMAIN untold \subseteq Given
  /\ \A t \in DOMAIN untold : untold[t] \subseteq {"queue", "tmu", "ring"}
  /\ \A i \in DOMAIN pending : pending[i] \notin DOMAIN untold
  /\ \A t \in DOMAIN untold : IsActive(t) <=> "queue" \in untold[t]

TmuHolds ==
  /\ \A t : t \in cached <=> \/ (IsActive(t) \/ IsPending(t)) /\ t \notin DOMAIN untold
                             \/ Owes(t, "tmu")
  /\ inflight = Cardinality(cached) /\ inflight <= MaxTasks

Reported(t) == t \in DOMAIN untold /\ "ring" \notin untold[t]
InRing(t)   == \E i \in DOMAIN ring : ring[i] = t

RingKnown ==
  /\ ring \in Seq(Ids \cup Fences)
  /\ DOMAIN told = Ids \cup Fences
  /\ \A i, j \in DOMAIN ring : ring[i] = ring[j] => i = j
  /\ \A t \in Ids : \/ ~Reported(t) /\ told[t] = 0 /\ ~InRing(t)
                    \/ Reported(t) /\ told[t] = 0 /\ InRing(t)
                    \/ Reported(t) /\ told[t] = 1 /\ ~InRing(t)
  /\ \A f \in Fences : \/ told[f] \in {0, 2} /\ ~InRing(f)
                       \/ told[f] = 1 /\ InRing(f)

(* What holds between two calls.                                           *)
FrontInv == QueueHolds /\ EndsKnown /\ TmuHolds /\ RingKnown

LEMMA FrontInitInv ==
  ASSUME FrontAssumption, FrontInit
  PROVE  FrontInv
<1>1. /\ nextId = 1 /\ cached = {} /\ inflight = 0 /\ pending = << >> /\ active = << >>
      /\ untold = Nobody /\ ring = << >> /\ told = [t \in Ids \cup Fences |-> 0]
  BY DEF FrontInit
<1>2. DOMAIN untold = {}
  BY <1>1 DEF Nobody
<1>3. DOMAIN active = {} /\ DOMAIN pending = {} /\ DOMAIN ring = {} /\ Len(active) = 0 /\ Len(pending) = 0
  BY <1>1
<1>4. QueueHolds
  <2>1. active \in Seq(Nat) /\ pending \in Seq(Nat)
    BY <1>1
  <2>2. nextId \in 1..(MaxId + 1)
    BY <1>1 DEF FrontAssumption
  <2> QED
    BY <1>3, <2>1, <2>2 DEF QueueHolds, FrontAssumption
<1>5. EndsKnown
  BY <1>2, <1>3 DEF EndsKnown
<1>6. TmuHolds
  BY <1>1, <1>2, <1>3, FS_EmptySet DEF TmuHolds, FrontAssumption, IsActive, IsPending, Owes
<1>7. RingKnown
  <2>1. ring \in Seq(Ids \cup Fences)
    BY <1>1
  <2> QED
    BY <1>1, <1>2, <1>3, <2>1 DEF RingKnown, Reported, InRing
<1> QED
  BY <1>4, <1>5, <1>6, <1>7 DEF FrontInv

LEMMA IntervalSize ==
  ASSUME NEW n \in Nat
  PROVE  IsFiniteSet(1..n) /\ Cardinality(1..n) = n
<1>1. 1 \in Int /\ n \in Int
  OBVIOUS
<1>2. IsFiniteSet(1..n) /\ Cardinality(1..n) = IF 1 > n THEN 0 ELSE n - 1 + 1
  BY <1>1, FS_Interval
<1> QED
  BY <1>2

(* A queue that is full holds as many tasks as the TMU may.                *)
LEMMA FullIsBusy ==
  ASSUME FrontAssumption, QueueHolds, EndsKnown, TmuHolds, Fifo >= MaxTasks, Full
  PROVE  Backpressured
<1>1. /\ pending \in Seq(Nat) /\ Len(pending) \in Nat /\ DOMAIN pending = 1..Len(pending)
      /\ Len(pending) >= MaxTasks /\ MaxTasks \in Nat
  BY DEF QueueHolds, Full, FrontAssumption
<1>2. nextId \in Nat /\ Given = 1..(nextId - 1)
  BY DEF QueueHolds, Given, FrontAssumption
<1>3. \A i \in DOMAIN pending : pending[i] \in cached
  BY DEF TmuHolds, EndsKnown, IsPending
<1>4. cached \subseteq Given /\ IsFiniteSet(cached)
  <2>1. \A i \in DOMAIN active : active[i] \in Given
    BY DEF QueueHolds
  <2>2. \A i \in DOMAIN pending : pending[i] \in Given
    BY DEF QueueHolds
  <2>3. cached \subseteq Given
    BY <2>1, <2>2 DEF TmuHolds, EndsKnown, IsActive, IsPending, Owes
  <2>4. IsFiniteSet(1..(nextId - 1))
    BY <1>2, FS_Interval
  <2> QED
    BY <1>2, <2>3, <2>4, FS_Subset
<1>5. \A i, j \in 1..Len(pending) : i # j => pending[i] # pending[j]
  <2>1. \A i, j \in 1..Len(pending) : i < j => pending[i] < pending[j]
    BY <1>1 DEF QueueHolds
  <2>2. \A i \in 1..Len(pending) : pending[i] \in Nat
    BY <1>1
  <2>3. ASSUME NEW i \in 1..Len(pending), NEW j \in 1..Len(pending), i < j
        PROVE  pending[i] # pending[j]
    BY <2>1, <2>2, <2>3
  <2>4. \A i, j \in 1..Len(pending) : i # j => i < j \/ j < i
    BY <1>1
  <2> QED
    BY <2>3, <2>4
<1>6. IsFiniteSet(1..Len(pending)) /\ Cardinality(1..Len(pending)) = Len(pending)
  BY <1>1, IntervalSize
<1>7. Cardinality(1..Len(pending)) <= Cardinality(cached)
  <2> DEFINE S == 1..Len(pending)
             f == [i \in S |-> pending[i]]
  <2>1. f \in [S -> cached]
    <3>1. \A i \in S : pending[i] \in cached
      BY <1>1, <1>3
    <3> HIDE DEF S
    <3> QED
      BY <3>1
  <2>2. \A i, j \in S : i # j => f[i] # f[j]
    BY <1>5
  <2>3. Cardinality(cached) \in Nat /\ Cardinality(S) \in Nat /\ IsFiniteSet(S)
    BY <1>1, <1>4, <1>6, FS_CardinalityType
  <2> HIDE DEF f, S
  <2>4. ASSUME Cardinality(cached) < Cardinality(S)  PROVE  FALSE
    <3>1. \E x, y \in S : x # y /\ f[x] = f[y]
      BY <1>4, <2>1, <2>3, <2>4, FS_PigeonHole
    <3> QED
      BY <2>2, <3>1
  <2>5. Cardinality(S) <= Cardinality(cached)
    BY <2>3, <2>4
  <2> QED
    BY <2>5 DEF S
<1>8. Cardinality(cached) \in Nat /\ inflight = Cardinality(cached)
  BY <1>4, FS_CardinalityType DEF TmuHolds
<1> HIDE DEF QueueHolds
<1> QED
  BY <1>1, <1>6, <1>7, <1>8 DEF Backpressured

(* A task that is submitted is newer than all the others.                  *)
LEMMA DispatchKeeps ==
  ASSUME FrontAssumption, FrontInv, Dispatch
  PROVE  FrontInv'
<1> USE DEF FrontInv
<1>1. /\ nextId <= MaxId /\ nextId' = nextId + 1 /\ nextId \in Nat \ {0} /\ MaxId \in Nat
      /\ UNCHANGED <<active, untold, ring, told>>
  BY DEF Dispatch, FrontAssumption, QueueHolds
<1>2. nextId' \in 1..(MaxId + 1) /\ Given \subseteq Given' /\ nextId \in Given' /\ nextId \notin Given
  BY <1>1 DEF Given
<1>3. RingKnown'
  BY <1>1 DEF RingKnown, Reported, InRing
<1>4. CASE UNCHANGED <<cached, inflight, pending>>
  <2>1. QueueHolds'
    BY <1>1, <1>2, <1>4 DEF QueueHolds
  <2>2. EndsKnown' /\ TmuHolds'
    BY <1>1, <1>2, <1>4 DEF EndsKnown, TmuHolds, IsActive, IsPending, Owes
  <2> QED
    BY <1>3, <2>1, <2>2
<1>5. CASE Submitted(nextId)
  <2>1. /\ pending' = Append(pending, nextId) /\ cached' = cached \cup {nextId}
        /\ inflight' = inflight + 1 /\ inflight < MaxTasks /\ Len(pending) < Fifo
    <3>1. Len(pending) \in Nat /\ Fifo \in Nat /\ MaxTasks \in Nat
      BY DEF QueueHolds, FrontAssumption
    <3>2. ~(inflight >= MaxTasks) /\ inflight \in Int
      <4>1. \A i \in DOMAIN active : active[i] \in Given
        BY DEF QueueHolds
      <4>2. \A i \in DOMAIN pending : pending[i] \in Given
        BY DEF QueueHolds
      <4>3. cached \subseteq Given
        BY <4>1, <4>2 DEF TmuHolds, EndsKnown, IsActive, IsPending, Owes
      <4>4. IsFiniteSet(1..(nextId - 1))
        BY <1>1, FS_Interval
      <4>5. Cardinality(cached) \in Nat
        BY <4>3, <4>4, FS_Subset, FS_CardinalityType DEF Given
      <4> QED
        BY <1>5, <4>5 DEF Submitted, Backpressured, TmuHolds
    <3> QED
      BY <1>5, <3>1, <3>2 DEF Submitted, Enqueue, Full
  <2>2. /\ pending \in Seq(Nat) /\ DOMAIN pending = 1..Len(pending) /\ Len(pending) \in Nat
    BY DEF QueueHolds
  <2>3. /\ pending' \in Seq(Nat) /\ Len(pending') = Len(pending) + 1
        /\ DOMAIN pending' = 1..(Len(pending) + 1)
        /\ \A i \in DOMAIN pending : pending'[i] = pending[i]
        /\ pending'[Len(pending) + 1] = nextId
    BY <1>1, <2>1, <2>2, AppendProperties
  <2>4. \A i \in DOMAIN pending' : i \in DOMAIN pending \/ (i = Len(pending) + 1 /\ i \notin DOMAIN pending)
    BY <2>2, <2>3
  <2>5. DOMAIN pending \subseteq DOMAIN pending' /\ Len(pending) + 1 \in DOMAIN pending'
    BY <2>2, <2>3
  <2>6. \A x \in Given : x \in Nat /\ x < nextId
    BY <1>1 DEF Given
  <2>7. QueueHolds'
    <3>1. \A i, j \in DOMAIN pending' : i < j => pending'[i] < pending'[j]
      <4>1. ASSUME NEW i \in DOMAIN pending', NEW j \in DOMAIN pending', i < j
            PROVE  pending'[i] < pending'[j]
        <5>1. i \in DOMAIN pending
          BY <2>2, <2>3, <4>1
        <5>2. CASE j \in DOMAIN pending
          BY <2>3, <4>1, <5>1, <5>2 DEF QueueHolds
        <5>3. CASE j = Len(pending) + 1
          <6>1. pending[i] \in Given
            BY <5>1 DEF QueueHolds
          <6> QED
            BY <2>3, <2>6, <5>1, <5>3, <6>1
        <5> QED
          BY <2>4, <5>2, <5>3
      <4> QED
        BY <4>1
    <3>2. \A i \in DOMAIN pending' : pending'[i] \in Given'
      BY <1>2, <2>3, <2>4 DEF QueueHolds
    <3>3. ASSUME NEW i \in DOMAIN active', NEW j \in DOMAIN pending'
          PROVE  active'[i] < pending'[j]
      <4>1. active'[i] = active[i] /\ active[i] \in Given /\ i \in DOMAIN active
        BY <1>1 DEF QueueHolds
      <4>2. CASE j \in DOMAIN pending
        BY <2>3, <4>1, <4>2 DEF QueueHolds
      <4>3. CASE j = Len(pending) + 1
        BY <2>3, <2>6, <4>1, <4>3
      <4> QED
        BY <2>4, <4>2, <4>3
    <3>4. Len(pending') <= Fifo
      BY <2>1, <2>2, <2>3 DEF FrontAssumption
    <3>5. /\ active' \in Seq(Nat) /\ Len(active') <= Slots
          /\ \A i \in DOMAIN active' : active'[i] \in Given'
          /\ \A i, j \in DOMAIN active' : i < j => active'[i] < active'[j]
      BY <1>1, <1>2 DEF QueueHolds
    <3> QED
      BY <1>2, <2>3, <3>1, <3>2, <3>3, <3>4, <3>5 DEF QueueHolds
  <2>8. nextId \notin DOMAIN untold
    BY <1>2 DEF EndsKnown
  <2>9. EndsKnown'
    <3>1. \A i \in DOMAIN pending' : pending'[i] \notin DOMAIN untold'
      BY <1>1, <2>3, <2>4, <2>8 DEF EndsKnown
    <3> QED
      BY <1>1, <1>2, <3>1 DEF EndsKnown, IsActive
  <2>10. \A t : IsPending(t)' <=> IsPending(t) \/ t = nextId
    BY <2>3, <2>4, <2>5 DEF IsPending
  <2>11. TmuHolds'
    <3>1. nextId \notin cached
      <4>1. ~IsActive(nextId) /\ ~IsPending(nextId)
        BY <1>2 DEF QueueHolds, IsActive, IsPending
      <4> QED
        BY <2>8, <4>1 DEF TmuHolds, Owes
    <3>2. cached \subseteq Given
      <4>1. \A t : IsActive(t) \/ IsPending(t) => t \in Given
        BY DEF QueueHolds, IsActive, IsPending
      <4> QED
        BY <4>1 DEF TmuHolds, EndsKnown, Owes
    <3>3. IsFiniteSet(1..(nextId - 1))
      BY <1>1, FS_Interval
    <3>4. IsFiniteSet(cached)
      BY <3>2, <3>3, FS_Subset DEF Given
    <3>5. Cardinality(cached') = Cardinality(cached) + 1 /\ Cardinality(cached) \in Nat
      BY <2>1, <3>1, <3>4, FS_AddElement, FS_CardinalityType
    <3>6. inflight' = Cardinality(cached') /\ inflight' <= MaxTasks
      BY <2>1, <3>5 DEF TmuHolds, FrontAssumption
    <3>7. \A t : t \in cached' <=> \/ (IsActive(t)' \/ IsPending(t)') /\ t \notin DOMAIN untold'
                                   \/ Owes(t, "tmu")'
      <4>1. \A t : (IsActive(t)' <=> IsActive(t)) /\ (Owes(t, "tmu")' <=> Owes(t, "tmu"))
        BY <1>1 DEF IsActive, Owes
      <4> QED
        BY <1>1, <2>1, <2>8, <2>10, <4>1 DEF TmuHolds
    <3> QED
      BY <3>6, <3>7 DEF TmuHolds
  <2> QED
    BY <1>3, <2>7, <2>9, <2>11
<1> QED
  BY <1>4, <1>5 DEF Dispatch, EnterBackoff

(* What is left of a sequence without its first elements.                  *)
LEMMA SuffixIs ==
  ASSUME NEW S, NEW s \in Seq(S), NEW n \in 0..Len(s)
  PROVE  /\ SubSeq(s, n + 1, Len(s)) \in Seq(S)
         /\ Len(SubSeq(s, n + 1, Len(s))) = Len(s) - n
         /\ \A i \in 1..(Len(s) - n) : SubSeq(s, n + 1, Len(s))[i] = s[i + n]
<1> DEFINE l == Len(s)
           m == n + 1
<1>1. l \in Nat /\ n \in Nat /\ n <= l /\ m \in Int /\ DOMAIN s = 1..l
  OBVIOUS
<1>2. \A i \in m..l : s[i] \in S
  BY <1>1
<1>3. m = n + 1
  OBVIOUS
<1> HIDE DEF l, m
<1>4. /\ SubSeq(s, m, l) \in Seq(S)
      /\ Len(SubSeq(s, m, l)) = IF m <= l THEN l - m + 1 ELSE 0
      /\ \A i \in 1..(l - m + 1) : SubSeq(s, m, l)[i] = s[m + i - 1]
  BY <1>1, <1>2, SubSeqProperties
<1>5. l - m + 1 = l - n /\ (IF m <= l THEN l - m + 1 ELSE 0) = l - n
  BY <1>1, <1>3
<1>6. \A i \in 1..(l - n) : m + i - 1 = i + n
  BY <1>1, <1>3
<1>7. /\ SubSeq(s, m, l) \in Seq(S) /\ Len(SubSeq(s, m, l)) = l - n
      /\ \A i \in 1..(l - n) : SubSeq(s, m, l)[i] = s[i + n]
  BY <1>4, <1>5, <1>6
<1> QED
  BY <1>3, <1>7 DEF l

(* The oldest of the queue take the free slots.                            *)
LEMMA ActivateKeeps ==
  ASSUME FrontAssumption, FrontInv, Activate
  PROVE  FrontInv'
<1> USE DEF FrontInv
<1> DEFINE n == IF Len(pending) < Slots - Len(active) THEN Len(pending) ELSE Slots - Len(active)
           a == Len(active)
           p == Len(pending)
<1>1. /\ n > 0
      /\ active' = active \o SubSeq(pending, 1, n)
      /\ pending' = SubSeq(pending, n + 1, Len(pending))
      /\ UNCHANGED <<nextId, cached, inflight, untold, ring, told>>
  BY DEF Activate
<1>2. /\ active \in Seq(Nat) /\ a \in Nat /\ DOMAIN active = 1..a
      /\ pending \in Seq(Nat) /\ p \in Nat /\ DOMAIN pending = 1..p
      /\ Slots \in Nat /\ a <= Slots /\ p <= Fifo /\ Fifo \in Nat
  BY DEF QueueHolds, FrontAssumption
<1>3. n \in Nat \ {0} /\ n <= p /\ a + n <= Slots
  <2>1. n = (IF p < Slots - a THEN p ELSE Slots - a) /\ n > 0 /\ a \in Nat /\ p \in Nat /\ Slots \in Nat
    BY <1>1, <1>2
  <2> HIDE DEF n, a, p
  <2> QED
    BY <2>1
<1> HIDE DEF n
<1>4. /\ SubSeq(pending, 1, n) \in Seq(Nat) /\ Len(SubSeq(pending, 1, n)) = n
      /\ \A i \in 1..n : SubSeq(pending, 1, n)[i] = pending[i]
  <2>1. \A i \in 1..n : pending[i] \in Nat
    BY <1>2, <1>3
  <2>2. 1 \in 1..(p + 1) /\ n \in 0..p
    BY <1>2, <1>3
  <2>3. \A i \in 1..n : i + 1 - 1 = i
    BY <1>3
  <2> QED
    BY <1>2, <1>3, <2>1, <2>2, <2>3, SubSeqProperties
<1>5. /\ pending' \in Seq(Nat) /\ Len(pending') = p - n /\ DOMAIN pending' = 1..(p - n)
      /\ \A i \in 1..(p - n) : pending'[i] = pending[i + n] /\ i + n \in DOMAIN pending
  <2> DEFINE rest == SubSeq(pending, n + 1, p)
  <2>1. /\ rest \in Seq(Nat) /\ Len(rest) = p - n
        /\ \A i \in 1..(p - n) : rest[i] = pending[i + n]
    <3>1. n \in 0..Len(pending)
      BY <1>2, <1>3
    <3> QED
      BY <1>2, <3>1, SuffixIs
  <2>2. pending' = rest
    BY <1>1
  <2> HIDE DEF rest, p
  <2>3. DOMAIN rest = 1..(p - n)
    BY <2>1
  <2>4. \A i \in 1..(p - n) : i + n \in 1..p
    BY <1>2, <1>3
  <2> QED
    BY <1>2, <2>1, <2>2, <2>3, <2>4
<1>6. /\ active' \in Seq(Nat) /\ Len(active') = a + n /\ DOMAIN active' = 1..(a + n)
      /\ \A i \in 1..a : active'[i] = active[i] /\ i \in DOMAIN active
      /\ \A i \in (a + 1)..(a + n) : active'[i] = pending[i - a] /\ i - a \in DOMAIN pending /\ i - a <= n
  <2> DEFINE front == SubSeq(pending, 1, n)
  <2> HIDE DEF front
  <2>1. /\ active \o front \in Seq(Nat) /\ Len(active \o front) = a + n
        /\ \A i \in 1..(a + n) : (active \o front)[i] = IF i <= a THEN active[i] ELSE front[i - a]
    <3>1. front \in Seq(Nat) /\ Len(front) = n
      BY <1>4 DEF front
    <3> QED
      BY <1>2, <1>3, <3>1, ConcatProperties
  <2>2. active' = active \o front
    BY <1>1 DEF front
  <2>3. \A i \in 1..a : i \in 1..(a + n) /\ i <= a
    BY <1>2, <1>3
  <2>4. \A i \in (a + 1)..(a + n) : i \in 1..(a + n) /\ ~(i <= a) /\ i - a \in 1..n /\ i - a \in 1..p
    BY <1>2, <1>3
  <2>5. \A i \in 1..n : front[i] = pending[i] /\ i <= n
    BY <1>3, <1>4 DEF front
  <2> HIDE DEF a, p
  <2> QED
    BY <1>2, <2>1, <2>2, <2>3, <2>4, <2>5
<1>7. \A i \in DOMAIN active' : i \in 1..a \/ i \in (a + 1)..(a + n)
  BY <1>2, <1>3, <1>6
<1> HIDE DEF a, p
<1>8. QueueHolds'
  <2>1. \A i \in DOMAIN active' : active'[i] \in Given'
    BY <1>1, <1>6, <1>7 DEF QueueHolds, Given
  <2>2. \A i \in DOMAIN pending' : pending'[i] \in Given'
    BY <1>1, <1>5 DEF QueueHolds, Given
  <2>3. ASSUME NEW i \in DOMAIN active', NEW j \in DOMAIN active', i < j
        PROVE  active'[i] < active'[j]
    <3>1. CASE i \in 1..a /\ j \in 1..a
      BY <1>6, <2>3, <3>1 DEF QueueHolds
    <3>2. CASE i \in 1..a /\ j \in (a + 1)..(a + n)
      BY <1>6, <3>2 DEF QueueHolds
    <3>3. CASE i \in (a + 1)..(a + n) /\ j \in (a + 1)..(a + n)
      <4>1. i - a < j - a
        BY <1>2, <2>3, <3>3
      <4> QED
        BY <1>6, <3>3, <4>1 DEF QueueHolds
    <3>4. ~(i \in (a + 1)..(a + n) /\ j \in 1..a)
      BY <1>2, <2>3
    <3> QED
      BY <1>7, <3>1, <3>2, <3>3, <3>4
  <2>4. ASSUME NEW i \in DOMAIN pending', NEW j \in DOMAIN pending', i < j
        PROVE  pending'[i] < pending'[j]
    <3>1. i + n < j + n
      BY <1>2, <1>3, <1>5, <2>4
    <3> QED
      BY <1>5, <3>1 DEF QueueHolds
  <2>5. ASSUME NEW i \in DOMAIN active', NEW j \in DOMAIN pending'
        PROVE  active'[i] < pending'[j]
    <3>1. pending'[j] = pending[j + n] /\ j + n \in DOMAIN pending
      BY <1>5
    <3>2. CASE i \in 1..a
      BY <1>6, <3>1, <3>2 DEF QueueHolds
    <3>3. CASE i \in (a + 1)..(a + n)
      <4>1. i - a < j + n
        BY <1>2, <1>3, <1>5, <3>3
      <4> QED
        BY <1>6, <3>1, <3>3, <4>1 DEF QueueHolds
    <3> QED
      BY <1>7, <3>2, <3>3
  <2>6. nextId' \in 1..(MaxId + 1) /\ Len(active') <= Slots /\ Len(pending') <= Fifo
    BY <1>1, <1>2, <1>3, <1>5, <1>6 DEF QueueHolds
  <2> QED
    BY <1>5, <1>6, <2>1, <2>2, <2>3, <2>4, <2>5, <2>6 DEF QueueHolds
<1>9. ASSUME NEW t, IsActive(t)  PROVE  IsActive(t)'
  <2>1. PICK k \in DOMAIN active : active[k] = t
    BY <1>9 DEF IsActive
  <2>2. k \in 1..a /\ k \in 1..(a + n)
    BY <1>2, <1>3, <2>1
  <2> QED
    BY <1>6, <2>1, <2>2 DEF IsActive
<1>10. ASSUME NEW t, IsActive(t)'  PROVE  IsActive(t) \/ IsPending(t)
  BY <1>6, <1>7, <1>10 DEF IsActive, IsPending
<1>11. ASSUME NEW t, IsPending(t)  PROVE  IsActive(t)' \/ IsPending(t)'
  <2>1. PICK k \in DOMAIN pending : pending[k] = t
    BY <1>11 DEF IsPending
  <2>2. k \in 1..p
    BY <1>2, <2>1
  <2>3. CASE k <= n
    <3>1. k + a \in (a + 1)..(a + n) /\ (k + a) - a = k
      BY <1>2, <1>3, <2>2, <2>3
    <3>2. k + a \in DOMAIN active'
      BY <1>2, <1>3, <1>6, <3>1
    <3>3. active'[k + a] = pending[k]
      BY <1>6, <3>1
    <3> QED
      BY <2>1, <3>2, <3>3 DEF IsActive
  <2>4. CASE k > n
    <3>1. k - n \in 1..(p - n) /\ (k - n) + n = k
      BY <1>2, <1>3, <2>2, <2>4
    <3> QED
      BY <1>5, <2>1, <3>1 DEF IsPending
  <2> QED
    BY <1>3, <2>2, <2>3, <2>4
<1>12. \A t : IsPending(t)' => IsPending(t)
  BY <1>5 DEF IsPending
<1>13. EndsKnown'
  <2>1. \A t \in DOMAIN untold : ~IsPending(t)
    BY DEF EndsKnown, IsPending
  <2>2. \A t \in DOMAIN untold : IsActive(t)' <=> IsActive(t)
    BY <1>9, <1>10, <2>1
  <2>3. \A i \in DOMAIN pending' : pending'[i] \notin DOMAIN untold
    BY <1>5 DEF EndsKnown
  <2> QED
    BY <1>1, <2>2, <2>3 DEF EndsKnown, Given
<1>14. TmuHolds'
  <2>1. \A t : IsActive(t)' \/ IsPending(t)' <=> IsActive(t) \/ IsPending(t)
    BY <1>9, <1>10, <1>11, <1>12
  <2>2. \A t : Owes(t, "tmu")' <=> Owes(t, "tmu")
    BY <1>1 DEF Owes
  <2> QED
    BY <1>1, <2>1, <2>2 DEF TmuHolds
<1>15. RingKnown'
  BY <1>1 DEF RingKnown, Reported, InRing
<1> QED
  BY <1>8, <1>13, <1>14, <1>15

(* A task that ends is active, and nobody was told of it.                  *)
LEMMA FinishKeeps ==
  ASSUME FrontInv, NEW t \in Ids, Finish(t)
  PROVE  FrontInv'
<1> USE DEF FrontInv
<1>1. /\ IsActive(t) /\ t \notin DOMAIN untold
      /\ DOMAIN untold' = DOMAIN untold \cup {t}
      /\ untold'[t] = {"queue", "tmu", "ring"}
      /\ \A x \in DOMAIN untold : untold'[x] = untold[x]
      /\ UNCHANGED <<nextId, cached, inflight, pending, active, ring, told>>
  BY DEF Finish, IsActive, ToSet
<1>2. QueueHolds'
  BY <1>1 DEF QueueHolds, Given
<1>3. t \in Given /\ \A j \in DOMAIN pending : pending[j] # t
  <2>1. PICK i \in DOMAIN active : active[i] = t
    BY <1>1 DEF IsActive
  <2>2. t \in Given /\ \A j \in DOMAIN pending : t < pending[j]
    BY <2>1 DEF QueueHolds
  <2>3. t \in Nat
    BY <2>2 DEF QueueHolds, Given
  <2> QED
    BY <2>2, <2>3
<1>4. EndsKnown'
  BY <1>1, <1>3 DEF EndsKnown, IsActive, Given
<1>5. TmuHolds'
  <2>1. \A x : (IsActive(x)' <=> IsActive(x)) /\ (IsPending(x)' <=> IsPending(x))
    BY <1>1 DEF IsActive, IsPending
  <2>2. \A x : x # t => (Owes(x, "tmu")' <=> Owes(x, "tmu"))
    BY <1>1 DEF Owes
  <2>3. Owes(t, "tmu")' /\ t \in cached
    BY <1>1 DEF Owes, TmuHolds
  <2> QED
    BY <1>1, <2>1, <2>2, <2>3 DEF TmuHolds
<1>6. RingKnown'
  <2>1. \A x : (Reported(x)' <=> Reported(x)) /\ (InRing(x)' <=> InRing(x))
    BY <1>1 DEF Reported, InRing
  <2> QED
    BY <1>1, <2>1 DEF RingKnown
<1> QED
  BY <1>2, <1>4, <1>5, <1>6

LEMMA TellIs ==
  ASSUME NEW t, NEW whom, Owes(t, whom), Tell(t, whom)
  PROVE  /\ t \in DOMAIN untold /\ DOMAIN untold' = DOMAIN untold
         /\ untold'[t] = untold[t] \ {whom}
         /\ \A x \in DOMAIN untold : x # t => untold'[x] = untold[x]
  BY DEF Owes, Tell

(* The first entry of an id goes; in an ascending queue it is the only one.*)
LEMMA RemoveFirstIs ==
  ASSUME NEW s \in Seq(Nat), NEW t, NEW k \in DOMAIN s, s[k] = t,
         \A i, j \in DOMAIN s : i < j => s[i] < s[j]
  PROVE  /\ RemoveFirst(s, t) \in Seq(Nat) /\ Len(RemoveFirst(s, t)) = Len(s) - 1
         /\ \A i \in 1..(Len(s) - 1) :
              RemoveFirst(s, t)[i] = IF i < k THEN s[i] ELSE s[i + 1]
<1>1. Len(s) \in Nat /\ DOMAIN s = 1..Len(s) /\ k \in 1..Len(s) /\ \A i \in 1..Len(s) : s[i] \in Nat
  OBVIOUS
<1>2. \A i \in 1..Len(s) : s[i] = t <=> i = k
  <2>1. ASSUME NEW i \in 1..Len(s), i # k  PROVE  s[i] # t
    <3>1. i < k \/ k < i
      BY <1>1, <2>1
    <3>2. s[i] < s[k] \/ s[k] < s[i]
      BY <1>1, <3>1
    <3> QED
      BY <1>1, <3>2
  <2> QED
    BY <2>1
<1>3. RemoveFirst(s, t) = SubSeq(s, 1, k - 1) \o SubSeq(s, k + 1, Len(s))
  <2>1. SelectInSeq(s, LAMBDA v : v = t) = k
    <3>1. {i \in 1..Len(s) : s[i] = t} = {k}
      BY <1>1, <1>2
    <3>2. (CHOOSE x \in {k} : \A y \in {k} : x <= y) = k
      BY <1>1
    <3> QED
      BY <3>1, <3>2 DEF SelectInSeq, Min
  <2>2. \E i \in 1..Len(s) : s[i] = t
    BY <1>1
  <2> QED
    BY <2>1, <2>2 DEF RemoveFirst, RemoveAt
<1> DEFINE a == SubSeq(s, 1, k - 1)
           b == SubSeq(s, k + 1, Len(s))
<1>4. a \in Seq(Nat) /\ Len(a) = k - 1 /\ \A i \in 1..(k - 1) : a[i] = s[i]
  <2>1. \A i \in 1..(k - 1) : s[i] \in Nat
    BY <1>1
  <2>2. /\ SubSeq(s, 1, k - 1) \in Seq(Nat)
        /\ Len(SubSeq(s, 1, k - 1)) = IF 1 <= k - 1 THEN (k - 1) - 1 + 1 ELSE 0
        /\ \A i \in 1..((k - 1) - 1 + 1) : SubSeq(s, 1, k - 1)[i] = s[1 + i - 1]
    BY <1>1, <2>1, SubSeqProperties
  <2>3. (k - 1) - 1 + 1 = k - 1 /\ (IF 1 <= k - 1 THEN (k - 1) - 1 + 1 ELSE 0) = k - 1
    BY <1>1
  <2>4. \A i \in 1..(k - 1) : 1 + i - 1 = i
    BY <1>1
  <2> QED
    BY <2>2, <2>3, <2>4
<1>5. b \in Seq(Nat) /\ Len(b) = Len(s) - k /\ \A i \in 1..(Len(s) - k) : b[i] = s[i + k]
  <2>1. k \in 0..Len(s)
    BY <1>1
  <2> QED
    BY <2>1, SuffixIs
<1> HIDE DEF a, b
<1>6. /\ a \o b \in Seq(Nat) /\ Len(a \o b) = Len(s) - 1
      /\ \A i \in 1..(Len(s) - 1) : (a \o b)[i] = IF i <= k - 1 THEN a[i] ELSE b[i - (k - 1)]
  <2>1. Len(a) + Len(b) = Len(s) - 1
    BY <1>1, <1>4, <1>5
  <2>2. /\ a \o b \in Seq(Nat) /\ Len(a \o b) = Len(a) + Len(b)
        /\ \A i \in 1..(Len(a) + Len(b)) : (a \o b)[i] = IF i <= Len(a) THEN a[i] ELSE b[i - Len(a)]
    BY <1>4, <1>5, ConcatProperties
  <2> QED
    BY <1>4, <2>1, <2>2
<1>7. ASSUME NEW i \in 1..(Len(s) - 1)
      PROVE  (a \o b)[i] = IF i < k THEN s[i] ELSE s[i + 1]
  <2>1. CASE i < k
    <3>1. i \in 1..(k - 1) /\ i <= k - 1
      BY <1>1, <2>1
    <3> QED
      BY <1>4, <1>6, <2>1, <3>1
  <2>2. CASE ~(i < k)
    <3>1. i - (k - 1) \in 1..(Len(s) - k) /\ ~(i <= k - 1) /\ (i - (k - 1)) + k = i + 1
      BY <1>1, <2>2
    <3> QED
      BY <1>5, <1>6, <2>2, <3>1
  <2> QED
    BY <2>1, <2>2
<1> QED
  BY <1>3, <1>6, <1>7 DEF a, b

(* The queue lets go of the task it is told of, and of no other.           *)
LEMMA QueueToldKeeps ==
  ASSUME FrontAssumption, FrontInv, NEW t \in Ids, QueueWarpComplete(t)
  PROVE  FrontInv'
<1> USE DEF FrontInv
<1>1. /\ Owes(t, "queue") /\ Tell(t, "queue")
      /\ active' = RemoveFirst(active, t)
      /\ UNCHANGED <<nextId, cached, inflight, pending, ring, told>>
  BY DEF QueueWarpComplete
<1>2. /\ t \in DOMAIN untold /\ "queue" \in untold[t] /\ DOMAIN untold' = DOMAIN untold
      /\ untold'[t] = untold[t] \ {"queue"}
      /\ \A x \in DOMAIN untold : x # t => untold'[x] = untold[x]
  BY <1>1, TellIs DEF Owes
<1>3. PICK k \in DOMAIN active : active[k] = t
  BY <1>2 DEF EndsKnown, IsActive
<1>4. /\ active \in Seq(Nat) /\ Len(active) \in Nat /\ DOMAIN active = 1..Len(active)
      /\ \A i, j \in DOMAIN active : i < j => active[i] < active[j]
      /\ \A i \in DOMAIN active : active[i] \in Nat
  BY DEF QueueHolds
<1>5. /\ active' \in Seq(Nat) /\ Len(active') = Len(active) - 1
      /\ \A i \in 1..(Len(active) - 1) :
           active'[i] = IF i < k THEN active[i] ELSE active[i + 1]
  <2>1. active[k] = t
    BY <1>3
  <2>2. /\ RemoveFirst(active, t) \in Seq(Nat) /\ Len(RemoveFirst(active, t)) = Len(active) - 1
        /\ \A i \in 1..(Len(active) - 1) :
             RemoveFirst(active, t)[i] = IF i < k THEN active[i] ELSE active[i + 1]
    <3>1. k \in DOMAIN active /\ \A i, j \in DOMAIN active : i < j => active[i] < active[j]
      BY <1>3, <1>4
    <3>2. active \in Seq(Nat)
      BY <1>4
    <3> HIDE DEF FrontInv
    <3> QED
      BY <2>1, <3>1, <3>2, RemoveFirstIs
  <2> QED
    BY <1>1, <2>2
<1>6. DOMAIN active' = 1..(Len(active) - 1)
  BY <1>5
<1> DEFINE at(i) == IF i < k THEN i ELSE i + 1
<1>7. ASSUME NEW i \in DOMAIN active'
      PROVE  at(i) \in DOMAIN active /\ at(i) # k /\ active'[i] = active[at(i)]
  <2>1. k \in 1..Len(active) /\ Len(active) \in Nat /\ i \in 1..(Len(active) - 1)
    BY <1>3, <1>4, <1>6
  <2>2. active'[i] = IF i < k THEN active[i] ELSE active[i + 1]
    BY <1>5, <2>1
  <2>3. at(i) \in 1..Len(active) /\ at(i) # k
    BY <2>1
  <2> QED
    BY <1>4, <2>2, <2>3
<1>8. \A i, j \in DOMAIN active' : i < j => at(i) < at(j)
  <2>1. k \in 1..Len(active) /\ Len(active) \in Nat
    BY <1>3, <1>4
  <2> QED
    BY <1>6, <2>1
<1> HIDE DEF at
<1>9. QueueHolds'
  <2>1. \A i \in DOMAIN active' : active'[i] \in Given'
    BY <1>1, <1>7 DEF QueueHolds, Given
  <2>2. \A i, j \in DOMAIN active' : i < j => active'[i] < active'[j]
    BY <1>4, <1>7, <1>8
  <2>3. \A i \in DOMAIN active', j \in DOMAIN pending : active'[i] < pending[j]
    BY <1>7 DEF QueueHolds
  <2>4. Len(active') <= Slots
    BY <1>4, <1>5 DEF QueueHolds, FrontAssumption
  <2> QED
    BY <1>1, <1>5, <2>1, <2>2, <2>3, <2>4 DEF QueueHolds, Given
<1>10. \A i \in DOMAIN active : i # k => active[i] # t
  <2>1. ASSUME NEW i \in DOMAIN active, i # k  PROVE  active[i] # t
    <3>1. i < k \/ k < i
      BY <1>3, <1>4, <2>1
    <3>2. active[i] < active[k] \/ active[k] < active[i]
      BY <1>3, <1>4, <3>1
    <3> QED
      BY <1>3, <1>4, <3>2
  <2> QED
    BY <2>1
<1>11. ~IsActive(t)'
  BY <1>7, <1>10 DEF IsActive
<1>12. ASSUME NEW x, x # t  PROVE  IsActive(x)' <=> IsActive(x)
  <2>1. IsActive(x)' => IsActive(x)
    BY <1>7 DEF IsActive
  <2>2. ASSUME IsActive(x)  PROVE  IsActive(x)'
    <3>1. PICK i \in DOMAIN active : active[i] = x
      BY <2>2 DEF IsActive
    <3>2. i # k
      BY <1>3, <1>12, <3>1
    <3>3. CASE i < k
      <4>1. i \in DOMAIN active' /\ at(i) = i
        BY <1>3, <1>4, <1>6, <3>3 DEF at
      <4> QED
        BY <1>7, <3>1, <4>1 DEF IsActive
    <3>4. CASE i > k
      <4>1. i - 1 \in DOMAIN active' /\ at(i - 1) = i
        BY <1>3, <1>4, <1>6, <3>4 DEF at
      <4> QED
        BY <1>7, <3>1, <4>1 DEF IsActive
    <3> QED
      BY <1>3, <1>4, <3>2, <3>3, <3>4
  <2> QED
    BY <2>1, <2>2
<1>13. EndsKnown'
  <2>1. \A x \in DOMAIN untold : IsActive(x)' <=> "queue" \in untold'[x]
    BY <1>2, <1>11, <1>12 DEF EndsKnown
  <2> QED
    BY <1>1, <1>2, <2>1 DEF EndsKnown, Given
<1>14. TmuHolds'
  <2>1. \A x : Owes(x, "tmu")' <=> Owes(x, "tmu")
    BY <1>2 DEF Owes
  <2>2. \A x : x \notin DOMAIN untold => (IsActive(x)' <=> IsActive(x))
    BY <1>2, <1>12
  <2>3. \A x : IsPending(x)' <=> IsPending(x)
    BY <1>1 DEF IsPending
  <2> QED
    BY <1>1, <1>2, <2>1, <2>2, <2>3 DEF TmuHolds
<1>15. RingKnown'
  <2>1. \A x : (Reported(x)' <=> Reported(x)) /\ (InRing(x)' <=> InRing(x))
    BY <1>1, <1>2 DEF Reported, InRing
  <2> QED
    BY <1>1, <2>1 DEF RingKnown
<1> QED
  BY <1>9, <1>13, <1>14, <1>15

(* The TMU lets go of the task it is told of, and counts it once.          *)
LEMMA TmuToldKeeps ==
  ASSUME FrontAssumption, FrontInv, NEW t \in Ids, TmuComplete(t)
  PROVE  FrontInv'
<1> USE DEF FrontInv
<1>1. /\ Owes(t, "tmu") /\ Tell(t, "tmu")
      /\ cached' = cached \ {t} /\ inflight' = inflight - Cardinality(cached \cap {t})
      /\ UNCHANGED <<nextId, pending, active, ring, told>>
  BY DEF TmuComplete
<1>2. /\ t \in DOMAIN untold /\ DOMAIN untold' = DOMAIN untold
      /\ untold'[t] = untold[t] \ {"tmu"}
      /\ \A x \in DOMAIN untold : x # t => untold'[x] = untold[x]
  BY <1>1, TellIs DEF Owes
<1>3. QueueHolds'
  BY <1>1 DEF QueueHolds, Given
<1>4. \A x : (IsActive(x)' <=> IsActive(x)) /\ (IsPending(x)' <=> IsPending(x))
  BY <1>1 DEF IsActive, IsPending
<1>5. EndsKnown'
  <2>1. \A x \in DOMAIN untold : "queue" \in untold'[x] <=> "queue" \in untold[x]
    BY <1>2
  <2> QED
    BY <1>1, <1>2, <1>4, <2>1 DEF EndsKnown, Given
<1>6. TmuHolds'
  <2>1. t \in cached /\ cached \cap {t} = {t}
    BY <1>1 DEF TmuHolds
  <2>2. IsFiniteSet(cached)
    <3>1. \A x : IsActive(x) \/ IsPending(x) => x \in Given
      BY DEF QueueHolds, IsActive, IsPending
    <3>2. cached \subseteq Given
      BY <3>1 DEF TmuHolds, EndsKnown, Owes
    <3>3. nextId \in Nat
      BY DEF QueueHolds, FrontAssumption
    <3>4. IsFiniteSet(1..(nextId - 1))
      BY <3>3, FS_Interval
    <3> QED
      BY <3>2, <3>4, FS_Subset DEF Given
  <2>3. /\ Cardinality(cached') = Cardinality(cached) - 1 /\ Cardinality(cached) \in Nat
        /\ Cardinality({t}) = 1
    BY <1>1, <2>1, <2>2, FS_RemoveElement, FS_CardinalityType, FS_Singleton
  <2>4. inflight' = Cardinality(cached') /\ inflight' <= MaxTasks
    <3>1. inflight' = inflight - 1
      BY <1>1, <2>1, <2>3
    <3>2. inflight = Cardinality(cached) /\ inflight <= MaxTasks /\ MaxTasks \in Nat
      BY DEF TmuHolds, FrontAssumption
    <3> QED
      BY <2>3, <3>1, <3>2
  <2>5. \A x : Owes(x, "tmu")' <=> (Owes(x, "tmu") /\ x # t)
    BY <1>2 DEF Owes
  <2> QED
    BY <1>1, <1>2, <1>4, <2>4, <2>5 DEF TmuHolds
<1>7. RingKnown'
  <2>1. \A x : (Reported(x)' <=> Reported(x)) /\ (InRing(x)' <=> InRing(x))
    BY <1>1, <1>2 DEF Reported, InRing
  <2> QED
    BY <1>1, <2>1 DEF RingKnown
<1> QED
  BY <1>3, <1>5, <1>6, <1>7

(* An entry is added at the end of the ring.                               *)
LEMMA RingGrows ==
  ASSUME NEW S, NEW s \in Seq(S), NEW t \in S, ~\E i \in DOMAIN s : s[i] = t,
         \A i, j \in DOMAIN s : s[i] = s[j] => i = j
  PROVE  LET r == Append(s, t)
         IN  /\ r \in Seq(S)
             /\ \A x : (\E i \in DOMAIN r : r[i] = x) <=> (\E i \in DOMAIN s : s[i] = x) \/ x = t
             /\ \A i, j \in DOMAIN r : r[i] = r[j] => i = j
<1> DEFINE r == Append(s, t)
<1>1. Len(s) \in Nat /\ DOMAIN s = 1..Len(s)
  OBVIOUS
<1>2. /\ r \in Seq(S) /\ DOMAIN r = 1..(Len(s) + 1) /\ r[Len(s) + 1] = t
      /\ \A i \in DOMAIN s : r[i] = s[i]
  BY <1>1, AppendProperties
<1> HIDE DEF r
<1>3. \A i \in DOMAIN r : i \in DOMAIN s \/ i = Len(s) + 1
  BY <1>1, <1>2
<1>4. DOMAIN s \subseteq DOMAIN r /\ Len(s) + 1 \in DOMAIN r
  BY <1>1, <1>2
<1>5. \A x : (\E i \in DOMAIN r : r[i] = x) <=> (\E i \in DOMAIN s : s[i] = x) \/ x = t
  BY <1>2, <1>3, <1>4
<1>6. \A i, j \in DOMAIN r : r[i] = r[j] => i = j
  BY <1>2, <1>3
<1> QED
  BY <1>2, <1>5, <1>6 DEF r

LEMMA RingToldKeeps ==
  ASSUME FrontAssumption, FrontInv, NEW t \in Ids, RingWarpComplete(t)
  PROVE  FrontInv'
<1> USE DEF FrontInv
<1>1. /\ Owes(t, "ring") /\ Tell(t, "ring") /\ ring' = Append(ring, t)
      /\ UNCHANGED <<nextId, cached, inflight, pending, active, told>>
  BY DEF RingWarpComplete
<1>2. /\ t \in DOMAIN untold /\ "ring" \in untold[t] /\ DOMAIN untold' = DOMAIN untold
      /\ untold'[t] = untold[t] \ {"ring"}
      /\ \A x \in DOMAIN untold : x # t => untold'[x] = untold[x]
  BY <1>1, TellIs DEF Owes
<1>3. QueueHolds'
  BY <1>1 DEF QueueHolds, Given
<1>4. \A x : (IsActive(x)' <=> IsActive(x)) /\ (IsPending(x)' <=> IsPending(x))
  BY <1>1 DEF IsActive, IsPending
<1>5. EndsKnown'
  <2>1. \A x \in DOMAIN untold : "queue" \in untold'[x] <=> "queue" \in untold[x]
    BY <1>2
  <2> QED
    BY <1>1, <1>2, <1>4, <2>1 DEF EndsKnown, Given
<1>6. TmuHolds'
  <2>1. \A x : Owes(x, "tmu")' <=> Owes(x, "tmu")
    BY <1>2 DEF Owes
  <2> QED
    BY <1>1, <1>2, <1>4, <2>1 DEF TmuHolds
<1>7. RingKnown'
  <2>1. told[t] = 0 /\ ~InRing(t) /\ ~Reported(t)
    BY <1>2 DEF RingKnown, Reported
  <2>2. /\ ring' \in Seq(Ids \cup Fences)
        /\ \A x : InRing(x)' <=> InRing(x) \/ x = t
        /\ \A i, j \in DOMAIN ring' : ring'[i] = ring'[j] => i = j
    BY <1>1, <2>1, RingGrows DEF RingKnown, InRing
  <2>3. Reported(t)' /\ \A x : x # t => (Reported(x)' <=> Reported(x))
    BY <1>2 DEF Reported
  <2>4. t \notin Fences
    BY DEF FrontAssumption
  <2> QED
    BY <1>1, <2>1, <2>2, <2>3, <2>4 DEF RingKnown
<1> QED
  BY <1>3, <1>5, <1>6, <1>7

(* The host hears of the first entry, which no other names.                *)
LEMMA NotifyKeeps ==
  ASSUME FrontAssumption, FrontInv, Notify
  PROVE  FrontInv'
<1> USE DEF FrontInv
<1>0. PICK h : h = Head(ring)
  OBVIOUS
<1>1. /\ ring # << >> /\ ring' = Tail(ring) /\ told' = [told EXCEPT ![h] = @ + 1]
      /\ UNCHANGED <<nextId, cached, inflight, pending, active, untold>>
  BY <1>0 DEF Notify
<1>2. QueueHolds' /\ EndsKnown' /\ TmuHolds'
  BY <1>1 DEF QueueHolds, EndsKnown, TmuHolds, Given, IsActive, IsPending, Owes
<1>3. /\ ring \in Seq(Ids \cup Fences) /\ Len(ring) \in Nat \ {0} /\ DOMAIN ring = 1..Len(ring)
      /\ h = ring[1] /\ h \in Ids \cup Fences
  BY <1>0, <1>1 DEF RingKnown
<1>4. /\ ring' \in Seq(Ids \cup Fences) /\ DOMAIN ring' = 1..(Len(ring) - 1)
      /\ \A i \in 1..(Len(ring) - 1) : ring'[i] = ring[i + 1]
  BY <1>1, <1>3, HeadTailProperties
<1>5. \A i \in DOMAIN ring' : i + 1 \in DOMAIN ring /\ i + 1 # 1
  BY <1>3, <1>4
<1>6. \A i \in DOMAIN ring : i = 1 \/ (i - 1 \in DOMAIN ring' /\ ring[i] = ring'[i - 1])
  BY <1>3, <1>4
<1>7. InRing(h) /\ ~InRing(h)'
  <2>1. 1 \in DOMAIN ring /\ ring[1] = h
    BY <1>3
  <2>2. ASSUME NEW i \in DOMAIN ring', ring'[i] = h  PROVE  FALSE
    <3>1. ring[i + 1] = ring[1] /\ i + 1 \in DOMAIN ring /\ i + 1 # 1
      BY <1>4, <1>5, <2>1, <2>2
    <3> QED
      BY <2>1, <3>1 DEF RingKnown
  <2> QED
    BY <2>1, <2>2 DEF InRing
<1>8. ASSUME NEW x, x # h  PROVE  InRing(x)' <=> InRing(x)
  <2>1. InRing(x)' => InRing(x)
    BY <1>4, <1>5 DEF InRing
  <2>2. InRing(x) => InRing(x)'
    BY <1>3, <1>6, <1>8 DEF InRing
  <2> QED
    BY <2>1, <2>2
<1>9. \A i, j \in DOMAIN ring' : ring'[i] = ring'[j] => i = j
  <2>1. ASSUME NEW i \in DOMAIN ring', NEW j \in DOMAIN ring', ring'[i] = ring'[j]  PROVE  i = j
    <3>1. i + 1 = j + 1
      BY <1>4, <1>5, <2>1 DEF RingKnown
    <3> QED
      BY <1>4, <3>1
  <2> QED
    BY <2>1
<1>10. /\ DOMAIN told' = Ids \cup Fences /\ told'[h] = told[h] + 1
       /\ \A x \in Ids \cup Fences : x # h => told'[x] = told[x]
  BY <1>1, <1>3 DEF RingKnown
<1>11. \A x : Reported(x)' <=> Reported(x)
  BY <1>1 DEF Reported
<1>12. RingKnown'
  <2>1. ASSUME NEW t \in Ids
        PROVE  \/ ~Reported(t)' /\ told'[t] = 0 /\ ~InRing(t)'
               \/ Reported(t)' /\ told'[t] = 0 /\ InRing(t)'
               \/ Reported(t)' /\ told'[t] = 1 /\ ~InRing(t)'
    <3>1. CASE t = h
      <4>1. Reported(t) /\ told[t] = 0
        BY <1>7, <3>1 DEF RingKnown
      <4> QED
        BY <1>7, <1>10, <1>11, <3>1, <4>1
    <3>2. CASE t # h
      BY <1>8, <1>10, <1>11, <3>2 DEF RingKnown
    <3> QED
      BY <3>1, <3>2
  <2>2. ASSUME NEW f \in Fences
        PROVE  \/ told'[f] \in {0, 2} /\ ~InRing(f)'
               \/ told'[f] = 1 /\ InRing(f)'
    <3>1. CASE f = h
      <4>1. told[f] = 1
        BY <1>7, <3>1 DEF RingKnown
      <4> QED
        BY <1>7, <1>10, <3>1, <4>1
    <3>2. CASE f # h
      BY <1>8, <1>10, <3>2 DEF RingKnown
    <3> QED
      BY <3>1, <3>2
  <2> QED
    BY <1>4, <1>9, <1>10, <2>1, <2>2 DEF RingKnown
<1> QED
  BY <1>2, <1>12

LEMMA PushKeeps ==
  ASSUME FrontAssumption, FrontInv, NEW f \in Fences, Push(f)
  PROVE  FrontInv'
<1> USE DEF FrontInv
<1>1. /\ told[f] = 0 /\ ring' = Append(ring, f) /\ told' = [told EXCEPT ![f] = 1]
      /\ UNCHANGED <<nextId, cached, inflight, pending, active, untold>>
  BY DEF Push
<1>2. QueueHolds' /\ EndsKnown' /\ TmuHolds'
  BY <1>1 DEF QueueHolds, EndsKnown, TmuHolds, Given, IsActive, IsPending, Owes
<1>3. ~InRing(f) /\ f \notin Ids
  BY <1>1 DEF RingKnown, FrontAssumption
<1>4. /\ ring' \in Seq(Ids \cup Fences)
      /\ \A x : InRing(x)' <=> InRing(x) \/ x = f
      /\ \A i, j \in DOMAIN ring' : ring'[i] = ring'[j] => i = j
  BY <1>1, <1>3, RingGrows DEF RingKnown, InRing
<1>5. /\ DOMAIN told' = Ids \cup Fences /\ told'[f] = 1
      /\ \A x \in Ids \cup Fences : x # f => told'[x] = told[x]
  BY <1>1 DEF RingKnown
<1>6. \A x : Reported(x)' <=> Reported(x)
  BY <1>1 DEF Reported
<1>7. RingKnown'
  BY <1>3, <1>4, <1>5, <1>6 DEF RingKnown
<1> QED
  BY <1>2, <1>7

LEMMA FrontInvHolds ==
  ASSUME FrontAssumption
  PROVE  FrontSpec => []FrontInv
<1>1. FrontInit => FrontInv
  BY FrontInitInv
<1>2. FrontInv /\ [FrontNext]_frontVars => FrontInv'
  <2> SUFFICES ASSUME FrontInv, [FrontNext]_frontVars PROVE FrontInv'
    OBVIOUS
  <2>1. CASE UNCHANGED <<nextId, cached, inflight, pending, active, untold, ring, told>>
    BY <2>1 DEF FrontInv, QueueHolds, EndsKnown, TmuHolds, RingKnown, Given, IsActive,
                IsPending, Owes, Reported, InRing
  <2>2. CASE Wake \/ Fetch \/ Decode \/ Complete \/ UNCHANGED frontVars
    BY <2>1, <2>2 DEF Wake, Fetch, Decode, Complete, frontVars
  <2> QED
    BY <2>2, DispatchKeeps, ActivateKeeps, NotifyKeeps, FinishKeeps, QueueToldKeeps,
       TmuToldKeeps, RingToldKeeps, PushKeeps DEF FrontNext
<1> QED
  BY <1>1, <1>2, PTL DEF FrontSpec

(* In whatever order a finished task is reported to the queue, to the TMU  *)
(* and to the ring, and however the processor, the queue and the ring run  *)
(* in between: the TMU holds and counts the tasks whose end it was not     *)
(* told, the queue keeps the order of dispatch and is never the one that   *)
(* refuses, and the host hears once of each task.                          *)
THEOREM TasksKept ==
  ASSUME FrontAssumption
  PROVE  FrontSpec => []TasksAccounted
<1>1. FrontInv => TasksHeld
  <2> SUFFICES ASSUME FrontInv PROVE TasksHeld
    OBVIOUS
  <2> USE DEF FrontInv
  <2> DEFINE queued   == active \o pending
             due(w)   == {t \in DOMAIN untold : w \in untold[t]}
             running  == {t \in ToSet(queued) : t \notin DOMAIN untold}
  <2>1. /\ active \in Seq(Nat) /\ Len(active) \in Nat /\ DOMAIN active = 1..Len(active)
        /\ pending \in Seq(Nat) /\ Len(pending) \in Nat /\ DOMAIN pending = 1..Len(pending)
    BY DEF QueueHolds
  <2>2. /\ queued \in Seq(Nat) /\ DOMAIN queued = 1..(Len(active) + Len(pending))
        /\ \A i \in 1..(Len(active) + Len(pending)) :
             queued[i] = IF i <= Len(active) THEN active[i] ELSE pending[i - Len(active)]
    BY <2>1, ConcatProperties
  <2> HIDE DEF queued
  <2>3. \A i \in DOMAIN queued : \/ i \in DOMAIN active /\ queued[i] = active[i]
                                 \/ i - Len(active) \in DOMAIN pending /\ i > Len(active)
                                    /\ queued[i] = pending[i - Len(active)]
    BY <2>1, <2>2
  <2>4. ASSUME NEW i \in DOMAIN queued, NEW j \in DOMAIN queued, i < j
        PROVE  queued[i] < queued[j]
    <3>1. CASE i \in DOMAIN active /\ j \in DOMAIN active
      BY <2>1, <2>2, <2>4, <3>1 DEF QueueHolds
    <3>2. CASE i \in DOMAIN active /\ j \notin DOMAIN active
      BY <2>1, <2>2, <2>3, <3>2 DEF QueueHolds
    <3>3. CASE i \notin DOMAIN active
      <4>1. /\ i - Len(active) \in DOMAIN pending /\ j - Len(active) \in DOMAIN pending
            /\ i - Len(active) < j - Len(active)
            /\ queued[i] = pending[i - Len(active)] /\ queued[j] = pending[j - Len(active)]
        <5>1. i > Len(active) /\ Len(active) \in Nat /\ j > i /\ i \in Nat /\ j \in Nat
          BY <2>1, <2>2, <2>4, <3>3
        <5>2. j \notin DOMAIN active
          BY <2>1, <5>1
        <5>3. i - Len(active) < j - Len(active)
          BY <5>1
        <5> QED
          BY <2>3, <3>3, <5>2, <5>3
      <4> QED
        BY <4>1 DEF QueueHolds
    <3> QED
      BY <3>1, <3>2, <3>3
  <2>5. \A t : t \in ToSet(queued) <=> IsActive(t) \/ IsPending(t)
    <3>1. ASSUME NEW t, t \in ToSet(queued)  PROVE  IsActive(t) \/ IsPending(t)
      BY <2>3, <3>1 DEF ToSet, IsActive, IsPending
    <3>2. ASSUME NEW t, IsActive(t)  PROVE  t \in ToSet(queued)
      <4>1. PICK i \in DOMAIN active : active[i] = t
        BY <3>2 DEF IsActive
      <4>2. i \in DOMAIN queued /\ queued[i] = t
        BY <2>1, <2>2, <4>1
      <4> QED
        BY <4>2 DEF ToSet
    <3>3. ASSUME NEW t, IsPending(t)  PROVE  t \in ToSet(queued)
      <4>1. PICK i \in DOMAIN pending : pending[i] = t
        BY <3>3 DEF IsPending
      <4>2. i + Len(active) \in 1..(Len(active) + Len(pending)) /\ ~(i + Len(active) <= Len(active))
            /\ (i + Len(active)) - Len(active) = i
        <5>1. Len(active) \in Nat /\ Len(pending) \in Nat /\ i \in 1..Len(pending)
          BY <2>1, <4>1
        <5> QED
          BY <5>1
      <4>3. i + Len(active) \in DOMAIN queued /\ queued[i + Len(active)] = t
        BY <2>2, <4>1, <4>2
      <4> QED
        BY <4>3 DEF ToSet
    <3> QED
      BY <3>1, <3>2, <3>3
  <2>6. Fifo >= MaxTasks /\ Full => Backpressured
    BY FullIsBusy
  <2>7. ToSet(queued) = running \cup due("queue")
    <3>1. \A t \in DOMAIN untold : ~IsPending(t)
      BY DEF EndsKnown, IsPending
    <3>2. \A t \in DOMAIN untold : t \in ToSet(queued) <=> "queue" \in untold[t]
      BY <2>5, <3>1 DEF EndsKnown
    <3> QED
      BY <3>2
  <2>8. cached = running \cup due("tmu")
    BY <2>5 DEF TmuHolds, Owes
  <2>9. /\ Len(active) <= Slots /\ Len(pending) <= Fifo
        /\ inflight = Cardinality(cached) /\ inflight <= MaxTasks
    BY DEF QueueHolds, TmuHolds
  <2> HIDE DEF FrontInv
  <2> QED
    BY <2>4, <2>6, <2>7, <2>8, <2>9 DEF TasksHeld, queued
<1>2. FrontInv => HostTold
  <2> SUFFICES ASSUME FrontInv PROVE HostTold
    OBVIOUS
  <2> DEFINE at(t) == {i \in DOMAIN ring : ring[i] = t}
  <2>1. ASSUME NEW t, InRing(t)  PROVE  Cardinality(at(t)) = 1
    <3>1. PICK i \in DOMAIN ring : ring[i] = t
      BY <2>1 DEF InRing
    <3>2. at(t) = {i}
      BY <3>1 DEF FrontInv, RingKnown
    <3> QED
      BY <3>2, FS_Singleton
  <2>2. ASSUME NEW t, ~InRing(t)  PROVE  Cardinality(at(t)) = 0
    <3>1. at(t) = {}
      BY <2>2 DEF InRing
    <3> QED
      BY <3>1, FS_EmptySet
  <2> HIDE DEF at
  <2>3. ASSUME NEW t \in Ids
        PROVE  told[t] + Cardinality(at(t)) = IF Reported(t) THEN 1 ELSE 0
    BY <2>1, <2>2 DEF FrontInv, RingKnown
  <2> QED
    BY <2>3 DEF HostTold, Reported, at
<1> QED
  BY <1>1, <1>2, FrontInvHolds, PTL DEF TasksAccounted

-----------------------------------------------------------------------------
(* GpuCore: the instructions from the ring to their completion.            *)
Waiting == {loads[k].id : k \in DOMAIN loads}
Oldest  == submitted - Len(instrRing)

(* The descriptors between what was fetched and what was submitted.        *)
RingHolds ==
  /\ submitted \in Nat /\ instrRing \in Seq(Nat) /\ Len(instrRing) <= submitted
  /\ \A k \in DOMAIN instrRing : instrRing[k] = Oldest + k

LoadSet == [id : Nat, left : Int]

(* Loads wait in the order of their fetch, the later ones untouched.       *)
LoadsWait(l, top) ==
  /\ l \in Seq(LoadSet)
  /\ \A k \in DOMAIN l : l[k].id \in 1..top
  /\ \A j, k \in DOMAIN l : j < k => l[j].id < l[k].id
  /\ \A k \in DOMAIN l : k # 1 => l[k].left = Latency

EndsHold ==
  /\ Waiting \subseteq ends /\ ends \subseteq 1..Oldest
  /\ completed = ends \ Waiting

FileHolds(file, done) ==
  /\ DOMAIN file = Regs
  /\ \A x \in Regs : file[x] # Unwritten => file[x] \in done /\ Program[file[x]].dst = x

(* What holds between two cycles.                                          *)
CoreInv == RingHolds /\ LoadsWait(loads, Oldest) /\ EndsHold /\ FileHolds(regs, completed)

(* What the proofs need of the constants.                                  *)
CoreAssumption == InstrRingSize \in Nat /\ Latency \in Int

LEMMA CoreInitInv == CoreInit => CoreInv
<1> SUFFICES ASSUME CoreInit PROVE CoreInv
  OBVIOUS
<1>1. loads = << >> /\ instrRing = << >> /\ submitted = 0 /\ completed = {} /\ ends = {}
  BY DEF CoreInit
<1>2. RingHolds
  BY <1>1 DEF RingHolds
<1>3. LoadsWait(loads, Oldest)
  BY <1>1 DEF LoadsWait
<1>4. EndsHold
  BY <1>1 DEF EndsHold, Waiting
<1>5. FileHolds(regs, completed)
  BY DEF CoreInit, FileHolds
<1> QED
  BY <1>2, <1>3, <1>4, <1>5 DEF CoreInv

(* A batch goes behind what the ring has; what is dropped is the oldest.   *)
LEMMA SubmitKeeps ==
  ASSUME CoreAssumption, CoreInv, NEW n \in 1..InstrRingSize, SetInstrDescriptorBuf(n)
  PROVE  CoreInv'
<1> DEFINE batch == [i \in 1..n |-> submitted + i]
           all   == instrRing \o batch
           kept  == IF Len(all) < InstrRingSize THEN Len(all) ELSE InstrRingSize
<1>1. /\ submitted' = submitted + n
      /\ instrRing' = SubSeq(all, Len(all) - kept + 1, Len(all))
      /\ UNCHANGED <<warp, loads, regs, completed, mask, ends>>
  BY DEF SetInstrDescriptorBuf
<1>2. n \in Nat \ {0} /\ submitted \in Nat /\ instrRing \in Seq(Nat) /\ Len(instrRing) \in Nat
        /\ Len(instrRing) <= submitted /\ InstrRingSize \in Nat
  BY DEF CoreAssumption, CoreInv, RingHolds
<1>3. batch \in Seq(Nat) /\ Len(batch) = n
  BY <1>2
<1>4. /\ all \in Seq(Nat) /\ Len(all) = Len(instrRing) + n
      /\ \A k \in 1..Len(all) : all[k] = Oldest + k
  <2>1. all \in Seq(Nat) /\ Len(all) = Len(instrRing) + n
    <3> HIDE DEF batch
    <3> QED
      BY <1>2, <1>3
  <2>2. ASSUME NEW k \in 1..Len(all)  PROVE  all[k] = Oldest + k
    <3>1. CASE k <= Len(instrRing)
      <4>1. all[k] = instrRing[k] /\ k \in DOMAIN instrRing
        <5> HIDE DEF batch
        <5> QED
          BY <1>2, <1>3, <2>1, <3>1
      <4> QED
        BY <4>1 DEF CoreInv, RingHolds
    <3>2. CASE k > Len(instrRing)
      <4>1. all[k] = batch[k - Len(instrRing)] /\ k - Len(instrRing) \in 1..n
        <5> HIDE DEF batch
        <5> QED
          BY <1>2, <1>3, <2>1, <3>2
      <4>2. batch[k - Len(instrRing)] = submitted + (k - Len(instrRing))
        BY <4>1
      <4> QED
        BY <1>2, <2>1, <4>1, <4>2 DEF Oldest
    <3> QED
      BY <1>2, <2>1, <3>1, <3>2
  <2> QED
    BY <2>1, <2>2
<1> HIDE DEF batch, all
<1>5. kept \in Nat /\ kept <= Len(all) /\ kept >= n /\ Len(all) \in Nat
  BY <1>2, <1>4
<1> HIDE DEF kept
<1>6. /\ instrRing' \in Seq(Nat) /\ Len(instrRing') = kept
      /\ \A k \in 1..kept : instrRing'[k] = all[Len(all) - kept + k]
  <2>1. \A k \in (Len(all) - kept + 1)..Len(all) : all[k] \in Nat
    BY <1>4, <1>5
  <2> QED
    BY <1>1, <1>4, <1>5, <2>1, SubSeqProperties
<1>7. Oldest' = Oldest + (Len(all) - kept) /\ Oldest \in Nat /\ Oldest' \in Nat /\ Oldest' >= Oldest
  <2>1. Oldest = submitted - Len(instrRing) /\ Oldest' = (submitted + n) - kept
    BY <1>1, <1>6 DEF Oldest
  <2> QED
    BY <1>2, <1>4, <1>5, <2>1
<1>8. RingHolds'
  <2>1. DOMAIN instrRing' = 1..kept
    BY <1>6
  <2>2. \A k \in 1..kept : instrRing'[k] = Oldest' + k
    <3>1. ASSUME NEW k \in 1..kept  PROVE  instrRing'[k] = Oldest' + k
      <4>1. Len(all) - kept + k \in 1..Len(all)
        BY <1>5
      <4>2. all[Len(all) - kept + k] = Oldest + (Len(all) - kept + k)
        BY <1>4, <4>1
      <4> QED
        BY <1>5, <1>6, <1>7, <4>2
    <3> QED
      BY <3>1
  <2>3. submitted' \in Nat /\ Len(instrRing') <= submitted'
    BY <1>1, <1>2, <1>4, <1>5, <1>6
  <2> QED
    BY <1>6, <2>1, <2>2, <2>3 DEF RingHolds
<1>9. LoadsWait(loads, Oldest)'
  BY <1>1, <1>7 DEF CoreInv, LoadsWait
<1>10. EndsHold'
  BY <1>1, <1>7 DEF CoreInv, EndsHold, Waiting
<1>11. FileHolds(regs, completed)'
  BY <1>1 DEF CoreInv, FileHolds
<1> QED
  BY <1>8, <1>9, <1>10, <1>11 DEF CoreInv

(* One tick of the loads: what is done is the first that waited.           *)
LoadIds(l) == {l[k].id : k \in DOMAIN l}

LEMMA LsuTickIs ==
  ASSUME NEW top \in Nat, LoadsWait(loads, top), Latency \in Int
  PROVE  /\ LoadsWait(LsuTick.loads, top)
         /\ LsuTick.done = Waiting \ LoadIds(LsuTick.loads)
         /\ LoadIds(LsuTick.loads) \subseteq Waiting
<1> USE DEF LoadIds, Waiting
<1>1. CASE loads = << >>
  BY <1>1 DEF LsuTick
<1>2. CASE loads # << >> /\ Head(loads).left = 1
  <2>1. LsuTick.loads = Tail(loads) /\ LsuTick.done = {Head(loads).id}
    BY <1>2 DEF LsuTick
  <2>2. /\ loads \in Seq(LoadSet) /\ Len(loads) \in Nat \ {0} /\ DOMAIN loads = 1..Len(loads)
        /\ Head(loads) = loads[1]
    BY <1>2 DEF LoadsWait
  <2>3. /\ Tail(loads) \in Seq(LoadSet) /\ DOMAIN Tail(loads) = 1..(Len(loads) - 1)
        /\ \A i \in 1..(Len(loads) - 1) : Tail(loads)[i] = loads[i + 1]
    BY <1>2, <2>2, HeadTailProperties
  <2>4. \A i \in 1..(Len(loads) - 1) : i + 1 \in DOMAIN loads /\ i + 1 # 1
    BY <2>2
  <2>5. LoadsWait(Tail(loads), top)
    <3>1. ASSUME NEW j \in 1..(Len(loads) - 1), NEW k \in 1..(Len(loads) - 1), j < k
          PROVE  Tail(loads)[j].id < Tail(loads)[k].id
      BY <2>2, <2>3, <2>4, <3>1 DEF LoadsWait
    <3> QED
      BY <2>3, <2>4, <3>1 DEF LoadsWait
  <2>6. \A k \in DOMAIN loads : k = 1 \/ (k - 1 \in 1..(Len(loads) - 1) /\ loads[k] = Tail(loads)[k - 1])
    BY <2>2, <2>3
  <2>7. \A k \in DOMAIN Tail(loads) : Tail(loads)[k].id # loads[1].id
    <3>1. ASSUME NEW k \in 1..(Len(loads) - 1)  PROVE  Tail(loads)[k].id # loads[1].id
      <4>1. 1 \in DOMAIN loads /\ k + 1 \in DOMAIN loads /\ 1 < k + 1
        BY <2>2
      <4>2. loads[1].id < loads[k + 1].id /\ loads[1].id \in Int
        BY <4>1 DEF LoadsWait
      <4> QED
        BY <2>3, <4>2
    <3> QED
      BY <2>3, <3>1
  <2>8. ASSUME NEW k \in DOMAIN Tail(loads)  PROVE  Tail(loads)[k].id \in Waiting
    BY <2>3, <2>4
  <2>9. ASSUME NEW x \in Waiting, x # loads[1].id  PROVE  x \in LoadIds(Tail(loads))
    <3>1. PICK k \in DOMAIN loads : x = loads[k].id
      OBVIOUS
    <3>2. k # 1 /\ k - 1 \in DOMAIN Tail(loads) /\ loads[k] = Tail(loads)[k - 1]
      BY <2>3, <2>6, <2>9, <3>1
    <3> QED
      BY <3>1, <3>2
  <2>10. loads[1].id \in Waiting /\ loads[1].id \notin LoadIds(Tail(loads))
    BY <2>2, <2>7
  <2>11. LoadIds(Tail(loads)) \subseteq Waiting
    BY <2>8
  <2> HIDE DEF LoadIds, Waiting
  <2>12. {loads[1].id} = Waiting \ LoadIds(Tail(loads))
    BY <2>9, <2>10
  <2> QED
    BY <2>1, <2>2, <2>5, <2>11, <2>12
<1>3. CASE loads # << >> /\ Head(loads).left # 1
  <2> DEFINE l == <<[Head(loads) EXCEPT !.left = @ - 1]>> \o Tail(loads)
  <2>1. LsuTick.loads = l /\ LsuTick.done = {}
    BY <1>3 DEF LsuTick
  <2>2. /\ loads \in Seq(LoadSet) /\ Len(loads) \in Nat \ {0} /\ DOMAIN loads = 1..Len(loads)
        /\ Head(loads) = loads[1] /\ loads[1] \in LoadSet
    BY <1>3 DEF LoadsWait
  <2>3. /\ Tail(loads) \in Seq(LoadSet) /\ Len(Tail(loads)) = Len(loads) - 1
        /\ \A i \in 1..(Len(loads) - 1) : Tail(loads)[i] = loads[i + 1]
    BY <1>3, <2>2, HeadTailProperties
  <2>4. /\ [Head(loads) EXCEPT !.left = @ - 1] \in LoadSet
        /\ [Head(loads) EXCEPT !.left = @ - 1].id = loads[1].id
    BY <2>2 DEF LoadSet
  <2>5. /\ l \in Seq(LoadSet) /\ Len(l) = Len(loads)
        /\ l[1].id = loads[1].id
        /\ \A i \in 2..Len(loads) : l[i] = loads[i]
    <3> DEFINE first == [Head(loads) EXCEPT !.left = @ - 1]
    <3>1. first \in LoadSet /\ first.id = loads[1].id
      BY <2>4
    <3> HIDE DEF first
    <3>2. <<first>> \in Seq(LoadSet) /\ Len(<<first>>) = 1 /\ <<first>>[1] = first
      BY <3>1
    <3>3. /\ <<first>> \o Tail(loads) \in Seq(LoadSet)
          /\ Len(<<first>> \o Tail(loads)) = Len(loads)
          /\ \A i \in 1..Len(loads) : (<<first>> \o Tail(loads))[i] =
               IF i <= 1 THEN <<first>>[i] ELSE Tail(loads)[i - 1]
      BY <2>2, <2>3, <3>2, ConcatProperties
    <3>4. l = <<first>> \o Tail(loads)
      BY DEF first
    <3> HIDE DEF l
    <3>5. l[1] = first
      BY <2>2, <3>2, <3>3, <3>4
    <3>6. ASSUME NEW i \in 2..Len(loads)  PROVE  l[i] = loads[i]
      <4>1. l[i] = Tail(loads)[i - 1] /\ i - 1 \in 1..(Len(loads) - 1) /\ (i - 1) + 1 = i
        BY <2>2, <3>3, <3>4
      <4> QED
        BY <2>3, <4>1
    <3> QED
      BY <3>1, <3>3, <3>4, <3>5, <3>6
  <2> HIDE DEF l
  <2>6. DOMAIN l = DOMAIN loads /\ \A k \in DOMAIN loads : l[k].id = loads[k].id
    BY <2>2, <2>5
  <2>7. LoadsWait(l, top)
    <3>1. \A k \in DOMAIN l : k # 1 => l[k].left = Latency
      BY <2>2, <2>5, <2>6 DEF LoadsWait
    <3> QED
      BY <2>5, <2>6, <3>1 DEF LoadsWait
  <2>8. LoadIds(l) = Waiting
    BY <2>6
  <2> QED
    BY <2>1, <2>7, <2>8
<1> QED
  BY <1>1, <1>2, <1>3


(* The fetch: the instruction is newer than all that ended or waits, and   *)
(* what it writes it has completed.                                        *)
LEMMA FetchKeeps ==
  ASSUME CoreAssumption, CoreInv, instrRing # << >>, ExeOnce
  PROVE  CoreInv'
<1> DEFINE n    == Head(instrRing)
           i    == Program[n]
           file == [x \in Regs |-> IF \E m \in LsuTick.done : Program[m].dst = x
                                   THEN CHOOSE m \in LsuTick.done : TRUE ELSE regs[x]]
           l    == LsuTick.loads
           done == LsuTick.done
<1>1. /\ instrRing' = Tail(instrRing) /\ submitted' = submitted
      /\ FetchAndExecute(n, LsuTick, file)
  BY DEF ExeOnce
<1>2. /\ loads' = IF Loads(i) THEN Append(l, [id |-> n, left |-> Latency]) ELSE l
      /\ regs' = IF i.pipe \in Immediate /\ i.ok THEN Written(file, n) ELSE file
      /\ completed' = completed \cup done \cup (IF NotesEnd(i) THEN {n} ELSE {})
      /\ ends' = ends \cup (IF NotesEnd(i) \/ Loads(i) THEN {n} ELSE {})
  BY <1>1 DEF FetchAndExecute
<1>3. /\ submitted \in Nat /\ instrRing \in Seq(Nat) /\ Len(instrRing) \in Nat \ {0}
      /\ Len(instrRing) <= submitted /\ Oldest \in Nat
  BY DEF CoreInv, RingHolds, Oldest
<1>4. n = Oldest + 1 /\ n \in Nat
  <2>1. n = instrRing[1] /\ 1 \in DOMAIN instrRing
    BY <1>3
  <2> QED
    BY <1>3, <2>1 DEF CoreInv, RingHolds
<1>5. /\ Tail(instrRing) \in Seq(Nat) /\ Len(Tail(instrRing)) = Len(instrRing) - 1
      /\ \A k \in 1..(Len(instrRing) - 1) : Tail(instrRing)[k] = instrRing[k + 1]
  BY <1>3, HeadTailProperties
<1>6. Oldest' = n
  BY <1>1, <1>3, <1>4, <1>5 DEF Oldest
<1>7. RingHolds'
  <2>1. DOMAIN instrRing' = 1..(Len(instrRing) - 1)
    BY <1>1, <1>3, <1>5
  <2>2. ASSUME NEW k \in 1..(Len(instrRing) - 1)  PROVE  instrRing'[k] = Oldest' + k
    <3>1. k + 1 \in DOMAIN instrRing
      BY <1>3
    <3>2. instrRing[k + 1] = Oldest + (k + 1)
      BY <3>1 DEF CoreInv, RingHolds
    <3> QED
      BY <1>1, <1>3, <1>4, <1>5, <1>6, <3>2
  <2> QED
    BY <1>1, <1>3, <1>5, <2>1, <2>2 DEF RingHolds
<1> HIDE DEF n, i, l, done
<1>8. /\ LoadsWait(l, Oldest) /\ done = Waiting \ LoadIds(l) /\ LoadIds(l) \subseteq Waiting
  BY <1>3, LsuTickIs DEF CoreInv, CoreAssumption, l, done
<1>9. /\ Waiting \subseteq ends /\ ends \subseteq 1..Oldest /\ completed = ends \ Waiting
  BY DEF CoreInv, EndsHold
<1>10. n \notin 1..Oldest
  BY <1>3, <1>4
<1>11. LoadsWait(loads, Oldest)' /\ Waiting' = IF Loads(i) THEN LoadIds(l) \cup {n} ELSE LoadIds(l)
  <2>1. CASE ~Loads(i)
    <3>1. loads' = l
      BY <1>2, <2>1
    <3> QED
      BY <1>3, <1>4, <1>6, <1>8, <2>1, <3>1 DEF LoadsWait, Waiting, LoadIds
  <2>2. CASE Loads(i)
    <3> DEFINE new == [id |-> n, left |-> Latency]
    <3>1. loads' = Append(l, new) /\ new \in LoadSet /\ new.id = n /\ new.left = Latency
      BY <1>2, <1>4, <2>2 DEF CoreAssumption, LoadSet
    <3> HIDE DEF new
    <3>2. /\ l \in Seq(LoadSet) /\ Len(l) \in Nat /\ DOMAIN l = 1..Len(l)
      BY <1>8 DEF LoadsWait
    <3>3. /\ loads' \in Seq(LoadSet) /\ DOMAIN loads' = 1..(Len(l) + 1)
          /\ \A k \in 1..Len(l) : loads'[k] = l[k]
          /\ loads'[Len(l) + 1] = new
      BY <3>1, <3>2, AppendProperties
    <3>4. \A k \in DOMAIN loads' : k \in DOMAIN l \/ k = Len(l) + 1
      BY <3>2, <3>3
    <3>5. ASSUME NEW k \in DOMAIN loads'  PROVE  loads'[k].id \in 1..n /\ (k # 1 => loads'[k].left = Latency)
      <4>1. CASE k \in DOMAIN l
        BY <1>3, <1>4, <1>8, <3>2, <3>3, <4>1 DEF LoadsWait
      <4>2. CASE k = Len(l) + 1
        BY <1>3, <1>4, <3>1, <3>3, <4>2
      <4> QED
        BY <3>4, <4>1, <4>2
    <3>6. ASSUME NEW j \in DOMAIN loads', NEW k \in DOMAIN loads', j < k
          PROVE  loads'[j].id < loads'[k].id
      <4>1. j \in DOMAIN l /\ loads'[j] = l[j]
        BY <3>2, <3>3, <3>6
      <4>2. CASE k \in DOMAIN l
        BY <1>8, <3>2, <3>3, <3>6, <4>1, <4>2 DEF LoadsWait
      <4>3. CASE k = Len(l) + 1
        <5>1. l[j].id \in 1..Oldest
          BY <1>8, <4>1 DEF LoadsWait
        <5> QED
          BY <1>3, <1>4, <3>1, <3>3, <4>1, <4>3, <5>1
      <4> QED
        BY <3>4, <4>2, <4>3
    <3>7. LoadsWait(loads', n)
      BY <3>3, <3>5, <3>6 DEF LoadsWait
    <3>8. {loads'[k].id : k \in DOMAIN loads'} = LoadIds(l) \cup {n}
      <4>1. \A k \in DOMAIN loads' : loads'[k].id \in LoadIds(l) \cup {n}
        BY <3>1, <3>2, <3>3, <3>4 DEF LoadIds
      <4>2. \A k \in DOMAIN l : k \in DOMAIN loads' /\ loads'[k].id = l[k].id
        BY <3>2, <3>3
      <4>3. Len(l) + 1 \in DOMAIN loads' /\ loads'[Len(l) + 1].id = n
        BY <3>1, <3>2, <3>3
      <4> QED
        BY <4>1, <4>2, <4>3 DEF LoadIds
    <3> QED
      BY <1>6, <2>2, <3>7, <3>8 DEF LoadsWait, Waiting
  <2> QED
    BY <2>1, <2>2
<1>12. ~(NotesEnd(i) /\ Loads(i))
  BY DEF NotesEnd, Loads
<1>13. EndsHold'
  <2>1. ends' \subseteq 1..n /\ n \in 1..n
    BY <1>2, <1>3, <1>4, <1>9
  <2>2. Waiting' \subseteq ends'
    BY <1>2, <1>8, <1>9, <1>11
  <2>3. completed' = ends' \ Waiting'
    <3>1. n \notin ends /\ n \notin Waiting /\ n \notin LoadIds(l)
      BY <1>8, <1>9, <1>10
    <3>2. CASE Loads(i)
      BY <1>2, <1>8, <1>9, <1>11, <1>12, <3>1, <3>2
    <3>3. CASE ~Loads(i)
      BY <1>2, <1>8, <1>9, <1>11, <3>1, <3>3
    <3> QED
      BY <3>2, <3>3
  <2> QED
    BY <1>6, <2>1, <2>2, <2>3 DEF EndsHold
<1>14. FileHolds(file, completed \cup done)
  <2>1. ASSUME NEW x \in Regs, file[x] # Unwritten
        PROVE  file[x] \in completed \cup done /\ Program[file[x]].dst = x
    <3>1. CASE \E m \in done : Program[m].dst = x
      <4>1. PICK m \in done : Program[m].dst = x
        BY <3>1
      <4>2. \A m1, m2 \in done : m1 = m2
        <5>1. done = {} \/ \E m1 : done = {m1}
          BY DEF done, LsuTick
        <5> QED
          BY <5>1
      <4>3. file[x] = CHOOSE y \in done : TRUE
        BY <3>1 DEF done
      <4>4. file[x] \in done
        BY <4>1, <4>3
      <4> QED
        BY <4>1, <4>2, <4>4
    <3>2. CASE ~\E m \in done : Program[m].dst = x
      <4>1. file[x] = regs[x]
        BY <3>2 DEF done
      <4> QED
        BY <2>1, <4>1 DEF CoreInv, FileHolds
    <3> QED
      BY <3>1, <3>2
  <2>2. DOMAIN file = Regs
    OBVIOUS
  <2> HIDE DEF file
  <2> QED
    BY <2>1, <2>2 DEF FileHolds
<1> HIDE DEF file
<1>15. FileHolds(regs, completed)'
  <2>1. completed \cup done \subseteq completed'
    BY <1>2
  <2>2. CASE i.pipe \in Immediate /\ i.ok
    <3>1. regs' = [file EXCEPT ![i.dst] = n] /\ n \in completed'
      BY <1>2, <2>2 DEF Written, i, NotesEnd, Immediate
    <3>2. DOMAIN regs' = Regs /\ \A x \in Regs : regs'[x] = IF x = i.dst THEN n ELSE file[x]
      BY <1>14, <3>1 DEF FileHolds
    <3> QED
      BY <1>14, <2>1, <3>1, <3>2 DEF FileHolds, i
  <2>3. CASE ~(i.pipe \in Immediate /\ i.ok)
    BY <1>2, <1>14, <2>1, <2>3 DEF FileHolds
  <2> QED
    BY <2>2, <2>3
<1> QED
  BY <1>7, <1>11, <1>13, <1>15 DEF CoreInv


(* A cycle without a fetch: only the first load goes on.                   *)
LEMMA DrainKeeps ==
  ASSUME CoreAssumption, CoreInv, instrRing = << >>, ExeOnce
  PROVE  CoreInv'
<1> DEFINE file == [x \in Regs |-> IF \E m \in LsuTick.done : Program[m].dst = x
                                   THEN CHOOSE m \in LsuTick.done : TRUE ELSE regs[x]]
           l    == LsuTick.loads
           done == LsuTick.done
<1>1. /\ loads' = l /\ regs' = file /\ completed' = completed \cup done
      /\ UNCHANGED <<submitted, instrRing, warp, mask, ends>>
  BY DEF ExeOnce
<1>2. Oldest \in Nat /\ Oldest' = Oldest
  BY <1>1 DEF CoreInv, RingHolds, Oldest
<1> HIDE DEF l, done
<1>3. /\ LoadsWait(l, Oldest) /\ done = Waiting \ LoadIds(l) /\ LoadIds(l) \subseteq Waiting
  BY <1>2, LsuTickIs DEF CoreInv, CoreAssumption, l, done
<1>4. RingHolds'
  BY <1>1, <1>2 DEF CoreInv, RingHolds
<1>5. LoadsWait(loads, Oldest)'
  BY <1>1, <1>2, <1>3 DEF LoadsWait
<1>6. EndsHold'
  <2>1. Waiting' = LoadIds(l)
    BY <1>1 DEF Waiting, LoadIds
  <2> QED
    BY <1>1, <1>2, <1>3, <2>1 DEF CoreInv, EndsHold
<1>7. FileHolds(regs, completed)'
  <2>1. ASSUME NEW x \in Regs, file[x] # Unwritten
        PROVE  file[x] \in completed \cup done /\ Program[file[x]].dst = x
    <3>1. CASE \E m \in done : Program[m].dst = x
      <4>1. PICK m \in done : Program[m].dst = x
        BY <3>1
      <4>2. \A m1, m2 \in done : m1 = m2
        <5>1. done = {} \/ \E m1 : done = {m1}
          BY DEF done, LsuTick
        <5> QED
          BY <5>1
      <4>3. file[x] = CHOOSE y \in done : TRUE
        BY <3>1 DEF done
      <4>4. file[x] \in done
        BY <4>1, <4>3
      <4> QED
        BY <4>1, <4>2, <4>4
    <3>2. CASE ~\E m \in done : Program[m].dst = x
      <4>1. file[x] = regs[x]
        BY <3>2 DEF done
      <4> QED
        BY <2>1, <4>1 DEF CoreInv, FileHolds
    <3> QED
      BY <3>1, <3>2
  <2>2. DOMAIN file = Regs
    OBVIOUS
  <2> HIDE DEF file
  <2> QED
    BY <1>1, <2>1, <2>2 DEF FileHolds
<1> QED
  BY <1>4, <1>5, <1>6, <1>7 DEF CoreInv

(* A new life: the loads of the old one are all that can still end.        *)
LEMMA InitializeKeeps ==
  ASSUME CoreInv, Initialize
  PROVE  CoreInv'
<1>1. /\ instrRing' = << >> /\ completed' = {} /\ ends' = Waiting
      /\ regs' = [x \in Regs |-> Unwritten] /\ UNCHANGED <<submitted, warp, loads, mask>>
  BY DEF Initialize, Waiting
<1>2. /\ Oldest \in Nat /\ Oldest' = submitted /\ Oldest' \in Nat /\ Oldest <= Oldest'
  BY <1>1 DEF CoreInv, RingHolds, Oldest
<1>3. RingHolds'
  BY <1>1 DEF CoreInv, RingHolds
<1>4. LoadsWait(loads, Oldest)'
  BY <1>1, <1>2 DEF CoreInv, LoadsWait
<1>5. EndsHold'
  <2>1. Waiting' = Waiting
    BY <1>1 DEF Waiting
  <2>2. Waiting \subseteq 1..Oldest
    BY DEF CoreInv, EndsHold
  <2> QED
    BY <1>1, <1>2, <2>1, <2>2 DEF EndsHold
<1>6. FileHolds(regs, completed)'
  BY <1>1 DEF FileHolds
<1> QED
  BY <1>3, <1>4, <1>5, <1>6 DEF CoreInv

LEMMA CoreInvHolds ==
  ASSUME CoreAssumption
  PROVE  CoreSpec => []CoreInv
<1>1. CoreInit => CoreInv
  BY CoreInitInv
<1>2. CoreInv /\ [CoreNext]_coreVars => CoreInv'
  <2> SUFFICES ASSUME CoreInv, [CoreNext]_coreVars PROVE CoreInv'
    OBVIOUS
  <2>1. CASE UNCHANGED coreVars
    BY <2>1 DEF coreVars, CoreInv, RingHolds, LoadsWait, EndsHold, FileHolds, Waiting, Oldest
  <2>2. CASE ExeOnce
    BY <2>2, FetchKeeps, DrainKeeps
  <2> QED
    BY <2>1, <2>2, SubmitKeeps, InitializeKeeps DEF CoreNext
<1> QED
  BY <1>1, <1>2, PTL DEF CoreSpec

(* For every program, ring and latency, also over new lives: every          *)
(* instruction that was fetched and notes its end completes once, the      *)
(* loads in the order of their fetch and none twice, and a register holds  *)
(* what a completed instruction wrote to it.                               *)
THEOREM InstructionsEndOnce ==
  ASSUME CoreAssumption
  PROVE  CoreSpec => []InstructionsAccounted
<1>1. CoreInv => InstructionsAccounted
  <2> SUFFICES ASSUME CoreInv PROVE InstructionsAccounted
    OBVIOUS
  <2>1. \A k \in DOMAIN instrRing : instrRing[k] = (submitted - Len(instrRing)) + k
    BY DEF CoreInv, RingHolds, Oldest
  <2>2. Oldest \in Nat
    BY DEF CoreInv, RingHolds, Oldest
  <2>3. \A x \in completed \cup {loads[k].id : k \in DOMAIN loads} : x <= submitted - Len(instrRing)
    BY <2>2 DEF CoreInv, EndsHold, Waiting, Oldest
  <2>4. completed = ends \ {loads[k].id : k \in DOMAIN loads}
    BY DEF CoreInv, EndsHold, Waiting
  <2>5. /\ \A j, k \in DOMAIN loads : j < k => loads[j].id < loads[k].id
        /\ \A k \in 2..Len(loads) : loads[k].left = Latency
    <3>1. loads \in Seq(LoadSet)
      BY DEF CoreInv, LoadsWait
    <3>2. \A k \in 2..Len(loads) : k \in DOMAIN loads /\ k # 1
      BY <3>1
    <3> QED
      BY <3>2 DEF CoreInv, LoadsWait
  <2>6. InstructionsEnd
    BY <2>1, <2>3, <2>4, <2>5 DEF InstructionsEnd
  <2>7. WritersCompleted
    BY DEF CoreInv, FileHolds, WritersCompleted
  <2> QED
    BY <2>6, <2>7 DEF InstructionsAccounted
<1> QED
  BY <1>1, CoreInvHolds, PTL
-----------------------------------------------------------------------------
(* The stores of the board: what was written last is read by every window *)
(* that reaches it.                                                        *)

(* What the configuration of the stores takes for granted: offsets are     *)
(* numbers, and the display's status register is none of its identity.     *)
StoresOk ==
  /\ Offsets \subseteq Nat
  /\ Protected \in Nat /\ Status \in Nat /\ Status > Protected

(* Without a SOC the board's pointers are null; the memory the devices     *)
(* took is one the board has; the display's identity is never stored.      *)
Pointed ==
  /\ socs \in Nat
  /\ soc = 0 => ptrs = 0
  /\ ~stale => ptrs \in {0, soc}

Viewed == view # None => vram.owner # "nobody" /\ (vram.owner = "board" => view = vram)

IdentityKept == \A k \in DOMAIN store : k[1] = "dispregs" => k[2] > Protected

StoresInv == Pointed /\ Viewed /\ IdentityKept /\ RoutesAgree /\ WindowsAgree

(* Writing a cell of a store of bytes or of an entry.                      *)
LEMMA StoredIs ==
  ASSUME NEW cells, NEW v
  PROVE  /\ cells \subseteq DOMAIN Stored(cells, v)
         /\ \A k \in cells : Stored(cells, v)[k] = v
         /\ DOMAIN Stored(cells, v) \subseteq DOMAIN store \cup cells
BY DEF Stored

(* The route of a read is one of those of a write.                         *)
LEMMA RouteTaken ==
  ASSUME NEW w \in Windows, NEW o, NEW n
  PROVE  ReadPlace(w, o, n) \in WritePlaces(w, o, n)
<1>1. CASE w = 0
  BY <1>1 DEF ReadPlace, WritePlaces, Windows, Back
<1>2. CASE w = 1
  <2>1. CASE ByStorage(o)
    <3>1. ReadPlace(w, o, n) = "vram"
      BY <1>2, <2>1 DEF ReadPlace, Back
    <3>2. WritePlaces(w, o, n) = {"vram", "regs"}
      BY <1>2, <2>1 DEF WritePlaces
    <3> QED BY <3>1, <3>2
  <2>2. CASE ~ByStorage(o)
    <3>1. ReadPlace(w, o, n) = "regs"
      BY <1>2, <2>2 DEF ReadPlace, Back
    <3>2. WritePlaces(w, o, n) = {"regs"}
      BY <1>2, <2>2 DEF WritePlaces
    <3> QED BY <3>1, <3>2
  <2> QED BY <2>1, <2>2
<1>3. CASE w = 2
  BY <1>3 DEF ReadPlace, WritePlaces, Windows, Back
<1>4. CASE w = Back
  BY <1>4 DEF ReadPlace, WritePlaces, Windows, Back
<1> QED BY <1>1, <1>2, <1>3, <1>4 DEF Windows

LEMMA CellsThere ==
  ASSUME NEW w, NEW place, NEW o \in Nat, NEW n \in {1, 2}
  PROVE  Cells(w, place, o, n) # {}
<1>1. o \in o..(o + n - 1)
  OBVIOUS
<1> QED BY <1>1 DEF Cells

(* After a write nothing of which was ignored, whatever place it took      *)
(* reads the number of the write.                                          *)
LEMMA WriteReads ==
  ASSUME StoresOk, NEW w \in Windows, NEW o \in Offsets, NEW n \in {1, 2}, Write(w, o, n),
         \A p \in WritePlaces(w, o, n) : ~Ignored(p, o),
         NEW p \in WritePlaces(w, o, n)
  PROVE  /\ Fits(p, o, n)
         /\ Cells(w, p, o, n) \subseteq DOMAIN store'
         /\ \A k \in Cells(w, p, o, n) : store'[k] = writes + 1
         /\ Cells(w, p, o, n) # {}
<1> DEFINE cells == UNION {Cells(w, q, o, n) : q \in {x \in WritePlaces(w, o, n) : ~Ignored(x, o)}}
<1>1. Cells(w, p, o, n) \subseteq cells
  OBVIOUS
<1>2. ~(Ignored("dispregs", o) /\ o = StatusClear /\ WritePlaces(w, o, n) = {"dispregs"})
  OBVIOUS
<1>3. store' = Stored(cells, writes + 1) /\ Fits(p, o, n)
  BY <1>2 DEF Write
<1>4. cells \subseteq DOMAIN store' /\ \A k \in cells : store'[k] = writes + 1
  BY <1>3, StoredIs
<1> QED BY <1>1, <1>3, <1>4, CellsThere DEF StoresOk

(* The routes depend on no store.                                          *)
LEMMA RoutesStand ==
  ASSUME UNCHANGED <<board, soc, socs, ptrs, stale, vram, view, shown, gated>>,
         NEW w, NEW o, NEW n
  PROVE  /\ ReadPlace(w, o, n)' = ReadPlace(w, o, n)
         /\ \A p : Fits(p, o, n)' = Fits(p, o, n)
         /\ \A p : Same(p)' = Same(p)
         /\ \A p : Cells(w, p, o, n)' = Cells(w, p, o, n)
<1>1. ReadPlace(w, o, n)' = ReadPlace(w, o, n)
  BY DEF ReadPlace, BackPlace, ByDisplay, ByMemory, ByCr, ByStorage, InWindow, Routing, HasVram
<1>2. \A p : Fits(p, o, n)' = Fits(p, o, n)
  BY DEF Fits, Inside
<1>3. \A p : Same(p)' = Same(p)
  BY DEF Same
<1>4. \A p : Cells(w, p, o, n)' = Cells(w, p, o, n)
  BY DEF Cells, Same
<1> QED BY <1>1, <1>2, <1>3, <1>4

LEMMA WriteAgrees ==
  ASSUME StoresOk, NEW w \in Windows, NEW o \in Offsets, NEW n \in {1, 2}, Write(w, o, n)
  PROVE  RoutesAgree' /\ WindowsAgree'
<1> SUFFICES ASSUME last' # None PROVE RoutesAgree' /\ WindowsAgree'
  BY DEF RoutesAgree, WindowsAgree
<1>1. UNCHANGED <<board, soc, socs, ptrs, stale, vram, view, shown, gated>>
  BY DEF Write
<1>2. /\ \A p \in WritePlaces(w, o, n) : ~Ignored(p, o)
      /\ last' = [w |-> w, o |-> o, n |-> n, v |-> writes + 1]
  BY DEF Write
<1> DEFINE mine == ReadPlace(w, o, n)
           cells == Cells(w, mine, o, n)
<1>3. /\ mine \in WritePlaces(w, o, n)
      /\ ReadPlace(w, o, n)' = mine
      /\ Fits(mine, o, n)' = Fits(mine, o, n)
      /\ Cells(w, mine, o, n)' = cells
  BY <1>1, RouteTaken, RoutesStand
<1>4. Fits(mine, o, n) /\ cells \subseteq DOMAIN store' /\ cells # {}
      /\ \A k \in cells : store'[k] = writes + 1
  BY <1>2, <1>3, WriteReads
<1>5. ReadBack(w, o, n)' = {store'[k] : k \in cells}
  BY <1>3, <1>4 DEF ReadBack
<1>6. {store'[k] : k \in cells} = {writes + 1}
  BY <1>4
<1>7. RoutesAgree'
  BY <1>2, <1>5, <1>6 DEF RoutesAgree
<1>8. WindowsAgree'
  <2> SUFFICES ASSUME NEW x \in Windows,
                      Same(mine) = "vram", Same(ReadPlace(x, o, n)) = "vram",
                      Fits(ReadPlace(x, o, n), o, n)
               PROVE  ReadBack(x, o, n)' = {writes + 1}
    <3>1. /\ last.w' = w /\ last.o' = o /\ last.n' = n /\ last.v' = writes + 1
      BY <1>2
    <3>2. /\ ReadPlace(w, o, n)' = mine
          /\ Same(mine)' = Same(mine)
          /\ \A x \in Windows :
               /\ ReadPlace(x, o, n)' = ReadPlace(x, o, n)
               /\ Same(ReadPlace(x, o, n))' = Same(ReadPlace(x, o, n))
               /\ Fits(ReadPlace(x, o, n), o, n)' = Fits(ReadPlace(x, o, n), o, n)
      BY <1>1, RoutesStand
    <3> QED BY <3>1, <3>2 DEF WindowsAgree
  <2> DEFINE other == ReadPlace(x, o, n)
  <2>1. \A p : Same(p) = "vram" => p \notin Keyed
    BY DEF Same, Keyed
  <2>2. Cells(x, other, o, n) = cells
    BY <2>1 DEF Cells
  <2>3. /\ ReadPlace(x, o, n)' = other
        /\ Fits(other, o, n)' = Fits(other, o, n)
        /\ Cells(x, other, o, n)' = cells
    BY <1>1, <2>2, RoutesStand
  <2>4. ReadBack(x, o, n)' = {store'[k] : k \in cells}
    BY <2>3, <1>4 DEF ReadBack
  <2> QED BY <2>4, <1>6
<1> QED BY <1>7, <1>8

LEMMA WriteIdentity ==
  ASSUME StoresOk, IdentityKept, NEW w \in Windows, NEW o \in Offsets, NEW n \in {1, 2},
         Write(w, o, n)
  PROVE  IdentityKept'
<1> DEFINE taken == {x \in WritePlaces(w, o, n) : ~Ignored(x, o)}
           cells == UNION {Cells(w, p, o, n) : p \in taken}
<1>1. ASSUME NEW k \in cells, k[1] = "dispregs" PROVE k[2] > Protected
  <2>1. PICK p \in taken : k \in Cells(w, p, o, n)
    OBVIOUS
  <2>2. p \notin Keyed
    BY <2>1, <1>1 DEF Cells, Keyed
  <2>3. PICK i \in o..(o + n - 1) : k = <<Same(p), i>>
    BY <2>1, <2>2 DEF Cells
  <2>4. p = "dispregs"
    BY <2>3, <1>1 DEF Same
  <2>5. o > Protected
    BY <2>4 DEF Ignored, StoresOk
  <2> QED BY <2>3, <2>5 DEF StoresOk
<1>2. \/ store' = Stored({<<"dispregs", Status>>}, 0)
      \/ store' = Stored(cells, writes + 1)
  BY DEF Write
<1>3. <<"dispregs", Status>>[2] > Protected
  BY DEF StoresOk
<1> QED BY <1>1, <1>2, <1>3, StoredIs DEF IdentityKept

LEMMA StoresInitInv == BoardInit => StoresInv
BY DEF BoardInit, StoresInv, Pointed, Viewed, IdentityKept, RoutesAgree, WindowsAgree, Nothing

(* An action after which no write is the last one.                         *)
LEMMA Unremembered ==
  ASSUME last' = None
  PROVE  RoutesAgree' /\ WindowsAgree'
BY DEF RoutesAgree, WindowsAgree

LEMMA StoresStep ==
  ASSUME StoresOk, StoresInv, [BoardNext]_storeVars
  PROVE  StoresInv'
<1> USE DEF StoresInv
<1>1. ASSUME NEW c \in Boards, Load(c) PROVE StoresInv'
  <2>1. Pointed'
    <3>1. CASE c.modules /\ soc # 0
      <4>1. stale' = (soc # 0) /\ soc' = socs + 1 /\ socs' = socs + 1
        BY <1>1, <3>1 DEF Load
      <4>2. stale' = TRUE
        BY <4>1, <3>1
      <4>3. socs' \in Nat /\ soc' # 0
        BY <4>1 DEF Pointed
      <4> QED BY <4>2, <4>3 DEF Pointed
    <3>2. CASE c.modules /\ soc = 0
      <4>1. ptrs' = 0 /\ socs' \in Nat /\ soc' # 0
        BY <1>1, <3>2 DEF Load, Pointed
      <4> QED BY <4>1 DEF Pointed
    <3>3. CASE ~c.modules
      BY <1>1, <3>3 DEF Load, Pointed
    <3> QED BY <3>1, <3>2, <3>3
  <2>2. Viewed' /\ IdentityKept'
    BY <1>1 DEF Load, Viewed, IdentityKept
  <2> QED BY <2>1, <2>2, <1>1, Unremembered DEF Load
<1>2. ASSUME Attach(2) PROVE StoresInv'
  <2>1. Pointed'
    BY <1>2 DEF Attach, Pointed
  <2>2. Viewed' /\ IdentityKept'
    BY <1>2 DEF Attach, Viewed, IdentityKept, Nothing
  <2> QED BY <2>1, <2>2, <1>2, Unremembered DEF Attach
<1>3. ASSUME InitBoard PROVE StoresInv'
  <2>1. Pointed'
    BY <1>3 DEF InitBoard, Pointed
  <2>2. Viewed'
    BY <1>3 DEF InitBoard, Viewed
  <2>3. IdentityKept'
    BY <1>3 DEF InitBoard, IdentityKept
  <2> QED BY <2>1, <2>2, <2>3, <1>3, Unremembered DEF InitBoard
<1>4. ASSUME DestroyBoard PROVE StoresInv'
  <2>1. Pointed' /\ Viewed'
    BY <1>4 DEF DestroyBoard, Pointed, Viewed
  <2>2. IdentityKept'
    BY <1>4 DEF DestroyBoard, IdentityKept
  <2> QED BY <2>1, <2>2, <1>4, Unremembered DEF DestroyBoard
<1>5. ASSUME UNCHANGED <<board, soc, socs, ptrs, stale, vram, view, shown, store, last>>
      PROVE StoresInv'
  <2>1. Pointed' /\ Viewed' /\ IdentityKept'
    BY <1>5 DEF Pointed, Viewed, IdentityKept
  <2>2. \A w, o, n : ReadBack(w, o, n)' = ReadBack(w, o, n)
    BY <1>5 DEF ReadBack, ReadPlace, BackPlace, ByDisplay, ByMemory, ByCr, ByStorage, InWindow,
                Routing, HasVram, Fits, Inside, Cells, Same
  <2>3. RoutesAgree'
    BY <1>5, <2>2 DEF RoutesAgree
  <2>4. \A w, o, n :
          /\ ReadPlace(w, o, n)' = ReadPlace(w, o, n)
          /\ Same(ReadPlace(w, o, n))' = Same(ReadPlace(w, o, n))
          /\ Fits(ReadPlace(w, o, n), o, n)' = Fits(ReadPlace(w, o, n), o, n)
    BY <1>5 DEF ReadPlace, BackPlace, ByDisplay, ByMemory, ByCr, ByStorage, InWindow, Routing,
                HasVram, Fits, Inside, Same
  <2>5. WindowsAgree'
    BY <1>5, <2>2, <2>4 DEF WindowsAgree
  <2> QED BY <2>1, <2>3, <2>5
<1>6. ASSUME Vblank PROVE StoresInv'
  <2>1. Pointed' /\ Viewed'
    BY <1>6 DEF Vblank, Pointed, Viewed
  <2>2. <<"dispregs", Status>>[2] > Protected
    BY DEF StoresOk
  <2>3. IdentityKept'
    BY <1>6, <2>2, StoredIs DEF Vblank, IdentityKept
  <2> QED BY <2>1, <2>3, <1>6, Unremembered DEF Vblank
<1>7. ASSUME NEW w \in Windows, NEW o \in Offsets, NEW n \in {1, 2}, Write(w, o, n)
      PROVE  StoresInv'
  <2>1. Pointed' /\ Viewed'
    BY <1>7 DEF Write, Pointed, Viewed
  <2> QED BY <2>1, <1>7, WriteAgrees, WriteIdentity
<1> QED
  BY <1>1, <1>2, <1>3, <1>4, <1>5, <1>6, <1>7 DEF BoardNext, Gate, storeVars

(* What a window wrote last it reads, and every other window that reaches  *)
(* the VRAM reads it too; pointers name devices that live; the identity of *)
(* the display is kept.  For any configurations of the board, offsets,     *)
(* registers and bounds.                                                   *)
THEOREM BoardStoresAgree ==
  ASSUME StoresOk
  PROVE  BoardSpec => []StoresAgree
<1>1. StoresInv => StoresAgree
  BY DEF StoresInv, StoresAgree, PointersLive, Pointed, Viewed, IdentityKept
<1> QED
  BY <1>1, StoresInitInv, StoresStep, PTL DEF BoardSpec
=============================================================================
