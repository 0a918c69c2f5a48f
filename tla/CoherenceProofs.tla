--------------------------- MODULE CoherenceProofs ---------------------------
(***************************************************************************)
(* Proofs about the CEP, for any number of nodes, lines and snoops: the    *)
(* answers of a snoop and what the trackers know of the holders of a line  *)
(* (SharerTracker), the directory that two MESIF engines keep              *)
(* (MesifEngine), the tables of the four families (CoherenceTables), the   *)
(* messages of the CHI requesting node (ChiRnfEngine), the values of the   *)
(* cache stub (StubCache), the collective planes (CollectivePlane) and the *)
(* counters of the other engines (CepEngines).                             *)
(***************************************************************************)
EXTENDS MesifEngine, CoherenceTables, ChiRnfEngine, StubCache,
        CollectivePlane, CepEngines,
        FiniteSetTheorems, SequenceTheorems, TLAPS

(* What a handle maps to; its fields one by one, so that a step can be     *)
(* followed field by field.                                                *)
MechSnoop == [addr : Addrs, expected : SUBSET Nodes, remaining : SUBSET Nodes,
           merged : SnoopState]

MechInv == MechTypeOK /\ HandleNamesOneSnoop /\ SomebodyAwaited

(* A merged state is a state.                                              *)
LEMMA JoinIsState ==
  ASSUME NEW cur \in SnoopState, NEW ans \in Answer
  PROVE  Join(cur, ans) \in SnoopState
<1>1. ans.state \in Int /\ ans.state \in SnoopState /\ cur \in Int
  BY DEF Answer, SnoopState, StateI, StateM
<1>2. Max({cur, ans.state}) \in {cur, ans.state}
  <2>1. \E x \in {cur, ans.state} : \A y \in {cur, ans.state} : x >= y
    BY <1>1
  <2> QED BY <2>1 DEF Max
<1> QED BY <1>1, <1>2 DEF Join, SnoopState, StateI, StateM

(* A snoop begins: the handle it draws is free by its choice.              *)
LEMMA BeginKeeps ==
  ASSUME MaxHandle \in Nat \ {0}, MechInv, NEW a \in Addrs,
         NEW r \in SUBSET Nodes, SnoopBegin(a, r)
  PROVE  MechInv'
<1>1. PICK h \in Probe :
        /\ inflight' = [k \in Live \cup {h} |->
             IF k = h THEN [addr |-> a, expected |-> r,
                            remaining |-> r, merged |-> StateI]
                      ELSE inflight[k]]
        /\ folded' = [k \in Live \cup {h} |-> IF k = h THEN {} ELSE folded[k]]
        /\ byAddr' = [b \in DOMAIN byAddr \cup {a} |-> IF b = a THEN h ELSE byAddr[b]]
        /\ next_handle' = Successor(h)
  BY DEF SnoopBegin
<1>2. h \in Handles /\ h \notin Live /\ a \notin DOMAIN byAddr
  BY DEF Probe, SnoopBegin
<1>3. Live' = Live \cup {h}
  BY <1>1 DEF Live
<1>4. MechTypeOK'
  <2>1. next_handle' \in Handles
    BY <1>1, <1>2 DEF Successor, Handles
  <2>2. StateI \in SnoopState
    BY DEF StateI, StateM, SnoopState
  <2>3. \A k \in Live' : inflight'[k] \in MechSnoop
    BY <1>1, <1>3, <2>2 DEF MechInv, MechTypeOK, MechSnoop
  <2> QED BY <1>1, <1>2, <1>3, <2>1, <2>3 DEF MechInv, MechTypeOK, MechSnoop
<1>5. HandleNamesOneSnoop'
  <2>1. \A b \in DOMAIN byAddr' : byAddr'[b] \in Live' /\ inflight'[byAddr'[b]].addr = b
    BY <1>1, <1>2, <1>3 DEF MechInv, HandleNamesOneSnoop
  <2>2. \A k \in Live' : inflight'[k].addr \in DOMAIN byAddr' /\ byAddr'[inflight'[k].addr] = k
    BY <1>1, <1>2, <1>3 DEF MechInv, HandleNamesOneSnoop
  <2> QED BY <2>1, <2>2 DEF HandleNamesOneSnoop
<1>6. SomebodyAwaited'
  <2>1. inflight'[h].remaining = inflight'[h].expected
    BY <1>1
  <2>2. \A k \in Live : k # h => inflight'[k] = inflight[k]
    BY <1>1
  <2> QED BY <1>3, <2>1, <2>2 DEF MechInv, SomebodyAwaited
<1> QED BY <1>4, <1>5, <1>6 DEF MechInv

(* A snoop is joined: it keeps its handle and its address, and waits for   *)
(* more.                                                                   *)
LEMMA JoinKeeps ==
  ASSUME MechInv, NEW a \in Addrs, NEW r \in SUBSET Nodes, SnoopJoin(a, r)
  PROVE  MechInv'
<1> DEFINE h == byAddr[a]
           added == r \ inflight[h].expected
           s == inflight[h]
<1>1. a \in DOMAIN byAddr /\ h \in Live /\ s \in MechSnoop
  BY DEF SnoopJoin, MechInv, MechTypeOK, HandleNamesOneSnoop, MechSnoop
<1>2. inflight' = [inflight EXCEPT ![h] =
                     [s EXCEPT !.expected = @ \cup r, !.remaining = @ \cup added]]
  BY <1>1 DEF SnoopJoin, Live
<1>3. Live' = Live /\ UNCHANGED <<byAddr, next_handle, folded>>
  BY <1>1, <1>2 DEF SnoopJoin, Live
<1>4. \A k \in Live : k # h => inflight'[k] = inflight[k]
  BY <1>2 DEF Live
<1>5. /\ inflight'[h] \in MechSnoop /\ inflight'[h].addr = s.addr
      /\ inflight'[h].remaining = s.remaining \cup added
      /\ added # {}
  BY <1>1, <1>2 DEF Live, MechSnoop, SnoopJoin
<1> HIDE DEF h, added, s
<1>6. MechTypeOK'
  BY <1>1, <1>3, <1>4, <1>5 DEF MechInv, MechTypeOK, MechSnoop
<1>7. HandleNamesOneSnoop'
  BY <1>1, <1>3, <1>4, <1>5 DEF MechInv, HandleNamesOneSnoop, s
<1>8. SomebodyAwaited'
  BY <1>1, <1>3, <1>4, <1>5 DEF MechInv, SomebodyAwaited, s
<1> QED BY <1>6, <1>7, <1>8 DEF MechInv

(* An answer: the last one ends the snoop, any other leaves somebody       *)
(* awaited.                                                                *)
LEMMA FoldKeeps ==
  ASSUME MechInv, NEW h \in Handles, NEW ans \in Answer, SnoopFold(h, ans)
  PROVE  MechInv'
<1> DEFINE s == inflight[h]
           left == s.remaining \ {ans.node}
<1>1. h \in Live /\ s \in MechSnoop /\ next_handle' = next_handle
  BY DEF SnoopFold, MechInv, MechTypeOK, MechSnoop
<1>2. CASE left = {}
  <2>1. /\ inflight' = Restrict(inflight, Live \ {h})
        /\ folded' = Restrict(folded, Live \ {h})
        /\ byAddr' = Restrict(byAddr, DOMAIN byAddr \ {s.addr})
    BY <1>2 DEF SnoopFold
  <2>2. /\ Live' = Live \ {h} /\ DOMAIN folded' = Live \ {h}
        /\ \A k \in Live' : inflight'[k] = inflight[k]
        /\ DOMAIN byAddr' = DOMAIN byAddr \ {s.addr}
        /\ \A b \in DOMAIN byAddr' : byAddr'[b] = byAddr[b]
    BY <2>1 DEF Restrict, Live
  <2>3. MechTypeOK'
    BY <1>1, <2>2 DEF MechInv, MechTypeOK
  <2>4. HandleNamesOneSnoop'
    <3>1. byAddr[s.addr] = h
      BY <1>1 DEF MechInv, HandleNamesOneSnoop
    <3>2. \A b \in DOMAIN byAddr' : byAddr'[b] \in Live' /\ inflight'[byAddr'[b]].addr = b
      BY <2>2 DEF MechInv, HandleNamesOneSnoop
    <3>3. \A k \in Live' : inflight'[k].addr \in DOMAIN byAddr' /\ byAddr'[inflight'[k].addr] = k
      BY <2>2, <3>1 DEF MechInv, HandleNamesOneSnoop
    <3> QED BY <3>2, <3>3 DEF HandleNamesOneSnoop
  <2>5. SomebodyAwaited'
    BY <2>2 DEF MechInv, SomebodyAwaited
  <2> QED BY <2>3, <2>4, <2>5 DEF MechInv
<1>3. CASE left # {}
  <2> DEFINE m == IF ans.node \in s.remaining THEN Join(s.merged, ans) ELSE s.merged
  <2>1. inflight' = [inflight EXCEPT ![h] = [s EXCEPT !.remaining = left, !.merged = m]]
    BY <1>1, <1>3 DEF SnoopFold, Live
  <2>2. byAddr' = byAddr /\ DOMAIN folded' = DOMAIN folded
    BY <1>3 DEF SnoopFold
  <2>3. m \in SnoopState
    BY <1>1, JoinIsState DEF MechSnoop
  <2> HIDE DEF m
  <2>4. Live' = Live /\ \A k \in Live : k # h => inflight'[k] = inflight[k]
    BY <2>1 DEF Live
  <2>5. /\ inflight'[h] \in MechSnoop /\ inflight'[h].addr = s.addr
        /\ inflight'[h].remaining = left
    BY <1>1, <2>1, <2>3 DEF Live, MechSnoop
  <2> HIDE DEF left, s
  <2>6. MechTypeOK'
    BY <1>1, <2>2, <2>4, <2>5 DEF MechInv, MechTypeOK, MechSnoop
  <2>7. HandleNamesOneSnoop'
    BY <1>1, <2>2, <2>4, <2>5 DEF MechInv, HandleNamesOneSnoop, s
  <2>8. SomebodyAwaited'
    BY <1>3, <2>4, <2>5 DEF MechInv, SomebodyAwaited
  <2> QED BY <2>6, <2>7, <2>8 DEF MechInv
<1> QED BY <1>2, <1>3

-----------------------------------------------------------------------------
(* The answers a live snoop took are of nodes it expected.                 *)
FoldedTyped ==
  \A h \in Live : /\ folded[h] \subseteq Answer
                  /\ \A x \in folded[h] : x.node \in inflight[h].expected

MergeInv == MechInv /\ FoldedTyped /\ MergeIsOrderFree

(* What answers merge to, whatever the order they come in.                 *)
MergeOf(first) ==
  IF \E x \in first : x.data THEN StateM
  ELSE Max({x.state : x \in first} \cup {StateI})

(* The largest state of a set is one of it, and the one none exceeds.      *)
LEMMA LargestState ==
  ASSUME NEW T \in SUBSET SnoopState, T # {}
  PROVE  /\ Max(T) \in T /\ \A y \in T : Max(T) >= y
         /\ \A m \in T : (\A y \in T : m >= y) => Max(T) = m
<1>1. \A y \in T : y \in Int
  BY DEF SnoopState, StateI, StateM
<1>2. \E x \in T : \A y \in T : x >= y
  <2>1. \A y \in T : y = 0 \/ y = 1 \/ y = 2 \/ y = 3
    <3>1. \A y \in 0..3 : y = 0 \/ y = 1 \/ y = 2 \/ y = 3
      OBVIOUS
    <3>2. SnoopState = 0..3
      BY DEF SnoopState, StateI, StateM
    <3> QED BY <3>1, <3>2
  <2>2. CASE 3 \in T
    BY <2>1, <2>2
  <2>3. CASE 3 \notin T /\ 2 \in T
    BY <2>1, <2>3
  <2>4. CASE 3 \notin T /\ 2 \notin T /\ 1 \in T
    BY <2>1, <2>4
  <2>5. CASE 3 \notin T /\ 2 \notin T /\ 1 \notin T
    BY <2>1, <2>5
  <2> QED BY <2>2, <2>3, <2>4, <2>5
<1>3. Max(T) \in T /\ \A y \in T : Max(T) >= y
  BY <1>2 DEF Max
<1>4. \A m \in T : (\A y \in T : m >= y) => Max(T) = m
  BY <1>1, <1>3
<1> QED BY <1>3, <1>4

(* One answer more, folded into what the earlier ones made.                *)
LEMMA MergeAdds ==
  ASSUME NEW first \in SUBSET Answer, NEW ans \in Answer
  PROVE  Join(MergeOf(first), ans) = MergeOf(first \cup {ans})
<1> DEFINE T == {x.state : x \in first} \cup {StateI}
           U == {x.state : x \in first \cup {ans}} \cup {StateI}
<1>1. /\ T \subseteq SnoopState /\ T # {} /\ U = T \cup {ans.state}
      /\ ans.state \in SnoopState /\ ans.data \in BOOLEAN
  BY DEF Answer, SnoopState, StateI, StateM
<1>2. CASE ans.data
  BY <1>2 DEF Join, MergeOf
<1>3. CASE ~ans.data /\ \E x \in first : x.data
  <2>1. MergeOf(first) = StateM /\ MergeOf(first \cup {ans}) = StateM
    BY <1>3 DEF MergeOf
  <2>2. {StateM, ans.state} \subseteq SnoopState /\ \A y \in {StateM, ans.state} : StateM >= y
    BY <1>1 DEF SnoopState, StateI, StateM
  <2>3. Max({StateM, ans.state}) = StateM
    BY <2>2, LargestState
  <2> QED BY <1>3, <2>1, <2>3 DEF Join
<1>4. CASE ~ans.data /\ ~\E x \in first : x.data
  <2>1. MergeOf(first) = Max(T) /\ MergeOf(first \cup {ans}) = Max(U)
    BY <1>4 DEF MergeOf
  <2> HIDE DEF T, U
  <2>2. Max(T) \in T /\ \A y \in T : Max(T) >= y
    BY <1>1, LargestState
  <2> DEFINE V == {Max(T), ans.state}
  <2>3. V \subseteq SnoopState /\ V # {} /\ V \subseteq U
    BY <1>1, <2>2
  <2>4. Max(V) \in V /\ \A y \in V : Max(V) >= y
    BY <2>3, LargestState
  <2>5. \A y \in U : Max(V) >= y
    <3>1. \A y \in U : y \in Int /\ Max(V) \in Int /\ Max(T) \in Int
      BY <1>1, <2>2, <2>3, <2>4 DEF SnoopState, StateI, StateM
    <3> QED BY <1>1, <2>2, <2>4, <3>1
  <2>6. Max(U) = Max(V)
    BY <1>1, <2>3, <2>4, <2>5, LargestState
  <2> QED BY <1>4, <2>1, <2>6 DEF Join
<1> QED BY <1>1, <1>2, <1>3, <1>4

(* The same three for what the answers merged to.                          *)
LEMMA BeginMerges ==
  ASSUME MergeInv, NEW a \in Addrs, NEW r \in SUBSET Nodes, SnoopBegin(a, r)
  PROVE  (FoldedTyped /\ MergeIsOrderFree)'
<1>1. PICK h \in Probe :
        /\ inflight' = [k \in Live \cup {h} |->
             IF k = h THEN [addr |-> a, expected |-> r,
                            remaining |-> r, merged |-> StateI]
                      ELSE inflight[k]]
        /\ folded' = [k \in Live \cup {h} |-> IF k = h THEN {} ELSE folded[k]]
  BY DEF SnoopBegin
<1>2. Live' = Live \cup {h} /\ h \notin Live
  BY <1>1 DEF Live, Probe
<1>3. Max({StateI}) = StateI
  BY LargestState DEF SnoopState, StateI, StateM
<1>4. \A k \in Live : inflight'[k] = inflight[k] /\ folded'[k] = folded[k]
  BY <1>1, <1>2
<1>5. /\ folded'[h] = {} /\ inflight'[h].merged = StateI
      /\ inflight'[h].remaining = inflight'[h].expected
  BY <1>1
<1>6. FoldedTyped'
  BY <1>2, <1>4, <1>5 DEF MergeInv, FoldedTyped
<1>7. MergeIsOrderFree'
  <2> SUFFICES ASSUME NEW k \in Live'
               PROVE  /\ inflight'[k].merged = MergeOf(folded'[k])
                      /\ \A x, y \in folded'[k] : x.node = y.node => x = y
                      /\ inflight'[k].remaining =
                           inflight'[k].expected \ {x.node : x \in folded'[k]}
    BY DEF MergeIsOrderFree, MergeOf
  <2>1. CASE k = h
    <3>1. {x.state : x \in folded'[h]} \cup {StateI} = {StateI}
      BY <1>5
    <3> QED BY <1>3, <1>5, <2>1, <3>1 DEF MergeOf
  <2>2. CASE k # h
    BY <1>2, <1>4, <2>2 DEF MergeInv, MergeIsOrderFree, MergeOf
  <2> QED BY <2>1, <2>2
<1> QED BY <1>6, <1>7

(* Who joins is awaited: nobody who answered is awaited again.             *)
LEMMA JoinMerges ==
  ASSUME MergeInv, NEW a \in Addrs, NEW r \in SUBSET Nodes, SnoopJoin(a, r)
  PROVE  (FoldedTyped /\ MergeIsOrderFree)'
<1> DEFINE h == byAddr[a]
           added == r \ inflight[h].expected
           s == inflight[h]
<1>1. a \in DOMAIN byAddr /\ h \in Live /\ s \in MechSnoop
  BY DEF SnoopJoin, MergeInv, MechInv, MechTypeOK, HandleNamesOneSnoop, MechSnoop
<1>2. /\ inflight' = [inflight EXCEPT ![h] =
                       [s EXCEPT !.expected = @ \cup r, !.remaining = @ \cup added]]
      /\ folded' = folded
  BY <1>1 DEF SnoopJoin, Live
<1>3. Live' = Live /\ \A k \in Live : k # h => inflight'[k] = inflight[k]
  BY <1>2 DEF Live
<1>4. /\ inflight'[h].expected = s.expected \cup r
      /\ inflight'[h].remaining = s.remaining \cup added
      /\ inflight'[h].merged = s.merged
  BY <1>1, <1>2 DEF Live, MechSnoop
<1>5. FoldedTyped'
  BY <1>1, <1>2, <1>3, <1>4 DEF MergeInv, FoldedTyped
<1>6. MergeIsOrderFree'
  <2> SUFFICES ASSUME NEW k \in Live'
               PROVE  /\ inflight'[k].merged = MergeOf(folded'[k])
                      /\ \A x, y \in folded'[k] : x.node = y.node => x = y
                      /\ inflight'[k].remaining =
                           inflight'[k].expected \ {x.node : x \in folded'[k]}
    BY DEF MergeIsOrderFree, MergeOf
  <2>1. /\ inflight[k].merged = MergeOf(folded[k])
        /\ \A x, y \in folded[k] : x.node = y.node => x = y
        /\ inflight[k].remaining = inflight[k].expected \ {x.node : x \in folded[k]}
    BY <1>3 DEF MergeInv, MergeIsOrderFree, MergeOf
  <2>2. CASE k = h
    <3>1. {x.node : x \in folded[h]} \subseteq s.expected
      BY <1>1 DEF MergeInv, FoldedTyped
    <3>2. s.remaining \cup added = (s.expected \cup r) \ {x.node : x \in folded[h]}
      BY <2>1, <2>2, <3>1
    <3> HIDE DEF h, s, added
    <3> QED BY <1>2, <1>4, <2>1, <2>2, <3>2 DEF s
  <2>3. CASE k # h
    BY <1>2, <1>3, <2>1, <2>3
  <2> QED BY <2>2, <2>3
<1> QED BY <1>5, <1>6

(* An answer that is awaited is folded in, any other is not.               *)
LEMMA FoldMerges ==
  ASSUME MergeInv, NEW h \in Handles, NEW ans \in Answer, SnoopFold(h, ans)
  PROVE  (FoldedTyped /\ MergeIsOrderFree)'
<1> DEFINE s == inflight[h]
           left == s.remaining \ {ans.node}
           first == ans.node \in s.remaining
<1>1. h \in Live /\ s \in MechSnoop
  BY DEF SnoopFold, MergeInv, MechInv, MechTypeOK, MechSnoop
<1>2. CASE left = {}
  <2>1. /\ inflight' = Restrict(inflight, Live \ {h})
        /\ folded' = Restrict(folded, Live \ {h})
    BY <1>2 DEF SnoopFold
  <2>2. /\ Live' = Live \ {h}
        /\ \A k \in Live' : inflight'[k] = inflight[k] /\ folded'[k] = folded[k]
    BY <2>1 DEF Restrict, Live
  <2> QED BY <2>2 DEF MergeInv, FoldedTyped, MergeIsOrderFree
<1>3. CASE left # {}
  <2> DEFINE m == IF first THEN Join(s.merged, ans) ELSE s.merged
             f == IF first THEN folded[h] \cup {ans} ELSE folded[h]
  <2>1. /\ inflight' = [inflight EXCEPT ![h] = [s EXCEPT !.remaining = left, !.merged = m]]
        /\ \A k \in Live : folded'[k] = IF k = h THEN f ELSE folded[k]
    <3>1. DOMAIN folded = Live
      BY DEF MergeInv, MechInv, MechTypeOK
    <3>2. inflight' = [inflight EXCEPT ![h] = [s EXCEPT !.remaining = left, !.merged = m]]
      BY <1>1, <1>3 DEF SnoopFold, Live
    <3>3. CASE first
      <4>1. folded' = [folded EXCEPT ![h] = f]
        BY <1>3, <3>3 DEF SnoopFold
      <4> HIDE DEF f, m, s, first
      <4> QED BY <1>1, <3>1, <3>2, <4>1
    <3>4. CASE ~first
      <4>1. folded' = folded
        BY <1>3, <3>4 DEF SnoopFold
      <4> QED BY <3>2, <3>4, <4>1
    <3> QED BY <3>3, <3>4
  <2>2. /\ Live' = Live
        /\ \A k \in Live : k # h => inflight'[k] = inflight[k] /\ folded'[k] = folded[k]
    BY <2>1 DEF Live
  <2>3. /\ inflight'[h].expected = s.expected /\ inflight'[h].remaining = left
        /\ inflight'[h].merged = m /\ folded'[h] = f
    BY <1>1, <2>1 DEF Live, MechSnoop
  <2>4. /\ s.merged = MergeOf(folded[h]) /\ folded[h] \subseteq Answer
        /\ \A x, y \in folded[h] : x.node = y.node => x = y
        /\ s.remaining = s.expected \ {x.node : x \in folded[h]}
        /\ \A x \in folded[h] : x.node \in s.expected
    BY <1>1 DEF MergeInv, MergeIsOrderFree, FoldedTyped, MergeOf
  <2>5. /\ m = MergeOf(f) /\ f \subseteq Answer
        /\ \A x, y \in f : x.node = y.node => x = y
        /\ left = s.expected \ {x.node : x \in f}
        /\ \A x \in f : x.node \in s.expected
    <3>1. CASE first
      <4>1. m = MergeOf(f)
        BY <2>4, <3>1, MergeAdds
      <4>2. ans.node \in s.expected /\ \A x \in folded[h] : x.node # ans.node
        BY <2>4, <3>1
      <4>3. {x.node : x \in f} = {x.node : x \in folded[h]} \cup {ans.node}
        BY <3>1
      <4> QED BY <2>4, <3>1, <4>1, <4>2, <4>3
    <3>2. CASE ~first
      <4>1. left = s.remaining
        BY <3>2
      <4> QED BY <2>4, <3>2, <4>1
    <3> QED BY <3>1, <3>2
  <2> HIDE DEF m, f, left, first, s
  <2>6. FoldedTyped'
    BY <2>2, <2>3, <2>5 DEF MergeInv, FoldedTyped
  <2>7. MergeIsOrderFree'
    <3> SUFFICES ASSUME NEW k \in Live'
                 PROVE  /\ inflight'[k].merged = MergeOf(folded'[k])
                        /\ \A x, y \in folded'[k] : x.node = y.node => x = y
                        /\ inflight'[k].remaining =
                             inflight'[k].expected \ {x.node : x \in folded'[k]}
      BY DEF MergeIsOrderFree, MergeOf
    <3>1. CASE k = h
      BY <2>3, <2>5, <3>1
    <3>2. CASE k # h
      BY <2>2, <3>2 DEF MergeInv, MergeIsOrderFree, MergeOf
    <3> QED BY <3>1, <3>2
  <2> QED BY <2>6, <2>7
<1> QED BY <1>2, <1>3

(* Whatever snoops begin, join and are answered, in whatever order: a live *)
(* handle is one address's and found again by it, each live snoop that was *)
(* asked of somebody waits for a responder, and what its answers merged to *)
(* does not depend on the order they came in.                              *)
THEOREM HandlesSound ==
  ASSUME MaxHandle \in Nat \ {0}
  PROVE  MechSpec => [](/\ MechTypeOK /\ HandleNamesOneSnoop /\ SomebodyAwaited
                        /\ MergeIsOrderFree)
<1>1. MechInit => MergeInv
  <2> SUFFICES ASSUME MechInit PROVE MergeInv
    OBVIOUS
  <2>1. DOMAIN inflight = {} /\ DOMAIN byAddr = {} /\ DOMAIN folded = {}
    BY DEF MechInit
  <2>2. next_handle \in Handles
    BY DEF MechInit, Handles
  <2> QED BY <2>1, <2>2 DEF MergeInv, MechInv, MechTypeOK, HandleNamesOneSnoop,
             SomebodyAwaited, FoldedTyped, MergeIsOrderFree, Live
<1>2. MergeInv /\ [MechNext]_mechVars => MergeInv'
  <2> SUFFICES ASSUME MergeInv, [MechNext]_mechVars PROVE MergeInv'
    OBVIOUS
  <2>1. CASE MechNext
    <3>1. MechInv'
      BY <2>1, BeginKeeps, JoinKeeps, FoldKeeps DEF MechNext, MergeInv
    <3>2. (FoldedTyped /\ MergeIsOrderFree)'
      BY <2>1, BeginMerges, JoinMerges, FoldMerges DEF MechNext
    <3> QED BY <3>1, <3>2 DEF MergeInv
  <2>2. CASE UNCHANGED mechVars
    BY <2>2 DEF mechVars, MergeInv, MechInv, MechTypeOK, HandleNamesOneSnoop,
                SomebodyAwaited, FoldedTyped, MergeIsOrderFree, Live
  <2> QED BY <2>1, <2>2
<1> QED BY <1>1, <1>2, PTL DEF MechSpec, MergeInv, MechInv
-----------------------------------------------------------------------------
(* What a tracker has entered about a line at one of its levels. A line it *)
(* has no entry for is as one with an empty entry, which is how entries    *)
(* that come and go are followed.                                          *)
LineEntry == [sharers : SUBSET Nodes, dirty : SUBSET Nodes]

OwnTyped ==
  /\ DOMAIN own = Levels
  /\ \A l \in Levels : \A a \in DOMAIN own[l] : own[l][a] \in LineEntry

Empty == [sharers |-> {}, dirty |-> {}]

(* What is read, written and retired at one level and address.             *)
LEMMA EntryTyped ==
  ASSUME OwnTyped, NEW l \in Levels, NEW a
  PROVE  EntryOf(l, a) \in LineEntry
BY DEF OwnTyped, EntryOf, HasEntry, LineEntry

LEMMA PutIs ==
  ASSUME OwnTyped, NEW l \in Levels, NEW a, NEW e \in LineEntry, own' = PutEntry(l, a, e)
  PROVE  /\ OwnTyped'
         /\ \A k \in Levels, b \in Addrs :
              EntryOf(k, b)' = IF k = l /\ b = a THEN e ELSE EntryOf(k, b)
<1>1. DOMAIN own' = Levels /\ \A k \in Levels \ {l} : own'[k] = own[k]
  BY DEF OwnTyped, PutEntry
<1>2. /\ DOMAIN own'[l] = DOMAIN own[l] \cup {a}
      /\ \A b \in DOMAIN own'[l] : own'[l][b] = IF b = a THEN e ELSE own[l][b]
  BY DEF OwnTyped, PutEntry
<1>3. OwnTyped'
  BY <1>1, <1>2 DEF OwnTyped
<1>4. ASSUME NEW k \in Levels, NEW b \in Addrs
      PROVE  EntryOf(k, b)' = IF k = l /\ b = a THEN e ELSE EntryOf(k, b)
  BY <1>1, <1>2 DEF EntryOf, HasEntry
<1> QED BY <1>3, <1>4

LEMMA RetireIs ==
  ASSUME OwnTyped, NEW l \in Levels, NEW a, NEW n, own' = Retire(l, a, n)
  PROVE  /\ OwnTyped'
         /\ \A k \in Levels, b \in Addrs :
              EntryOf(k, b)' = IF k = l /\ b = a THEN Removed(EntryOf(k, b), n)
                                                 ELSE EntryOf(k, b)
<1> DEFINE f == Removed(EntryOf(l, a), n)
<1>0. EntryOf(l, a) \in LineEntry /\ f \in LineEntry
  BY EntryTyped DEF Removed, LineEntry
<1>1. CASE ~HasEntry(l, a)
  <2>1. own' = own
    BY <1>1 DEF Retire
  <2>2. EntryOf(l, a) = Empty /\ f = Empty
    BY <1>1 DEF EntryOf, Empty, Removed
  <2> HIDE DEF f
  <2> QED BY <2>1, <2>2 DEF OwnTyped, EntryOf, HasEntry, f
<1>2. CASE HasEntry(l, a) /\ f = EntryOf(l, a)
  <2>1. own' = own
    BY <1>2 DEF Retire
  <2> HIDE DEF f
  <2> QED BY <1>2, <2>1 DEF OwnTyped, EntryOf, HasEntry, f
<1>3. CASE HasEntry(l, a) /\ f # EntryOf(l, a) /\ f.sharers \cup f.dirty = {}
  <2>1. own' = [own EXCEPT ![l] = Restrict(@, DOMAIN @ \ {a})]
    BY <1>3 DEF Retire
  <2>2. DOMAIN own' = Levels /\ \A k \in Levels \ {l} : own'[k] = own[k]
    BY <2>1 DEF OwnTyped
  <2>3. /\ DOMAIN own'[l] = DOMAIN own[l] \ {a}
        /\ \A b \in DOMAIN own'[l] : own'[l][b] = own[l][b]
    BY <2>1 DEF OwnTyped, Restrict
  <2>4. f = Empty
    BY <1>0, <1>3 DEF LineEntry, Empty
  <2> HIDE DEF f
  <2>5. OwnTyped'
    BY <2>2, <2>3 DEF OwnTyped
  <2>6. ASSUME NEW k \in Levels, NEW b \in Addrs
        PROVE  EntryOf(k, b)' = IF k = l /\ b = a THEN f ELSE EntryOf(k, b)
    BY <2>2, <2>3, <2>4 DEF EntryOf, HasEntry, Empty
  <2> QED BY <2>5, <2>6 DEF f
<1>4. CASE HasEntry(l, a) /\ f # EntryOf(l, a) /\ f.sharers \cup f.dirty # {}
  <2>1. own' = PutEntry(l, a, f)
    BY <1>4 DEF Retire
  <2> HIDE DEF f
  <2>2. \A k \in Levels, b \in Addrs :
          EntryOf(k, b)' = IF k = l /\ b = a THEN f ELSE EntryOf(k, b)
    BY <1>0, <2>1, PutIs
  <2> QED BY <1>0, <2>1, <2>2, PutIs DEF f
<1> QED BY <1>1, <1>2, <1>3, <1>4
-----------------------------------------------------------------------------
(* Each node has its place in the hierarchy.                               *)
LevelOk == Level \in [Nodes -> Levels]

(* The level a node is entered at, and the lines the tracker keeps at all: *)
(* the null tracker keeps none, the DCOH tracker those of its region.      *)
Place(n) == IF impl = "HierarchicalDirectory" THEN Level[n] ELSE 0

Tracked(a) == impl # "BroadcastNull" /\ (impl = "DcohSymmetric" => a \in Region)

(* An entry after a node reported state s.                                 *)
Noted(e, n, s) ==
  IF impl = "TreeManager"
  THEN IF s = StateI THEN Removed(e, n) ELSE Entered(e, n, s \in {StateE, StateM})
  ELSE Entered(e, n, s = StateM)

LEMMA NotedTyped ==
  ASSUME NEW e \in LineEntry, NEW n \in Nodes, NEW s
  PROVE  Noted(e, n, s) \in LineEntry /\ Removed(e, n) \in LineEntry
BY DEF Noted, Entered, Removed, LineEntry

LEMMA PlaceIsLevel ==
  ASSUME LevelOk, NEW n \in Nodes
  PROVE  Place(n) \in Levels
BY DEF LevelOk, Place, Levels

(* The six ways to enter a sharer are one, and so are the six ways to      *)
(* clear one: they differ in where, for which lines and what for.          *)
LEMMA SetIs ==
  ASSUME OwnTyped, LevelOk, impl \in Impls, NEW a \in Addrs, NEW n \in Nodes,
         NEW s \in SnoopState, SetSharer(a, n, s), s = StateI => impl = "TreeManager"
  PROVE  /\ OwnTyped'
         /\ \A k \in Levels, b \in Addrs :
              EntryOf(k, b)' = IF Tracked(a) /\ k = Place(n) /\ b = a
                               THEN Noted(EntryOf(k, b), n, s) ELSE EntryOf(k, b)
<1> DEFINE e == EntryOf(Place(n), a)
<1>1. Place(n) \in Levels /\ e \in LineEntry /\ Noted(e, n, s) \in LineEntry
  BY PlaceIsLevel, EntryTyped, NotedTyped
<1>2. CASE Tracked(a)
  <2>1. own' = PutEntry(Place(n), a, Noted(e, n, s))
    BY <1>2 DEF SetSharer, Impls, Tracked, Place, Noted, SetFullMap, SetSparse, SetDcoh,
                SetTree, SetHier
  <2>2. /\ OwnTyped'
        /\ \A k \in Levels, b \in Addrs :
             EntryOf(k, b)' = IF k = Place(n) /\ b = a THEN Noted(e, n, s) ELSE EntryOf(k, b)
    <3> HIDE DEF e
    <3> QED BY <1>1, <2>1, PutIs
  <2> QED BY <1>2, <2>2
<1>3. CASE ~Tracked(a)
  <2>1. own' = own
    BY <1>3 DEF SetSharer, Impls, Tracked, SetDcoh, SetNull
  <2> QED BY <1>3, <2>1 DEF OwnTyped, EntryOf, HasEntry
<1> QED BY <1>2, <1>3

(* Clearing a node takes it out of the entry at its place.                 *)
LEMMA ClearIs ==
  ASSUME OwnTyped, LevelOk, impl \in Impls, NEW a \in Addrs, NEW n \in Nodes,
         ClearSharer(a, n), impl = "BroadcastNull" => EntryOf(0, a) = Empty
  PROVE  /\ OwnTyped'
         /\ \A k \in Levels, b \in Addrs :
              EntryOf(k, b)' = IF k = Place(n) /\ b = a
                               THEN Removed(EntryOf(k, b), n) ELSE EntryOf(k, b)
<1>1. Place(n) \in Levels /\ EntryOf(Place(n), a) \in LineEntry
      /\ Removed(EntryOf(Place(n), a), n) \in LineEntry
  BY PlaceIsLevel, EntryTyped, NotedTyped
<1>2. CASE own' = Retire(Place(n), a, n)
  BY <1>1, <1>2, RetireIs
<1>3. CASE impl = "TreeManager"
  <2>1. Place(n) = 0
    BY <1>3 DEF Place
  <2>2. CASE HasEntry(0, a)
    <3>1. own' = PutEntry(0, a, Removed(EntryOf(0, a), n))
      BY <1>3, <2>2 DEF ClearSharer, ClearTree
    <3> QED BY <1>1, <2>1, <3>1, PutIs
  <2>3. CASE ~HasEntry(0, a)
    <3>1. own' = own
      BY <1>3, <2>3 DEF ClearSharer, ClearTree
    <3>2. EntryOf(0, a) = Removed(EntryOf(0, a), n)
      BY <2>3 DEF EntryOf, Removed
    <3> QED BY <2>1, <3>1, <3>2 DEF OwnTyped, EntryOf, HasEntry
  <2> QED BY <2>2, <2>3
<1>4. CASE impl = "BroadcastNull"
  <2>1. own' = own /\ Place(n) = 0
    BY <1>4 DEF ClearSharer, ClearNull, Place, Impls
  <2>2. EntryOf(0, a) = Removed(EntryOf(0, a), n)
    BY <1>4 DEF Empty, Removed
  <2> QED BY <2>1, <2>2 DEF OwnTyped, EntryOf, HasEntry
<1>5. CASE impl \notin {"TreeManager", "BroadcastNull"}
  <2>1. own' = Retire(Place(n), a, n)
    BY <1>5 DEF ClearSharer, Impls, Place, ClearFullMap, ClearSparse, ClearDcoh, ClearHier
  <2> QED BY <2>1, <1>2
<1> QED BY <1>3, <1>4, <1>5
-----------------------------------------------------------------------------
(* A node is entered at its own place, and for lines that are tracked.     *)
Located ==
  \A l \in Levels, a \in Addrs, n \in Nodes :
    n \in EntryOf(l, a).sharers \cup EntryOf(l, a).dirty => l = Place(n) /\ Tracked(a)

(* Whoever holds a tracked line is entered, also when it left silently     *)
(* before and came back.                                                   *)
HoldersNoted ==
  \A a \in Addrs, n \in Nodes :
    Tracked(a) /\ holds[a][n] # StateI => n \in EntryOf(Place(n), a).sharers

(* The dirty set is exact: only a silent drop is not seen, and a dirty     *)
(* line is never dropped silently. The tree manager marks clean owners     *)
(* too.                                                                    *)
DirtyNoted ==
  \A a \in Addrs, n \in Nodes :
    Tracked(a) /\ impl # "TreeManager"
      => (n \in EntryOf(Place(n), a).dirty <=> holds[a][n] = StateM)

(* What the caches hold: an owner holds a line alone.                      *)
OneOwner ==
  \A a \in Addrs, n, m \in Nodes :
    n # m /\ holds[a][n] \in {StateE, StateM} => holds[a][m] = StateI

HoldsTyped == holds \in [Addrs -> [Nodes -> SnoopState]]

TrkInv ==
  /\ impl \in Impls /\ OwnTyped /\ HoldsTyped
  /\ Located /\ HoldersNoted /\ DirtyNoted /\ OneOwner

(* The null tracker enters nothing.                                        *)
LEMMA NullEmpty ==
  ASSUME TrkInv, NEW a \in Addrs, impl = "BroadcastNull"
  PROVE  EntryOf(0, a) = Empty
<1>1. EntryOf(0, a) \in LineEntry
  BY EntryTyped DEF TrkInv, Levels
<1>2. \A n \in Nodes : n \notin EntryOf(0, a).sharers \cup EntryOf(0, a).dirty
  BY DEF TrkInv, Located, Levels, Tracked
<1>3. EntryOf(0, a).sharers = {} /\ EntryOf(0, a).dirty = {}
  BY <1>1, <1>2 DEF LineEntry
<1> QED BY <1>1, <1>3 DEF LineEntry, Empty

(* One copy changes.                                                       *)
LEMMA HoldsMoves ==
  ASSUME HoldsTyped, NEW a \in Addrs, NEW n \in Nodes, NEW s \in SnoopState,
         holds' = [holds EXCEPT ![a][n] = s]
  PROVE  /\ HoldsTyped'
         /\ \A b \in Addrs, m \in Nodes :
              holds'[b][m] = IF b = a /\ m = n THEN s ELSE holds[b][m]
BY DEF HoldsTyped

(* A cache reports the state it took.                                      *)
LEMMA ReportKeeps ==
  ASSUME TrkInv, LevelOk, NEW a \in Addrs, NEW n \in Nodes,
         NEW s \in {StateS, StateE, StateM}, Report(a, n, s)
  PROVE  TrkInv'
<1> DEFINE e(k, b) == IF Tracked(a) /\ k = Place(n) /\ b = a
                      THEN Noted(EntryOf(k, b), n, s) ELSE EntryOf(k, b)
<1>1. s \in SnoopState /\ s # StateI /\ StateS # StateE /\ StateS # StateM /\ StateE # StateM
  BY DEF SnoopState, StateI, StateS, StateE, StateM
<1>2. OwnTyped' /\ \A k \in Levels, b \in Addrs : EntryOf(k, b)' = e(k, b)
  BY <1>1, SetIs DEF TrkInv, Report
<1>3. /\ HoldsTyped'
      /\ \A b \in Addrs, m \in Nodes :
           holds'[b][m] = IF b = a /\ m = n THEN s ELSE holds[b][m]
  <2>1. holds' = [holds EXCEPT ![a][n] = s] /\ HoldsTyped
    BY DEF Report, TrkInv
  <2> QED BY <1>1, <2>1, HoldsMoves
<1>4. /\ impl' = impl /\ \A m : Place(m)' = Place(m)
      /\ \A b : Tracked(b)' = Tracked(b)
  BY DEF Report, Place, Tracked
<1>5. \A m \in Nodes : Place(m) \in Levels
  BY PlaceIsLevel
<1>6. \A k \in Levels, b \in Addrs, m \in Nodes :
        /\ m # n => (/\ m \in e(k, b).sharers <=> m \in EntryOf(k, b).sharers
                     /\ m \in e(k, b).dirty <=> m \in EntryOf(k, b).dirty)
        /\ ~(k = Place(n) /\ b = a /\ Tracked(a)) => e(k, b) = EntryOf(k, b)
  BY DEF Noted, Entered, Removed
<1>7. Tracked(a) => /\ n \in e(Place(n), a).sharers
                    /\ impl # "TreeManager" => (n \in e(Place(n), a).dirty <=> s = StateM)
  BY <1>1 DEF Noted, Entered
<1> HIDE DEF e
<1>8. Located'
  BY <1>2, <1>4, <1>5, <1>6 DEF TrkInv, Located
<1>9. HoldersNoted'
  BY <1>2, <1>3, <1>4, <1>5, <1>6, <1>7 DEF TrkInv, HoldersNoted
<1>10. DirtyNoted'
  BY <1>2, <1>3, <1>4, <1>5, <1>6, <1>7 DEF TrkInv, DirtyNoted
<1>11. OneOwner'
  <2>1. \A m \in Nodes \ {n} :
          holds[a][m] = StateI \/ (s = StateS /\ holds[a][m] = StateS)
    BY DEF Report
  <2> SUFFICES ASSUME NEW b \in Addrs, NEW p \in Nodes, NEW q \in Nodes, p # q,
                      holds'[b][p] \in {StateE, StateM}
               PROVE  holds'[b][q] = StateI
    BY DEF OneOwner
  <2>2. StateI \notin {StateE, StateM} /\ StateS \notin {StateE, StateM}
    BY DEF StateI, StateS, StateE, StateM
  <2>3. CASE b = a /\ (p = n \/ q = n)
    BY <1>3, <2>1, <2>2, <2>3
  <2>4. CASE ~(b = a /\ (p = n \/ q = n))
    <3>1. holds'[b][p] = holds[b][p] /\ holds'[b][q] = holds[b][q]
      BY <1>3, <2>4
    <3> QED BY <3>1 DEF TrkInv, OneOwner
  <2> QED BY <2>3, <2>4
<1> QED BY <1>2, <1>3, <1>4, <1>8, <1>9, <1>10, <1>11 DEF TrkInv

(* A cache gives its copy up, or was seen without one.                     *)
LEMMA ForgetKeeps ==
  ASSUME TrkInv, LevelOk, NEW a \in Addrs, NEW n \in Nodes,
         holds' = [holds EXCEPT ![a][n] = StateI], impl' = impl,
         ClearSharer(a, n) \/ (impl = "TreeManager" /\ SetSharer(a, n, StateI))
  PROVE  TrkInv'
<1> DEFINE e(k, b) == IF k = Place(n) /\ b = a THEN Removed(EntryOf(k, b), n) ELSE EntryOf(k, b)
<1>1. StateI \in SnoopState /\ StateI # StateM /\ StateI # StateE
  BY DEF SnoopState, StateI, StateM, StateE
<1>2. OwnTyped' /\ \A k \in Levels, b \in Addrs : EntryOf(k, b)' = e(k, b)
  <2>1. CASE ClearSharer(a, n)
    BY <2>1, ClearIs, NullEmpty DEF TrkInv
  <2>2. CASE impl = "TreeManager" /\ SetSharer(a, n, StateI)
    <3>1. /\ OwnTyped'
          /\ \A k \in Levels, b \in Addrs :
              EntryOf(k, b)' = IF Tracked(a) /\ k = Place(n) /\ b = a
                               THEN Noted(EntryOf(k, b), n, StateI) ELSE EntryOf(k, b)
      BY <1>1, <2>2, SetIs DEF TrkInv
    <3> QED BY <2>2, <3>1 DEF Tracked, Noted
  <2> QED BY <2>1, <2>2
<1>3. /\ HoldsTyped'
      /\ \A b \in Addrs, m \in Nodes :
           holds'[b][m] = IF b = a /\ m = n THEN StateI ELSE holds[b][m]
  BY <1>1, HoldsMoves DEF TrkInv
<1>4. /\ \A m : Place(m)' = Place(m)
      /\ \A b : Tracked(b)' = Tracked(b)
  BY DEF Place, Tracked
<1>5. \A m \in Nodes : Place(m) \in Levels
  BY PlaceIsLevel
<1>6. \A k \in Levels, b \in Addrs, m \in Nodes :
        /\ m # n => (/\ m \in e(k, b).sharers <=> m \in EntryOf(k, b).sharers
                     /\ m \in e(k, b).dirty <=> m \in EntryOf(k, b).dirty)
        /\ m \in e(k, b).sharers => m \in EntryOf(k, b).sharers
        /\ m \in e(k, b).dirty => m \in EntryOf(k, b).dirty
        /\ ~(k = Place(n) /\ b = a) => e(k, b) = EntryOf(k, b)
  BY DEF Removed
<1>7. n \notin e(Place(n), a).dirty
  BY DEF Removed
<1> HIDE DEF e
<1>8. Located'
  BY <1>2, <1>4, <1>5, <1>6 DEF TrkInv, Located
<1>9. HoldersNoted'
  BY <1>2, <1>3, <1>4, <1>5, <1>6 DEF TrkInv, HoldersNoted
<1>10. DirtyNoted'
  BY <1>1, <1>2, <1>3, <1>4, <1>5, <1>6, <1>7 DEF TrkInv, DirtyNoted
<1>11. OneOwner'
  BY <1>1, <1>3 DEF TrkInv, OneOwner
<1> QED BY <1>2, <1>3, <1>8, <1>9, <1>10, <1>11 DEF TrkInv

(* A clean copy is dropped without a word.                                 *)
LEMMA DropKeeps ==
  ASSUME TrkInv, NEW a \in Addrs, NEW n \in Nodes, SilentDrop(a, n)
  PROVE  TrkInv'
<1>1. /\ StateI \in SnoopState /\ StateI # StateM /\ StateI # StateE
      /\ holds[a][n] # StateM
  BY DEF SilentDrop, SnoopState, StateI, StateS, StateE, StateM
<1>2. /\ HoldsTyped'
      /\ \A b \in Addrs, m \in Nodes :
           holds'[b][m] = IF b = a /\ m = n THEN StateI ELSE holds[b][m]
  BY <1>1, HoldsMoves DEF TrkInv, SilentDrop
<1>3. /\ impl' = impl /\ own' = own
      /\ \A m : Place(m)' = Place(m) /\ Tracked(m)' = Tracked(m)
      /\ \A k, b : EntryOf(k, b)' = EntryOf(k, b)
  BY DEF SilentDrop, Place, Tracked, EntryOf, HasEntry
<1>4. OwnTyped'
  BY <1>3 DEF TrkInv, OwnTyped
<1>5. Located'
  BY <1>3 DEF TrkInv, Located
<1>6. HoldersNoted'
  BY <1>2, <1>3 DEF TrkInv, HoldersNoted
<1>7. DirtyNoted'
  BY <1>1, <1>2, <1>3 DEF TrkInv, DirtyNoted
<1>8. OneOwner'
  BY <1>1, <1>2 DEF TrkInv, OneOwner
<1> QED BY <1>2, <1>3, <1>4, <1>5, <1>6, <1>7, <1>8 DEF TrkInv

(* A look-up that makes an empty entry says nothing new.                   *)
LEMMA LookupKeeps ==
  ASSUME TrkInv, NEW a \in Addrs, Lookup(a)
  PROVE  TrkInv'
<1>1. own' = PutEntry(0, a, Empty) /\ Empty \in LineEntry /\ 0 \in Levels
  BY DEF Lookup, Empty, LineEntry, Levels
<1>2. EntryOf(0, a) = Empty
  BY DEF Lookup, EntryOf, Empty
<1>3. OwnTyped' /\ \A k \in Levels, b \in Addrs : EntryOf(k, b)' = EntryOf(k, b)
  BY <1>1, <1>2, PutIs DEF TrkInv
<1>4. /\ impl' = impl /\ holds' = holds /\ impl = "FullMapDirectory"
      /\ \A m : Place(m)' = Place(m) /\ Tracked(m)' = Tracked(m) /\ Place(m) = 0
  BY DEF Lookup, Place, Tracked
<1>5. Located'
  BY <1>3, <1>4 DEF TrkInv, Located
<1>6. HoldersNoted' /\ DirtyNoted'
  BY <1>1, <1>3, <1>4 DEF TrkInv, HoldersNoted, DirtyNoted
<1>7. HoldsTyped' /\ OneOwner'
  BY <1>4 DEF TrkInv, HoldsTyped, OneOwner
<1> QED BY <1>3, <1>4, <1>5, <1>6, <1>7 DEF TrkInv

(* Snoops leave the directory alone.                                       *)
LEMMA DirStutter ==
  ASSUME TrkInv, UNCHANGED dirVars
  PROVE  TrkInv'
<1>1. /\ impl' = impl /\ holds' = holds /\ own' = own
      /\ \A m : Place(m)' = Place(m) /\ Tracked(m)' = Tracked(m)
      /\ \A k, b : EntryOf(k, b)' = EntryOf(k, b)
  BY DEF dirVars, Place, Tracked, EntryOf, HasEntry
<1> QED BY <1>1 DEF TrkInv, OwnTyped, HoldsTyped, Located, HoldersNoted, DirtyNoted, OneOwner

(* The invariant of the trackers.                                          *)
LEMMA TrkInvInductive ==
  ASSUME LevelOk
  PROVE  (TrkInit => TrkInv) /\ (TrkInv /\ [TrkNext]_trkVars => TrkInv')
<1>1. ASSUME TrkInit PROVE TrkInv
  <2>1. OwnTyped /\ \A l \in Levels : \A a : EntryOf(l, a) = Empty
    BY <1>1 DEF TrkInit, OwnTyped, EntryOf, HasEntry, Empty
  <2>2. /\ StateI \in SnoopState /\ StateI # StateM /\ StateI # StateE
        /\ \A n \in Nodes : Place(n) \in Levels
    BY PlaceIsLevel DEF SnoopState, StateI, StateM, StateE
  <2>3. HoldsTyped /\ \A a \in Addrs, n \in Nodes : holds[a][n] = StateI
    BY <1>1, <2>2 DEF TrkInit, HoldsTyped
  <2>4. Located
    BY <2>1 DEF Located, Empty
  <2>5. HoldersNoted /\ OneOwner
    BY <2>2, <2>3 DEF HoldersNoted, OneOwner
  <2>6. DirtyNoted
    BY <2>1, <2>2, <2>3 DEF DirtyNoted, Empty
  <2> QED BY <1>1, <2>1, <2>3, <2>4, <2>5, <2>6 DEF TrkInit, TrkInv
<1>2. ASSUME TrkInv, [TrkNext]_trkVars PROVE TrkInv'
  <2>1. CASE \E a \in Addrs, n \in Nodes, s \in {StateS, StateE, StateM} : Report(a, n, s)
    BY <1>2, <2>1, ReportKeeps
  <2>2. CASE \E a \in Addrs, n \in Nodes : GiveUp(a, n) \/ ObserveInvalid(a, n)
    BY <1>2, <2>2, ForgetKeeps DEF GiveUp, ObserveInvalid
  <2>3. CASE \E a \in Addrs, n \in Nodes : SilentDrop(a, n)
    BY <1>2, <2>3, DropKeeps
  <2>4. CASE \E a \in Addrs : Lookup(a)
    BY <1>2, <2>4, LookupKeeps
  <2>5. CASE Snoops \/ UNCHANGED trkVars
    BY <1>2, <2>5, DirStutter DEF Snoops, trkVars, dirVars
  <2> QED BY <1>2, <2>1, <2>2, <2>3, <2>4, <2>5 DEF TrkNext
<1> QED BY <1>1, <1>2
-----------------------------------------------------------------------------
(* The view over all levels is what is entered at each node's own place.   *)
LEMMA ViewIs ==
  ASSUME OwnTyped, LevelOk, Located, NEW a \in Addrs
  PROVE  /\ View(a).sharers \subseteq Nodes /\ View(a).dirty \subseteq Nodes
         /\ \A n \in Nodes : /\ n \in View(a).sharers <=> n \in EntryOf(Place(n), a).sharers
                             /\ n \in View(a).dirty <=> n \in EntryOf(Place(n), a).dirty
<1>1. \A k \in Levels : EntryOf(k, a) \in LineEntry
  BY EntryTyped
<1>2. /\ View(a).sharers = UNION {EntryOf(k, a).sharers : k \in Levels}
      /\ View(a).dirty = UNION {EntryOf(k, a).dirty : k \in Levels}
  BY DEF View, ViewAt, Levels
<1>3. ASSUME NEW n \in Nodes
      PROVE  /\ n \in View(a).sharers <=> n \in EntryOf(Place(n), a).sharers
             /\ n \in View(a).dirty <=> n \in EntryOf(Place(n), a).dirty
  <2>1. Place(n) \in Levels
    BY PlaceIsLevel
  <2>2. \A k \in Levels : /\ n \in EntryOf(k, a).sharers => k = Place(n)
                          /\ n \in EntryOf(k, a).dirty => k = Place(n)
    BY DEF Located
  <2> QED BY <1>2, <2>1, <2>2
<1>4. View(a).sharers \subseteq Nodes /\ View(a).dirty \subseteq Nodes
  BY <1>1, <1>2 DEF LineEntry
<1> QED BY <1>3, <1>4

(* For a tracked line the view holds every holder, and its dirty set is    *)
(* exact.                                                                  *)
LEMMA ViewKnows ==
  ASSUME TrkInv, LevelOk, NEW a \in Addrs, Tracked(a)
  PROVE  /\ Holders(a) \subseteq View(a).sharers
         /\ impl # "TreeManager" => View(a).dirty = Dirty(a)
<1>1. Holders(a) \subseteq View(a).sharers
  BY ViewIs DEF TrkInv, Holders, HoldersNoted
<1>2. ASSUME impl # "TreeManager" PROVE View(a).dirty = Dirty(a)
  BY <1>2, ViewIs DEF TrkInv, Dirty, DirtyNoted
<1> QED BY <1>1, <1>2

(* Who is dirty holds the line.                                            *)
LEMMA DirtyHolds ==
  ASSUME NEW a \in Addrs
  PROVE  Dirty(a) \subseteq Holders(a) /\ Holders(a) \subseteq Nodes
BY DEF Dirty, Holders, StateI, StateM

(* Five of the trackers have one level.                                    *)
LEMMA FlatView ==
  ASSUME TrkInv, LevelOk, NEW a \in Addrs, impl # "HierarchicalDirectory"
  PROVE  View(a).dirty = EntryOf(0, a).dirty /\ View(a).sharers = EntryOf(0, a).sharers
<1>1. EntryOf(0, a) \in LineEntry /\ \A n \in Nodes : Place(n) = 0
  BY EntryTyped DEF TrkInv, Levels, Place
<1>2. \A n \in Nodes : /\ n \in View(a).sharers <=> n \in EntryOf(0, a).sharers
                       /\ n \in View(a).dirty <=> n \in EntryOf(0, a).dirty
  BY <1>1, ViewIs DEF TrkInv
<1>3. View(a).sharers \subseteq Nodes /\ View(a).dirty \subseteq Nodes
  BY ViewIs DEF TrkInv
<1> QED BY <1>1, <1>2, <1>3 DEF LineEntry

(* The verdict and the sets the home reaches, one tracker after the other. *)
LEMMA VerdictReaches ==
  ASSUME TrkInv, LevelOk, NEW a \in Addrs, NEW i \in {"want_read", "want_write", "want_own"}
  PROVE  /\ i # "want_read" => Holders(a) \subseteq Reached(a, i)
         /\ i = "want_read" => Dirty(a) \subseteq Reached(a, i)
<1> DEFINE v == Verdict(a, i)
<1>1. CASE v \in {"BROADCAST", "ESCALATE_UP"}
  <2>1. Reached(a, i) = Nodes
    BY <1>1 DEF Reached
  <2> QED BY <2>1, DirtyHolds
<1>2. CASE v = "ANSWER_HERE"
  <2>1. Reached(a, i) = View(a).sharers
    BY <1>2 DEF Reached
  <2>2. Tracked(a)
    BY <1>2 DEF Verdict, Tracked, TrkInv, Impls, NullVerdict, DcohVerdict
  <2> QED BY <2>1, <2>2, ViewKnows, DirtyHolds
<1>3. CASE v = "FORWARD_TO"
  <2>1. Reached(a, i) = View(a).dirty
    BY <1>3 DEF Reached
  <2>2. Tracked(a) /\ impl # "TreeManager" /\ i = "want_read"
    BY <1>3 DEF Verdict, Tracked, TrkInv, Impls, NullVerdict, DcohVerdict, TreeVerdict,
                FullMapVerdict, SparseVerdict, HierVerdict
  <2> QED BY <2>1, <2>2, ViewKnows
<1>4. v \in {"BROADCAST", "ESCALATE_UP", "ANSWER_HERE", "FORWARD_TO"}
  BY DEF Verdict, TrkInv, Impls, NullVerdict, DcohVerdict, TreeVerdict,
         FullMapVerdict, SparseVerdict, HierVerdict
<1> QED BY <1>1, <1>2, <1>3, <1>4

(* A read is forwarded only where the one dirty holder is known.           *)
LEMMA ForwardsToOwner ==
  ASSUME TrkInv, LevelOk, IsFiniteSet(Nodes), NEW a \in Addrs,
         Verdict(a, "want_read") = "FORWARD_TO"
  PROVE  View(a).dirty = Dirty(a) /\ Cardinality(Dirty(a)) = 1
<1>1. Tracked(a) /\ impl # "TreeManager"
  BY DEF Verdict, Tracked, TrkInv, Impls, NullVerdict, DcohVerdict, TreeVerdict
<1>2. View(a).dirty = Dirty(a)
  BY <1>1, ViewKnows
<1>3. View(a).dirty # {}
  <2>1. CASE impl \in {"SparseSnoopFilter", "DcohSymmetric"}
    <3>1. Cardinality(View(a).dirty) = 1
      BY <2>1 DEF Verdict, SparseVerdict, DcohVerdict, SureOfOne
    <3> QED BY <3>1, FS_EmptySet
  <2>2. CASE impl = "FullMapDirectory"
    BY <2>2, FlatView DEF Verdict, FullMapVerdict
  <2>3. CASE impl = "HierarchicalDirectory"
    BY <2>3 DEF Verdict, HierVerdict
  <2> QED BY <1>1, <2>1, <2>2, <2>3 DEF TrkInv, Impls, Tracked
<1>4. PICK n : n \in Dirty(a)
  BY <1>2, <1>3
<1>5. Dirty(a) = {n}
  <2>1. n \in Nodes /\ holds[a][n] = StateM
    BY <1>4 DEF Dirty
  <2>2. \A m \in Nodes : m # n => holds[a][m] = StateI
    BY <2>1 DEF TrkInv, OneOwner
  <2> QED BY <2>1, <2>2 DEF Dirty, StateI, StateM
<1> QED BY <1>2, <1>5, FS_Singleton

(* For every tracker, whatever is reported, dropped silently, given up,    *)
(* observed or looked up: where the home sends its snoops there is every   *)
(* holder (for a write or an ownership request) and the dirty one (for a   *)
(* read), and a read that is forwarded goes to the one cache that has the  *)
(* data.                                                                   *)
THEOREM HoldersReached ==
  ASSUME LevelOk, IsFiniteSet(Nodes)
  PROVE  TrkSpec => [](TrkTypeOK /\ NoHolderMissed /\ ForwardFindsData)
<1>1. TrkInv => TrkTypeOK
  BY DEF TrkInv, TrkTypeOK, OwnTyped, HoldsTyped, LineEntry
<1>2. TrkInv => NoHolderMissed
  BY VerdictReaches DEF NoHolderMissed
<1>3. TrkInv => ForwardFindsData
  BY ForwardsToOwner DEF ForwardFindsData
<1> QED BY <1>1, <1>2, <1>3, TrkInvInductive, PTL DEF TrkSpec
-----------------------------------------------------------------------------
(* The MESIF engines: what their lines and their wires hold.               *)
LinesTyped == line \in [Nodes -> [Addrs -> States]]

Bundles == {NoBundle} \cup [flow : {"Request"}, txn : Txns] \cup [flow : {"SnoopResp"}]

WireTyped ==
  /\ egress \in [Nodes -> [Ports -> Bundles]]
  /\ next_port \in [Nodes -> Ports]
  /\ atHome \subseteq [node : Nodes, txn : Txns]

TxnsTyped ==
  /\ DOMAIN txn_addr = Nodes
  /\ \A n \in Nodes : /\ DOMAIN txn_addr[n] \subseteq Txns
                      /\ \A t \in DOMAIN txn_addr[n] : txn_addr[n][t] \in Addrs

(* Two engines and their directory say the same of every line: each        *)
(* transition of an engine is entered in the same step.                    *)
LinesNoted ==
  \A a \in Addrs, n \in Nodes :
    /\ n \in EntryOf(Place(n), a).sharers <=> line[n][a] # "I"
    /\ n \in EntryOf(Place(n), a).dirty <=> line[n][a] = "M"

DirectoryInv ==
  impl = "HierarchicalDirectory" /\ OwnTyped /\ Located /\ LinesTyped /\ LinesNoted

MesifInv == DirectoryInv /\ WireTyped /\ TxnsTyped

(* A transition and its entry in the directory.                            *)
LEMMA ApplyKeeps ==
  ASSUME DirectoryInv, LevelOk, NEW a \in Addrs, NEW n \in Nodes, NEW to \in States,
         Apply(n, a, to), impl' = impl
  PROVE  DirectoryInv'
<1> DEFINE e(k, b) == IF k = Place(n) /\ b = a
                      THEN IF to = "I" THEN Removed(EntryOf(k, b), n)
                                       ELSE Entered(EntryOf(k, b), n, to = "M")
                      ELSE EntryOf(k, b)
<1>1. OwnTyped' /\ \A k \in Levels, b \in Addrs : EntryOf(k, b)' = e(k, b)
  <2>1. CASE to = "I"
    <3>1. ClearSharer(a, n)
      BY <2>1 DEF Apply, Sync
    <3> QED BY <2>1, <3>1, ClearIs DEF DirectoryInv, Impls
  <2>2. CASE to # "I"
    <3>1. SetSharer(a, n, DirState[to])
      BY <2>2 DEF Apply, Sync
    <3>2. /\ DirState[to] \in SnoopState /\ DirState[to] # StateI
          /\ DirState[to] = StateM <=> to = "M"
      BY <2>2 DEF DirState, States, SnoopState, StateI, StateS, StateE, StateM
    <3>3. /\ OwnTyped'
          /\ \A k \in Levels, b \in Addrs :
              EntryOf(k, b)' = IF Tracked(a) /\ k = Place(n) /\ b = a
                               THEN Noted(EntryOf(k, b), n, DirState[to]) ELSE EntryOf(k, b)
      BY <3>1, <3>2, SetIs DEF DirectoryInv, Impls
    <3> QED BY <2>2, <3>2, <3>3 DEF Tracked, Noted, DirectoryInv
  <2> QED BY <2>1, <2>2
<1>2. /\ LinesTyped'
      /\ \A m \in Nodes, b \in Addrs :
           line'[m][b] = IF m = n /\ b = a THEN to ELSE line[m][b]
  BY DEF Apply, DirectoryInv, LinesTyped
<1>3. \A m : Place(m)' = Place(m) /\ Tracked(m)' = Tracked(m) /\ Tracked(m)
  BY DEF Place, Tracked, DirectoryInv
<1>4. \A m \in Nodes : Place(m) \in Levels
  BY PlaceIsLevel
<1>5. \A k \in Levels, b \in Addrs, m \in Nodes :
        /\ m # n => (/\ m \in e(k, b).sharers <=> m \in EntryOf(k, b).sharers
                     /\ m \in e(k, b).dirty <=> m \in EntryOf(k, b).dirty)
        /\ ~(k = Place(n) /\ b = a) => e(k, b) = EntryOf(k, b)
  BY DEF Entered, Removed
<1>6. /\ n \in e(Place(n), a).sharers <=> to # "I"
      /\ n \in e(Place(n), a).dirty <=> to = "M"
  BY DEF Entered, Removed
<1> HIDE DEF e
<1>7. Located'
  BY <1>1, <1>3, <1>4, <1>5 DEF DirectoryInv, Located
<1>8. LinesNoted'
  BY <1>1, <1>2, <1>3, <1>4, <1>5, <1>6 DEF DirectoryInv, LinesNoted
<1> QED BY <1>1, <1>2, <1>7, <1>8 DEF DirectoryInv

(* A step that changes no line changes no entry.                           *)
LEMMA DirectoryStutter ==
  ASSUME DirectoryInv, UNCHANGED <<impl, own, line>>
  PROVE  DirectoryInv'
<1>1. /\ \A m : Place(m)' = Place(m) /\ Tracked(m)' = Tracked(m)
      /\ \A k, b : EntryOf(k, b)' = EntryOf(k, b)
  BY DEF Place, Tracked, EntryOf, HasEntry
<1> QED BY <1>1 DEF DirectoryInv, OwnTyped, Located, LinesTyped, LinesNoted

(* The egress takes a bundle on a free port, or loses it.                  *)
LEMMA WriteTyped ==
  ASSUME WireTyped, NEW n \in Nodes, NEW b \in Bundles, WriteToEgress(n, b),
         atHome' = atHome
  PROVE  WireTyped'
<1>1. CASE Free(n) = {}
  BY <1>1 DEF WriteToEgress, WireTyped
<1>2. CASE Free(n) # {}
  <2> DEFINE p == IF next_port[n] \in Free(n) THEN next_port[n] ELSE 1 - next_port[n]
  <2>1. egress' = [egress EXCEPT ![n][p] = b] /\ next_port' = [next_port EXCEPT ![n] = 1 - p]
    BY <1>2 DEF WriteToEgress
  <2>2. p \in Ports /\ 1 - p \in Ports
    BY DEF WireTyped, Ports
  <2> HIDE DEF p
  <2> QED BY <2>1, <2>2 DEF WireTyped
<1> QED BY <1>1, <1>2

(* The table leads from states to states.                                  *)
LEMMA TransitionTyped ==
  ASSUME NEW s \in States, NEW e \in Events
  PROVE  Transition[s][e] \in States
BY DEF Transition, States, Events, Row

(* So does a completion.                                                   *)
LEMMA CompletedTyped ==
  ASSUME NEW s \in States, NEW perm
  PROVE  Completed(s, perm) \in States
BY TransitionTyped DEF Completed, Events

(* Every step of an engine keeps the directory current.                    *)
LEMMA MesifStep ==
  ASSUME MesifInv, LevelOk, MesifNext
  PROVE  MesifInv'
<1>1. ASSUME NEW n \in Nodes, NEW a \in Addrs, NEW t \in Txns, SubmitLocalRequest(n, t, a)
      PROVE  MesifInv'
  <2>1. DirectoryInv'
    BY <1>1, DirectoryStutter DEF SubmitLocalRequest, trkVars, MesifInv
  <2>2. WireTyped'
    <3>1. [flow |-> "Request", txn |-> t] \in Bundles
      BY DEF Bundles
    <3> QED BY <1>1, <3>1, WriteTyped DEF SubmitLocalRequest, MesifInv
  <2>3. TxnsTyped'
    BY <1>1 DEF SubmitLocalRequest, MesifInv, TxnsTyped
  <2> QED BY <2>1, <2>2, <2>3 DEF MesifInv
<1>2. ASSUME NEW n \in Nodes, NEW a \in Addrs, NEW e \in Events, LocalEvent(n, a, e)
      PROVE  MesifInv'
  <2>1. Transition[line[n][a]][e] \in States
    BY TransitionTyped DEF MesifInv, DirectoryInv, LinesTyped
  <2>2. DirectoryInv'
    BY <1>2, <2>1, ApplyKeeps DEF LocalEvent, MesifInv
  <2> QED BY <1>2, <2>2 DEF LocalEvent, MesifInv, WireTyped, TxnsTyped
<1>3. ASSUME NEW n \in Nodes, NEW a \in Addrs, NEW type, OnSnoop(n, a, type)
      PROVE  MesifInv'
  <2> DEFINE to == Transition[line[n][a]][IF type = "INVALIDATE" THEN "SnpUnique" ELSE "SnpShared"]
  <2>1. to \in States
    BY TransitionTyped DEF MesifInv, DirectoryInv, LinesTyped, Events
  <2>2. /\ Apply(n, a, to) /\ WriteToEgress(n, [flow |-> "SnoopResp"])
        /\ UNCHANGED <<mechVars, impl, holds, txn_addr, atHome>>
    BY <1>3 DEF OnSnoop
  <2> HIDE DEF to
  <2>3. DirectoryInv'
    BY <2>1, <2>2, ApplyKeeps DEF MesifInv
  <2>4. WireTyped'
    <3>1. [flow |-> "SnoopResp"] \in Bundles
      BY DEF Bundles
    <3> QED BY <2>2, <3>1, WriteTyped DEF MesifInv
  <2> QED BY <2>2, <2>3, <2>4 DEF MesifInv, TxnsTyped
<1>4. ASSUME NEW n \in Nodes, NEW a \in Addrs, OnInvalidated(n, a)
      PROVE  MesifInv'
  <2>1. Transition[line[n][a]]["SnpUnique"] \in States
    BY TransitionTyped DEF MesifInv, DirectoryInv, LinesTyped, Events
  <2>2. DirectoryInv'
    BY <1>4, <2>1, ApplyKeeps DEF OnInvalidated, MesifInv
  <2> QED BY <1>4, <2>2 DEF OnInvalidated, MesifInv, WireTyped, TxnsTyped
<1>5. ASSUME NEW n \in Nodes, NEW t \in Txns, NEW perm, NEW error, OnCompletion(n, t, perm, error)
      PROVE  MesifInv'
  <2>1. WireTyped'
    BY <1>5 DEF OnCompletion, MesifInv, WireTyped
  <2>2. TxnsTyped'
    BY <1>5 DEF OnCompletion, MesifInv, TxnsTyped, Restrict
  <2>3. DirectoryInv'
    <3>1. CASE UNCHANGED <<line, own>>
      BY <1>5, <3>1, DirectoryStutter DEF OnCompletion, MesifInv
    <3>2. CASE t \in DOMAIN txn_addr[n]
               /\ Apply(n, txn_addr[n][t], Completed(line[n][txn_addr[n][t]], perm))
      <4>1. txn_addr[n][t] \in Addrs
        BY <3>2 DEF MesifInv, TxnsTyped
      <4>2. Completed(line[n][txn_addr[n][t]], perm) \in States
        BY <4>1, CompletedTyped DEF MesifInv, DirectoryInv, LinesTyped
      <4> QED BY <1>5, <3>2, <4>1, <4>2, ApplyKeeps DEF OnCompletion, MesifInv
    <3> QED BY <1>5, <3>1, <3>2 DEF OnCompletion
  <2> QED BY <2>1, <2>2, <2>3 DEF MesifInv
<1>6. ASSUME NEW n \in Nodes, Send(n)
      PROVE  MesifInv'
  <2>1. DirectoryInv'
    BY <1>6, DirectoryStutter DEF Send, trkVars, MesifInv
  <2>2. egress' \in [Nodes -> [Ports -> Bundles]]
    BY <1>6 DEF Send, MesifInv, WireTyped, Bundles
  <2>3. \A q \in Ports : egress[n][q].flow = "Request" => egress[n][q].txn \in Txns
    BY DEF MesifInv, WireTyped, Bundles, NoBundle
  <2>4. atHome' \subseteq [node : Nodes, txn : Txns]
    BY <1>6, <2>3 DEF Send, MesifInv, WireTyped
  <2> QED BY <1>6, <2>1, <2>2, <2>4 DEF Send, MesifInv, WireTyped, TxnsTyped
<1> QED BY <1>1, <1>2, <1>3, <1>4, <1>5, <1>6 DEF MesifNext

(* For any number of engines, lines and transactions, whatever requests,   *)
(* snoops, invalidations and completions come, also the ones whose answer  *)
(* the full egress loses: the directory has exactly the engines whose line *)
(* is valid as sharers and the ones in M as dirty.                         *)
THEOREM DirectoryIsCurrent ==
  ASSUME LevelOk
  PROVE  MesifSpec => [](MesifTypeOK /\ DirectoryFollowsEngines)
<1>1. MesifInit => MesifInv
  <2> SUFFICES ASSUME MesifInit PROVE MesifInv
    OBVIOUS
  <2>1. OwnTyped /\ \A l \in Levels : \A a : EntryOf(l, a) = Empty
    BY DEF MesifInit, TrkInit, OwnTyped, EntryOf, HasEntry, Empty
  <2>2. LinesTyped /\ \A n \in Nodes, a \in Addrs : line[n][a] = "I"
    BY DEF MesifInit, EngineInit, LinesTyped, States
  <2>3. Located /\ LinesNoted
    BY <2>1, <2>2, PlaceIsLevel DEF Located, LinesNoted, Empty
  <2>4. WireTyped /\ TxnsTyped
    BY DEF MesifInit, EngineInit, WireTyped, TxnsTyped, Bundles, Ports
  <2> QED BY <2>1, <2>2, <2>3, <2>4 DEF MesifInit, MesifInv, DirectoryInv
<1>2. MesifInv /\ [MesifNext]_<<trkVars, engineVars>> => MesifInv'
  <2>1. ASSUME MesifInv, UNCHANGED <<trkVars, engineVars>> PROVE MesifInv'
    BY <2>1, DirectoryStutter DEF trkVars, engineVars, MesifInv, WireTyped, TxnsTyped
  <2> QED BY <2>1, MesifStep
<1>3. MesifInv => MesifTypeOK
  BY DEF MesifInv, DirectoryInv, MesifTypeOK, LinesTyped, WireTyped, TxnsTyped
<1>4. MesifInv => DirectoryFollowsEngines
  BY ViewIs DEF MesifInv, DirectoryInv, DirectoryFollowsEngines, LinesNoted
<1> QED BY <1>1, <1>2, <1>3, <1>4, PTL DEF MesifSpec
-----------------------------------------------------------------------------
(* The tables of the four families.                                        *)
FamilyStates ==
  CASE family = "mesif" -> {"I", "S", "E", "M", "F"}
    [] family = "chi"   -> {"I", "SC", "UC", "UD"}
    [] family = "cxl"   -> {"I", "S", "E", "M"}
    [] OTHER            -> {"Nothing", "Branch", "Tip"}

TablesInv ==
  /\ family \in {"mesif", "chi", "cxl", "tilelink"}
  /\ copy \in [Caches -> FamilyStates]
  /\ OneWriter

(* CHOOSE from a set that is not empty.                                    *)
LEMMA ChosenIsMember ==
  ASSUME NEW S, S # {}
  PROVE  (CHOOSE s \in S : TRUE) \in S
OBVIOUS

(* What a step makes of the cache that acts and of each of the others.     *)
LEMMA StepMoves ==
  ASSUME TablesInv, NEW c \in Caches, NEW e, NEW snoop, TableStep(c, e, snoop)
  PROVE  /\ family' = family /\ DOMAIN copy' = Caches
         /\ \E to \in Targets(copy[c], e) :
              /\ copy'[c] = to
              /\ \A o \in Caches \ {c} : copy'[o] \in Others(o, snoop, to)
<1>1. PICK to \in Targets(copy[c], e) :
        /\ \A o \in Caches \ {c} : Others(o, snoop, to) # {}
        /\ copy' = [o \in Caches |-> IF o = c THEN to
                     ELSE CHOOSE s \in Others(o, snoop, to) : TRUE]
        /\ UNCHANGED family
  BY DEF TableStep
<1>2. \A o \in Caches \ {c} : copy'[o] \in Others(o, snoop, to)
  BY <1>1, ChosenIsMember
<1> QED BY <1>1, <1>2

(* In each family: the actor may write only when its request asked the     *)
(* others to give the line up, or when it could write before.              *)
LEMMA RowsAgree ==
  ASSUME TablesInv, NEW c \in Caches, NEW step \in LocalEvents,
         NEW to \in Targets(copy[c], step[1]), NEW o \in Caches \ {c},
         NEW s \in Others(o, step[2], to)
  PROVE  /\ s \in FamilyStates
         /\ to \in Writing[family] => s = Invalid[family]
         /\ s \in Writing[family] =>
              /\ to = Invalid[family] /\ copy[o] \in Writing[family]
         /\ copy[o] = Invalid[family] => s = Invalid[family]
<1> DEFINE x == copy[c]
           y == copy[o]
<1>1. /\ x \in FamilyStates /\ y \in FamilyStates
      /\ x \in Writing[family] => y = Invalid[family]
      /\ y \in Writing[family] => x = Invalid[family]
  BY DEF TablesInv, OneWriter
<1>2. CASE family = "mesif"
  BY <1>1, <1>2 DEF FamilyStates, Writing, Invalid, Targets, Others, LocalEvents, MesifTable
<1>3. CASE family = "chi"
  BY <1>1, <1>3 DEF FamilyStates, Writing, Invalid, Targets, Others, LocalEvents, ChiTable
<1>4. CASE family = "cxl"
  BY <1>1, <1>4 DEF FamilyStates, Writing, Invalid, Targets, Others, LocalEvents, CxlTable
<1>5. CASE family = "tilelink"
  BY <1>1, <1>5 DEF FamilyStates, Writing, Invalid, Targets, Others, LocalEvents, TileLinkTable
<1> QED BY <1>2, <1>3, <1>4, <1>5 DEF TablesInv

(* The actor's new state is one of its family.                             *)
LEMMA ActorTyped ==
  ASSUME TablesInv, NEW c \in Caches, NEW step \in LocalEvents,
         NEW to \in Targets(copy[c], step[1])
  PROVE  to \in FamilyStates
<1> DEFINE x == copy[c]
<1>1. x \in FamilyStates
  BY DEF TablesInv
<1>2. CASE family = "mesif"
  BY <1>1, <1>2 DEF FamilyStates, Targets, LocalEvents, MesifTable
<1>3. CASE family = "chi"
  BY <1>1, <1>3 DEF FamilyStates, Targets, LocalEvents, ChiTable
<1>4. CASE family = "cxl"
  BY <1>1, <1>4 DEF FamilyStates, Targets, LocalEvents, CxlTable
<1>5. CASE family = "tilelink"
  BY <1>1, <1>5 DEF FamilyStates, Targets, LocalEvents, TileLinkTable
<1> QED BY <1>2, <1>3, <1>4, <1>5 DEF TablesInv

(* However many caches, and in whatever order their requests and the       *)
(* snoops they make the home send are taken: the four tables leave at most *)
(* one cache that may write the line, and then nobody else a copy.         *)
THEOREM TablesKeepOneWriter == TableSpec => []OneWriter
<1>1. TableInit => TablesInv
  <2> SUFFICES ASSUME TableInit PROVE TablesInv
    OBVIOUS
  <2>1. family \in {"mesif", "chi", "cxl", "tilelink"}
    BY DEF TableInit, Invalid
  <2>2. Invalid[family] \in FamilyStates /\ Invalid[family] \notin Writing[family]
    BY <2>1 DEF FamilyStates, Invalid, Writing
  <2> QED BY <2>1, <2>2 DEF TableInit, TablesInv, OneWriter
<1>2. TablesInv /\ [TableNext]_tableVars => TablesInv'
  <2> SUFFICES ASSUME TablesInv, [TableNext]_tableVars PROVE TablesInv'
    OBVIOUS
  <2>1. CASE TableNext
    <3>1. PICK c \in Caches, step \in LocalEvents : TableStep(c, step[1], step[2])
      BY <2>1 DEF TableNext
    <3>2. PICK to \in Targets(copy[c], step[1]) :
            /\ family' = family /\ DOMAIN copy' = Caches /\ copy'[c] = to
            /\ \A o \in Caches \ {c} : copy'[o] \in Others(o, step[2], to)
      BY <3>1, StepMoves
    <3>3. \A o \in Caches \ {c} :
            /\ copy'[o] \in FamilyStates
            /\ to \in Writing[family] => copy'[o] = Invalid[family]
            /\ copy'[o] \in Writing[family] =>
                 to = Invalid[family] /\ copy[o] \in Writing[family]
            /\ copy[o] = Invalid[family] => copy'[o] = Invalid[family]
      BY <3>2, RowsAgree
    <3>4. to \in FamilyStates
      BY <3>2, ActorTyped
    <3>5. FamilyStates' = FamilyStates
      BY <3>2 DEF FamilyStates
    <3>6. copy' \in [Caches -> FamilyStates]
      <4>1. \A o \in Caches : copy'[o] \in FamilyStates
        BY <3>2, <3>3, <3>4
      <4>2. copy' = [o \in Caches |-> copy'[o]]
        BY <3>1 DEF TableStep
      <4> QED BY <4>1, <4>2
    <3>7. OneWriter'
      <4> SUFFICES ASSUME NEW p \in Caches, NEW q \in Caches \ {p},
                          copy'[p] \in Writing[family]
                   PROVE  copy'[q] = Invalid[family]
        BY <3>2 DEF OneWriter
      <4>1. CASE p = c
        BY <3>2, <3>3, <4>1
      <4>2. CASE p # c /\ q = c
        BY <3>2, <3>3, <4>2
      <4>3. CASE p # c /\ q # c
        <5>1. copy[p] \in Writing[family]
          BY <3>3, <4>3
        <5>2. copy[q] = Invalid[family]
          BY <5>1 DEF TablesInv, OneWriter
        <5> QED BY <3>3, <4>3, <5>2
      <4> QED BY <4>1, <4>2, <4>3
    <3> QED BY <3>2, <3>5, <3>6, <3>7 DEF TablesInv
  <2>2. CASE UNCHANGED tableVars
    BY <2>2 DEF tableVars, TablesInv, FamilyStates, OneWriter
  <2> QED BY <2>1, <2>2
<1> QED BY <1>1, <1>2, PTL DEF TableSpec, TablesInv

-----------------------------------------------------------------------------
(* Proofs, for every set of addresses and transactions, any initial credit *)
(* and any bound on the messages that wait.                                *)
ChiMsg == [ch : Channels, addr : ChiAddrs]
OutType == [credits : [Channels -> Nat], pending : Seq(ChiMsg),
            slots : [{0, 1} -> ChiMsg \cup {NoMsg}]]

SlotsOf(o, c) == Cardinality({p \in {0, 1} : o.slots[p].ch = c})

(* The credits of the output o, with those the home still holds.           *)
Balanced(o, r) ==
  \A c \in Channels : o.credits[c] + SlotsOf(o, c) + r[c] = InitialCredit

NoneWaits(o, a) == \A i \in DOMAIN o.pending : ~Answers(o.pending[i], a)
NoneLeaves(o, a) == \A p \in {0, 1} : ~Answers(o.slots[p], a)
OneWaits(o, a) == \E i \in DOMAIN o.pending :
  Answers(o.pending[i], a) /\ \A j \in DOMAIN o.pending : Answers(o.pending[j], a) => j = i
OneLeaves(o, a) == \E p \in {0, 1} :
  Answers(o.slots[p], a) /\ \A q \in {0, 1} : Answers(o.slots[q], a) => q = p

(* No answer for a, or exactly one: it waits or it is in a slot.           *)
NoAnswer(o, a)  == NoneWaits(o, a) /\ NoneLeaves(o, a)
OneAnswer(o, a) == \/ OneWaits(o, a) /\ NoneLeaves(o, a)
                   \/ NoneWaits(o, a) /\ OneLeaves(o, a)

OutInv(o, r, due) ==
  /\ o \in OutType /\ r \in [Channels -> Nat] /\ Balanced(o, r)
  /\ Len(o.pending) <= MaxPending
  /\ \A a \in ChiAddrs : IF a \in due THEN OneAnswer(o, a) ELSE NoAnswer(o, a)

TxnInv ==
  /\ ack_pending \subseteq in_flight /\ in_flight \subseteq DOMAIN txn_line
  /\ acks \in [ChiTxns -> Nat] /\ CompAckOnce

ChiInv == OutInv(Out, toReturn, snooped) /\ TxnInv

(* A set of slots, counted.                                                *)
LEMMA SlotCount ==
  ASSUME NEW S \in SUBSET {0, 1}
  PROVE  Cardinality(S) = (IF 0 \in S THEN 1 ELSE 0) + (IF 1 \in S THEN 1 ELSE 0)
<1>1. S = {} \/ S = {0} \/ S = {1} \/ S = {0, 1}
  OBVIOUS
<1>2. Cardinality({0, 1}) = 2
  <2>1. {0, 1} = {0} \cup {1} /\ 1 \notin {0}
    OBVIOUS
  <2>2. Cardinality({0} \cup {1}) = Cardinality({0}) + 1
    <3>1. IsFiniteSet({0})
      BY FS_Singleton
    <3> QED BY <2>1, <3>1, FS_AddElement
  <2> QED BY <2>1, <2>2, FS_Singleton
<1>3. Cardinality({0}) = 1 /\ Cardinality({1}) = 1 /\ Cardinality({}) = 0
  BY FS_Singleton, FS_EmptySet
<1>4. CASE S = {} BY <1>3, <1>4
<1>5. CASE S = {0} BY <1>3, <1>5
<1>6. CASE S = {1} BY <1>3, <1>6
<1>7. CASE S = {0, 1} BY <1>2, <1>7
<1> QED BY <1>1, <1>4, <1>5, <1>6, <1>7

(* The messages of one channel, slot by slot.                              *)
LEMMA SlotsOfIs ==
  ASSUME NEW o \in OutType, NEW c \in Channels
  PROVE  SlotsOf(o, c) = (IF o.slots[0].ch = c THEN 1 ELSE 0)
                         + (IF o.slots[1].ch = c THEN 1 ELSE 0)
<1> DEFINE S == {p \in {0, 1} : o.slots[p].ch = c}
<1>1. S \in SUBSET {0, 1} OBVIOUS
<1>2. (0 \in S <=> o.slots[0].ch = c) /\ (1 \in S <=> o.slots[1].ch = c)
  OBVIOUS
<1>3. Cardinality(S) = (IF 0 \in S THEN 1 ELSE 0) + (IF 1 \in S THEN 1 ELSE 0)
  BY <1>1, SlotCount
<1> QED BY <1>2, <1>3 DEF SlotsOf

(* A message that leaves takes a free slot and a credit.                   *)
LEMMA SendNowIs ==
  ASSUME NEW o \in OutType, NEW m \in ChiMsg, CanSend(o, m.ch)
  PROVE  /\ SendNow(o, m) \in OutType
         /\ SendNow(o, m).pending = o.pending
         /\ SendNow(o, m).credits = [o.credits EXCEPT ![m.ch] = @ - 1]
         /\ \E p \in {0, 1} : /\ o.slots[p] = NoMsg
                              /\ SendNow(o, m).slots = [o.slots EXCEPT ![p] = m]
<1> DEFINE p == Lowest(FreeSlot(o))
<1>1. p \in {0, 1} /\ o.slots[p] = NoMsg
  BY DEF CanSend, FreeSlot, Lowest
<1>2. m.ch \in Channels /\ o.credits \in [Channels -> Nat] /\ o.credits[m.ch] > 0
  BY DEF CanSend, OutType, ChiMsg
<1>3. SendNow(o, m) = [credits |-> [o.credits EXCEPT ![m.ch] = @ - 1],
                       pending |-> o.pending, slots |-> [o.slots EXCEPT ![p] = m]]
  BY DEF SendNow, OutType
<1>4. [o.credits EXCEPT ![m.ch] = @ - 1] \in [Channels -> Nat]
  BY <1>2
<1>5. [o.slots EXCEPT ![p] = m] \in [{0, 1} -> ChiMsg \cup {NoMsg}]
  BY <1>1 DEF OutType
<1>6. o.pending \in Seq(ChiMsg)
  BY DEF OutType
<1>7. SendNow(o, m) \in OutType
  BY <1>3, <1>4, <1>5, <1>6 DEF OutType
<1>8. SendNow(o, m).slots = [o.slots EXCEPT ![p] = m]
  BY <1>3
<1> HIDE DEF p
<1> QED BY <1>1, <1>3, <1>7, <1>8

(* ... so that the balance stays.                                          *)
LEMMA SendNowBalances ==
  ASSUME InitialCredit \in Nat, NEW o \in OutType, NEW m \in ChiMsg, CanSend(o, m.ch),
         NEW r \in [Channels -> Nat], Balanced(o, r)
  PROVE  Balanced(SendNow(o, m), r)
<1> DEFINE n == SendNow(o, m)
<1>1. PICK p \in {0, 1} : o.slots[p] = NoMsg /\ n.slots = [o.slots EXCEPT ![p] = m]
  BY SendNowIs
<1>2. n \in OutType /\ n.credits = [o.credits EXCEPT ![m.ch] = @ - 1]
  BY SendNowIs
<1> HIDE DEF n
<1> SUFFICES ASSUME NEW c \in Channels
    PROVE n.credits[c] + SlotsOf(n, c) + r[c] = InitialCredit
  BY DEF Balanced, n
<1>3. o.credits[c] \in Nat /\ r[c] \in Nat /\ o.credits[c] + SlotsOf(o, c) + r[c] = InitialCredit
  BY DEF Balanced, OutType
<1>4. n.credits[c] = IF c = m.ch THEN o.credits[c] - 1 ELSE o.credits[c]
  BY <1>2 DEF OutType
<1>5. o.slots[p].ch # c /\ n.slots[p] = m /\ o.slots \in [{0, 1} -> ChiMsg \cup {NoMsg}]
  BY <1>1 DEF NoMsg, Channels, OutType
<1>6. \A q \in {0, 1} : q # p => n.slots[q] = o.slots[q]
  BY <1>1, <1>5
<1>7. SlotsOf(n, c) = (IF n.slots[0].ch = c THEN 1 ELSE 0)
                      + (IF n.slots[1].ch = c THEN 1 ELSE 0)
  BY <1>2, SlotsOfIs
<1>8. SlotsOf(o, c) = (IF o.slots[0].ch = c THEN 1 ELSE 0)
                      + (IF o.slots[1].ch = c THEN 1 ELSE 0)
  BY SlotsOfIs
<1>9. SlotsOf(n, c) = SlotsOf(o, c) + (IF c = m.ch THEN 1 ELSE 0)
  <2>1. CASE p = 0 BY <1>5, <1>6, <1>7, <1>8, <2>1
  <2>2. CASE p = 1 BY <1>5, <1>6, <1>7, <1>8, <2>2
  <2> QED BY <2>1, <2>2
<1>10. SlotsOf(o, c) \in Nat
  BY <1>8
<1> QED BY <1>3, <1>4, <1>9, <1>10

(* Whatever becomes of a message, it is one more answer where it is one.   *)
LEMMA EmitKeeps ==
  ASSUME InitialCredit \in Nat, MaxPending \in Nat, NEW o, NEW r, NEW due,
         OutInv(o, r, due), Len(o.pending) < MaxPending, NEW m \in ChiMsg,
         m.ch = "TXREQ" \/ m.addr \notin due
  PROVE  OutInv(Emit(o, m), r,
                IF m.ch = "TXREQ" THEN due ELSE due \cup {m.addr})
<1> DEFINE n == Emit(o, m)
           later == IF m.ch = "TXREQ" THEN due ELSE due \cup {m.addr}
<1>1. o \in OutType /\ r \in [Channels -> Nat] /\ Balanced(o, r)
      /\ o.pending \in Seq(ChiMsg) /\ o.slots \in [{0, 1} -> ChiMsg \cup {NoMsg}]
  BY DEF OutInv, OutType
<1>2. m.ch \in Channels /\ m.addr \in ChiAddrs
  BY DEF ChiMsg
<1>3. \A a \in ChiAddrs : ~Answers(m, a) =>
        (a \in later <=> a \in due)
  BY <1>2 DEF Answers, Channels
<1>4. \A a \in ChiAddrs : Answers(m, a) => a \in later /\ a \notin due
  BY <1>2 DEF Answers, Channels
<1>5. CASE CanSend(o, m.ch)
  <2>1. n = SendNow(o, m)
    BY <1>5 DEF Emit
  <2> HIDE DEF n, later
  <2>2. PICK p \in {0, 1} : o.slots[p] = NoMsg /\ n.slots = [o.slots EXCEPT ![p] = m]
    <3>1. \E p \in {0, 1} : /\ o.slots[p] = NoMsg
                            /\ SendNow(o, m).slots = [o.slots EXCEPT ![p] = m]
      BY <1>1, <1>5, SendNowIs
    <3> QED BY <2>1, <3>1
  <2>3. n \in OutType /\ n.pending = o.pending
    <3>1. SendNow(o, m) \in OutType /\ SendNow(o, m).pending = o.pending
      BY <1>1, <1>5, SendNowIs
    <3> QED BY <2>1, <3>1
  <2>4. Balanced(n, r)
    BY <1>1, <1>5, <2>1, SendNowBalances
  <2>5. n.slots[p] = m /\ \A q \in {0, 1} : q # p => n.slots[q] = o.slots[q]
    BY <1>1, <2>2
  <2>6. ASSUME NEW a \in ChiAddrs
        PROVE  IF a \in later THEN OneAnswer(n, a) ELSE NoAnswer(n, a)
    <3>1. ~Answers(o.slots[p], a)
      BY <2>2 DEF NoMsg, Answers
    <3>2. NoneWaits(n, a) <=> NoneWaits(o, a)
      BY <2>3 DEF NoneWaits
    <3>3. OneWaits(n, a) <=> OneWaits(o, a)
      BY <2>3 DEF OneWaits
    <3>4. CASE Answers(m, a)
      <4>1. a \notin due /\ a \in later
        BY <1>4, <3>4
      <4>2. NoAnswer(o, a)
        BY <4>1 DEF OutInv
      <4>3. OneLeaves(n, a)
        BY <2>5, <3>4, <4>2 DEF OneLeaves, NoAnswer, NoneLeaves
      <4> QED BY <3>2, <4>1, <4>2, <4>3 DEF NoAnswer, OneAnswer
    <3>5. CASE ~Answers(m, a)
      <4>1. \A q \in {0, 1} : Answers(n.slots[q], a) <=> Answers(o.slots[q], a)
        BY <2>5, <3>1, <3>5
      <4>2. (NoneLeaves(n, a) <=> NoneLeaves(o, a)) /\ (OneLeaves(n, a) <=> OneLeaves(o, a))
        BY <4>1 DEF NoneLeaves, OneLeaves
      <4>3. (a \in later <=> a \in due)
            /\ IF a \in due THEN OneAnswer(o, a) ELSE NoAnswer(o, a)
        BY <1>3, <3>5 DEF OutInv
      <4> QED BY <3>2, <3>3, <4>2, <4>3 DEF NoAnswer, OneAnswer
    <3> QED BY <3>4, <3>5
  <2>7. Len(n.pending) <= MaxPending
    BY <2>3 DEF OutInv
  <2>8. OutInv(n, r, later)
    BY <1>1, <2>3, <2>4, <2>6, <2>7 DEF OutInv
  <2> QED BY <2>8 DEF n, later
<1>6. CASE ~CanSend(o, m.ch)
  <2>1. n = [o EXCEPT !.pending = Append(@, m)]
    BY <1>6 DEF Emit
  <2>2. n = [credits |-> o.credits, pending |-> Append(o.pending, m), slots |-> o.slots]
    BY <1>1, <2>1 DEF OutType
  <2>3. Append(o.pending, m) \in Seq(ChiMsg)
    BY <1>1
  <2>4. n \in OutType
    BY <1>1, <2>2, <2>3 DEF OutType
  <2>5. n.credits = o.credits /\ n.pending = Append(o.pending, m) /\ n.slots = o.slots
    BY <2>2
  <2> HIDE DEF n, later
  <2>6. Balanced(n, r)
    BY <1>1, <2>5 DEF Balanced, SlotsOf
  <2> DEFINE L == Len(o.pending)
  <2>7. /\ L \in Nat /\ DOMAIN o.pending = 1..L /\ DOMAIN n.pending = 1..(L + 1)
        /\ n.pending[L + 1] = m
        /\ \A i \in 1..L : n.pending[i] = o.pending[i]
    BY <1>1, <2>5
  <2>8. Len(n.pending) <= MaxPending
    BY <1>1, <2>5
  <2> HIDE DEF L
  <2>9. ASSUME NEW a \in ChiAddrs
        PROVE  IF a \in later THEN OneAnswer(n, a) ELSE NoAnswer(n, a)
    <3>1. (NoneLeaves(n, a) <=> NoneLeaves(o, a)) /\ (OneLeaves(n, a) <=> OneLeaves(o, a))
      BY <2>5 DEF NoneLeaves, OneLeaves
    <3>2. CASE Answers(m, a)
      <4>1. a \notin due /\ a \in later
        BY <1>4, <3>2
      <4>2. NoAnswer(o, a)
        BY <4>1 DEF OutInv
      <4>3. \A j \in DOMAIN n.pending : Answers(n.pending[j], a) => j = L + 1
        BY <2>7, <4>2 DEF NoAnswer, NoneWaits
      <4>4. L + 1 \in DOMAIN n.pending /\ Answers(n.pending[L + 1], a)
        BY <2>7, <3>2
      <4>5. OneWaits(n, a)
        BY <4>3, <4>4 DEF OneWaits
      <4> QED BY <3>1, <4>1, <4>2, <4>5 DEF NoAnswer, OneAnswer
    <3>3. CASE ~Answers(m, a)
      <4>1. \A j \in DOMAIN n.pending : Answers(n.pending[j], a) =>
              j \in DOMAIN o.pending /\ Answers(o.pending[j], a)
        BY <2>7, <3>3
      <4>2. \A j \in DOMAIN o.pending : j \in DOMAIN n.pending /\ n.pending[j] = o.pending[j]
        BY <2>7
      <4>3. NoneWaits(o, a) => NoneWaits(n, a)
        BY <4>1 DEF NoneWaits
      <4>4. OneWaits(o, a) => OneWaits(n, a)
        BY <4>1, <4>2 DEF OneWaits
      <4>5. (a \in later <=> a \in due)
            /\ IF a \in due THEN OneAnswer(o, a) ELSE NoAnswer(o, a)
        BY <1>3, <3>3 DEF OutInv
      <4> QED BY <3>1, <4>3, <4>4, <4>5 DEF NoAnswer, OneAnswer
    <3> QED BY <3>2, <3>3
  <2>10. OutInv(n, r, later)
    BY <1>1, <2>4, <2>6, <2>8, <2>9 DEF OutInv
  <2> QED BY <2>10 DEF n, later
<1> QED BY <1>5, <1>6

(* A message that waited leaves: an answer moves from the head to a slot.  *)
LEMMA DrainOneKeeps ==
  ASSUME InitialCredit \in Nat, MaxPending \in Nat, NEW o, NEW r, NEW due, OutInv(o, r, due)
  PROVE  OutInv(DrainOne(o), r, due)
<1>1. CASE ~(o.pending # << >> /\ CanSend(o, Head(o.pending).ch))
  BY <1>1 DEF DrainOne
<1>2. CASE o.pending # << >> /\ CanSend(o, Head(o.pending).ch)
  <2> DEFINE m == Head(o.pending)
             s == SendNow(o, m)
             n == DrainOne(o)
             L == Len(o.pending)
  <2>1. o \in OutType /\ r \in [Channels -> Nat] /\ Balanced(o, r)
        /\ o.pending \in Seq(ChiMsg) /\ o.slots \in [{0, 1} -> ChiMsg \cup {NoMsg}]
    BY DEF OutInv, OutType
  <2>2. m \in ChiMsg /\ L \in Nat \ {0} /\ m = o.pending[1]
    BY <1>2, <2>1
  <2>3. Tail(o.pending) \in Seq(ChiMsg) /\ Len(Tail(o.pending)) = L - 1
        /\ \A i \in 1..(L - 1) : Tail(o.pending)[i] = o.pending[i + 1]
    BY <1>2, <2>1
  <2>4. PICK p \in {0, 1} : o.slots[p] = NoMsg /\ s.slots = [o.slots EXCEPT ![p] = m]
    BY <1>2, <2>1, <2>2, SendNowIs
  <2>5. s \in OutType
    BY <1>2, <2>1, <2>2, SendNowIs
  <2>6. Balanced(s, r)
    BY <1>2, <2>1, <2>2, SendNowBalances
  <2>7. n = [s EXCEPT !.pending = Tail(o.pending)]
    BY <1>2 DEF DrainOne
  <2> HIDE DEF s, n
  <2>8. n = [credits |-> s.credits, pending |-> Tail(o.pending), slots |-> s.slots]
    BY <2>5, <2>7 DEF OutType
  <2>9. n \in OutType
    BY <2>3, <2>5, <2>8 DEF OutType
  <2>10. n.credits = s.credits /\ n.pending = Tail(o.pending) /\ n.slots = s.slots
    BY <2>8
  <2>11. Balanced(n, r)
    BY <2>6, <2>10 DEF Balanced, SlotsOf
  <2>12. n.slots[p] = m /\ \A q \in {0, 1} : q # p => n.slots[q] = o.slots[q]
    BY <2>1, <2>4, <2>10
  <2>13. /\ DOMAIN o.pending = 1..L /\ DOMAIN n.pending = 1..(L - 1)
         /\ \A i \in 1..(L - 1) : n.pending[i] = o.pending[i + 1]
    BY <2>1, <2>3, <2>10
  <2>14. Len(n.pending) <= MaxPending
    BY <2>2, <2>3, <2>10 DEF OutInv
  <2> HIDE DEF m, L
  <2>15. ASSUME NEW a \in ChiAddrs
         PROVE  IF a \in due THEN OneAnswer(n, a) ELSE NoAnswer(n, a)
    <3>1. ~Answers(o.slots[p], a)
      BY <2>4 DEF NoMsg, Answers
    <3>2. \A j \in DOMAIN n.pending : j + 1 \in DOMAIN o.pending /\ n.pending[j] = o.pending[j + 1]
      BY <2>2, <2>13
    <3>3. \A j \in DOMAIN o.pending : j # 1 =>
            j - 1 \in DOMAIN n.pending /\ n.pending[j - 1] = o.pending[j]
      BY <2>2, <2>13
    <3>4. 1 \in DOMAIN o.pending /\ o.pending[1] = m
      BY <2>2, <2>13
    <3>5. NoneWaits(o, a) => NoneWaits(n, a) /\ ~Answers(m, a)
      BY <3>2, <3>4 DEF NoneWaits
    <3>6. ~Answers(m, a) => \A q \in {0, 1} : Answers(n.slots[q], a) <=> Answers(o.slots[q], a)
      BY <2>12, <3>1
    <3>7. ~Answers(m, a) => /\ NoneLeaves(n, a) <=> NoneLeaves(o, a)
                            /\ OneLeaves(n, a) <=> OneLeaves(o, a)
      BY <3>6 DEF NoneLeaves, OneLeaves
    <3>8. CASE Answers(m, a)
      <4>1. a \in due /\ OneWaits(o, a) /\ NoneLeaves(o, a)
        BY <3>5, <3>8 DEF OutInv, OneAnswer, NoAnswer
      <4>2. \A j \in DOMAIN o.pending : Answers(o.pending[j], a) => j = 1
        BY <3>4, <3>8, <4>1 DEF OneWaits
      <4>3. NoneWaits(n, a)
        <5> SUFFICES ASSUME NEW j \in DOMAIN n.pending, Answers(n.pending[j], a) PROVE FALSE
          BY DEF NoneWaits
        <5>1. j \in Nat \ {0}
          BY <2>2, <2>13
        <5>2. j + 1 = 1
          BY <3>2, <4>2
        <5> QED BY <5>1, <5>2
      <4>4. OneLeaves(n, a)
        BY <2>12, <3>8, <4>1 DEF OneLeaves, NoneLeaves
      <4> QED BY <4>1, <4>3, <4>4 DEF OneAnswer
    <3>9. CASE ~Answers(m, a)
      <4>1. OneWaits(o, a) => OneWaits(n, a)
        <5> SUFFICES ASSUME OneWaits(o, a) PROVE OneWaits(n, a)
          OBVIOUS
        <5>1. PICK i \in DOMAIN o.pending : Answers(o.pending[i], a)
                /\ \A j \in DOMAIN o.pending : Answers(o.pending[j], a) => j = i
          BY DEF OneWaits
        <5>2. i # 1 /\ i - 1 \in DOMAIN n.pending /\ Answers(n.pending[i - 1], a)
          BY <3>3, <3>4, <3>9, <5>1
        <5>3. ASSUME NEW j \in DOMAIN n.pending, Answers(n.pending[j], a) PROVE j = i - 1
          <6>1. j + 1 = i
            BY <3>2, <5>1, <5>3
          <6> QED BY <2>2, <2>13, <6>1
        <5> QED BY <5>2, <5>3 DEF OneWaits
      <4>2. IF a \in due THEN OneAnswer(o, a) ELSE NoAnswer(o, a)
        BY DEF OutInv
      <4> QED BY <3>5, <3>7, <3>9, <4>1, <4>2 DEF OneAnswer, NoAnswer
    <3> QED BY <3>8, <3>9
  <2>16. OutInv(n, r, due)
    BY <2>1, <2>9, <2>11, <2>14, <2>15 DEF OutInv
  <2> QED BY <2>16 DEF n
<1> QED BY <1>1, <1>2

(* ... as often as drain_pending lets one go.                              *)
LEMMA DrainKeeps ==
  ASSUME InitialCredit \in Nat, MaxPending \in Nat, NEW o, NEW r, NEW due, OutInv(o, r, due)
  PROVE  OutInv(Drain(o), r, due)
BY DrainOneKeeps DEF Drain

(* An output with other slots.                                             *)
LEMMA WithSlots ==
  ASSUME NEW o \in OutType, NEW s
  PROVE  [o EXCEPT !.slots = s] = [credits |-> o.credits, pending |-> o.pending, slots |-> s]
BY DEF OutType

(* The slots are sent: their credits are with the home, their snoops are   *)
(* answered.                                                               *)
LEMMA SentKeeps ==
  ASSUME InitialCredit \in Nat, MaxPending \in Nat, NEW o, NEW r, NEW due, OutInv(o, r, due)
  PROVE  LET sent == {p \in {0, 1} : o.slots[p] # NoMsg}
         IN  OutInv([o EXCEPT !.slots = [p \in {0, 1} |-> NoMsg]],
               [c \in Channels |-> r[c] + Cardinality({p \in sent : o.slots[p].ch = c})],
               due \ {o.slots[p].addr : p \in {q \in sent : o.slots[q].ch # "TXREQ"}})
<1> DEFINE sent == {p \in {0, 1} : o.slots[p] # NoMsg}
           none == [p \in {0, 1} |-> NoMsg]
           n == [o EXCEPT !.slots = none]
           back == [c \in Channels |-> r[c] + Cardinality({p \in sent : o.slots[p].ch = c})]
           gone == {o.slots[p].addr : p \in {q \in sent : o.slots[q].ch # "TXREQ"}}
<1>1. o \in OutType /\ r \in [Channels -> Nat] /\ Balanced(o, r)
      /\ o.slots \in [{0, 1} -> ChiMsg \cup {NoMsg}] /\ o.credits \in [Channels -> Nat]
  BY DEF OutInv, OutType
<1>2. n = [credits |-> o.credits, pending |-> o.pending, slots |-> none]
  BY <1>1, WithSlots
<1>3. n.credits = o.credits /\ n.pending = o.pending /\ n.slots = [p \in {0, 1} |-> NoMsg]
  BY <1>2
<1>4. n \in OutType
  BY <1>1, <1>2 DEF OutType
<1>5. \A c \in Channels : back[c] = r[c] + SlotsOf(o, c)
  <2> SUFFICES ASSUME NEW c \in Channels
      PROVE {p \in sent : o.slots[p].ch = c} = {p \in {0, 1} : o.slots[p].ch = c}
    BY DEF SlotsOf
  <2> QED BY DEF NoMsg, Channels
<1>6. \A c \in Channels : SlotsOf(o, c) \in Nat
  BY <1>1, SlotsOfIs
<1>7. back \in [Channels -> Nat]
  BY <1>1, <1>5, <1>6
<1>8. \A p \in {0, 1} : n.slots[p] = NoMsg
  BY <1>3
<1>9. \A p \in sent : o.slots[p] \in ChiMsg
  BY <1>1
<1>10. \A a \in ChiAddrs : a \in gone <=> \E p \in {0, 1} : Answers(o.slots[p], a)
  <2>1. \A p \in {0, 1} : o.slots[p].ch \in {"TXRSP", "TXDAT"} <=>
                          p \in sent /\ o.slots[p].ch # "TXREQ"
    BY <1>1 DEF ChiMsg, NoMsg, Channels
  <2> QED BY <2>1 DEF Answers
<1> HIDE DEF n, back, gone, sent
<1>11. Balanced(n, back)
  <2> SUFFICES ASSUME NEW c \in Channels
      PROVE n.credits[c] + SlotsOf(n, c) + back[c] = InitialCredit
    BY DEF Balanced
  <2>1. SlotsOf(n, c) = (IF n.slots[0].ch = c THEN 1 ELSE 0)
                        + (IF n.slots[1].ch = c THEN 1 ELSE 0)
    BY <1>4, SlotsOfIs
  <2>2. SlotsOf(n, c) = 0
    BY <1>8, <2>1 DEF NoMsg, Channels
  <2>3. o.credits[c] + SlotsOf(o, c) + r[c] = InitialCredit /\ o.credits[c] \in Nat
        /\ r[c] \in Nat
    BY <1>1 DEF Balanced
  <2>4. n.credits[c] = o.credits[c] /\ back[c] = r[c] + SlotsOf(o, c)
    BY <1>3, <1>5
  <2> QED BY <1>6, <2>2, <2>3, <2>4
<1>12. ASSUME NEW a \in ChiAddrs
       PROVE  IF a \in due \ gone THEN OneAnswer(n, a) ELSE NoAnswer(n, a)
  <2>1. NoneLeaves(n, a)
    BY <1>8 DEF NoneLeaves, Answers, NoMsg
  <2>2. (NoneWaits(n, a) <=> NoneWaits(o, a)) /\ (OneWaits(n, a) <=> OneWaits(o, a))
    BY <1>3 DEF NoneWaits, OneWaits
  <2>3. IF a \in due THEN OneAnswer(o, a) ELSE NoAnswer(o, a)
    BY DEF OutInv
  <2>4. a \in gone <=> ~NoneLeaves(o, a)
    BY <1>10 DEF NoneLeaves
  <2>5. OneLeaves(o, a) => ~NoneLeaves(o, a)
    BY DEF OneLeaves, NoneLeaves
  <2> QED BY <2>1, <2>2, <2>3, <2>4, <2>5 DEF OneAnswer, NoAnswer
<1>13. Len(n.pending) <= MaxPending
  BY <1>3 DEF OutInv
<1>14. OutInv(n, back, due \ gone)
  BY <1>4, <1>7, <1>11, <1>12, <1>13 DEF OutInv
<1> QED BY <1>14 DEF n, back, gone, sent

(* A credit comes back.                                                    *)
LEMMA CreditKeeps ==
  ASSUME InitialCredit \in Nat, ChiInv, NEW d \in Channels, ReceiveCredit(d)
  PROVE  OutInv(Out, toReturn, snooped)'
<1>1. Out \in OutType /\ toReturn \in [Channels -> Nat] /\ Balanced(Out, toReturn)
      /\ credits \in [Channels -> Nat]
  BY DEF ChiInv, OutInv, OutType, Out
<1>2. /\ toReturn' = [toReturn EXCEPT ![d] = @ - 1] /\ toReturn[d] > 0
      /\ credits' = [credits EXCEPT ![d] = @ + 1]
      /\ pending' = pending /\ slots' = slots /\ snooped' = snooped
  BY DEF ReceiveCredit
<1>3. credits' \in [Channels -> Nat] /\ toReturn' \in [Channels -> Nat]
  BY <1>1, <1>2
<1>4. Out' \in OutType
  BY <1>1, <1>2, <1>3 DEF Out, OutType
<1>5. Balanced(Out', toReturn')
  <2> SUFFICES ASSUME NEW c \in Channels
      PROVE credits'[c] + SlotsOf(Out', c) + toReturn'[c] = InitialCredit
    BY DEF Balanced, Out
  <2>1. SlotsOf(Out', c) = SlotsOf(Out, c)
    BY <1>2 DEF SlotsOf, Out
  <2>2. SlotsOf(Out, c) \in Nat
    BY <1>1, SlotsOfIs
  <2>3. credits[c] + SlotsOf(Out, c) + toReturn[c] = InitialCredit
    BY <1>1 DEF Balanced, Out
  <2> HIDE DEF Out
  <2> QED BY <1>1, <1>2, <2>1, <2>2, <2>3
<1>6. Out'.pending = Out.pending /\ Out'.slots = Out.slots
  BY <1>2 DEF Out
<1>7. \A a \in ChiAddrs : (OneAnswer(Out', a) <=> OneAnswer(Out, a))
                          /\ (NoAnswer(Out', a) <=> NoAnswer(Out, a))
  BY <1>6 DEF OneAnswer, NoAnswer, OneWaits, OneLeaves, NoneWaits, NoneLeaves
<1>8. \A a \in ChiAddrs : IF a \in snooped' THEN OneAnswer(Out', a) ELSE NoAnswer(Out', a)
  BY <1>2, <1>7 DEF ChiInv, OutInv
<1>9. Len(Out'.pending) <= MaxPending
  BY <1>6 DEF ChiInv, OutInv
<1> QED BY <1>3, <1>4, <1>5, <1>8, <1>9 DEF OutInv

(* What the output is once it was set.                                     *)
LEMMA SetOutIs ==
  ASSUME NEW o \in OutType, SetOut(o)
  PROVE  Out' = o
BY DEF SetOut, Out, OutType

(* What concerns the messages only leaves the transactions alone.          *)
LEMMA TxnFrame ==
  ASSUME TxnInv, UNCHANGED <<in_flight, ack_pending, txn_line, acks>>
  PROVE  TxnInv'
BY DEF TxnInv, CompAckOnce

(* Every step of the node keeps the invariant ...                          *)
LEMMA ChiStep ==
  ASSUME InitialCredit \in Nat, MaxPending \in Nat, ChiInv, [ChiNext]_chiVars
  PROVE  ChiInv'
<1>1. OutInv(Out, toReturn, snooped) /\ TxnInv
  BY DEF ChiInv
<1>2. \A o, r, due : OutInv(o, r, due) => o \in OutType
  BY DEF OutInv
<1>3. UNCHANGED <<credits, pending, slots, toReturn, snooped>> =>
        OutInv(Out, toReturn, snooped)'
  BY <1>1 DEF Out
<1>4. ASSUME NEW a \in ChiAddrs, NEW t \in ChiTxns, NEW op, SubmitRequest(op, a, t)
      PROVE  ChiInv'
  <2> DEFINE m == [ch |-> "TXREQ", addr |-> a]
  <2>1. m \in ChiMsg /\ m.ch = "TXREQ"
    BY DEF ChiMsg, Channels
  <2>2. Len(Out.pending) < MaxPending
    BY <1>4 DEF SubmitRequest, Out
  <2>3. OutInv(Emit(Out, m), toReturn, snooped)
    <3> HIDE DEF m
    <3> QED BY <1>1, <2>1, <2>2, EmitKeeps
  <2>4. SetOut(Emit(Out, m)) /\ toReturn' = toReturn /\ snooped' = snooped
    BY <1>4 DEF SubmitRequest
  <2>5. Out' = Emit(Out, m)
    BY <1>2, <2>3, <2>4, SetOutIs
  <2>6. TxnInv'
    <3>1. /\ t \notin in_flight /\ in_flight' = in_flight \cup {t}
          /\ DOMAIN txn_line' = DOMAIN txn_line \cup {t}
          /\ ack_pending' \in {ack_pending, ack_pending \cup {t}}
          /\ acks' = [acks EXCEPT ![t] = 0]
      BY <1>4 DEF SubmitRequest
    <3> QED BY <1>1, <3>1 DEF TxnInv, CompAckOnce
  <2> QED BY <2>3, <2>4, <2>5, <2>6 DEF ChiInv
<1>5. ASSUME NEW t \in ChiTxns, NEW data \in BOOLEAN, NEW perm, NEW error \in BOOLEAN,
             ChiOnCompletion(t, data, perm, error)
      PROVE  ChiInv'
  <2>1. OutInv(Out, toReturn, snooped)'
    BY <1>3, <1>5 DEF ChiOnCompletion
  <2>2. txn_line' = txn_line
    BY <1>5 DEF ChiOnCompletion
  <2>3. CASE ~error /\ data
    <3>1. /\ acks' = IF t \in ack_pending THEN [acks EXCEPT ![t] = @ + 1] ELSE acks
          /\ ack_pending' = ack_pending \ {t} /\ in_flight' = in_flight \ {t}
      BY <1>5, <2>3 DEF ChiOnCompletion
    <3> QED BY <1>1, <2>1, <2>2, <3>1 DEF TxnInv, CompAckOnce, ChiInv
  <2>4. CASE ~(~error /\ data)
    <3>1. /\ acks' = acks /\ ack_pending' \subseteq ack_pending /\ in_flight' \subseteq in_flight
          /\ ack_pending' \subseteq in_flight'
      BY <1>1, <1>5, <2>4 DEF ChiOnCompletion, TxnInv
    <3> QED BY <1>1, <2>1, <2>2, <3>1 DEF TxnInv, CompAckOnce, ChiInv
  <2> QED BY <2>3, <2>4
<1>6. ASSUME NEW a \in ChiAddrs, NEW i \in BOOLEAN, ChiOnSnoop(a, i)
      PROVE  ChiInv'
  <2> DEFINE m == [ch |-> IF lines[a] \in DirtyStates THEN "TXDAT" ELSE "TXRSP", addr |-> a]
  <2>1. m \in ChiMsg /\ m.ch # "TXREQ" /\ m.addr = a
    BY DEF ChiMsg, Channels
  <2>2. Len(Out.pending) < MaxPending /\ a \notin snooped
    BY <1>6 DEF ChiOnSnoop, Out
  <2>3. SetOut(Emit(Out, m)) /\ toReturn' = toReturn /\ snooped' = snooped \cup {a}
    BY <1>6 DEF ChiOnSnoop
  <2> HIDE DEF m
  <2>4. OutInv(Emit(Out, m), toReturn, snooped \cup {a})
    BY <1>1, <2>1, <2>2, EmitKeeps
  <2>5. Out' = Emit(Out, m)
    BY <1>2, <2>3, <2>4, SetOutIs
  <2>6. TxnInv'
    BY <1>1, <1>6, TxnFrame DEF ChiOnSnoop
  <2> QED BY <2>3, <2>4, <2>5, <2>6 DEF ChiInv
<1>7. ASSUME NEW c \in Channels, ReceiveCredit(c)
      PROVE  ChiInv'
  <2>1. TxnInv'
    BY <1>1, <1>7, TxnFrame DEF ReceiveCredit
  <2> QED BY <1>7, <2>1, CreditKeeps DEF ChiInv
<1>8. CASE Tick
  <2> DEFINE o == Drain(Out)
             sent == {p \in {0, 1} : o.slots[p] # NoMsg}
             n == [o EXCEPT !.slots = [p \in {0, 1} |-> NoMsg]]
             back == [c \in Channels |->
                        toReturn[c] + Cardinality({p \in sent : o.slots[p].ch = c})]
             gone == {o.slots[p].addr : p \in {q \in sent : o.slots[q].ch # "TXREQ"}}
  <2>1. OutInv(o, toReturn, snooped)
    BY <1>1, DrainKeeps
  <2>2. SetOut(Drain(n)) /\ toReturn' = back /\ snooped' = snooped \ gone
    BY <1>8 DEF Tick
  <2> HIDE DEF o
  <2>3. OutInv(n, back, snooped \ gone)
    BY <2>1, SentKeeps
  <2> HIDE DEF n, back, gone, sent
  <2>4. OutInv(Drain(n), back, snooped \ gone)
    BY <2>3, DrainKeeps
  <2>5. Out' = Drain(n)
    BY <1>2, <2>2, <2>4, SetOutIs
  <2>6. TxnInv'
    BY <1>1, <1>8, TxnFrame DEF Tick
  <2> QED BY <2>2, <2>4, <2>5, <2>6 DEF ChiInv
<1>9. CASE UNCHANGED chiVars
  <2>1. TxnInv'
    BY <1>1, <1>9, TxnFrame DEF chiVars
  <2> QED BY <1>3, <1>9, <2>1 DEF chiVars, ChiInv
<1> QED BY <1>4, <1>5, <1>6, <1>7, <1>8, <1>9 DEF ChiNext

(* ... which holds at the start.                                           *)
LEMMA ChiStarts ==
  ASSUME InitialCredit \in Nat, MaxPending \in Nat, ChiInit
  PROVE  ChiInv
<1>1. Out = [credits |-> [c \in Channels |-> InitialCredit], pending |-> << >>,
             slots |-> [p \in {0, 1} |-> NoMsg]]
  BY DEF ChiInit, Out
<1>2. Out \in OutType
  BY <1>1 DEF OutType
<1>3. Out.credits = [c \in Channels |-> InitialCredit] /\ Out.pending = << >>
      /\ \A p \in {0, 1} : Out.slots[p] = NoMsg
  BY <1>1
<1>4. Balanced(Out, toReturn)
  <2> SUFFICES ASSUME NEW c \in Channels
      PROVE Out.credits[c] + SlotsOf(Out, c) + toReturn[c] = InitialCredit
    BY DEF Balanced
  <2>1. SlotsOf(Out, c) = (IF Out.slots[0].ch = c THEN 1 ELSE 0)
                          + (IF Out.slots[1].ch = c THEN 1 ELSE 0)
    BY <1>2, SlotsOfIs
  <2>2. SlotsOf(Out, c) = 0
    BY <1>3, <2>1 DEF NoMsg, Channels
  <2> QED BY <1>3, <2>2 DEF ChiInit
<1>5. \A a : NoAnswer(Out, a)
  BY <1>3 DEF NoAnswer, NoneWaits, NoneLeaves, Answers, NoMsg
<1>6. toReturn \in [Channels -> Nat] /\ snooped = {}
  BY DEF ChiInit
<1>7. Len(Out.pending) <= MaxPending
  BY <1>3
<1>8. OutInv(Out, toReturn, snooped)
  BY <1>2, <1>4, <1>5, <1>6, <1>7 DEF OutInv
<1>9. TxnInv
  BY DEF ChiInit, TxnInv, CompAckOnce
<1> QED BY <1>8, <1>9 DEF ChiInv

(* The invariant says what the properties count.                           *)
LEMMA ChiMeans ==
  ASSUME InitialCredit \in Nat, MaxPending \in Nat, ChiInv
  PROVE  ChiTypeOK /\ CreditsConserved /\ SnoopAnsweredOnce /\ CompAckOnce
<1>1. /\ Out \in OutType /\ toReturn \in [Channels -> Nat] /\ Balanced(Out, toReturn)
      /\ Len(Out.pending) <= MaxPending
      /\ \A a \in ChiAddrs : IF a \in snooped THEN OneAnswer(Out, a) ELSE NoAnswer(Out, a)
  BY DEF ChiInv, OutInv
<1>2. credits \in [Channels -> Nat] /\ Out.credits = credits /\ Out.pending = pending
      /\ Out.slots = slots
  BY <1>1 DEF Out, OutType
<1>3. \A c \in Channels : SlotsOf(Out, c) = InSlots(c)
  BY <1>2 DEF SlotsOf, InSlots
<1>4. CreditsConserved
  BY <1>1, <1>2, <1>3 DEF Balanced, CreditsConserved
<1>5. credits \in [Channels -> 0..InitialCredit]
  <2>1. ASSUME NEW c \in Channels PROVE credits[c] \in 0..InitialCredit
    <3>1. SlotsOf(Out, c) \in Nat
      BY <1>1, SlotsOfIs
    <3>2. credits[c] + SlotsOf(Out, c) + toReturn[c] = InitialCredit
      BY <1>1, <1>2 DEF Balanced
    <3> QED BY <1>1, <1>2, <3>1, <3>2
  <2> QED BY <1>2, <2>1
<1>6. ChiTypeOK
  BY <1>1, <1>2, <1>5 DEF ChiTypeOK, ChiInv, TxnInv
<1>7. SnoopAnsweredOnce
  <2> SUFFICES ASSUME NEW a \in ChiAddrs
      PROVE Cardinality({i \in DOMAIN pending : Answers(pending[i], a)})
            + Cardinality({p \in {0, 1} : Answers(slots[p], a)})
            = IF a \in snooped THEN 1 ELSE 0
    BY DEF SnoopAnsweredOnce
  <2> DEFINE W == {i \in DOMAIN pending : Answers(pending[i], a)}
             S == {p \in {0, 1} : Answers(slots[p], a)}
  <2>1. NoneWaits(Out, a) => W = {}
    BY <1>2 DEF NoneWaits
  <2>2. NoneLeaves(Out, a) => S = {}
    BY <1>2 DEF NoneLeaves
  <2>3. OneWaits(Out, a) => \E i : W = {i}
    <3> SUFFICES ASSUME OneWaits(Out, a) PROVE \E i : W = {i}
      OBVIOUS
    <3>1. PICK i \in DOMAIN pending : Answers(pending[i], a)
            /\ \A j \in DOMAIN pending : Answers(pending[j], a) => j = i
      BY <1>2 DEF OneWaits
    <3>2. W = {i}
      BY <3>1
    <3> QED BY <3>2
  <2>4. OneLeaves(Out, a) => \E p : S = {p}
    <3> SUFFICES ASSUME OneLeaves(Out, a) PROVE \E p : S = {p}
      OBVIOUS
    <3>1. PICK p \in {0, 1} : Answers(slots[p], a)
            /\ \A q \in {0, 1} : Answers(slots[q], a) => q = p
      BY <1>2 DEF OneLeaves
    <3>2. S = {p}
      BY <3>1
    <3> QED BY <3>2
  <2> HIDE DEF W, S
  <2>5. (W = {} => Cardinality(W) = 0) /\ (S = {} => Cardinality(S) = 0)
    BY FS_EmptySet
  <2>6. ((\E i : W = {i}) => Cardinality(W) = 1) /\ ((\E p : S = {p}) => Cardinality(S) = 1)
    BY FS_Singleton
  <2>7. IF a \in snooped THEN OneAnswer(Out, a) ELSE NoAnswer(Out, a)
    BY <1>1
  <2>8. IF a \in snooped
        THEN \/ Cardinality(W) = 1 /\ Cardinality(S) = 0
             \/ Cardinality(W) = 0 /\ Cardinality(S) = 1
        ELSE Cardinality(W) = 0 /\ Cardinality(S) = 0
    BY <2>1, <2>2, <2>3, <2>4, <2>5, <2>6, <2>7, Zenon DEF OneAnswer, NoAnswer
  <2>9. Cardinality(W) + Cardinality(S) = IF a \in snooped THEN 1 ELSE 0
    BY <2>8
  <2> QED BY <2>9 DEF W, S
<1> QED BY <1>4, <1>6, <1>7 DEF ChiInv, TxnInv

(* With any credit and any load: no message is sent without a credit and   *)
(* no credit is lost, every snoop the home waits for has one answer on its *)
(* way, and a transaction acknowledges once.                               *)
THEOREM MessagesAccounted ==
  ASSUME InitialCredit \in Nat, MaxPending \in Nat
  PROVE  ChiSpec => [](ChiTypeOK /\ CreditsConserved /\ SnoopAnsweredOnce /\ CompAckOnce)
<1>1. ChiInit => ChiInv
  BY ChiStarts
<1>2. ChiInv /\ [ChiNext]_chiVars => ChiInv'
  BY ChiStep
<1>3. ChiInv => ChiTypeOK /\ CreditsConserved /\ SnoopAnsweredOnce /\ CompAckOnce
  BY ChiMeans
<1> QED BY <1>1, <1>2, <1>3, PTL DEF ChiSpec
-----------------------------------------------------------------------------
(* Proofs, for every set of addresses and values, any number of miss       *)
(* registers, any latency and any number of waiting answers.               *)

Lines == [state : {"NONE", "I", "S", "E", "M"}, data : StubValues \cup {Nothing}]
Resps == [addr : StubAddrs, dirty : BOOLEAN, data : StubValues \cup {Nothing},
          wait : Nat]

(* A line in state M holds the value last written, which is what makes an  *)
(* answer that has gone stale harmless.                                    *)
OwnedIsLatest ==
  \A a \in StubAddrs : cache[a].state = "M" => written[a] = cache[a].data

StubTypes ==
  /\ cache \in [StubAddrs -> Lines]
  /\ DOMAIN mshr \subseteq StubAddrs
  /\ resps \in Seq(Resps)
  /\ written \in [StubAddrs -> StubValues \cup {Nothing}]

StubInv == StubTypes /\ OwnedIsLatest /\ DirtyValueKept /\ NeverFetchedOverOwned

(* A dirty answer for a with value v waits in queue q.                     *)
Waits(a, v, q) == \E i \in DOMAIN q : q[i].addr = a /\ q[i].dirty /\ q[i].data = v

LEMMA KeptBy ==
  DirtyValueKept <=>
    \A a \in StubAddrs : written[a] # Nothing =>
      cache[a] = [state |-> "M", data |-> written[a]] \/ Waits(a, written[a], resps)
BY DEF DirtyValueKept, Waits

(* A line in state M with the value written is the kept value.             *)
LEMMA LineIs ==
  ASSUME NEW l \in Lines, NEW v, l.state = "M", l.data = v
  PROVE  l = [state |-> "M", data |-> v]
BY DEF Lines

LEMMA RequestKeeps ==
  ASSUME StubInv, NEW a \in StubAddrs, cache[a].state \notin {"E", "M"}, StubRequest(a)
  PROVE  StubInv'
<1>1. UNCHANGED <<cache, resps, written>> /\ DOMAIN mshr' = DOMAIN mshr \cup {a}
  BY DEF StubRequest
<1> QED BY <1>1 DEF StubInv, StubTypes, OwnedIsLatest, DirtyValueKept, NeverFetchedOverOwned

LEMMA WriteKeeps ==
  ASSUME StubInv, NEW a \in StubAddrs, NEW v \in StubValues, CpuWrite(a, v)
  PROVE  StubInv'
<1>1. CASE cache[a].state \in {"E", "M"}
  <2>1. /\ cache' = [cache EXCEPT ![a] = [state |-> "M", data |-> v]]
        /\ written' = [written EXCEPT ![a] = v]
        /\ UNCHANGED <<mshr, resps>>
    BY <1>1 DEF CpuWrite
  <2>2. a \notin DOMAIN mshr
    BY <1>1 DEF StubInv, NeverFetchedOverOwned
  <2>3. [state |-> "M", data |-> v] \in Lines
    BY DEF Lines
  <2>4. StubTypes'
    BY <2>1, <2>3 DEF StubInv, StubTypes
  <2>5. OwnedIsLatest' /\ NeverFetchedOverOwned'
    BY <2>1, <2>2 DEF StubInv, StubTypes, OwnedIsLatest, NeverFetchedOverOwned
  <2>6. DirtyValueKept'
    BY <2>1 DEF StubInv, StubTypes, DirtyValueKept
  <2> QED BY <2>4, <2>5, <2>6 DEF StubInv
<1>2. CASE cache[a].state \notin {"E", "M"}
  BY <1>2, RequestKeeps DEF CpuWrite
<1> QED BY <1>1, <1>2

LEMMA EvictKeeps ==
  ASSUME StubInv, NEW a \in StubAddrs, EvictLine(a)
  PROVE  StubInv'
<1>1. /\ cache' = [cache EXCEPT ![a] = NoLine]
      /\ written' = [written EXCEPT ![a] = Nothing]
      /\ UNCHANGED <<mshr, resps>>
  BY DEF EvictLine
<1>2. NoLine \in Lines /\ NoLine.state = "NONE"
  BY DEF NoLine, Lines, Nothing
<1>3. StubTypes'
  BY <1>1, <1>2 DEF StubInv, StubTypes
<1>4. OwnedIsLatest' /\ NeverFetchedOverOwned'
  BY <1>1, <1>2 DEF StubInv, StubTypes, OwnedIsLatest, NeverFetchedOverOwned
<1>5. DirtyValueKept'
  BY <1>1 DEF StubInv, StubTypes, DirtyValueKept
<1> QED BY <1>3, <1>4, <1>5 DEF StubInv

LEMMA CompletionKeeps ==
  ASSUME StubInv, NEW a \in StubAddrs, NEW txn, NEW v \in StubValues,
         NEW perm \in Perms, NEW e \in BOOLEAN, Completion(a, txn, v, perm, e)
  PROVE  StubInv'
<1> DEFINE l == [state |-> IF e THEN "I" ELSE StateForPerm(perm), data |-> v]
           w == IF ~e /\ perm = "WRITEBACK" THEN v ELSE written[a]
<1>1. /\ DOMAIN mshr' = DOMAIN mshr \ {a}
      /\ cache' = [cache EXCEPT ![a] = l]
      /\ written' = [written EXCEPT ![a] = w]
      /\ resps' = resps
  BY DEF Completion, Restrict
<1>2. l \in Lines /\ l.data = v /\ (l.state = "M" <=> ~e /\ perm = "WRITEBACK")
  BY DEF Lines, StateForPerm, Perms
<1>3. w \in StubValues \cup {Nothing}
  BY DEF StubInv, StubTypes
<1>4. cache[a].state \notin {"E", "M"}
  BY DEF StubInv, NeverFetchedOverOwned, Completion
<1>5. StubTypes'
  BY <1>1, <1>2, <1>3 DEF StubInv, StubTypes
<1>6. l.state = "M" => w = v
  BY <1>2
<1>7. w # v => w = written[a]
  OBVIOUS
<1>8. l.state # "M" => w = written[a]
  BY <1>2
<1> HIDE DEF l, w
<1>9. OwnedIsLatest' /\ NeverFetchedOverOwned'
  BY <1>1, <1>2, <1>6 DEF StubInv, StubTypes, OwnedIsLatest, NeverFetchedOverOwned
<1>10. DirtyValueKept'
  <2> SUFFICES ASSUME NEW b \in StubAddrs, written'[b] # Nothing
               PROVE  \/ cache'[b] = [state |-> "M", data |-> written'[b]]
                      \/ Waits(b, written'[b], resps')
    BY KeptBy DEF DirtyValueKept, Waits
  <2>1. CASE b # a
    BY <1>1, <2>1 DEF StubInv, StubTypes, DirtyValueKept, Waits
  <2>2. CASE b = a /\ l.state = "M"
    BY <1>1, <1>2, <1>6, <2>2, LineIs DEF StubInv, StubTypes
  <2>3. CASE b = a /\ l.state # "M"
    <3>1. written'[b] = written[b] /\ b = a
      BY <1>1, <1>8, <2>3 DEF StubInv, StubTypes
    <3>2. cache[b] # [state |-> "M", data |-> written[b]]
      BY <1>4, <3>1
    <3> QED BY <1>1, <3>1, <3>2 DEF StubInv, DirtyValueKept, Waits
  <2> QED BY <2>1, <2>2, <2>3
<1> QED BY <1>5, <1>9, <1>10 DEF StubInv

LEMMA SnoopKeeps ==
  ASSUME SnoopLatency \in Nat, StubInv, NEW a \in StubAddrs,
         NEW type \in {"INVALIDATE", "CLEAN", "FORWARD"}, Snoop(a, type)
  PROVE  StubInv'
<1> DEFINE r == [addr |-> a, dirty |-> cache[a].state = "M",
                 data |-> IF Hit(a) THEN cache[a].data ELSE Nothing,
                 wait |-> SnoopLatency]
           l == [cache[a] EXCEPT !.state = AfterSnoop(cache[a].state, type)]
<1>1. /\ resps' = Append(resps, r) /\ UNCHANGED <<mshr, written>>
      /\ IF Hit(a) THEN cache' = [cache EXCEPT ![a] = l] ELSE cache' = cache
  BY DEF Snoop, StubInv, StubTypes
<1>2. cache[a] \in Lines
  BY DEF StubInv, StubTypes
<1>3. r \in Resps
  BY <1>2 DEF Resps, Lines
<1>4. /\ r.addr = a
      /\ cache[a].state = "M" => r.dirty
      /\ cache[a].state = "M" => r.data = cache[a].data
  BY DEF Hit
<1>5. l \in Lines /\ l.data = cache[a].data
      /\ (l.state = "M" => cache[a].state = "M")
      /\ (l.state = "E" => cache[a].state = "E")
  BY <1>2 DEF Lines, AfterSnoop
<1> HIDE DEF r, l
<1>6. /\ resps' \in Seq(Resps) /\ Len(resps') = Len(resps) + 1 /\ Len(resps) \in Nat
      /\ DOMAIN resps = 1..Len(resps) /\ DOMAIN resps' = 1..(Len(resps) + 1)
      /\ \A i \in 1..Len(resps) : resps'[i] = resps[i]
      /\ resps'[Len(resps) + 1] = r
  BY <1>1, <1>3, AppendProperties, LenProperties DEF StubInv, StubTypes
<1>7. StubTypes'
  BY <1>1, <1>5, <1>6 DEF StubInv, StubTypes
<1>8. OwnedIsLatest' /\ NeverFetchedOverOwned'
  BY <1>1, <1>5 DEF StubInv, StubTypes, OwnedIsLatest, NeverFetchedOverOwned
<1>9. DirtyValueKept'
  <2> SUFFICES ASSUME NEW b \in StubAddrs, written[b] # Nothing
               PROVE  \/ cache'[b] = [state |-> "M", data |-> written[b]]
                      \/ Waits(b, written[b], resps')
    BY <1>1 DEF DirtyValueKept, Waits
  <2>1. CASE Waits(b, written[b], resps)
    BY <1>6, <2>1 DEF Waits
  <2>2. CASE cache[b] = [state |-> "M", data |-> written[b]] /\ b # a
    BY <1>1, <2>2 DEF StubInv, StubTypes
  <2>3. CASE cache[b] = [state |-> "M", data |-> written[b]] /\ b = a
    <3>1. cache[a].state = "M" /\ cache[a].data = written[b]
      BY <2>3
    <3>2. r.addr = b /\ r.dirty /\ r.data = written[b]
      BY <1>4, <2>3, <3>1
    <3>3. Len(resps) + 1 \in DOMAIN resps'
      BY <1>6
    <3> QED BY <1>6, <3>2, <3>3 DEF Waits
  <2> QED BY <2>1, <2>2, <2>3, KeptBy DEF StubInv
<1> QED BY <1>7, <1>8, <1>9 DEF StubInv

LEMMA RespOutKeeps ==
  ASSUME StubInv, SnoopRespOut
  PROVE  StubInv'
<1> DEFINE r == Head(resps)
<1>1. /\ resps # << >> /\ resps' = Tail(resps) /\ UNCHANGED <<cache, mshr>>
      /\ written' = IF r.dirty /\ written[r.addr] = r.data /\ cache[r.addr].state # "M"
                    THEN [written EXCEPT ![r.addr] = Nothing] ELSE written
  BY DEF SnoopRespOut
<1>2. /\ r \in Resps /\ resps[1] = r /\ Len(resps) \in Nat
      /\ resps' \in Seq(Resps) /\ DOMAIN resps = 1..Len(resps)
      /\ DOMAIN resps' = 1..(Len(resps) - 1)
      /\ \A i \in 1..(Len(resps) - 1) : resps'[i] = resps[i + 1]
  BY <1>1, HeadTailProperties, LenProperties DEF StubInv, StubTypes
<1>3. r.addr \in StubAddrs
  BY <1>2 DEF Resps
<1> HIDE DEF r
<1>4. StubTypes'
  BY <1>1, <1>2, <1>3 DEF StubInv, StubTypes
<1>5. OwnedIsLatest' /\ NeverFetchedOverOwned'
  BY <1>1, <1>3 DEF StubInv, StubTypes, OwnedIsLatest, NeverFetchedOverOwned
<1>6. DirtyValueKept'
  <2> SUFFICES ASSUME NEW b \in StubAddrs, written'[b] # Nothing
               PROVE  \/ cache[b] = [state |-> "M", data |-> written'[b]]
                      \/ Waits(b, written'[b], resps')
    BY <1>1 DEF DirtyValueKept, Waits
  <2>1. written'[b] = written[b]
    BY <1>1, <1>3 DEF StubInv, StubTypes
  <2>2. CASE cache[b].state = "M"
    BY <2>1, <2>2, LineIs DEF StubInv, StubTypes, OwnedIsLatest
  <2>3. CASE cache[b].state # "M"
    <3>1. PICK i \in 1..Len(resps) : /\ resps[i].addr = b /\ resps[i].dirty
                                     /\ resps[i].data = written[b]
      <4>1. cache[b] # [state |-> "M", data |-> written[b]]
        BY <2>3
      <4>2. Waits(b, written[b], resps)
        BY <2>1, <4>1, KeptBy DEF StubInv
      <4> QED BY <1>2, <4>2 DEF Waits
    <3>2. i # 1
      BY <1>1, <1>2, <1>3, <2>1, <2>3, <3>1 DEF StubInv, StubTypes
    <3>3. i - 1 \in DOMAIN resps' /\ resps'[i - 1] = resps[i]
      BY <1>2, <3>2
    <3> QED BY <2>1, <3>1, <3>3 DEF Waits
  <2> QED BY <2>2, <2>3
<1> QED BY <1>4, <1>5, <1>6 DEF StubInv

LEMMA TickKeeps ==
  ASSUME StubInv, StubTick
  PROVE  StubInv'
<1>1. /\ DOMAIN resps = 1..Len(resps) /\ Len(resps) \in Nat
      /\ \A i \in DOMAIN resps : resps[i] \in Resps
  BY LenProperties, ElementOfSeq DEF StubInv, StubTypes
<1>2. /\ resps' = [i \in DOMAIN resps |->
                     [resps[i] EXCEPT !.wait = IF @ > 0 THEN @ - 1 ELSE 0]]
      /\ UNCHANGED <<cache, mshr, written>>
  BY DEF StubTick
<1>3. \A i \in DOMAIN resps : /\ resps'[i] \in Resps
                              /\ resps'[i].addr = resps[i].addr
                              /\ resps'[i].dirty = resps[i].dirty
                              /\ resps'[i].data = resps[i].data
  BY <1>1, <1>2 DEF Resps
<1>4. resps' \in Seq(Resps) /\ DOMAIN resps' = DOMAIN resps
  BY <1>1, <1>2, <1>3, IsASeq
<1>5. StubTypes' /\ OwnedIsLatest' /\ NeverFetchedOverOwned'
  BY <1>2, <1>4 DEF StubInv, StubTypes, OwnedIsLatest, NeverFetchedOverOwned
<1>6. DirtyValueKept'
  <2> SUFFICES ASSUME NEW b \in StubAddrs, written[b] # Nothing
               PROVE  \/ cache[b] = [state |-> "M", data |-> written[b]]
                      \/ Waits(b, written[b], resps')
    BY <1>2 DEF DirtyValueKept, Waits
  <2>1. CASE Waits(b, written[b], resps)
    BY <1>3, <1>4, <2>1 DEF Waits
  <2> QED BY <2>1, KeptBy DEF StubInv
<1> QED BY <1>5, <1>6 DEF StubInv

(* A value the processor wrote stays in the cache or in a dirty answer on  *)
(* its way until it was handed on, and nothing is fetched over a line that *)
(* is owned, however writes, snoops, completions, errors and evictions     *)
(* overlap.                                                                *)
THEOREM WrittenIsKept ==
  ASSUME SnoopLatency \in Nat
  PROVE  StubSpec => [](DirtyValueKept /\ NeverFetchedOverOwned)
<1>1. StubInit => StubInv
  <2> SUFFICES ASSUME StubInit PROVE StubInv
    OBVIOUS
  <2>1. NoLine \in Lines /\ NoLine.state = "NONE"
    BY DEF NoLine, Lines, Nothing
  <2>2. resps \in Seq(Resps)
    BY EmptySeq DEF StubInit
  <2> QED BY <2>1, <2>2 DEF StubInit, StubInv, StubTypes, OwnedIsLatest,
             DirtyValueKept, NeverFetchedOverOwned
<1>2. StubInv /\ [StubNext]_stubVars => StubInv'
  <2> SUFFICES ASSUME StubInv, [StubNext]_stubVars PROVE StubInv'
    OBVIOUS
  <2>1. ASSUME NEW a \in StubAddrs, CpuRead(a) PROVE StubInv'
    BY <2>1, RequestKeeps DEF CpuRead, Hit
  <2>2. CASE SnoopRespOut \/ StubTick
    BY <2>2, RespOutKeeps, TickKeeps
  <2>3. CASE UNCHANGED stubVars
    BY <2>3 DEF stubVars, StubInv, StubTypes, OwnedIsLatest, DirtyValueKept,
                NeverFetchedOverOwned
  <2> QED BY <2>1, <2>2, <2>3, WriteKeeps, EvictKeeps, CompletionKeeps, SnoopKeeps
          DEF StubNext
<1> QED BY <1>1, <1>2, PTL DEF StubSpec, StubInv

-----------------------------------------------------------------------------
(* CollectivePlane: what outlives a group, and what does not.               *)
PlaneKinds == plane \in {"null", "local", "fabric"}

GroupsKnown ==
  /\ next_gid \in Nat \ {0}
  /\ \A g \in DOMAIN groups : g \in 1..(next_gid - 1) /\ groups[g] \subseteq Members

RegionsApart ==
  /\ \A r \in DOMAIN regions : regions[r].gid \in DOMAIN groups
  /\ \A q, r \in DOMAIN regions : q # r => q \cap r = {}

RoundOpen(k, x) ==
  /\ DOMAIN x = {"participants", "contributions", "first"}
  /\ k[1] \in DOMAIN groups /\ k[2] \in Ops
  /\ x.participants \subseteq groups[k[1]]
  /\ DOMAIN x.contributions \subseteq x.participants
  /\ x.participants \ DOMAIN x.contributions # {}

RoundsOpen ==
  /\ plane # "fabric" => DOMAIN rounds = {}
  /\ \A k \in DOMAIN rounds : RoundOpen(k, rounds[k])

BarrierOpen(k, s) ==
  /\ k[1] \in DOMAIN groups
  /\ s \subseteq groups[k[1]]
  /\ groups[k[1]] \ s # {}

BarriersOpen ==
  plane # "fabric" => \A k \in DOMAIN barriers : BarrierOpen(k, barriers[k])

(* What holds of a plane between two calls: what it keeps names live       *)
(* groups, regions lie apart, and rounds and the barriers of the fabric     *)
(* plane still wait for a member.                                          *)
PlaneInv == PlaneKinds /\ GroupsKnown /\ RegionsApart /\ RoundsOpen /\ BarriersOpen

LEMMA WithoutIs ==
  ASSUME NEW f, NEW S
  PROVE  /\ DOMAIN Without(f, S) = DOMAIN f \ S
         /\ \A x \in DOMAIN f \ S : Without(f, S)[x] = f[x]
  BY DEF Without, Restrict

LEMMA PlaneInitInv == PlaneInit => PlaneInv
<1> SUFFICES ASSUME PlaneInit PROVE PlaneInv
  OBVIOUS
<1>1. DOMAIN << >> = {}
  OBVIOUS
<1> QED
  BY <1>1 DEF PlaneInit, PlaneInv, PlaneKinds, GroupsKnown, RegionsApart, RoundsOpen, BarriersOpen

(* Only the groups change, by one that is new.                             *)
LEMMA CreateKeeps ==
  ASSUME PlaneInv, NEW members \in SUBSET Members, GroupCreate(members)
  PROVE  PlaneInv'
<1> USE DEF PlaneInv
<1>1. /\ DOMAIN groups' = DOMAIN groups \cup {next_gid}
      /\ groups'[next_gid] = members
      /\ \A x \in DOMAIN groups : x # next_gid => groups'[x] = groups[x]
  <2>1. groups' = With(groups, next_gid, members)
    BY DEF GroupCreate
  <2> QED
    BY <2>1 DEF With
<1>2. next_gid \notin DOMAIN groups
  BY DEF GroupsKnown
<1>3. UNCHANGED <<plane, current, regions, rounds, barriers, events>> /\ next_gid' = next_gid + 1
  BY DEF GroupCreate
<1>4. PlaneKinds' /\ GroupsKnown'
  <2>1. \A g \in DOMAIN groups : g \in 1..(next_gid' - 1)
    BY <1>3 DEF GroupsKnown
  <2>2. next_gid \in 1..(next_gid' - 1) /\ next_gid' \in Nat \ {0}
    BY <1>3 DEF GroupsKnown
  <2> QED
    BY <1>1, <1>2, <1>3, <2>1, <2>2 DEF PlaneKinds, GroupsKnown
<1>5. RegionsApart'
  BY <1>1, <1>3 DEF RegionsApart
<1>6. RoundsOpen'
  BY <1>1, <1>2, <1>3 DEF RoundsOpen, RoundOpen
<1>7. BarriersOpen'
  BY <1>1, <1>2, <1>3 DEF BarriersOpen, BarrierOpen
<1> QED
  BY <1>4, <1>5, <1>6, <1>7

LEMMA RegionsAfterDestroy ==
  ASSUME RegionsApart, NEW g,
         regions' = Without(regions, RegionsOf(g)), groups' = Without(groups, {g})
  PROVE  RegionsApart'
<1>1. /\ DOMAIN groups' = DOMAIN groups \ {g}
      /\ DOMAIN regions' = DOMAIN regions \ RegionsOf(g)
      /\ \A r \in DOMAIN regions \ RegionsOf(g) : regions'[r] = regions[r]
  BY WithoutIs
<1> QED
  BY <1>1 DEF RegionsApart, RegionsOf

LEMMA LocalDestroyKeeps ==
  ASSUME PlaneInv, NEW g, LocalGroupDestroy(g)
  PROVE  PlaneInv'
<1> USE DEF PlaneInv
<1>1. /\ plane = "local"
      /\ groups' = Without(groups, {g}) /\ regions' = Without(regions, RegionsOf(g))
      /\ barriers' = Without(barriers, PhasesOf(g))
      /\ UNCHANGED <<plane, current, rounds, next_gid>>
  BY DEF LocalGroupDestroy
<1>2. /\ DOMAIN groups' = DOMAIN groups \ {g}
      /\ \A x \in DOMAIN groups \ {g} : groups'[x] = groups[x]
      /\ DOMAIN barriers' = DOMAIN barriers \ PhasesOf(g)
      /\ \A x \in DOMAIN barriers \ PhasesOf(g) : barriers'[x] = barriers[x]
  BY <1>1, WithoutIs
<1>3. PlaneKinds' /\ GroupsKnown'
  BY <1>1, <1>2 DEF PlaneKinds, GroupsKnown
<1>4. RegionsApart'
  BY <1>1, RegionsAfterDestroy
<1>5. RoundsOpen'
  BY <1>1 DEF RoundsOpen
<1>6. BarriersOpen'
  BY <1>1, <1>2 DEF BarriersOpen, BarrierOpen, PhasesOf
<1> QED
  BY <1>3, <1>4, <1>5, <1>6

LEMMA FabricDestroyKeeps ==
  ASSUME PlaneInv, NEW g, FabricGroupDestroy(g)
  PROVE  PlaneInv'
<1> USE DEF PlaneInv
<1>1. /\ plane = "fabric" /\ ~HasInflight(g)
      /\ groups' = Without(groups, {g}) /\ regions' = Without(regions, RegionsOf(g))
      /\ UNCHANGED <<plane, current, rounds, barriers, events, next_gid>>
  BY DEF FabricGroupDestroy
<1>2. /\ DOMAIN groups' = DOMAIN groups \ {g}
      /\ \A x \in DOMAIN groups \ {g} : groups'[x] = groups[x]
  BY <1>1, WithoutIs
<1>3. PlaneKinds' /\ GroupsKnown'
  BY <1>1, <1>2 DEF PlaneKinds, GroupsKnown
<1>4. RegionsApart'
  BY <1>1, RegionsAfterDestroy
<1>5. RoundsOpen'
  BY <1>1, <1>2 DEF RoundsOpen, RoundOpen, HasInflight
<1>6. BarriersOpen'
  BY <1>1 DEF BarriersOpen
<1> QED
  BY <1>3, <1>4, <1>5, <1>6

LEMMA RegisterKeeps ==
  ASSUME PlaneInv, NEW g, NEW r, RegisterRegion(g, r)
  PROVE  PlaneInv'
<1> USE DEF PlaneInv
<1>1. /\ g \in DOMAIN groups /\ ~Overlapped(r)
      /\ regions' = With(regions, r, [gid |-> g, epoch_valid |-> FALSE])
      /\ UNCHANGED <<plane, current, groups, rounds, barriers, events, next_gid>>
  BY DEF RegisterRegion, FabricRegisterStatus, LocalRegisterStatus
<1>2. RegionsApart'
  <2>1. /\ DOMAIN regions' = DOMAIN regions \cup {r}
        /\ regions'[r] = [gid |-> g, epoch_valid |-> FALSE]
        /\ \A x \in DOMAIN regions : x # r => regions'[x] = regions[x]
    BY <1>1 DEF With
  <2>2. \A q \in DOMAIN regions : q \cap r = {}
    BY <1>1 DEF Overlapped
  <2>3. \A q, x \in DOMAIN regions' : q # x => q \cap x = {}
    BY <2>1, <2>2 DEF RegionsApart
  <2>4. ASSUME NEW x \in DOMAIN regions'  PROVE  regions'[x].gid \in DOMAIN groups'
    <3>1. CASE x = r
      BY <1>1, <2>1, <3>1
    <3>2. CASE x # r
      BY <1>1, <2>1, <3>2 DEF RegionsApart
    <3> QED
      BY <3>1, <3>2
  <2> QED
    BY <2>3, <2>4 DEF RegionsApart
<1>3. PlaneKinds' /\ GroupsKnown' /\ RoundsOpen' /\ BarriersOpen'
  BY <1>1 DEF PlaneKinds, GroupsKnown, RoundsOpen, RoundOpen, BarriersOpen, BarrierOpen
<1> QED
  BY <1>2, <1>3

LEMMA RegionDrainKeeps ==
  ASSUME PlaneInv, NEW g, NEW r, CompleteDrain(g, r)
  PROVE  PlaneInv'
<1> USE DEF PlaneInv
<1>1. /\ DOMAIN regions' = DOMAIN regions
      /\ \A x \in DOMAIN regions : regions'[x].gid = regions[x].gid
  BY DEF CompleteDrain
<1>2. UNCHANGED <<plane, current, groups, rounds, barriers, events, next_gid>>
  BY DEF CompleteDrain
<1> QED
  BY <1>1, <1>2 DEF PlaneKinds, GroupsKnown, RegionsApart, RoundsOpen, RoundOpen, BarriersOpen, BarrierOpen

(* The rounds change, at one key, on the fabric plane.                     *)
LEMMA RoundsChange ==
  ASSUME PlaneInv, plane = "fabric", NEW k,
         \/ rounds' = Without(rounds, {k})
         \/ \E x : RoundOpen(k, x) /\ rounds' = With(rounds, k, x),
         UNCHANGED <<plane, groups, regions, barriers, next_gid>>
  PROVE  PlaneInv'
<1> USE DEF PlaneInv
<1>1. RoundsOpen'
  <2>1. CASE rounds' = Without(rounds, {k})
    <3>1. /\ DOMAIN rounds' = DOMAIN rounds \ {k}
          /\ \A x \in DOMAIN rounds \ {k} : rounds'[x] = rounds[x]
      BY <2>1, WithoutIs
    <3> QED
      BY <3>1 DEF RoundsOpen, RoundOpen
  <2>2. CASE \E x : RoundOpen(k, x) /\ rounds' = With(rounds, k, x)
    <3>1. PICK x : RoundOpen(k, x) /\ rounds' = With(rounds, k, x)
      BY <2>2
    <3>2. /\ DOMAIN rounds' = DOMAIN rounds \cup {k}
          /\ rounds'[k] = x
          /\ \A y \in DOMAIN rounds : y # k => rounds'[y] = rounds[y]
      BY <3>1 DEF With
    <3> QED
      BY <3>1, <3>2 DEF RoundsOpen, RoundOpen
  <2> QED
    BY <2>1, <2>2
<1> QED
  BY <1>1 DEF PlaneKinds, GroupsKnown, RegionsApart, BarriersOpen, BarrierOpen

(* The round a send finds is open, or new with nothing contributed.        *)
LEMMA RoundBefore ==
  ASSUME PlaneInv, NEW g \in DOMAIN groups, NEW op \in Ops, NEW tag, NEW mask
  PROVE  LET x == RoundOf(g, op, tag, mask)
         IN  /\ DOMAIN x = {"participants", "contributions", "first"}
             /\ x.participants \subseteq groups[g]
             /\ DOMAIN x.contributions \subseteq x.participants
             /\ x.participants # {} => x.participants \ DOMAIN x.contributions # {}
<1> DEFINE key == <<g, op, tag>>
<1>1. CASE key \in DOMAIN rounds
  <2>1. RoundOpen(key, rounds[key])
    BY <1>1 DEF PlaneInv, RoundsOpen
  <2> QED
    BY <1>1, <2>1 DEF RoundOpen, RoundOf
<1>2. CASE key \notin DOMAIN rounds
  <2>1. RoundOf(g, op, tag, mask)
          = [participants |-> ParticipantsOf(g, op, mask), contributions |-> << >>, first |-> << >>]
    BY <1>2 DEF RoundOf
  <2>2. ParticipantsOf(g, op, mask) \subseteq groups[g]
    BY DEF ParticipantsOf
  <2> QED
    BY <2>1, <2>2
<1> QED
  BY <1>1, <1>2

LEMMA SendKeeps ==
  ASSUME PlaneInv, NEW g, NEW m, NEW op \in Ops, NEW type, NEW tag, NEW addr, NEW v,
         NEW reduce_op, NEW mask, PlaneSend(g, m, op, type, tag, addr, v, reduce_op, mask)
  PROVE  PlaneInv'
<1> DEFINE key  == <<g, op, tag>>
           open == RoundOf(g, op, tag, mask)
<1>1. plane = "fabric" /\ g \in DOMAIN groups
  BY DEF PlaneSend, FabricSendStatus
<1>2. /\ DOMAIN open = {"participants", "contributions", "first"}
      /\ open.participants \subseteq groups[g]
      /\ DOMAIN open.contributions \subseteq open.participants
      /\ open.participants # {} => open.participants \ DOMAIN open.contributions # {}
  BY <1>1, RoundBefore
<1>3. CASE SendOutsideMask(g, m, op, tag, mask)
  <2>1. /\ open.participants # {} /\ rounds' = With(rounds, key, open)
        /\ UNCHANGED <<plane, groups, regions, barriers, next_gid>>
    BY <1>3 DEF SendOutsideMask
  <2>2. RoundOpen(key, open)
    BY <1>1, <1>2, <2>1 DEF RoundOpen
  <2> HIDE DEF open, key
  <2> QED
    BY <1>1, <2>1, <2>2, RoundsChange
<1>4. CASE Contribute(g, m, op, tag, v, reduce_op, mask)
  <2> DEFINE round == [open EXCEPT !.first = IF @ = << >> THEN <<v>> ELSE @,
                                   !.contributions = With(@, m, v)]
  <2>1. /\ m \in open.participants
        /\ UNCHANGED <<plane, groups, regions, barriers, next_gid>>
        /\ \/ rounds' = Without(rounds, {key})
           \/ DOMAIN round.contributions # round.participants /\ rounds' = With(rounds, key, round)
    BY <1>4 DEF Contribute
  <2>2. /\ DOMAIN round = {"participants", "contributions", "first"}
        /\ round.participants = open.participants
        /\ round.contributions = With(open.contributions, m, v)
    <3> HIDE DEF open
    <3> QED
      BY <1>2
  <2>3. DOMAIN round.contributions \subseteq round.participants
    <3> HIDE DEF open, round
    <3> QED
      BY <1>2, <2>1, <2>2 DEF With
  <2>4. DOMAIN round.contributions # round.participants => RoundOpen(key, round)
    <3> HIDE DEF open, round
    <3>1. round.participants \subseteq groups[g]
      BY <1>2, <2>2
    <3>2. key[1] = g /\ key[2] = op
      OBVIOUS
    <3> HIDE DEF key
    <3> QED
      BY <1>1, <2>2, <2>3, <3>1, <3>2 DEF RoundOpen
  <2> HIDE DEF open, round, key
  <2> QED
    BY <1>1, <2>1, <2>4, RoundsChange
<1> QED
  BY <1>3, <1>4 DEF PlaneSend

LEMMA BarrierKeeps ==
  ASSUME IsFiniteSet(Members), PlaneInv, NEW g, NEW phase, Barrier(g, phase)
  PROVE  PlaneInv'
<1> DEFINE key == <<g, phase>>
           arrived == {current} \cup IF key \in DOMAIN barriers THEN barriers[key] ELSE {}
<1>1. /\ g \in DOMAIN groups /\ current \in groups[g]
      /\ UNCHANGED <<plane, current, groups, regions, rounds, next_gid>>
  BY DEF Barrier, BarrierStatus
<1>2. \/ barriers' = Without(barriers, {key})
      \/ ~(Cardinality(arrived) >= Cardinality(groups[g])) /\ barriers' = With(barriers, key, arrived)
  BY DEF Barrier
<1>3. IsFiniteSet(groups[g])
  BY <1>1, FS_Subset DEF PlaneInv, GroupsKnown
<1>4. ASSUME plane # "fabric", ~(Cardinality(arrived) >= Cardinality(groups[g]))
      PROVE  BarrierOpen(key, arrived)
  <2>1. arrived \subseteq groups[g]
    BY <1>1, <1>4 DEF PlaneInv, BarriersOpen, BarrierOpen
  <2> HIDE DEF arrived
  <2>2. Cardinality(groups[g]) \in Nat
    BY <1>3, FS_CardinalityType
  <2>3. arrived # groups[g]
    BY <1>4, <2>2
  <2> QED
    BY <1>1, <2>1, <2>3 DEF BarrierOpen
<1>5. BarriersOpen'
  <2> HIDE DEF arrived
  <2>1. ASSUME plane # "fabric"  PROVE  \A k \in DOMAIN barriers' : BarrierOpen(k, barriers'[k])
    <3>1. CASE barriers' = Without(barriers, {key})
      <4>1. /\ DOMAIN barriers' = DOMAIN barriers \ {key}
            /\ \A x \in DOMAIN barriers \ {key} : barriers'[x] = barriers[x]
        BY <3>1, WithoutIs
      <4> QED
        BY <2>1, <4>1 DEF PlaneInv, BarriersOpen
    <3>2. CASE barriers' = With(barriers, key, arrived) /\ BarrierOpen(key, arrived)
      <4> HIDE DEF key
      <4>1. /\ DOMAIN barriers' = DOMAIN barriers \cup {key}
            /\ barriers'[key] = arrived
            /\ \A x \in DOMAIN barriers : x # key => barriers'[x] = barriers[x]
        BY <3>2 DEF With
      <4> QED
        BY <2>1, <3>2, <4>1 DEF PlaneInv, BarriersOpen
    <3> QED
      BY <1>2, <1>4, <2>1, <3>1, <3>2
  <2> QED
    BY <1>1, <2>1 DEF BarriersOpen, BarrierOpen
<1> QED
  BY <1>1, <1>5 DEF PlaneInv, PlaneKinds, GroupsKnown, RegionsApart, RoundsOpen, RoundOpen

LEMMA PlaneStepInv ==
  ASSUME IsFiniteSet(Members), PlaneInv, PlaneNext
  PROVE  PlaneInv'
<1>1. CASE UNCHANGED <<plane, groups, regions, rounds, barriers, next_gid>>
  BY <1>1 DEF PlaneInv, PlaneKinds, GroupsKnown, RegionsApart, RoundsOpen, RoundOpen,
              BarriersOpen, BarrierOpen
<1>2. CASE NullOperation
  BY <1>1, <1>2 DEF NullOperation, planeVars
<1>3. CASE \E members \in SUBSET Members : GroupCreate(members)
  BY <1>3, CreateKeeps
<1>4. ASSUME NEW g \in Gids, LocalGroupDestroy(g)  PROVE  PlaneInv'
  BY <1>4, LocalDestroyKeeps
<1>5. ASSUME NEW g \in Gids, FabricGroupDestroy(g)  PROVE  PlaneInv'
  BY <1>5, FabricDestroyKeeps
<1>6. ASSUME NEW g \in Gids, NEW r \in Ranges, RegisterRegion(g, r)  PROVE  PlaneInv'
  BY <1>6, RegisterKeeps
<1>7. ASSUME NEW g \in Gids, NEW r \in Ranges, CompleteDrain(g, r)  PROVE  PlaneInv'
  BY <1>7, RegionDrainKeeps
<1>8. ASSUME NEW g \in Gids, NEW tag \in Tags, Barrier(g, tag)  PROVE  PlaneInv'
  BY <1>8, BarrierKeeps
<1>9. ASSUME NEW g \in Gids, NEW m, NEW tag, NEW op \in Ops, NEW type, NEW addr, NEW v,
             NEW reduce_op, NEW mask, PlaneSend(g, m, op, type, tag, addr, v, reduce_op, mask)
      PROVE  PlaneInv'
  BY <1>9, SendKeeps
<1>10. CASE \E addr \in UNION Ranges : LocalSend(addr)
  BY <1>1, <1>10 DEF LocalSend, planeVars
<1>11. CASE \E m \in Members : SetCurrentMember(m)
  BY <1>1, <1>11 DEF SetCurrentMember
<1>12. CASE Recv
  BY <1>1, <1>12 DEF Recv
<1> QED
  BY <1>2, <1>3, <1>4, <1>5, <1>6, <1>7, <1>8, <1>9, <1>10, <1>11, <1>12 DEF PlaneNext

LEMMA ClassifiedAlike == KeysClassifiedAlike
<1> USE DEF KeysClassifiedAlike, KeyClass
<1> QED
  OBVIOUS

LEMMA PlaneInvHolds ==
  ASSUME IsFiniteSet(Members)
  PROVE  PlaneSpec => []PlaneInv
<1>1. PlaneInit => PlaneInv
  BY PlaneInitInv
<1>2. PlaneInv /\ [PlaneNext]_planeVars => PlaneInv'
  <2>1. CASE PlaneNext
    BY <2>1, PlaneStepInv
  <2>2. CASE UNCHANGED planeVars
    BY <2>2 DEF planeVars, PlaneInv, PlaneKinds, GroupsKnown, RegionsApart, RoundsOpen, RoundOpen,
                BarriersOpen, BarrierOpen
  <2> QED
    BY <2>1, <2>2
<1> QED
  BY <1>1, <1>2, PTL DEF PlaneSpec

(* At every time nothing outlives its group and nothing complete is left   *)
(* waiting, for any members, regions and tags.                             *)
THEOREM NothingIsLeftBehind ==
  ASSUME IsFiniteSet(Members)
  PROVE  PlaneSpec => []NothingOutlivesItsGroup
<1>1. PlaneSpec => []PlaneInv
  BY PlaneInvHolds
<1>2. PlaneInv => NothingOutlivesItsGroup
  <2> SUFFICES ASSUME PlaneInv PROVE NothingOutlivesItsGroup
    OBVIOUS
  <2>1. ASSUME NEW k \in DOMAIN rounds
        PROVE  /\ k[1] \in DOMAIN groups /\ k[2] \in Capabilities(plane)
               /\ rounds[k].participants \subseteq groups[k[1]]
               /\ rounds[k].participants \ DOMAIN rounds[k].contributions # {}
    BY <2>1 DEF PlaneInv, RoundsOpen, RoundOpen, Capabilities
  <2>2. plane \notin ExclusionPlanes =>
          \A k \in DOMAIN barriers : k[1] \in DOMAIN groups /\ groups[k[1]] \ barriers[k] # {}
    BY DEF PlaneInv, BarriersOpen, BarrierOpen, ExclusionPlanes
  <2>3. /\ \A r \in DOMAIN regions : regions[r].gid \in DOMAIN groups
        /\ \A q, r \in DOMAIN regions : q # r => q \cap r = {}
    BY DEF PlaneInv, RegionsApart
  <2> QED
    BY <2>1, <2>2, <2>3, ClassifiedAlike DEF NothingOutlivesItsGroup
<1> QED
  BY <1>1, <1>2, PTL

(* A group that is gone never comes back, nor is its number given to       *)
(* another: who still holds it cannot reach a group it is not a member of. *)
GroupsStayGone ==
  \A g \in 1..(next_gid - 1) : g \notin DOMAIN groups => g \notin DOMAIN groups'

THEOREM GroupsNeverReturn ==
  ASSUME IsFiniteSet(Members)
  PROVE  PlaneSpec => [][GroupsStayGone]_planeVars
<1>1. PlaneSpec => []PlaneInv
  BY PlaneInvHolds
<1>2. ASSUME PlaneInv, [PlaneNext]_planeVars  PROVE  [GroupsStayGone]_planeVars
  <2>1. CASE groups' = groups
    BY <2>1 DEF GroupsStayGone
  <2>2. ASSUME NEW members, GroupCreate(members)  PROVE  GroupsStayGone
    <3>1. DOMAIN groups' = DOMAIN groups \cup {next_gid}
      BY <2>2 DEF GroupCreate, With
    <3>2. next_gid \notin 1..(next_gid - 1)
      BY <1>2 DEF PlaneInv, GroupsKnown
    <3> QED
      BY <3>1, <3>2 DEF GroupsStayGone
  <2>3. ASSUME NEW g, groups' = Without(groups, {g})  PROVE  GroupsStayGone
    <3>1. DOMAIN groups' = DOMAIN groups \ {g}
      BY <2>3, WithoutIs
    <3> QED
      BY <3>1 DEF GroupsStayGone
  <2>4. ASSUME NEW g, NEW m, NEW op, NEW type, NEW tag, NEW addr, NEW v, NEW reduce_op, NEW mask,
               PlaneSend(g, m, op, type, tag, addr, v, reduce_op, mask)
        PROVE  groups' = groups
    BY <2>4 DEF PlaneSend, SendOutsideMask, Contribute
  <2>5. ASSUME NEW g, LocalGroupDestroy(g) \/ FabricGroupDestroy(g)  PROVE  GroupsStayGone
    <3>1. groups' = Without(groups, {g})
      BY <2>5 DEF LocalGroupDestroy, FabricGroupDestroy
    <3> QED
      BY <2>3, <3>1
  <2>6. ASSUME NEW g, NEW r, RegisterRegion(g, r) \/ CompleteDrain(g, r)  PROVE  groups' = groups
    BY <2>6 DEF RegisterRegion, CompleteDrain
  <2>7. ASSUME NEW g, NEW tag, Barrier(g, tag)  PROVE  groups' = groups
    BY <2>7 DEF Barrier
  <2>8. ASSUME NullOperation \/ Recv \/ (\E m : SetCurrentMember(m)) \/ (\E addr : LocalSend(addr))
        PROVE  groups' = groups
    BY <2>8 DEF NullOperation, Recv, SetCurrentMember, LocalSend, planeVars
  <2>9. CASE PlaneNext
    BY <2>9, <2>1, <2>2, <2>4, <2>5, <2>6, <2>7, <2>8 DEF PlaneNext
  <2> QED
    BY <1>2, <2>9
<1> QED
  BY <1>1, <1>2, PTL DEF PlaneSpec

-----------------------------------------------------------------------------
(* CepEngines: what the counters of the engines add up to.                 *)
One(b) == IF b THEN 1 ELSE 0
Has(p, f) == One(req_in[p].flow = f)
KnownFlows == {"Request", "Completion", "Snoop", "SnoopResp", "Writeback"}

(* A set of ports counts port by port.                                     *)
LEMMA PortsCount ==
  ASSUME NEW S \in SUBSET InPorts
  PROVE  Cardinality(S) = One(0 \in S) + One(1 \in S)
<1>1. \/ S = {} \/ S = {0} \/ S = {1} \/ (S = {0, 1} /\ S = {0} \cup {1})
  BY DEF InPorts
<1>2. Cardinality({}) = 0 /\ Cardinality({0}) = 1 /\ Cardinality({1}) = 1
  BY FS_EmptySet, FS_Singleton
<1>3. Cardinality({0, 1}) = 2
  <2>1. IsFiniteSet({0}) /\ 1 \notin {0} /\ {0, 1} = {0} \cup {1}
    BY FS_Singleton
  <2>2. Cardinality({0} \cup {1}) = Cardinality({0}) + 1
    BY <2>1, FS_AddElement
  <2> QED
    BY <1>2, <2>1, <2>2
<1> QED
  BY <1>1, <1>2, <1>3 DEF One

SlotsKnown ==
  /\ DOMAIN req_in = InPorts
  /\ \A p \in InPorts : req_in[p] = EmptySlot
                        \/ (req_in[p].flow \in BundleFlows /\ req_in[p] # EmptySlot)

Counters ==
  /\ DOMAIN received = BundleFlows /\ DOMAIN handled = BundleFlows
  /\ \A f \in BundleFlows : received[f] \in Nat /\ handled[f] \in Nat
  /\ handled["Alien"] = 0
  /\ \A f \in KnownFlows : received[f] = handled[f] + Has(0, f) + Has(1, f)

Tallies ==
  engine \in {"null", "tilelink"} =>
    /\ tally.event \in Nat /\ tally.none \in Nat
    /\ tally.event = handled["Completion"] +
         IF engine = "null" THEN 0 ELSE handled["Snoop"] + handled["SnoopResp"] + handled["Writeback"]
    /\ tally.event + tally.none = handled["Request"] + handled["Completion"] + handled["Snoop"]
                                    + handled["SnoopResp"] + handled["Writeback"]

(* What holds of an engine between two steps.                              *)
EngInv == SlotsKnown /\ Counters /\ Tallies /\ records = leftO /\ records \in Nat

LEMMA CountIs ==
  ASSUME SlotsKnown, NEW f \in BundleFlows
  PROVE  Count(f) = Has(0, f) + Has(1, f)
<1> DEFINE S == {p \in Occupied : req_in[p].flow = f}
<1>1. \A p \in InPorts : p \in S <=> req_in[p].flow = f
  BY DEF SlotsKnown, Occupied, EmptySlot, BundleFlows
<1>2. S \in SUBSET InPorts
  BY DEF Occupied
<1>3. Cardinality(S) = One(0 \in S) + One(1 \in S)
  <2> HIDE DEF S
  <2> QED
    BY <1>2, PortsCount
<1>4. (0 \in S <=> req_in[0].flow = f) /\ (1 \in S <=> req_in[1].flow = f)
  BY <1>1 DEF InPorts
<1> QED
  BY <1>3, <1>4 DEF Count, Has, One

LEMMA OccupiedIs ==
  ASSUME SlotsKnown
  PROVE  Cardinality(Occupied) =
           Has(0, "Request") + Has(0, "Completion") + Has(0, "Snoop") + Has(0, "SnoopResp")
             + Has(0, "Writeback") + Has(0, "Alien")
             + Has(1, "Request") + Has(1, "Completion") + Has(1, "Snoop") + Has(1, "SnoopResp")
             + Has(1, "Writeback") + Has(1, "Alien")
<1>1. Cardinality(Occupied) = One(0 \in Occupied) + One(1 \in Occupied)
  BY PortsCount DEF Occupied
<1>2. ASSUME NEW p \in InPorts
      PROVE  One(p \in Occupied) = Has(p, "Request") + Has(p, "Completion") + Has(p, "Snoop")
               + Has(p, "SnoopResp") + Has(p, "Writeback") + Has(p, "Alien")
  BY DEF SlotsKnown, Occupied, EmptySlot, BundleFlows, Has, One
<1>3. 0 \in InPorts /\ 1 \in InPorts
  BY DEF InPorts
<1>4. \A p \in InPorts, f \in BundleFlows : Has(p, f) \in Nat
  BY DEF Has, One
<1> QED
  BY <1>1, <1>2, <1>3, <1>4 DEF BundleFlows

(* What a tick counts as events and as none, port by port.                 *)
IsEvent(p) == One(/\ req_in[p] # EmptySlot /\ req_in[p].flow # "Alien"
                  /\ StandsForEvent(req_in[p].flow))
IsNone(p)  == One(/\ req_in[p] # EmptySlot /\ req_in[p].flow # "Alien"
                  /\ ~StandsForEvent(req_in[p].flow))

LEMMA StandsIsBoolean == \A f : StandsForEvent(f) \in BOOLEAN
<1> SUFFICES ASSUME NEW f PROVE StandsForEvent(f) \in BOOLEAN
  OBVIOUS
<1>1. CASE engine = "tilelink"
  BY <1>1 DEF StandsForEvent
<1>2. CASE engine # "tilelink"
  BY <1>2 DEF StandsForEvent
<1> QED
  BY <1>1, <1>2

LEMMA EventsNowIs ==
  /\ EventsNow(TRUE) = IsEvent(0) + IsEvent(1)
  /\ EventsNow(FALSE) = IsNone(0) + IsNone(1)
<1> DEFINE S == {p \in Occupied : req_in[p].flow # "Alien" /\ StandsForEvent(req_in[p].flow) = TRUE}
           N == {p \in Occupied : req_in[p].flow # "Alien" /\ StandsForEvent(req_in[p].flow) = FALSE}
<1>1. S \in SUBSET InPorts /\ N \in SUBSET InPorts
  BY DEF Occupied
<1>2. /\ Cardinality(S) = One(0 \in S) + One(1 \in S)
      /\ Cardinality(N) = One(0 \in N) + One(1 \in N)
  <2> HIDE DEF S, N
  <2> QED
    BY <1>1, PortsCount
<1>3. ASSUME NEW p \in InPorts
      PROVE  One(p \in S) = IsEvent(p) /\ One(p \in N) = IsNone(p)
  <2>1. p \in S <=> /\ req_in[p] # EmptySlot /\ req_in[p].flow # "Alien"
                     /\ StandsForEvent(req_in[p].flow)
    BY StandsIsBoolean DEF Occupied
  <2>2. p \in N <=> /\ req_in[p] # EmptySlot /\ req_in[p].flow # "Alien"
                     /\ ~StandsForEvent(req_in[p].flow)
    BY StandsIsBoolean DEF Occupied
  <2> HIDE DEF S, N
  <2> QED
    BY <2>1, <2>2 DEF One, IsEvent, IsNone
<1>4. 0 \in InPorts /\ 1 \in InPorts
  BY DEF InPorts
<1>5. EventsNow(TRUE) = Cardinality(S) /\ EventsNow(FALSE) = Cardinality(N)
  BY DEF EventsNow
<1> HIDE DEF S, N
<1> QED
  BY <1>2, <1>3, <1>4, <1>5

LEMMA StandsIs ==
  ASSUME SlotsKnown, NEW p \in InPorts
  PROVE  /\ IsEvent(p) = Has(p, "Completion") +
              IF engine # "tilelink" THEN 0
              ELSE Has(p, "Snoop") + Has(p, "SnoopResp") + Has(p, "Writeback")
         /\ IsEvent(p) + IsNone(p) =
              Has(p, "Request") + Has(p, "Completion") + Has(p, "Snoop") + Has(p, "SnoopResp")
                + Has(p, "Writeback")
<1>1. \A f \in BundleFlows : StandsForEvent(f) =
        IF engine = "tilelink" THEN f \in {"Completion", "Snoop", "SnoopResp", "Writeback"}
        ELSE f = "Completion"
  <2>1. \A f \in BundleFlows :
          Consumable(f) # {} <=> f \in {"Completion", "Snoop", "SnoopResp", "Writeback"}
    BY DEF Consumable, BundleFlows
  <2> QED
    BY <2>1 DEF StandsForEvent, NullActs
<1>2. CASE req_in[p] = EmptySlot
  BY <1>2 DEF IsEvent, IsNone, Has, One, EmptySlot
<1>3. CASE req_in[p] # EmptySlot
  <2>1. PICK f \in BundleFlows : req_in[p].flow = f
    BY <1>3 DEF SlotsKnown
  <2>2. /\ IsEvent(p) = One(f # "Alien" /\ StandsForEvent(f))
        /\ IsNone(p) = One(f # "Alien" /\ ~StandsForEvent(f))
    BY <1>3, <2>1 DEF IsEvent, IsNone
  <2>3. IsEvent(p) =
          IF f = "Completion" \/ (engine = "tilelink" /\ f \in {"Snoop", "SnoopResp", "Writeback"})
          THEN 1 ELSE 0
    BY <1>1, <2>2 DEF BundleFlows, One
  <2>4. IsNone(p) =
          IF f = "Request" \/ (engine # "tilelink" /\ f \in {"Snoop", "SnoopResp", "Writeback"})
          THEN 1 ELSE 0
    BY <1>1, <2>2 DEF BundleFlows, One
  <2>5. \A g \in BundleFlows : Has(p, g) = IF f = g THEN 1 ELSE 0
    BY <2>1 DEF Has, One
  <2>6. f \in {"Request", "Completion", "Snoop", "SnoopResp", "Writeback", "Alien"}
    BY DEF BundleFlows
  <2>7. /\ Has(p, "Request") = IF f = "Request" THEN 1 ELSE 0
        /\ Has(p, "Completion") = IF f = "Completion" THEN 1 ELSE 0
        /\ Has(p, "Snoop") = IF f = "Snoop" THEN 1 ELSE 0
        /\ Has(p, "SnoopResp") = IF f = "SnoopResp" THEN 1 ELSE 0
        /\ Has(p, "Writeback") = IF f = "Writeback" THEN 1 ELSE 0
    BY <2>5 DEF BundleFlows
  <2> QED
    BY <2>3, <2>4, <2>6, <2>7
<1> QED
  BY <1>2, <1>3

LEMMA EngineInitInv == CepInit => EngInv
<1> SUFFICES ASSUME CepInit PROVE EngInv
  OBVIOUS
<1>1. \A p \in InPorts : req_in[p] = EmptySlot
  BY DEF CepInit
<1>2. \A f \in BundleFlows : handled[f] = 0 /\ received[f] = 0
  BY DEF CepInit
<1>3. \A p \in InPorts, f \in BundleFlows : Has(p, f) = 0
  BY <1>1 DEF Has, One, EmptySlot, BundleFlows
<1>4. 0 \in InPorts /\ 1 \in InPorts /\ KnownFlows \subseteq BundleFlows
  BY DEF InPorts, KnownFlows, BundleFlows
<1>5. SlotsKnown
  BY <1>1 DEF CepInit, SlotsKnown
<1>6. Counters
  BY <1>2, <1>3, <1>4 DEF CepInit, Counters, BundleFlows
<1>7. Tallies
  BY <1>2 DEF CepInit, Tallies, BundleFlows
<1> QED
  BY <1>5, <1>6, <1>7 DEF CepInit, EngInv

LEMMA ArriveKeeps ==
  ASSUME EngInv, NEW p \in InPorts, NEW f \in BundleFlows, NEW t, Arrive(p, [flow |-> f, txn |-> t])
  PROVE  EngInv'
<1> DEFINE b == [flow |-> f, txn |-> t]
<1>1. /\ req_in[p] = EmptySlot /\ req_in' = [req_in EXCEPT ![p] = b]
      /\ received' = [received EXCEPT ![f] = @ + 1]
      /\ UNCHANGED <<engine, handled, tally, outstanding, moesi, records, tracker, leftO>>
  BY DEF Arrive
<1>2. b # EmptySlot /\ b.flow = f
  BY DEF EmptySlot, BundleFlows
<1>3. req_in'[p] = b /\ \A q \in InPorts : q # p => req_in'[q] = req_in[q]
  BY <1>1 DEF EngInv, SlotsKnown
<1>4. SlotsKnown'
  BY <1>1, <1>2, <1>3 DEF EngInv, SlotsKnown
<1>5. Counters'
  <2>1. /\ DOMAIN received' = BundleFlows /\ received'[f] = received[f] + 1
        /\ \A g \in BundleFlows : g # f => received'[g] = received[g]
    BY <1>1 DEF EngInv, Counters
  <2>2. ASSUME NEW g \in BundleFlows
        PROVE  /\ Has(p, g) = 0 /\ Has(p, g)' = IF g = f THEN 1 ELSE 0
               /\ \A q \in InPorts : q # p => Has(q, g)' = Has(q, g)
    BY <1>1, <1>2, <1>3 DEF Has, One, EmptySlot, BundleFlows
  <2>3. p = 0 \/ p = 1
    BY DEF InPorts
  <2>4. 0 \in InPorts /\ 1 \in InPorts /\ KnownFlows \subseteq BundleFlows
    BY DEF InPorts, KnownFlows, BundleFlows
  <2>5. \A q \in InPorts, g \in BundleFlows : Has(q, g) \in Nat
    BY DEF Has, One
  <2>6. ASSUME NEW g \in KnownFlows  PROVE  received'[g] = handled'[g] + Has(0, g)' + Has(1, g)'
    <3>1. received[g] = handled[g] + Has(0, g) + Has(1, g) /\ handled' = handled
      BY <1>1 DEF EngInv, Counters
    <3>2. received[g] \in Nat /\ handled[g] \in Nat
      BY <2>4 DEF EngInv, Counters
    <3>3. CASE p = 0
      BY <2>1, <2>2, <2>4, <2>5, <3>1, <3>2, <3>3
    <3>4. CASE p = 1
      BY <2>1, <2>2, <2>4, <2>5, <3>1, <3>2, <3>4
    <3> QED
      BY <2>3, <3>3, <3>4
  <2> QED
    BY <1>1, <2>1, <2>6 DEF EngInv, Counters
<1>6. Tallies'
  BY <1>1 DEF EngInv, Tallies
<1> QED
  BY <1>1, <1>4, <1>5, <1>6 DEF EngInv

LEMMA EngineTickKeeps ==
  ASSUME EngInv, EngineTick
  PROVE  EngInv'
<1> USE DEF EngInv
<1>1. /\ handled' = [f \in BundleFlows |-> handled[f] + Dispatched(f)]
      /\ req_in' = [p \in InPorts |-> EmptySlot]
      /\ tally' = IF engine \in {"null", "tilelink"}
                  THEN [event |-> tally.event + EventsNow(TRUE),
                        none  |-> tally.none + EventsNow(FALSE)]
                  ELSE tally
      /\ UNCHANGED <<engine, received, records, leftO>>
  BY DEF EngineTick
<1>2. 0 \in InPorts /\ 1 \in InPorts /\ KnownFlows \subseteq BundleFlows /\ "Alien" \in BundleFlows
  BY DEF InPorts, KnownFlows, BundleFlows
<1>3. \A q \in InPorts, g \in BundleFlows : Has(q, g) \in Nat
  BY DEF Has, One
<1>4. \A g \in KnownFlows : handled'[g] = handled[g] + Has(0, g) + Has(1, g)
  <2>1. ASSUME NEW g \in KnownFlows  PROVE  handled'[g] = handled[g] + Has(0, g) + Has(1, g)
    <3>1. handled'[g] = handled[g] + Count(g)
      BY <1>1, <1>2 DEF Dispatched, KnownFlows
    <3>2. Count(g) = Has(0, g) + Has(1, g)
      BY <1>2, CountIs
    <3>3. handled[g] \in Nat
      BY <1>2 DEF Counters
    <3> QED
      BY <1>2, <1>3, <3>1, <3>2, <3>3
  <2> QED
    BY <2>1
<1>5. handled'["Alien"] = 0
  BY <1>1, <1>2 DEF Dispatched, Counters
<1>6. \A q \in InPorts, g \in BundleFlows : Has(q, g)' = 0
  BY <1>1 DEF Has, One, EmptySlot, BundleFlows
<1>7. SlotsKnown'
  BY <1>1 DEF SlotsKnown
<1>8. Counters'
  <2>1. \A f \in BundleFlows : f \in KnownFlows \/ f = "Alien"
    BY DEF BundleFlows, KnownFlows
  <2>2. \A f \in BundleFlows : received'[f] \in Nat /\ handled'[f] \in Nat
    BY <1>1, <1>2, <1>3, <1>4, <1>5, <2>1 DEF Counters
  <2>3. ASSUME NEW f \in KnownFlows  PROVE  received'[f] = handled'[f] + Has(0, f)' + Has(1, f)'
    <3>1. received'[f] = handled[f] + Has(0, f) + Has(1, f)
      BY <1>1 DEF Counters
    <3>2. handled'[f] = handled[f] + Has(0, f) + Has(1, f)
      BY <1>4
    <3>3. Has(0, f)' = 0 /\ Has(1, f)' = 0
      BY <1>2, <1>6
    <3>4. handled'[f] \in Nat
      BY <1>2, <2>2
    <3> QED
      BY <3>1, <3>2, <3>3, <3>4
  <2> QED
    BY <1>1, <1>5, <2>2, <2>3 DEF Counters
<1>9. \A f \in KnownFlows : /\ handled[f] \in Nat /\ Has(0, f) + Has(1, f) \in Nat
                            /\ Has(0, f) \in Nat /\ Has(1, f) \in Nat
  BY <1>2, <1>3 DEF Counters
<1>10. ASSUME engine \in {"null", "tilelink"}
       PROVE  /\ tally'.event \in Nat /\ tally'.none \in Nat
              /\ tally'.event = handled'["Completion"] +
                   IF engine = "null" THEN 0
                   ELSE handled'["Snoop"] + handled'["SnoopResp"] + handled'["Writeback"]
              /\ tally'.event + tally'.none = handled'["Request"] + handled'["Completion"]
                   + handled'["Snoop"] + handled'["SnoopResp"] + handled'["Writeback"]
  <2>1. /\ tally'.event = tally.event + (IsEvent(0) + IsEvent(1))
        /\ tally'.none = tally.none + (IsNone(0) + IsNone(1))
    BY <1>1, <1>10, EventsNowIs
  <2>2. /\ IsEvent(0) \in Nat /\ IsNone(0) \in Nat /\ IsEvent(1) \in Nat /\ IsNone(1) \in Nat
    BY DEF IsEvent, IsNone, One
  <2>3. ASSUME NEW p \in InPorts
        PROVE  /\ IsEvent(p) = Has(p, "Completion") +
                    IF engine = "null" THEN 0
                    ELSE Has(p, "Snoop") + Has(p, "SnoopResp") + Has(p, "Writeback")
               /\ IsEvent(p) + IsNone(p) =
                    Has(p, "Request") + Has(p, "Completion") + Has(p, "Snoop") + Has(p, "SnoopResp")
                      + Has(p, "Writeback")
    <3>1. engine # "tilelink" <=> engine = "null"
      BY <1>10
    <3> QED
      BY <3>1, StandsIs
  <2>4. tally'.event \in Nat /\ tally'.none \in Nat /\ tally.event \in Nat /\ tally.none \in Nat
    BY <1>10, <2>1, <2>2 DEF Tallies
  <2>5. /\ "Request" \in KnownFlows /\ "Completion" \in KnownFlows /\ "Snoop" \in KnownFlows
        /\ "SnoopResp" \in KnownFlows /\ "Writeback" \in KnownFlows
    BY DEF KnownFlows
  <2>6. tally'.event + tally'.none =
          (tally.event + tally.none) + (IsEvent(0) + IsNone(0)) + (IsEvent(1) + IsNone(1))
    BY <2>1, <2>2, <2>4
  <2>7. tally'.event + tally'.none = handled'["Request"] + handled'["Completion"]
          + handled'["Snoop"] + handled'["SnoopResp"] + handled'["Writeback"]
    <3>1. tally.event + tally.none = handled["Request"] + handled["Completion"]
            + handled["Snoop"] + handled["SnoopResp"] + handled["Writeback"]
      BY <1>10 DEF Tallies
    <3>2. tally'.event + tally'.none =
            (handled["Request"] + handled["Completion"]
               + handled["Snoop"] + handled["SnoopResp"] + handled["Writeback"])
            + (Has(0, "Request") + Has(0, "Completion") + Has(0, "Snoop") + Has(0, "SnoopResp")
                + Has(0, "Writeback"))
            + (Has(1, "Request") + Has(1, "Completion") + Has(1, "Snoop") + Has(1, "SnoopResp")
                + Has(1, "Writeback"))
      BY <1>2, <2>3, <2>6, <3>1
    <3> QED
      BY <1>4, <1>9, <2>5, <3>2
  <2>8. CASE engine = "null"
    <3>1. tally.event = handled["Completion"] /\ IsEvent(0) = Has(0, "Completion")
            /\ IsEvent(1) = Has(1, "Completion")
      BY <1>2, <1>9, <1>10, <2>3, <2>5, <2>8 DEF Tallies
    <3>2. tally'.event = handled'["Completion"]
      BY <1>4, <1>9, <2>1, <2>5, <3>1
    <3>3. handled'["Completion"] \in Nat
      BY <2>4, <3>2
    <3> QED
      BY <2>4, <2>7, <2>8, <3>2, <3>3
  <2>9. CASE engine # "null"
    <3>1. tally.event = handled["Completion"]
            + (handled["Snoop"] + handled["SnoopResp"] + handled["Writeback"])
      BY <1>10, <2>9 DEF Tallies
    <3>2. /\ IsEvent(0) = Has(0, "Completion")
               + (Has(0, "Snoop") + Has(0, "SnoopResp") + Has(0, "Writeback"))
          /\ IsEvent(1) = Has(1, "Completion")
               + (Has(1, "Snoop") + Has(1, "SnoopResp") + Has(1, "Writeback"))
      BY <1>2, <2>3, <2>9
    <3>3. tally'.event = handled'["Completion"]
            + (handled'["Snoop"] + handled'["SnoopResp"] + handled'["Writeback"])
      BY <1>4, <1>9, <2>1, <2>5, <3>1, <3>2
    <3> QED
      BY <2>4, <2>7, <2>9, <3>3
  <2> QED
    BY <2>8, <2>9
<1>11. Tallies'
  <2>1. engine' = engine
    BY <1>1
  <2> QED
    BY <1>10, <2>1 DEF Tallies
<1> QED
  BY <1>1, <1>7, <1>8, <1>11

LEMMA SubmitKeeps ==
  ASSUME EngInv, NEW e, SubmitLocal(e)
  PROVE  EngInv'
<1>1. UNCHANGED <<engine, req_in, handled, tally, received>>
  BY DEF SubmitLocal
<1>2. records' = leftO' /\ records' \in Nat
  BY DEF SubmitLocal, EngInv
<1> QED
  BY <1>1, <1>2 DEF EngInv, SlotsKnown, Counters, Tallies, Has

LEMMA EngInvHolds == CepSpec => []EngInv
<1>1. CepInit => EngInv
  BY EngineInitInv
<1>2. EngInv /\ [CepNext]_cepVars => EngInv'
  <2> SUFFICES ASSUME EngInv, [CepNext]_cepVars PROVE EngInv'
    OBVIOUS
  <2>1. CASE UNCHANGED cepVars
    BY <2>1 DEF cepVars, EngInv, SlotsKnown, Counters, Tallies, Has
  <2> QED
    BY <2>1, ArriveKeeps, EngineTickKeeps, SubmitKeeps DEF CepNext
<1> QED
  BY <1>1, <1>2, PTL DEF CepSpec

(* Whatever bundles arrive, in whatever order and however the ticks fall:  *)
(* the counters of every engine account for each bundle once, and the      *)
(* Moesi engine never left O without the tracker's answer on record.       *)
THEOREM BundlesAccounted == CepSpec => []EnginesAccount
<1>1. EngInv => EnginesAccount
  <2> SUFFICES ASSUME EngInv PROVE EnginesAccount
    OBVIOUS
  <2>1. \A f \in BundleFlows \ {"Alien"} : received[f] = handled[f] + Count(f)
    <3>1. ASSUME NEW f \in BundleFlows \ {"Alien"}  PROVE  received[f] = handled[f] + Count(f)
      <4>1. Count(f) = Has(0, f) + Has(1, f)
        BY CountIs DEF EngInv
      <4>2. received[f] = handled[f] + Has(0, f) + Has(1, f)
        BY DEF EngInv, Counters, KnownFlows, BundleFlows
      <4>3. Has(0, f) \in Nat /\ Has(1, f) \in Nat /\ handled[f] \in Nat
        BY DEF EngInv, Counters, Has, One
      <4> QED
        BY <4>1, <4>2, <4>3
    <3> QED
      BY <3>1
  <2>2. ASSUME engine \in {"null", "tilelink"}
        PROVE  tally.event + tally.none + Cardinality(Occupied) + handled["Alien"]
                 + (received["Alien"] - Count("Alien")) = Total
    <3>1. \A f \in BundleFlows : Count(f) = Has(0, f) + Has(1, f) /\ Has(0, f) \in Nat /\ Has(1, f) \in Nat
      BY CountIs DEF EngInv, Has, One
    <3>2. Cardinality(Occupied) = Count("Request") + Count("Completion") + Count("Snoop")
                                    + Count("SnoopResp") + Count("Writeback") + Count("Alien")
      BY <3>1, OccupiedIs DEF EngInv, BundleFlows
    <3>3. /\ Count("Request") \in Nat /\ Count("Completion") \in Nat /\ Count("Snoop") \in Nat
          /\ Count("SnoopResp") \in Nat /\ Count("Writeback") \in Nat /\ Count("Alien") \in Nat
      BY <3>1 DEF BundleFlows
    <3>4. /\ handled["Request"] \in Nat /\ handled["Completion"] \in Nat /\ handled["Snoop"] \in Nat
          /\ handled["SnoopResp"] \in Nat /\ handled["Writeback"] \in Nat /\ received["Alien"] \in Nat
          /\ handled["Alien"] = 0
      BY DEF EngInv, Counters, BundleFlows
    <3>5. Total = (handled["Request"] + Count("Request")) + (handled["Completion"] + Count("Completion"))
                    + (handled["Snoop"] + Count("Snoop")) + (handled["SnoopResp"] + Count("SnoopResp"))
                    + (handled["Writeback"] + Count("Writeback")) + received["Alien"]
      BY <2>1 DEF Total, BundleFlows
    <3>6. /\ tally.event \in Nat /\ tally.none \in Nat
          /\ tally.event + tally.none = handled["Request"] + handled["Completion"] + handled["Snoop"]
                                          + handled["SnoopResp"] + handled["Writeback"]
      BY <2>2 DEF EngInv, Tallies
    <3> QED
      BY <3>2, <3>3, <3>4, <3>5, <3>6
  <2> QED
    BY <2>1, <2>2 DEF EnginesAccount, EngInv, Tallies
<1> QED
  BY <1>1, EngInvHolds, PTL
=============================================================================
