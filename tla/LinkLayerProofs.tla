--------------------------- MODULE LinkLayerProofs ---------------------------
(***************************************************************************)
(* Theorems about LinkLayer: credit, the order of the ACKs, the types, the *)
(* retry buffer and the order of the TLPs.                                 *)
(***************************************************************************)
EXTENDS LinkLayer, FiniteSetTheorems, SequenceTheorems, WellFoundedInduction,
        TLAPS

-----------------------------------------------------------------------------
(* Credit, for every ring of sequence numbers, every set of functions and  *)
(* every initial credit of the three TLP classes.  The invariant adds to   *)
(* CreditCoversTraffic that what it counts are natural numbers, the        *)
(* capacities too: UpdateFC caps the tokens at them.                       *)
Granted == /\ fc \in [Dir -> [Vf -> Bucket]]
           /\ granted \in [Dir -> [Vf -> Credits]]
           /\ used \in [Dir -> [Vf -> Credits]]
CreditInv == Granted /\ CreditCoversTraffic

(* A bucket is installed with as much as it holds, whatever its capacity.  *)
LEMMA InstallCovers ==
  ASSUME CreditInv, NEW b \in Bucket, Install(b), 0 \in Vf
  PROVE  CreditInv'
<1>1. NoCredits \in Credits /\ b.tokens \in Credits
  BY DEF NoCredits, Credits, Bucket
<1>2. Granted'
  BY <1>1 DEF CreditInv, Granted, Install
<1>3. ASSUME NEW d \in Dir, NEW v \in Vf, NEW t \in FcType
      PROVE  used'[d][v][t] + fc'[d][v].tokens[t] <= granted'[d][v][t]
  <2>1. CASE v = 0
    <3>1. /\ fc'[d][v] = b /\ granted'[d][v] = b.tokens
          /\ used'[d][v] = NoCredits
      BY <2>1 DEF CreditInv, Granted, Install
    <3>2. NoCredits[t] = 0 /\ b.tokens[t] \in Nat
      BY <1>1 DEF NoCredits, Credits
    <3> QED BY <3>1, <3>2
  <2>2. CASE v # 0
    <3>1. /\ fc'[d][v] = fc[d][v] /\ granted'[d][v] = granted[d][v]
          /\ used'[d][v] = used[d][v]
      BY <2>2 DEF CreditInv, Granted, Install
    <3> QED BY <3>1 DEF CreditInv, CreditCoversTraffic
  <2> QED BY <2>1, <2>2
<1> QED BY <1>2, <1>3 DEF CreditInv, CreditCoversTraffic

(* A TLP that takes one credit and is counted at most once is covered.     *)
LEMMA ConsumeCovers ==
  ASSUME CreditInv, NEW d \in Dir, NEW v \in Vf, NEW t \in FcType,
         CanSend(fc[d][v], t),
         fc' = [fc EXCEPT ![d][v] = Consume(@, t)],
         \/ used' = used
         \/ used' = [used EXCEPT ![d][v][t] = @ + 1],
         granted' = granted
  PROVE  CreditInv'
<1>1. /\ fc[d][v] \in Bucket /\ fc[d][v].tokens \in Credits
      /\ fc[d][v].tokens[t] \in Nat /\ fc[d][v].tokens[t] >= 1
  BY DEF CreditInv, Granted, Bucket, Credits, CanSend
<1>2. /\ Consume(fc[d][v], t) \in Bucket
      /\ Consume(fc[d][v], t).tokens
           = [fc[d][v].tokens EXCEPT ![t] = fc[d][v].tokens[t] - 1]
  BY <1>1 DEF Consume, Bucket, Credits
<1>3. fc' \in [Dir -> [Vf -> Bucket]] /\ fc'[d][v] = Consume(fc[d][v], t)
  BY <1>2 DEF CreditInv, Granted
<1>4. used' \in [Dir -> [Vf -> Credits]]
  <2> DEFINE row == [used[d][v] EXCEPT ![t] = @ + 1]
  <2>1. used \in [Dir -> [Vf -> Credits]] /\ used[d][v] \in [FcType -> Nat]
    BY DEF CreditInv, Granted, Credits
  <2>2. row \in Credits
    BY <2>1 DEF Credits
  <2>3. CASE used' = used
    BY <2>1, <2>3
  <2>4. CASE used' = [used EXCEPT ![d][v] = row]
    <3> HIDE DEF row
    <3> QED BY <2>1, <2>2, <2>4
  <2> QED BY <2>3, <2>4
<1>5. ASSUME NEW e \in Dir, NEW w \in Vf, NEW u \in FcType
      PROVE  used'[e][w][u] + fc'[e][w].tokens[u] <= granted'[e][w][u]
  <2>1. /\ used[e][w][u] \in Nat /\ fc[e][w].tokens[u] \in Nat
        /\ granted[e][w][u] \in Nat
        /\ used[e][w][u] + fc[e][w].tokens[u] <= granted[e][w][u]
    BY DEF CreditInv, Granted, CreditCoversTraffic, Bucket, Credits
  <2>2. CASE e = d /\ w = v /\ u = t
    <3>1. fc'[e][w].tokens[u] = fc[e][w].tokens[u] - 1
      BY <1>1, <1>2, <1>3, <2>2 DEF Credits
    <3>2. used'[e][w][u] \in {used[e][w][u], used[e][w][u] + 1}
      BY <2>2 DEF CreditInv, Granted, Credits
    <3> QED BY <2>1, <3>1, <3>2
  <2>3. CASE ~(e = d /\ w = v /\ u = t)
    <3>1. fc'[e][w].tokens[u] = fc[e][w].tokens[u]
      <4>1. CASE e = d /\ w = v
        BY <1>1, <1>2, <1>3, <2>3, <4>1 DEF Credits
      <4>2. CASE ~(e = d /\ w = v)
        BY <4>2 DEF CreditInv, Granted
      <4> QED BY <4>1, <4>2
    <3>2. used'[e][w][u] = used[e][w][u]
      BY <2>3 DEF CreditInv, Granted, Credits
    <3> QED BY <2>1, <3>1, <3>2
  <2> QED BY <2>2, <2>3
<1> QED BY <1>3, <1>4, <1>5 DEF CreditInv, Granted, CreditCoversTraffic

(* UpdateFC grants exactly the tokens it adds.                             *)
LEMMA UpdateCovers ==
  ASSUME CreditInv, NEW c \in Credits, RxUpdateFc(c), 0 \in Vf
  PROVE  CreditInv'
<1> DEFINE old == fc["up"][0]
           b == UpdateCredit(old, c)
<1>1. old \in Bucket /\ old.capacity \in Nat /\ old.tokens \in Credits
  BY DEF CreditInv, Granted, Bucket, Dir
<1>2. \A t \in FcType : /\ b.tokens[t] = Capped(old.tokens[t] + c[t], old.capacity)
                        /\ b.tokens[t] \in Nat
  BY <1>1 DEF UpdateCredit, Capped, Credits, Bucket
<1>3. b \in Bucket /\ b.tokens \in Credits
  BY <1>1, <1>2 DEF UpdateCredit, Capped, Credits, Bucket
<1> HIDE DEF b
<1>4. /\ fc' = [fc EXCEPT !["up"][0] = b] /\ used' = used
      /\ granted' = [granted EXCEPT !["up"][0] =
                       [t \in FcType |-> @[t] + (b.tokens[t] - old.tokens[t])]]
  BY DEF RxUpdateFc, b
<1>5. ASSUME NEW d \in Dir, NEW v \in Vf, NEW t \in FcType
      PROVE  /\ granted'[d][v][t] \in Nat
             /\ used'[d][v][t] + fc'[d][v].tokens[t] <= granted'[d][v][t]
  <2>1. /\ used[d][v][t] \in Nat /\ fc[d][v].tokens[t] \in Nat
        /\ granted[d][v][t] \in Nat
        /\ used[d][v][t] + fc[d][v].tokens[t] <= granted[d][v][t]
    BY DEF CreditInv, Granted, CreditCoversTraffic, Bucket, Credits
  <2>2. CASE d = "up" /\ v = 0
    <3>1. fc'[d][v] = b
      BY <1>4, <2>2 DEF CreditInv, Granted
    <3>2. granted'[d][v][t] = granted[d][v][t] + (b.tokens[t] - fc[d][v].tokens[t])
      BY <1>4, <2>2 DEF CreditInv, Granted
    <3>3. b.tokens[t] \in Nat
      BY <1>2
    <3> QED BY <1>4, <2>1, <3>1, <3>2, <3>3
  <2>3. CASE ~(d = "up" /\ v = 0)
    <3>1. fc'[d][v] = fc[d][v] /\ granted'[d][v] = granted[d][v]
      BY <1>4, <2>3 DEF CreditInv, Granted
    <3> QED BY <1>4, <2>1, <3>1
  <2> QED BY <2>2, <2>3
<1>6. fc' \in [Dir -> [Vf -> Bucket]] /\ used' \in [Dir -> [Vf -> Credits]]
  BY <1>3, <1>4 DEF CreditInv, Granted
<1>7. granted' \in [Dir -> [Vf -> Credits]]
  <2>1. \A t \in FcType : granted'["up"][0][t] \in Nat
    BY <1>5 DEF Dir
  <2>2. granted'["up"][0] = [t \in FcType |-> granted["up"][0][t]
                                    + (b.tokens[t] - old.tokens[t])]
    BY <1>4 DEF CreditInv, Granted, Dir
  <2>3. granted'["up"][0] \in Credits
    BY <2>1, <2>2 DEF Credits
  <2> DEFINE row == [t \in FcType |-> granted["up"][0][t]
                                    + (b.tokens[t] - old.tokens[t])]
  <2>4. row \in Credits /\ granted' = [granted EXCEPT !["up"][0] = row]
    BY <1>4, <2>2, <2>3
  <2> HIDE DEF row
  <2> QED BY <2>4 DEF CreditInv, Granted
<1> QED BY <1>5, <1>6, <1>7 DEF CreditInv, Granted, CreditCoversTraffic

(* The largest of the capacity and three credits is one of them, so that   *)
(* InitFc makes a bucket.                                                  *)
LEMMA InitFcIsBucket ==
  ASSUME NEW p, NEW n, NEW q, FcType = {p, n, q},
         NEW cap \in Nat, NEW c \in Credits
  PROVE  InitFc(cap, c) \in Bucket
<1> DEFINE S == {cap} \cup {c[t] : t \in FcType}
           P(m) == m >= cap /\ \A t \in FcType : m >= c[t]
<1>1. c[p] \in Nat /\ c[n] \in Nat /\ c[q] \in Nat
  BY DEF Credits
<1>2. S = {cap, c[p], c[n], c[q]}
  OBVIOUS
<1>3. \A m : P(m) <=> m >= cap /\ m >= c[p] /\ m >= c[n] /\ m >= c[q]
  OBVIOUS
<1>4. \E m \in {cap, c[p], c[n], c[q]} :
        m >= cap /\ m >= c[p] /\ m >= c[n] /\ m >= c[q]
  <2> DEFINE x == c[p]
             y == c[n]
             z == c[q]
  <2>1. x \in Nat /\ y \in Nat /\ z \in Nat
    BY <1>1
  <2> HIDE DEF x, y, z
  <2>2. \/ cap >= x /\ cap >= y /\ cap >= z
        \/ x >= cap /\ x >= y /\ x >= z
        \/ y >= cap /\ y >= x /\ y >= z
        \/ z >= cap /\ z >= x /\ z >= y
    BY <2>1
  <2>3. cap >= cap /\ x >= x /\ y >= y /\ z >= z
    BY <2>1
  <2>4. \E m \in {cap, x, y, z} : m >= cap /\ m >= x /\ m >= y /\ m >= z
    BY <2>2, <2>3
  <2> QED BY <2>4 DEF x, y, z
<1>5. \E m \in S : P(m)
  BY <1>2, <1>3, <1>4
<1>6. (CHOOSE m \in S : P(m)) \in Nat
  BY <1>1, <1>2, <1>5
<1> QED BY <1>6 DEF InitFc, Bucket

LEMMA ResetIsBucket == ResetBucket \in Bucket
<1> DEFINE full == FullBucket(FcCapacity)
<1>1. /\ full.capacity = FcCapacity /\ full.tokens = [t \in FcType |-> FcCapacity]
      /\ full \in Bucket
  BY FcAssumption DEF FullBucket, Bucket, Credits
<1>2. FcInit \in [FcType -> Nat] /\ FcCapacity \in Nat
  BY FcAssumption, LinkAssumption DEF Credits
<1> HIDE DEF full
<1>3. ResetBucket = [full EXCEPT !.tokens =
                       [t \in FcType |-> Capped(full.tokens[t] + FcInit[t],
                                               full.capacity)]]
  BY DEF ResetBucket, UpdateCredit, full
<1>4. \A t \in FcType : Capped(full.tokens[t] + FcInit[t], full.capacity) \in Nat
  <2>1. \A m, cap \in Nat : Capped(m, cap) \in Nat
    BY DEF Capped
  <2>2. ASSUME NEW t \in FcType PROVE full.tokens[t] + FcInit[t] \in Nat
    <3>1. full.tokens[t] = FcCapacity
      BY <1>1
    <3>2. FcInit[t] \in Nat
      BY <1>2
    <3> QED BY <1>2, <3>1, <3>2
  <2> QED BY <1>1, <1>2, <2>1, <2>2
<1> QED BY <1>1, <1>3, <1>4 DEF Bucket, Credits

LEMMA CreditInvariant ==
  ASSUME NEW p, NEW n, NEW q, FcType = {p, n, q}
  PROVE  Spec => []CreditInv
<1>1. Init => CreditInv
  <2> SUFFICES ASSUME Init PROVE CreditInv
    OBVIOUS
  <2>1. NoCredits \in Credits /\ \A t \in FcType : NoCredits[t] = 0
    BY DEF NoCredits, Credits
  <2>2. FullBucket(DefaultCredit) \in Bucket
    BY FcAssumption DEF FullBucket, Bucket, Credits
  <2>3. \A v \in Vf : NewBuckets[v] \in Bucket
    BY <2>2, ResetIsBucket DEF NewBuckets
  <2>4. NewBuckets \in [Vf -> Bucket]
    BY <2>3 DEF NewBuckets
  <2>5. \A v \in Vf : NewBuckets[v].tokens \in Credits
    BY <2>3 DEF Bucket
  <2>6. Granted
    BY <2>1, <2>4, <2>5 DEF Init, Granted
  <2>7. CreditCoversTraffic
    <3> SUFFICES ASSUME NEW d \in Dir, NEW v \in Vf, NEW t \in FcType
                 PROVE  used[d][v][t] + fc[d][v].tokens[t] <= granted[d][v][t]
      BY DEF CreditCoversTraffic
    <3>1. used[d][v][t] = 0
      BY <2>1 DEF Init
    <3>2. granted[d][v][t] = fc[d][v].tokens[t] /\ fc[d][v].tokens[t] \in Nat
      BY <2>5 DEF Init, Credits
    <3> QED BY <3>1, <3>2
  <2> QED BY <2>6, <2>7 DEF CreditInv
<1>2. CreditInv /\ [Next]_vars => CreditInv'
  <2> SUFFICES ASSUME CreditInv, [Next]_vars PROVE CreditInv'
    OBVIOUS
  <2>0. 0 \in Vf
    BY LinkAssumption
  <2>1. ASSUME UNCHANGED fcVars PROVE CreditInv'
    BY <2>1 DEF fcVars, CreditInv, Granted, CreditCoversTraffic
  <2>2. ASSUME NEW v \in Vf, NEW t \in FcType, TxTlp(v, t) PROVE CreditInv'
    BY <2>2, ConsumeCovers DEF TxTlp, Dir
  <2>3. ASSUME NEW v \in Vf, NEW t \in FcType, RxTlp(v, t) PROVE CreditInv'
    BY <2>3, ConsumeCovers DEF RxTlp, Dir
  <2>4. ASSUME NEW c \in Grants, RxUpdateFc(c) \/ RxInitFc(c) PROVE CreditInv'
    <3>1. c \in Credits
      <4>1. FcInit \in Credits
        BY LinkAssumption
      <4>2. OneCredit \in Credits
        BY DEF OneCredit, Credits
      <4> QED BY <4>1, <4>2 DEF Grants
    <3>2. CASE RxUpdateFc(c)
      BY <2>0, <3>1, <3>2, UpdateCovers
    <3>3. CASE RxInitFc(c)
      <4>1. InitFc(FcCapacity, c) \in Bucket
        BY <3>1, FcAssumption, InitFcIsBucket
      <4> QED BY <2>0, <3>3, <4>1, InstallCovers DEF RxInitFc
    <3> QED BY <2>4, <3>2, <3>3
  <2>5. CASE ApplyMode
    BY <2>0, <2>5, ResetIsBucket, InstallCovers DEF ApplyMode
  <2>6. CASE RxDllp \/ PopTlp \/ PopDllp \/ LoseDllp \/ PeerAsksAgain
    BY <2>1, <2>6 DEF RxDllp, PopTlp, PopDllp, LoseDllp, PeerAsksAgain
  <2>7. ASSUME NEW s \in SeqNum, InjectTlpLoss(s) \/ TickInjectedNak(s)
        PROVE  CreditInv'
    BY <2>1, <2>7 DEF InjectTlpLoss, TickInjectedNak
  <2>8. CASE InjectDllpLoss \/ TriggerRateSwitch \/ RateReady
    BY <2>1, <2>8 DEF InjectDllpLoss, TriggerRateSwitch, RateReady
  <2>9. CASE UNCHANGED vars
    BY <2>1, <2>9 DEF vars
  <2> QED BY <2>2, <2>3, <2>4, <2>5, <2>6, <2>7, <2>8, <2>9 DEF Next, Sending
<1> QED BY <1>1, <1>2, PTL DEF Spec

(* No direction lets more TLPs through than it was granted credit for,     *)
(* whatever the two sides, the injector and the changes of mode do         *)
(* (pcie_link_layer_tlm.cc:354-357, 452-467).                              *)
THEOREM CreditIsCovered ==
  ASSUME NEW p, NEW n, NEW q, FcType = {p, n, q}
  PROVE  Spec => []CreditCoversTraffic
<1>1. CreditInv => CreditCoversTraffic
  BY DEF CreditInv
<1> QED BY <1>1, CreditInvariant, PTL

-----------------------------------------------------------------------------
(* The order of the ACKs.  The ring's size is any even number, so that the *)
(* remainders are those of a variable divisor: the lemmas give the         *)
(* solvers the quotient.                                                   *)
LEMMA Remainder ==
  ASSUME NEW x \in Int
  PROVE  x % SeqWrap \in SeqNum /\ \E q \in Int : x = q * SeqWrap + (x % SeqWrap)
<1> DEFINE q == x \div SeqWrap
           r == x % SeqWrap
<1>1. SeqWrap \in Nat /\ SeqWrap > 0
  BY LinkAssumption
<1>2. q \in Int /\ r \in Int /\ r \in SeqNum
  BY <1>1 DEF SeqNum
<1>3. x = q * SeqWrap + r
  <2>1. ASSUME NEW w \in Nat, w > 0, NEW s \in Int, s = x % w,
               NEW p \in Int, p = x \div w
        PROVE  x = p * w + s
    BY <2>1, Z3
  <2> HIDE DEF q, r
  <2>2. q = x \div SeqWrap /\ r = x % SeqWrap
    BY DEF q, r
  <2> QED BY <1>1, <1>2, <2>1, <2>2
<1> QED BY <1>2, <1>3

LEMMA RemainderUnique ==
  ASSUME NEW x \in Int, NEW q \in Int, NEW r \in SeqNum, x = q * SeqWrap + r
  PROVE  x % SeqWrap = r
BY LinkAssumption, SMTT(30) DEF SeqNum

(* A step of the counter makes every distance one longer.                  *)
LEMMA DistAfter ==
  ASSUME NEW n \in SeqNum, NEW k \in Int
  PROVE  Dist(After(n), k + 1) = Dist(n, k) /\ After(n) \in SeqNum
<1>1. SeqWrap \in Nat /\ SeqWrap >= 2 /\ n \in Int
  BY LinkAssumption DEF SeqNum
<1>2. CASE n + 1 < SeqWrap
  <2>1. After(n) = n + 1
    <3>1. n + 1 = 0 * SeqWrap + (n + 1) /\ n + 1 \in SeqNum
      BY <1>1, <1>2 DEF SeqNum
    <3> QED BY <1>1, <3>1, RemainderUnique DEF After
  <2>2. (n + 1) - (k + 1) = n - k
    BY <1>1
  <2> QED BY <1>1, <1>2, <2>1, <2>2 DEF Dist, SeqNum
<1>3. CASE n + 1 = SeqWrap
  <2>1. After(n) = 0
    <3>1. n + 1 = 1 * SeqWrap + 0 /\ 0 \in SeqNum
      BY <1>1, <1>3 DEF SeqNum
    <3> QED BY <1>1, <3>1, RemainderUnique DEF After
  <2> DEFINE x == n - k
             r == x % SeqWrap
  <2>2. x \in Int
    BY <1>1
  <2> HIDE DEF x
  <2>3. r \in SeqNum /\ \E q \in Int : x = q * SeqWrap + r
    BY <2>2, Remainder
  <2> HIDE DEF r
  <2>4. PICK q \in Int : n - k = q * SeqWrap + r
    BY <2>3 DEF x
  <2>5. 0 - (k + 1) = (q - 1) * SeqWrap + r
    <3>1. (q - 1) * SeqWrap = q * SeqWrap - SeqWrap
      BY <1>1
    <3>2. r \in Int /\ q * SeqWrap \in Int
      BY <1>1, <2>3 DEF SeqNum
    <3> QED BY <1>1, <1>3, <2>4, <3>1, <3>2
  <2>6. (0 - (k + 1)) % SeqWrap = r
    BY <2>3, <2>5, RemainderUnique
  <2>7. Dist(n, k) = r /\ Dist(After(n), k + 1) = (0 - (k + 1)) % SeqWrap
    BY <2>1 DEF Dist, r, x
  <2>8. 0 \in SeqNum
    BY <1>1 DEF SeqNum
  <2> QED BY <2>1, <2>6, <2>7, <2>8
<1> QED BY <1>1, <1>2, <1>3 DEF SeqNum

AckInv ==
  /\ next_rx_seq \in SeqNum /\ tx_dllp_out \in Seq(SeqNum) /\ modes \in Nat
  /\ AcksInOrder

(* The ACKs towards the host name the TLPs taken, each once and in order,  *)
(* until the first change of mode (pcie_link_layer_tlm.cc:476).            *)
THEOREM AcksStayInOrder == Spec => []AcksInOrder
<1>1. Init => AckInv
  BY LinkAssumption DEF Init, AckInv, AcksInOrder, SeqNum
<1>2. AckInv /\ [Next]_vars => AckInv'
  <2> SUFFICES ASSUME AckInv, [Next]_vars PROVE AckInv'
    OBVIOUS
  <2>1. ASSUME UNCHANGED <<next_rx_seq, tx_dllp_out, modes>> PROVE AckInv'
    BY <2>1 DEF AckInv, AcksInOrder
  <2>2. ASSUME NEW v \in Vf, NEW t \in FcType, RxTlp(v, t) PROVE AckInv'
    <3> DEFINE n == next_rx_seq
               L == Len(tx_dllp_out)
    <3>1. /\ n \in SeqNum /\ tx_dllp_out \in Seq(SeqNum) /\ L \in Nat
          /\ modes \in Nat
      BY DEF AckInv
    <3>2. /\ next_rx_seq' = After(n) /\ After(n) \in SeqNum
          /\ tx_dllp_out' = Append(tx_dllp_out, n) /\ modes' = modes
          /\ Len(tx_dllp_out') = L + 1
      BY <2>2, <3>1, DistAfter DEF RxTlp
    <3>3. ASSUME modes = 0, NEW i \in 1..(L + 1)
          PROVE  tx_dllp_out'[i] = Dist(After(n), (L + 1) - i + 1)
      <4>1. CASE i = L + 1
        <5>1. Dist(After(n), 0 + 1) = Dist(n, 0)
          BY <3>1, DistAfter
        <5>2. Dist(n, 0) = n
          <6>1. n \in Int /\ n - 0 = 0 * SeqWrap + n
            BY <3>1, LinkAssumption DEF SeqNum
          <6> QED BY <3>1, <6>1, RemainderUnique DEF Dist
        <5>3. (L + 1) - i + 1 = 0 + 1
          BY <3>1, <4>1
        <5> QED BY <3>1, <3>2, <4>1, <5>1, <5>2, <5>3
      <4>2. CASE i \in 1..L
        <5>1. tx_dllp_out[i] = Dist(n, L - i + 1)
          BY <3>3, <4>2 DEF AckInv, AcksInOrder
        <5>2. Dist(After(n), (L - i + 1) + 1) = Dist(n, L - i + 1)
          BY <3>1, <4>2, DistAfter
        <5>3. (L + 1) - i + 1 = (L - i + 1) + 1
          BY <3>1, <4>2
        <5> QED BY <3>1, <3>2, <4>2, <5>1, <5>2, <5>3
      <4> QED BY <3>1, <4>1, <4>2
    <3> QED BY <3>1, <3>2, <3>3 DEF AckInv, AcksInOrder
  <2>3. CASE PopDllp
    <3> DEFINE n == next_rx_seq
               L == Len(tx_dllp_out)
               m == IF drop_next_dllp THEN 3 ELSE 2
    <3>1. /\ n \in SeqNum /\ tx_dllp_out \in Seq(SeqNum) /\ L \in Nat
          /\ modes \in Nat /\ m \in {2, 3}
      BY DEF AckInv
    <3> HIDE DEF m
    <3>2. /\ next_rx_seq' = n /\ modes' = modes /\ L >= 1
          /\ tx_dllp_out' = SubSeq(tx_dllp_out, m, L)
      BY <2>3, <3>1 DEF PopDllp, m
    <3>3. CASE m <= L
      <4>1. /\ tx_dllp_out' \in Seq(SeqNum)
            /\ Len(tx_dllp_out') = L - m + 1
            /\ \A i \in 1..(L - m + 1) : tx_dllp_out'[i] = tx_dllp_out[i + m - 1]
        BY <3>1, <3>2, <3>3
      <4>2. ASSUME modes = 0, NEW i \in 1..(L - m + 1)
            PROVE  tx_dllp_out'[i] = Dist(n, (L - m + 1) - i + 1)
        <5>1. i + m - 1 \in 1..L
          BY <3>1, <4>2
        <5>2. tx_dllp_out[i + m - 1] = Dist(n, L - (i + m - 1) + 1)
          BY <4>2, <5>1 DEF AckInv, AcksInOrder
        <5>3. L - (i + m - 1) + 1 = (L - m + 1) - i + 1
          BY <3>1, <4>2
        <5> QED BY <4>1, <4>2, <5>2, <5>3
      <4> QED BY <3>1, <3>2, <4>1, <4>2 DEF AckInv, AcksInOrder
    <3>4. CASE ~(m <= L)
      <4>1. tx_dllp_out' \in Seq(SeqNum) /\ Len(tx_dllp_out') = 0
        BY <3>1, <3>2, <3>4
      <4> QED BY <3>1, <3>2, <4>1 DEF AckInv, AcksInOrder
    <3> QED BY <3>3, <3>4
  <2>4. CASE ApplyMode
    BY <2>4, LinkAssumption DEF ApplyMode, AckInv, AcksInOrder, SeqNum
  <2>5. ASSUME NEW v \in Vf, NEW t \in FcType, TxTlp(v, t) PROVE AckInv'
    BY <2>1, <2>5 DEF TxTlp, rxVars
  <2>6. CASE RxDllp \/ PopTlp \/ LoseDllp \/ PeerAsksAgain
    BY <2>1, <2>6 DEF RxDllp, PopTlp, LoseDllp, PeerAsksAgain, rxVars
  <2>7. ASSUME NEW c \in Grants, RxUpdateFc(c) \/ RxInitFc(c) PROVE AckInv'
    BY <2>1, <2>7 DEF RxUpdateFc, RxInitFc, rxVars
  <2>8. ASSUME NEW s \in SeqNum, InjectTlpLoss(s) \/ TickInjectedNak(s)
        PROVE  AckInv'
    BY <2>1, <2>8 DEF InjectTlpLoss, TickInjectedNak, rxVars
  <2>9. CASE InjectDllpLoss \/ TriggerRateSwitch \/ RateReady
    BY <2>1, <2>9 DEF InjectDllpLoss, TriggerRateSwitch, RateReady, rxVars
  <2>10. CASE UNCHANGED vars
    BY <2>1, <2>10 DEF vars, rxVars
  <2> QED BY <2>2, <2>3, <2>4, <2>5, <2>6, <2>7, <2>8, <2>9, <2>10 DEF Next, Sending
<1> QED BY <1>1, <1>2, PTL DEF Spec, AckInv

-----------------------------------------------------------------------------
(* Every set of natural numbers that is not empty has a least one.         *)
LEMMA LeastNat ==
  ASSUME NEW T, T \subseteq Nat, T # {}
  PROVE  \E m \in T : \A k \in T : m <= k
<1>1. PICK m \in T : \A k \in T : ~(<<k, m>> \in OpToRel(<, Nat))
  BY WFMin, NatLessThanWellFounded
<1>2. ASSUME NEW k \in T PROVE m <= k
  <2>1. k \in Nat /\ m \in Nat
    OBVIOUS
  <2>2. ~(k < m)
    BY <1>1, <2>1 DEF OpToRel
  <2> QED BY <2>1, <2>2
<1> QED BY <1>2

(* try_pop_tx_tlp loses a prefix of its queue.                             *)
LEMMA LostIsAPrefix ==
  ASSUME Len(tx_tlp_out) \in Nat
  PROVE  Lost \in 0..Len(tx_tlp_out)
<1> DEFINE n == Len(tx_tlp_out)
           IsLost(k) == \A i \in 1..k :
                           /\ tx_tlp_out[i].seq \in tlp_loss
                           /\ \A j \in 1..(i - 1) :
                                tx_tlp_out[j].seq # tx_tlp_out[i].seq
           T == {k \in 0..n : k = n \/ ~IsLost(k + 1)}
<1>1. IsLost(0)
  OBVIOUS
<1>2. Lost = CHOOSE k \in 0..n : IsLost(k) /\ (k = n \/ ~IsLost(k + 1))
  BY DEF Lost
<1> HIDE DEF IsLost
<1>3. T \subseteq Nat /\ n \in T
  OBVIOUS
<1>4. PICK m \in T : \A k \in T : m <= k
  BY <1>3, LeastNat
<1>5. IsLost(m)
  <2>1. CASE m = 0
    BY <1>1, <2>1
  <2>2. CASE m # 0
    <3>1. m - 1 \in 0..n /\ m - 1 # n /\ ~(m <= m - 1)
      BY <1>4, <2>2
    <3>2. m - 1 \notin T
      BY <1>4, <3>1
    <3>3. IsLost((m - 1) + 1) /\ (m - 1) + 1 = m
      BY <1>4, <3>1, <3>2
    <3> QED BY <3>3
  <2> QED BY <2>1, <2>2
<1>6. m \in 0..n /\ IsLost(m) /\ (m = n \/ ~IsLost(m + 1))
  BY <1>4, <1>5
<1> QED BY <1>2, <1>6

-----------------------------------------------------------------------------
(* The sequence number of the (k + 1)-st TLP.                              *)
Ring(k) == k % SeqWrap

LEMMA RingType == ASSUME NEW k \in Int PROVE Ring(k) \in SeqNum
BY Remainder DEF Ring

LEMMA RingOfSmall == ASSUME NEW k \in SeqNum PROVE Ring(k) = k
<1>1. SeqWrap \in Int /\ k \in Int /\ 0 \in Int
  BY LinkAssumption DEF SeqNum
<1>2. k = 0 * SeqWrap + k
  BY <1>1
<1>3. k % SeqWrap = k
  BY <1>1, <1>2, RemainderUnique
<1> QED BY <1>3 DEF Ring

(* A distance in the ring is the remainder of the distance of the TLPs.    *)
LEMMA RingDist ==
  ASSUME NEW x \in Int, NEW y \in Int
  PROVE  Dist(Ring(x), Ring(y)) = Ring(x - y)
<1> DEFINE a == Ring(x)
           b == Ring(y)
           c == Ring(a - b)
<1>0. SeqWrap \in Int
  BY LinkAssumption
<1>1. a \in SeqNum /\ b \in SeqNum /\ SeqNum \subseteq Int
  BY Remainder DEF Ring, SeqNum
<1>2. PICK p \in Int : x = p * SeqWrap + a
  BY Remainder DEF Ring
<1>3. PICK q \in Int : y = q * SeqWrap + b
  BY Remainder DEF Ring
<1> HIDE DEF a, b
<1>4. a - b \in Int /\ c \in SeqNum
  <2>1. a - b \in Int
    BY <1>1
  <2> QED BY <2>1, RingType
<1>5. PICK r \in Int : a - b = r * SeqWrap + c
  BY <1>4, Remainder DEF Ring
<1> HIDE DEF c
<1>6. x - y = (p - q + r) * SeqWrap + c
  <2>1. (p - q + r) * SeqWrap = p * SeqWrap - q * SeqWrap + r * SeqWrap
    BY <1>0
  <2>2. /\ p * SeqWrap \in Int /\ q * SeqWrap \in Int /\ r * SeqWrap \in Int
        /\ a \in Int /\ b \in Int /\ c \in Int
    BY <1>0, <1>1, <1>4
  <2> DEFINE P == p * SeqWrap
             Q == q * SeqWrap
             R == r * SeqWrap
  <2>3. P \in Int /\ Q \in Int /\ R \in Int /\ x = P + a /\ y = Q + b
        /\ a - b = R + c /\ (p - q + r) * SeqWrap = P - Q + R
    BY <1>2, <1>3, <1>5, <2>1, <2>2
  <2> HIDE DEF P, Q, R
  <2> QED BY <2>2, <2>3
<1>7. (x - y) % SeqWrap = c
  BY <1>4, <1>6, RemainderUnique
<1> QED BY <1>7 DEF Dist, Ring, a, b, c

LEMMA RingOfNegative ==
  ASSUME NEW k \in Int, -SeqWrap < k, k < 0
  PROVE  Ring(k) = k + SeqWrap
<1>1. SeqWrap \in Int
  BY LinkAssumption
<1>2. k + SeqWrap \in SeqNum /\ k = (-1) * SeqWrap + (k + SeqWrap)
  BY <1>1 DEF SeqNum
<1> QED BY <1>1, <1>2, RemainderUnique DEF Ring

(* Less than a turn apart, TLPs with the same number are the same.         *)
LEMMA RingInjective ==
  ASSUME NEW x \in Int, NEW y \in Int, -SeqWrap < x - y, x - y < SeqWrap,
         Ring(x) = Ring(y)
  PROVE  x = y
<1>0. SeqWrap \in Nat /\ SeqWrap >= 2 /\ 0 \in SeqNum
  BY LinkAssumption DEF SeqNum
<1>1. Dist(Ring(x), Ring(y)) = 0
  <2>1. Ring(x) \in Int
    BY RingType DEF SeqNum
  <2>2. Ring(x) - Ring(y) = 0
    BY <2>1
  <2>3. Ring(0) = 0
    BY <1>0, RingOfSmall
  <2> QED BY <2>2, <2>3 DEF Dist, Ring
<1>2. Ring(x - y) = 0
  BY <1>1, RingDist
<1>3. CASE x - y \in SeqNum
  BY <1>2, <1>3, RingOfSmall
<1>4. CASE x - y < 0
  <2>1. x - y \in Int
    OBVIOUS
  <2>2. Ring(x - y) = (x - y) + SeqWrap
    BY <1>4, <2>1, RingOfNegative
  <2> QED BY <1>0, <1>2, <2>2
<1> QED BY <1>0, <1>3, <1>4 DEF SeqNum

(* A number is told by its distance from another.                          *)
LEMMA DistInjective ==
  ASSUME NEW a \in SeqNum, NEW b \in SeqNum, NEW c \in SeqNum,
         Dist(a, c) = Dist(b, c)
  PROVE  a = b
<1>0. SeqWrap \in Nat /\ a \in Int /\ b \in Int /\ c \in Int
  BY LinkAssumption DEF SeqNum
<1>1. a - c \in Int /\ b - c \in Int /\ Ring(a - c) = Ring(b - c)
  BY <1>0 DEF Dist, Ring
<1>2. Dist(Ring(a - c), Ring(b - c)) = Ring((a - c) - (b - c))
  BY <1>1, RingDist
<1>3. (a - c) - (b - c) = a - b /\ -SeqWrap < a - b /\ a - b < SeqWrap
  BY <1>0 DEF SeqNum
<1>4. Ring(a) = a /\ Ring(b) = b
  BY RingOfSmall
<1>5. Dist(Ring(a - c), Ring(b - c)) = Dist(a, b)
  <2>1. Dist(a, b) = Ring(a - b)
    BY DEF Dist, Ring
  <2> QED BY <1>2, <1>3, <2>1
<1>6. Dist(a, b) = 0
  <2>1. Ring(a - c) \in Int
    BY <1>1, RingType DEF SeqNum
  <2>2. Ring(a - c) - Ring(b - c) = 0
    BY <1>1, <2>1
  <2>3. 0 \in SeqNum
    BY LinkAssumption DEF SeqNum
  <2>4. Dist(Ring(a - c), Ring(b - c)) = 0
    BY <2>2, <2>3, RingOfSmall DEF Dist, Ring
  <2> QED BY <1>5, <2>4
<1>7. Ring(a - b) = 0
  BY <1>6 DEF Dist, Ring
<1>8. Ring(a) = Ring(b)
  <2>1. CASE a - b < 0
    BY <1>0, <1>3, <1>7, <2>1, RingOfNegative
  <2>2. CASE ~(a - b < 0)
    <3>1. a - b \in SeqNum
      BY <1>0, <1>3, <2>2 DEF SeqNum
    <3>2. a - b = 0
      BY <1>7, <3>1, RingOfSmall
    <3> QED BY <1>0, <3>2
  <2> QED BY <2>1, <2>2
<1> QED BY <1>4, <1>8

LEMMA AfterRing ==
  ASSUME NEW k \in Int
  PROVE  After(Ring(k)) = Ring(k + 1)
<1> DEFINE a == Ring(k)
<1>0. SeqWrap \in Nat /\ SeqWrap >= 2
  BY LinkAssumption
<1>1. a \in SeqNum /\ k \in Int
  BY RingType
<1>2. PICK q \in Int : k = q * SeqWrap + a
  BY Remainder DEF Ring
<1> HIDE DEF a
<1>3. CASE a + 1 < SeqWrap
  <2>1. a + 1 \in SeqNum /\ k + 1 = q * SeqWrap + (a + 1)
    <3>1. q * SeqWrap \in Int /\ a \in Int
      BY <1>0, <1>1 DEF SeqNum
    <3> QED BY <1>0, <1>1, <1>2, <1>3, <3>1 DEF SeqNum
  <2>2. (k + 1) % SeqWrap = a + 1
    BY <2>1, RemainderUnique
  <2>3. After(a) = a + 1
    BY <2>1, RingOfSmall DEF After, Ring
  <2> QED BY <2>2, <2>3 DEF Ring, a
<1>4. CASE a + 1 = SeqWrap
  <2>1. k + 1 = (q + 1) * SeqWrap + 0 /\ 0 \in SeqNum
    <3>1. (q + 1) * SeqWrap = q * SeqWrap + SeqWrap
      BY <1>0
    <3>2. q * SeqWrap \in Int /\ a \in Int
      BY <1>0, <1>1 DEF SeqNum
    <3> QED BY <1>0, <1>2, <1>4, <3>1, <3>2 DEF SeqNum
  <2>2. (k + 1) % SeqWrap = 0
    BY <2>1, RemainderUnique
  <2>3. After(a) = 0
    <3>1. a + 1 = 1 * SeqWrap + 0
      BY <1>0, <1>4
    <3> QED BY <1>0, <1>1, <2>1, <3>1, RemainderUnique DEF After, SeqNum
  <2> QED BY <2>2, <2>3 DEF Ring, a
<1> QED BY <1>0, <1>1, <1>3, <1>4 DEF SeqNum

LEMMA WindowIsHalf == Window \in Nat /\ 2 * Window = SeqWrap /\ Window >= 1
<1>1. SeqWrap \in Nat /\ SeqWrap >= 2 /\ SeqWrap % 2 = 0
  BY LinkAssumption
<1>2. ASSUME NEW w \in Nat, w >= 2, w % 2 = 0
      PROVE  (w \div 2) \in Nat /\ 2 * (w \div 2) = w /\ w \div 2 >= 1
  BY <1>2, Z3
<1> QED BY <1>1, <1>2 DEF Window

-----------------------------------------------------------------------------
(* The types of the variables other than the buckets.                      *)
Tlps  == [seq : SeqNum, tlp : Serial]
Dllps == [kind : {"ACK", "NAK"}, seq : SeqNum]

TxOK == /\ next_tx_seq \in SeqNum /\ last_acked_seq \in SeqNum
        /\ retry_buf \in [SeqNum -> Serial \cup {None}]
        /\ tx_tlp_out \in Seq(Tlps)
        /\ sent \in 0..MaxTlp /\ base \in 0..sent /\ billed \in 0..MaxBill
RxOK == /\ next_rx_seq \in SeqNum /\ tx_dllp_out \in Seq(SeqNum)
        /\ taken \in 0..MaxRx
ErrOK == /\ tlp_loss \subseteq SeqNum /\ drop_next_dllp \in BOOLEAN
         /\ faults \in 0..MaxFaults /\ naks \in 0..MaxNaks
PeerOK == /\ expect \in SeqNum /\ got \in Seq(Serial) /\ nak_sent \in BOOLEAN
          /\ dllp_in \in Seq(Dllps)
ModeOK == switching \in BOOLEAN /\ modes \in 0..MaxModes
StateOK == TxOK /\ RxOK /\ ErrOK /\ PeerOK /\ ModeOK

LEMMA ConstantTypes ==
  /\ SeqWrap \in Nat /\ SeqWrap >= 2 /\ 0 \in SeqNum /\ SeqWrap - 1 \in SeqNum
  /\ SeqNum \subseteq Nat
  /\ MaxTlp \in Nat /\ MaxRx \in Nat /\ MaxFaults \in Nat /\ MaxNaks \in Nat
  /\ MaxModes \in Nat /\ MaxBill \in Nat
BY LinkAssumption DEF SeqNum

LEMMA DistType == ASSUME NEW a \in Int, NEW b \in Int PROVE Dist(a, b) \in SeqNum
<1>1. a - b \in Int
  OBVIOUS
<1> QED BY <1>1, Remainder DEF Dist

LEMMA AfterType == ASSUME NEW a \in Int PROVE After(a) \in SeqNum
<1>1. a + 1 \in Int
  OBVIOUS
<1> QED BY <1>1, Remainder DEF After

(* What a NAK sends again: copies of what the retry buffer holds.          *)
LEMMA NakSendsCopies ==
  ASSUME TxOK, NEW n \in SeqNum, OnNak(n)
  PROVE  /\ tx_tlp_out' \in Seq(Tlps)
         /\ \A i \in 1..Len(tx_tlp_out') :
              \/ \E j \in 1..Len(tx_tlp_out) : tx_tlp_out'[i] = tx_tlp_out[j]
              \/ \E s \in Outstanding : tx_tlp_out'[i] = Retransmitted(s)
<1>1. PICK q \in Ascending(AskedFor(n)) :
        tx_tlp_out' = [i \in DOMAIN q |-> Retransmitted(q[i])] \o tx_tlp_out
  BY DEF OnNak
<1> DEFINE c == Cardinality(AskedFor(n))
           r == [i \in 1..c |-> Retransmitted(q[i])]
<1>2. q \in [1..c -> AskedFor(n)] /\ AskedFor(n) \subseteq Outstanding
  BY <1>1 DEF Ascending, AskedFor
<1>3. IsFiniteSet(AskedFor(n))
  <2>1. IsFiniteSet(SeqNum)
    BY ConstantTypes, FS_Interval DEF SeqNum
  <2> QED BY <1>2, <2>1, FS_Subset DEF Outstanding
<1>4. c \in Nat
  BY <1>3, FS_CardinalityType
<1>5. \A s \in Outstanding : Retransmitted(s) \in Tlps
  BY DEF Outstanding, Retransmitted, Tlps, TxOK
<1> HIDE DEF c
<1>6. r \in Seq(Tlps) /\ Len(r) = c
  BY <1>2, <1>4, <1>5
<1>7. tx_tlp_out' = r \o tx_tlp_out
  BY <1>1, <1>2
<1>8. tx_tlp_out \in Seq(Tlps)
  BY DEF TxOK
<1>9. ASSUME NEW i \in 1..Len(tx_tlp_out')
      PROVE  \/ \E j \in 1..Len(tx_tlp_out) : tx_tlp_out'[i] = tx_tlp_out[j]
             \/ \E s \in Outstanding : tx_tlp_out'[i] = Retransmitted(s)
  <2>1. CASE i <= c
    <3>1. i \in 1..c /\ tx_tlp_out'[i] = r[i]
      BY <1>4, <1>6, <1>7, <1>8, <2>1
    <3> QED BY <1>2, <3>1
  <2>2. CASE ~(i <= c)
    <3>1. i - c \in 1..Len(tx_tlp_out) /\ tx_tlp_out'[i] = tx_tlp_out[i - c]
      BY <1>4, <1>6, <1>7, <1>8, <2>2
    <3> QED BY <3>1
  <2> QED BY <2>1, <2>2
<1> HIDE DEF r
<1>10. tx_tlp_out' \in Seq(Tlps)
  BY <1>6, <1>7, <1>8
<1> QED BY <1>9, <1>10

(* What is left of the queue towards the wire, and what the peer gets.     *)
LEMMA PopTakesPrefix ==
  ASSUME TxOK, tx_tlp_out # <<>>,
         tx_tlp_out' = SubSeq(tx_tlp_out, Lost + 2, Len(tx_tlp_out))
  PROVE  /\ tx_tlp_out' \in Seq(Tlps)
         /\ \A i \in 1..Len(tx_tlp_out') :
              \E j \in 1..Len(tx_tlp_out) : tx_tlp_out'[i] = tx_tlp_out[j]
         /\ Lost < Len(tx_tlp_out) => Lost + 1 \in 1..Len(tx_tlp_out)
<1> DEFINE k == Lost
           n == Len(tx_tlp_out)
<1>1. tx_tlp_out \in Seq(Tlps) /\ n \in Nat
  BY DEF TxOK
<1>2. k \in 0..n
  BY <1>1, LostIsAPrefix
<1> HIDE DEF k
<1> DEFINE m == k + 2
           r == SubSeq(tx_tlp_out, m, n)
<1>3. tx_tlp_out' = r /\ m \in Int /\ n \in Int /\ m >= 1
  BY <1>1, <1>2 DEF k
<1>4. \A i \in m..n : tx_tlp_out[i] \in Tlps
  BY <1>1, <1>3
<1> HIDE DEF m, r
<1>5. /\ r \in Seq(Tlps) /\ Len(r) = IF m <= n THEN n - m + 1 ELSE 0
      /\ \A i \in 1..(n - m + 1) : r[i] = tx_tlp_out[m + i - 1]
  BY <1>3, <1>4, SubSeqProperties DEF r
<1>6. ASSUME NEW i \in 1..Len(r) PROVE \E j \in 1..n : r[i] = tx_tlp_out[j]
  <2>1. i \in 1..(n - m + 1) /\ m + i - 1 \in 1..n
    BY <1>3, <1>5
  <2> QED BY <1>5, <2>1
<1>7. k < n => k + 1 \in 1..n
  BY <1>1, <1>2
<1> QED BY <1>3, <1>5, <1>6, <1>7 DEF k

LEMMA PeerKeepsTypes ==
  ASSUME PeerOK, NEW e \in Tlps, PeerTakes(e)
  PROVE  PeerOK'
<1>1. expect \in Int /\ After(expect) \in SeqNum /\ Dist(expect, 1) \in SeqNum
  BY ConstantTypes, AfterType, DistType DEF PeerOK
<1>2. /\ [kind |-> "ACK", seq |-> e.seq] \in Dllps
      /\ [kind |-> "ACK", seq |-> Dist(expect, 1)] \in Dllps
      /\ [kind |-> "NAK", seq |-> expect] \in Dllps
      /\ e.tlp \in Serial
  BY <1>1 DEF Dllps, Tlps, PeerOK
<1>3. \A d \in Dllps : Append(dllp_in, d) \in Seq(Dllps)
  BY DEF PeerOK
<1>4. dllp_in' \in Seq(Dllps)
  BY <1>2, <1>3 DEF PeerTakes, PeerOK
<1>5. got' \in Seq(Serial)
  <2>1. got \in Seq(Serial) /\ Append(got, e.tlp) \in Seq(Serial)
    BY <1>2, AppendProperties DEF PeerOK
  <2> QED BY <2>1 DEF PeerTakes
<1>6. expect' \in SeqNum /\ nak_sent' \in BOOLEAN
  BY <1>1 DEF PeerTakes, PeerOK
<1> QED BY <1>4, <1>5, <1>6 DEF PeerOK

LEMMA AckKeepsTypes ==
  ASSUME NEW a \in SeqNum, OnAck(a),
         last_acked_seq \in SeqNum, retry_buf \in [SeqNum -> Serial \cup {None}]
  PROVE  last_acked_seq' \in SeqNum /\ retry_buf' \in [SeqNum -> Serial \cup {None}]
BY DEF OnAck

LEMMA StateStep == StateOK /\ [Next]_vars => StateOK'
<1> SUFFICES ASSUME StateOK, [Next]_vars PROVE StateOK'
  OBVIOUS
<1> USE DEF StateOK
<1>1. ASSUME NEW v \in Vf, NEW t \in FcType, TxTlp(v, t) PROVE StateOK'
  <2>1. UNCHANGED <<rxVars, errVars, peerVars, switching, modes>>
    BY <1>1 DEF TxTlp
  <2>2. TxOK'
    <3>1. CASE UNCHANGED txVars
      BY <3>1 DEF TxOK, txVars
    <3>2. CASE ~UNCHANGED txVars
      <4>1. /\ sent < MaxTlp /\ sent' = sent + 1 /\ base' = base
            /\ next_tx_seq' = After(next_tx_seq)
            /\ last_acked_seq' = last_acked_seq
            /\ retry_buf' = IF next_tx_seq \in Outstanding THEN retry_buf
                            ELSE [retry_buf EXCEPT ![next_tx_seq] = sent + 1]
            /\ tx_tlp_out' = Append(tx_tlp_out,
                                    [seq |-> next_tx_seq, tlp |-> sent + 1])
        BY <1>1, <3>2 DEF TxTlp
      <4>7. billed' \in 0..MaxBill
        BY <1>1, <3>2, ConstantTypes DEF TxTlp, LaterBills, TxOK
      <4>2. sent + 1 \in Serial /\ sent' \in 0..MaxTlp /\ base' \in 0..sent'
        BY <4>1, ConstantTypes DEF TxOK, Serial
      <4>3. next_tx_seq' \in SeqNum
        BY <4>1, ConstantTypes, AfterType DEF TxOK
      <4>4. [seq |-> next_tx_seq, tlp |-> sent + 1] \in Tlps
        BY <4>2 DEF Tlps, TxOK
      <4>5. retry_buf' \in [SeqNum -> Serial \cup {None}]
        BY <4>1, <4>2 DEF TxOK
      <4>6. tx_tlp_out' \in Seq(Tlps)
        BY <4>1, <4>4 DEF TxOK
      <4> QED BY <4>1, <4>2, <4>3, <4>5, <4>6, <4>7 DEF TxOK
    <3> QED BY <3>1, <3>2
  <2> QED BY <2>1, <2>2 DEF RxOK, ErrOK, PeerOK, ModeOK, rxVars, errVars, peerVars
<1>2. ASSUME NEW v \in Vf, NEW t \in FcType, RxTlp(v, t) PROVE StateOK'
  <2>1. UNCHANGED <<txVars, errVars, peerVars, switching, modes>>
    BY <1>2 DEF RxTlp
  <2>2. RxOK'
    <3>1. After(next_rx_seq) \in SeqNum
      BY ConstantTypes, AfterType DEF RxOK
    <3> QED BY <1>2, <3>1, ConstantTypes DEF RxTlp, RxOK
  <2> QED BY <2>1, <2>2 DEF TxOK, ErrOK, PeerOK, ModeOK, txVars, errVars, peerVars
<1>3. CASE RxDllp
  <2>1. /\ UNCHANGED <<next_tx_seq, sent, base, billed, rxVars, errVars, expect,
                       got, nak_sent, switching, modes>>
        /\ dllp_in' = Tail(dllp_in) /\ dllp_in # <<>>
    BY <1>3 DEF RxDllp
  <2>2. dllp_in' \in Seq(Dllps) /\ Head(dllp_in) \in Dllps
    BY <2>1 DEF PeerOK
  <2>3. Head(dllp_in).seq \in SeqNum
    BY <2>2 DEF Dllps
  <2>4. CASE OnAck(Head(dllp_in).seq) /\ UNCHANGED tx_tlp_out
    BY <2>1, <2>2, <2>3, <2>4, AckKeepsTypes
       DEF TxOK, RxOK, ErrOK, PeerOK, ModeOK, rxVars, errVars
  <2>5. CASE OnNak(Head(dllp_in).seq) /\ UNCHANGED <<last_acked_seq, retry_buf>>
    <3>1. tx_tlp_out' \in Seq(Tlps)
      BY <2>3, <2>5, NakSendsCopies
    <3> QED BY <2>1, <2>2, <2>5, <3>1
            DEF TxOK, RxOK, ErrOK, PeerOK, ModeOK, rxVars, errVars
  <2> QED BY <1>3, <2>4, <2>5 DEF RxDllp
<1>4. CASE PopTlp
  <2>1. /\ UNCHANGED <<next_tx_seq, last_acked_seq, retry_buf, sent, base, billed,
                       rxVars, drop_next_dllp, faults, naks, switching, modes>>
        /\ tlp_loss' \subseteq tlp_loss
    BY <1>4 DEF PopTlp
  <2>2. /\ tx_tlp_out' \in Seq(Tlps)
        /\ Lost < Len(tx_tlp_out) => Lost + 1 \in 1..Len(tx_tlp_out)
    BY <1>4, PopTakesPrefix DEF PopTlp
  <2>3. PeerOK'
    <3>1. CASE Lost < Len(tx_tlp_out)
      <4>1. tx_tlp_out[Lost + 1] \in Tlps
        BY <2>2, <3>1 DEF TxOK
      <4> QED BY <1>4, <3>1, <4>1, PeerKeepsTypes DEF PopTlp
    <3>2. CASE ~(Lost < Len(tx_tlp_out))
      BY <1>4, <3>2 DEF PopTlp, PeerOK, peerVars
    <3> QED BY <3>1, <3>2
  <2> QED BY <2>1, <2>2, <2>3 DEF TxOK, RxOK, ErrOK, ModeOK, rxVars
<1>5. CASE PopDllp
  <2>1. /\ UNCHANGED <<txVars, next_rx_seq, taken, tlp_loss, faults, naks,
                       peerVars, switching, modes>>
        /\ drop_next_dllp' = FALSE
        /\ \E m \in {2, 3} :
             tx_dllp_out' = SubSeq(tx_dllp_out, m, Len(tx_dllp_out))
    BY <1>5 DEF PopDllp
  <2>2. tx_dllp_out' \in Seq(SeqNum)
    BY <2>1 DEF RxOK
  <2> QED BY <2>1, <2>2 DEF TxOK, RxOK, ErrOK, PeerOK, ModeOK, txVars, peerVars
<1>6. CASE LoseDllp
  <2>1. /\ UNCHANGED <<txVars, rxVars, tlp_loss, drop_next_dllp, naks, expect,
                       got, nak_sent, switching, modes>>
        /\ faults' \in 0..MaxFaults /\ dllp_in' \in Seq(Dllps)
    BY <1>6, ConstantTypes DEF LoseDllp, ErrOK, PeerOK
  <2> QED BY <2>1 DEF TxOK, RxOK, ErrOK, PeerOK, ModeOK, txVars, rxVars
<1>7. CASE PeerAsksAgain
  <2>1. [kind |-> "NAK", seq |-> expect] \in Dllps
    BY DEF PeerOK, Dllps
  <2>2. /\ UNCHANGED <<txVars, rxVars, errVars, expect, got, nak_sent,
                       switching, modes>>
        /\ dllp_in' \in Seq(Dllps)
    BY <1>7, <2>1 DEF PeerAsksAgain, PeerOK
  <2> QED BY <2>2 DEF TxOK, RxOK, ErrOK, PeerOK, ModeOK, txVars, rxVars, errVars
<1>8. ASSUME NEW c \in Grants, RxUpdateFc(c) \/ RxInitFc(c) PROVE StateOK'
  <2>1. UNCHANGED <<txVars, rxVars, errVars, peerVars, switching, modes>>
    BY <1>8 DEF RxUpdateFc, RxInitFc
  <2> QED BY <2>1 DEF TxOK, RxOK, ErrOK, PeerOK, ModeOK, txVars, rxVars, errVars,
                      peerVars
<1>9. ASSUME NEW s \in SeqNum, InjectTlpLoss(s) PROVE StateOK'
  BY <1>9, ConstantTypes DEF InjectTlpLoss, Inject, TxOK, RxOK, ErrOK, PeerOK,
     ModeOK, txVars, rxVars, peerVars
<1>10. ASSUME NEW s \in SeqNum, TickInjectedNak(s) PROVE StateOK'
  <2>1. tx_tlp_out' \in Seq(Tlps)
    BY <1>10, NakSendsCopies DEF TickInjectedNak
  <2>2. /\ UNCHANGED <<next_tx_seq, last_acked_seq, retry_buf, sent, base, billed,
                       rxVars, tlp_loss, drop_next_dllp, faults, peerVars, switching,
                       modes>>
        /\ naks' \in 0..MaxNaks
    BY <1>10, ConstantTypes DEF TickInjectedNak, ErrOK
  <2> QED BY <2>1, <2>2 DEF TxOK, RxOK, ErrOK, PeerOK, ModeOK, rxVars, peerVars
<1>11. CASE InjectDllpLoss
  BY <1>11, ConstantTypes DEF InjectDllpLoss, Inject, TxOK, RxOK, ErrOK, PeerOK,
     ModeOK, txVars, rxVars, peerVars
<1>12. CASE TriggerRateSwitch \/ RateReady
  <2>1. /\ UNCHANGED <<next_tx_seq, last_acked_seq, retry_buf, tx_tlp_out, sent,
                       base, rxVars, errVars, peerVars, modes>>
        /\ billed' \in {billed, 0} /\ switching' \in {TRUE, FALSE}
    BY <1>12 DEF TriggerRateSwitch, RateReady, txVars
  <2>2. billed' \in 0..MaxBill
    BY <2>1, ConstantTypes DEF TxOK
  <2> QED BY <2>1, <2>2 DEF TxOK, RxOK, ErrOK, PeerOK, ModeOK, rxVars, errVars,
                           peerVars
<1>13. CASE ApplyMode
  <2>1. /\ UNCHANGED <<tx_tlp_out, sent, billed, tx_dllp_out, taken, errVars,
                       switching>>
        /\ next_tx_seq' \in SeqNum /\ last_acked_seq' \in SeqNum
        /\ next_rx_seq' \in SeqNum /\ expect' \in SeqNum
        /\ retry_buf' \in [SeqNum -> Serial \cup {None}]
        /\ got' = <<>> /\ dllp_in' = <<>> /\ nak_sent' = FALSE
        /\ base' = sent /\ modes' \in 0..MaxModes
    BY <1>13, ConstantTypes DEF ApplyMode, ModeOK
  <2>2. base' \in 0..sent'
    BY <2>1, ConstantTypes DEF TxOK
  <2>3. got' \in Seq(Serial) /\ dllp_in' \in Seq(Dllps)
    BY <2>1
  <2> QED BY <2>1, <2>2, <2>3 DEF TxOK, RxOK, ErrOK, PeerOK, ModeOK, errVars
<1>14. CASE UNCHANGED vars
  BY <1>14 DEF vars, TxOK, RxOK, ErrOK, PeerOK, ModeOK, txVars, rxVars, errVars,
     peerVars
<1> QED BY <1>1, <1>2, <1>3, <1>4, <1>5, <1>6, <1>7, <1>8, <1>9, <1>10, <1>11,
           <1>12, <1>13, <1>14 DEF Next, Sending

LEMMA StateInit == Init => StateOK
<1> SUFFICES ASSUME Init PROVE StateOK
  OBVIOUS
<1>1. TxOK
  BY ConstantTypes DEF Init, TxOK
<1>2. RxOK
  <2>1. tx_dllp_out \in Seq(SeqNum)
    BY EmptySeq DEF Init
  <2> QED BY <2>1, ConstantTypes DEF Init, RxOK
<1>3. ErrOK /\ ModeOK
  <2>1. /\ tlp_loss = {} /\ drop_next_dllp = FALSE /\ switching = FALSE
        /\ faults = 0 /\ naks = 0 /\ modes = 0
    BY DEF Init
  <2>2. drop_next_dllp \in BOOLEAN /\ switching \in BOOLEAN
    BY <2>1
  <2>3. /\ tlp_loss \subseteq SeqNum /\ faults \in 0..MaxFaults
        /\ naks \in 0..MaxNaks /\ modes \in 0..MaxModes
    BY <2>1, ConstantTypes
  <2> QED BY <2>2, <2>3 DEF ErrOK, ModeOK
<1>4. PeerOK
  <2>1. got \in Seq(Serial) /\ dllp_in \in Seq(Dllps)
    BY EmptySeq DEF Init
  <2> QED BY <2>1, ConstantTypes DEF Init, PeerOK
<1> QED BY <1>1, <1>2, <1>3, <1>4 DEF StateOK

LEMMA StateTyped == Spec => []StateOK
BY StateInit, StateStep, PTL DEF Spec

(* Every variable keeps the type of the field it stands for, for every     *)
(* ring, every number of functions and every bound: what is queued names a *)
(* number of the ring and a TLP that exists, and no counter of credit goes *)
(* below 0 (pcie_link_layer_tlm.cc:344-385, 405-467, 495-529).             *)
THEOREM LinkTyped ==
  ASSUME NEW p, NEW n, NEW q, FcType = {p, n, q}
  PROVE  Spec => []TypeOK
<1>1. CreditInv /\ StateOK => TypeOK
  BY DEF CreditInv, Granted, StateOK, TxOK, RxOK, ErrOK, PeerOK, ModeOK, TypeOK,
     Tlps, Dllps
<1> QED BY <1>1, CreditInvariant, StateTyped, PTL

-----------------------------------------------------------------------------
(* The order of the TLPs.  A queued copy is fresh when it is less than a   *)
(* turn of the ring behind what the peer expects.                          *)
FreshCopies ==
  \A i \in 1..Len(tx_tlp_out) : tx_tlp_out[i].tlp + SeqWrap > Len(got) + 1

(* All but the first "acked" TLPs are in the retry buffer, each under its  *)
(* number.                                                                 *)
Retained(acked) ==
  /\ \A s \in SeqNum : retry_buf[s] # None =>
        retry_buf[s] \in (acked + 1)..sent /\ s = Ring(retry_buf[s] - 1)
  /\ \A k \in (acked + 1)..sent : retry_buf[Ring(k - 1)] = k

(* A copy of one of the first n TLPs, under its number.                    *)
IsCopy(e, n) == e.tlp \in 1..n /\ e.seq = Ring(e.tlp - 1)
OnlyCopies == \A i \in 1..Len(tx_tlp_out) : IsCopy(tx_tlp_out[i], sent)

(* The ACKs on the wire say how many TLPs the peer had taken, "heard"      *)
(* for each of its DLLPs: never fewer than an earlier one.                 *)
Answers(acked, heard) ==
  /\ heard \in Seq(Nat) /\ Len(heard) = Len(dllp_in)
  /\ \A i \in 1..Len(heard) : heard[i] \in acked..Len(got)
  /\ \A i, j \in 1..Len(heard) : i < j => heard[i] <= heard[j]
  /\ \A i \in 1..Len(heard) :
       dllp_in[i].kind = "ACK" => dllp_in[i].seq = Ring(heard[i] - 1)

InOrder == \A i \in 1..Len(got) : got[i] = i

Counters(acked) ==
  /\ acked \in Nat /\ base = 0
  /\ acked <= Len(got) /\ Len(got) <= sent /\ sent <= acked + Window
  /\ last_acked_seq = Ring(acked - 1) /\ next_tx_seq = Ring(sent)
  /\ expect = Ring(Len(got))

OrderAt(acked, heard) ==
  /\ Counters(acked) /\ Retained(acked) /\ Answers(acked, heard)
  /\ OnlyCopies /\ InOrder

OrderInv == StateOK /\ \E acked \in Nat, heard \in Seq(Nat) : OrderAt(acked, heard)

LEMMA Sizes ==
  ASSUME StateOK
  PROVE  /\ Len(tx_tlp_out) \in Nat /\ Len(got) \in Nat /\ Len(dllp_in) \in Nat
         /\ sent \in Nat /\ SeqWrap \in Nat /\ Window \in Nat
         /\ 2 * Window = SeqWrap /\ Window >= 1
BY ConstantTypes, WindowIsHalf DEF StateOK, TxOK, PeerOK

(* The number of TLPs in the retry buffer.                                 *)
LEMMA OutstandingCount ==
  ASSUME StateOK, NEW acked \in Nat, Counters(acked), Retained(acked)
  PROVE  IsFiniteSet(Outstanding) /\ Cardinality(Outstanding) = sent - acked
<1> DEFINE S == (acked + 1)..sent
           f == [k \in S |-> Ring(k - 1)]
<1>0. /\ sent \in Nat /\ acked <= sent /\ sent <= acked + Window
      /\ Window \in Nat /\ SeqWrap \in Nat /\ 2 * Window = SeqWrap /\ Window >= 1
  BY Sizes DEF Counters, StateOK, PeerOK
<1>1. S \subseteq Nat /\ \A k \in S : k - 1 \in Int
  BY <1>0
<1>2. \A k \in S : Ring(k - 1) \in SeqNum
  BY <1>1, RingType
<1>3. \A k \in S : retry_buf[Ring(k - 1)] = k /\ k # None
  BY <1>0 DEF Retained, None
<1>4. f \in [S -> Outstanding]
  BY <1>2, <1>3 DEF Outstanding
<1>5. \A j, k \in S : f[j] = f[k] => j = k
  BY <1>3
<1>6. \A s \in Outstanding : \E k \in S : f[k] = s
  BY DEF Retained, Outstanding
<1>7. f \in Bijection(S, Outstanding)
  BY <1>4, <1>5, <1>6 DEF Bijection, Injection, Surjection, IsInjective
<1> HIDE DEF f
<1>8. ExistsBijection(S, Outstanding)
  BY <1>7 DEF ExistsBijection
<1>9. IsFiniteSet(S) /\ Cardinality(S) = sent - acked
  <2>1. /\ IsFiniteSet(S)
        /\ Cardinality(S) = IF acked + 1 > sent THEN 0 ELSE sent - (acked + 1) + 1
    BY <1>0, FS_Interval
  <2> QED BY <1>0, <2>1
<1> HIDE DEF S
<1> QED BY <1>8, <1>9, FS_Bijection

(* A queue of copies stays one.                                            *)
LEMMA CopiesStay ==
  ASSUME OnlyCopies, sent \in Nat, sent' \in Nat, sent' >= sent, sent' <= sent + 1,
         \A i \in 1..Len(tx_tlp_out') :
            \/ \E j \in 1..Len(tx_tlp_out) : tx_tlp_out'[i] = tx_tlp_out[j]
            \/ IsCopy(tx_tlp_out'[i], sent')
  PROVE  OnlyCopies'
<1> SUFFICES ASSUME NEW i \in 1..Len(tx_tlp_out') PROVE IsCopy(tx_tlp_out'[i], sent')
  BY DEF OnlyCopies
<1>1. CASE \E j \in 1..Len(tx_tlp_out) : tx_tlp_out'[i] = tx_tlp_out[j]
  <2>1. PICK j \in 1..Len(tx_tlp_out) : tx_tlp_out'[i] = tx_tlp_out[j]
    BY <1>1
  <2>2. IsCopy(tx_tlp_out[j], sent)
    BY <2>1 DEF OnlyCopies
  <2>3. tx_tlp_out[j].tlp \in 1..sent'
    BY <2>2 DEF IsCopy
  <2> QED BY <2>1, <2>2, <2>3 DEF IsCopy
<1> QED BY <1>1

(* A NAK, from the peer or injected, adds copies.                          *)
LEMMA NakAddsCopies ==
  ASSUME StateOK, NEW acked \in Nat, Retained(acked), OnlyCopies,
         NEW n \in SeqNum, OnNak(n), UNCHANGED sent
  PROVE  OnlyCopies'
<1>1. \A s \in Outstanding : IsCopy(Retransmitted(s), sent)
  <2> SUFFICES ASSUME NEW s \in Outstanding
               PROVE  retry_buf[s] \in 1..sent /\ s = Ring(retry_buf[s] - 1)
    BY DEF Retransmitted, IsCopy
  <2>1. s \in SeqNum /\ retry_buf[s] # None
    BY DEF Outstanding
  <2>2. retry_buf[s] \in (acked + 1)..sent /\ s = Ring(retry_buf[s] - 1)
    BY <2>1 DEF Retained
  <2> QED BY <2>2, Sizes
<1>2. sent \in Nat /\ sent' = sent /\ TxOK
  BY Sizes DEF StateOK
<1>3. \A i \in 1..Len(tx_tlp_out') :
         \/ \E j \in 1..Len(tx_tlp_out) : tx_tlp_out'[i] = tx_tlp_out[j]
         \/ \E s \in Outstanding : tx_tlp_out'[i] = Retransmitted(s)
  BY <1>2, NakSendsCopies
<1> QED BY <1>1, <1>2, <1>3, CopiesStay

(* An ACK of the peer frees the TLPs it names and no other.                *)
LEMMA AckFrees ==
  ASSUME StateOK, NEW acked \in Nat, Counters(acked), Retained(acked),
         NEW x \in acked..Len(got), OnAck(Ring(x - 1)),
         UNCHANGED <<sent, base, got, next_tx_seq, expect>>
  PROVE  Counters(x)' /\ Retained(x)'
<1> DEFINE delta == Dist(Ring(x - 1), last_acked_seq)
<1>0. /\ sent \in Nat /\ Len(got) \in Nat /\ x \in Nat /\ acked <= x
      /\ x <= Len(got) /\ Len(got) <= sent /\ sent <= acked + Window
      /\ SeqWrap \in Nat /\ Window \in Nat /\ 2 * Window = SeqWrap /\ Window >= 1
  BY Sizes DEF Counters
<1>1. /\ base = 0 /\ next_tx_seq = Ring(sent) /\ expect = Ring(Len(got))
      /\ last_acked_seq = Ring(acked - 1)
  BY DEF Counters
<1>2. \A k \in Nat : k >= acked /\ k <= sent =>
          Dist(Ring(k - 1), last_acked_seq) = k - acked
  <2> SUFFICES ASSUME NEW k \in Nat, k >= acked, k <= sent
               PROVE  Dist(Ring(k - 1), Ring(acked - 1)) = k - acked
    BY <1>1
  <2>1. k - 1 \in Int /\ acked - 1 \in Int /\ (k - 1) - (acked - 1) = k - acked
    OBVIOUS
  <2>2. Dist(Ring(k - 1), Ring(acked - 1)) = Ring(k - acked)
    BY <2>1, RingDist
  <2>3. k - acked \in SeqNum
    BY <1>0 DEF SeqNum
  <2> QED BY <2>2, <2>3, RingOfSmall
<1>3. delta = x - acked
  BY <1>0, <1>2
<1> HIDE DEF delta
<1>4. CASE x = acked
  <2>1. last_acked_seq' = last_acked_seq /\ retry_buf' = retry_buf
    BY <1>0, <1>3, <1>4 DEF OnAck, delta
  <2> QED BY <1>4, <2>1 DEF Counters, Retained, Ring
<1>5. CASE x # acked
  <2>1. delta # 0 /\ ~(delta > Window)
    BY <1>0, <1>3, <1>5
  <2>2. /\ last_acked_seq' = Ring(x - 1)
        /\ retry_buf' = [s \in SeqNum |->
              IF Dist(s, last_acked_seq) \in 1..delta THEN None ELSE retry_buf[s]]
    BY <2>1 DEF OnAck, delta
  <2>3. Counters(x)'
    BY <1>0, <1>1, <2>2 DEF Counters, Ring
  <2>4. ASSUME NEW k \in (x + 1)..sent PROVE retry_buf'[Ring(k - 1)] = k
    <3>1. k \in Nat /\ k >= acked /\ k <= sent /\ k \in (acked + 1)..sent
      BY <1>0
    <3>2. Dist(Ring(k - 1), last_acked_seq) = k - acked
      BY <1>2, <3>1
    <3>3. ~(Dist(Ring(k - 1), last_acked_seq) \in 1..delta)
      BY <1>0, <1>3, <3>2
    <3>4. Ring(k - 1) \in SeqNum
      BY <3>1, RingType
    <3>5. retry_buf[Ring(k - 1)] = k
      BY <3>1 DEF Retained
    <3> QED BY <2>2, <3>3, <3>4, <3>5
  <2>5. ASSUME NEW s \in SeqNum, retry_buf'[s] # None
        PROVE  retry_buf'[s] \in (x + 1)..sent /\ s = Ring(retry_buf'[s] - 1)
    <3>1. retry_buf'[s] = retry_buf[s] /\ ~(Dist(s, last_acked_seq) \in 1..delta)
      BY <2>2, <2>5
    <3> DEFINE k == retry_buf[s]
    <3>2. k \in (acked + 1)..sent /\ s = Ring(k - 1)
      BY <2>5, <3>1 DEF Retained
    <3> HIDE DEF k
    <3>3. k \in Nat /\ k >= acked /\ k <= sent
      BY <1>0, <3>2
    <3>4. Dist(s, last_acked_seq) = k - acked
      BY <1>2, <3>2, <3>3
    <3>5. k > x
      BY <1>0, <1>3, <3>1, <3>2, <3>3, <3>4
    <3> QED BY <1>0, <3>1, <3>2, <3>3, <3>5 DEF k
  <2>6. Retained(x)'
    <3>1. sent' = sent
      OBVIOUS
    <3> QED BY <2>4, <2>5, <3>1 DEF Retained, Ring
  <2> QED BY <2>3, <2>6
<1> QED BY <1>4, <1>5

(* A DLLP leaves the wire, received or lost.                               *)
LEMMA AnswersLeave ==
  ASSUME StateOK, NEW acked \in Nat, NEW heard \in Seq(Nat), Answers(acked, heard),
         dllp_in # <<>>, dllp_in' = Tail(dllp_in), UNCHANGED got,
         NEW x \in Nat, x <= heard[1]
  PROVE  /\ Tail(heard) \in Seq(Nat) /\ Answers(x, Tail(heard))'
         /\ heard[1] \in acked..Len(got)
<1> DEFINE n == Len(heard)
           t == Tail(heard)
<1>0. Len(got) \in Nat /\ dllp_in \in Seq(Dllps) /\ got' = got
  BY Sizes DEF StateOK, PeerOK
<1>1. n = Len(dllp_in) /\ n \in Nat /\ n >= 1
  BY <1>0 DEF Answers
<1>2. heard # <<>>
  BY <1>1
<1>3. /\ t \in Seq(Nat) /\ Len(t) = n - 1
      /\ \A i \in 1..(n - 1) : t[i] = heard[i + 1]
  BY <1>2, HeadTailProperties
<1>4. /\ Len(dllp_in') = n - 1
      /\ \A i \in 1..(n - 1) : dllp_in'[i] = dllp_in[i + 1]
  BY <1>0, <1>1, HeadTailProperties
<1> HIDE DEF t, n
<1>5. \A i \in 1..(n - 1) : i + 1 \in 1..n /\ 1 < i + 1 /\ 1 \in 1..n
  BY <1>1
<1>6. \A i \in 1..n : heard[i] \in acked..Len(got) /\ heard[i] \in Nat
  BY <1>0 DEF Answers, n
<1>7. \A i \in 1..(n - 1) : t[i] \in x..Len(got)
  <2> SUFFICES ASSUME NEW i \in 1..(n - 1) PROVE heard[i + 1] \in x..Len(got)
    BY <1>3
  <2>1. heard[1] <= heard[i + 1]
    BY <1>5 DEF Answers, n
  <2>2. heard[i + 1] \in Nat /\ heard[i + 1] <= Len(got) /\ heard[1] \in Nat
    BY <1>0, <1>5, <1>6
  <2> QED BY <1>0, <2>1, <2>2
<1>8. \A i, j \in 1..(n - 1) : i < j => t[i] <= t[j]
  <2> SUFFICES ASSUME NEW i \in 1..(n - 1), NEW j \in 1..(n - 1), i < j
               PROVE  heard[i + 1] <= heard[j + 1]
    BY <1>3
  <2>1. i + 1 < j + 1
    BY <1>1
  <2> QED BY <1>5, <2>1 DEF Answers, n
<1>9. \A i \in 1..(n - 1) : dllp_in'[i].kind = "ACK" =>
                              dllp_in'[i].seq = Ring(t[i] - 1)
  BY <1>3, <1>4, <1>5 DEF Answers, n
<1>10. Answers(x, t)'
  BY <1>0, <1>3, <1>4, <1>7, <1>8, <1>9 DEF Answers, Ring
<1> QED BY <1>1, <1>3, <1>6, <1>10 DEF t

(* The peer answers with what it has taken.                                *)
LEMMA AnswersGrow ==
  ASSUME StateOK, NEW acked \in Nat, NEW heard \in Seq(Nat), Answers(acked, heard),
         acked <= Len(got), NEW g \in Nat, g = Len(got'),
         g \in {Len(got), Len(got) + 1},
         NEW d \in Dllps, dllp_in' = Append(dllp_in, d),
         d.kind = "ACK" => d.seq = Ring(g - 1)
  PROVE  \E h \in Seq(Nat) : Answers(acked, h)'
<1> DEFINE n == Len(heard)
           h == Append(heard, g)
<1>0. Len(got) \in Nat /\ dllp_in \in Seq(Dllps) /\ acked <= Len(got)
      /\ Len(got) <= g
  BY Sizes DEF StateOK, PeerOK
<1>1. n = Len(dllp_in) /\ n \in Nat
  BY <1>0 DEF Answers
<1>2. /\ h \in Seq(Nat) /\ Len(h) = n + 1 /\ h[n + 1] = g
      /\ \A i \in 1..n : h[i] = heard[i]
  BY <1>0, AppendProperties
<1>3. /\ Len(dllp_in') = n + 1 /\ dllp_in'[n + 1] = d
      /\ \A i \in 1..n : dllp_in'[i] = dllp_in[i]
  BY <1>0, <1>1, AppendProperties
<1> HIDE DEF h, n
<1>4. \A i \in 1..n : heard[i] \in acked..Len(got) /\ heard[i] <= g
  BY <1>0 DEF Answers, n
<1>5. \A i \in 1..(n + 1) : i \in 1..n \/ i = n + 1
  BY <1>1
<1>6. \A i \in 1..(n + 1) : h[i] \in acked..g
  <2>1. g \in acked..g
    BY <1>0
  <2>2. \A i \in 1..n : heard[i] \in acked..g
    BY <1>0, <1>4
  <2> QED BY <1>2, <1>5, <2>1, <2>2
<1>7. \A i, j \in 1..(n + 1) : i < j => h[i] <= h[j]
  <2> SUFFICES ASSUME NEW i \in 1..(n + 1), NEW j \in 1..(n + 1), i < j
               PROVE  h[i] <= h[j]
    OBVIOUS
  <2>1. i \in 1..n
    BY <1>1
  <2>2. CASE j \in 1..n
    BY <1>2, <2>1, <2>2 DEF Answers, n
  <2>3. CASE j = n + 1
    BY <1>2, <1>4, <2>1, <2>3
  <2> QED BY <1>5, <2>2, <2>3
<1>8. \A i \in 1..(n + 1) : dllp_in'[i].kind = "ACK" =>
                              dllp_in'[i].seq = Ring(h[i] - 1)
  BY <1>2, <1>3, <1>5 DEF Answers, n
<1>9. Answers(acked, h)'
  BY <1>2, <1>3, <1>6, <1>7, <1>8 DEF Answers, Ring
<1> QED BY <1>2, <1>9

(* The peer takes a fresh copy exactly when it is the next TLP.            *)
LEMMA PeerTakesTheNext ==
  ASSUME StateOK, NEW acked \in Nat, Counters(acked),
         NEW e \in Tlps, IsCopy(e, sent), e.tlp + SeqWrap > Len(got) + 1,
         e.seq = expect
  PROVE  e.tlp = Len(got) + 1 /\ Len(got) < sent
<1> DEFINE g == Len(got)
           k == e.tlp
<1>0. /\ sent \in Nat /\ g \in Nat /\ k \in Nat /\ k >= 1 /\ k <= sent
      /\ SeqWrap \in Nat /\ Window \in Nat /\ 2 * Window = SeqWrap /\ Window >= 1
      /\ acked <= g /\ g <= sent /\ sent <= acked + Window /\ k + SeqWrap > g + 1
  BY Sizes DEF Counters, IsCopy
<1>1. Ring(k - 1) = Ring(g)
  BY DEF Counters, IsCopy
<1> HIDE DEF g, k
<1>2. k - 1 \in Int /\ g \in Int /\ -SeqWrap < (k - 1) - g /\ (k - 1) - g < SeqWrap
  BY <1>0
<1>3. k - 1 = g
  BY <1>1, <1>2, RingInjective
<1> QED BY <1>0, <1>3 DEF g, k

LEMMA PeerKeepsOrder ==
  ASSUME StateOK, NEW acked \in Nat, NEW heard \in Seq(Nat), OrderAt(acked, heard),
         NEW e \in Tlps, IsCopy(e, sent), e.tlp + SeqWrap > Len(got) + 1,
         PeerTakes(e),
         UNCHANGED <<next_tx_seq, last_acked_seq, retry_buf, sent, base>>
  PROVE  /\ Counters(acked)' /\ Retained(acked)' /\ InOrder'
         /\ \E h \in Seq(Nat) : Answers(acked, h)'
         /\ \/ got' = got
            \/ got' = Append(got, Len(got) + 1) /\ Len(got) < sent
<1>0. /\ Len(got) \in Nat /\ got \in Seq(Serial) /\ sent \in Nat
      /\ acked <= Len(got) /\ expect \in SeqNum /\ 1 \in SeqNum
      /\ expect = Ring(Len(got)) /\ Counters(acked) /\ Retained(acked)
      /\ Answers(acked, heard) /\ InOrder
  BY Sizes, ConstantTypes DEF OrderAt, Counters, StateOK, PeerOK, SeqNum
<1>1. CASE /\ e.seq = expect
           /\ got' = Append(got, e.tlp) /\ expect' = After(expect)
           /\ dllp_in' = Append(dllp_in, [kind |-> "ACK", seq |-> e.seq])
  <2>1. e.tlp = Len(got) + 1 /\ Len(got) < sent
    BY <1>0, <1>1, PeerTakesTheNext
  <2>2. /\ Len(got') = Len(got) + 1
        /\ got'[Len(got) + 1] = Len(got) + 1
        /\ \A i \in 1..Len(got) : got'[i] = got[i]
    BY <1>0, <1>1, <2>1, AppendProperties DEF Tlps
  <2>3. expect' = Ring(Len(got) + 1)
    BY <1>0, <1>1, AfterRing
  <2>4. Counters(acked)'
    BY <1>0, <2>1, <2>2, <2>3 DEF Counters, Ring
  <2>5. InOrder'
    BY <1>0, <2>2 DEF InOrder
  <2>6. Retained(acked)'
    BY <1>0 DEF Retained, Ring
  <2>7. \E h \in Seq(Nat) : Answers(acked, h)'
    <3> DEFINE d == [kind |-> "ACK", seq |-> e.seq]
               g == Len(got) + 1
    <3>1. d \in Dllps /\ d.seq = Ring(g - 1) /\ g \in Nat
      BY <1>0, <1>1 DEF Dllps, Tlps
    <3>2. g = Len(got') /\ dllp_in' = Append(dllp_in, d)
      BY <1>1, <2>2
    <3> HIDE DEF d, g
    <3>3. g \in {Len(got), Len(got) + 1}
      BY DEF g
    <3> QED BY <1>0, <3>1, <3>2, <3>3, AnswersGrow
  <2> QED BY <1>1, <2>1, <2>4, <2>5, <2>6, <2>7
<1>2. CASE /\ UNCHANGED <<expect, got>>
           /\ \/ dllp_in' = Append(dllp_in, [kind |-> "ACK", seq |-> Dist(expect, 1)])
              \/ dllp_in' = Append(dllp_in, [kind |-> "NAK", seq |-> expect])
              \/ dllp_in' = dllp_in
  <2>1. Counters(acked)' /\ InOrder' /\ Retained(acked)'
    BY <1>0, <1>2 DEF Counters, Retained, InOrder, Ring
  <2>2. CASE dllp_in' = dllp_in
    <3>1. Answers(acked, heard)'
      BY <1>0, <1>2, <2>2 DEF Answers, Ring
    <3> QED BY <1>2, <2>1, <3>1
  <2>3. CASE dllp_in' = Append(dllp_in, [kind |-> "NAK", seq |-> expect])
    <3> DEFINE d == [kind |-> "NAK", seq |-> expect]
               g == Len(got)
    <3>1. d \in Dllps /\ d.kind # "ACK" /\ g \in Nat /\ g = Len(got')
      BY <1>0, <1>2 DEF Dllps
    <3>2. \E h \in Seq(Nat) : Answers(acked, h)'
      <4> HIDE DEF d, g
      <4>1. g \in {Len(got), Len(got) + 1} /\ dllp_in' = Append(dllp_in, d)
        BY <2>3 DEF d, g
      <4> QED BY <1>0, <3>1, <4>1, AnswersGrow
    <3> QED BY <1>2, <2>1, <3>2
  <2>4. CASE dllp_in' = Append(dllp_in, [kind |-> "ACK", seq |-> Dist(expect, 1)])
    <3> DEFINE d == [kind |-> "ACK", seq |-> Dist(expect, 1)]
               g == Len(got)
    <3>1. Dist(expect, 1) = Ring(Len(got) - 1)
      <4>1. Ring(1) = 1 /\ 1 \in Int
        BY <1>0, RingOfSmall
      <4> QED BY <1>0, <4>1, RingDist
    <3>2. Ring(Len(got) - 1) \in SeqNum
      <4>1. Len(got) - 1 \in Int
        BY <1>0
      <4> QED BY <4>1, RingType
    <3>3. d \in Dllps /\ d.seq = Ring(g - 1) /\ g \in Nat /\ g = Len(got')
      BY <1>0, <1>2, <3>1, <3>2 DEF Dllps
    <3>4. \E h \in Seq(Nat) : Answers(acked, h)'
      <4> HIDE DEF d, g
      <4>1. g \in {Len(got), Len(got) + 1} /\ dllp_in' = Append(dllp_in, d)
        BY <2>4 DEF d, g
      <4> QED BY <1>0, <3>3, <4>1, AnswersGrow
    <3> QED BY <1>2, <2>1, <3>4
  <2> QED BY <1>2, <2>2, <2>3, <2>4
<1> QED BY <1>1, <1>2 DEF PeerTakes

(* A TLP of the transaction layer gets a number no other one holds.        *)
LEMMA SendKeepsOrder ==
  ASSUME StateOK, NEW acked \in Nat, NEW heard \in Seq(Nat), OrderAt(acked, heard),
         NEW v \in Vf, NEW t \in FcType, TxTlp(v, t), ~WindowFull
  PROVE  OrderAt(acked, heard)'
<1>0. /\ sent \in Nat /\ Len(got) \in Nat /\ acked <= Len(got) /\ Len(got) <= sent
      /\ SeqWrap \in Nat /\ Window \in Nat /\ 2 * Window = SeqWrap /\ Window >= 1
      /\ Counters(acked) /\ Retained(acked) /\ next_tx_seq = Ring(sent)
      /\ Answers(acked, heard) /\ OnlyCopies /\ InOrder /\ TxOK
  BY Sizes DEF OrderAt, Counters, StateOK
<1>1. /\ sent' = sent + 1 /\ base' = base
      /\ next_tx_seq' = After(next_tx_seq)
      /\ last_acked_seq' = last_acked_seq
      /\ retry_buf' = IF next_tx_seq \in Outstanding THEN retry_buf
                      ELSE [retry_buf EXCEPT ![next_tx_seq] = sent + 1]
      /\ tx_tlp_out' = Append(tx_tlp_out,
                              [seq |-> next_tx_seq, tlp |-> sent + 1])
      /\ UNCHANGED <<expect, got, dllp_in>>
  BY DEF TxTlp, peerVars
<1>2. sent - acked < Window
  <2>1. Cardinality(Outstanding) = sent - acked
    BY <1>0, OutstandingCount
  <2> QED BY <1>0, <2>1 DEF WindowFull
<1>3. Ring(sent) \in SeqNum /\ Ring(sent) \in DOMAIN retry_buf
  BY <1>0, RingType DEF TxOK
<1>4. \A k \in (acked + 1)..sent : Ring(k - 1) # Ring(sent)
  <2> SUFFICES ASSUME NEW k \in (acked + 1)..sent, Ring(k - 1) = Ring(sent)
               PROVE  FALSE
    OBVIOUS
  <2>1. /\ k \in Int /\ k - 1 \in Int /\ sent \in Int /\ -SeqWrap < (k - 1) - sent
        /\ (k - 1) - sent < SeqWrap /\ k - 1 # sent
    BY <1>0, <1>2
  <2> QED BY <2>1, RingInjective
<1>5. Ring(sent) \notin Outstanding
  BY <1>0, <1>4 DEF Retained, Outstanding
<1>6. retry_buf' = [retry_buf EXCEPT ![Ring(sent)] = sent + 1]
  BY <1>0, <1>1, <1>5
<1>7. Retained(acked)'
  <2>1. ASSUME NEW s \in SeqNum, retry_buf'[s] # None
        PROVE  /\ retry_buf'[s] \in (acked + 1)..sent'
               /\ s = Ring(retry_buf'[s] - 1)
    <3>1. CASE s = Ring(sent)
      BY <1>0, <1>1, <1>2, <1>3, <1>6, <3>1 DEF Counters
    <3>2. CASE s # Ring(sent)
      <4>1. retry_buf'[s] = retry_buf[s]
        BY <1>6, <3>2
      <4>2. retry_buf[s] \in (acked + 1)..sent /\ s = Ring(retry_buf[s] - 1)
        BY <1>0, <2>1, <4>1 DEF Retained
      <4> QED BY <1>0, <1>1, <4>1, <4>2
    <3> QED BY <3>1, <3>2
  <2>2. ASSUME NEW k \in (acked + 1)..(sent + 1) PROVE retry_buf'[Ring(k - 1)] = k
    <3>1. CASE k = sent + 1
      <4>1. k - 1 = sent
        BY <1>0, <3>1
      <4> QED BY <1>3, <1>6, <3>1, <4>1
    <3>2. CASE k \in (acked + 1)..sent
      <4>1. Ring(k - 1) # Ring(sent) /\ retry_buf[Ring(k - 1)] = k
        BY <1>0, <1>4, <3>2 DEF Retained
      <4> QED BY <1>6, <4>1
    <3> QED BY <1>0, <3>1, <3>2
  <2> QED BY <1>1, <2>1, <2>2 DEF Retained, Ring
<1>8. Counters(acked)'
  <2>1. next_tx_seq' = Ring(sent + 1)
    BY <1>0, <1>1, AfterRing
  <2> QED BY <1>0, <1>1, <1>2, <2>1 DEF Counters, Ring
<1>9. OnlyCopies'
  <2> DEFINE e == [seq |-> Ring(sent), tlp |-> sent + 1]
  <2>1. IsCopy(e, sent')
    <3>1. (sent + 1) - 1 = sent /\ sent + 1 \in 1..sent'
      BY <1>0, <1>1
    <3> QED BY <3>1 DEF IsCopy
  <2>2. tx_tlp_out' = Append(tx_tlp_out, e) /\ tx_tlp_out \in Seq(Tlps)
    BY <1>0, <1>1 DEF TxOK
  <2> HIDE DEF e
  <2>3. \A i \in 1..Len(tx_tlp_out') :
           \/ \E j \in 1..Len(tx_tlp_out) : tx_tlp_out'[i] = tx_tlp_out[j]
           \/ IsCopy(tx_tlp_out'[i], sent')
    BY <2>1, <2>2
  <2>4. sent' \in Nat /\ sent' >= sent /\ sent' <= sent + 1
    BY <1>0, <1>1
  <2> QED BY <1>0, <2>3, <2>4, CopiesStay
<1>10. Answers(acked, heard)' /\ InOrder'
  BY <1>0, <1>1 DEF Answers, InOrder, Ring
<1> QED BY <1>7, <1>8, <1>9, <1>10 DEF OrderAt

(* What the other variables do does not matter to the order.               *)
orderVars == <<next_tx_seq, last_acked_seq, retry_buf, tx_tlp_out, sent, base,
               expect, got, dllp_in>>

LEMMA OrderUntouched ==
  ASSUME NEW acked \in Nat, NEW heard \in Seq(Nat), OrderAt(acked, heard),
         UNCHANGED orderVars
  PROVE  OrderAt(acked, heard)'
BY DEF orderVars, OrderAt, Counters, Retained, Answers, OnlyCopies, InOrder, Ring

(* What a step may do to the two ends of the link.                         *)
Progress == \/ sent' = sent /\ got' = got
            \/ sent' = sent + 1 /\ got' = got
            \/ sent' = sent /\ got' = Append(got, Len(got) + 1) /\ Len(got) < sent

LEMMA OrderStep ==
  ASSUME MaxModes = 0, OrderInv, FreshCopies, StateOK', [Next]_vars
  PROVE  OrderInv' /\ Progress /\ base' = 0
<1> DEFINE SomeOrder == \E a \in Nat, h \in Seq(Nat) : OrderAt(a, h)'
<1>1. PICK acked \in Nat, heard \in Seq(Nat) : OrderAt(acked, heard)
  BY DEF OrderInv
<1>2. /\ StateOK /\ TxOK /\ PeerOK /\ sent \in Nat
      /\ Counters(acked) /\ Retained(acked) /\ Answers(acked, heard)
      /\ OnlyCopies /\ InOrder /\ base = 0 /\ acked <= Len(got)
  BY <1>1, Sizes DEF OrderInv, OrderAt, Counters, StateOK
<1> SUFFICES SomeOrder /\ Progress
  <2>1. ASSUME SomeOrder PROVE base' = 0
    BY <2>1 DEF OrderAt, Counters
  <2> QED BY <2>1 DEF OrderInv
<1>3. ASSUME UNCHANGED orderVars PROVE SomeOrder /\ Progress
  <2>1. OrderAt(acked, heard)'
    BY <1>1, <1>3, OrderUntouched
  <2> QED BY <1>3, <2>1 DEF orderVars, Progress
<1>4. ASSUME NEW v \in Vf, NEW t \in FcType, TxTlp(v, t)
      PROVE  SomeOrder /\ Progress
  <2>1. CASE WindowFull
    BY <1>3, <1>4, <2>1 DEF TxTlp, txVars, peerVars, orderVars
  <2>2. CASE ~WindowFull
    <3>1. OrderAt(acked, heard)'
      BY <1>1, <1>2, <1>4, <2>2, SendKeepsOrder
    <3>2. sent' = sent + 1 /\ got' = got
      BY <1>4, <2>2 DEF TxTlp, peerVars
    <3> QED BY <3>1, <3>2 DEF Progress
  <2> QED BY <2>1, <2>2
<1>5. CASE RxDllp
  <2>1. /\ dllp_in # <<>> /\ dllp_in' = Tail(dllp_in)
        /\ UNCHANGED <<next_tx_seq, sent, base, expect, got>>
    BY <1>5 DEF RxDllp
  <2>2. heard[1] \in acked..Len(got) /\ heard[1] \in Nat /\ 1 \in 1..Len(heard)
    <3>1. acked <= heard[1] /\ heard[1] \in acked..Len(got) /\ 1 \in 1..Len(heard)
      <4>1. Len(heard) \in Nat /\ Len(heard) >= 1
        BY <1>2, <2>1 DEF Answers, PeerOK
      <4> QED BY <1>2, <4>1 DEF Answers
    <3> QED BY <1>2, <3>1, Sizes
  <2>3. Head(dllp_in) \in Dllps /\ Head(dllp_in) = dllp_in[1]
    BY <1>2, <2>1 DEF PeerOK
  <2>4. CASE OnAck(Head(dllp_in).seq) /\ UNCHANGED tx_tlp_out
             /\ Head(dllp_in).kind = "ACK"
    <3> DEFINE x == heard[1]
    <3>1. Head(dllp_in).seq = Ring(x - 1)
      BY <1>2, <2>2, <2>3, <2>4 DEF Answers
    <3>2. Counters(x)' /\ Retained(x)'
      <4>1. x \in acked..Len(got) /\ OnAck(Ring(x - 1))
        BY <2>2, <2>4, <3>1
      <4> HIDE DEF x
      <4> QED BY <1>2, <2>1, <4>1, AckFrees
    <3>3. Tail(heard) \in Seq(Nat) /\ Answers(x, Tail(heard))'
      <4>1. x \in Nat /\ x <= heard[1]
        BY <2>2
      <4> HIDE DEF x
      <4> QED BY <1>2, <2>1, <4>1, AnswersLeave
    <3>4. OnlyCopies' /\ InOrder'
      BY <1>2, <2>1, <2>4 DEF OnlyCopies, InOrder, IsCopy, Ring
    <3>5. OrderAt(x, Tail(heard))' /\ x \in Nat
      BY <2>2, <3>2, <3>3, <3>4 DEF OrderAt
    <3> HIDE DEF x
    <3> QED BY <2>1, <3>3, <3>5 DEF Progress
  <2>5. CASE OnNak(Head(dllp_in).seq) /\ UNCHANGED <<last_acked_seq, retry_buf>>
    <3>1. OnlyCopies'
      <4>1. Head(dllp_in).seq \in SeqNum
        BY <2>3 DEF Dllps
      <4> QED BY <1>2, <2>1, <2>5, <4>1, NakAddsCopies
    <3>2. Tail(heard) \in Seq(Nat) /\ Answers(acked, Tail(heard))'
      <4>1. acked <= heard[1]
        BY <2>2
      <4> QED BY <1>2, <2>1, <4>1, AnswersLeave
    <3>3. Counters(acked)' /\ Retained(acked)' /\ InOrder'
      BY <1>2, <2>1, <2>5 DEF Counters, Retained, InOrder, Ring
    <3>4. OrderAt(acked, Tail(heard))'
      BY <3>1, <3>2, <3>3 DEF OrderAt
    <3> QED BY <2>1, <3>2, <3>4 DEF Progress
  <2> QED BY <1>5, <2>4, <2>5 DEF RxDllp
<1>6. CASE PopTlp
  <2>1. /\ UNCHANGED <<next_tx_seq, last_acked_seq, retry_buf, sent, base>>
        /\ tx_tlp_out # <<>>
        /\ tx_tlp_out' = SubSeq(tx_tlp_out, Lost + 2, Len(tx_tlp_out))
    BY <1>6 DEF PopTlp
  <2>2. /\ \A i \in 1..Len(tx_tlp_out') :
             \E j \in 1..Len(tx_tlp_out) : tx_tlp_out'[i] = tx_tlp_out[j]
        /\ Lost < Len(tx_tlp_out) => Lost + 1 \in 1..Len(tx_tlp_out)
    BY <1>2, <2>1, PopTakesPrefix
  <2>3. OnlyCopies'
    <3>1. sent' = sent /\ sent' \in Nat /\ sent' >= sent /\ sent' <= sent + 1
      BY <1>2, <2>1
    <3> QED BY <1>2, <2>2, <3>1, CopiesStay
  <2>4. CASE Lost < Len(tx_tlp_out)
    <3> DEFINE e == tx_tlp_out[Lost + 1]
    <3>1. e \in Tlps
      BY <1>2, <2>2, <2>4 DEF TxOK
    <3>2. IsCopy(e, sent)
      BY <1>2, <2>2, <2>4 DEF OnlyCopies
    <3>3. e.tlp + SeqWrap > Len(got) + 1
      BY <2>2, <2>4 DEF FreshCopies
    <3>4. PeerTakes(e)
      BY <1>6, <2>4 DEF PopTlp
    <3> HIDE DEF e
    <3>5. /\ Counters(acked)' /\ Retained(acked)' /\ InOrder'
          /\ \E h \in Seq(Nat) : Answers(acked, h)'
          /\ \/ got' = got
             \/ got' = Append(got, Len(got) + 1) /\ Len(got) < sent
      BY <1>1, <1>2, <2>1, <3>1, <3>2, <3>3, <3>4, PeerKeepsOrder
    <3>6. PICK h \in Seq(Nat) : Answers(acked, h)'
      BY <3>5
    <3>7. OrderAt(acked, h)'
      BY <2>3, <3>5, <3>6 DEF OrderAt
    <3> QED BY <2>1, <3>5, <3>7 DEF Progress
  <2>5. CASE ~(Lost < Len(tx_tlp_out))
    <3>1. UNCHANGED peerVars
      BY <1>6, <2>5 DEF PopTlp
    <3>2. OrderAt(acked, heard)'
      BY <1>2, <2>1, <2>3, <3>1
         DEF OrderAt, Counters, Retained, Answers, InOrder, Ring, peerVars
    <3> QED BY <2>1, <3>1, <3>2 DEF Progress, peerVars
  <2> QED BY <2>4, <2>5
<1>7. CASE LoseDllp
  <2>1. /\ dllp_in # <<>> /\ dllp_in' = Tail(dllp_in)
        /\ UNCHANGED <<txVars, expect, got>>
    BY <1>7 DEF LoseDllp
  <2>2. acked <= heard[1]
    <3>1. Len(heard) \in Nat /\ Len(heard) >= 1
      BY <1>2, <2>1 DEF Answers, PeerOK
    <3>2. heard[1] \in acked..Len(got)
      BY <1>2, <3>1 DEF Answers
    <3> QED BY <1>2, <3>2, Sizes
  <2>3. Tail(heard) \in Seq(Nat) /\ Answers(acked, Tail(heard))'
    BY <1>2, <2>1, <2>2, AnswersLeave
  <2>4. OrderAt(acked, Tail(heard))'
    BY <1>2, <2>1, <2>3
       DEF OrderAt, Counters, Retained, OnlyCopies, InOrder, IsCopy, Ring, txVars
  <2> QED BY <2>1, <2>3, <2>4 DEF Progress, txVars
<1>8. CASE PeerAsksAgain
  <2> DEFINE d == [kind |-> "NAK", seq |-> expect]
             g == Len(got)
  <2>1. /\ dllp_in' = Append(dllp_in, d) /\ UNCHANGED <<txVars, expect, got>>
    BY <1>8 DEF PeerAsksAgain
  <2>2. d \in Dllps /\ d.kind # "ACK" /\ g \in Nat /\ g = Len(got')
    BY <1>2, <2>1, Sizes DEF Dllps, PeerOK
  <2>3. \E h \in Seq(Nat) : Answers(acked, h)'
    <3> HIDE DEF d, g
    <3>1. g \in {Len(got), Len(got) + 1}
      BY DEF g
    <3> QED BY <1>2, <2>1, <2>2, <3>1, AnswersGrow
  <2>4. PICK h \in Seq(Nat) : Answers(acked, h)'
    BY <2>3
  <2>5. OrderAt(acked, h)'
    BY <1>2, <2>1, <2>4
       DEF OrderAt, Counters, Retained, OnlyCopies, InOrder, IsCopy, Ring, txVars
  <2> QED BY <2>1, <2>5 DEF Progress, txVars
<1>9. ASSUME NEW s \in SeqNum, TickInjectedNak(s) PROVE SomeOrder /\ Progress
  <2>1. /\ OnNak(s)
        /\ UNCHANGED <<next_tx_seq, last_acked_seq, retry_buf, sent, base, peerVars>>
    BY <1>9 DEF TickInjectedNak
  <2>2. OnlyCopies'
    BY <1>2, <2>1, NakAddsCopies
  <2>3. OrderAt(acked, heard)'
    BY <1>2, <2>1, <2>2
       DEF OrderAt, Counters, Retained, Answers, InOrder, Ring, peerVars
  <2> QED BY <2>1, <2>3 DEF Progress, peerVars
<1>10. ASSUME NEW v \in Vf, NEW t \in FcType, RxTlp(v, t)
       PROVE  SomeOrder /\ Progress
  BY <1>3, <1>10 DEF RxTlp, txVars, peerVars, orderVars
<1>11. CASE PopDllp
  BY <1>3, <1>11 DEF PopDllp, txVars, peerVars, orderVars
<1>12. ASSUME NEW c \in Grants, RxUpdateFc(c) \/ RxInitFc(c)
       PROVE  SomeOrder /\ Progress
  BY <1>3, <1>12 DEF RxUpdateFc, RxInitFc, txVars, peerVars, orderVars
<1>13. ASSUME NEW s \in SeqNum, InjectTlpLoss(s) PROVE SomeOrder /\ Progress
  BY <1>3, <1>13 DEF InjectTlpLoss, txVars, peerVars, orderVars
<1>14. CASE InjectDllpLoss
  BY <1>3, <1>14 DEF InjectDllpLoss, txVars, peerVars, orderVars
<1>15. CASE TriggerRateSwitch \/ RateReady
  BY <1>3, <1>15 DEF TriggerRateSwitch, RateReady, txVars, peerVars, orderVars
<1>16. ~ApplyMode
  <2>1. modes \in 0..0 /\ ~(modes < 0)
    BY <1>2 DEF StateOK, ModeOK
  <2> QED BY <2>1 DEF ApplyMode
<1>17. CASE UNCHANGED vars
  BY <1>3, <1>17 DEF vars, txVars, peerVars, orderVars
<1> QED BY <1>4, <1>5, <1>6, <1>7, <1>8, <1>9, <1>10, <1>11, <1>12, <1>13, <1>14,
           <1>15, <1>16, <1>17 DEF Next, Sending

LEMMA OrderInit == Init => OrderInv
<1> SUFFICES ASSUME Init PROVE \E a \in Nat, h \in Seq(Nat) : OrderAt(a, h)
  BY StateInit DEF OrderInv
<1>1. /\ next_tx_seq = 0 /\ last_acked_seq = SeqWrap - 1 /\ tx_tlp_out = <<>>
      /\ retry_buf = [s \in SeqNum |-> None] /\ expect = 0 /\ got = <<>>
      /\ dllp_in = <<>> /\ sent = 0 /\ base = 0
  BY DEF Init
<1>2. Ring(0) = 0 /\ Ring(0 - 1) = SeqWrap - 1
  <2>1. 0 \in SeqNum /\ -1 \in Int /\ -SeqWrap < -1 /\ SeqWrap \in Nat
    BY ConstantTypes
  <2>2. Ring(-1) = -1 + SeqWrap
    BY <2>1, RingOfNegative
  <2> QED BY <2>1, <2>2, RingOfSmall
<1>3. Counters(0)
  BY <1>1, <1>2, WindowIsHalf DEF Counters
<1>4. Retained(0)
  BY <1>1 DEF Retained
<1>5. OnlyCopies /\ InOrder
  BY <1>1 DEF OnlyCopies, InOrder
<1>6. <<>> \in Seq(Nat) /\ Answers(0, <<>>)
  <2>1. <<>> \in Seq(Nat) /\ Len(<<>>) = 0
    BY EmptySeq
  <2> QED BY <1>1, <2>1 DEF Answers
<1> QED BY <1>3, <1>4, <1>5, <1>6 DEF OrderAt

(* What the order of the counters means for the retry buffer.              *)
LEMMA OrderMeans ==
  ASSUME OrderInv
  PROVE  RetryIsWindow /\ UnreceivedIsRetained
<1>1. PICK acked \in Nat, heard \in Seq(Nat) : OrderAt(acked, heard)
  BY DEF OrderInv
<1>2. /\ Counters(acked) /\ Retained(acked) /\ StateOK
      /\ sent \in Nat /\ Len(got) \in Nat /\ base = 0
      /\ acked <= Len(got) /\ Len(got) <= sent /\ sent <= acked + Window
      /\ SeqWrap \in Nat /\ Window \in Nat /\ 2 * Window = SeqWrap /\ Window >= 1
  BY <1>1, Sizes DEF OrderInv, OrderAt, Counters
<1>3. UnreceivedIsRetained
  <2> SUFFICES ASSUME NEW n \in (base + Len(got) + 1)..sent
               PROVE  \E s \in SeqNum : retry_buf[s] = n
    BY DEF UnreceivedIsRetained
  <2>1. n \in (acked + 1)..sent /\ n - 1 \in Int
    BY <1>2
  <2>2. retry_buf[Ring(n - 1)] = n /\ Ring(n - 1) \in SeqNum
    BY <1>2, <2>1, RingType DEF Retained
  <2> QED BY <2>2
<1>4. Dist(next_tx_seq, After(last_acked_seq)) = sent - acked
  <2>1. After(last_acked_seq) = Ring(acked)
    <3>1. acked - 1 \in Int /\ (acked - 1) + 1 = acked
      BY <1>2
    <3>2. After(Ring(acked - 1)) = Ring((acked - 1) + 1)
      BY <3>1, AfterRing
    <3> QED BY <1>2, <3>1, <3>2 DEF Counters
  <2>2. Dist(Ring(sent), Ring(acked)) = Ring(sent - acked)
    BY <1>2, RingDist
  <2>3. sent - acked \in SeqNum
    BY <1>2 DEF SeqNum
  <2> QED BY <1>2, <2>1, <2>2, <2>3, RingOfSmall DEF Counters
<1>5. ASSUME NEW s \in Outstanding
      PROVE  s \in SeqNum /\ Dist(s, last_acked_seq) \in 1..(sent - acked)
  <2> DEFINE k == retry_buf[s]
  <2>1. s \in SeqNum /\ k \in (acked + 1)..sent /\ s = Ring(k - 1)
    BY <1>2 DEF Outstanding, Retained
  <2> HIDE DEF k
  <2>2. k - 1 \in Int /\ acked - 1 \in Int /\ (k - 1) - (acked - 1) = k - acked
    BY <1>2, <2>1
  <2>3. Dist(s, last_acked_seq) = Ring(k - acked)
    BY <1>2, <2>1, <2>2, RingDist DEF Counters
  <2>4. k - acked \in SeqNum /\ k - acked \in 1..(sent - acked)
    BY <1>2, <2>1 DEF SeqNum
  <2> QED BY <2>1, <2>3, <2>4, RingOfSmall
<1>6. ASSUME NEW s \in SeqNum, Dist(s, last_acked_seq) \in 1..(sent - acked)
      PROVE  s \in Outstanding
  <2> DEFINE d == Dist(s, last_acked_seq)
             k == acked + d
  <2>1. k \in (acked + 1)..sent /\ k - 1 \in Int /\ acked - 1 \in Int
        /\ (k - 1) - (acked - 1) = d /\ k # None /\ d \in SeqNum
    BY <1>2, <1>6 DEF None, SeqNum
  <2>2. Dist(Ring(k - 1), last_acked_seq) = d
    <3> HIDE DEF d, k
    <3>1. Dist(Ring(k - 1), Ring(acked - 1)) = Ring((k - 1) - (acked - 1))
      BY <2>1, RingDist
    <3> QED BY <1>2, <2>1, <3>1, RingOfSmall DEF Counters
  <2>3. Ring(k - 1) = s
    <3>1. Ring(k - 1) \in SeqNum /\ last_acked_seq \in SeqNum
      BY <1>2, <2>1, RingType DEF StateOK, TxOK
    <3> HIDE DEF k
    <3>2. Dist(Ring(k - 1), last_acked_seq) = Dist(s, last_acked_seq)
      BY <2>2
    <3> QED BY <3>1, <3>2, DistInjective
  <2>4. retry_buf[Ring(k - 1)] = k
    BY <1>2, <2>1 DEF Retained
  <2> QED BY <2>1, <2>3, <2>4 DEF Outstanding
<1>7. Outstanding = {s \in SeqNum : Dist(s, last_acked_seq) \in 1..(sent - acked)}
  BY <1>5, <1>6
<1>8. Cardinality(Outstanding) <= Window
  BY <1>2, OutstandingCount
<1> QED BY <1>3, <1>4, <1>7, <1>8 DEF RetryIsWindow

-----------------------------------------------------------------------------
(* A change of mode leaves copies of the old mode in the queue, under      *)
(* numbers that start again: the theorems are about one mode.              *)
LEMMA OrderHolds ==
  ASSUME MaxModes = 0
  PROVE  Spec /\ []FreshCopies => []OrderInv
<1>1. OrderInv /\ FreshCopies /\ StateOK' /\ [Next]_vars => OrderInv'
  BY OrderStep
<1> QED BY <1>1, OrderInit, StateTyped, PTL DEF Spec

(* In the first turn of the ring every copy is fresh.                      *)
LEMMA FirstTurnIsFresh ==
  ASSUME MaxTlp < SeqWrap, OrderInv
  PROVE  FreshCopies
<1> SUFFICES ASSUME NEW i \in 1..Len(tx_tlp_out)
             PROVE  tx_tlp_out[i].tlp + SeqWrap > Len(got) + 1
  BY DEF FreshCopies
<1>1. /\ Len(got) \in Nat /\ sent \in Nat /\ Len(got) <= sent /\ sent <= MaxTlp
      /\ SeqWrap \in Nat /\ MaxTlp \in Nat
  BY Sizes, ConstantTypes DEF OrderInv, OrderAt, Counters, StateOK, TxOK
<1>2. tx_tlp_out[i].tlp \in 1..sent
  BY DEF OrderInv, OrderAt, OnlyCopies, IsCopy
<1> QED BY <1>1, <1>2

(* The retry buffer is the window of the TLPs not yet acknowledged, and a  *)
(* TLP the peer has not taken stays in it, for every ring of sequence      *)
(* numbers and whatever is lost, NAKed and sent again, as long as no       *)
(* queued copy falls a turn of the ring behind                             *)
(* (pcie_link_layer_tlm.cc:360-369, 495-529).                              *)
THEOREM RetryBufferIsWindow ==
  ASSUME MaxModes = 0
  PROVE  Spec /\ []FreshCopies => []RetryIsWindow /\ []UnreceivedIsRetained
<1>1. OrderInv => RetryIsWindow /\ UnreceivedIsRetained
  BY OrderMeans
<1> QED BY <1>1, OrderHolds, PTL

(* ... and without that condition while the numbers have not gone around   *)
(* once: a copy then cannot fall a turn behind.                            *)
THEOREM FirstTurnRetry ==
  ASSUME MaxModes = 0, MaxTlp < SeqWrap
  PROVE  Spec => []RetryIsWindow /\ []UnreceivedIsRetained
<1>1. OrderInv => FreshCopies
  BY FirstTurnIsFresh
<1>2. OrderInv /\ FreshCopies /\ StateOK' /\ [Next]_vars => OrderInv'
  BY OrderStep
<1>3. OrderInv => RetryIsWindow /\ UnreceivedIsRetained
  BY OrderMeans
<1> QED BY <1>1, <1>2, <1>3, OrderInit, StateTyped, PTL DEF Spec

LEMMA TransferInit == Init => Transfer!Init
<1> SUFFICES ASSUME Init PROVE Transfer!Init
  OBVIOUS
<1>1. sent = 0 /\ base = 0 /\ got = <<>>
  BY DEF Init
<1>2. [i \in 1..(sent - base) |-> base + i] = <<>>
  <2>1. 1..(sent - base) = {}
    BY <1>1
  <2> QED BY <2>1
<1> QED BY <1>1, <1>2 DEF Transfer!Init

(* A step of the link is a step of the transfer, or none of its business.  *)
LEMMA TransferStep ==
  ASSUME OrderInv, StateOK', base' = 0, Progress
  PROVE  [Transfer!Accept \/ Transfer!Receive]_
           <<[i \in 1..(sent - base) |-> base + i], got>>
<1> DEFINE acc == [i \in 1..(sent - base) |-> base + i]
           acc1 == [i \in 1..(sent' - base') |-> base' + i]
<1>1. /\ sent \in Nat /\ base = 0 /\ got \in Seq(Serial) /\ Len(got) \in Nat
      /\ Len(got) <= sent
  BY Sizes DEF OrderInv, OrderAt, Counters, StateOK, PeerOK
<1>2. acc = [i \in 1..sent |-> i]
  BY <1>1
<1>3. CASE sent' = sent /\ got' = got
  BY <1>1, <1>3
<1>4. CASE sent' = sent + 1 /\ got' = got
  <2>1. sent + 1 \in Serial
    <3>1. sent' \in 0..MaxTlp
      BY DEF StateOK, TxOK
    <3> QED BY <1>1, <1>4, <3>1, ConstantTypes DEF Serial
  <2>2. acc \in Seq(Nat) /\ Len(acc) = sent
    BY <1>1
  <2>3. acc1 = Append(acc, sent + 1)
    BY <1>1, <1>2, <1>4
  <2>4. Transfer!Accept
    BY <1>4, <2>1, <2>3 DEF Transfer!Accept
  <2> QED BY <2>4
<1>5. CASE sent' = sent /\ got' = Append(got, Len(got) + 1) /\ Len(got) < sent
  <2>1. Len(acc) = sent /\ acc[Len(got) + 1] = Len(got) + 1
    BY <1>1, <1>2, <1>5
  <2>2. Transfer!Receive
    BY <1>1, <1>5, <2>1 DEF Transfer!Receive
  <2> QED BY <2>2
<1> QED BY <1>3, <1>4, <1>5 DEF Progress

(* The link transfers each TLP once and in order under the same condition, *)
(* for every ring and every number of losses and NAKs                      *)
(* (pcie_link_layer_tlm.cc:344-385, 495-529).                              *)
THEOREM LinkImplementsTransfer ==
  ASSUME MaxModes = 0
  PROVE  Spec /\ []FreshCopies => TransfersInOrder
<1>1. Init => Transfer!Init
  BY TransferInit
<1>2. OrderInv /\ FreshCopies /\ StateOK' /\ [Next]_vars =>
        [Transfer!Accept \/ Transfer!Receive]_
           <<[i \in 1..(sent - base) |-> base + i], got>>
  BY OrderStep, TransferStep
<1> QED BY <1>1, <1>2, OrderHolds, StateTyped, PTL
        DEF Spec, TransfersInOrder, Transfer!Spec

(* In the first turn of the ring it needs no condition.                    *)
THEOREM FirstTurnInOrder ==
  ASSUME MaxModes = 0, MaxTlp < SeqWrap
  PROVE  Spec => TransfersInOrder
<1>1. Init => Transfer!Init
  BY TransferInit
<1>2. OrderInv => FreshCopies
  BY FirstTurnIsFresh
<1>3. OrderInv /\ FreshCopies /\ StateOK' /\ [Next]_vars => OrderInv'
  BY OrderStep
<1>4. OrderInv /\ FreshCopies /\ StateOK' /\ [Next]_vars =>
        [Transfer!Accept \/ Transfer!Receive]_
           <<[i \in 1..(sent - base) |-> base + i], got>>
  BY OrderStep, TransferStep
<1> QED BY <1>1, <1>2, <1>3, <1>4, OrderInit, StateTyped, PTL
        DEF Spec, TransfersInOrder, Transfer!Spec

=============================================================================
