----------------------------- MODULE SdmaProofs -----------------------------
(***************************************************************************)
(* Theorems about SdmaEngine, for every set of pages and jobs, every size  *)
(* of the window and of the ring, every retry limit and every number of    *)
(* descriptors, resets and lost answers: the types, what becomes of a      *)
(* descriptor, and the frame a transfer uses.  About SocFabric: the        *)
(* registers of the GMMU, the promises of the hub, flits and copies.       *)
(***************************************************************************)
EXTENDS SdmaEngine, SocFabric, FiniteSetTheorems, FunctionTheorems,
        SequenceTheorems, WellFoundedInduction, TLAPS

-----------------------------------------------------------------------------
(* The walk.  As long as none was abandoned there is one walk, and it is   *)
(* of the page the walker holds: while the walker waits, the page is in    *)
(* exactly one of the places the read travels through, and otherwise these *)
(* are empty.                                                              *)
Status == {"OK", "EIO", "EINVAL"}
Move   == [page : Page, frame : Page \cup {Poison}]

Quiet == to_mem = <<>> /\ mem_in = None /\ to_gmmu = <<>> /\ resp_in = None

Travels(g) ==
  \/ g.req = g.page /\ Quiet
  \/ /\ g.req = None /\ to_mem = <<g.page>> /\ mem_in = None
     /\ to_gmmu = <<>> /\ resp_in = None
  \/ /\ g.req = None /\ to_mem = <<>> /\ mem_in = g.page
     /\ to_gmmu = <<>> /\ resp_in = None
  \/ /\ g.req = None /\ to_mem = <<>> /\ mem_in = None
     /\ to_gmmu = <<PteOf(g.page)>> /\ resp_in = None
  \/ /\ g.req = None /\ to_mem = <<>> /\ mem_in = None
     /\ to_gmmu = <<>> /\ resp_in = PteOf(g.page)

OneWalk(g) ==
  ~g.gaveUp =>
    /\ g.state = "WAIT" => Travels(g)
    /\ g.state # "WAIT" => g.req = None /\ Quiet
    /\ g.state = "COMPLETE" => g.pte = PteOf(g.page)

(* The type of the walker, with what its state says of its other fields.   *)
WalkerOK(g) ==
  /\ g \in Walker
  /\ g.state = "WAIT" => g.retries <= MaxRetry
  /\ g.state # "IDLE" => g.page \in Page
  /\ g.state = "COMPLETE" => g.pte \in Pte

OwnMove(m) == m.frame = m.page \/ (m.page \in Beyond /\ m.frame = Poison)

OwnMoves(g, mv) == ~g.gaveUp => \A t \in Tag : \A m \in mv[t] : OwnMove(m)

-----------------------------------------------------------------------------
(* Where the tags are.  Of the tags in A, those still to be tried (P) and  *)
(* those that wait were emitted nothing and moved nothing; every other one    *)
(* was emitted one status, and moved something only if that is OK.            *)
Untouched(tl, mv, t) == tl[t] = <<>> /\ mv[t] = {}

Done(tl, mv, t) ==
  \E x \in Status :
    /\ tl[t] = <<x>>
    /\ mv[t] = {} \/ (x = "OK" /\ \E m \in Move : mv[t] = {m})

Distinct(s) ==
  \A i, j \in DOMAIN s : s[i].tag = s[j].tag => i = j

Account(tl, mv, kept, P, A) ==
  /\ Distinct(kept) /\ Tags(kept) \subseteq A /\ P \subseteq A
  /\ Tags(kept) \cap P = {}
  /\ \A t \in Tags(kept) \cup P : Untouched(tl, mv, t)
  /\ \A t \in A \ (Tags(kept) \cup P) : Done(tl, mv, t)

TagsInv ==
  /\ accepted \subseteq 1..tags /\ dropped \subseteq accepted
  /\ \A t \in dropped : Untouched(emitted, moved, t)
  /\ \A t \in (tags + 1)..MaxTag : Untouched(emitted, moved, t)
  /\ desc_in # None =>
       /\ desc_in.tag \in (1..tags) \ accepted
       /\ Untouched(emitted, moved, desc_in.tag)
  /\ \A i \in DOMAIN ring :
       /\ ring[i].tag \in (0..tags) \ accepted
       /\ desc_in # None => ring[i].tag # desc_in.tag

SdmaInv ==
  /\ TypeOK
  /\ WalkerOK(gmmu) /\ OneWalk(gmmu)
  /\ OwnMoves(gmmu, moved)
  /\ TagsInv
  /\ Account(emitted, moved, inflight, {}, accepted \ dropped)

-----------------------------------------------------------------------------
(* One question to the walker keeps what its state says, and an answer is  *)
(* of the page that was asked for.                                         *)
TranslationOK(g, p, t) ==
  /\ t.rc \in Rc /\ WalkerOK(t.g) /\ OneWalk(t.g)
  /\ g.gaveUp => t.g.gaveUp
  /\ t.rc = "OK" =>
       /\ t.frame \in Page \cup {Poison}
       /\ ~t.g.gaveUp => OwnMove([page |-> p, frame |-> t.frame])

LEMMA StartWalkSound ==
  ASSUME NEW g, WalkerOK(g), OneWalk(g), NEW p \in Page, g.state = "IDLE"
  PROVE  TranslationOK(g, p, StartWalk(g, p))
<1> DEFINE h == [g EXCEPT !.state = "WAIT", !.page = p, !.retries = 0, !.req = p]
<1>1. /\ StartWalk(g, p).rc = "EAGAIN" /\ StartWalk(g, p).g = h
  BY DEF StartWalk, Refused
<1>2. /\ h \in Walker /\ h.state = "WAIT" /\ h.page = p /\ h.retries = 0
      /\ h.req = p /\ h.gaveUp = g.gaveUp
  <2>1. 0 \in 0..(MaxRetry + 1)
    BY RetryAssumption
  <2>2. /\ h.state = "WAIT" /\ h.page = p /\ h.retries = 0
        /\ h.req = p /\ h.gaveUp = g.gaveUp
    BY DEF WalkerOK, Walker
  <2>3. h \in Walker
    BY <2>1 DEF WalkerOK, Walker
  <2> QED BY <2>2, <2>3
<1> HIDE DEF h
<1>3. WalkerOK(h)
  BY <1>2, RetryAssumption DEF WalkerOK
<1>4. OneWalk(h)
  BY <1>2 DEF OneWalk, Travels
<1> QED BY <1>1, <1>2, <1>3, <1>4 DEF TranslationOK, Rc

LEMMA AskAgainSound ==
  ASSUME NEW g, WalkerOK(g), OneWalk(g), NEW p \in Page, g.state = "WAIT"
  PROVE  TranslationOK(g, p, AskAgain(g))
<1>0. g.retries \in Nat /\ g.retries <= MaxRetry /\ g.page \in Page
  BY RetryAssumption DEF WalkerOK, Walker
<1>1. CASE g.retries + 1 > MaxRetry
  <2> DEFINE h == [g EXCEPT !.retries = @ + 1, !.state = "IDLE", !.gaveUp = TRUE]
  <2>1. AskAgain(g).rc = "EIO" /\ AskAgain(g).g = h
    BY <1>1 DEF AskAgain, Refused
  <2>2. h.state = "IDLE" /\ h.gaveUp = TRUE
    BY DEF WalkerOK, Walker
  <2>3. g.retries + 1 \in 0..(MaxRetry + 1)
    BY <1>0, RetryAssumption
  <2>4. h \in Walker
    BY <2>3 DEF WalkerOK, Walker
  <2> HIDE DEF h
  <2> QED BY <2>1, <2>2, <2>4 DEF TranslationOK, WalkerOK, OneWalk, Rc
<1>2. CASE ~(g.retries + 1 > MaxRetry)
  <2> DEFINE h == [g EXCEPT !.retries = @ + 1]
  <2>1. AskAgain(g).rc = "EAGAIN" /\ AskAgain(g).g = h
    BY <1>2 DEF AskAgain, Refused
  <2>2. /\ h.state = "WAIT" /\ h.gaveUp = g.gaveUp /\ h.page = g.page
        /\ h.req = g.req /\ h.retries = g.retries + 1
    BY DEF WalkerOK, Walker
  <2>3. g.retries + 1 \in 0..(MaxRetry + 1) /\ g.retries + 1 <= MaxRetry
    BY <1>0, <1>2, RetryAssumption
  <2>4. h \in Walker
    BY <2>3 DEF WalkerOK, Walker
  <2> HIDE DEF h
  <2>5. WalkerOK(h)
    BY <1>0, <2>2, <2>3, <2>4 DEF WalkerOK
  <2>6. OneWalk(h)
    BY <2>2 DEF OneWalk, Travels
  <2> QED BY <2>1, <2>2, <2>5, <2>6 DEF TranslationOK, Rc
<1> QED BY <1>1, <1>2

LEMMA ConsumeSound ==
  ASSUME NEW g, WalkerOK(g), OneWalk(g), NEW p \in Page,
         g.state = "COMPLETE", g.page = p
  PROVE  TranslationOK(g, p, Consume(g))
<1> DEFINE h == [g EXCEPT !.state = "IDLE"]
<1>1. /\ Consume(g).rc = IF g.pte = Invalid THEN "EIO" ELSE "OK"
      /\ Consume(g).g = h
      /\ Consume(g).frame = IF g.pte = Invalid THEN None ELSE g.pte
  BY DEF Consume
<1>2. /\ h \in Walker /\ h.state = "IDLE" /\ h.gaveUp = g.gaveUp
      /\ h.req = g.req
  BY DEF WalkerOK, Walker
<1> HIDE DEF h
<1>3. WalkerOK(h) /\ OneWalk(h)
  BY <1>2 DEF WalkerOK, OneWalk
<1>4. ASSUME g.pte # Invalid
      PROVE  /\ g.pte \in Page \cup {Poison}
             /\ ~g.gaveUp => OwnMove([page |-> p, frame |-> g.pte])
  <2>1. g.pte \in Mapped \cup {Poison}
    BY <1>4 DEF WalkerOK, Pte
  <2>2. ASSUME ~g.gaveUp PROVE g.pte = p \/ (p \in Beyond /\ g.pte = Poison)
    BY <1>4, <2>2 DEF OneWalk, PteOf
  <2> QED BY <2>1, <2>2, PageAssumption DEF OwnMove
<1>5. Consume(g).rc \in Rc
  BY <1>1 DEF Rc
<1>6. Consume(g).rc = "OK" => g.pte # Invalid /\ Consume(g).frame = g.pte
  BY <1>1
<1> HIDE DEF h
<1> QED BY <1>1, <1>2, <1>3, <1>4, <1>5, <1>6 DEF TranslationOK

LEMMA TranslateSound ==
  ASSUME NEW g, WalkerOK(g), OneWalk(g), NEW p \in Page
  PROVE  TranslationOK(g, p, Translate(g, p))
<1>0. g.state \in {"IDLE", "WAIT", "COMPLETE"}
  BY DEF WalkerOK, Walker
<1>1. ASSUME NEW rc \in {"EIO", "EAGAIN"} PROVE TranslationOK(g, p, Refused(g, rc))
  BY <1>1 DEF TranslationOK, Refused, Rc
<1>2. CASE Refuses(g, p)
  BY <1>1, <1>2 DEF Translate
<1>3. CASE ~Refuses(g, p) /\ g.state = "IDLE"
  <2>1. Translate(g, p) = StartWalk(g, p)
    BY <1>3 DEF Translate
  <2> QED BY <1>3, <2>1, StartWalkSound
<1>4. CASE ~Refuses(g, p) /\ g.state # "IDLE" /\ ~Matches(g, p)
  <2>1. Translate(g, p) = Refused(g, "EAGAIN")
    BY <1>4 DEF Translate
  <2> QED BY <1>1, <2>1
<1>5. CASE ~Refuses(g, p) /\ g.state = "WAIT" /\ Matches(g, p)
  <2>1. Translate(g, p) = AskAgain(g)
    BY <1>5 DEF Translate
  <2> QED BY <1>5, <2>1, AskAgainSound
<1>6. CASE ~Refuses(g, p) /\ g.state = "COMPLETE" /\ Matches(g, p)
  <2>1. Translate(g, p) = Consume(g)
    BY <1>6 DEF Translate
  <2> QED BY <1>6, <2>1, ConsumeSound DEF Matches
<1> QED BY <1>0, <1>2, <1>3, <1>4, <1>5, <1>6

-----------------------------------------------------------------------------
(* One attempt: what it moves, it moves with OK and to the page's frame.   *)
JobRec == [dir : {"H2D", "D2H", "D2D"}, page : Page, fits : BOOLEAN]

AttemptOK(g, a) ==
  /\ a.rc \in Rc /\ WalkerOK(a.g) /\ OneWalk(a.g)
  /\ g.gaveUp => a.g.gaveUp
  /\ \/ a.moves = {}
     \/ /\ a.rc = "OK"
        /\ \E m \in Move : a.moves = {m} /\ (~a.g.gaveUp => OwnMove(m))

LEMMA AttemptSound ==
  ASSUME NEW g, WalkerOK(g), OneWalk(g), NEW job \in JobRec \cup {None}
  PROVE  AttemptOK(g, Attempt(g, job))
<1>1. ASSUME NEW h, NEW rc \in Rc, WalkerOK(h), OneWalk(h), g.gaveUp => h.gaveUp
      PROVE  AttemptOK(g, Settled(h, rc))
  BY <1>1 DEF AttemptOK, Settled
<1>2. ASSUME NEW h, NEW p \in Page, NEW f \in Page \cup {Poison},
             WalkerOK(h), OneWalk(h), g.gaveUp => h.gaveUp,
             ~h.gaveUp => OwnMove([page |-> p, frame |-> f])
      PROVE  AttemptOK(g, Moves(h, p, f))
  <2>1. [page |-> p, frame |-> f] \in Move
    BY DEF Move
  <2>2. /\ Moves(h, p, f).rc = "OK" /\ Moves(h, p, f).g = h
        /\ Moves(h, p, f).moves = {[page |-> p, frame |-> f]}
    BY DEF Moves
  <2> QED BY <1>2, <2>1, <2>2 DEF AttemptOK, Rc
<1>3. CASE ~Fits(job)
  <2>1. Attempt(g, job) = Settled(g, "EINVAL")
    BY <1>3 DEF Attempt
  <2> QED BY <1>1, <2>1 DEF Rc
<1>4. CASE Fits(job)
  <2>1. job \in JobRec
    BY <1>4 DEF Fits
  <2>2. job.dir \in {"H2D", "D2H", "D2D"} /\ job.page \in Page
    BY <2>1 DEF JobRec
  <2>3. CASE job.dir = "D2D"
    <3>1. Attempt(g, job) = Settled(g, "OK")
      BY <1>4, <2>3 DEF Attempt
    <3> QED BY <1>1, <3>1 DEF Rc
  <2>4. CASE job.dir = "D2H"
    <3>1. Attempt(g, job) = Moves(g, job.page, job.page)
      BY <1>4, <2>4 DEF Attempt
    <3>2. OwnMove([page |-> job.page, frame |-> job.page])
      BY DEF OwnMove
    <3> QED BY <1>2, <2>2, <3>1, <3>2
  <2>5. CASE job.dir = "H2D"
    <3> DEFINE t == Translate(g, job.page)
    <3>1. Attempt(g, job) = IF t.rc = "OK" THEN Moves(t.g, job.page, t.frame)
                                          ELSE Settled(t.g, t.rc)
      BY <1>4, <2>5 DEF Attempt, Translated
    <3>2. TranslationOK(g, job.page, t)
      BY <2>2, TranslateSound
    <3> HIDE DEF t
    <3>3. CASE t.rc = "OK"
      BY <1>2, <2>2, <3>1, <3>2, <3>3 DEF TranslationOK
    <3>4. CASE t.rc # "OK"
      BY <1>1, <3>1, <3>2, <3>4 DEF TranslationOK
    <3> QED BY <3>3, <3>4
  <2> QED BY <2>2, <2>3, <2>4, <2>5
<1> QED BY <1>3, <1>4

-----------------------------------------------------------------------------
(* The working record of a call, and what trying one descriptor does to    *)
(* it: the descriptor is kept, emitted nothing; or it is emitted one status.     *)
WorkOK(w) ==
  /\ w \in [ g : Walker, kept : Seq(Desc),
             out : [tag : Tag, status : Status] \cup {None},
             emitted : [Tag -> Seq(Status)], lost : SUBSET Tag,
             moved : [Tag -> SUBSET Move] ]
  /\ WalkerOK(w.g) /\ OneWalk(w.g) /\ OwnMoves(w.g, w.moved)

Entry == [tag : Tag, job : JobRec \cup {None}]

Waits(w, d, v) ==
  /\ v.kept = Append(w.kept, d) /\ v.emitted = w.emitted /\ v.moved = w.moved
  /\ v.out = w.out /\ v.lost = w.lost

Ends(w, d, v) ==
  /\ v.kept = w.kept
  /\ \E x \in Status, ms \in SUBSET Move :
       /\ ms = {} \/ (x = "OK" /\ \E m \in Move : ms = {m})
       /\ v.emitted = [w.emitted EXCEPT ![d.tag] = Append(@, x)]
       /\ v.moved = [w.moved EXCEPT ![d.tag] = @ \cup ms]
       /\ v.out = [tag |-> d.tag, status |-> x]
       /\ v.lost = w.lost \cup TagIn(w.out)

(* What is emitted for a return code: a code that lets the descriptor wait *)
(* needs no status.                                                        *)
Emits(mayWait, status) ==
  /\ status["OK"] = "OK"
  /\ \A rc \in Rc : (mayWait /\ rc = "EAGAIN") \/ status[rc] \in Status

LEMMA DescIsEntry == Desc \subseteq Entry
<1>1. Job \subseteq JobRec
  BY JobAssumption DEF JobRec
<1> QED BY <1>1 DEF Desc, Entry

LEMMA TrySound ==
  ASSUME NEW w, WorkOK(w), NEW d \in Entry, NEW mayWait \in BOOLEAN, NEW status,
         Emits(mayWait, status), mayWait => d \in Desc
  PROVE  /\ WorkOK(Try(w, d, mayWait, status))
         /\ \/ mayWait /\ Waits(w, d, Try(w, d, mayWait, status))
            \/ Ends(w, d, Try(w, d, mayWait, status))
<1> DEFINE a == Attempt(w.g, d.job)
           v == Try(w, d, mayWait, status)
<1>1. v = IF mayWait /\ a.rc = "EAGAIN" THEN Keep(w, d, a)
                                        ELSE Settle(w, d, a, status[a.rc])
  BY DEF Try, The
<1>2. d.tag \in Tag /\ d.job \in JobRec \cup {None}
  BY DEF Entry
<1>3. AttemptOK(w.g, a)
  BY <1>2, AttemptSound DEF WorkOK
<1> HIDE DEF a, v
<1>4. a.rc \in Rc /\ a.g \in Walker /\ a.moves \in SUBSET Move
  BY <1>3 DEF AttemptOK, WalkerOK
<1>5. CASE mayWait /\ a.rc = "EAGAIN"
  <2>1. v = [w EXCEPT !.g = a.g, !.kept = Append(@, d)]
    BY <1>1, <1>5 DEF Keep
  <2>2. Append(w.kept, d) \in Seq(Desc)
    BY <1>5, AppendProperties DEF WorkOK
  <2>3. /\ v.g = a.g /\ v.kept = Append(w.kept, d) /\ v.emitted = w.emitted
        /\ v.moved = w.moved /\ v.out = w.out /\ v.lost = w.lost
    BY <2>1 DEF WorkOK
  <2>4. v \in [ g : Walker, kept : Seq(Desc),
                out : [tag : Tag, status : Status] \cup {None},
                emitted : [Tag -> Seq(Status)], lost : SUBSET Tag,
             moved : [Tag -> SUBSET Move] ]
    BY <1>4, <2>1, <2>2 DEF WorkOK
  <2>5. OwnMoves(v.g, v.moved)
    BY <1>3, <2>3 DEF OwnMoves, AttemptOK, WorkOK
  <2>6. WorkOK(v)
    BY <1>3, <2>3, <2>4, <2>5 DEF WorkOK, AttemptOK
  <2> QED BY <1>5, <2>3, <2>6 DEF Waits, v
<1>6. CASE ~(mayWait /\ a.rc = "EAGAIN")
  <2> DEFINE x == status[a.rc]
             tl == [w.emitted EXCEPT ![d.tag] = Append(@, x)]
             o  == [tag |-> d.tag, status |-> x]
             ls == w.lost \cup TagIn(w.out)
             mv == [w.moved EXCEPT ![d.tag] = @ \cup a.moves]
  <2>1. x \in Status /\ (a.rc = "OK" => x = "OK")
    BY <1>4, <1>6 DEF Emits
  <2>2. v = [w EXCEPT !.g = a.g, !.moved = mv, !.emitted = tl,
                      !.lost = ls, !.out = o]
    BY <1>1, <1>6 DEF Settle, Emit, WorkOK
  <2> HIDE DEF x
  <2>3. tl \in [Tag -> Seq(Status)]
    <3>1. w.emitted \in [Tag -> Seq(Status)]
      BY DEF WorkOK
    <3>2. Append(w.emitted[d.tag], x) \in Seq(Status)
      BY <1>2, <2>1, <3>1, AppendProperties
    <3> QED BY <3>1, <3>2
  <2>4. mv \in [Tag -> SUBSET Move]
    BY <1>2, <1>4 DEF WorkOK
  <2>o. o \in [tag : Tag, status : Status] /\ ls \in SUBSET Tag
    BY <1>2, <2>1 DEF WorkOK, TagIn
  <2> HIDE DEF tl, mv, o, ls
  <2>5. /\ v.g = a.g /\ v.kept = w.kept /\ v.emitted = tl /\ v.moved = mv
        /\ v.out = o /\ v.lost = ls
    BY <2>2 DEF WorkOK
  <2>6. v \in [ g : Walker, kept : Seq(Desc),
                out : [tag : Tag, status : Status] \cup {None},
                emitted : [Tag -> Seq(Status)], lost : SUBSET Tag,
             moved : [Tag -> SUBSET Move] ]
    BY <1>4, <2>2, <2>3, <2>4, <2>o DEF WorkOK
  <2>7. OwnMoves(v.g, v.moved)
    <3> SUFFICES ASSUME ~a.g.gaveUp, NEW t \in Tag, NEW m \in mv[t]
                 PROVE  OwnMove(m)
      BY <2>5 DEF OwnMoves
    <3>1. ~w.g.gaveUp
      BY <1>3 DEF AttemptOK
    <3>2. m \in w.moved[t] \/ m \in a.moves
      BY DEF mv, WorkOK
    <3>3. CASE m \in w.moved[t]
      BY <3>1, <3>3 DEF WorkOK, OwnMoves
    <3>4. CASE m \in a.moves
      BY <1>3, <3>4 DEF AttemptOK
    <3> QED BY <3>2, <3>3, <3>4
  <2>8. WorkOK(v)
    BY <1>3, <2>5, <2>6, <2>7 DEF WorkOK, AttemptOK
  <2>9. a.moves = {} \/ (x = "OK" /\ \E m \in Move : a.moves = {m})
    BY <1>3, <2>1 DEF AttemptOK
  <2>10. Ends(w, d, v)
    BY <1>4, <2>1, <2>5, <2>9 DEF Ends, tl, mv, o, ls
  <2> QED BY <2>8, <2>10 DEF v
<1> QED BY <1>5, <1>6

-----------------------------------------------------------------------------
(* Every set of natural numbers that is not empty has a least one.         *)
LEMMA LeastNat ==
  ASSUME NEW T, T \subseteq Nat, T # {}
  PROVE  \E m \in T : \A k \in T : m <= k
<1>1. PICK m \in T : \A k \in T : ~(<<k, m>> \in OpToRel(<, Nat))
  BY WFMin, NatLessThanWellFounded
<1>2. ASSUME NEW k \in T PROVE m <= k
  <2>1. k \in Nat /\ m \in Nat
    OBVIOUS
  <2>2. ~(k < m)
    BY <1>1, <2>1 DEF OpToRel
  <2> QED BY <2>1, <2>2
<1> QED BY <1>2

(* The function TryAll chooses exists.                                     *)
IsLoop(f, w, s, mayWait, status, n) ==
  f = [i \in 0..n |->
         IF i = 0 THEN w ELSE Try(f[i - 1], s[i], mayWait, status)]

LEMMA LoopExists ==
  ASSUME NEW w, NEW s, NEW mayWait, NEW status, NEW n \in Nat
  PROVE  \E f : IsLoop(f, w, s, mayWait, status, n)
<1> DEFINE Is(f, k) == IsLoop(f, w, s, mayWait, status, k)
           T == {k \in Nat : ~\E f : Is(f, k)}
<1>1. SUFFICES ASSUME T # {} PROVE FALSE
  OBVIOUS
<1>2. PICK m \in T : \A k \in T : m <= k
  BY <1>1, LeastNat
<1>3. CASE m = 0
  <2>1. Is([i \in 0..0 |-> w], 0)
    BY DEF IsLoop
  <2> QED BY <1>2, <1>3, <2>1
<1>4. CASE m # 0
  <2>1. m \in Nat /\ m - 1 \in Nat /\ ~(m <= m - 1)
    BY <1>2, <1>4
  <2>2. PICK f : Is(f, m - 1)
    BY <1>2, <2>1
  <2>0. f = [i \in 0..(m - 1) |->
               IF i = 0 THEN w ELSE Try(f[i - 1], s[i], mayWait, status)]
    BY <2>2 DEF IsLoop
  <2> DEFINE g == [i \in 0..m |->
                     IF i = 0 THEN w ELSE Try(f[i - 1], s[i], mayWait, status)]
  <2>3. ASSUME NEW i \in 0..(m - 1) PROVE g[i] = f[i]
    <3>1. i \in 0..m
      BY <2>1
    <3> QED BY <2>0, <3>1
  <2>4. ASSUME NEW i \in 0..m, i # 0 PROVE i - 1 \in 0..(m - 1)
    BY <2>1, <2>4
  <2> HIDE DEF Is
  <2>5. Is(g, m)
    <3>1. ASSUME NEW i \in 0..m
          PROVE  g[i] = IF i = 0 THEN w ELSE Try(g[i - 1], s[i], mayWait, status)
      <4>1. CASE i = 0
        BY <4>1
      <4>2. CASE i # 0
        <5>1. g[i - 1] = f[i - 1]
          BY <2>3, <2>4, <4>2
        <5>2. g[i] = Try(f[i - 1], s[i], mayWait, status)
          BY <4>2
        <5> QED BY <4>2, <5>1, <5>2
      <4> QED BY <4>1, <4>2
    <3>2. g = [i \in 0..m |-> g[i]]
      OBVIOUS
    <3> HIDE DEF g
    <3> QED BY <3>1, <3>2 DEF Is, IsLoop
  <2> QED BY <1>2, <2>5
<1> QED BY <1>3, <1>4

(* The records between the attempts, the last of which TryAll returns.     *)
Runs(f, w, s, mayWait, status) ==
  /\ f[0] = w
  /\ \A i \in 1..Len(s) : f[i] = Try(f[i - 1], s[i], mayWait, status)
  /\ TryAll(w, s, mayWait, status) = f[Len(s)]

LEMMA TryAllLoop ==
  ASSUME NEW w, NEW s, NEW mayWait, NEW status, Len(s) \in Nat
  PROVE  \E f : Runs(f, w, s, mayWait, status)
<1> DEFINE after == CHOOSE f : IsLoop(f, w, s, mayWait, status, Len(s))
<1>1. \E f : IsLoop(f, w, s, mayWait, status, Len(s))
  BY LoopExists
<1>2. IsLoop(after, w, s, mayWait, status, Len(s))
  BY <1>1
<1>3. TryAll(w, s, mayWait, status) = after[Len(s)]
  BY DEF TryAll, IsLoop
<1> HIDE DEF after
<1>0. after = [i \in 0..Len(s) |->
                 IF i = 0 THEN w ELSE Try(after[i - 1], s[i], mayWait, status)]
  BY <1>2 DEF IsLoop
<1>4. after[0] = w
  <2>1. 0 \in 0..Len(s)
    OBVIOUS
  <2> QED BY <1>0, <2>1
<1>5. ASSUME NEW i \in 1..Len(s)
      PROVE  after[i] = Try(after[i - 1], s[i], mayWait, status)
  <2>1. i \in 0..Len(s) /\ i # 0
    OBVIOUS
  <2> QED BY <1>0, <2>1
<1> QED BY <1>3, <1>4, <1>5 DEF Runs

-----------------------------------------------------------------------------
(* What trying the descriptors of a sequence keeps.                        *)
LEMMA AppendTags ==
  ASSUME NEW s \in Seq(Desc), NEW d \in Desc
  PROVE  /\ Tags(Append(s, d)) = Tags(s) \cup {d.tag}
         /\ Distinct(s) /\ d.tag \notin Tags(s) => Distinct(Append(s, d))
<1> DEFINE r == Append(s, d)
           n == Len(s)
<1>1. /\ n \in Nat /\ DOMAIN s = 1..n /\ DOMAIN r = 1..(n + 1)
      /\ r[n + 1] = d /\ \A i \in 1..n : r[i] = s[i]
  BY AppendProperties, LenProperties
<1>2. \A i \in 1..(n + 1) : i \in 1..n \/ i = n + 1
  BY <1>1
<1>3. 1..n \subseteq 1..(n + 1) /\ n + 1 \in 1..(n + 1)
  BY <1>1
<1> HIDE DEF r, n
<1>4. Tags(r) = Tags(s) \cup {d.tag}
  <2>1. ASSUME NEW t \in Tags(r) PROVE t \in Tags(s) \cup {d.tag}
    <3>1. PICK i \in 1..(n + 1) : t = r[i].tag
      BY <1>1 DEF Tags
    <3> QED BY <1>1, <1>2, <3>1 DEF Tags
  <2>2. ASSUME NEW t \in Tags(s) PROVE t \in Tags(r)
    <3>1. PICK i \in 1..n : t = s[i].tag
      BY <1>1 DEF Tags
    <3>2. i \in DOMAIN r /\ t = r[i].tag
      BY <1>1, <1>3, <3>1
    <3> QED BY <3>2 DEF Tags
  <2>3. d.tag \in Tags(r)
    BY <1>1, <1>3 DEF Tags
  <2> QED BY <2>1, <2>2, <2>3
<1>5. ASSUME Distinct(s), d.tag \notin Tags(s) PROVE Distinct(r)
  <2>1. \A i \in 1..n : r[i].tag = s[i].tag /\ r[i].tag # d.tag
    BY <1>1, <1>5 DEF Tags
  <2> SUFFICES ASSUME NEW i \in 1..(n + 1), NEW j \in 1..(n + 1), r[i].tag = r[j].tag
               PROVE  i = j
    BY <1>1 DEF Distinct
  <2>2. CASE i \in 1..n /\ j \in 1..n
    BY <1>1, <1>5, <2>1, <2>2 DEF Distinct
  <2>3. CASE i = n + 1 /\ j \in 1..n
    BY <1>1, <2>1, <2>3
  <2>4. CASE j = n + 1 /\ i \in 1..n
    BY <1>1, <2>1, <2>4
  <2> QED BY <1>2, <2>2, <2>3, <2>4
<1> QED BY <1>4, <1>5 DEF r

LEMMA AccountTry ==
  ASSUME NEW w, WorkOK(w), NEW d \in Entry, NEW v, NEW P, NEW A, A \subseteq Tag,
         Account(w.emitted, w.moved, w.kept, P, A), d.tag \in P,
         (d \in Desc /\ Waits(w, d, v)) \/ Ends(w, d, v)
  PROVE  Account(v.emitted, v.moved, v.kept, P \ {d.tag}, A)
<1> DEFINE Q == P \ {d.tag}
<1>0. /\ w.emitted \in [Tag -> Seq(Status)] /\ w.moved \in [Tag -> SUBSET Move]
      /\ w.kept \in Seq(Desc) /\ d.tag \in Tag /\ d.tag \in A
      /\ Untouched(w.emitted, w.moved, d.tag) /\ d.tag \notin Tags(w.kept)
  BY DEF WorkOK, Entry, Account
<1>1. CASE d \in Desc /\ Waits(w, d, v)
  <2>1. v.kept = Append(w.kept, d) /\ v.emitted = w.emitted /\ v.moved = w.moved
    BY <1>1 DEF Waits
  <2>2. Tags(v.kept) = Tags(w.kept) \cup {d.tag} /\ Distinct(v.kept)
    BY <1>0, <1>1, <2>1, AppendTags DEF Account
  <2>3. Tags(v.kept) \cup Q = Tags(w.kept) \cup P
    BY <2>2
  <2> QED BY <1>0, <2>1, <2>2, <2>3 DEF Account
<1>2. CASE Ends(w, d, v)
  <2>1. PICK x \in Status, ms \in SUBSET Move :
          /\ ms = {} \/ (x = "OK" /\ \E m \in Move : ms = {m})
          /\ v.emitted = [w.emitted EXCEPT ![d.tag] = Append(@, x)]
          /\ v.moved = [w.moved EXCEPT ![d.tag] = @ \cup ms]
    BY <1>2 DEF Ends
  <2>2. v.kept = w.kept
    BY <1>2 DEF Ends
  <2>3. v.emitted[d.tag] = <<x>> /\ v.moved[d.tag] = ms
    BY <1>0, <2>1 DEF Untouched
  <2>4. Done(v.emitted, v.moved, d.tag)
    BY <2>1, <2>3 DEF Done
  <2>5. ASSUME NEW t \in Tag, t # d.tag
        PROVE  v.emitted[t] = w.emitted[t] /\ v.moved[t] = w.moved[t]
    BY <1>0, <2>1, <2>5
  <2>6. ASSUME NEW t \in Tags(v.kept) \cup Q PROVE Untouched(v.emitted, v.moved, t)
    <3>1. t \in Tags(w.kept) \cup P /\ t # d.tag /\ t \in Tag
      BY <1>0, <2>2, <2>6 DEF Account
    <3>2. Untouched(w.emitted, w.moved, t)
      BY <3>1 DEF Account
    <3> QED BY <2>5, <3>1, <3>2 DEF Untouched
  <2>7. ASSUME NEW t \in A \ (Tags(v.kept) \cup Q) PROVE Done(v.emitted, v.moved, t)
    <3>1. CASE t = d.tag
      BY <2>4, <3>1
    <3>2. CASE t # d.tag
      <4>1. t \in A \ (Tags(w.kept) \cup P) /\ t \in Tag
        BY <2>2, <2>7, <3>2
      <4>2. Done(w.emitted, w.moved, t)
        BY <4>1 DEF Account
      <4> QED BY <2>5, <3>2, <4>1, <4>2 DEF Done
    <3> QED BY <3>1, <3>2
  <2> QED BY <1>0, <2>2, <2>6, <2>7 DEF Account
<1> QED BY <1>1, <1>2

TagsTo(s, i) == {s[j].tag : j \in 1..i}

(* After the first i descriptors of s: the types, no more kept than were   *)
(* tried, and nothing said or moved for a tag that is not in s.            *)
LoopInv(w, s, mayWait, u, i) ==
  /\ WorkOK(u) /\ Len(u.kept) <= Len(w.kept) + i
  /\ ~mayWait => u.kept = w.kept
  /\ \A t \in Tag \ Tags(s) : u.emitted[t] = w.emitted[t] /\ u.moved[t] = w.moved[t]

LEMMA LoopStep ==
  ASSUME NEW w, WorkOK(w), NEW s \in Seq(Entry), NEW mayWait \in BOOLEAN,
         NEW status, Emits(mayWait, status), mayWait => s \in Seq(Desc),
         NEW i \in 1..Len(s), NEW u, LoopInv(w, s, mayWait, u, i - 1)
  PROVE  LET v == Try(u, s[i], mayWait, status)
         IN  /\ LoopInv(w, s, mayWait, v, i)
             /\ s[i] \in Entry
             /\ (s[i] \in Desc /\ Waits(u, s[i], v)) \/ Ends(u, s[i], v)
<1> DEFINE v == Try(u, s[i], mayWait, status)
<1>1. s[i] \in Entry /\ (mayWait => s[i] \in Desc) /\ i \in DOMAIN s
  BY ElementOfSeq, LenProperties
<1>2. /\ WorkOK(v)
      /\ (mayWait /\ Waits(u, s[i], v)) \/ Ends(u, s[i], v)
  BY <1>1, TrySound DEF LoopInv
<1> HIDE DEF v
<1>3. /\ u.emitted \in [Tag -> Seq(Status)] /\ u.moved \in [Tag -> SUBSET Move]
      /\ u.kept \in Seq(Desc) /\ w.kept \in Seq(Desc) /\ s[i].tag \in Tags(s)
  BY <1>1 DEF LoopInv, WorkOK, Tags
<1>4. Len(u.kept) \in Nat /\ Len(w.kept) \in Nat /\ i \in Nat
  BY <1>3, LenProperties
<1>5. CASE mayWait /\ Waits(u, s[i], v)
  <2>1. v.kept = Append(u.kept, s[i]) /\ v.emitted = u.emitted /\ v.moved = u.moved
    BY <1>5 DEF Waits
  <2>2. Len(v.kept) = Len(u.kept) + 1
    BY <1>1, <1>3, <1>5, <2>1, AppendProperties
  <2>3. Len(v.kept) <= Len(w.kept) + i
    BY <1>4, <2>2 DEF LoopInv
  <2>4. LoopInv(w, s, mayWait, v, i)
    BY <1>2, <1>5, <2>1, <2>3 DEF LoopInv
  <2> QED BY <1>1, <1>5, <2>4 DEF v
<1>6. CASE Ends(u, s[i], v)
  <2>1. v.kept = u.kept
    BY <1>6 DEF Ends
  <2>2. ASSUME NEW t \in Tag \ Tags(s)
        PROVE  v.emitted[t] = u.emitted[t] /\ v.moved[t] = u.moved[t]
    BY <1>3, <1>6 DEF Ends
  <2>3. Len(v.kept) <= Len(w.kept) + i
    BY <1>4, <2>1 DEF LoopInv
  <2>4. LoopInv(w, s, mayWait, v, i)
    BY <1>2, <2>1, <2>2, <2>3 DEF LoopInv
  <2> QED BY <1>1, <1>6, <2>4 DEF v
<1> QED BY <1>2, <1>5, <1>6

LEMMA LoopRuns ==
  ASSUME NEW w, WorkOK(w), NEW s \in Seq(Entry), NEW mayWait \in BOOLEAN,
         NEW status, Emits(mayWait, status), mayWait => s \in Seq(Desc),
         NEW f, Runs(f, w, s, mayWait, status)
  PROVE  \A i \in 0..Len(s) : LoopInv(w, s, mayWait, f[i], i)
<1>0. Len(s) \in Nat /\ Len(w.kept) \in Nat
  BY LenProperties DEF WorkOK
<1>1. /\ f[0] = w
      /\ \A i \in 1..Len(s) : f[i] = Try(f[i - 1], s[i], mayWait, status)
  BY DEF Runs
<1>2. \A i \in 0..Len(s) : LoopInv(w, s, mayWait, f[i], i)
  <2> DEFINE T == {i \in 0..Len(s) : ~LoopInv(w, s, mayWait, f[i], i)}
  <2>1. SUFFICES ASSUME T # {} PROVE FALSE
    OBVIOUS
  <2>0. T \subseteq Nat
    BY <1>0
  <2>2. PICK m \in T : \A k \in T : m <= k
    <3> HIDE DEF T
    <3> QED BY <2>0, <2>1, LeastNat
  <2>3. CASE m = 0
    BY <1>0, <1>1, <2>2, <2>3 DEF LoopInv
  <2>4. CASE m # 0
    <3>1. m \in 1..Len(s) /\ m - 1 \in 0..Len(s) /\ ~(m <= m - 1)
      BY <1>0, <2>2, <2>4
    <3>2. LoopInv(w, s, mayWait, f[m - 1], m - 1)
      BY <2>2, <3>1
    <3>3. LoopInv(w, s, mayWait, Try(f[m - 1], s[m], mayWait, status), m)
      BY <3>1, <3>2, LoopStep
    <3> QED BY <1>1, <2>2, <3>1, <3>3
  <2> QED BY <2>3, <2>4
<1> QED BY <1>2

LEMMA LoopSound ==
  ASSUME NEW w, WorkOK(w), NEW s \in Seq(Entry), NEW mayWait \in BOOLEAN,
         NEW status, Emits(mayWait, status), mayWait => s \in Seq(Desc)
  PROVE  /\ LoopInv(w, s, mayWait, TryAll(w, s, mayWait, status), Len(s))
         /\ \A A \in SUBSET Tag :
              Distinct(s) /\ Account(w.emitted, w.moved, w.kept, Tags(s), A) =>
                LET v == TryAll(w, s, mayWait, status)
                IN  Account(v.emitted, v.moved, v.kept, {}, A)
<1>0. Len(s) \in Nat /\ DOMAIN s = 1..Len(s) /\ Len(w.kept) \in Nat
  BY LenProperties DEF WorkOK
<1>r. PICK f : Runs(f, w, s, mayWait, status)
  BY <1>0, TryAllLoop
<1>1. /\ f[0] = w
      /\ \A i \in 1..Len(s) : f[i] = Try(f[i - 1], s[i], mayWait, status)
      /\ TryAll(w, s, mayWait, status) = f[Len(s)]
  BY <1>r DEF Runs
<1>2. \A i \in 0..Len(s) : LoopInv(w, s, mayWait, f[i], i)
  BY <1>r, LoopRuns
<1>3. ASSUME NEW A \in SUBSET Tag, Distinct(s),
             Account(w.emitted, w.moved, w.kept, Tags(s), A)
      PROVE  Account(f[Len(s)].emitted, f[Len(s)].moved, f[Len(s)].kept, {}, A)
  <2> DEFINE Acc(i) == Account(f[i].emitted, f[i].moved, f[i].kept,
                               Tags(s) \ TagsTo(s, i), A)
             T == {i \in 0..Len(s) : ~Acc(i)}
  <2>1. \A i \in 0..Len(s) : Acc(i)
    <3>1. SUFFICES ASSUME T # {} PROVE FALSE
      OBVIOUS
    <3>0. T \subseteq Nat
      BY <1>0
    <3>2. PICK m \in T : \A k \in T : m <= k
      <4> HIDE DEF T
      <4> QED BY <3>0, <3>1, LeastNat
    <3>3. CASE m = 0
      <4>1. Tags(s) \ TagsTo(s, 0) = Tags(s)
        BY DEF TagsTo
      <4> QED BY <1>1, <1>3, <3>2, <3>3, <4>1
    <3>4. CASE m # 0
      <4>1. m \in 1..Len(s) /\ m - 1 \in 0..Len(s) /\ ~(m <= m - 1)
        BY <1>0, <3>2, <3>4
      <4>2. Acc(m - 1)
        BY <3>2, <4>1
      <4> DEFINE u == f[m - 1]
                 v == f[m]
                 P == Tags(s) \ TagsTo(s, m - 1)
      <4>3. /\ s[m] \in Entry
            /\ (s[m] \in Desc /\ Waits(u, s[m], v)) \/ Ends(u, s[m], v)
        BY <1>1, <1>2, <4>1, LoopStep
      <4>4. WorkOK(u)
        BY <1>2, <4>1 DEF LoopInv
      <4>5. s[m].tag \in P
        <5>1. s[m].tag \in Tags(s)
          BY <1>0, <4>1 DEF Tags
        <5>2. ASSUME NEW j \in 1..(m - 1) PROVE s[j].tag # s[m].tag
          <6>1. j \in 1..Len(s) /\ j # m
            BY <1>0, <4>1
          <6> QED BY <1>0, <1>3, <4>1, <6>1 DEF Distinct
        <5> QED BY <5>1, <5>2 DEF TagsTo
      <4>6. P \ {s[m].tag} = Tags(s) \ TagsTo(s, m)
        <5>1. \A j \in 1..m : j \in 1..(m - 1) \/ j = m
          BY <4>1
        <5>2. 1..(m - 1) \subseteq 1..m /\ m \in 1..m
          BY <4>1
        <5>3. TagsTo(s, m) = TagsTo(s, m - 1) \cup {s[m].tag}
          BY <5>1, <5>2 DEF TagsTo
        <5> QED BY <5>3
      <4>7. Account(u.emitted, u.moved, u.kept, P, A)
        BY <4>2
      <4> HIDE DEF u, v, P
      <4>8. Account(v.emitted, v.moved, v.kept, P \ {s[m].tag}, A)
        BY <4>3, <4>4, <4>5, <4>7, AccountTry
      <4>9. Acc(m)
        BY <4>6, <4>8 DEF v
      <4> QED BY <3>2, <4>9
    <3> QED BY <3>3, <3>4
  <2>2. Tags(s) \ TagsTo(s, Len(s)) = {}
    BY <1>0 DEF Tags, TagsTo
  <2>3. Len(s) \in 0..Len(s)
    BY <1>0
  <2> QED BY <2>1, <2>2, <2>3
<1>4. LoopInv(w, s, mayWait, f[Len(s)], Len(s))
  BY <1>0, <1>2
<1> QED BY <1>1, <1>3, <1>4

-----------------------------------------------------------------------------
(* The steps of the walk's way to the memory and back.                     *)
LEMMA SdmaTypeIs ==
  TypeOK <=>
    /\ desc_in \in Desc \cup {None}
    /\ inflight \in Seq(Desc) /\ Len(inflight) <= MaxInflight
    /\ done_out \in [tag : Tag, status : Status] \cup {None}
    /\ ring_mode \in BOOLEAN /\ ring \in [0..(Capacity - 1) -> Desc]
    /\ wptr \in Nat /\ fences \in 0..MaxFence
    /\ gmmu \in Walker
    /\ to_mem \in Seq(Page) /\ mem_in \in Page \cup {None}
    /\ to_gmmu \in Seq(Pte) /\ resp_in \in Pte \cup {None}
    /\ tags \in 0..MaxTag /\ host \in 0..MaxHost
    /\ accepted \subseteq Tag /\ dropped \subseteq Tag
    /\ emitted \in [Tag -> Seq(Status)]
    /\ sent \subseteq Tag /\ lost \subseteq Tag
    /\ moved \in [Tag -> SUBSET Move]
BY DEF TypeOK, Completion, Status, Move

LEMMA PteOfIsPte ==
  ASSUME NEW p \in Page
  PROVE  PteOf(p) \in Pte /\ PteOf(p) # None
<1>1. PteOf(p) \in Pte
  BY DEF PteOf, Pte
<1>2. None \notin Pte
  BY PageAssumption DEF Pte
<1> QED BY <1>1, <1>2

LEMMA PathKeeps ==
  ASSUME SdmaInv, GmmuTick \/ RequestArrives \/ MemTick \/ AnswerArrives
  PROVE  SdmaInv'
<1>0. TypeOK /\ WalkerOK(gmmu) /\ OneWalk(gmmu)
  BY DEF SdmaInv
<1>1. UNCHANGED engine
  BY DEF GmmuTick, RequestArrives, MemTick, AnswerArrives
<1>2. UNCHANGED <<desc_in, inflight, done_out, ring_mode, ring, wptr, fences,
                  tags, host, accepted, dropped, emitted, sent, lost, moved>>
  BY <1>1 DEF engine
<1>3. TagsInv' /\ Account(emitted, moved, inflight, {}, accepted \ dropped)'
  BY <1>2 DEF SdmaInv, TagsInv, Account, Untouched, Done, Distinct, Tags
<1>4. SUFFICES /\ gmmu' \in Walker /\ gmmu'.gaveUp = gmmu.gaveUp
               /\ to_mem' \in Seq(Page) /\ mem_in' \in Page \cup {None}
               /\ to_gmmu' \in Seq(Pte) /\ resp_in' \in Pte \cup {None}
               /\ WalkerOK(gmmu)' /\ OneWalk(gmmu)'
  <2>1. TypeOK'
    BY <1>0, <1>2, <1>4 DEF TypeOK
  <2>2. OwnMoves(gmmu, moved)'
    BY <1>2, <1>4 DEF SdmaInv, OwnMoves, OwnMove
  <2> QED BY <1>3, <1>4, <2>1, <2>2 DEF SdmaInv
<1>t. /\ gmmu \in Walker
      /\ to_mem \in Seq(Page) /\ mem_in \in Page \cup {None}
      /\ to_gmmu \in Seq(Pte) /\ resp_in \in Pte \cup {None}
  BY <1>0, SdmaTypeIs
<1>5. CASE GmmuTick
  <2>1. CASE Answered(gmmu)
    <3>1. /\ gmmu' = [gmmu EXCEPT !.state = "COMPLETE", !.pte = resp_in,
                                  !.req = None]
          /\ resp_in' = None /\ UNCHANGED <<mem_in, to_gmmu>>
          /\ to_mem' = IF gmmu.req = None THEN to_mem ELSE Append(to_mem, gmmu.req)
      BY <1>5, <2>1 DEF GmmuTick
    <3>2. gmmu.state = "WAIT" /\ resp_in \in Pte /\ resp_in # None
      BY <1>t, <2>1 DEF Answered
    <3>3. /\ gmmu' \in Walker /\ gmmu'.gaveUp = gmmu.gaveUp
          /\ gmmu'.page = gmmu.page /\ gmmu'.state = "COMPLETE"
          /\ gmmu'.pte = resp_in /\ gmmu'.req = None
      BY <1>t, <3>1, <3>2 DEF Walker
    <3>4. gmmu.page \in Page
      BY <1>0, <3>2 DEF WalkerOK
    <3>5. WalkerOK(gmmu)'
      BY <3>2, <3>3, <3>4 DEF WalkerOK
    <3>6. to_mem' \in Seq(Page)
      <4>1. gmmu.req # None => gmmu.req \in Page
        BY <1>t DEF Walker
      <4> QED BY <1>t, <3>1, <4>1, AppendProperties
    <3>7. OneWalk(gmmu)'
      <4> SUFFICES ASSUME ~gmmu.gaveUp
                   PROVE  Quiet' /\ gmmu'.pte = PteOf(gmmu'.page)
        BY <3>3 DEF OneWalk
      <4>1. Travels(gmmu)
        BY <1>0, <3>2 DEF OneWalk
      <4>2. /\ gmmu.req = None /\ to_mem = <<>> /\ mem_in = None
            /\ to_gmmu = <<>> /\ resp_in = PteOf(gmmu.page)
        BY <3>2, <4>1 DEF Travels, Quiet
      <4> QED BY <3>1, <3>3, <4>2 DEF Quiet
    <3> QED BY <1>t, <3>1, <3>3, <3>5, <3>6, <3>7
  <2>2. CASE ~Answered(gmmu)
    <3>1. /\ gmmu' = [gmmu EXCEPT !.req = None] /\ gmmu.req # None
          /\ UNCHANGED <<mem_in, to_gmmu, resp_in>>
          /\ to_mem' = Append(to_mem, gmmu.req)
      BY <1>5, <2>2 DEF GmmuTick
    <3>2. gmmu.req \in Page
      BY <1>t, <3>1 DEF Walker
    <3>3. /\ gmmu' \in Walker /\ gmmu'.gaveUp = gmmu.gaveUp
          /\ gmmu'.page = gmmu.page /\ gmmu'.state = gmmu.state
          /\ gmmu'.pte = gmmu.pte /\ gmmu'.retries = gmmu.retries
          /\ gmmu'.req = None
      BY <1>t, <3>1 DEF Walker
    <3>4. WalkerOK(gmmu)'
      BY <1>0, <3>3 DEF WalkerOK
    <3>5. to_mem' \in Seq(Page)
      BY <1>t, <3>1, <3>2, AppendProperties
    <3>6. OneWalk(gmmu)'
      <4> SUFFICES ASSUME ~gmmu.gaveUp
                   PROVE  gmmu.state = "WAIT" /\ Travels(gmmu)'
        BY <3>3 DEF OneWalk
      <4>1. gmmu.state = "WAIT" /\ Travels(gmmu)
        BY <1>0, <3>1 DEF OneWalk
      <4>2. gmmu.req = gmmu.page /\ Quiet
        BY <3>1, <4>1 DEF Travels
      <4>3. Append(<<>>, gmmu.page) = <<gmmu.page>>
        OBVIOUS
      <4>4. /\ to_mem' = <<gmmu'.page>> /\ mem_in' = None /\ to_gmmu' = <<>>
            /\ resp_in' = None /\ gmmu'.req = None
        BY <3>1, <3>3, <4>2, <4>3 DEF Quiet
      <4> QED BY <4>1, <4>4 DEF Travels
    <3> QED BY <1>t, <3>1, <3>3, <3>4, <3>5, <3>6
  <2> QED BY <2>1, <2>2
<1>6. CASE RequestArrives
  <2>1. /\ to_mem # <<>> /\ mem_in' = Slot(mem_in, Head(to_mem))
        /\ to_mem' = Tail(to_mem) /\ UNCHANGED <<gmmu, to_gmmu, resp_in>>
    BY <1>6 DEF RequestArrives
  <2>2. Head(to_mem) \in Page /\ Tail(to_mem) \in Seq(Page)
    BY <1>t, <2>1, HeadTailProperties
  <2>3. WalkerOK(gmmu)'
    BY <1>0, <2>1 DEF WalkerOK
  <2>4. OneWalk(gmmu)'
    <3> SUFFICES ASSUME ~gmmu.gaveUp
                 PROVE  gmmu.state = "WAIT" /\ Travels(gmmu)'
      BY <2>1 DEF OneWalk
    <3>1. gmmu.state = "WAIT" /\ Travels(gmmu)
      BY <1>0, <2>1 DEF OneWalk, Quiet
    <3>2. /\ gmmu.req = None /\ to_mem = <<gmmu.page>> /\ mem_in = None
          /\ to_gmmu = <<>> /\ resp_in = None
      BY <2>1, <3>1 DEF Travels, Quiet
    <3>3. Head(<<gmmu.page>>) = gmmu.page /\ Tail(<<gmmu.page>>) = <<>>
      OBVIOUS
    <3>4. /\ gmmu'.req = None /\ to_mem' = <<>> /\ mem_in' = gmmu'.page
          /\ to_gmmu' = <<>> /\ resp_in' = None
      BY <2>1, <3>2, <3>3 DEF Slot
    <3> QED BY <3>1, <3>4 DEF Travels
  <2> QED BY <1>t, <2>1, <2>2, <2>3, <2>4 DEF Slot
<1>7. CASE MemTick
  <2>1. /\ mem_in # None /\ mem_in' = None
        /\ to_gmmu' = Append(to_gmmu, PteOf(mem_in))
        /\ UNCHANGED <<gmmu, to_mem, resp_in>>
    BY <1>7 DEF MemTick
  <2>2. PteOf(mem_in) \in Pte
    BY <1>t, <2>1, PteOfIsPte
  <2>3. to_gmmu' \in Seq(Pte)
    BY <1>t, <2>1, <2>2, AppendProperties
  <2>4. WalkerOK(gmmu)'
    BY <1>0, <2>1 DEF WalkerOK
  <2>5. OneWalk(gmmu)'
    <3> SUFFICES ASSUME ~gmmu.gaveUp
                 PROVE  gmmu.state = "WAIT" /\ Travels(gmmu)'
      BY <2>1 DEF OneWalk
    <3>1. gmmu.state = "WAIT" /\ Travels(gmmu)
      BY <1>0, <2>1 DEF OneWalk, Quiet
    <3>2. /\ gmmu.req = None /\ to_mem = <<>> /\ mem_in = gmmu.page
          /\ to_gmmu = <<>> /\ resp_in = None
      BY <2>1, <3>1 DEF Travels, Quiet
    <3>3. Append(<<>>, PteOf(gmmu.page)) = <<PteOf(gmmu.page)>>
      OBVIOUS
    <3>4. /\ gmmu'.req = None /\ to_mem' = <<>> /\ mem_in' = None
          /\ to_gmmu' = <<PteOf(gmmu'.page)>> /\ resp_in' = None
      BY <2>1, <3>2, <3>3
    <3> QED BY <3>1, <3>4 DEF Travels
  <2> QED BY <1>t, <2>1, <2>3, <2>4, <2>5
<1>8. CASE AnswerArrives
  <2>1. /\ to_gmmu # <<>> /\ resp_in' = Slot(resp_in, Head(to_gmmu))
        /\ to_gmmu' = Tail(to_gmmu) /\ UNCHANGED <<gmmu, to_mem, mem_in>>
    BY <1>8 DEF AnswerArrives
  <2>2. Head(to_gmmu) \in Pte /\ Tail(to_gmmu) \in Seq(Pte)
    BY <1>t, <2>1, HeadTailProperties
  <2>3. WalkerOK(gmmu)'
    BY <1>0, <2>1 DEF WalkerOK
  <2>4. OneWalk(gmmu)'
    <3> SUFFICES ASSUME ~gmmu.gaveUp
                 PROVE  gmmu.state = "WAIT" /\ Travels(gmmu)'
      BY <2>1 DEF OneWalk
    <3>1. gmmu.state = "WAIT" /\ Travels(gmmu)
      BY <1>0, <2>1 DEF OneWalk, Quiet
    <3>2. /\ gmmu.req = None /\ to_mem = <<>> /\ mem_in = None
          /\ to_gmmu = <<PteOf(gmmu.page)>> /\ resp_in = None
      BY <2>1, <3>1 DEF Travels, Quiet
    <3>3. /\ Head(<<PteOf(gmmu.page)>>) = PteOf(gmmu.page)
          /\ Tail(<<PteOf(gmmu.page)>>) = <<>>
      OBVIOUS
    <3>4. /\ gmmu'.req = None /\ to_mem' = <<>> /\ mem_in' = None
          /\ to_gmmu' = <<>> /\ resp_in' = PteOf(gmmu'.page)
      BY <2>1, <3>2, <3>3 DEF Slot
    <3> QED BY <3>1, <3>4 DEF Travels
  <2> QED BY <1>t, <2>1, <2>2, <2>3, <2>4 DEF Slot
<1> QED BY <1>5, <1>6, <1>7, <1>8

-----------------------------------------------------------------------------
(* The calls of the host that run no descriptor.                           *)
LEMMA BlankIsDesc == Blank \in Desc /\ Blank.tag = 0
<1>1. 0 \in Tag
  BY SizeAssumption DEF Tag
<1> QED BY <1>1 DEF Blank, Desc

LEMMA NewDescIsDesc ==
  ASSUME tags \in 0..MaxTag, tags < MaxTag, NEW job \in Job
  PROVE  NewDesc(job) \in Desc /\ NewDesc(job).tag = tags + 1
<1>1. tags + 1 \in Tag
  BY SizeAssumption DEF Tag
<1> QED BY <1>1 DEF NewDesc, Desc

LEMMA AccountOfHistory ==
  ASSUME UNCHANGED <<inflight, accepted, dropped, emitted, sent, lost, moved>>,
         Account(emitted, moved, inflight, {}, accepted \ dropped)
  PROVE  Account(emitted, moved, inflight, {}, accepted \ dropped)'
BY DEF Account, Untouched, Done, Distinct, Tags

LEMMA WalkKeeps ==
  ASSUME UNCHANGED <<gmmu, walk>>, WalkerOK(gmmu), OneWalk(gmmu)
  PROVE  WalkerOK(gmmu)' /\ OneWalk(gmmu)'
BY DEF walk, WalkerOK, OneWalk, Travels, Quiet

LEMMA SubmitKeeps ==
  ASSUME SdmaInv, Submit
  PROVE  SdmaInv'
<1>1. /\ tags < MaxTag /\ tags' = tags + 1
      /\ UNCHANGED <<inflight, done_out, ring_mode, ring, wptr, fences, gmmu,
                     to_mem, mem_in, to_gmmu, resp_in, host, accepted, dropped,
                     emitted, sent, lost, moved>>
  BY DEF Submit, walk
<1>2. PICK job \in Job :
        desc_in' = IF desc_in = None THEN NewDesc(job) ELSE desc_in
  BY DEF Submit
<1>3. tags \in 0..MaxTag /\ tags' \in 0..MaxTag /\ tags + 1 \in Tag
  BY <1>1, SizeAssumption DEF SdmaInv, TypeOK, Tag
<1>4. NewDesc(job) \in Desc /\ NewDesc(job).tag = tags + 1
  BY <1>1, <1>3, NewDescIsDesc
<1>5. TypeOK'
  BY <1>1, <1>2, <1>3, <1>4 DEF SdmaInv, TypeOK
<1>6. TagsInv'
  <2>1. 1..tags \subseteq 1..tags' /\ 0..tags \subseteq 0..tags'
    BY <1>1, <1>3
  <2>2. tags + 1 \in (tags + 1)..MaxTag /\ tags + 1 \in 1..tags'
    BY <1>1, <1>3, SizeAssumption
  <2>3. Untouched(emitted, moved, tags + 1) /\ tags + 1 \notin accepted
    <3>1. tags + 1 \notin 1..tags
      BY <1>3
    <3> QED BY <2>2, <3>1 DEF SdmaInv, TagsInv
  <2>4. ASSUME NEW t \in (tags' + 1)..MaxTag PROVE Untouched(emitted, moved, t)
    <3>1. t \in (tags + 1)..MaxTag
      BY <1>1, <1>3, SizeAssumption
    <3> QED BY <3>1 DEF SdmaInv, TagsInv
  <2>5. ASSUME desc_in' # None
        PROVE  /\ desc_in'.tag \in (1..tags') \ accepted
               /\ Untouched(emitted, moved, desc_in'.tag)
    BY <1>2, <1>4, <2>1, <2>2, <2>3, <2>5 DEF SdmaInv, TagsInv
  <2>6. ASSUME NEW i \in DOMAIN ring
        PROVE  /\ ring[i].tag \in (0..tags') \ accepted
               /\ desc_in' # None => ring[i].tag # desc_in'.tag
    <3>1. ring[i].tag \in (0..tags) \ accepted
      BY DEF SdmaInv, TagsInv
    <3>2. ring[i].tag # tags + 1
      BY <1>3, <3>1
    <3>3. desc_in # None => ring[i].tag # desc_in.tag
      BY DEF SdmaInv, TagsInv
    <3> QED BY <1>2, <1>4, <2>1, <3>1, <3>2, <3>3
  <2>7. accepted \subseteq 1..tags' /\ dropped \subseteq accepted
    BY <2>1 DEF SdmaInv, TagsInv
  <2>8. \A t \in dropped : Untouched(emitted, moved, t)
    BY DEF SdmaInv, TagsInv
  <2> QED BY <1>1, <2>4, <2>5, <2>6, <2>7, <2>8 DEF TagsInv, Untouched
<1>7. WalkerOK(gmmu)' /\ OneWalk(gmmu)'
  BY <1>1, WalkKeeps DEF SdmaInv, walk
<1>8. OwnMoves(gmmu, moved)'
  BY <1>1 DEF SdmaInv, OwnMoves, OwnMove
<1>9. Account(emitted, moved, inflight, {}, accepted \ dropped)'
  BY <1>1, AccountOfHistory DEF SdmaInv
<1> QED BY <1>5, <1>6, <1>7, <1>8, <1>9 DEF SdmaInv

LEMMA WriteEntryKeeps ==
  ASSUME SdmaInv, WriteEntry
  PROVE  SdmaInv'
<1>1. /\ tags < MaxTag /\ tags' = tags + 1
      /\ UNCHANGED <<desc_in, inflight, done_out, ring_mode, wptr, fences, gmmu,
                     to_mem, mem_in, to_gmmu, resp_in, host, accepted, dropped,
                     emitted, sent, lost, moved>>
  BY DEF WriteEntry, walk
<1>2. PICK i \in DOMAIN ring, job \in Job : ring' = [ring EXCEPT ![i] = NewDesc(job)]
  BY DEF WriteEntry
<1>3. tags \in 0..MaxTag /\ tags' \in 0..MaxTag /\ tags + 1 \in Tag
  BY <1>1, SizeAssumption DEF SdmaInv, TypeOK, Tag
<1>4. NewDesc(job) \in Desc /\ NewDesc(job).tag = tags + 1
  BY <1>1, <1>3, NewDescIsDesc
<1>5. ring \in [0..(Capacity - 1) -> Desc] /\ ring' \in [0..(Capacity - 1) -> Desc]
  BY <1>2, <1>4 DEF SdmaInv, TypeOK
<1>6. TypeOK'
  BY <1>1, <1>3, <1>5 DEF SdmaInv, TypeOK
<1>7. TagsInv'
  <2>1. 1..tags \subseteq 1..tags' /\ 0..tags \subseteq 0..tags'
    BY <1>1, <1>3
  <2>2. tags + 1 \in 0..tags' /\ tags + 1 \notin 1..tags
    BY <1>1, <1>3
  <2>3. ASSUME NEW t \in (tags' + 1)..MaxTag PROVE Untouched(emitted, moved, t)
    <3>1. t \in (tags + 1)..MaxTag
      BY <1>1, <1>3, SizeAssumption
    <3> QED BY <3>1 DEF SdmaInv, TagsInv
  <2>4. ASSUME desc_in # None
        PROVE  /\ desc_in.tag \in (1..tags) \ accepted
               /\ Untouched(emitted, moved, desc_in.tag)
    BY <2>4 DEF SdmaInv, TagsInv
  <2>5. ASSUME NEW k \in DOMAIN ring'
        PROVE  /\ ring'[k].tag \in (0..tags') \ accepted
               /\ desc_in # None => ring'[k].tag # desc_in.tag
    <3>1. CASE k = i
      <4>1. ring'[k].tag = tags + 1
        BY <1>2, <1>4, <1>5, <3>1
      <4> QED BY <2>2, <2>4, <4>1 DEF SdmaInv, TagsInv
    <3>2. CASE k # i
      <4>1. k \in DOMAIN ring /\ ring'[k] = ring[k]
        BY <1>2, <1>5, <3>2
      <4> QED BY <2>1, <4>1 DEF SdmaInv, TagsInv
    <3> QED BY <3>1, <3>2
  <2>6. accepted \subseteq 1..tags' /\ dropped \subseteq accepted
    BY <2>1 DEF SdmaInv, TagsInv
  <2>7. \A t \in dropped : Untouched(emitted, moved, t)
    BY DEF SdmaInv, TagsInv
  <2> QED BY <1>1, <2>1, <2>3, <2>4, <2>5, <2>6, <2>7 DEF TagsInv, Untouched
<1>8. WalkerOK(gmmu)' /\ OneWalk(gmmu)'
  BY <1>1, WalkKeeps DEF SdmaInv, walk
<1>9. OwnMoves(gmmu, moved)'
  BY <1>1 DEF SdmaInv, OwnMoves, OwnMove
<1>10. Account(emitted, moved, inflight, {}, accepted \ dropped)'
  BY <1>1, AccountOfHistory DEF SdmaInv
<1> QED BY <1>6, <1>7, <1>8, <1>9, <1>10 DEF SdmaInv

LEMMA EnableRingKeeps ==
  ASSUME SdmaInv, EnableRing
  PROVE  SdmaInv'
<1>1. /\ host < MaxHost /\ host' = host + 1 /\ ring_mode' = TRUE /\ wptr' = 0
      /\ ring' = [i \in 0..(Capacity - 1) |-> Blank]
      /\ UNCHANGED <<desc_in, inflight, done_out, fences, gmmu, to_mem, mem_in,
                     to_gmmu, resp_in, tags, accepted, dropped, emitted, sent, lost, moved>>
  BY DEF EnableRing, walk
<1>2. host' \in 0..MaxHost
  BY <1>1, SizeAssumption DEF SdmaInv, TypeOK
<1>3. ring' \in [0..(Capacity - 1) -> Desc]
  BY <1>1, BlankIsDesc
<1>4. TypeOK'
  BY <1>1, <1>2, <1>3 DEF SdmaInv, TypeOK
<1>5. TagsInv'
  <2>1. ASSUME NEW i \in DOMAIN ring'
        PROVE  /\ ring'[i].tag \in (0..tags) \ accepted
               /\ desc_in # None => ring'[i].tag # desc_in.tag
    <3>1. ring'[i].tag = 0
      BY <1>1, BlankIsDesc
    <3>2. 0 \in 0..tags /\ 0 \notin 1..tags
      BY DEF SdmaInv, TypeOK
    <3> QED BY <3>1, <3>2 DEF SdmaInv, TagsInv
  <2> QED BY <1>1, <2>1 DEF SdmaInv, TagsInv, Untouched
<1>6. WalkerOK(gmmu)' /\ OneWalk(gmmu)'
  BY <1>1, WalkKeeps DEF SdmaInv, walk
<1>7. OwnMoves(gmmu, moved)'
  BY <1>1 DEF SdmaInv, OwnMoves, OwnMove
<1>8. Account(emitted, moved, inflight, {}, accepted \ dropped)'
  BY <1>1, AccountOfHistory DEF SdmaInv
<1> QED BY <1>4, <1>5, <1>6, <1>7, <1>8 DEF SdmaInv

LEMMA SetEnabledKeeps ==
  ASSUME SdmaInv, SetEnabled
  PROVE  SdmaInv'
<1>1. /\ host < MaxHost /\ host' = host + 1
      /\ UNCHANGED <<desc_in, inflight, done_out, ring_mode, ring, wptr, fences,
                     to_mem, mem_in, to_gmmu, resp_in, tags, accepted, dropped,
                     emitted, sent, lost, moved>>
  BY DEF SetEnabled, walk
<1>2. PICK on \in BOOLEAN : gmmu' = [gmmu EXCEPT !.enabled = on]
  BY DEF SetEnabled
<1>3. gmmu \in Walker /\ WalkerOK(gmmu) /\ OneWalk(gmmu)
  BY DEF SdmaInv, TypeOK
<1>4. gmmu' \in Walker
  BY <1>2, <1>3 DEF Walker
<1>5. /\ gmmu'.state = gmmu.state /\ gmmu'.page = gmmu.page
      /\ gmmu'.retries = gmmu.retries /\ gmmu'.pte = gmmu.pte
      /\ gmmu'.req = gmmu.req /\ gmmu'.gaveUp = gmmu.gaveUp
  BY <1>2, <1>3 DEF Walker
<1>6. host' \in 0..MaxHost
  BY <1>1, SizeAssumption DEF SdmaInv, TypeOK
<1>7. TypeOK'
  BY <1>1, <1>4, <1>6 DEF SdmaInv, TypeOK
<1>8. WalkerOK(gmmu)'
  BY <1>3, <1>4, <1>5 DEF WalkerOK
<1>9. OneWalk(gmmu)'
  BY <1>1, <1>3, <1>5 DEF OneWalk, Travels, Quiet
<1>10. TagsInv'
  BY <1>1 DEF SdmaInv, TagsInv, Untouched
<1>11. OwnMoves(gmmu, moved)'
  BY <1>1, <1>5 DEF SdmaInv, OwnMoves, OwnMove
<1>12. Account(emitted, moved, inflight, {}, accepted \ dropped)'
  BY <1>1, AccountOfHistory DEF SdmaInv
<1> QED BY <1>7, <1>8, <1>9, <1>10, <1>11, <1>12 DEF SdmaInv

LEMMA ResetKeeps ==
  ASSUME SdmaInv, Reset
  PROVE  SdmaInv'
<1>1. /\ host < MaxHost /\ host' = host + 1
      /\ desc_in' = None /\ inflight' = <<>> /\ done_out' = None
      /\ dropped' = dropped \cup Tags(inflight)
      /\ lost' = lost \cup TagIn(done_out)
      /\ gmmu' = ResetWalker(gmmu)
      /\ UNCHANGED <<ring_mode, ring, wptr, fences, to_mem, mem_in, to_gmmu,
                     resp_in, tags, accepted, emitted, sent, moved>>
  BY DEF Reset, walk
<1>2. gmmu \in Walker /\ WalkerOK(gmmu) /\ OneWalk(gmmu)
  BY DEF SdmaInv, TypeOK
<1>3. /\ gmmu' \in Walker /\ gmmu'.state = "IDLE" /\ gmmu'.req = gmmu.req
      /\ gmmu'.gaveUp = (gmmu.gaveUp \/ gmmu.state = "WAIT")
  BY <1>1, <1>2 DEF Walker, ResetWalker
<1>4. Tags(inflight) \subseteq accepted \ dropped
  BY DEF SdmaInv, Account
<1>5. dropped' \subseteq accepted /\ accepted \subseteq Tag
  BY <1>1, <1>4 DEF SdmaInv, TagsInv, TypeOK
<1>6. host' \in 0..MaxHost
  BY <1>1, SizeAssumption DEF SdmaInv, TypeOK
<1>7. inflight' \in Seq(Desc) /\ Len(inflight') <= MaxInflight
  BY <1>1, SizeAssumption
<1>l. lost' \subseteq Tag
  <2>1. done_out \in Completion \cup {None} /\ lost \subseteq Tag
    BY DEF SdmaInv, TypeOK
  <2>2. TagIn(done_out) \subseteq Tag
    BY <2>1 DEF TagIn, Completion
  <2> QED BY <1>1, <2>1, <2>2
<1>8. TypeOK'
  BY <1>1, <1>3, <1>5, <1>6, <1>7, <1>l DEF SdmaInv, TypeOK
<1>9. WalkerOK(gmmu)' /\ OneWalk(gmmu)'
  BY <1>1, <1>2, <1>3 DEF WalkerOK, OneWalk, Quiet
<1>10. TagsInv'
  <2>1. ASSUME NEW t \in dropped' PROVE Untouched(emitted, moved, t)
    BY <1>1, <2>1 DEF SdmaInv, TagsInv, Account
  <2> QED BY <1>1, <1>5, <2>1 DEF SdmaInv, TagsInv, Untouched
<1>11. OwnMoves(gmmu, moved)'
  BY <1>1, <1>3 DEF SdmaInv, OwnMoves, OwnMove
<1>12. Account(emitted, moved, inflight, {}, accepted \ dropped)'
  <2>1. Tags(inflight)' = {} /\ Distinct(inflight)'
    BY <1>1 DEF Tags, Distinct
  <2>2. ASSUME NEW t \in accepted \ dropped' PROVE Done(emitted, moved, t)
    <3>1. t \in (accepted \ dropped) \ Tags(inflight)
      BY <1>1
    <3> QED BY <3>1 DEF SdmaInv, Account
  <2> QED BY <1>1, <2>1, <2>2 DEF Account, Done, Tags, Distinct
<1> QED BY <1>8, <1>9, <1>10, <1>11, <1>12 DEF SdmaInv

-----------------------------------------------------------------------------
(* The steps that run descriptors: the engine's tick and the doorbell.     *)
LEMMA TagsAreTags ==
  /\ \A d \in Entry : d.tag \in Tag
  /\ \A s \in Seq(Entry) : Tags(s) \subseteq Tag
<1>1. \A d \in Entry : d.tag \in Tag
  BY DEF Entry
<1>2. ASSUME NEW s \in Seq(Entry), NEW i \in DOMAIN s PROVE s[i] \in Entry
  BY <1>2, ElementOfSeq, LenProperties
<1> QED BY <1>1, <1>2 DEF Tags

LEMMA DescSeqIsEntrySeq ==
  ASSUME NEW s \in Seq(Desc)
  PROVE  s \in Seq(Entry)
<1>1. Len(s) \in Nat /\ s \in [1..Len(s) -> Desc]
  BY LenProperties, SeqDef
<1>2. s \in [1..Len(s) -> Entry]
  BY <1>1, DescIsEntry
<1> QED BY <1>1, <1>2, SeqDef

LEMMA WorkIsOK ==
  ASSUME SdmaInv
  PROVE  /\ WorkOK(Work) /\ Work.kept = <<>>
         /\ Work.g = gmmu /\ Work.emitted = emitted /\ Work.moved = moved
         /\ Work.out = done_out /\ Work.lost = lost
<1>1. /\ gmmu \in Walker /\ done_out \in [tag : Tag, status : Status] \cup {None}
      /\ emitted \in [Tag -> Seq(Status)] /\ moved \in [Tag -> SUBSET Move]
      /\ lost \in SUBSET Tag
  BY SdmaTypeIs DEF SdmaInv
<1>2. <<>> \in Seq(Desc)
  BY EmptySeq
<1> QED BY <1>1, <1>2 DEF WorkOK, Work, SdmaInv

(* What the end of a call publishes keeps the walker and the frames.       *)
LEMMA PublishKeeps ==
  ASSUME NEW w, WorkOK(w), Publish(w), UNCHANGED walk
  PROVE  /\ WalkerOK(gmmu)' /\ OneWalk(gmmu)' /\ OwnMoves(gmmu, moved)'
         /\ gmmu' \in Walker /\ emitted' \in [Tag -> Seq(Status)]
         /\ moved' \in [Tag -> SUBSET Move] /\ lost' \subseteq Tag
         /\ TagIn(w.out) \subseteq Tag
<1>1. /\ gmmu' = w.g /\ emitted' = w.emitted /\ moved' = w.moved
      /\ lost' = w.lost
      /\ UNCHANGED <<to_mem, mem_in, to_gmmu, resp_in>>
  BY DEF Publish, walk
<1>2. WalkerOK(w.g) /\ OneWalk(w.g) /\ OwnMoves(w.g, w.moved)
  BY DEF WorkOK
<1>3. OneWalk(gmmu)'
  BY <1>1, <1>2 DEF OneWalk, Travels, Quiet
<1>4. WalkerOK(gmmu)'
  BY <1>1, <1>2 DEF WalkerOK
<1>5. OwnMoves(gmmu, moved)'
  BY <1>1, <1>2 DEF OwnMoves, OwnMove
<1>6. w.lost \subseteq Tag /\ TagIn(w.out) \subseteq Tag
  BY DEF WorkOK, TagIn
<1> QED BY <1>1, <1>3, <1>4, <1>5, <1>6 DEF WorkOK

(* The tick: the waiting descriptors first, then the one of the slot.      *)
LEMMA RetryKeeps ==
  ASSUME SdmaInv
  PROVE  LET r == RetryInflight(Work)
         IN  /\ WorkOK(r) /\ Len(r.kept) <= MaxInflight
             /\ \A t \in Tag \ Tags(inflight) :
                  r.emitted[t] = emitted[t] /\ r.moved[t] = moved[t]
             /\ Account(r.emitted, r.moved, r.kept, {}, accepted \ dropped)
<1> DEFINE r == RetryInflight(Work)
           A == accepted \ dropped
<1>1. inflight \in Seq(Desc) /\ Len(inflight) <= MaxInflight /\ A \in SUBSET Tag
  BY DEF SdmaInv, TypeOK
<1>2. inflight \in Seq(Entry)
  BY <1>1, DescSeqIsEntrySeq
<1>3. Emits(TRUE, Retry)
  BY DEF Emits, Retry, Rc, Status
<1>4. r = TryAll(Work, inflight, TRUE, Retry)
  BY DEF RetryInflight
<1>5. Account(emitted, moved, inflight, {}, A)
  BY DEF SdmaInv
<1>6. Distinct(inflight) /\ Account(emitted, moved, <<>>, Tags(inflight), A)
  <2>1. Tags(<<>>) = {} /\ Distinct(<<>>)
    BY DEF Tags, Distinct
  <2> QED BY <1>5, <2>1 DEF Account
<1> HIDE DEF r, A
<1>7. /\ LoopInv(Work, inflight, TRUE, r, Len(inflight))
      /\ Account(r.emitted, r.moved, r.kept, {}, A)
  BY <1>1, <1>2, <1>3, <1>4, <1>6, WorkIsOK, LoopSound
<1>8. Len(r.kept) <= 0 + Len(inflight)
  BY <1>7, WorkIsOK, EmptySeq DEF LoopInv
<1>9. Len(r.kept) <= MaxInflight
  <2>1. Len(r.kept) \in Nat /\ Len(inflight) \in Nat /\ MaxInflight \in Nat
    BY <1>1, <1>7, SizeAssumption, LenProperties DEF LoopInv, WorkOK
  <2> QED BY <1>1, <1>8, <2>1
<1>10. \A t \in Tag \ Tags(inflight) : r.emitted[t] = emitted[t] /\ r.moved[t] = moved[t]
  BY <1>7, WorkIsOK DEF LoopInv
<1> QED BY <1>7, <1>9, <1>10 DEF LoopInv, r, A

LEMMA SdmaTickKeeps ==
  ASSUME SdmaInv, SdmaTick
  PROVE  SdmaInv'
<1> DEFINE r == RetryInflight(Work)
           x == HandleDescIn(r)
           takes == Acceptable(r) /\ ~ring_mode
<1>1. /\ Publish(x) /\ inflight' = x.kept
      /\ desc_in' = IF Acceptable(r) THEN None ELSE desc_in
      /\ accepted' = IF takes THEN accepted \cup {desc_in.tag} ELSE accepted
      /\ fences' = 0 /\ done_out' = None /\ sent' = sent \cup TagIn(x.out)
      /\ UNCHANGED <<walk, ring_mode, ring, wptr, tags, host, dropped>>
  BY DEF SdmaTick
<1>2. /\ WorkOK(r) /\ Len(r.kept) <= MaxInflight
      /\ \A t \in Tag \ Tags(inflight) :
           r.emitted[t] = emitted[t] /\ r.moved[t] = moved[t]
      /\ Account(r.emitted, r.moved, r.kept, {}, accepted \ dropped)
  BY RetryKeeps
<1>3. x = IF takes THEN Try(r, desc_in, TRUE, AsIs) ELSE r
  BY DEF HandleDescIn
<1> HIDE DEF r, x
<1>4. /\ desc_in \in Desc \cup {None} /\ accepted \subseteq Tag
      /\ dropped \subseteq accepted /\ Tags(inflight) \subseteq accepted \ dropped
      /\ tags \in 0..MaxTag /\ Tag = 0..MaxTag
  BY DEF SdmaInv, TypeOK, TagsInv, Account, Tag
<1>5. MaxInflight \in Nat /\ MaxFence \in Nat /\ Len(r.kept) \in Nat
  BY <1>2, SizeAssumption, LenProperties DEF WorkOK
(* What is left to show: the work, who changed, and the account.           *)
<1>6. SUFFICES /\ WorkOK(x) /\ Len(x.kept) <= MaxInflight
               /\ \A t \in Tag \ Tags(inflight) :
                    (takes => t # desc_in.tag) =>
                      x.emitted[t] = emitted[t] /\ x.moved[t] = moved[t]
               /\ Account(x.emitted, x.moved, x.kept, {}, accepted' \ dropped)
  <2>1. emitted' = x.emitted /\ moved' = x.moved
    BY <1>1 DEF Publish
  <2>2. /\ WalkerOK(gmmu)' /\ OneWalk(gmmu)' /\ OwnMoves(gmmu, moved)'
        /\ gmmu' \in Walker /\ emitted' \in [Tag -> Seq(Status)]
        /\ moved' \in [Tag -> SUBSET Move] /\ lost' \subseteq Tag
        /\ TagIn(x.out) \subseteq Tag
    BY <1>1, <1>6, PublishKeeps
  <2>3. takes => desc_in # None /\ desc_in \in Desc /\ desc_in.tag \in Tag
    <3>1. takes => desc_in # None
      BY DEF Acceptable
    <3> QED BY <1>4, <3>1, DescIsEntry, TagsAreTags
  <2>4. accepted' \subseteq Tag
    BY <1>1, <1>4, <2>3
  <2>5. inflight' \in Seq(Desc) /\ Len(inflight') <= MaxInflight
    BY <1>1, <1>6 DEF WorkOK
  <2>6. TypeOK'
    <3>1. fences' \in 0..MaxFence
      BY <1>1, <1>5
    <3>2. /\ ring_mode' \in BOOLEAN /\ ring' \in [0..(Capacity - 1) -> Desc]
          /\ wptr' \in Nat /\ tags' \in 0..MaxTag /\ host' \in 0..MaxHost
          /\ to_mem' \in Seq(Page) /\ mem_in' \in Page \cup {None}
          /\ to_gmmu' \in Seq(Pte) /\ resp_in' \in Pte \cup {None}
          /\ dropped' \subseteq Tag
      BY <1>1 DEF SdmaInv, TypeOK, walk
    <3>3. desc_in' \in Desc \cup {None}
      BY <1>1, <1>4
    <3>4. /\ emitted' \in [Tag -> Seq({"OK", "EIO", "EINVAL"})]
          /\ moved' \in [Tag -> SUBSET [page : Page, frame : Page \cup {Poison}]]
      BY <2>2 DEF Status, Move
    <3>5. sent' \subseteq Tag
      BY <1>1, <2>2 DEF SdmaInv, TypeOK
    <3> QED BY <1>1, <2>2, <2>4, <2>5, <3>1, <3>2, <3>3, <3>4, <3>5 DEF TypeOK
  <2>7. ASSUME NEW t \in Tag \ Tags(inflight), takes => t # desc_in.tag,
               Untouched(emitted, moved, t)
        PROVE  Untouched(emitted', moved', t)
    BY <1>6, <2>1, <2>7 DEF Untouched
  <2>8. TagsInv'
    <3>1. takes => desc_in.tag \in (1..tags) \ accepted
      BY <2>3 DEF SdmaInv, TagsInv
    <3>2. accepted' \subseteq 1..tags /\ dropped \subseteq accepted'
      BY <1>1, <1>4, <3>1 DEF SdmaInv, TagsInv
    <3>3. ASSUME NEW t \in dropped PROVE Untouched(emitted', moved', t)
      <4>1. t \in Tag \ Tags(inflight) /\ (takes => t # desc_in.tag)
        BY <1>4, <3>1
      <4> QED BY <2>7, <4>1 DEF SdmaInv, TagsInv
    <3>4. ASSUME NEW t \in (tags + 1)..MaxTag PROVE Untouched(emitted', moved', t)
      <4>1. t \notin 1..tags /\ t \in Tag
        BY <1>4, SizeAssumption
      <4>2. t \notin Tags(inflight) /\ (takes => t # desc_in.tag)
        BY <1>4, <3>1, <4>1 DEF SdmaInv, TagsInv
      <4> QED BY <2>7, <4>1, <4>2 DEF SdmaInv, TagsInv
    <3>5. ASSUME desc_in' # None
          PROVE  /\ desc_in'.tag \in (1..tags) \ accepted'
                 /\ Untouched(emitted', moved', desc_in'.tag)
      <4>1. desc_in' = desc_in /\ ~takes /\ accepted' = accepted /\ desc_in # None
        BY <1>1, <3>5
      <4>2. /\ desc_in.tag \in (1..tags) \ accepted
            /\ Untouched(emitted, moved, desc_in.tag)
        BY <4>1 DEF SdmaInv, TagsInv
      <4>3. desc_in.tag \in Tag \ Tags(inflight)
        BY <1>4, <4>1, <4>2, DescIsEntry, TagsAreTags
      <4> QED BY <2>7, <4>1, <4>2, <4>3
    <3>6. ASSUME NEW i \in DOMAIN ring
          PROVE  /\ ring[i].tag \in (0..tags) \ accepted'
                 /\ desc_in' # None => ring[i].tag # desc_in'.tag
      <4>1. /\ ring[i].tag \in (0..tags) \ accepted
            /\ desc_in # None => ring[i].tag # desc_in.tag
        BY DEF SdmaInv, TagsInv
      <4> QED BY <1>1, <2>3, <4>1
    <3>7. ring' = ring /\ tags' = tags /\ dropped' = dropped
      BY <1>1
    <3> HIDE DEF takes
    <3> QED BY <3>2, <3>3, <3>4, <3>5, <3>6, <3>7 DEF TagsInv, Untouched
  <2>9. Account(emitted, moved, inflight, {}, accepted \ dropped)'
    <3>1. dropped' = dropped
      BY <1>1
    <3> QED BY <1>1, <1>6, <2>1, <3>1 DEF Account, Untouched, Done, Distinct, Tags
  <2> QED BY <2>2, <2>6, <2>8, <2>9 DEF SdmaInv
<1>7. CASE ~takes
  BY <1>1, <1>2, <1>3, <1>7
<1>8. CASE takes
  <2> DEFINE d == desc_in
             A == accepted \ dropped
  <2>1. /\ d # None /\ d \in Desc /\ d \in Entry /\ d.tag \in Tag
        /\ Len(r.kept) < MaxInflight
    BY <1>4, <1>8, DescIsEntry, TagsAreTags DEF Acceptable
  <2>2. d.tag \notin accepted /\ Untouched(emitted, moved, d.tag)
    BY <2>1 DEF SdmaInv, TagsInv
  <2>3. x = Try(r, d, TRUE, AsIs)
    BY <1>3, <1>8
  <2>4. Emits(TRUE, AsIs)
    BY DEF Emits, AsIs, Rc, Status
  <2>5. WorkOK(x) /\ (Waits(r, d, x) \/ Ends(r, d, x))
    BY <1>2, <2>1, <2>3, <2>4, TrySound
  <2>6. d.tag \notin Tags(inflight) /\ d.tag \notin A
    BY <1>4, <2>2
  <2>7. Account(r.emitted, r.moved, r.kept, {d.tag}, A \cup {d.tag})
    <3>1. Untouched(r.emitted, r.moved, d.tag)
      BY <1>2, <2>1, <2>2, <2>6 DEF Untouched
    <3>2. Tags(r.kept) \subseteq A
      BY <1>2 DEF Account
    <3>3. ASSUME NEW t \in (A \cup {d.tag}) \ (Tags(r.kept) \cup {d.tag})
          PROVE  Done(r.emitted, r.moved, t)
      BY <1>2, <3>3 DEF Account
    <3> QED BY <1>2, <2>6, <3>1, <3>2, <3>3 DEF Account
  <2>8. Account(x.emitted, x.moved, x.kept, {d.tag} \ {d.tag}, A \cup {d.tag})
    <3>1. A \cup {d.tag} \subseteq Tag
      BY <1>4, <2>1
    <3> QED BY <1>2, <2>1, <2>5, <2>7, <3>1, AccountTry
  <2>9. /\ {d.tag} \ {d.tag} = {}
        /\ A \cup {d.tag} = accepted' \ dropped
    BY <1>1, <1>4, <1>8, <2>2
  <2>10. Len(x.kept) <= MaxInflight
    <3>1. CASE Waits(r, d, x)
      <4>1. x.kept = Append(r.kept, d) /\ r.kept \in Seq(Desc)
        BY <1>2, <3>1 DEF Waits, WorkOK
      <4>2. Len(x.kept) = Len(r.kept) + 1
        BY <2>1, <4>1, AppendProperties
      <4> QED BY <1>5, <2>1, <4>2
    <3>2. CASE Ends(r, d, x)
      BY <1>2, <3>2 DEF Ends
    <3> QED BY <2>5, <3>1, <3>2
  <2>11. ASSUME NEW t \in Tag \ Tags(inflight), t # d.tag
         PROVE  x.emitted[t] = emitted[t] /\ x.moved[t] = moved[t]
    <3>1. r.emitted[t] = emitted[t] /\ r.moved[t] = moved[t]
      BY <1>2
    <3>2. CASE Waits(r, d, x)
      BY <3>1, <3>2 DEF Waits
    <3>3. CASE Ends(r, d, x)
      <4>1. r.emitted \in [Tag -> Seq(Status)] /\ r.moved \in [Tag -> SUBSET Move]
        BY <1>2 DEF WorkOK
      <4>2. x.emitted[t] = r.emitted[t] /\ x.moved[t] = r.moved[t]
        BY <2>11, <3>3, <4>1 DEF Ends
      <4> QED BY <3>1, <4>2
    <3> QED BY <2>5, <3>2, <3>3
  <2> QED BY <1>8, <2>5, <2>8, <2>9, <2>10, <2>11
<1> QED BY <1>7, <1>8

-----------------------------------------------------------------------------
(* The doorbell runs entries of the ring, whose tags are nobody's else.    *)
LEMMA AnnouncedAreEntries ==
  ASSUME SdmaInv, wptr <= Capacity, NEW n \in 1..Capacity
  PROVE  /\ Announced(n) \in Seq(Entry)
         /\ \A t \in Tags(Announced(n)) : \E i \in DOMAIN ring : t = ring[i].tag
<1> DEFINE count == IF wptr + n <= Capacity THEN n ELSE Capacity - wptr
           s == Announced(n)
<1>1. wptr \in Nat /\ Capacity \in Nat /\ n \in Nat
  BY SizeAssumption DEF SdmaInv, TypeOK
<1>2. count \in Nat /\ \A i \in 1..count : wptr + i - 1 \in 0..(Capacity - 1)
  BY <1>1
<1>3. s = [i \in 1..count |-> RingEntry(ring[wptr + i - 1])]
  BY DEF Announced
<1>4. ring \in [0..(Capacity - 1) -> Desc]
  BY DEF SdmaInv, TypeOK
<1> HIDE DEF count, s
<1>5. ASSUME NEW d \in Desc
      PROVE  RingEntry(d) \in Entry /\ RingEntry(d).tag = d.tag
  <2>1. d \in Entry
    BY DescIsEntry
  <2>2. d.job \in JobRec \cup {None}
    BY <2>1 DEF Entry
  <2>3. ASSUME NEW job \in JobRec PROVE [job EXCEPT !.dir = "D2H"] \in JobRec
    BY DEF JobRec
  <2>4. AsRingJob(d.job) \in JobRec \cup {None}
    <3> DEFINE job == d.job
    <3> HIDE DEF job
    <3>1. job \in JobRec \cup {None}
      BY <2>2 DEF job
    <3>2. AsRingJob(job) \in JobRec \cup {None}
      BY <2>3, <3>1 DEF AsRingJob
    <3> QED BY <3>2 DEF job
  <2> QED BY <2>1, <2>4 DEF RingEntry, Entry
<1>6. ASSUME NEW i \in 1..count
      PROVE  s[i] \in Entry /\ \E k \in DOMAIN ring : s[i].tag = ring[k].tag
  <2>1. wptr + i - 1 \in DOMAIN ring /\ ring[wptr + i - 1] \in Desc
    BY <1>2, <1>4
  <2>2. s[i] = RingEntry(ring[wptr + i - 1])
    BY <1>3
  <2> QED BY <1>5, <2>1, <2>2
<1>7. s \in [1..count -> Entry]
  BY <1>3, <1>6
<1>8. s \in Seq(Entry)
  BY <1>2, <1>7, SeqDef
<1>9. DOMAIN s = 1..count
  BY <1>3
<1> QED BY <1>6, <1>8, <1>9 DEF Tags, s

LEMMA DoorbellKeeps ==
  ASSUME SdmaInv, Doorbell
  PROVE  SdmaInv'
<1>1. PICK n \in 1..Capacity :
        /\ Publish(RunEntries(Work, n))
        /\ done_out' = RunEntries(Work, n).out
        /\ wptr' = wptr + n
  BY DEF Doorbell
<1>2. /\ wptr <= Capacity
      /\ UNCHANGED <<desc_in, inflight, ring_mode, ring, fences, walk, tags,
                     host, accepted, dropped, sent>>
  BY DEF Doorbell
<1> DEFINE s == Announced(n)
           x == RunEntries(Work, n)
<1>3. x = TryAll(Work, s, FALSE, Unwritten)
  BY DEF RunEntries
<1>4. /\ s \in Seq(Entry)
      /\ \A t \in Tags(s) : \E i \in DOMAIN ring : t = ring[i].tag
  BY <1>2, AnnouncedAreEntries
<1>5. Emits(FALSE, Unwritten)
  BY DEF Emits, Unwritten, Rc, Status
<1>6. Publish(x) /\ done_out' = x.out
  BY <1>1
<1> HIDE DEF s, x
<1>7. LoopInv(Work, s, FALSE, x, Len(s))
  BY <1>3, <1>4, <1>5, WorkIsOK, LoopSound
<1>8. WorkOK(x)
  BY <1>7 DEF LoopInv
<1>9. /\ WalkerOK(gmmu)' /\ OneWalk(gmmu)' /\ OwnMoves(gmmu, moved)'
      /\ gmmu' \in Walker /\ emitted' \in [Tag -> Seq(Status)]
      /\ moved' \in [Tag -> SUBSET Move] /\ lost' \subseteq Tag
  BY <1>2, <1>6, <1>8, PublishKeeps
<1>10. TypeOK'
  <2>1. wptr' \in Nat
    BY <1>1, SizeAssumption DEF SdmaInv, TypeOK
  <2>2. done_out' \in Completion \cup {None}
    BY <1>6, <1>8 DEF WorkOK, Status, Completion
  <2>3. /\ emitted' \in [Tag -> Seq({"OK", "EIO", "EINVAL"})]
        /\ moved' \in [Tag -> SUBSET [page : Page, frame : Page \cup {Poison}]]
    BY <1>9 DEF Status, Move
  <2>4. /\ desc_in' \in Desc \cup {None}
        /\ inflight' \in Seq(Desc) /\ Len(inflight') <= MaxInflight
        /\ ring_mode' \in BOOLEAN /\ ring' \in [0..(Capacity - 1) -> Desc]
        /\ fences' \in 0..MaxFence /\ tags' \in 0..MaxTag /\ host' \in 0..MaxHost
        /\ to_mem' \in Seq(Page) /\ mem_in' \in Page \cup {None}
        /\ to_gmmu' \in Seq(Pte) /\ resp_in' \in Pte \cup {None}
        /\ accepted' \subseteq Tag /\ dropped' \subseteq Tag
        /\ sent' \subseteq Tag
    BY <1>2 DEF SdmaInv, TypeOK, walk
  <2> QED BY <1>9, <2>1, <2>2, <2>3, <2>4 DEF TypeOK
<1>11. ASSUME NEW t \in Tag, \A i \in DOMAIN ring : t # ring[i].tag
       PROVE  emitted'[t] = emitted[t] /\ moved'[t] = moved[t]
  <2>1. t \notin Tags(s)
    BY <1>4, <1>11
  <2>2. x.emitted[t] = emitted[t] /\ x.moved[t] = moved[t]
    BY <1>7, <2>1, WorkIsOK DEF LoopInv
  <2> QED BY <1>6, <2>2 DEF Publish
<1>12. /\ tags \in 0..MaxTag /\ accepted \subseteq Tag /\ dropped \subseteq accepted
       /\ desc_in \in Desc \cup {None} /\ Tag = 0..MaxTag
       /\ \A i \in DOMAIN ring :
            /\ ring[i].tag \in (0..tags) \ accepted
            /\ desc_in # None => ring[i].tag # desc_in.tag
  BY DEF SdmaInv, TypeOK, TagsInv, Tag
<1>13. TagsInv'
  <2>1. ASSUME NEW t \in dropped PROVE Untouched(emitted', moved', t)
    <3>1. t \in Tag /\ \A i \in DOMAIN ring : t # ring[i].tag
      BY <1>12
    <3> QED BY <1>11, <3>1 DEF SdmaInv, TagsInv, Untouched
  <2>2. ASSUME NEW t \in (tags + 1)..MaxTag PROVE Untouched(emitted', moved', t)
    <3>1. t \in Tag /\ t \notin 0..tags
      BY <1>12, SizeAssumption
    <3>2. \A i \in DOMAIN ring : t # ring[i].tag
      BY <1>12, <3>1
    <3> QED BY <1>11, <3>1, <3>2 DEF SdmaInv, TagsInv, Untouched
  <2>3. ASSUME desc_in # None PROVE Untouched(emitted', moved', desc_in.tag)
    <3>1. desc_in.tag \in Tag /\ \A i \in DOMAIN ring : desc_in.tag # ring[i].tag
      BY <1>12, <2>3, DescIsEntry, TagsAreTags
    <3> QED BY <1>11, <2>3, <3>1 DEF SdmaInv, TagsInv, Untouched
  <2>4. desc_in # None => desc_in.tag \in (1..tags) \ accepted
    BY DEF SdmaInv, TagsInv
  <2>5. accepted \subseteq 1..tags
    BY DEF SdmaInv, TagsInv
  <2>6. UNCHANGED <<desc_in, ring, tags, accepted, dropped>>
    BY <1>2
  <2> QED BY <1>12, <2>1, <2>2, <2>3, <2>4, <2>5, <2>6 DEF TagsInv, Untouched
<1>14. Account(emitted, moved, inflight, {}, accepted \ dropped)'
  <2>1. ASSUME NEW t \in accepted \ dropped
        PROVE  emitted'[t] = emitted[t] /\ moved'[t] = moved[t]
    <3>1. t \in Tag /\ \A i \in DOMAIN ring : t # ring[i].tag
      BY <1>12
    <3> QED BY <1>11, <3>1
  <2>2. Account(emitted, moved, inflight, {}, accepted \ dropped)
    BY DEF SdmaInv
  <2>3. Account(emitted', moved', inflight, {}, accepted \ dropped)
    <3>1. ASSUME NEW t \in Tags(inflight) PROVE Untouched(emitted', moved', t)
      BY <2>1, <2>2 DEF Account, Untouched
    <3>2. ASSUME NEW t \in (accepted \ dropped) \ Tags(inflight)
          PROVE  Done(emitted', moved', t)
      BY <2>1, <2>2 DEF Account, Done
    <3> QED BY <2>2, <3>1, <3>2 DEF Account
  <2>4. UNCHANGED <<inflight, accepted, dropped>>
    BY <1>2
  <2> QED BY <2>3, <2>4 DEF Account, Untouched, Done, Distinct, Tags
<1> QED BY <1>9, <1>10, <1>13, <1>14 DEF SdmaInv

-----------------------------------------------------------------------------
(* Where completions are: none of a tag that emitted nothing, and that of  *)
(* a tag in A is in one place of done_out, what was sent, what was lost.   *)
Slots(em, out, ls, A) ==
  /\ \A t \in Tag : t \in TagIn(out) \cup sent \cup ls => em[t] # <<>>
  /\ \A t \in A : em[t] # <<>> => t \in TagIn(out) \cup sent \cup ls
  /\ \A t \in A : t \in sent => t \notin TagIn(out) \cup ls
  /\ \A t \in A : t \in TagIn(out) => t \notin ls

SlotsOf(w, A) == Slots(w.emitted, w.out, w.lost, A)

LEMMA SlotsTry ==
  ASSUME NEW w, WorkOK(w), NEW d \in Entry, NEW v, NEW A \in SUBSET Tag,
         SlotsOf(w, A), d.tag \in A => w.emitted[d.tag] = <<>>,
         Waits(w, d, v) \/ Ends(w, d, v)
  PROVE  SlotsOf(v, A)
<1>1. d.tag \in Tag /\ w.emitted \in [Tag -> Seq(Status)]
  BY DEF Entry, WorkOK
<1>2. CASE Waits(w, d, v)
  BY <1>2 DEF Waits, SlotsOf
<1>3. CASE Ends(w, d, v)
  <2>1. PICK x \in Status :
          /\ v.emitted = [w.emitted EXCEPT ![d.tag] = Append(@, x)]
          /\ v.out = [tag |-> d.tag, status |-> x]
          /\ v.lost = w.lost \cup TagIn(w.out)
    BY <1>3 DEF Ends
  <2>2. TagIn(v.out) = {d.tag}
    <3>1. v.out \in Completion
      BY <1>1, <2>1 DEF Completion, Status
    <3> QED BY <2>1, <3>1, SlotAssumption DEF TagIn
  <2>3. ASSUME NEW t \in Tag, t # d.tag PROVE v.emitted[t] = w.emitted[t]
    BY <1>1, <2>1, <2>3
  <2>4. v.emitted[d.tag] # <<>>
    <3>1. w.emitted[d.tag] \in Seq(Status)
      BY <1>1
    <3>2. Append(w.emitted[d.tag], x) # <<>>
      BY <3>1, AppendProperties
    <3> QED BY <1>1, <2>1, <3>2
  <2>5. d.tag \in A => d.tag \notin TagIn(w.out) \cup sent \cup w.lost
    BY <1>1 DEF SlotsOf, Slots
  <2>6. \A t \in Tag : t \in TagIn(v.out) \cup sent \cup v.lost => v.emitted[t] # <<>>
    BY <2>1, <2>2, <2>3, <2>4 DEF SlotsOf, Slots
  <2>7. \A t \in A : v.emitted[t] # <<>> => t \in TagIn(v.out) \cup sent \cup v.lost
    BY <2>1, <2>2, <2>3 DEF SlotsOf, Slots
  <2>8. \A t \in A : t \in sent => t \notin TagIn(v.out) \cup v.lost
    BY <2>1, <2>2, <2>5 DEF SlotsOf, Slots
  <2>9. \A t \in A : t \in TagIn(v.out) => t \notin v.lost
    BY <2>1, <2>2, <2>5
  <2> QED BY <2>6, <2>7, <2>8, <2>9 DEF SlotsOf, Slots
<1> QED BY <1>2, <1>3

(* ... and after trying a sequence of descriptors none of which, in A,     *)
(* comes twice or has emitted anything.                                    *)
LEMMA SlotsLoop ==
  ASSUME NEW w, WorkOK(w), NEW s \in Seq(Entry), NEW mayWait \in BOOLEAN,
         NEW status, Emits(mayWait, status), mayWait => s \in Seq(Desc),
         NEW A \in SUBSET Tag, SlotsOf(w, A),
         \A i \in 1..Len(s) : s[i].tag \in A =>
           /\ w.emitted[s[i].tag] = <<>>
           /\ \A j \in 1..Len(s) : s[i].tag = s[j].tag => i = j
  PROVE  SlotsOf(TryAll(w, s, mayWait, status), A)
<1>0. Len(s) \in Nat /\ DOMAIN s = 1..Len(s)
  BY LenProperties
<1>r. PICK f : Runs(f, w, s, mayWait, status)
  BY <1>0, TryAllLoop
<1>1. /\ f[0] = w
      /\ \A i \in 1..Len(s) : f[i] = Try(f[i - 1], s[i], mayWait, status)
      /\ TryAll(w, s, mayWait, status) = f[Len(s)]
  BY <1>r DEF Runs
<1>2. \A i \in 0..Len(s) : LoopInv(w, s, mayWait, f[i], i)
  BY <1>r, LoopRuns
<1> DEFINE Fresh(i) == \A j \in (i + 1)..Len(s) :
                         s[j].tag \in A => f[i].emitted[s[j].tag] = <<>>
           T == {i \in 0..Len(s) : ~(SlotsOf(f[i], A) /\ Fresh(i))}
<1>3. SUFFICES ASSUME T # {} PROVE FALSE
  <2>1. Len(s) \in 0..Len(s)
    BY <1>0
  <2> QED BY <1>1, <1>3, <2>1
<1>4. T \subseteq Nat
  BY <1>0
<1>5. PICK m \in T : \A k \in T : m <= k
  <2> HIDE DEF T
  <2> QED BY <1>3, <1>4, LeastNat
<1>6. CASE m = 0
  <2>1. Fresh(0)
    BY <1>0, <1>1
  <2> QED BY <1>1, <1>5, <1>6, <2>1
<1>7. CASE m # 0
  <2>1. m \in 1..Len(s) /\ m - 1 \in 0..Len(s) /\ ~(m <= m - 1) /\ m - 1 + 1 = m
    BY <1>0, <1>5, <1>7
  <2>2. SlotsOf(f[m - 1], A) /\ Fresh(m - 1)
    BY <1>5, <2>1
  <2> DEFINE u == f[m - 1]
             v == f[m]
  <2>3. /\ s[m] \in Entry
        /\ Waits(u, s[m], v) \/ Ends(u, s[m], v)
    BY <1>1, <1>2, <2>1, LoopStep
  <2>4. WorkOK(u)
    BY <1>2, <2>1 DEF LoopInv
  <2>5. s[m].tag \in A => u.emitted[s[m].tag] = <<>>
    <3>1. m \in m..Len(s)
      BY <2>1
    <3> QED BY <2>1, <2>2, <3>1
  <2>6. Fresh(m)
    <3> SUFFICES ASSUME NEW j \in (m + 1)..Len(s), s[j].tag \in A
                 PROVE  v.emitted[s[j].tag] = <<>>
      OBVIOUS
    <3>1. j \in m..Len(s) /\ j \in 1..Len(s) /\ j # m
      BY <1>0, <2>1
    <3>2. u.emitted[s[j].tag] = <<>>
      BY <2>1, <2>2, <3>1
    <3>3. s[j].tag # s[m].tag
      BY <2>1, <3>1
    <3>4. u.emitted \in [Tag -> Seq(Status)] /\ s[j].tag \in Tag
      BY <2>4 DEF WorkOK
    <3> HIDE DEF u, v
    <3> QED BY <2>3, <3>2, <3>3, <3>4 DEF Waits, Ends
  <2> HIDE DEF u, v, Fresh
  <2>7. SlotsOf(v, A)
    BY <2>2, <2>3, <2>4, <2>5, SlotsTry DEF u
  <2> QED BY <1>5, <2>6, <2>7 DEF v
<1> QED BY <1>6, <1>7

SlotsInv == Slots(emitted, done_out, lost, accepted)

LEMMA SlotsTick ==
  ASSUME SdmaInv, SlotsInv, SdmaTick
  PROVE  SlotsInv'
<1> DEFINE r == RetryInflight(Work)
           x == HandleDescIn(r)
           takes == Acceptable(r) /\ ~ring_mode
<1>1. /\ emitted' = x.emitted /\ lost' = x.lost /\ done_out' = None
      /\ sent' = sent \cup TagIn(x.out)
      /\ accepted' = IF takes THEN accepted \cup {desc_in.tag} ELSE accepted
  BY DEF SdmaTick, Publish
<1>2. /\ WorkOK(r)
      /\ \A t \in Tag \ Tags(inflight) : r.emitted[t] = emitted[t]
  BY RetryKeeps
<1>3. x = IF takes THEN Try(r, desc_in, TRUE, AsIs) ELSE r
  BY DEF HandleDescIn
<1>4. /\ desc_in \in Desc \cup {None} /\ accepted \in SUBSET Tag
      /\ inflight \in Seq(Desc) /\ Tags(inflight) \subseteq accepted
      /\ Distinct(inflight)
      /\ \A t \in Tags(inflight) : emitted[t] = <<>>
  BY DEF SdmaInv, TypeOK, Account, Untouched
<1>5. SlotsOf(r, accepted)
  <2>1. inflight \in Seq(Entry)
    BY <1>4, DescSeqIsEntrySeq
  <2>2. SlotsOf(Work, accepted)
    BY WorkIsOK DEF SlotsInv, SlotsOf
  <2>3. Emits(TRUE, Retry)
    BY DEF Emits, Retry, Rc, Status
  <2>4. ASSUME NEW i \in 1..Len(inflight)
        PROVE  /\ Work.emitted[inflight[i].tag] = <<>>
               /\ \A j \in 1..Len(inflight) :
                    inflight[i].tag = inflight[j].tag => i = j
    <3>1. DOMAIN inflight = 1..Len(inflight)
      BY <1>4, LenProperties
    <3> QED BY <1>4, <3>1, WorkIsOK DEF Tags, Distinct
  <2>5. r = TryAll(Work, inflight, TRUE, Retry)
    BY DEF RetryInflight
  <2> HIDE DEF r
  <2> QED BY <1>4, <2>1, <2>2, <2>3, <2>4, <2>5, WorkIsOK, SlotsLoop
<1> HIDE DEF r, x
<1>6. SlotsOf(x, accepted')
  <2>1. CASE ~takes
    BY <1>1, <1>3, <1>5, <2>1
  <2>2. CASE takes
    <3> DEFINE d == desc_in
    <3>1. d # None /\ d \in Desc /\ d \in Entry /\ d.tag \in Tag
      BY <1>4, <2>2, DescIsEntry, TagsAreTags DEF Acceptable
    <3>2. d.tag \notin accepted /\ emitted[d.tag] = <<>>
      BY <3>1 DEF SdmaInv, TagsInv, Untouched
    <3>3. r.emitted[d.tag] = <<>>
      BY <1>2, <1>4, <3>1, <3>2
    <3>4. SlotsOf(r, accepted \cup {d.tag})
      BY <1>5, <3>1, <3>3 DEF SlotsOf, Slots
    <3>5. Emits(TRUE, AsIs)
      BY DEF Emits, AsIs, Rc, Status
    <3>6. Waits(r, d, x) \/ Ends(r, d, x)
      BY <1>2, <1>3, <2>2, <3>1, <3>5, TrySound
    <3>7. accepted \cup {d.tag} \in SUBSET Tag
      BY <1>4, <3>1
    <3>8. SlotsOf(x, accepted \cup {d.tag})
      BY <1>2, <3>1, <3>3, <3>4, <3>6, <3>7, SlotsTry
    <3> QED BY <1>1, <2>2, <3>8
  <2> QED BY <2>1, <2>2
<1>7. TagIn(done_out') = {}
  BY <1>1 DEF TagIn
<1> QED BY <1>1, <1>6, <1>7 DEF SlotsInv, SlotsOf, Slots

LEMMA SlotsDoorbell ==
  ASSUME SdmaInv, SlotsInv, Doorbell
  PROVE  SlotsInv'
<1>1. PICK n \in 1..Capacity :
        /\ Publish(RunEntries(Work, n))
        /\ done_out' = RunEntries(Work, n).out
  BY DEF Doorbell
<1>2. wptr <= Capacity /\ UNCHANGED <<accepted, sent>>
  BY DEF Doorbell
<1> DEFINE s == Announced(n)
<1>3. /\ s \in Seq(Entry)
      /\ \A t \in Tags(s) : \E i \in DOMAIN ring : t = ring[i].tag
  BY <1>2, AnnouncedAreEntries
<1>4. accepted \in SUBSET Tag /\ Tags(s) \cap accepted = {}
  BY <1>3 DEF SdmaInv, TypeOK, TagsInv
<1>5. SlotsOf(Work, accepted)
  BY WorkIsOK DEF SlotsInv, SlotsOf
<1>6. Emits(FALSE, Unwritten)
  BY DEF Emits, Unwritten, Rc, Status
<1>7. \A i \in 1..Len(s) : s[i].tag \notin accepted
  <2>1. DOMAIN s = 1..Len(s)
    BY <1>3, LenProperties
  <2> QED BY <1>4, <2>1 DEF Tags
<1> HIDE DEF s
<1>8. SlotsOf(TryAll(Work, s, FALSE, Unwritten), accepted)
  BY <1>3, <1>4, <1>5, <1>6, <1>7, WorkIsOK, SlotsLoop
<1>9. RunEntries(Work, n) = TryAll(Work, s, FALSE, Unwritten)
  BY DEF RunEntries, s
<1> QED BY <1>1, <1>2, <1>8, <1>9 DEF Publish, SlotsInv, SlotsOf, Slots

LEMMA SlotsStep ==
  ASSUME SdmaInv, SlotsInv, [Next]_vars
  PROVE  SlotsInv'
<1>1. CASE UNCHANGED <<done_out, accepted, emitted, sent, lost>>
  BY <1>1 DEF SlotsInv, Slots, TagIn
<1>2. CASE Reset
  <2>1. /\ done_out' = None /\ lost' = lost \cup TagIn(done_out)
        /\ UNCHANGED <<accepted, emitted, sent>>
    BY <1>2 DEF Reset
  <2>2. TagIn(done_out') = {}
    BY <2>1 DEF TagIn
  <2> QED BY <2>1, <2>2 DEF SlotsInv, Slots
<1>3. CASE SdmaTick
  BY <1>3, SlotsTick
<1>4. CASE Doorbell
  BY <1>4, SlotsDoorbell
<1> QED BY <1>1, <1>2, <1>3, <1>4
        DEF Next, vars, Submit, SubmitFence, EnableRing, WriteEntry, SetEnabled,
            GmmuTick, RequestArrives, MemTick, AnswerArrives, engine

-----------------------------------------------------------------------------
LEMMA SdmaInit ==
  ASSUME Init
  PROVE  SdmaInv
<1>1. /\ MaxTag \in Nat /\ MaxInflight \in Nat /\ MaxFence \in Nat
      /\ MaxHost \in Nat /\ Capacity \in Nat
  BY SizeAssumption
<1>2. PoweredUp \in Walker
  <2>1. 0 \in 0..(MaxRetry + 1)
    BY RetryAssumption
  <2> QED BY <2>1 DEF PoweredUp, Walker
<1>3. /\ gmmu \in Walker /\ gmmu.state = "IDLE" /\ gmmu.req = None
  BY <1>2 DEF Init, PoweredUp
<1>4. ring \in [0..(Capacity - 1) -> Desc] /\ \A i \in DOMAIN ring : ring[i].tag = 0
  BY BlankIsDesc DEF Init
<1>5. /\ emitted \in [Tag -> Seq({"OK", "EIO", "EINVAL"})]
      /\ moved \in [Tag -> SUBSET [page : Page, frame : Page \cup {Poison}]]
      /\ \A t \in Tag : Untouched(emitted, moved, t)
  <2>1. <<>> \in Seq({"OK", "EIO", "EINVAL"})
    BY EmptySeq
  <2> QED BY <2>1 DEF Init, Untouched
<1>6. TypeOK
  <2>1. inflight \in Seq(Desc) /\ Len(inflight) = 0
    BY EmptySeq DEF Init
  <2>2. to_mem \in Seq(Page) /\ to_gmmu \in Seq(Pte)
    BY EmptySeq DEF Init
  <2>3. /\ desc_in = None /\ done_out = None /\ ring_mode = FALSE /\ wptr = 0
        /\ fences = 0 /\ mem_in = None /\ resp_in = None /\ tags = 0 /\ host = 0
        /\ accepted = {} /\ dropped = {} /\ sent = {} /\ lost = {}
    BY DEF Init
  <2>4. Len(inflight) <= MaxInflight
    BY <1>1, <2>1
  <2>5. wptr \in Nat /\ fences \in 0..MaxFence /\ tags \in 0..MaxTag
        /\ host \in 0..MaxHost
    BY <1>1, <2>3
  <2>6. ring_mode \in BOOLEAN
    BY <2>3
  <2>7. /\ desc_in \in Desc \cup {None}
        /\ done_out \in Completion \cup {None}
        /\ mem_in \in Page \cup {None} /\ resp_in \in Pte \cup {None}
        /\ accepted \subseteq Tag /\ dropped \subseteq Tag
        /\ sent \subseteq Tag /\ lost \subseteq Tag
    BY <2>3
  <2> QED BY <1>3, <1>4, <1>5, <2>1, <2>2, <2>4, <2>5, <2>6, <2>7 DEF TypeOK
<1>7. WalkerOK(gmmu) /\ OneWalk(gmmu)
  BY <1>3 DEF Init, WalkerOK, OneWalk, Quiet
<1>8. OwnMoves(gmmu, moved)
  BY DEF Init, OwnMoves
<1>9. TagsInv
  <2>1. tags = 0 /\ accepted = {} /\ dropped = {} /\ desc_in = None
    BY DEF Init
  <2>2. (tags + 1)..MaxTag \subseteq Tag
    BY <1>1, <2>1 DEF Tag
  <2> QED BY <1>4, <1>5, <2>1, <2>2 DEF TagsInv
<1>10. Account(emitted, moved, inflight, {}, accepted \ dropped)
  BY DEF Init, Account, Distinct, Tags
<1> QED BY <1>6, <1>7, <1>8, <1>9, <1>10 DEF SdmaInv

LEMMA SdmaStep ==
  ASSUME SdmaInv, [Next]_vars
  PROVE  SdmaInv'
<1>1. CASE SubmitFence
  <2>1. /\ fences < MaxFence /\ fences' = fences + 1
        /\ UNCHANGED <<desc_in, inflight, done_out, ring_mode, ring, wptr, gmmu,
                       walk, tags, host, accepted, dropped, emitted, sent, lost, moved>>
    BY <1>1 DEF SubmitFence
  <2>2. TypeOK'
    <3>1. fences' \in 0..MaxFence
      BY <2>1, SizeAssumption DEF SdmaInv, TypeOK
    <3> QED BY <2>1, <3>1 DEF SdmaInv, TypeOK, walk
  <2>3. WalkerOK(gmmu)' /\ OneWalk(gmmu)'
    BY <2>1, WalkKeeps DEF SdmaInv
  <2>4. OwnMoves(gmmu, moved)'
    BY <2>1 DEF SdmaInv, OwnMoves, OwnMove
  <2>5. TagsInv'
    BY <2>1 DEF SdmaInv, TagsInv, Untouched
  <2>6. Account(emitted, moved, inflight, {}, accepted \ dropped)'
    BY <2>1, AccountOfHistory DEF SdmaInv
  <2> QED BY <2>2, <2>3, <2>4, <2>5, <2>6 DEF SdmaInv
<1>2. CASE UNCHANGED vars
  <2>1. UNCHANGED <<desc_in, inflight, done_out, ring_mode, ring, wptr, fences,
                    gmmu, walk, tags, host, accepted, dropped, emitted, sent, lost, moved>>
    BY <1>2 DEF vars, walk
  <2>2. TypeOK'
    BY <2>1 DEF SdmaInv, TypeOK, walk
  <2>3. WalkerOK(gmmu)' /\ OneWalk(gmmu)'
    BY <2>1, WalkKeeps DEF SdmaInv
  <2>4. OwnMoves(gmmu, moved)'
    BY <2>1 DEF SdmaInv, OwnMoves, OwnMove
  <2>5. TagsInv'
    BY <2>1 DEF SdmaInv, TagsInv, Untouched
  <2>6. Account(emitted, moved, inflight, {}, accepted \ dropped)'
    BY <2>1, AccountOfHistory DEF SdmaInv
  <2> QED BY <2>2, <2>3, <2>4, <2>5, <2>6 DEF SdmaInv
<1>3. CASE SdmaTick
  BY <1>3, SdmaTickKeeps
<1>4. CASE Submit
  BY <1>4, SubmitKeeps
<1>5. CASE EnableRing
  BY <1>5, EnableRingKeeps
<1>6. CASE WriteEntry
  BY <1>6, WriteEntryKeeps
<1>7. CASE Doorbell
  BY <1>7, DoorbellKeeps
<1>8. CASE SetEnabled
  BY <1>8, SetEnabledKeeps
<1>9. CASE Reset
  BY <1>9, ResetKeeps
<1>10. CASE GmmuTick \/ RequestArrives \/ MemTick \/ AnswerArrives
  BY <1>10, PathKeeps
<1> QED BY <1>1, <1>2, <1>3, <1>4, <1>5, <1>6, <1>7, <1>8, <1>9, <1>10 DEF Next

(* SdmaInv is an invariant of the engine.                                  *)
THEOREM SdmaInvariant == Spec => []SdmaInv
<1>1. Init => SdmaInv
  BY SdmaInit
<1>2. SdmaInv /\ [Next]_vars => SdmaInv'
  BY SdmaStep
<1> QED BY <1>1, <1>2, PTL DEF Spec

-----------------------------------------------------------------------------
(* The engine's window, ring, slots and statuses, and the walker's state,  *)
(* keep their types: the window is never overfilled and the retry counter  *)
(* never passes its limit by more than one.                                *)
THEOREM SdmaTyped == Spec => []TypeOK
<1>1. SdmaInv => TypeOK
  BY DEF SdmaInv
<1> QED BY <1>1, SdmaInvariant, PTL

(* Every descriptor taken from desc_in is waiting in inflight_, or was     *)
(* completed by one emit_completion, or was thrown away by a reset; and    *)
(* its completion is in done_out, or was sent once, or was overwritten     *)
(* there.                                                                  *)
THEOREM DescriptorsAccounted == Spec => []EveryDescriptorAccounted
<1>1. SdmaInv /\ SlotsInv => EveryDescriptorAccounted
  <2> SUFFICES ASSUME SdmaInv, SlotsInv, NEW t \in accepted
               PROVE  /\ Len(emitted[t])
                           + Cardinality({i \in DOMAIN inflight : inflight[i].tag = t})
                           + (IF t \in dropped THEN 1 ELSE 0) = 1
                      /\ emitted[t] # <<>> <=> InSlot(t) \/ t \in sent \cup lost
                      /\ t \in sent => ~InSlot(t) /\ t \notin lost
                      /\ InSlot(t) => t \notin lost
    BY DEF EveryDescriptorAccounted
  <2> DEFINE held == {i \in DOMAIN inflight : inflight[i].tag = t}
  <2>1. /\ Account(emitted, moved, inflight, {}, accepted \ dropped)
        /\ \A u \in dropped : Untouched(emitted, moved, u)
    BY DEF SdmaInv, TagsInv
  <2> DEFINE once == Len(emitted[t]) + Cardinality(held)
                       + (IF t \in dropped THEN 1 ELSE 0) = 1
  <2>2. ASSUME t \in Tags(inflight) PROVE once
    <3>1. PICK i \in DOMAIN inflight : inflight[i].tag = t
      BY <2>2 DEF Tags
    <3>2. held = {i}
      BY <2>1, <3>1 DEF Account, Distinct
    <3>3. Cardinality(held) = 1
      BY <3>2, FS_Singleton
    <3>4. emitted[t] = <<>> /\ t \notin dropped
      BY <2>1, <2>2 DEF Account, Untouched
    <3> QED BY <3>3, <3>4
  <2>3. ASSUME t \notin Tags(inflight) PROVE once
    <3>1. held = {}
      BY <2>3 DEF Tags
    <3>2. Cardinality(held) = 0
      BY <3>1, FS_EmptySet
    <3>3. CASE t \in dropped
      <4>1. emitted[t] = <<>>
        BY <2>1, <3>3 DEF Untouched
      <4> QED BY <3>2, <3>3, <4>1
    <3>4. CASE t \notin dropped
      <4>1. PICK x \in Status : emitted[t] = <<x>>
        BY <2>1, <2>3, <3>4 DEF Account, Done
      <4> QED BY <3>2, <3>4, <4>1
    <3> QED BY <3>3, <3>4
  <2>4. t \in Tag
    BY DEF SdmaInv, TypeOK
  <2>5. /\ emitted[t] # <<>> <=> InSlot(t) \/ t \in sent \cup lost
        /\ t \in sent => ~InSlot(t) /\ t \notin lost
        /\ InSlot(t) => t \notin lost
    BY <2>4 DEF SlotsInv, Slots, InSlot
  <2>6. once
    BY <2>2, <2>3
  <2> QED BY <2>5, <2>6
<1>2. Init => SlotsInv
  BY DEF Init, SlotsInv, Slots, TagIn
<1>3. SdmaInv /\ SlotsInv /\ [Next]_vars => SlotsInv'
  BY SlotsStep
<1> QED BY <1>1, <1>2, <1>3, SdmaInvariant, PTL DEF Spec

(* A descriptor of desc_in moves at most once, and only if it completed OK.  *)
THEOREM FailuresMoveNothing == Spec => []FailureMovesNothing
<1>1. SdmaInv => FailureMovesNothing
  <2> SUFFICES ASSUME SdmaInv, NEW t \in accepted
               PROVE  /\ moved[t] # {} => emitted[t] = <<"OK">>
                      /\ Cardinality(moved[t]) <= 1
    BY DEF FailureMovesNothing
  <2>1. Untouched(emitted, moved, t) \/ Done(emitted, moved, t)
    BY DEF SdmaInv, TagsInv, Account
  <2>2. CASE moved[t] = {}
    BY <2>2, FS_EmptySet
  <2>3. CASE moved[t] # {}
    <3>1. emitted[t] = <<"OK">> /\ \E m \in Move : moved[t] = {m}
      BY <2>1, <2>3 DEF Untouched, Done
    <3>2. Cardinality(moved[t]) = 1
      BY <3>1, FS_Singleton
    <3> QED BY <3>1, <3>2
  <2> QED BY <2>2, <2>3
<1> QED BY <1>1, SdmaInvariant, PTL

(* As long as no walk was abandoned, every transfer uses the frame of the  *)
(* page its descriptor names, or the poison frame of a page whose PTE lies *)
(* past the backing, whoever shares the walker.                            *)
THEOREM TransfersUseOwnFrame == Spec => []OwnFrame
<1>1. SdmaInv => OwnFrame
  BY DEF SdmaInv, OwnMoves, OwnMove, OwnFrame
<1> QED BY <1>1, SdmaInvariant, PTL
-----------------------------------------------------------------------------
(* The buses of the SOC.  The slot of the GMMU holds the newest access, so *)
(* that a tick which handles it once more changes nothing the host left.   *)

(* The fields of the records.                                              *)
HubIs ==
  /\ hub = [targets |-> hub.targets, first |-> hub.first, pending |-> hub.pending,
            routed |-> hub.routed, dropped |-> hub.dropped, calls |-> hub.calls]
  /\ hub.first = [cr |-> hub.first.cr, db |-> hub.first.db]
  /\ hub.first.cr \in {"gmmu", "other", NoTarget} /\ hub.first.db \in {"sdma", NoTarget}
  /\ hub.routed \in Nat /\ hub.dropped \in Nat /\ hub.calls \in Nat
  /\ hub.routed + hub.dropped = hub.calls

SlotsIs ==
  /\ DOMAIN slots = {"gmmu", "other", "sdma"}
  /\ slots = [s \in {"gmmu", "other", "sdma"} |-> slots[s]]
  /\ \A s \in {"gmmu", "other", "sdma"} : slots[s] = [valid |-> slots[s].valid, tx |-> slots[s].tx]

(* A slot holds what was posted to it, and only the first stream of its    *)
(* kind is posted to.                                                      *)
Posting ==
  /\ \A s \in {"gmmu", "other"} : s # hub.first.cr => slots[s] = [valid |-> FALSE, tx |-> NoTx]
  /\ hub.first.db = NoTarget => slots["sdma"] = [valid |-> FALSE, tx |-> NoTx]

HubInv == HubIs /\ SlotsIs /\ Posting

LEMMA StreamsAre ==
  /\ DOMAIN Streams = {"cr", "db"}
  /\ Streams["cr"] = {"gmmu", "other"} /\ Streams["db"] = {"sdma"}
  /\ UNION Range(Streams) = {"gmmu", "other", "sdma"}
<1>1. /\ DOMAIN Streams = {"cr", "db"}
      /\ Streams["cr"] = {"gmmu", "other"} /\ Streams["db"] = {"sdma"}
  BY DEF Streams
<1>2. Range(Streams) = {Streams["cr"], Streams["db"]}
  BY <1>1 DEF Range
<1> QED BY <1>1, <1>2

LEMMA RoutedIs ==
  ASSUME HubIs
  PROVE  Routed = [targets |-> hub.targets, first |-> hub.first, pending |-> hub.pending,
                   routed |-> hub.routed + 1, dropped |-> hub.dropped, calls |-> hub.calls + 1]
<1>1. DOMAIN hub = {"targets", "first", "pending", "routed", "dropped", "calls"}
  BY DEF HubIs
<1>2. Routed = [f \in DOMAIN hub |-> Routed[f]]
  BY DEF Routed
<1>3. /\ Routed.targets = hub.targets /\ Routed.first = hub.first /\ Routed.pending = hub.pending
      /\ Routed.routed = hub.routed + 1 /\ Routed.dropped = hub.dropped /\ Routed.calls = hub.calls + 1
  BY <1>1 DEF Routed
<1> QED BY <1>1, <1>2, <1>3

LEMMA DroppedIs ==
  ASSUME HubIs
  PROVE  Dropped = [targets |-> hub.targets, first |-> hub.first, pending |-> hub.pending,
                    routed |-> hub.routed, dropped |-> hub.dropped + 1, calls |-> hub.calls + 1]
<1>1. DOMAIN hub = {"targets", "first", "pending", "routed", "dropped", "calls"}
  BY DEF HubIs
<1>2. Dropped = [f \in DOMAIN hub |-> Dropped[f]]
  BY DEF Dropped
<1>3. /\ Dropped.targets = hub.targets /\ Dropped.first = hub.first /\ Dropped.pending = hub.pending
      /\ Dropped.routed = hub.routed /\ Dropped.dropped = hub.dropped + 1 /\ Dropped.calls = hub.calls + 1
  BY <1>1 DEF Dropped
<1> QED BY <1>1, <1>2, <1>3

LEMMA CountedKeeps ==
  ASSUME HubIs, hub' = Routed \/ hub' = Dropped
  PROVE  HubIs' /\ hub'.first = hub.first /\ hub'.pending = hub.pending
<1>1. CASE hub' = Routed
  BY <1>1, RoutedIs DEF HubIs
<1>2. CASE hub' = Dropped
  BY <1>2, DroppedIs DEF HubIs
<1> QED BY <1>1, <1>2

LEMMA PostedKeeps ==
  ASSUME HubInv, NEW kind \in {"cr", "db"}, NEW tx,
         hub'.first = hub.first, slots' = Posted(kind, tx)
  PROVE  SlotsIs' /\ Posting'
<1>1. CASE hub.first[kind] = NoTarget
  BY <1>1 DEF HubInv, Posted, SlotsIs, Posting
<1>2. CASE hub.first[kind] # NoTarget
  <2> DEFINE t == hub.first[kind]
  <2>1. slots' = [slots EXCEPT ![t] = [valid |-> TRUE, tx |-> tx]]
    BY <1>2 DEF Posted
  <2>2. t \in {"gmmu", "other", "sdma"} /\ (kind = "cr" => t = hub.first.cr)
        /\ (kind = "db" => t = "sdma" /\ hub.first.db = "sdma")
        /\ (kind = "cr" => t # "sdma")
    BY <1>2 DEF HubInv, HubIs
  <2>3. SlotsIs'
    <3>1. DOMAIN slots' = {"gmmu", "other", "sdma"} /\ slots' = [s \in DOMAIN slots |-> slots'[s]]
      BY <2>1 DEF HubInv, SlotsIs
    <3>2. \A s \in {"gmmu", "other", "sdma"} :
            slots'[s] = IF s = t THEN [valid |-> TRUE, tx |-> tx] ELSE slots[s]
      BY <2>1 DEF HubInv, SlotsIs
    <3>3. \A s \in {"gmmu", "other", "sdma"} :
            slots'[s] = [valid |-> slots'[s].valid, tx |-> slots'[s].tx]
      BY <3>2 DEF HubInv, SlotsIs
    <3> QED BY <3>1, <3>3 DEF SlotsIs
  <2>4. Posting'
    BY <2>1, <2>2, <1>2 DEF HubInv, Posting, SlotsIs, NoTarget
  <2> QED BY <2>3, <2>4
<1> QED BY <1>1, <1>2

LEMMA RegisterKeeps ==
  ASSUME HubInv, NEW kind \in DOMAIN Streams, NEW name \in Names, NEW s \in Streams[kind],
         RegisterTarget(kind, name, s)
  PROVE  HubInv' /\ hub'.pending = hub.pending
<1>1. hub' = [targets |-> hub.targets \cup {<<kind, name>>},
              first |-> [hub.first EXCEPT ![kind] = IF @ = NoTarget THEN s ELSE @],
              pending |-> hub.pending, routed |-> hub.routed, dropped |-> hub.dropped,
              calls |-> hub.calls]
  BY DEF HubInv, HubIs, RegisterTarget
<1>2. CASE kind = "cr"
  <2>1. hub'.first = [cr |-> IF hub.first.cr = NoTarget THEN s ELSE hub.first.cr, db |-> hub.first.db]
    BY <1>1, <1>2 DEF HubInv, HubIs
  <2>2. s \in {"gmmu", "other"}
    BY <1>2, StreamsAre
  <2>3. HubIs'
    BY <1>1, <2>1, <2>2 DEF HubInv, HubIs
  <2>4. slots' = slots
    BY DEF RegisterTarget
  <2>5. Posting' /\ SlotsIs'
    BY <2>1, <2>4 DEF HubInv, HubIs, Posting, SlotsIs, NoTarget
  <2> QED BY <1>1, <2>3, <2>5 DEF HubInv
<1>3. CASE kind = "db"
  <2>1. hub'.first = [cr |-> hub.first.cr, db |-> IF hub.first.db = NoTarget THEN s ELSE hub.first.db]
    BY <1>1, <1>3 DEF HubInv, HubIs
  <2>2. s = "sdma"
    BY <1>3, StreamsAre
  <2>3. HubIs'
    BY <1>1, <2>1, <2>2 DEF HubInv, HubIs
  <2>4. slots' = slots
    BY DEF RegisterTarget
  <2>5. Posting' /\ SlotsIs'
    BY <2>1, <2>4 DEF HubInv, HubIs, Posting, SlotsIs, NoTarget
  <2> QED BY <1>1, <2>3, <2>5 DEF HubInv
<1> QED BY <1>2, <1>3, StreamsAre

(* The registers.  Writes and what they leave in a register.               *)
Flits ==
  [src : Nat, dst : Nat, cat : Nat, txn : Nat, write : BOOLEAN, addr : Nat, size : Nat,
   count : Nat, ok : BOOLEAN]

(* What the fabric takes for granted: values and flits are of their types, *)
(* a transaction id is a multiple as wide as a tag, and nobody but the     *)
(* VRAM's adapter answers the SDMA.                                        *)
FabricOk ==
  /\ Values \subseteq Nat
  /\ TagMod \in Nat \ {0} /\ IdMod \in Nat \ {0}
  /\ \A t \in Nat : (t % IdMod) % TagMod = t % TagMod
  /\ Foreign \cup Splits \subseteq Flits
  /\ \A flit \in Foreign : ~(flit.dst = Sdma /\ flit.cat = Response)
  /\ \A a \in Asked : a[2] \in Nat

Accesses ==
  [op : {"write"}, reg : {"lo", "enabled", "none"}, val : Values]
    \cup [op : {"read"}, reg : {"lo", "hi"}]

Writes(tx, r) == tx # NoTx /\ tx.op = "write" /\ tx.reg = r
Left(tx, r) == IF r = "enabled" THEN tx.val % 2 ELSE tx.val

RegistersAre ==
  /\ mmu = [regs |-> mmu.regs, taken |-> mmu.taken]
  /\ mmu.regs \in [Regs -> Nat] /\ mmu.taken \in Accesses \cup {NoTx}
  /\ access = [tx |-> access.tx, last |-> access.last, raced |-> access.raced]
  /\ access.last \in [Regs -> Nat] /\ access.tx \in Accesses \cup {NoTx}
  /\ slots["gmmu"].tx \in Accesses \cup {NoTx}

(* A write in the slot, or one the tick has taken, is the one the board is *)
(* about to handle, or it was the last the board handled.                  *)
SlotIsNewest ==
  \A r \in Regs :
    slots["gmmu"].valid /\ Writes(slots["gmmu"].tx, r) =>
      IF Writes(access.tx, r) THEN slots["gmmu"].tx = access.tx
                              ELSE access.last[r] = Left(slots["gmmu"].tx, r)
TakenIsNewest ==
  \A r \in Regs \ access.raced :
    Writes(mmu.taken, r) =>
      IF Writes(access.tx, r) THEN mmu.taken = access.tx ELSE access.last[r] = Left(mmu.taken, r)
RegistersFollow ==
  \A r \in Regs \ access.raced : ~Writes(access.tx, r) => mmu.regs[r] = access.last[r]

RegInv == RegistersAre /\ SlotIsNewest /\ TakenIsNewest /\ RegistersFollow

LEMMA AccessIs ==
  ASSUME NEW tx \in Accesses
  PROVE  /\ tx # NoTx /\ tx.op \in {"write", "read"}
         /\ tx.op = "write" => tx.val \in Values
<1>1. DOMAIN tx = {"op", "reg", "val"} \/ DOMAIN tx = {"op", "reg"}
  BY DEF Accesses
<1>2. DOMAIN NoTx = {}
  BY DEF NoTx
<1>3. tx # NoTx
  BY <1>1, <1>2
<1> QED BY <1>3 DEF Accesses

LEMMA HandledIs ==
  ASSUME FabricOk, NEW regs \in [Regs -> Nat], NEW tx \in Accesses
  PROVE  /\ Handled(regs, tx) \in [Regs -> Nat]
         /\ \A r \in Regs : Handled(regs, tx)[r] = IF Writes(tx, r) THEN Left(tx, r) ELSE regs[r]
<1>1. CASE tx.op = "write" /\ tx.reg \in Regs
  <2>1. tx.val \in Nat /\ tx.val % 2 \in Nat
    <3>1. tx.val \in Values
      BY <1>1, AccessIs
    <3>2. Values \subseteq Nat
      BY DEF FabricOk
    <3>3. tx.val \in Nat
      BY <3>1, <3>2
    <3> QED BY <3>3
  <2>2. Handled(regs, tx) =
          [regs EXCEPT ![tx.reg] = IF tx.reg = "enabled" THEN tx.val % 2 ELSE tx.val]
    BY <1>1 DEF Handled
  <2> QED BY <1>1, <2>1, <2>2, AccessIs DEF Writes, Left
<1>2. CASE ~(tx.op = "write" /\ tx.reg \in Regs)
  <2>1. Handled(regs, tx) = regs
    BY <1>2 DEF Handled
  <2> QED BY <1>2, <2>1 DEF Writes
<1> QED BY <1>1, <1>2

LEMMA BoardPostsKeeps ==
  ASSUME FabricOk, HubInv, RegInv, NEW tx \in Accesses, BoardPosts(tx)
  PROVE  HubInv' /\ RegInv' /\ hub'.pending = hub.pending
<1>1. /\ access.tx = NoTx /\ mmu' = mmu
      /\ (hub' = Routed \/ hub' = Dropped) /\ slots' = Posted("cr", tx)
  BY DEF BoardPosts, CrWrite, Counted
<1>2. HubInv' /\ hub'.pending = hub.pending
  <2>1. HubIs' /\ hub'.first = hub.first /\ hub'.pending = hub.pending
    BY <1>1, CountedKeeps DEF HubInv
  <2> QED BY <1>1, <2>1, PostedKeeps DEF HubInv
<1> DEFINE hit == mmu.taken # NoTx /\ mmu.taken.op = "write" /\ mmu.taken.reg = tx.reg
<1>3. access' = [tx |-> tx, last |-> access.last,
                 raced |-> IF tx.op = "read" THEN access.raced
                           ELSE IF hit THEN access.raced \cup {tx.reg}
                           ELSE access.raced \ {tx.reg}]
  <2>1. tx.op \in {"write", "read"}
    BY AccessIs
  <2>2. CASE tx.op = "read"
    BY <2>2 DEF BoardPosts, RegInv, RegistersAre
  <2>3. CASE tx.op = "write" /\ hit
    BY <2>3 DEF BoardPosts, RegInv, RegistersAre
  <2>4. CASE tx.op = "write" /\ ~hit
    BY <2>4 DEF BoardPosts, RegInv, RegistersAre
  <2> QED BY <2>1, <2>2, <2>3, <2>4
<1>4. \/ slots'["gmmu"] = [valid |-> TRUE, tx |-> tx]
      \/ slots'["gmmu"] = [valid |-> FALSE, tx |-> NoTx]
  <2>1. CASE hub.first.cr = "gmmu"
    BY <1>1, <2>1 DEF Posted, NoTarget, HubInv, SlotsIs
  <2>2. CASE hub.first.cr # "gmmu"
    <3>1. slots'["gmmu"] = slots["gmmu"]
      BY <1>1, <2>2 DEF Posted, HubInv, SlotsIs
    <3> QED BY <3>1, <2>2 DEF HubInv, Posting
  <2> QED BY <2>1, <2>2
<1>5. RegistersAre'
  BY <1>1, <1>3, <1>4 DEF RegInv, RegistersAre
<1>6. SlotIsNewest'
  BY <1>3, <1>4 DEF SlotIsNewest, Writes
<1>7. \A r \in Regs : ~Writes(access.tx, r)
  BY <1>1 DEF Writes
<1>8. \A r \in Regs \ access'.raced : ~Writes(tx, r) => r \notin access.raced
  BY <1>3, AccessIs DEF Writes
<1>9. TakenIsNewest'
  <2> SUFFICES ASSUME NEW r \in Regs \ access'.raced, Writes(mmu.taken, r)
               PROVE  ~Writes(tx, r) /\ access.last[r] = Left(mmu.taken, r)
    BY <1>1, <1>3 DEF TakenIsNewest
  <2>1. ~Writes(tx, r)
    BY <1>3 DEF Writes
  <2> QED BY <2>1, <1>7, <1>8 DEF RegInv, TakenIsNewest
<1>10. RegistersFollow'
  BY <1>1, <1>3, <1>7, <1>8 DEF RegInv, RegistersFollow
<1> QED BY <1>2, <1>5, <1>6, <1>9, <1>10 DEF RegInv

LEMMA BoardHandlesKeeps ==
  ASSUME FabricOk, HubInv, RegInv, BoardHandles
  PROVE  HubInv' /\ RegInv' /\ hub' = hub
<1>1. /\ access.tx \in Accesses /\ hub' = hub /\ slots' = slots
      /\ mmu' = [regs |-> Handled(mmu.regs, access.tx), taken |-> mmu.taken]
      /\ access' = [tx |-> NoTx, last |-> Handled(access.last, access.tx), raced |-> access.raced]
  BY DEF BoardHandles, RegInv, RegistersAre
<1>2. HubInv'
  BY <1>1 DEF HubInv, HubIs, SlotsIs, Posting
<1>3. /\ mmu'.regs \in [Regs -> Nat] /\ access'.last \in [Regs -> Nat]
      /\ \A r \in Regs :
           /\ mmu'.regs[r] = IF Writes(access.tx, r) THEN Left(access.tx, r) ELSE mmu.regs[r]
           /\ access'.last[r] = IF Writes(access.tx, r) THEN Left(access.tx, r) ELSE access.last[r]
  BY <1>1, HandledIs DEF RegInv, RegistersAre
<1>4. RegistersAre'
  BY <1>1, <1>3 DEF RegInv, RegistersAre
<1>5. \A r \in Regs : ~Writes(access'.tx, r)
  BY <1>1 DEF Writes
<1>6. SlotIsNewest' /\ TakenIsNewest'
  BY <1>1, <1>3, <1>5 DEF RegInv, SlotIsNewest, TakenIsNewest
<1>7. RegistersFollow'
  BY <1>1, <1>3 DEF RegInv, RegistersFollow
<1> QED BY <1>1, <1>2, <1>4, <1>6, <1>7 DEF RegInv

LEMMA TickTakesKeeps ==
  ASSUME HubInv, RegInv, TickTakes
  PROVE  HubInv' /\ RegInv' /\ hub' = hub
<1>1. /\ hub' = hub /\ slots' = slots /\ access' = access /\ slots["gmmu"].valid
      /\ mmu' = [regs |-> mmu.regs, taken |-> slots["gmmu"].tx]
  BY DEF TickTakes, RegInv, RegistersAre
<1>2. HubInv'
  BY <1>1 DEF HubInv, HubIs, SlotsIs, Posting
<1>3. RegistersAre'
  BY <1>1 DEF RegInv, RegistersAre
<1>4. SlotIsNewest' /\ TakenIsNewest' /\ RegistersFollow'
  BY <1>1 DEF RegInv, SlotIsNewest, TakenIsNewest, RegistersFollow
<1> QED BY <1>1, <1>2, <1>3, <1>4 DEF RegInv

LEMMA TickHandlesKeeps ==
  ASSUME FabricOk, HubInv, RegInv, TickHandles
  PROVE  HubInv' /\ RegInv' /\ hub' = hub
<1>1. /\ mmu.taken \in Accesses /\ hub' = hub /\ access' = access
      /\ mmu' = [regs |-> Handled(mmu.regs, mmu.taken), taken |-> NoTx]
      /\ slots' = [slots EXCEPT !["gmmu"].valid = FALSE]
  BY DEF TickHandles, RegInv, RegistersAre
<1>2. \A s \in {"gmmu", "other", "sdma"} :
        slots'[s] = IF s = "gmmu" THEN [valid |-> FALSE, tx |-> slots[s].tx] ELSE slots[s]
  <2>1. /\ slots'["gmmu"] = [slots["gmmu"] EXCEPT !.valid = FALSE]
        /\ \A s \in {"other", "sdma"} : slots'[s] = slots[s]
    BY <1>1 DEF HubInv, SlotsIs
  <2>2. DOMAIN slots["gmmu"] = {"valid", "tx"}
    BY DEF HubInv, SlotsIs
  <2>3. slots'["gmmu"] = [valid |-> FALSE, tx |-> slots["gmmu"].tx]
    BY <2>1, <2>2
  <2> QED BY <2>1, <2>3
<1>3. SlotsIs'
  <2>1. DOMAIN slots' = {"gmmu", "other", "sdma"} /\ slots' = [s \in DOMAIN slots |-> slots'[s]]
    BY <1>1 DEF HubInv, SlotsIs
  <2>2. \A s \in {"gmmu", "other", "sdma"} :
          slots'[s] = [valid |-> slots'[s].valid, tx |-> slots'[s].tx]
    BY <1>2 DEF HubInv, SlotsIs
  <2> QED BY <2>1, <2>2 DEF HubInv, SlotsIs
<1>4. HubInv'
  <2>1. "gmmu" # hub.first.cr => slots'["gmmu"] = [valid |-> FALSE, tx |-> NoTx]
    <3>1. "gmmu" # hub.first.cr => slots["gmmu"].tx = NoTx
      BY DEF HubInv, Posting
    <3>2. slots'["gmmu"] = [valid |-> FALSE, tx |-> slots["gmmu"].tx]
      BY <1>2
    <3> QED BY <3>1, <3>2
  <2>2. "other" # hub.first.cr => slots'["other"] = [valid |-> FALSE, tx |-> NoTx]
    BY <1>2 DEF HubInv, Posting
  <2>3. hub.first.db = NoTarget => slots'["sdma"] = [valid |-> FALSE, tx |-> NoTx]
    BY <1>2 DEF HubInv, Posting
  <2>4. Posting'
    BY <1>1, <2>1, <2>2, <2>3 DEF Posting
  <2> QED BY <1>1, <1>3, <2>4 DEF HubInv, HubIs
<1>5. /\ mmu'.regs \in [Regs -> Nat]
      /\ \A r \in Regs :
           mmu'.regs[r] = IF Writes(mmu.taken, r) THEN Left(mmu.taken, r) ELSE mmu.regs[r]
  BY <1>1, HandledIs DEF RegInv, RegistersAre
<1>6. RegistersAre'
  BY <1>1, <1>2, <1>5 DEF RegInv, RegistersAre
<1>7. SlotIsNewest' /\ TakenIsNewest'
  BY <1>1, <1>2 DEF SlotIsNewest, TakenIsNewest, Writes
<1>8. RegistersFollow'
  BY <1>1, <1>5 DEF RegInv, RegistersFollow, TakenIsNewest
<1> QED BY <1>1, <1>4, <1>6, <1>7, <1>8 DEF RegInv

(* The promises: a future that waits has one, under one identifier.        *)
Outcomes == {"decerr", "slverr", "waiting", "broken", "ok"}
Waiting == {i \in DOMAIN futures : futures[i] = "waiting"}

PromiseInv ==
  /\ futures \in Seq(Outcomes)
  /\ IsFiniteSet(DOMAIN hub.pending)
  /\ hub.pending \in [DOMAIN hub.pending -> 1..Len(futures)]
  /\ \A i \in DOMAIN hub.pending : futures[hub.pending[i]] = "waiting"
  /\ \A k \in 1..Len(futures) :
       futures[k] = "waiting" => \E i \in DOMAIN hub.pending : hub.pending[i] = k
  /\ \A i, j \in DOMAIN hub.pending : hub.pending[i] = hub.pending[j] => i = j

LEMMA PromisesFrame ==
  ASSUME PromiseInv, hub'.pending = hub.pending, futures' = futures
  PROVE  PromiseInv'
BY DEF PromiseInv

LEMMA PromisesHold ==
  ASSUME PromiseInv, HubIs
  PROVE  PromisesKept
<1> DEFINE p == hub.pending
<1>1. {i \in DOMAIN futures : futures[i] = "waiting"} = Range(p)
  BY DEF PromiseInv, Range
<1>2. p \in Bijection(DOMAIN p, Range(p))
  <2>1. p \in [DOMAIN p -> Range(p)]
    BY DEF PromiseInv, Range
  <2>2. \A y \in Range(p) : \E x \in DOMAIN p : p[x] = y
    BY DEF Range
  <2> QED BY <2>1, <2>2 DEF PromiseInv, Bijection, Injection, Surjection, IsInjective
<1>3. Cardinality(Range(p)) = Cardinality(DOMAIN p)
  <2>1. ExistsBijection(DOMAIN p, Range(p))
    BY <1>2 DEF ExistsBijection
  <2> QED BY <2>1, FS_Bijection DEF PromiseInv
<1> QED BY <1>1, <1>3 DEF PromisesKept, HubIs

LEMMA AnsweredAtOnce ==
  ASSUME PromiseInv, NEW o \in Outcomes \ {"waiting"}, hub'.pending = hub.pending,
         futures' = Append(futures, o)
  PROVE  PromiseInv'
<1>1. /\ futures' \in Seq(Outcomes) /\ Len(futures') = Len(futures) + 1 /\ Len(futures) \in Nat
      /\ futures'[Len(futures) + 1] = o
      /\ \A k \in 1..Len(futures) : futures'[k] = futures[k]
  BY DEF PromiseInv
<1> QED BY <1>1 DEF PromiseInv

LEMMA CrReadKeeps ==
  ASSUME HubInv, PromiseInv, NEW id \in Ids, CrRead(id)
  PROVE  /\ HubInv' /\ PromiseInv'
         /\ \/ slots'["gmmu"] = slots["gmmu"]
            \/ slots'["gmmu"] = [valid |-> TRUE, tx |-> [op |-> "read", reg |-> "lo"]]
<1> DEFINE target == hub.first.cr
           mine == Len(futures) + 1
<1>1. ASSUME NEW o \in {"decerr", "slverr"}, futures' = Append(futures, o),
             hub' = Dropped, UNCHANGED slots
      PROVE  HubInv' /\ PromiseInv'
  <2>1. HubIs' /\ hub'.first = hub.first /\ hub'.pending = hub.pending
    BY <1>1, CountedKeeps DEF HubInv
  <2>2. PromiseInv'
    BY <1>1, <2>1, AnsweredAtOnce DEF Outcomes
  <2> QED BY <1>1, <2>1, <2>2 DEF HubInv, SlotsIs, Posting
<1>2. CASE target = NoTarget \/ slots[target].valid
  <2>1. \E o \in {"decerr", "slverr"} :
          futures' = Append(futures, o) /\ hub' = Dropped /\ UNCHANGED slots
    BY <1>2 DEF CrRead
  <2> QED BY <2>1, <1>1
<1>3. CASE target # NoTarget /\ ~slots[target].valid
  <2> DEFINE broken == IF id \in DOMAIN hub.pending
                         THEN [futures EXCEPT ![hub.pending[id]] = "broken"]
                         ELSE futures
             promised == [i \in DOMAIN hub.pending \cup {id} |->
                            IF i = id THEN mine ELSE hub.pending[i]]
  <2>1. /\ slots' = Posted("cr", [op |-> "read", reg |-> "lo"])
        /\ futures' = Append(broken, "waiting")
        /\ hub' = [Routed EXCEPT !.pending = promised]
    <3>1. Routed.pending = hub.pending
      BY RoutedIs DEF HubInv
    <3>2. /\ slots' = Posted("cr", [op |-> "read", reg |-> "lo"])
          /\ futures' = Append(broken, "waiting")
      BY <1>3 DEF CrRead
    <3>3. hub' = [Routed EXCEPT !.pending =
                    [i \in DOMAIN Routed.pending \cup {id} |->
                       IF i = id THEN mine ELSE Routed.pending[i]]]
      BY <1>3 DEF CrRead
    <3> QED BY <3>1, <3>2, <3>3
  <2>2. hub' = [targets |-> hub.targets, first |-> hub.first, pending |-> promised,
                routed |-> hub.routed + 1, dropped |-> hub.dropped, calls |-> hub.calls + 1]
    <3>1. HubIs
      BY DEF HubInv
    <3>2. /\ DOMAIN Routed = {"targets", "first", "pending", "routed", "dropped", "calls"}
          /\ Routed.targets = hub.targets /\ Routed.first = hub.first
          /\ Routed.routed = hub.routed + 1 /\ Routed.dropped = hub.dropped
          /\ Routed.calls = hub.calls + 1
      BY <3>1, RoutedIs
    <3> HIDE DEF promised
    <3> QED BY <2>1, <3>2
  <2>3. HubIs'
    BY <2>2 DEF HubInv, HubIs
  <2>4. SlotsIs' /\ Posting'
    <3>1. hub'.first = hub.first
      BY <2>2
    <3>2. "cr" \in {"cr", "db"}
      OBVIOUS
    <3> QED BY <2>1, <3>1, <3>2, PostedKeeps
  <2>5. /\ broken \in Seq(Outcomes) /\ Len(broken) = Len(futures) /\ Len(futures) \in Nat
        /\ \A k \in 1..Len(futures) :
             broken[k] = IF id \in DOMAIN hub.pending /\ k = hub.pending[id] THEN "broken"
                                                                          ELSE futures[k]
    <3>1. CASE id \in DOMAIN hub.pending
      <4>1. hub.pending[id] \in 1..Len(futures)
        BY <3>1 DEF PromiseInv
      <4> QED BY <3>1, <4>1 DEF PromiseInv, Outcomes
    <3>2. CASE id \notin DOMAIN hub.pending
      BY <3>2 DEF PromiseInv
    <3> QED BY <3>1, <3>2
  <2>6. /\ futures' \in Seq(Outcomes) /\ Len(futures') = mine /\ futures'[mine] = "waiting"
        /\ \A k \in 1..Len(futures) : futures'[k] = broken[k]
    BY <2>1, <2>5 DEF Outcomes
  <2>7. IsFiniteSet(DOMAIN promised)
    BY FS_AddElement DEF PromiseInv
  <2>8. promised \in [DOMAIN promised -> 1..mine]
    BY <2>5 DEF PromiseInv
  <2>9. \A i \in DOMAIN promised : futures'[promised[i]] = "waiting"
    <3> TAKE i \in DOMAIN promised
    <3>1. CASE i = id
      BY <3>1, <2>6
    <3>2. CASE i # id
      <4>1. i \in DOMAIN hub.pending /\ promised[i] = hub.pending[i]
            /\ hub.pending[i] \in 1..Len(futures)
        BY <3>2 DEF PromiseInv
      <4>2. id \in DOMAIN hub.pending => hub.pending[i] # hub.pending[id]
        BY <4>1, <3>2 DEF PromiseInv
      <4> QED BY <4>1, <4>2, <2>5, <2>6 DEF PromiseInv
    <3> QED BY <3>1, <3>2
  <2>10. \A k \in 1..Len(futures') :
           futures'[k] = "waiting" => \E i \in DOMAIN promised : promised[i] = k
    <3> SUFFICES ASSUME NEW k \in 1..mine, futures'[k] = "waiting"
                 PROVE  \E i \in DOMAIN promised : promised[i] = k
      BY <2>6
    <3>1. CASE k = mine
      BY <3>1
    <3>2. CASE k # mine
      <4>1. k \in 1..Len(futures)
        BY <3>2, <2>5
      <4>2. futures[k] = "waiting" /\ ~(id \in DOMAIN hub.pending /\ k = hub.pending[id])
        BY <4>1, <2>5, <2>6
      <4>3. PICK i \in DOMAIN hub.pending : hub.pending[i] = k
        BY <4>1, <4>2 DEF PromiseInv
      <4> QED BY <4>2, <4>3
    <3> QED BY <3>1, <3>2
  <2>11. \A i, j \in DOMAIN promised : promised[i] = promised[j] => i = j
    BY <2>5 DEF PromiseInv
  <2>12. PromiseInv'
    BY <2>2, <2>6, <2>7, <2>8, <2>9, <2>10, <2>11 DEF PromiseInv
  <2>13. \/ slots'["gmmu"] = slots["gmmu"]
         \/ slots'["gmmu"] = [valid |-> TRUE, tx |-> [op |-> "read", reg |-> "lo"]]
    BY <2>1 DEF Posted, HubInv, SlotsIs
  <2> QED BY <2>3, <2>4, <2>12, <2>13 DEF HubInv
<1>4. target = NoTarget \/ slots[target].valid => slots' = slots
  BY DEF CrRead
<1> QED BY <1>2, <1>3, <1>4

LEMMA CompleteCrReadKeeps ==
  ASSUME HubInv, PromiseInv, NEW id \in Ids, CompleteCrRead(id)
  PROVE  HubInv' /\ PromiseInv'
<1> DEFINE left == [i \in DOMAIN hub.pending \ {id} |-> hub.pending[i]]
           k == hub.pending[id]
<1>1. /\ id \in DOMAIN hub.pending /\ slots' = slots
      /\ futures' = [futures EXCEPT ![k] = "ok"]
      /\ hub' = [targets |-> hub.targets, first |-> hub.first, pending |-> left,
                 routed |-> hub.routed, dropped |-> hub.dropped, calls |-> hub.calls]
  BY DEF CompleteCrRead, HubInv, HubIs, Restrict
<1>2. HubInv'
  BY <1>1 DEF HubInv, HubIs, SlotsIs, Posting
<1>3. k \in 1..Len(futures)
  BY <1>1 DEF PromiseInv
<1>4. /\ futures' \in Seq(Outcomes) /\ Len(futures') = Len(futures)
      /\ \A m \in 1..Len(futures) : futures'[m] = IF m = k THEN "ok" ELSE futures[m]
  BY <1>1, <1>3 DEF PromiseInv, Outcomes
<1>5. IsFiniteSet(DOMAIN left)
  BY FS_Subset DEF PromiseInv
<1>6. \A i \in DOMAIN left : hub.pending[i] # k
  BY <1>1 DEF PromiseInv
<1>7. \A m \in 1..Len(futures) : futures[m] = "waiting" /\ m # k => \E i \in DOMAIN left : left[i] = m
  <2> SUFFICES ASSUME NEW m \in 1..Len(futures), futures[m] = "waiting", m # k
               PROVE  \E i \in DOMAIN left : left[i] = m
    OBVIOUS
  <2>1. PICK i \in DOMAIN hub.pending : hub.pending[i] = m
    BY DEF PromiseInv
  <2> QED BY <2>1
<1>8. left \in [DOMAIN left -> 1..Len(futures)]
  BY DEF PromiseInv
<1>9. \A i, j \in DOMAIN left : left[i] = left[j] => i = j
  BY DEF PromiseInv
<1>10. \A i \in DOMAIN left : futures'[left[i]] = "waiting"
  BY <1>4, <1>6, <1>8 DEF PromiseInv
<1> QED BY <1>1, <1>2, <1>4, <1>5, <1>7, <1>8, <1>9, <1>10 DEF PromiseInv

(* The NoC: what waits at the VRAM's adapter answers a flit that came in.  *)
NocIs ==
  /\ noc = [dispatched |-> noc.dispatched, unknown |-> noc.unknown, counts |-> noc.counts,
            wired |-> noc.wired]
  /\ noc.dispatched \in Nat /\ noc.unknown \in Nat /\ noc.counts \in [Channels -> Nat]
  /\ noc.dispatched + noc.unknown = Counts

EndsAre ==
  /\ DOMAIN ends = {"sdma", "vram", "entered"}
  /\ DOMAIN ends.sdma = {"received", "unexpected", "tag", "ok"}
  /\ DOMAIN ends.vram = {"emitted", "wrapped", "response", "beats", "whole"}

Answering ==
  /\ ends.sdma.received > 0 => ends.sdma.tag \in ends.entered
  /\ LET r == ends.vram.response
     IN  r # NoFlit => r.dst = Sdma /\ r.txn \in Nat /\ r.txn % TagMod \in ends.entered

Split == ends.vram.whole # NoFlit => ends.vram.whole \in Splits /\ ends.vram.beats = Beats(ends.vram.whole)

NocInv == NocIs /\ EndsAre /\ ends.sdma.received \in Nat /\ Answering /\ Split

LEMMA LaneIs == ASSUME NEW cat PROVE Lane(cat) \in {0, 1, 2, 3}
BY DEF Lane, Channels, Snoop

LEMMA CountsOne ==
  ASSUME NocIs, NEW c \in {0, 1, 2, 3},
         noc'.counts = [noc.counts EXCEPT ![c] = @ + 1]
  PROVE  noc'.counts \in [Channels -> Nat] /\ Counts' = Counts + 1 /\ Counts \in Nat
BY DEF NocIs, Counts, Channels

(* An answer goes to the SDMA only about a flit that came in.              *)
Answerable(flit) ==
  flit.txn \in Nat /\ (flit.dst = Sdma /\ flit.cat = Response => flit.txn % TagMod \in ends.entered)

LEMMA RouteKeeps ==
  ASSUME FabricOk, NocInv, NEW flit, Answerable(flit), RouteFlit(flit)
  PROVE  NocInv'
<1> DEFINE known == flit.dst \in Pcie..Vram
<1>1. NocIs'
  <2>1. /\ noc'.counts = [noc.counts EXCEPT ![Lane(flit.cat)] = @ + 1]
        /\ noc' = [dispatched |-> IF known THEN noc.dispatched + 1 ELSE noc.dispatched,
                   unknown |-> IF known THEN noc.unknown ELSE noc.unknown + 1,
                   counts |-> [noc.counts EXCEPT ![Lane(flit.cat)] = @ + 1],
                   wired |-> noc.wired]
    <3>1. DOMAIN noc = {"dispatched", "unknown", "counts", "wired"}
      BY DEF NocInv, NocIs
    <3>2. CASE known
      BY <3>1, <3>2 DEF RouteFlit
    <3>3. CASE ~known
      BY <3>1, <3>3 DEF RouteFlit
    <3> QED BY <3>2, <3>3
  <2>2. noc'.counts \in [Channels -> Nat] /\ Counts' = Counts + 1 /\ Counts \in Nat
    BY <2>1, LaneIs, CountsOne DEF NocInv
  <2> QED BY <2>1, <2>2 DEF NocInv, NocIs
<1> USE DEF NocInv
<1>2. CASE ends' = ends
  BY <1>1, <1>2 DEF EndsAre, Answering, Split
<1>3. CASE flit.dst = Sdma /\ ends' = AtSdma(flit)
  <2>1. ends'.vram = ends.vram /\ ends'.entered = ends.entered
        /\ DOMAIN ends' = {"sdma", "vram", "entered"}
    BY <1>3 DEF AtSdma, EndsAre
  <2>2. CASE flit.cat = Response
    <3>1. ends'.sdma = [received |-> ends.sdma.received + 1, unexpected |-> ends.sdma.unexpected,
                        tag |-> flit.txn % TagMod, ok |-> flit.ok]
      BY <1>3, <2>2 DEF AtSdma, EndsAre
    <3>2. flit.txn % TagMod \in ends.entered
      BY <1>3, <2>2 DEF Answerable
    <3> QED BY <1>1, <2>1, <3>1, <3>2 DEF EndsAre, Answering, Split
  <2>3. CASE flit.cat # Response
    <3>1. ends'.sdma = [ends.sdma EXCEPT !.unexpected = @ + 1]
      BY <1>3, <2>3 DEF AtSdma, EndsAre
    <3>2. DOMAIN ends'.sdma = DOMAIN ends.sdma /\ ends'.sdma.received = ends.sdma.received
          /\ ends'.sdma.tag = ends.sdma.tag
      BY <3>1 DEF EndsAre
    <3> QED BY <1>1, <2>1, <3>2 DEF EndsAre, Answering, Split
  <2> QED BY <2>2, <2>3
<1>4. CASE flit.dst = Vram /\ ends' = AtVram(flit)
  <2> DEFINE answer == WrapResponse(FabricRequest(flit))
  <2>1. /\ DOMAIN ends' = {"sdma", "vram", "entered"} /\ ends'.sdma = ends.sdma
        /\ ends'.entered = ends.entered \cup {flit.txn % TagMod}
    BY <1>4 DEF AtVram, EndsAre
  <2>2. /\ DOMAIN ends'.vram = DOMAIN ends.vram /\ ends'.vram.response = answer
        /\ ends'.vram.beats = ends.vram.beats /\ ends'.vram.whole = ends.vram.whole
    BY <1>4 DEF AtVram, EndsAre
  <2>3. answer.dst = Sdma /\ answer.txn = flit.txn % IdMod
    BY DEF WrapResponse, FabricRequest
  <2>4. flit.txn % IdMod \in Nat /\ (flit.txn % IdMod) % TagMod = flit.txn % TagMod
    <3>1. flit.txn \in Nat /\ IdMod \in Nat \ {0}
      BY DEF Answerable, FabricOk
    <3>2. flit.txn % IdMod \in Nat
      BY <3>1
    <3> QED BY <3>1, <3>2 DEF FabricOk
  <2> HIDE DEF answer
  <2>5. Answering'
    BY <2>1, <2>2, <2>3, <2>4 DEF Answering
  <2> QED BY <1>1, <2>1, <2>2, <2>5 DEF EndsAre, Split
<1> QED BY <1>2, <1>3, <1>4 DEF RouteFlit

LEMMA NocStep ==
  ASSUME FabricOk, NocInv, NocNext
  PROVE  NocInv'
<1>1. ASSUME NEW node \in {Sdma, Vram}, SetAcceptFn(node) PROVE NocInv'
  <2>1. /\ ends' = ends /\ noc'.dispatched = noc.dispatched /\ noc'.unknown = noc.unknown
        /\ noc'.counts = noc.counts
        /\ noc' = [dispatched |-> noc.dispatched, unknown |-> noc.unknown, counts |-> noc.counts,
                   wired |-> noc.wired \cup {node}]
    BY <1>1 DEF SetAcceptFn, NocInv, NocIs
  <2> QED BY <2>1 DEF NocInv, NocIs, Counts, EndsAre, Answering, Split
<1>2. ASSUME NEW flit \in Foreign, RouteFlit(flit) PROVE NocInv'
  <2>1. flit.txn \in Nat
    BY DEF FabricOk, Flits
  <2> QED BY <1>2, <2>1, RouteKeeps DEF FabricOk, Answerable
<1>3. ASSUME NEW write \in BOOLEAN, NEW a \in Asked, SendRequest(write, a[1], a[2]) PROVE NocInv'
  <2> DEFINE flit == ToVram(write, 0, a[1], a[2])
  <2>1. flit.txn = a[2] % TagMod /\ flit.dst = Vram
    BY DEF ToVram
  <2>2. a[2] % TagMod \in Nat
    BY DEF FabricOk
  <2>3. Answerable(flit)
    BY <2>1, <2>2 DEF Answerable, Vram, Sdma
  <2> QED BY <1>3, <2>3, RouteKeeps DEF SendRequest
<1>4. ASSUME SendResponse PROVE NocInv'
  <2>1. Answerable(ends.vram.response)
    BY <1>4 DEF SendResponse, NocInv, Answering, Answerable
  <2> QED BY <1>4, <2>1, RouteKeeps DEF SendResponse
<1>5. ASSUME NEW flit \in Splits, EmitMultibeat(flit) PROVE NocInv'
  <2>1. /\ noc' = noc /\ DOMAIN ends' = {"sdma", "vram", "entered"} /\ ends'.sdma = ends.sdma
        /\ ends'.entered = ends.entered
    BY <1>5 DEF EmitMultibeat, NocInv, EndsAre
  <2>2. /\ DOMAIN ends'.vram = DOMAIN ends.vram /\ ends'.vram.response = ends.vram.response
        /\ ends'.vram.beats = Beats(flit) /\ ends'.vram.whole = flit
    BY <1>5 DEF EmitMultibeat, NocInv, EndsAre
  <2>3. Split'
    BY <2>2 DEF Split
  <2> QED BY <2>1, <2>2, <2>3 DEF NocInv, NocIs, Counts, EndsAre, Answering
<1>6. ASSUME NocReset PROVE NocInv'
  <2>1. /\ ends' = ends
        /\ noc' = [dispatched |-> 0, unknown |-> 0, counts |-> [c \in Channels |-> 0],
                   wired |-> noc.wired]
    BY <1>6 DEF NocReset, NocInv, NocIs
  <2>2. NocIs'
    BY <2>1 DEF NocIs, Counts, Channels
  <2> QED BY <2>1, <2>2 DEF NocInv, EndsAre, Answering, Split
<1>7. ASSUME AdapterReset PROVE NocInv'
  <2>1. noc' = noc /\ ends' = NoEnds
    BY <1>7 DEF AdapterReset
  <2>2. EndsAre' /\ ends'.sdma.received = 0 /\ ends'.vram.response = NoFlit /\ ends'.vram.whole = NoFlit
    BY <2>1 DEF EndsAre, NoEnds
  <2> QED BY <2>1, <2>2 DEF NocInv, NocIs, Counts, Answering, Split
<1> QED BY <1>1, <1>2, <1>3, <1>4, <1>5, <1>6, <1>7 DEF NocNext

LEMMA Covered ==
  ASSUME NEW a \in Nat, NEW n \in Nat, NEW x \in a..(a + 32 * n - 1)
  PROVE  \E i \in 1..n, j \in 0..31 : x = a + (i - 1) * 32 + j
<1> DEFINE i == (x - a) \div 32 + 1
           j == (x - a) % 32
<1>1. i \in 1..n /\ j \in 0..31 /\ x = a + (i - 1) * 32 + j
  OBVIOUS
<1> QED BY <1>1

LEMMA BeatsCover ==
  ASSUME NEW flit \in Flits, flit.count \in 2..8
  PROVE  {Beats(flit)[i].addr + j : i \in DOMAIN Beats(flit), j \in 0..31}
           = flit.addr..(flit.addr + 32 * flit.count - 1)
<1> DEFINE n == flit.count
           a == flit.addr
           At(i) == [flit EXCEPT !.addr = @ + (i - 1) * 32, !.size = 32]
           b == Beats(flit)
<1>1. Min({n, 8}) = n
  BY DEF Min
<1>2. DOMAIN b = 1..n /\ \A i \in 1..n : b[i].addr = a + (i - 1) * 32
  <2>1. ~(flit.count <= 1)
    OBVIOUS
  <2>2. b = [i \in 1..Min({n, 8}) |-> FabricRequest(At(i))]
    BY <2>1 DEF Beats
  <2>3. b = [i \in 1..n |-> FabricRequest(At(i))]
    BY <2>2, <1>1
  <2>4. \A i \in 1..n : At(i).addr = a + (i - 1) * 32
    BY DEF Flits
  <2>5. \A i \in 1..n : FabricRequest(At(i)).addr = At(i).addr
    BY DEF FabricRequest
  <2> HIDE DEF b, At
  <2> QED BY <2>3, <2>4, <2>5
<1>3. a \in Nat /\ n \in Nat
  BY DEF Flits
<1> HIDE DEF b, n, a
<1> DEFINE S == {b[i].addr + j : i \in DOMAIN b, j \in 0..31}
           T == a..(a + 32 * n - 1)
<1>4. ASSUME NEW x \in S PROVE x \in T
  <2>1. PICK i \in DOMAIN b, j \in 0..31 : x = b[i].addr + j
    OBVIOUS
  <2>2. i \in 1..n /\ x = a + (i - 1) * 32 + j
    BY <2>1, <1>2
  <2> QED BY <2>2, <1>3
<1>5. ASSUME NEW x \in T PROVE x \in S
  <2>1. PICK i \in 1..n, j \in 0..31 : x = a + (i - 1) * 32 + j
    BY <1>3, Covered
  <2>2. i \in DOMAIN b /\ x = b[i].addr + j
    BY <2>1, <1>2
  <2> QED BY <2>2
<1>6. S = T
  <2> HIDE DEF S, T
  <2> QED BY <1>4, <1>5
<1> QED BY <1>6 DEF b, n, a

LEMMA FlitsCounted ==
  ASSUME FabricOk, NocInv
  PROVE  FlitsAreCounted
<1>1. ends.vram.whole # NoFlit /\ ends.vram.whole.count \in 2..8 =>
        {ends.vram.beats[i].addr + j : i \in DOMAIN ends.vram.beats, j \in 0..31}
          = ends.vram.whole.addr..(ends.vram.whole.addr + 32 * ends.vram.whole.count - 1)
  <2> SUFFICES ASSUME ends.vram.whole # NoFlit, ends.vram.whole.count \in 2..8
               PROVE  {ends.vram.beats[i].addr + j : i \in DOMAIN ends.vram.beats, j \in 0..31}
                        = ends.vram.whole.addr..(ends.vram.whole.addr + 32 * ends.vram.whole.count - 1)
    OBVIOUS
  <2>1. ends.vram.whole \in Flits /\ ends.vram.beats = Beats(ends.vram.whole)
    BY DEF NocInv, Split, FabricOk
  <2> QED BY <2>1, BeatsCover
<1> QED BY <1>1 DEF FlitsAreCounted, NocInv, NocIs, Answering

(* The mesh.                                                               *)
MeshInv ==
  /\ mesh = [dim |-> mesh.dim, hop |-> mesh.hop, bytes |-> mesh.bytes, latency |-> mesh.latency]
  /\ mesh.dim \in Nat /\ mesh.hop \in Nat

LEMMA LongestRoute ==
  ASSUME MeshInv
  PROVE  CopyTakesTheLongestRoute
<1> SUFFICES ASSUME NEW x \in 0..(mesh.dim - 1), NEW y \in 0..(mesh.dim - 1),
                    NEW u \in 0..(mesh.dim - 1), NEW v \in 0..(mesh.dim - 1)
             PROVE  RouteLatency(<<x, y>>, <<u, v>>) <= RouteLatency(<<0, 0>>, Corner)
  BY DEF CopyTakesTheLongestRoute
<1> DEFINE d == mesh.dim - 1
<1>1. mesh.dim > 0 /\ d \in Nat /\ Corner = <<d, d>>
  BY DEF MeshInv, Corner
<1>2. /\ Distance(x, u) \in 0..d /\ Distance(y, v) \in 0..d
      /\ Distance(0, d) = d
  BY <1>1 DEF Distance
<1>3. \A m, n, h \in Nat : m <= n => m * h <= n * h
  OBVIOUS
<1>4. (Distance(x, u) + Distance(y, v)) * mesh.hop <= (d + d) * mesh.hop
  BY <1>1, <1>2, <1>3 DEF MeshInv
<1> HIDE DEF d
<1> QED BY <1>1, <1>2, <1>4 DEF RouteLatency

LEMMA MeshStep == MeshInv /\ MeshNext => MeshInv'
<1>1. ASSUME MeshInv, NEW dim \in 0..MaxDim, NEW hop \in 1..2, SetMesh(dim, hop) PROVE MeshInv'
  <2>1. mesh' = [dim |-> dim, hop |-> hop, bytes |-> mesh.bytes, latency |-> mesh.latency]
    BY <1>1 DEF MeshInv, SetMesh
  <2> QED BY <2>1 DEF MeshInv
<1>2. ASSUME MeshInv, NEW len \in 0..1, D2dForwardPayload(len) PROVE MeshInv'
  BY <1>2 DEF MeshInv, D2dForwardPayload
<1> QED BY <1>1, <1>2 DEF MeshNext

(* All together.                                                           *)
FabricInv == HubInv /\ RegInv /\ PromiseInv /\ NocInv /\ MeshInv

LEMMA FabricInitInv == FabricInit => FabricInv
<1> SUFFICES ASSUME FabricInit PROVE FabricInv
  OBVIOUS
<1>1. slots = [s \in {"gmmu", "other", "sdma"} |-> [valid |-> FALSE, tx |-> NoTx]]
  BY StreamsAre DEF FabricInit
<1>2. HubInv
  <2>1. HubIs
    BY DEF FabricInit, HubIs
  <2>2. SlotsIs /\ Posting
    BY <1>1 DEF SlotsIs, Posting
  <2> QED BY <2>1, <2>2 DEF HubInv
<1>3. RegInv
  <2>1. RegistersAre
    <3>1. mmu = [regs |-> [r \in Regs |-> 0], taken |-> NoTx]
          /\ access = [tx |-> NoTx, last |-> [r \in Regs |-> 0], raced |-> {}]
      BY DEF FabricInit
    <3>2. slots["gmmu"].tx = NoTx
      BY <1>1
    <3> QED BY <3>1, <3>2 DEF RegistersAre
  <2>2. \A r \in Regs : ~Writes(mmu.taken, r) /\ mmu.regs[r] = access.last[r]
    BY DEF FabricInit, Writes
  <2> QED BY <1>1, <2>1, <2>2 DEF RegInv, SlotIsNewest, TakenIsNewest, RegistersFollow
<1>4. PromiseInv
  <2>1. futures = << >> /\ hub.pending = << >>
    BY DEF FabricInit
  <2>2. DOMAIN hub.pending = {} /\ Len(futures) = 0
    BY <2>1
  <2>3. hub.pending \in [DOMAIN hub.pending -> 1..Len(futures)] /\ futures \in Seq(Outcomes)
    BY <2>1, <2>2
  <2> QED BY <2>2, <2>3, FS_EmptySet DEF PromiseInv
<1>5. NocInv
  <2>1. NocIs
    <3>1. noc = [dispatched |-> 0, unknown |-> 0, counts |-> [c \in Channels |-> 0], wired |-> {}]
      BY DEF FabricInit
    <3> QED BY <3>1 DEF NocIs, Counts, Channels
  <2>2. EndsAre /\ ends.sdma.received = 0 /\ ends.vram.response = NoFlit /\ ends.vram.whole = NoFlit
    BY DEF FabricInit, NoEnds, EndsAre
  <2> QED BY <2>1, <2>2 DEF NocInv, Answering, Split
<1>6. MeshInv
  BY DEF FabricInit, MeshInv
<1> QED BY <1>2, <1>3, <1>4, <1>5, <1>6 DEF FabricInv

(* An access the GMMU does not see as a write leaves its registers alone.  *)
LEMMA RegistersFrame ==
  ASSUME RegInv, mmu' = mmu, access' = access,
         \/ slots'["gmmu"] = slots["gmmu"]
         \/ slots'["gmmu"] = [valid |-> TRUE, tx |-> [op |-> "read", reg |-> "lo"]]
  PROVE  RegInv'
<1>1. CASE slots'["gmmu"] = slots["gmmu"]
  BY <1>1 DEF RegInv, RegistersAre, SlotIsNewest, TakenIsNewest, RegistersFollow
<1>2. CASE slots'["gmmu"] = [valid |-> TRUE, tx |-> [op |-> "read", reg |-> "lo"]]
  <2>1. slots'["gmmu"].tx \in Accesses /\ \A r : ~Writes(slots'["gmmu"].tx, r)
    BY <1>2 DEF Accesses, Writes
  <2> QED BY <2>1 DEF RegInv, RegistersAre, SlotIsNewest, TakenIsNewest, RegistersFollow
<1> QED BY <1>1, <1>2

LEMMA BusStep ==
  ASSUME FabricOk, HubInv, RegInv, PromiseInv, BusNext
  PROVE  HubInv' /\ RegInv' /\ PromiseInv' /\ UNCHANGED nocVars
<1>1. ASSUME NEW kind \in DOMAIN Streams, NEW name \in Names, NEW s \in Streams[kind],
             RegisterTarget(kind, name, s)
      PROVE  HubInv' /\ RegInv' /\ PromiseInv' /\ UNCHANGED nocVars
  <2>1. HubInv' /\ hub'.pending = hub.pending
    BY <1>1, RegisterKeeps
  <2>2. UNCHANGED <<slots, futures, mmu, access, nocVars>>
    BY <1>1 DEF RegisterTarget
  <2> QED BY <2>1, <2>2, RegistersFrame, PromisesFrame
<1>2. ASSUME NEW id \in Ids, CrRead(id)
      PROVE  HubInv' /\ RegInv' /\ PromiseInv' /\ UNCHANGED nocVars
  <2>1. UNCHANGED <<mmu, access, nocVars>>
    BY <1>2 DEF CrRead
  <2> QED BY <1>2, <2>1, CrReadKeeps, RegistersFrame
<1>3. ASSUME NEW id \in Ids, CompleteCrRead(id)
      PROVE  HubInv' /\ RegInv' /\ PromiseInv' /\ UNCHANGED nocVars
  <2>1. UNCHANGED <<slots, mmu, access, nocVars>>
    BY <1>3 DEF CompleteCrRead
  <2> QED BY <1>3, <2>1, CompleteCrReadKeeps, RegistersFrame
<1>4. ASSUME NEW tx \in Accesses, BoardPosts(tx)
      PROVE  HubInv' /\ RegInv' /\ PromiseInv' /\ UNCHANGED nocVars
  <2>1. UNCHANGED <<futures, nocVars>>
    BY <1>4 DEF BoardPosts
  <2> QED BY <1>4, <2>1, BoardPostsKeeps, PromisesFrame
<1>5. ASSUME NEW v \in Values, NEW r \in {"lo", "enabled", "none"}, BoardWrites(r, v)
      PROVE  HubInv' /\ RegInv' /\ PromiseInv' /\ UNCHANGED nocVars
  <2>1. [op |-> "write", reg |-> r, val |-> v] \in Accesses
    BY DEF Accesses
  <2> QED BY <1>4, <1>5, <2>1 DEF BoardWrites
<1>6. ASSUME BoardReads("hi")
      PROVE  HubInv' /\ RegInv' /\ PromiseInv' /\ UNCHANGED nocVars
  <2>1. [op |-> "read", reg |-> "hi"] \in Accesses
    BY DEF Accesses
  <2> QED BY <1>4, <1>6, <2>1 DEF BoardReads
<1>7. ASSUME DoorbellWrite
      PROVE  HubInv' /\ RegInv' /\ PromiseInv' /\ UNCHANGED nocVars
  <2>1. /\ hub' = Routed \/ hub' = Dropped
        /\ slots' = Posted("db", [op |-> "write", reg |-> "wptr"])
        /\ UNCHANGED <<futures, mmu, access, nocVars>>
    BY <1>7 DEF DoorbellWrite, Counted
  <2>2. HubIs' /\ hub'.first = hub.first /\ hub'.pending = hub.pending
    BY <2>1, CountedKeeps DEF HubInv
  <2>3. "db" \in {"cr", "db"}
    OBVIOUS
  <2>4. SlotsIs' /\ Posting'
    BY <2>1, <2>2, <2>3, PostedKeeps
  <2>5. slots'["gmmu"] = slots["gmmu"]
    <3>1. hub.first["db"] \in {"sdma", NoTarget}
      BY DEF HubInv, HubIs
    <3> QED BY <2>1, <3>1 DEF Posted, HubInv, SlotsIs
  <2> QED BY <2>1, <2>2, <2>4, <2>5, RegistersFrame, PromisesFrame DEF HubInv
<1>8. ASSUME BoardHandles \/ TickTakes \/ TickHandles
      PROVE  HubInv' /\ RegInv' /\ PromiseInv' /\ UNCHANGED nocVars
  <2>1. HubInv' /\ RegInv' /\ hub' = hub
    BY <1>8, BoardHandlesKeeps, TickTakesKeeps, TickHandlesKeeps
  <2>2. UNCHANGED <<futures, nocVars>>
    BY <1>8 DEF BoardHandles, TickTakes, TickHandles
  <2> QED BY <2>1, <2>2, PromisesFrame
<1> QED BY <1>1, <1>2, <1>3, <1>5, <1>6, <1>7, <1>8 DEF BusNext

LEMMA FabricStep ==
  ASSUME FabricOk, FabricInv, [BusNext \/ NocNext \/ MeshNext]_fabricVars
  PROVE  FabricInv'
<1> USE DEF FabricInv
<1>1. ASSUME UNCHANGED busVars PROVE HubInv' /\ RegInv' /\ PromiseInv'
  <2>1. UNCHANGED <<hub, slots, futures, mmu, access>>
    BY <1>1 DEF busVars
  <2>2. HubInv'
    BY <2>1 DEF HubInv, HubIs, SlotsIs, Posting
  <2> QED BY <2>1, <2>2, RegistersFrame, PromisesFrame
<1>2. ASSUME UNCHANGED <<noc, ends>> PROVE NocInv'
  BY <1>2 DEF NocInv, NocIs, Counts, EndsAre, Answering, Split
<1>3. ASSUME UNCHANGED mesh PROVE MeshInv'
  BY <1>3 DEF MeshInv
<1>4. CASE BusNext
  BY <1>2, <1>3, <1>4, BusStep DEF nocVars
<1>5. CASE NocNext
  <2>1. UNCHANGED <<mesh, busVars>>
    BY <1>5 DEF NocNext, SetAcceptFn, RouteFlit, SendRequest, SendResponse, EmitMultibeat,
                NocReset, AdapterReset
  <2> QED BY <1>1, <1>3, <1>5, <2>1, NocStep
<1>6. CASE MeshNext
  <2>1. UNCHANGED <<noc, ends, busVars>>
    BY <1>6 DEF MeshNext, SetMesh, D2dForwardPayload
  <2> QED BY <1>1, <1>2, <1>6, <2>1, MeshStep
<1>7. CASE UNCHANGED fabricVars
  <2>1. UNCHANGED <<busVars, noc, ends, mesh>>
    BY <1>7 DEF fabricVars, busVars
  <2> QED BY <1>1, <1>2, <1>3, <2>1
<1> QED BY <1>4, <1>5, <1>6, <1>7

LEMMA OneServed ==
  ASSUME HubInv
  PROVE  OneTargetIsServed
<1> SUFFICES ASSUME NEW kind \in {"cr", "db"}
             PROVE  Cardinality({s \in Streams[kind] : slots[s].tx # NoTx}) <= 1
  BY StreamsAre DEF OneTargetIsServed
<1> DEFINE S == {s \in Streams[kind] : slots[s].tx # NoTx}
<1>1. S \subseteq {hub.first[kind]}
  <2>1. CASE kind = "cr"
    <3>1. \A s \in {"gmmu", "other"} : s # hub.first.cr => slots[s].tx = NoTx
      BY DEF HubInv, Posting
    <3> QED BY <2>1, <3>1, StreamsAre
  <2>2. CASE kind = "db"
    <3>1. hub.first.db = "sdma" \/ slots["sdma"].tx = NoTx
      BY DEF HubInv, HubIs, Posting
    <3> QED BY <2>2, <3>1, StreamsAre
  <2> QED BY <2>1, <2>2
<1>2. IsFiniteSet({hub.first[kind]}) /\ Cardinality({hub.first[kind]}) = 1
  BY FS_Singleton
<1>3. Cardinality(S) <= Cardinality({hub.first[kind]})
  BY <1>1, <1>2, FS_Subset
<1> QED BY <1>2, <1>3

(* A register of the GMMU holds what the host wrote last, unless a tick    *)
(* came between; every read that waits has its promise; one target is      *)
(* served; flits are counted and answered; a copy takes the longest route. *)
THEOREM FabricStaysSound ==
  ASSUME FabricOk
  PROVE  FabricSpec => []FabricSound
<1>1. FabricInv => FabricSound
  <2> SUFFICES ASSUME FabricInv PROVE FabricSound
    OBVIOUS
  <2>1. RegistersFollowTheHost
    BY DEF FabricInv, RegInv, RegistersFollow, RegistersFollowTheHost, Writes
  <2>2. PromisesKept /\ OneTargetIsServed /\ FlitsAreCounted /\ CopyTakesTheLongestRoute
    BY PromisesHold, OneServed, FlitsCounted, LongestRoute DEF FabricInv, HubInv
  <2> QED BY <2>1, <2>2 DEF FabricSound
<1>2. FabricInv /\ [BusNext \/ NocNext \/ MeshNext]_fabricVars => FabricInv'
  BY FabricStep
<1> QED
  BY <1>1, <1>2, FabricInitInv, PTL DEF FabricSpec
=============================================================================
