------------------------------- MODULE Trackers -------------------------------
(***************************************************************************)
(* TransactionTracker keeps a record of every transaction, links parents   *)
(* to children and completes a parent with its last child.  A record has a *)
(* pointer to the payload, whose context has the hops as well; a payload   *)
(* goes back to the pool and is used again, and the record keeps it.       *)
(***************************************************************************)
EXTENDS Integers, FiniteSets, Sequences, SequencesExt, TLAPS

CONSTANTS
  Payloads,   \* payloads of the pool
  MaxId,      \* bound: transactions created
  MaxLinks    \* bound: links to a child

VARIABLES
  ready,      \* initialized_ of the TransactionTracker
  next,       \* next_transaction_id_
  txns,       \* transactions_
  context,    \* payload -> its TransactionContextExt, none without one
  late        \* history: transactions that were complete otherwise than by complete_transaction,
              \* or before they were linked, or that were linked twice

trackVars == <<ready, next, txns, context, late>>

None == << >>
NoPayload == "none"
NoTxns == [t \in {} |-> 0]

TrackInit ==
  /\ ready = FALSE /\ next = 1
  /\ txns = NoTxns
  /\ context = [p \in Payloads |-> None]
  /\ late = {}

Children(t) == ToSet(txns[t].children)

-----------------------------------------------------------------------------
(* Contexts outlive the records: their ids may then be another record's.   *)
Outlived == [p \in Payloads |-> IF context[p] = None THEN None ELSE [context[p] EXCEPT !.old = TRUE]]

(* Only the first call clears, and it does not restart the ids.            *)
Initialize ==
  /\ ~ready /\ ready' = TRUE
  /\ txns' = NoTxns
  /\ context' = Outlived
  /\ UNCHANGED <<next, late>>

Create(p) ==
  /\ next <= MaxId
  /\ txns' = [t \in DOMAIN txns \cup {next} |->
                IF t = next
                THEN [parent |-> 0, children |-> << >>, done |-> FALSE, payload |-> p]
                ELSE txns[t]]
  /\ context' = IF p = NoPayload THEN context
                ELSE [context EXCEPT ![p] = [id |-> next, foreign |-> FALSE, old |-> FALSE]]
  /\ next' = next + 1
  /\ UNCHANGED <<ready, late>>

(* The hop goes to the record, and to whatever transaction the payload     *)
(* carries by now.                                                         *)
RecordHop(t) ==
  /\ t \in DOMAIN txns
  /\ LET p == txns[t].payload
     IN  /\ p # NoPayload /\ context[p] # None
         /\ context' = [context EXCEPT ![p].foreign = @ \/ context[p].id # t]
  /\ UNCHANGED <<ready, next, txns, late>>

Ended(ts, t) == [ts EXCEPT ![t].done = TRUE]

(* check_parent_completion, of the parent only: not of the parent's own.   *)
ParentEnds(ts, t) ==
  LET p == ts[t].parent
  IN  p # 0 /\ p \in DOMAIN ts /\ \A c \in ToSet(ts[p].children) : c \in DOMAIN ts => ts[c].done

Complete(t) ==
  /\ t \in DOMAIN txns
  /\ LET ts == Ended(txns, t)
         up == ParentEnds(ts, t)
     IN  /\ txns' = IF up THEN Ended(ts, ts[t].parent) ELSE ts
         /\ late' = IF up THEN late \cup {ts[t].parent} ELSE late
  /\ UNCHANGED <<ready, next, context>>

Link(p, c) ==
  /\ {p, c} \subseteq DOMAIN txns
  /\ Cardinality(UNION {{t} \X DOMAIN txns[t].children : t \in DOMAIN txns}) < MaxLinks
  /\ LET child == [txns EXCEPT ![c].parent = p]
     IN  txns' = [child EXCEPT ![p].children = Append(@, c)]
  /\ late' = IF txns[c].done \/ txns[c].parent # 0 THEN late \cup {c} ELSE late
  /\ UNCHANGED <<ready, next, context>>

(* The ids start again; contexts that are under way keep theirs.           *)
ResetForTesting ==
  /\ ready' = FALSE /\ next' = 1
  /\ txns' = NoTxns /\ late' = {}
  /\ context' = Outlived

(* The pool takes the payload back and clears its extensions.              *)
Recycle(p) ==
  /\ context[p] # None
  /\ context' = [context EXCEPT ![p] = None]
  /\ UNCHANGED <<ready, next, txns, late>>

TrackNext ==
  \/ Initialize \/ ResetForTesting
  \/ \E p \in Payloads \cup {NoPayload} : Create(p)
  \/ \E t \in 1..MaxId : RecordHop(t) \/ Complete(t)
  \/ \E p, c \in 1..MaxId : Link(p, c)
  \/ \E p \in Payloads : Recycle(p)

TrackSpec == TrackInit /\ [][TrackNext]_trackVars
-----------------------------------------------------------------------------
(* A parent waits for a child that is not complete, unless its last child  *)
(* was complete before it was linked, was linked to another as well, or    *)
(* was completed by children of its own.                                   *)
ParentsEndWithChildren ==
  \A p \in DOMAIN txns :
    ~txns[p].done /\ Children(p) # {} =>
      \E c \in Children(p) : ~txns[c].done \/ c \in late

(* A context has a hop of another transaction only where a record still    *)
(* points to a payload that went back to the pool and was used again.      *)
ForeignHopsAreStale ==
  \A p \in Payloads : context[p] # None /\ context[p].foreign /\ ~context[p].old =>
    \E t \in DOMAIN txns : txns[t].payload = p /\ t < context[p].id

TrackersSound == ParentsEndWithChildren /\ ForeignHopsAreStale
-----------------------------------------------------------------------------
(* Proofs.  Records are numbered below next; a child that is not in late   *)
(* was linked once, so its parent is the one whose child it is; and of the *)
(* records of a payload none is newer than the context the payload has.    *)
Records ==
  [parent : Nat, children : Seq(Nat), done : BOOLEAN, payload : Payloads \cup {NoPayload}]
Contexts == [id : Nat, foreign : BOOLEAN, old : BOOLEAN]

Typed ==
  /\ next \in Nat \ {0}
  /\ DOMAIN txns \subseteq {t \in Nat : 0 < t /\ t < next}
  /\ txns \in [DOMAIN txns -> Records]
  /\ context \in [Payloads -> Contexts \cup {None}]

ChildrenKnowParents ==
  \A p \in DOMAIN txns : \A c \in Children(p) :
    c \in DOMAIN txns /\ (c \notin late => txns[c].parent = p)

NewestHasContext ==
  \A t \in DOMAIN txns : \A p \in Payloads :
    txns[t].payload = p /\ context[p] # None /\ ~context[p].old => t <= context[p].id

TrackInv ==
  Typed /\ ChildrenKnowParents /\ NewestHasContext /\ ParentsEndWithChildren /\ ForeignHopsAreStale

LEMMA NoneIs == None \notin Contexts
<1>1. "id" \notin DOMAIN None
  BY DEF None
<1>2. \A x \in Contexts : "id" \in DOMAIN x
  BY DEF Contexts
<1> QED BY <1>1, <1>2

LEMMA TrackInitInv == TrackInit => TrackInv
<1> SUFFICES ASSUME TrackInit PROVE TrackInv
  OBVIOUS
<1>1. DOMAIN txns = {} /\ txns \in [DOMAIN txns -> Records]
  BY DEF TrackInit, NoTxns
<1>2. \A p \in Payloads : context[p] = None
  BY DEF TrackInit
<1> QED
  BY <1>1, <1>2 DEF TrackInit, TrackInv, Typed, ChildrenKnowParents, NewestHasContext,
                    ParentsEndWithChildren, ForeignHopsAreStale

(* Initialize and reset: no record, and contexts that are all old.         *)
LEMMA ClearedKeeps ==
  ASSUME TrackInv, txns' = NoTxns, context' = Outlived, next' \in Nat \ {0}
  PROVE  TrackInv'
<1>1. DOMAIN txns' = {} /\ txns' \in [DOMAIN txns' -> Records]
  BY DEF NoTxns
<1>2. ASSUME NEW p \in Payloads
      PROVE  /\ context'[p] \in Contexts \cup {None}
             /\ context'[p] # None => context'[p].old
  <2>1. context'[p] = IF context[p] = None THEN None ELSE [context[p] EXCEPT !.old = TRUE]
    BY DEF Outlived
  <2>2. CASE context[p] = None
    BY <2>1, <2>2
  <2>3. CASE context[p] # None
    <3>1. context[p] \in Contexts
      BY <2>3 DEF TrackInv, Typed
    <3> QED BY <3>1, <2>1, <2>3 DEF Contexts
  <2> QED BY <2>2, <2>3
<1>3. context' \in [Payloads -> Contexts \cup {None}]
  BY <1>2 DEF Outlived
<1> QED
  BY <1>1, <1>2, <1>3 DEF TrackInv, Typed, ChildrenKnowParents, NewestHasContext,
                          ParentsEndWithChildren, ForeignHopsAreStale

(* A step that leaves the records alone.                                   *)
LEMMA ContextKeeps ==
  ASSUME TrackInv, UNCHANGED <<next, txns, late>>, NEW p \in Payloads, NEW x,
         context' = [context EXCEPT ![p] = x], x \in Contexts \cup {None},
         x # None => /\ context[p] # None /\ x.id = context[p].id /\ x.old = context[p].old
                     /\ x.foreign => context[p].foreign \/ x.old
                                     \/ \E t \in DOMAIN txns : txns[t].payload = p /\ t < x.id
  PROVE  TrackInv'
<1>1. context' \in [Payloads -> Contexts \cup {None}] /\ context'[p] = x
      /\ \A q \in Payloads \ {p} : context'[q] = context[q]
  BY DEF TrackInv, Typed
<1>2. Typed' /\ ChildrenKnowParents' /\ ParentsEndWithChildren'
  BY <1>1 DEF TrackInv, Typed, ChildrenKnowParents, ParentsEndWithChildren, Children
<1>3. NewestHasContext'
  BY <1>1 DEF TrackInv, NewestHasContext
<1>4. ForeignHopsAreStale'
  BY <1>1 DEF TrackInv, ForeignHopsAreStale
<1> QED BY <1>2, <1>3, <1>4 DEF TrackInv

LEMMA CreateKeeps ==
  ASSUME NoPayload \notin Payloads, TrackInv, NEW p \in Payloads \cup {NoPayload}, Create(p)
  PROVE  TrackInv'
<1>1. PICK n : n = next
  OBVIOUS
<1>2. PICK new : new = [parent |-> 0, children |-> << >>, done |-> FALSE, payload |-> p]
  OBVIOUS
<1>3. /\ n \in Nat \ {0} /\ next' = n + 1 /\ late' = late
      /\ n \notin DOMAIN txns /\ DOMAIN txns' = DOMAIN txns \cup {n}
      /\ txns'[n] = new /\ \A t \in DOMAIN txns : txns'[t] = txns[t]
  BY <1>1, <1>2 DEF Create, TrackInv, Typed
<1>4. new \in Records /\ new.children = << >> /\ new.payload = p
  BY <1>2 DEF Records
<1>5. \A t \in DOMAIN txns' : txns'[t] \in Records
  BY <1>3, <1>4 DEF TrackInv, Typed
<1>6. /\ context' \in [Payloads -> Contexts \cup {None}]
      /\ \A q \in Payloads :
           \/ context'[q] = context[q]
           \/ q = p /\ context'[q] = [id |-> n, foreign |-> FALSE, old |-> FALSE]
      /\ p # NoPayload => context'[p] = [id |-> n, foreign |-> FALSE, old |-> FALSE]
  <2>1. PICK x : x = [id |-> n, foreign |-> FALSE, old |-> FALSE]
    OBVIOUS
  <2>2. x \in Contexts
    BY <2>1, <1>3 DEF Contexts
  <2>3. context \in [Payloads -> Contexts \cup {None}]
    BY DEF TrackInv, Typed
  <2>4. CASE p = NoPayload
    BY <2>3, <2>4 DEF Create
  <2>5. CASE p # NoPayload
    <3>1. p \in Payloads /\ context' = [context EXCEPT ![p] = x]
      BY <2>1, <2>5, <1>1 DEF Create
    <3> QED BY <3>1, <2>1, <2>2, <2>3
  <2> QED BY <2>4, <2>5
<1>7. Typed'
  <2>1. txns' \in [DOMAIN txns' -> Records]
    <3>1. txns' = [t \in DOMAIN txns' |-> txns'[t]]
      BY DEF Create
    <3> QED BY <3>1, <1>5
  <2>2. next' \in Nat \ {0} /\ \A t \in DOMAIN txns' : t \in Nat /\ 0 < t /\ t < next'
    BY <1>1, <1>3 DEF TrackInv, Typed
  <2> QED BY <2>1, <2>2, <1>6 DEF Typed
<1>8. ChildrenKnowParents' /\ ParentsEndWithChildren'
  <2>1. Children(n)' = {}
    BY <1>3, <1>4 DEF Children, ToSet
  <2>2. \A t \in DOMAIN txns : Children(t)' = Children(t)
    BY <1>3 DEF Children
  <2> QED BY <2>1, <2>2, <1>3 DEF TrackInv, ChildrenKnowParents, ParentsEndWithChildren
<1>9. NewestHasContext'
  <2> SUFFICES ASSUME NEW t \in DOMAIN txns', NEW q \in Payloads, txns'[t].payload = q,
                      context'[q] # None, ~context'[q].old
               PROVE  t <= context'[q].id
    BY DEF NewestHasContext
  <2>1. t \in Nat /\ t <= n
    BY <1>1, <1>3 DEF TrackInv, Typed
  <2>2. CASE context'[q] = [id |-> n, foreign |-> FALSE, old |-> FALSE]
    BY <2>1, <2>2
  <2>3. CASE context'[q] = context[q] /\ context'[q] # [id |-> n, foreign |-> FALSE, old |-> FALSE]
    <3>1. t # n
      <4>1. t = n => q = p
        BY <1>3, <1>4
      <4>2. q = p => p = NoPayload
        BY <2>3, <1>6
      <4> QED BY <4>1, <4>2
    <3> QED BY <3>1, <2>3, <1>3 DEF TrackInv, NewestHasContext
  <2> QED BY <2>2, <2>3, <1>6
<1>10. ForeignHopsAreStale'
  <2> SUFFICES ASSUME NEW q \in Payloads, context'[q] # None, context'[q].foreign, ~context'[q].old
               PROVE  \E t \in DOMAIN txns' : txns'[t].payload = q /\ t < context'[q].id
    BY DEF ForeignHopsAreStale
  <2>1. context'[q] = context[q]
    BY <1>6
  <2> QED BY <2>1, <1>3 DEF TrackInv, ForeignHopsAreStale
<1> QED BY <1>7, <1>8, <1>9, <1>10 DEF TrackInv

LEMMA RecordHopKeeps ==
  ASSUME TrackInv, NEW t, RecordHop(t)
  PROVE  TrackInv'
<1>1. PICK p : p = txns[t].payload
  OBVIOUS
<1>2. /\ t \in DOMAIN txns /\ p # NoPayload /\ context[p] # None
      /\ context' = [context EXCEPT ![p].foreign = @ \/ context[p].id # t]
      /\ UNCHANGED <<next, txns, late>>
  BY <1>1 DEF RecordHop
<1>3. p \in Payloads /\ context[p] \in Contexts
  <2>1. txns[t] \in Records
    BY <1>2 DEF TrackInv, Typed
  <2>2. p \in Payloads
    BY <2>1, <1>1, <1>2 DEF Records
  <2> QED BY <2>2, <1>2 DEF TrackInv, Typed
<1>4. PICK x : x = [context[p] EXCEPT !.foreign = @ \/ context[p].id # t]
  OBVIOUS
<1>5. context' = [context EXCEPT ![p] = x]
  BY <1>2, <1>4
<1>6. /\ x \in Contexts /\ x.id = context[p].id /\ x.old = context[p].old
      /\ x.foreign <=> context[p].foreign \/ context[p].id # t
  BY <1>3, <1>4 DEF Contexts
<1>7. ~x.old /\ context[p].id # t => t < x.id
  <2>1. t \in Nat /\ context[p].id \in Nat
    BY <1>2, <1>3 DEF TrackInv, Typed, Contexts
  <2> QED BY <2>1, <1>1, <1>2, <1>3, <1>6 DEF TrackInv, NewestHasContext
<1> QED
  BY <1>1, <1>2, <1>3, <1>5, <1>6, <1>7, ContextKeeps

LEMMA RecycleKeeps ==
  ASSUME TrackInv, NEW p \in Payloads, Recycle(p)
  PROVE  TrackInv'
  BY ContextKeeps DEF Recycle

(* Records end, and late grows by what ended otherwise than by itself.     *)
LEMMA EndedKeeps ==
  ASSUME TrackInv, NEW E, UNCHANGED <<next, context>>, late \subseteq late',
         txns' \in [DOMAIN txns -> Records],
         \A u \in DOMAIN txns : /\ txns'[u].parent = txns[u].parent
                                /\ txns'[u].children = txns[u].children
                                /\ txns'[u].payload = txns[u].payload
                                /\ txns'[u].done <=> txns[u].done \/ u \in E,
         \A p \in DOMAIN txns \ E : ~txns[p].done /\ Children(p) # {} =>
           \E c \in Children(p) : (~txns[c].done /\ c \notin E) \/ c \in late'
  PROVE  TrackInv'
<1>1. DOMAIN txns' = DOMAIN txns
  OBVIOUS
<1>2. \A t \in DOMAIN txns : Children(t)' = Children(t)
  BY DEF Children
<1>3. Typed' /\ NewestHasContext' /\ ForeignHopsAreStale' /\ ChildrenKnowParents'
  BY <1>1, <1>2 DEF TrackInv, Typed, NewestHasContext, ForeignHopsAreStale, ChildrenKnowParents
<1>4. ParentsEndWithChildren'
  <2> SUFFICES ASSUME NEW p \in DOMAIN txns, ~txns'[p].done, Children(p) # {}
               PROVE  \E c \in Children(p) : ~txns'[c].done \/ c \in late'
    BY <1>1, <1>2 DEF ParentsEndWithChildren
  <2>1. PICK c \in Children(p) : (~txns[c].done /\ c \notin E) \/ c \in late'
    OBVIOUS
  <2>2. c \in DOMAIN txns
    BY DEF TrackInv, ChildrenKnowParents
  <2> QED BY <2>1, <2>2
<1> QED BY <1>3, <1>4 DEF TrackInv

LEMMA CompleteKeeps ==
  ASSUME TrackInv, NEW t, Complete(t)
  PROVE  TrackInv'
<1>1. PICK ts : ts = Ended(txns, t)
  OBVIOUS
<1>2. PICK g : g = txns[t].parent
  OBVIOUS
<1>3. t \in DOMAIN txns /\ txns \in [DOMAIN txns -> Records] /\ UNCHANGED <<next, context>>
  BY DEF Complete, TrackInv, Typed
<1>4. /\ ts \in [DOMAIN txns -> Records]
      /\ \A u \in DOMAIN txns : /\ ts[u].parent = txns[u].parent
                                /\ ts[u].children = txns[u].children
                                /\ ts[u].payload = txns[u].payload
                                /\ ts[u].done <=> txns[u].done \/ u = t
  BY <1>1, <1>3 DEF Ended, Records
<1>5. ts[t].parent = g
  BY <1>2, <1>3, <1>4
<1>6. ASSUME NEW p \in DOMAIN txns, ~txns[p].done, Children(p) # {}, p # t,
             p # g \/ ~ParentEnds(ts, t)
      PROVE  \E c \in Children(p) : (~txns[c].done /\ c # t) \/ c \in late
  <2>1. PICK c \in Children(p) : ~txns[c].done \/ c \in late
    BY <1>6 DEF TrackInv, ParentsEndWithChildren
  <2>2. CASE c # t \/ c \in late
    BY <2>1, <2>2
  <2>3. CASE c = t /\ c \notin late
    <3>1. p = g /\ p # 0
      BY <2>3, <1>2 DEF TrackInv, ChildrenKnowParents, Typed
    <3>2. ~ \A d \in ToSet(ts[p].children) : d \in DOMAIN ts => ts[d].done
      BY <3>1, <1>6, <1>4, <1>5 DEF ParentEnds
    <3>3. PICK d \in Children(p) : d \in DOMAIN txns /\ ~ts[d].done
      BY <3>2, <1>4 DEF Children
    <3> QED BY <3>3, <1>4
  <2> QED BY <2>2, <2>3
<1>7. CASE ~ParentEnds(ts, t)
  <2>1. txns' = ts /\ late' = late
    BY <1>1, <1>7 DEF Complete
  <2>2. PICK E : E = {t}
    OBVIOUS
  <2>3. \A u \in DOMAIN txns : txns'[u].done <=> txns[u].done \/ u \in E
    BY <2>1, <2>2, <1>4
  <2>4. \A p \in DOMAIN txns \ E : ~txns[p].done /\ Children(p) # {} =>
          \E c \in Children(p) : (~txns[c].done /\ c \notin E) \/ c \in late'
    BY <2>1, <2>2, <1>6, <1>7
  <2> QED BY <2>1, <2>3, <2>4, <1>3, <1>4, EndedKeeps
<1>8. CASE ParentEnds(ts, t)
  <2>1. txns' = Ended(ts, g) /\ late' = late \cup {g} /\ g \in DOMAIN txns
    BY <1>1, <1>4, <1>5, <1>8 DEF Complete, ParentEnds
  <2>2. PICK E : E = {t, g}
    OBVIOUS
  <2>3. /\ txns' \in [DOMAIN txns -> Records]
        /\ \A u \in DOMAIN txns : /\ txns'[u].parent = txns[u].parent
                                  /\ txns'[u].children = txns[u].children
                                  /\ txns'[u].payload = txns[u].payload
                                  /\ txns'[u].done <=> txns[u].done \/ u \in E
    BY <2>1, <2>2, <1>4 DEF Ended, Records
  <2>4. \A p \in DOMAIN txns \ E : ~txns[p].done /\ Children(p) # {} =>
          \E c \in Children(p) : (~txns[c].done /\ c \notin E) \/ c \in late'
    BY <2>1, <2>2, <1>6
  <2> QED BY <2>1, <2>3, <2>4, <1>3, EndedKeeps
<1> QED BY <1>7, <1>8

LEMMA LinkKeeps ==
  ASSUME TrackInv, NEW p, NEW c, Link(p, c)
  PROVE  TrackInv'
<1>1. PICK child : child = [txns EXCEPT ![c].parent = p]
  OBVIOUS
<1>2. /\ p \in DOMAIN txns /\ c \in DOMAIN txns /\ UNCHANGED <<next, context>>
      /\ txns' = [child EXCEPT ![p].children = Append(@, c)]
      /\ late' = IF txns[c].done \/ txns[c].parent # 0 THEN late \cup {c} ELSE late
      /\ txns \in [DOMAIN txns -> Records] /\ p \in Nat /\ c \in Nat /\ p # 0
  BY <1>1 DEF Link, TrackInv, Typed
<1>3. /\ child \in [DOMAIN txns -> Records] /\ child[c].parent = p
      /\ \A u \in DOMAIN txns : /\ u # c => child[u].parent = txns[u].parent
                                /\ child[u].children = txns[u].children
                                /\ child[u].done = txns[u].done
                                /\ child[u].payload = txns[u].payload
  BY <1>1, <1>2 DEF Records
<1>4. /\ txns' \in [DOMAIN txns -> Records]
      /\ txns'[c].parent = p /\ txns'[p].children = Append(txns[p].children, c)
      /\ \A u \in DOMAIN txns : /\ u # c => txns'[u].parent = txns[u].parent
                                /\ u # p => txns'[u].children = txns[u].children
                                /\ txns'[u].done = txns[u].done
                                /\ txns'[u].payload = txns[u].payload
  <2>1. child[p] \in Records /\ child[p].children \in Seq(Nat)
    BY <1>2, <1>3 DEF Records
  <2>2. Append(child[p].children, c) \in Seq(Nat)
    BY <2>1, <1>2
  <2>3. [child[p] EXCEPT !.children = Append(@, c)] \in Records
    BY <2>1, <2>2 DEF Records
  <2>4. txns' = [child EXCEPT ![p] = [child[p] EXCEPT !.children = Append(@, c)]]
    BY <1>2
  <2>5. txns'[p] = [child[p] EXCEPT !.children = Append(@, c)]
        /\ \A u \in DOMAIN txns \ {p} : txns'[u] = child[u]
    BY <2>4, <1>2, <1>3
  <2>6. /\ txns'[p].children = Append(child[p].children, c) /\ txns'[p].parent = child[p].parent
        /\ txns'[p].done = child[p].done /\ txns'[p].payload = child[p].payload
    BY <2>1, <2>5 DEF Records
  <2>7. txns' \in [DOMAIN txns -> Records]
    BY <2>3, <2>4, <1>3
  <2> QED BY <2>5, <2>6, <2>7, <1>2, <1>3
<1>5. DOMAIN txns' = DOMAIN txns /\ Typed'
  BY <1>2, <1>4 DEF TrackInv, Typed
<1>6. Children(p)' = Children(p) \cup {c}
      /\ \A u \in DOMAIN txns : u # p => Children(u)' = Children(u)
  <2>1. txns[p].children \in Seq(Nat)
    BY <1>2 DEF Records
  <2>2. ToSet(Append(txns[p].children, c)) = ToSet(txns[p].children) \cup {c}
    <3>1. PICK s \in Seq(Nat) : s = txns[p].children
      BY <2>1
    <3>2. PICK u : u = Append(s, c)
      OBVIOUS
    <3>3. PICK m \in Nat : m = Len(s)
      BY <3>1
    <3>4. /\ DOMAIN u = 1 .. (m + 1) /\ DOMAIN s = 1 .. m /\ u[m + 1] = c
          /\ \A i \in 1 .. m : u[i] = s[i]
      BY <3>1, <3>2, <3>3, <1>2
    <3>5. \A i \in 1 .. (m + 1) : i \in 1 .. m \/ i = m + 1
      OBVIOUS
    <3>6. m + 1 \in 1 .. (m + 1) /\ \A i \in 1 .. m : i \in 1 .. (m + 1)
      OBVIOUS
    <3>7. ASSUME NEW i \in DOMAIN u  PROVE  u[i] \in {s[k] : k \in DOMAIN s} \cup {c}
      BY <3>4, <3>5, <3>7
    <3>8. ASSUME NEW i \in DOMAIN s  PROVE  s[i] \in {u[k] : k \in DOMAIN u}
      BY <3>4, <3>6, <3>8
    <3>9. c \in {u[k] : k \in DOMAIN u}
      BY <3>4, <3>6
    <3>10. {u[k] : k \in DOMAIN u} = {s[k] : k \in DOMAIN s} \cup {c}
      BY <3>7, <3>8, <3>9
    <3> QED BY <3>1, <3>2, <3>10 DEF ToSet
  <2> QED BY <2>2, <1>4 DEF Children
<1>7. ChildrenKnowParents'
  <2> SUFFICES ASSUME NEW q \in DOMAIN txns, NEW d \in Children(q)'
               PROVE  d \in DOMAIN txns /\ (d \notin late' => txns'[d].parent = q)
    BY <1>5 DEF ChildrenKnowParents
  <2>1. CASE q = p /\ d = c
    BY <2>1, <1>2, <1>4
  <2>2. CASE d \in Children(q)
    <3>1. d \in DOMAIN txns /\ (d \notin late => txns[d].parent = q) /\ q \in Nat /\ q # 0
      BY <2>2 DEF TrackInv, ChildrenKnowParents, Typed
    <3> QED BY <3>1, <1>2, <1>4
  <2> QED BY <2>1, <2>2, <1>6
<1>8. ParentsEndWithChildren'
  <2> SUFFICES ASSUME NEW q \in DOMAIN txns, ~txns'[q].done, Children(q)' # {}
               PROVE  \E d \in Children(q)' : ~txns'[d].done \/ d \in late'
    BY <1>5 DEF ParentsEndWithChildren
  <2>1. CASE q = p
    BY <2>1, <1>2, <1>4, <1>6
  <2>2. CASE q # p
    <3>1. PICK d \in Children(q) : ~txns[d].done \/ d \in late
      BY <2>2, <1>4, <1>6 DEF TrackInv, ParentsEndWithChildren
    <3>2. d \in DOMAIN txns
      BY DEF TrackInv, ChildrenKnowParents
    <3> QED BY <3>1, <3>2, <2>2, <1>2, <1>4, <1>6
  <2> QED BY <2>1, <2>2
<1>9. NewestHasContext' /\ ForeignHopsAreStale'
  BY <1>2, <1>4, <1>5 DEF TrackInv, NewestHasContext, ForeignHopsAreStale
<1> QED BY <1>5, <1>7, <1>8, <1>9 DEF TrackInv

(* A parent waits for its children, and a hop goes to another transaction  *)
(* only over a payload that was used again: for any payloads, bounds and   *)
(* order of calls of the TransactionTracker, its reset included.           *)
THEOREM TrackersStaySound ==
  ASSUME NoPayload \notin Payloads
  PROVE  TrackSpec => []TrackersSound
<1>1. TrackInv /\ [TrackNext]_trackVars => TrackInv'
  <2> SUFFICES ASSUME TrackInv, [TrackNext]_trackVars PROVE TrackInv'
    OBVIOUS
  <2>1. CASE Initialize
    <3>1. next' \in Nat \ {0}
      BY <2>1 DEF Initialize, TrackInv, Typed
    <3> QED BY <3>1, <2>1, ClearedKeeps DEF Initialize
  <2>2. CASE ResetForTesting
    BY <2>2, ClearedKeeps DEF ResetForTesting
  <2>3. CASE UNCHANGED trackVars
    BY <2>3 DEF trackVars, TrackInv, Typed, ChildrenKnowParents, NewestHasContext,
                ParentsEndWithChildren, ForeignHopsAreStale, Children
  <2> QED
    BY <2>1, <2>2, <2>3, CreateKeeps, RecordHopKeeps, CompleteKeeps, LinkKeeps, RecycleKeeps
    DEF TrackNext
<1>2. TrackInv => TrackersSound
  BY DEF TrackInv, TrackersSound
<1> QED
  BY <1>1, <1>2, TrackInitInv, PTL DEF TrackSpec
=============================================================================
