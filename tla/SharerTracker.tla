--------------------------- MODULE SharerTracker ---------------------------
(***************************************************************************)
(* SnoopMechanics (src/include/tlm/cep/sharer_tracker.hh): the snoops in   *)
(* flight of a home node, shared by all six sharer trackers.  A responder  *)
(* set is a set of nodes; the nodes of Unmapped have no responder bit.     *)
(* The event log (events_) and observed_ only feed diagnostics and are     *)
(* left out.                                                               *)
(*                                                                         *)
(* The six sharer trackers of a home node (src/include/tlm/cep/            *)
(* sharer_tracker.hh, tilelink_tree_manager.hh, cxl_dcoh_tracker.hh,       *)
(* broadcast_null_tracker.hh): who may hold a line, and what a lookup lets *)
(* the home conclude from it.  `holds' is what the nodes really hold; a    *)
(* node reports it with set_sharer and clear_sharer, or drops a clean line *)
(* without a word.                                                         *)
(***************************************************************************)
EXTENDS Integers, FiniteSetsExt, Functions

CONSTANTS
  Addrs,       \* line addresses
  Nodes,       \* nodes with a responder bit
  Unmapped,    \* nodes without one
  MaxHandle,   \* bound: kHandleSpace (65535 in the code)
  Level,       \* the directory level of a node's own entries (set_tracker)
  Region       \* DcohSymmetric's LocalRegion, as a set of addresses

VARIABLES
  inflight,      \* inflight_: live handle -> [addr, expected, remaining, merged]
  byAddr,        \* inflight_by_addr_: address -> handle
  next_handle,   \* next_handle_
  folded,        \* history: live handle -> the first answer of each responder
  impl,          \* the tracker that runs
  own,           \* own_: level -> address -> [sharers, dirty]; dir_, filter_,
                 \* entries_ are its level 0, TreeManager's tips are `dirty'
  holds          \* history: address -> node -> the state the node really has

mechVars == <<inflight, byAddr, next_handle, folded>>

Handles == 1..MaxHandle
Live    == DOMAIN inflight

(* SnoopState, in the order of its enumerators.                            *)
StateI == 0
StateS == 1
StateE == 2
StateM == 3
SnoopState == StateI..StateM

Answer == [node : Nodes \cup Unmapped, state : SnoopState, data : BOOLEAN]

(* Mutant: dirty data is taken only when the answer alone would raise the  *)
(* state.                                                                  *)
JoinLastWins(cur, ans) == IF ans.data THEN StateM ELSE ans.state

(* join_state: the higher state wins, and a dirty answer that carries its  *)
(* data (ans.data) makes M.                                                *)
Join(cur, ans) ==
  IF ans.data THEN StateM ELSE Max({cur, ans.state})

MechInit ==
  /\ inflight = << >> /\ byAddr = << >> /\ folded = << >>
  /\ next_handle = 1

Successor(h) == (h % MaxHandle) + 1

(* Mutant: the cursor is trusted without a look at the live handles.       *)
ProbeBlind == {next_handle}

(* allocate_handle: the first free handle from the cursor on, wrapping     *)
(* past the last one; empty when every handle is live.                     *)
Probe ==
  LET dist(h) == (h - next_handle + MaxHandle) % MaxHandle
      free    == Handles \ Live
  IN  {h \in free : \A k \in free : dist(h) <= dist(k)}

(* snoop_begin of an address without a snoop.  A responder set with an     *)
(* unmapped node, an address whose snoop expects other responders and a    *)
(* full table are refused, and a repeated begin returns the live handle:   *)
(* all four leave the state alone.  An empty set is accepted, although     *)
(* nobody will answer: its entry stalls the lookups of its address until   *)
(* responders join or somebody answers unasked.                            *)
SnoopBegin(a, expected) ==
  /\ expected \subseteq Nodes
  /\ a \notin DOMAIN byAddr
  /\ \E h \in Probe :
       /\ inflight' = [k \in Live \cup {h} |->
            IF k = h THEN [addr |-> a, expected |-> expected,
                           remaining |-> expected, merged |-> StateI]
                     ELSE inflight[k]]
       /\ folded' = [k \in Live \cup {h} |-> IF k = h THEN {} ELSE folded[k]]
       /\ byAddr' = [b \in DOMAIN byAddr \cup {a} |->
                       IF b = a THEN h ELSE byAddr[b]]
       /\ next_handle' = Successor(h)

(* snoop_join: the new responders are added to both sets of the snoop in   *)
(* flight; without one, or with an unmapped node, it is refused.           *)
SnoopJoin(a, extra) ==
  /\ extra \subseteq Nodes
  /\ a \in DOMAIN byAddr
  /\ LET h     == byAddr[a]
         added == extra \ inflight[h].expected
     IN  /\ added # {}
         /\ inflight' = [inflight EXCEPT ![h].expected = @ \cup extra,
                                         ![h].remaining = @ \cup added]
  /\ UNCHANGED <<byAddr, next_handle, folded>>

(* snoop_fold: the first answer of an expected responder is merged, a      *)
(* repeated or unexpected one changes nothing, and the snoop retires as    *)
(* soon as nobody is awaited.  An unknown handle is reported, not acted on.*)
SnoopFold(h, ans) ==
  /\ h \in Live
  /\ LET first  == ans.node \in inflight[h].remaining
         left   == inflight[h].remaining \ {ans.node}
         merged == IF first THEN Join(inflight[h].merged, ans)
                            ELSE inflight[h].merged
         kept   == Live \ {h}
     IN  IF left = {}
         THEN /\ inflight' = Restrict(inflight, kept)
              /\ folded' = Restrict(folded, kept)
              /\ byAddr' = Restrict(byAddr, DOMAIN byAddr \ {inflight[h].addr})
         ELSE /\ inflight' = [inflight EXCEPT ![h].remaining = left,
                                              ![h].merged = merged]
              /\ folded' = IF first
                           THEN [folded EXCEPT ![h] = @ \cup {ans}] ELSE folded
              /\ UNCHANGED byAddr
  /\ UNCHANGED next_handle

MechNext ==
  \/ \E a \in Addrs, r \in SUBSET Nodes : SnoopBegin(a, r) \/ SnoopJoin(a, r)
  \/ \E h \in Handles, ans \in Answer : SnoopFold(h, ans)

MechSpec == MechInit /\ [][MechNext]_mechVars

-----------------------------------------------------------------------------
MechTypeOK ==
  /\ Live \subseteq Handles /\ DOMAIN folded = Live
  /\ \A h \in Live :
       inflight[h] \in [addr : Addrs, expected : SUBSET Nodes,
                        remaining : SUBSET Nodes, merged : SnoopState]
  /\ DOMAIN byAddr \subseteq Addrs
  /\ next_handle \in Handles

(* A live handle is the snoop of one address and that address finds it     *)
(* again, whatever handles were freed, reused and wrapped past: a handle   *)
(* given twice would leave an address that stalls every later lookup.      *)
HandleNamesOneSnoop ==
  /\ \A a \in DOMAIN byAddr : byAddr[a] \in Live /\ inflight[byAddr[a]].addr = a
  /\ \A h \in Live :
       /\ inflight[h].addr \in DOMAIN byAddr
       /\ byAddr[inflight[h].addr] = h

(* A snoop that was asked of somebody awaits somebody who can answer it:   *)
(* joining responders and answering, in any order, cannot leave it stuck,  *)
(* and only one begun for nobody is (sharer_tracker.hh:366-399).           *)
SomebodyAwaited ==
  \A h \in Live : inflight[h].expected # {} => inflight[h].remaining # {}

(* The merged state depends only on the first answer of each responder,    *)
(* never on the order or the repetitions of the answers: it is M when one  *)
(* of them brought dirty data and the highest reported state otherwise.    *)
MergeIsOrderFree ==
  \A h \in Live :
    LET first == folded[h]
    IN  /\ inflight[h].merged =
             IF \E x \in first : x.data THEN StateM
             ELSE Max({x.state : x \in first} \cup {StateI})
        /\ \A x, y \in first : x.node = y.node => x = y
        /\ inflight[h].remaining =
             inflight[h].expected \ {x.node : x \in first}

-----------------------------------------------------------------------------
dirVars == <<impl, own, holds>>
trkVars == <<inflight, byAddr, next_handle, folded, impl, own, holds>>

Impls == {"FullMapDirectory", "SparseSnoopFilter", "DcohSymmetric",
          "TreeManager", "BroadcastNull", "HierarchicalDirectory"}
Conservative == {"SparseSnoopFilter", "DcohSymmetric"}
Levels == 0..2      \* kLevelCount = 3

HasEntry(l, a) == a \in DOMAIN own[l]

TrkInit ==
  /\ MechInit
  /\ impl \in Impls
  /\ own = [l \in Levels |-> << >>]
  /\ holds = [a \in Addrs |-> [n \in Nodes |-> StateI]]

EntryOf(l, a) ==
  IF HasEntry(l, a) THEN own[l][a] ELSE [sharers |-> {}, dirty |-> {}]

PutEntry(l, a, e) ==
  [own EXCEPT ![l] = [b \in DOMAIN own[l] \cup {a} |->
                        IF b = a THEN e ELSE own[l][b]]]

Entered(e, n, dirty) ==
  [sharers |-> e.sharers \cup {n},
   dirty   |-> IF dirty THEN e.dirty \cup {n} ELSE e.dirty \ {n}]

(* Mutant: the node leaves the sharers and stays the dirty holder.         *)
RemovedSharerOnly(e, n) == [sharers |-> e.sharers \ {n}, dirty |-> e.dirty]

Removed(e, n) == [sharers |-> e.sharers \ {n}, dirty |-> e.dirty \ {n}]

(* set_sharer of each tracker: the value own takes.                        *)
SetFullMap(a, n, s) == PutEntry(0, a, Entered(EntryOf(0, a), n, s = StateM))
SetSparse(a, n, s)  == PutEntry(0, a, Entered(EntryOf(0, a), n, s = StateM))
SetDcoh(a, n, s) ==
  IF a \in Region THEN PutEntry(0, a, Entered(EntryOf(0, a), n, s = StateM))
  ELSE own

(* A tree knows positions: the holder of the write permission is its tip,  *)
(* a reader a branch, and Nothing takes the node out of the entry.         *)
SetTree(a, n, s) ==
  PutEntry(0, a, IF s = StateI THEN Removed(EntryOf(0, a), n)
                 ELSE Entered(EntryOf(0, a), n, s \in {StateE, StateM}))

SetHier(a, n, s) ==
  PutEntry(Level[n], a, Entered(EntryOf(Level[n], a), n, s = StateM))

(* BroadcastNull keeps nothing.                                            *)
SetNull(a, n, s) == own

SetSharer(a, n, s) ==
  own' = CASE impl = "FullMapDirectory"      -> SetFullMap(a, n, s)
           [] impl = "SparseSnoopFilter"     -> SetSparse(a, n, s)
           [] impl = "DcohSymmetric"         -> SetDcoh(a, n, s)
           [] impl = "TreeManager"           -> SetTree(a, n, s)
           [] impl = "HierarchicalDirectory" -> SetHier(a, n, s)
           [] OTHER                          -> SetNull(a, n, s)


(* An entry the node is in loses it, and goes when it names nobody else.   *)
Retire(l, a, n) ==
  LET f == Removed(EntryOf(l, a), n)
  IN  IF ~HasEntry(l, a) \/ f = EntryOf(l, a) THEN own
      ELSE IF f.sharers \cup f.dirty = {}
           THEN [own EXCEPT ![l] = Restrict(@, DOMAIN @ \ {a})]
           ELSE PutEntry(l, a, f)

(* clear_sharer of each tracker; a TreeManager keeps the emptied entry.    *)
ClearFullMap(a, n) == Retire(0, a, n)
ClearSparse(a, n)  == Retire(0, a, n)
ClearDcoh(a, n)    == Retire(0, a, n)
ClearTree(a, n) ==
  IF HasEntry(0, a) THEN PutEntry(0, a, Removed(EntryOf(0, a), n)) ELSE own
ClearHier(a, n) == Retire(Level[n], a, n)
ClearNull(a, n) == own

ClearSharer(a, n) ==
  own' = CASE impl = "FullMapDirectory"      -> ClearFullMap(a, n)
           [] impl = "SparseSnoopFilter"     -> ClearSparse(a, n)
           [] impl = "DcohSymmetric"         -> ClearDcoh(a, n)
           [] impl = "TreeManager"           -> ClearTree(a, n)
           [] impl = "HierarchicalDirectory" -> ClearHier(a, n)
           [] OTHER                          -> ClearNull(a, n)

(* A node gains or changes its copy and reports it; the protocol leaves a  *)
(* writer alone with the line.                                             *)
Report(a, n, s) ==
  /\ \A m \in Nodes \ {n} :
       holds[a][m] = StateI \/ (s = StateS /\ holds[a][m] = StateS)
  /\ holds' = [holds EXCEPT ![a][n] = s]
  /\ SetSharer(a, n, s)
  /\ UNCHANGED <<mechVars, impl>>

(* The node gives its copy up and the home clears it (evict, writeback).   *)
GiveUp(a, n) ==
  /\ holds[a][n] # StateI
  /\ holds' = [holds EXCEPT ![a][n] = StateI]
  /\ \/ ClearSharer(a, n)
     \/ impl = "TreeManager" /\ SetSharer(a, n, StateI)
  /\ UNCHANGED <<mechVars, impl>>

(* A clean copy is dropped without a message.                              *)
SilentDrop(a, n) ==
  /\ holds[a][n] \in {StateS, StateE}
  /\ holds' = [holds EXCEPT ![a][n] = StateI]
  /\ UNCHANGED <<mechVars, impl, own>>

(* observe_snoop(n, I): a conservative tracker takes the observation as    *)
(* the proof it needs to shrink; the others only record it.                *)
ObserveInvalid(a, n) ==
  /\ impl \in Conservative
  /\ holds[a][n] # StateI
  /\ holds' = [holds EXCEPT ![a][n] = StateI]
  /\ ClearSharer(a, n)
  /\ UNCHANGED <<mechVars, impl>>

-----------------------------------------------------------------------------
(* What a lookup reports.                                                  *)

(* aggregate_view_at: the entries of the level and of the finer ones.      *)
ViewAt(a, l) ==
  [sharers |-> UNION {EntryOf(k, a).sharers : k \in 0..l},
   dirty   |-> UNION {EntryOf(k, a).dirty : k \in 0..l}]

(* The root's view; the single-level trackers have entries at level 0.     *)
View(a) == ViewAt(a, 2)

(* hazard_under_contention: a snoop in flight stalls (at a tree: chains)   *)
(* every lookup of its address; BroadcastNull knows no hazard.             *)
Stalled(a) == a \in DOMAIN byAddr /\ impl # "BroadcastNull"

(* Mutant: one dirty node is enough to forward, sharers or not.            *)
SureOfOneDirty(v) == Cardinality(v.dirty) = 1

(* A conservative tracker forwards only to the one node it knows.          *)
SureOfOne(v) == Cardinality(v.dirty) = 1 /\ Cardinality(v.sharers) = 1

(* The verdict of each tracker's lookup for an address that is not stalled.*)
FullMapVerdict(a, read) ==
  IF read /\ EntryOf(0, a).dirty # {} THEN "FORWARD_TO" ELSE "ANSWER_HERE"
SparseVerdict(a, read) ==
  IF HasEntry(0, a) /\ read /\ SureOfOne(View(a)) THEN "FORWARD_TO"
  ELSE "BROADCAST"
DcohVerdict(a, read) ==
  IF a \in Region /\ HasEntry(0, a) /\ read /\ SureOfOne(View(a))
  THEN "FORWARD_TO" ELSE "BROADCAST"
TreeVerdict(a, read) ==
  LET e == EntryOf(0, a)
  IN  IF e.dirty # {} \/ (e.sharers # {} /\ read) THEN "ANSWER_HERE"
      ELSE "ESCALATE_UP"
HierVerdict(a, read) ==
  IF read /\ View(a).dirty # {} THEN "FORWARD_TO" ELSE "ANSWER_HERE"
NullVerdict(a, read) == "BROADCAST"

Verdict(a, intent) ==
  LET read == intent = "want_read"
  IN  CASE impl = "FullMapDirectory"      -> FullMapVerdict(a, read)
        [] impl = "SparseSnoopFilter"     -> SparseVerdict(a, read)
        [] impl = "DcohSymmetric"         -> DcohVerdict(a, read)
        [] impl = "TreeManager"           -> TreeVerdict(a, read)
        [] impl = "HierarchicalDirectory" -> HierVerdict(a, read)
        [] OTHER                          -> NullVerdict(a, read)

(* lookup's one effect: a full map enters the address it did not know.     *)
Lookup(a) ==
  /\ impl = "FullMapDirectory"
  /\ ~Stalled(a) /\ ~HasEntry(0, a)
  /\ own' = PutEntry(0, a, [sharers |-> {}, dirty |-> {}])
  /\ UNCHANGED <<mechVars, impl, holds>>

Snoops ==
  /\ UNCHANGED dirVars
  /\ \/ \E a \in Addrs, r \in SUBSET Nodes :
          \/ SnoopBegin(a, r)
          \/ impl = "TreeManager" /\ SnoopJoin(a, r)
     \/ \E h \in Handles, n \in Nodes :
          SnoopFold(h, [node |-> n, state |-> StateI, data |-> FALSE])

TrkNext ==
  \/ \E a \in Addrs, n \in Nodes :
       \/ \E s \in {StateS, StateE, StateM} : Report(a, n, s)
       \/ GiveUp(a, n) \/ SilentDrop(a, n) \/ ObserveInvalid(a, n)
  \/ \E a \in Addrs : Lookup(a)
  \/ Snoops

TrkSpec == TrkInit /\ [][TrkNext]_trkVars

-----------------------------------------------------------------------------
TrkTypeOK ==
  /\ impl \in Impls
  /\ \A l \in Levels : \A a \in DOMAIN own[l] :
       own[l][a] \in [sharers : SUBSET Nodes, dirty : SUBSET Nodes]
  /\ holds \in [Addrs -> [Nodes -> SnoopState]]

Holders(a) == {n \in Nodes : holds[a][n] # StateI}
Dirty(a)   == {n \in Nodes : holds[a][n] = StateM}

(* The nodes the home reaches when it follows the verdict: all of them on  *)
(* a broadcast or an escalation, the forwarding target, or the sharers.    *)
Reached(a, intent) ==
  CASE Verdict(a, intent) \in {"BROADCAST", "ESCALATE_UP"} -> Nodes
    [] Verdict(a, intent) = "FORWARD_TO" -> View(a).dirty
    [] Verdict(a, intent) = "ANSWER_HERE" -> View(a).sharers

(* The home that wants to write or to own a line reaches every node that   *)
(* holds it, and the home that wants to read reaches the dirty holder: no  *)
(* tracker misses a sharer whatever was dropped silently, observed or      *)
(* given up, and whatever level the holder reports to.                     *)
NoHolderMissed ==
  \A a \in Addrs : ~Stalled(a) =>
    /\ \A i \in {"want_write", "want_own"} : Holders(a) \subseteq Reached(a, i)
    /\ Dirty(a) \subseteq Reached(a, "want_read")

(* A read that is forwarded goes to one node, and that node has the dirty  *)
(* data: forward_to is never a node that already gave the line up.         *)
ForwardFindsData ==
  \A a \in Addrs :
    ~Stalled(a) /\ Verdict(a, "want_read") = "FORWARD_TO"
      => View(a).dirty = Dirty(a) /\ Cardinality(Dirty(a)) = 1
=============================================================================
