----------------------------- MODULE MesifEngine -----------------------------
(***************************************************************************)
(* MesifProtocolEngine (src/include/tlm/cep/mesif_protocol_engine.hh) on   *)
(* every node, over the state table of mesif_state_spec.hh, all of them    *)
(* feeding the one HierarchicalDirectory of SharerTracker through          *)
(* sync_tracker.  The home node is outside the source: it holds the        *)
(* requests that were sent and completes or snoops when it likes.  The     *)
(* contents of a bundle, the payload of a line, the counters and the route *)
(* names are left out.                                                     *)
(***************************************************************************)
EXTENDS SharerTracker

CONSTANT Txns   \* transaction ids

VARIABLES
  line,       \* lines_: node -> address -> MESIF state, "I" when absent
  txn_addr,   \* txn_addr_: node -> transaction -> address
  egress,     \* resp_out(): node -> port -> the bundle in the slot
  next_port,  \* next_port_: node -> port
  atHome      \* requests the home holds: set of [node, txn]

engineVars == <<line, txn_addr, egress, next_port, atHome>>

Ports    == {0, 1}
NoBundle == [flow |-> "none"]
States   == {"I", "S", "E", "M", "F"}
Events   == {"Rd", "RdUnique", "Wr", "Upgrade", "SnpShared", "SnpUnique"}

(* kTable.transition                                                       *)
Row(rd, rdu, wr, upg, sns, snu) ==
  [Rd |-> rd, RdUnique |-> rdu, Wr |-> wr, Upgrade |-> upg,
   SnpShared |-> sns, SnpUnique |-> snu]

Transition ==
  [I |-> Row("S", "E", "I", "I", "I", "I"),
   S |-> Row("S", "E", "S", "E", "S", "I"),
   E |-> Row("E", "E", "M", "E", "F", "I"),
   M |-> Row("M", "M", "M", "M", "F", "I"),
   F |-> Row("F", "E", "F", "E", "F", "I")]

(* The directory's name of a state.                                        *)
DirState == [S |-> StateS, F |-> StateS, E |-> StateE, M |-> StateM]

EngineInit ==
  /\ line = [n \in Nodes |-> [a \in Addrs |-> "I"]]
  /\ txn_addr = [n \in Nodes |-> << >>]
  /\ egress = [n \in Nodes |-> [p \in Ports |-> NoBundle]]
  /\ next_port = [n \in Nodes |-> 0]
  /\ atHome = {}

MesifInit == TrkInit /\ impl = "HierarchicalDirectory" /\ EngineInit

-----------------------------------------------------------------------------
(* sync_tracker                                                            *)
Sync(n, a, to) ==
  IF to = "I" THEN ClearSharer(a, n) ELSE SetSharer(a, n, DirState[to])

(* Mutant: the write-back of a dirty line that is shared out is not fed to *)
(* the directory.                                                          *)
ApplyKeepsDirty(n, a, to) ==
  /\ line' = [line EXCEPT ![n][a] = to]
  /\ IF line[n][a] = "M" /\ to = "F" THEN UNCHANGED own ELSE Sync(n, a, to)

(* apply_event: the line takes its next state and the directory hears it.  *)
Apply(n, a, to) ==
  /\ line' = [line EXCEPT ![n][a] = to]
  /\ Sync(n, a, to)

Free(n) == {p \in Ports : egress[n][p] = NoBundle}

(* write_to_egress: the next free port in turn; with both slots taken the  *)
(* bundle is dropped, whatever the caller makes of the false it returns.   *)
WriteToEgress(n, b) ==
  IF Free(n) = {} THEN UNCHANGED <<egress, next_port>>
  ELSE LET p == IF next_port[n] \in Free(n) THEN next_port[n] ELSE 1 - next_port[n]
       IN  /\ egress' = [egress EXCEPT ![n][p] = b]
           /\ next_port' = [next_port EXCEPT ![n] = 1 - p]

(* submit_local_request and, with a route for it, submit_atomic: the       *)
(* transaction is remembered whether or not its request found a slot.      *)
SubmitLocalRequest(n, t, a) ==
  /\ t \notin DOMAIN txn_addr[n] /\ [node |-> n, txn |-> t] \notin atHome
  /\ txn_addr' = [txn_addr EXCEPT ![n] =
       [u \in DOMAIN @ \cup {t} |-> IF u = t THEN a ELSE @[u]]]
  /\ WriteToEgress(n, [flow |-> "Request", txn |-> t])
  /\ UNCHANGED <<trkVars, line, atHome>>

(* A hit of the node's own processor drives the table directly.            *)
LocalEvent(n, a, e) ==
  /\ e \in {"Rd", "Wr"} /\ line[n][a] # "I"
  /\ Apply(n, a, Transition[line[n][a]][e])
  /\ UNCHANGED <<mechVars, impl, holds, txn_addr, egress, next_port, atHome>>

(* What a completion makes of a line: RdUnique and then Wr for WRITEBACK.  *)
Completed(s, perm) ==
  CASE perm = "NONE"   -> Transition[s]["SnpUnique"]
    [] perm = "READ"   -> Transition[s]["Rd"]
    [] perm = "UNIQUE" -> Transition[s]["RdUnique"]
    [] OTHER           -> Transition[Transition[s]["RdUnique"]]["Wr"]

(* on_completion: an error ends the transaction and leaves the line alone, *)
(* a transaction that is not known is only counted.                        *)
OnCompletion(n, t, perm, error) ==
  /\ [node |-> n, txn |-> t] \in atHome
  /\ atHome' = atHome \ {[node |-> n, txn |-> t]}
  /\ txn_addr' = [txn_addr EXCEPT ![n] = Restrict(@, DOMAIN @ \ {t})]
  /\ IF error \/ t \notin DOMAIN txn_addr[n]
     THEN UNCHANGED <<line, own>>
     ELSE LET a == txn_addr[n][t]
          IN  Apply(n, a, Completed(line[n][a], perm))
  /\ UNCHANGED <<mechVars, impl, holds, egress, next_port>>

(* on_snoop: CLEAN and FORWARD are one event; a miss is answered as well.  *)
OnSnoop(n, a, type) ==
  LET e  == IF type = "INVALIDATE" THEN "SnpUnique" ELSE "SnpShared"
      to == Transition[line[n][a]][e]
  IN  /\ Apply(n, a, to)
      /\ WriteToEgress(n, [flow |-> "SnoopResp"])
      /\ UNCHANGED <<mechVars, impl, holds, txn_addr, atHome>>

(* on_writeback and on_back_invalidate of a line the node has.             *)
OnInvalidated(n, a) ==
  /\ line[n][a] # "I"
  /\ Apply(n, a, Transition[line[n][a]]["SnpUnique"])
  /\ UNCHANGED <<mechVars, impl, holds, txn_addr, egress, next_port, atHome>>

(* tick: the adapter sends what the slots hold; the home takes requests.   *)
Send(n) ==
  /\ Free(n) # Ports
  /\ atHome' = atHome \cup
       {[node |-> n, txn |-> egress[n][p].txn] :
          p \in {q \in Ports : egress[n][q].flow = "Request"}}
  /\ egress' = [egress EXCEPT ![n] = [p \in Ports |-> NoBundle]]
  /\ UNCHANGED <<trkVars, line, txn_addr, next_port>>

MesifNext ==
  \E n \in Nodes :
    \/ \E a \in Addrs :
         \/ \E t \in Txns : SubmitLocalRequest(n, t, a)
         \/ \E e \in Events : LocalEvent(n, a, e)
         \/ \E type \in {"INVALIDATE", "CLEAN", "FORWARD"} : OnSnoop(n, a, type)
         \/ OnInvalidated(n, a)
    \/ \E t \in Txns, perm \in {"NONE", "READ", "UNIQUE", "WRITEBACK"},
          error \in BOOLEAN : OnCompletion(n, t, perm, error)
    \/ Send(n)

MesifSpec == MesifInit /\ [][MesifNext]_<<trkVars, engineVars>>

-----------------------------------------------------------------------------
MesifTypeOK ==
  /\ line \in [Nodes -> [Addrs -> States]]
  /\ \A n \in Nodes : DOMAIN txn_addr[n] \subseteq Txns
  /\ atHome \subseteq [node : Nodes, txn : Txns]

(* The directory knows every copy and exactly the dirty ones: after any    *)
(* sequence of hits, completions, errors, snoops and invalidations of all  *)
(* nodes, a node is a sharer at its level iff its line is valid and a      *)
(* dirty one iff it is M.  This is the compensation the header promises    *)
(* for F and M being one permission on the wire.                           *)
DirectoryFollowsEngines ==
  \A n \in Nodes, a \in Addrs :
    /\ (n \in View(a).sharers) <=> (line[n][a] # "I")
    /\ (n \in View(a).dirty) <=> (line[n][a] = "M")
=============================================================================
