----------------------------- MODULE CepEngines -----------------------------
(***************************************************************************)
(* ProtocolEngineBase (src/include/tlm/cep/protocol_engine_base.hh) and    *)
(* the engines that keep little state of their own: NullProtocolEngine,    *)
(* UalinkProtocolEngine, TileLinkProtocolEngine, MoesiGpuProtocolEngine.   *)
(* A bundle is its flow and its transaction.  A counter is kept where the  *)
(* accounting of the bundles rests on it and left out otherwise.            *)
(***************************************************************************)
EXTENDS Integers, FiniteSets

CONSTANTS
  EngineTxns,   \* transaction ids
  MaxBundles    \* bound: bundles that arrive

VARIABLES
  engine,       \* which engine runs
  req_in,       \* req_in_: port -> the bundle in its slot
  handled,      \* the counters: flow -> bundles counted by the handlers
  tally,        \* of those, how many stood for an event: total_events and
                \* immediate_complete against zero_event_intents and no_op
  outstanding,  \* outstanding_ of the Ualink engine
  moesi,        \* lines_ of the Moesi engine, for one address
  records,      \* size of comp_log_
  tracker,      \* a sharer tracker is attached
  received,     \* history: flow -> bundles put into a slot
  leftO         \* history: how often the line left state O

cepVars == <<engine, req_in, handled, tally, outstanding, moesi, records,
             tracker, received, leftO>>

InPorts   == {0, 1}
EmptySlot == [flow |-> "none"]

(* CanonicalFlow, of which the first five travel in a bundle; "Alien" is a *)
(* flow id dispatch_cohif does not know.                                   *)
BundleFlows == {"Request", "Completion", "Snoop", "SnoopResp", "Writeback", "Alien"}

(* t3_consumable_event_mask: the permission events a flow stands for.      *)
Consumable(flow) ==
  CASE flow = "Completion" -> {"Grow"}
    [] flow \in {"Snoop", "SnoopResp", "Writeback"} -> {"Prune"}
    [] OTHER -> {}

(* kNullFlowMatrix: of the flows in bundles a completion completes at once.*)
NullActs == {"Completion"}

(* MoesiGpuAdapter::kStateTransition                                       *)
MoesiTable(s, e) ==
  CASE s = "M" \/ e = "Wr"   -> "M"
    [] s = "I"               -> IF e = "Rd" THEN "S" ELSE "I"
    [] e = "Inv"             -> "I"
    [] e = "Fl"              -> "O"
    [] OTHER                 -> IF s = "T" THEN "S" ELSE s

CepInit ==
  /\ engine \in {"null", "ualink", "tilelink", "moesi"}
  /\ req_in = [p \in InPorts |-> EmptySlot]
  /\ handled = [f \in BundleFlows |-> 0]
  /\ received = [f \in BundleFlows |-> 0]
  /\ tally = [event |-> 0, none |-> 0]
  /\ outstanding = {}
  /\ moesi = "I" /\ records = 0 /\ leftO = 0
  /\ tracker \in BOOLEAN

Total == received["Request"] + received["Completion"] + received["Snoop"]
           + received["SnoopResp"] + received["Writeback"] + received["Alien"]

(* A packet reaches a free input slot.                                     *)
Arrive(p, b) ==
  /\ req_in[p] = EmptySlot /\ Total < MaxBundles
  /\ req_in' = [req_in EXCEPT ![p] = b]
  /\ received' = [received EXCEPT ![b.flow] = @ + 1]
  /\ UNCHANGED <<engine, handled, tally, outstanding, moesi, records,
                 tracker, leftO>>

Occupied == {p \in InPorts : req_in[p] # EmptySlot}
Count(f) == Cardinality({p \in Occupied : req_in[p].flow = f})

(* UalinkProtocolEngine: what the handlers of both ports, in port order,   *)
(* make of the outstanding requests; a completion of none is only counted. *)
AfterBundle(out, b) ==
  CASE b.flow = "Request"    -> out \cup {b.txn}
    [] b.flow = "Completion" -> out \ {b.txn}
    [] OTHER                 -> out

AfterBoth(out) == AfterBundle(AfterBundle(out, req_in[0]), req_in[1])

(* dispatch_cohif: one handler for each of the five flows, none for others;*)
(* each engine's handlers count what they are given.                       *)
Dispatched(f) == IF f = "Alien" THEN 0 ELSE Count(f)

(* NullProtocolEngine::apply and TileLinkProtocolEngine::consume: whether  *)
(* the flow stands for an event of the engine.                             *)
StandsForEvent(f) ==
  IF engine = "tilelink" THEN Consumable(f) # {} ELSE f \in NullActs

EventsNow(isEvent) ==
  Cardinality({p \in Occupied : req_in[p].flow # "Alien"
                                /\ StandsForEvent(req_in[p].flow) = isEvent})

(* tick: every occupied slot is dispatched and emptied, in port order.     *)
EngineTick ==
  /\ Occupied # {}
  /\ handled' = [f \in BundleFlows |-> handled[f] + Dispatched(f)]
  /\ tally' = IF engine \in {"null", "tilelink"}
              THEN [event |-> tally.event + EventsNow(TRUE),
                    none  |-> tally.none + EventsNow(FALSE)]
              ELSE tally
  /\ outstanding' = IF engine = "ualink" THEN AfterBoth(outstanding) ELSE outstanding
  /\ req_in' = [p \in InPorts |-> EmptySlot]
  /\ UNCHANGED <<engine, moesi, records, tracker, received, leftO>>

(* Mutant: the line leaves O before the sharer tracker is asked.           *)
SubmitUnasked(e) ==
  LET to == MoesiTable(moesi, e)
      leaves == moesi = "O" /\ to # "O"
  IN  /\ engine = "moesi" /\ leftO < MaxBundles
      /\ moesi' = to
      /\ records' = IF leaves /\ tracker THEN records + 1 ELSE records
      /\ leftO' = IF leaves THEN leftO + 1 ELSE leftO
      /\ UNCHANGED <<engine, req_in, handled, tally, outstanding, tracker, received>>

(* MoesiGpuProtocolEngine::submit_local_request with                       *)
(* project_with_compensation: leaving O loses the fact that others share   *)
(* the line, so it is refused unless a tracker was asked and the answer    *)
(* recorded.                                                               *)
SubmitLocal(e) ==
  LET to == MoesiTable(moesi, e)
      leaves == moesi = "O" /\ to # "O"
  IN  /\ engine = "moesi" /\ leftO < MaxBundles
      /\ ~leaves \/ tracker
      /\ moesi' = to
      /\ records' = IF leaves THEN records + 1 ELSE records
      /\ leftO' = IF leaves THEN leftO + 1 ELSE leftO
      /\ UNCHANGED <<engine, req_in, handled, tally, outstanding, tracker, received>>

CepNext ==
  \/ \E p \in InPorts, f \in BundleFlows, t \in EngineTxns :
       Arrive(p, [flow |-> f, txn |-> t])
  \/ EngineTick
  \/ \E e \in {"Rd", "Wr", "Inv", "InvAck", "Fl", "FlAck"} : SubmitLocal(e)

CepSpec == CepInit /\ [][CepNext]_cepVars

-----------------------------------------------------------------------------
(* Nothing is handled twice or lost between the slot and its handler: each *)
(* arrived bundle of a known flow is counted once or still in its slot,    *)
(* and every counted one is an event or explicitly none; and the line of   *)
(* the Moesi engine never left O without the tracker's answer on record.   *)
EnginesAccount ==
  /\ \A f \in BundleFlows \ {"Alien"} : received[f] = handled[f] + Count(f)
  /\ engine \in {"null", "tilelink"} =>
       /\ tally.event = handled["Completion"] +
            IF engine = "null" THEN 0
            ELSE handled["Snoop"] + handled["SnoopResp"] + handled["Writeback"]
       /\ tally.event + tally.none + Cardinality(Occupied) + handled["Alien"]
            + (received["Alien"] - Count("Alien")) = Total
  /\ records = leftO
=============================================================================
