------------------------------- MODULE MemPath -------------------------------
(***************************************************************************)
(* The memory side of a system without coherence: two TrafficGenTLM        *)
(* (traffic_gen_tlm.hh) behind an ArbiterTLM (arbiter_tlm.hh) before a     *)
(* CacheTLM, a MemoryTLM or a VramControllerTLM, or at two ports of a      *)
(* CrossbarTLM.  All tick once a cycle in a fixed order, and at the end of *)
(* its tick a module's adapter moves what its output slots hold into the   *)
(* next modules' input slots.  Data, the                                   *)
(* statistics and the address patterns are left out; a request is in one   *)
(* of two rows, or beyond the capacity.                                    *)
(***************************************************************************)
EXTENDS Integers, SequencesExt, FiniteSets

CONSTANTS
  PerGen,    \* num_requests_
  Kinds,     \* the requests the patterns make: <<row, operation>>
  HitLat, MissLat, WriteLat   \* read_latency_*, write_latency_cycles_

VARIABLES
  kind,      \* what is behind the arbiter, or "crossbar"
  path       \* the registers of all four modules

pathVars == <<kind, path>>

Gens    == {0, 1}
NoReq   == [gen |-> -1]
Slot(x) == x # NoReq

PathInit ==
  /\ kind \in {"cache", "memory", "memory_timed", "vram_timed", "crossbar"}
  /\ path = [issued |-> [g \in Gens |-> 0], completed |-> [g \in Gens |-> 0],
             gin |-> [g \in Gens |-> NoReq],     \* TrafficGenTLM::resp_in_
             ain |-> [g \in Gens |-> NoReq],     \* ArbiterTLM::req_in
             queue |-> << >>,                    \* req_queue_
             owner |-> << >>,                    \* txn_to_port_
             rin |-> NoReq,                      \* ArbiterTLM::resp_in_
             min |-> NoReq,                      \* MemoryTLM::req_in_
             pend |-> {},                        \* pending_resps_
             row |-> -1,                         \* row_buffer_base_, -1 invalid
             done |-> {},                        \* history: <<master, request>>
             lost |-> {},                        \* history: <<request, how>>
             clashed |-> {}]                     \* history: ids of two masters at once

-----------------------------------------------------------------------------
Lose(p, S, how) == [p EXCEPT !.lost = @ \cup {<<x, how>> : x \in S}]

(* TrafficGenTLM::tick, issueRequest: the answer is counted by its number  *)
(* alone; a new request has the next number of this generator.             *)
GenTick(p, g, new) ==
  LET took == IF ~Slot(p.gin[g]) THEN p
              ELSE [p EXCEPT !.gin[g] = NoReq, !.completed[g] = @ + 1,
                             !.done = @ \cup {<<g, p.gin[g]>>}]
      req  == [new EXCEPT !.gen = g, !.id = took.issued[g]]
  IN  IF new = NoReq \/ took.completed[g] >= PerGen \/ took.issued[g] >= PerGen
      THEN took
      ELSE LET out == [took EXCEPT !.issued[g] = @ + 1]
           IN  IF Slot(out.ain[g]) THEN Lose(out, {req}, "occupied")
               ELSE [out EXCEPT !.ain[g] = req]

(* ArbiterTLM::tick, the requests: all that arrived are queued in the      *)
(* order of the ports, and the head of the queue goes on.  The owner of a  *)
(* transaction number is the last port that used it.                       *)
Accept(p, g) ==
  IF ~Slot(p.ain[g]) THEN p
  ELSE LET t == p.ain[g].id
       IN  [p EXCEPT !.queue = Append(@, p.ain[g]), !.ain[g] = NoReq,
                     !.owner = [u \in DOMAIN @ \cup {t} |-> IF u = t THEN g ELSE @[u]],
                     !.clashed = IF t \in DOMAIN p.owner THEN @ \cup {t} ELSE @]

Serve(p) ==
  IF p.queue = << >> THEN p
  ELSE LET q == [p EXCEPT !.queue = Tail(@)]
       IN  IF Slot(p.min) THEN Lose(q, {Head(p.queue)}, "occupied")
           ELSE [q EXCEPT !.min = Head(p.queue)]

(* The answer goes to the owner of its number, and to nobody without one.  *)
ReturnAnswer(p) ==
  IF ~Slot(p.rin) THEN p
  ELSE LET t == p.rin.id
           q == [p EXCEPT !.rin = NoReq]
       IN  IF t \notin DOMAIN p.owner THEN Lose(q, {p.rin}, "unowned")
           ELSE LET g == p.owner[t]
                    e == [q EXCEPT !.owner = [u \in DOMAIN @ \ {t} |-> @[u]]]
                IN  IF Slot(p.gin[g]) THEN Lose(e, {p.rin}, "occupied")
                    ELSE [e EXCEPT !.gin[g] = p.rin]

ArbTick(p) == ReturnAnswer(Serve(Accept(Accept(p, 0), 1)))

(* CrossbarTLM::tick: every port's request is answered at that port, the   *)
(* ports that want one destination included.                               *)
XbarTick(p) ==
  [p EXCEPT !.gin = [g \in Gens |-> IF Slot(@[g]) THEN @[g] ELSE p.ain[g]],
            !.ain = [g \in Gens |-> NoReq],
            !.lost = @ \cup {<<p.ain[g], "occupied">> :
                               g \in {h \in Gens : Slot(p.ain[h]) /\ Slot(p.gin[h])}}]

(* What the slot after the memory makes of the answers of one tick: each   *)
(* write of resp_out_ replaces the one before it.                          *)
AnswerWith(p, x, replaced) ==
  LET q == Lose(p, replaced, "overwritten")
  IN  IF Slot(p.rin) THEN Lose(q, {x}, "occupied") ELSE [q EXCEPT !.rin = x]

(* row_hit: of the row that is open, or of the rows the plain memory takes *)
(* for open.                                                               *)
RowHit(p, x) == IF kind = "vram_timed" THEN x.row = p.row ELSE x.row = 0

Latency(p, x) ==
  CASE x.op = "beyond" -> 1
    [] x.op = "write"  -> WriteLat
    [] OTHER           -> IF RowHit(p, x) THEN HitLat ELSE MissLat

(* Mutant: the timed branch leaves the request in its slot.                *)
TakeKeepsRequest(p) ==
  IF ~Slot(p.min) THEN p
  ELSE [p EXCEPT !.row = p.min.row,
                 !.pend = @ \cup {[req |-> p.min, left |-> Latency(p, p.min)]}]

(* MemoryTLM::tick in timing mode, VramControllerTLM::tick: the request is *)
(* carried out and its answer waits for its cycle.                         *)
TakeReq(p) ==
  IF ~Slot(p.min) THEN p
  ELSE [p EXCEPT !.row = p.min.row, !.min = NoReq,
                 !.pend = @ \cup {[req |-> p.min, left |-> Latency(p, p.min)]}]

Elapse(p) == [p EXCEPT !.pend = {[x EXCEPT !.left = @ - 1] : x \in @}]

(* All answers that are due are written to the one slot, in the order of   *)
(* their cycles; of those of one cycle any may be the last.                *)
Drained(p) ==
  LET due == {x \in p.pend : x.left <= 0}
  IN  IF due = {} THEN {p}
      ELSE LET q == [p EXCEPT !.pend = @ \ due]
           IN  {AnswerWith(q, x.req, {y.req : y \in due \ {x}}) :
                  x \in {y \in due : \A z \in due : z.left <= y.left}}

(* CacheTLM::tick, and MemoryTLM::tick without delay: answered at once.    *)
AtOnce(p) == IF ~Slot(p.min) THEN p ELSE AnswerWith([p EXCEPT !.min = NoReq], p.min, {})

MemTicks(p) ==
  IF kind \in {"cache", "memory"} THEN {AtOnce(p)} ELSE Drained(TakeReq(Elapse(p)))

(* One cycle: the generators, the arbiter and the memory tick in turn.     *)
Cycle(new) ==
  /\ LET p == GenTick(GenTick(path, 0, new[0]), 1, new[1])
     IN  path' \in IF kind = "crossbar" THEN {XbarTick(p)} ELSE MemTicks(ArbTick(p))
  /\ UNCHANGED kind

(* do_reset of all of them.                                                *)
PathReset ==
  /\ path' = [path EXCEPT !.issued = [g \in Gens |-> 0],
                !.completed = [g \in Gens |-> 0], !.gin = [g \in Gens |-> NoReq],
                !.ain = [g \in Gens |-> NoReq], !.queue = << >>, !.owner = << >>,
                !.rin = NoReq, !.min = NoReq, !.pend = {}, !.row = -1,
                !.done = {}, !.lost = {}, !.clashed = {}]
  /\ UNCHANGED kind

(* A pattern is asked only while requests are left.                        *)
PathNext ==
  \/ \E new \in [Gens -> {NoReq} \cup {[gen |-> 0, id |-> 0, row |-> k[1], op |-> k[2]] :
                                      k \in Kinds}] :
       (\A g \in Gens : new[g] = NoReq \/ path.issued[g] < PerGen) /\ Cycle(new)
  \/ PathReset

PathSpec == PathInit /\ [][PathNext]_pathVars
-----------------------------------------------------------------------------
InSlots == {path.gin[g] : g \in Gens} \cup {path.ain[g] : g \in Gens}
           \cup {path.rin, path.min}
Issued  == {d[2] : d \in path.done} \cup {l[1] : l \in path.lost} \cup (InSlots \ {NoReq})
           \cup ToSet(path.queue) \cup {x.req : x \in path.pend}
Times(x) ==
  Cardinality({g \in Gens : path.gin[g] = x}) + Cardinality({g \in Gens : path.ain[g] = x})
  + (IF path.rin = x THEN 1 ELSE 0) + (IF path.min = x THEN 1 ELSE 0)
  + Cardinality({i \in DOMAIN path.queue : path.queue[i] = x})
  + Cardinality({y \in path.pend : y.req = x})
  + Cardinality({d \in path.done : d[2] = x}) + Cardinality({l \in path.lost : l[1] = x})

(* Every request is under way in one place, answered once, or lost where   *)
(* the modules can lose one: an answer is overwritten only when a memory   *)
(* with latencies has two due in one cycle, finds no owner or the wrong    *)
(* one only when both generators had its number under way, and no input    *)
(* slot is ever found occupied.                                            *)
AnswersAccounted ==
  /\ \A x \in Issued : Times(x) = 1
  /\ \A g \in Gens : Cardinality({x \in Issued : x.gen = g}) = path.issued[g]
  /\ \A d \in path.done : d[1] = d[2].gen \/ d[2].id \in path.clashed
  /\ \A l \in path.lost :
       \/ l[2] = "overwritten" /\ kind \in {"memory_timed", "vram_timed"}
       \/ l[2] = "unowned" /\ l[1].id \in path.clashed
=============================================================================
