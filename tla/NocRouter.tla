------------------------------ MODULE NocRouter ------------------------------
(***************************************************************************)
(* RouterTLM (src/src/tlm/router_tlm.cc): five ports, virtual channels     *)
(* with an input buffer each, and the six stages that one tick runs from   *)
(* buffer write to link traversal.  The neighbours are outside the source: *)
(* they put a flit into an input slot when it is empty and return credits. *)
(* A flit is its packet, its number in it and the channel it names; the    *)
(* hop count, the statistics and the parameter rules are left out, and so  *)
(* is the cycle the adapter keeps a credit, which reaches no decision.     *)
(***************************************************************************)
EXTENDS Integers, SequencesExt, FiniteSets

CONSTANTS
  MeshX,     \* mesh_x_
  Node,      \* node_id()
  Vcs,       \* NUM_VCS, 4 in the code
  Depth,     \* BUFFER_DEPTH, 8 in the code
  Packets,   \* packet -> [port, dst, len, txn]: what the neighbours send;
             \* every generator numbers its own, so packets may share a txn
  Timeout    \* whether credit_timeout_ is set

VARIABLES
  r,         \* the router's registers
  sent,      \* environment: packet -> flits put into the input slot
  dropped,   \* history: flits the buffer write had no room for
  left       \* history: the flits put on a wire, each with its port

routerVars == <<r, sent, dropped, left>>

North == 0
East  == 1
South == 2
West  == 3
Pe    == 4      \* LOCAL
Ports == North..Pe
Vc    == 0..(Vcs - 1)
NoFlit == [pkt |-> "none"]

Flit(p, i) == [pkt |-> p, idx |-> i, vc |-> i % Vcs]
IsHead(f)  == f.idx = 0
IsTail(f)  == f.idx = Packets[f.pkt].len - 1
Txn(f)     == Packets[f.pkt].txn

(* XYRouting::computeRoute, from the node (x, y) to the node d.            *)
Route(x, y, d) ==
  LET dx == d % MeshX
      dy == d \div MeshX
  IN  CASE dx > x -> East [] dx < x -> West
        [] dx = x /\ dy > y -> North [] dx = x /\ dy < y -> South
        [] OTHER -> Pe

RouterInit ==
  /\ r = [inp   |-> [p \in Ports |-> NoFlit],
          buf   |-> [p \in Ports, v \in Vc |-> << >>],
          alloc |-> {},                              \* vc_state_.allocated
          credit |-> [p \in Ports, v \in Vc |-> Depth],
          table |-> << >>,                   \* routing_table_, by txn
          wait  |-> [p \in Ports, v \in Vc |-> NoFlit],  \* pipe_reg_
          link  |-> << >>]                           \* pending_link_
  /\ sent = [p \in DOMAIN Packets |-> 0]
  /\ dropped = {} /\ left = << >>

-----------------------------------------------------------------------------
(* The stages, each a function of the registers.  An entry of a buffer is  *)
(* a flit with its stage: out is the output port once the route is known,  *)
(* ovc the channel once one is allocated.                                  *)
InOrder == [i \in 1..(5 * Vcs) |-> <<(i - 1) \div Vcs, (i - 1) % Vcs>>]

Entry(f) == [flit |-> f, out |-> -1, ovc |-> -1]
SetHead(s, e) == <<e>> \o Tail(s)

(* stage_buffer_write: a flit that finds its buffer full is gone.          *)
BufferWrite(s) ==
  [s EXCEPT !.inp = [p \in Ports |-> NoFlit],
            !.buf = [p \in Ports, v \in Vc |->
               IF s.inp[p] # NoFlit /\ s.inp[p].vc = v /\ Len(s.buf[p, v]) < Depth
               THEN Append(s.buf[p, v], Entry(s.inp[p])) ELSE s.buf[p, v]]]

Refused(s) == {s.inp[p] : p \in {q \in Ports : s.inp[q] # NoFlit
                                   /\ Len(s.buf[q, s.inp[q].vc]) >= Depth}}

(* Mutant: a flit whose packet has no entry gets the default of one.       *)
RouteDefault(s, pv) ==
  LET b == s.buf[pv]
      f == Head(b).flit
      out == Route(Node % MeshX, Node \div MeshX, Packets[f.pkt].dst)
  IN  IF b = << >> \/ (b # << >> /\ Head(b).out # -1) THEN s
      ELSE IF IsHead(f)
      THEN [s EXCEPT !.buf[pv] = SetHead(b, [Head(b) EXCEPT !.out = out]),
                     !.table = [t \in DOMAIN @ \cup {Txn(f)} |->
                                  IF t = Txn(f) THEN out ELSE @[t]]]
      ELSE [s EXCEPT !.buf[pv] = SetHead(b, [Head(b) EXCEPT !.out =
                       IF Txn(f) \in DOMAIN s.table THEN s.table[Txn(f)] ELSE North])]

(* stage_route_computation: a head asks the algorithm and leaves an entry  *)
(* for its transaction, the others find an entry of theirs or wait for it. *)
RouteOne(s, pv) ==
  LET b == s.buf[pv]
      f == Head(b).flit
      out == Route(Node % MeshX, Node \div MeshX, Packets[f.pkt].dst)
  IN  IF b = << >> \/ (b # << >> /\ Head(b).out # -1) THEN s
      ELSE IF IsHead(f)
      THEN [s EXCEPT !.buf[pv] = SetHead(b, [Head(b) EXCEPT !.out = out]),
                     !.table = [t \in DOMAIN @ \cup {Txn(f)} |->
                                  IF t = Txn(f) THEN out ELSE @[t]]]
      ELSE IF Txn(f) \in DOMAIN s.table
      THEN [s EXCEPT !.buf[pv] =
                       SetHead(b, [Head(b) EXCEPT !.out = s.table[Txn(f)]])]
      ELSE s

FreeVcs(s, o) == {v \in Vc : <<o, v>> \notin s.alloc}
LowestVc(S)   == CHOOSE v \in S : \A w \in S : v <= w

(* stage_vc_allocation, allocate_vc, release_vc: the lowest free channel   *)
(* of the output, given back at once when it has no credit.                *)
AllocateOne(s, pv) ==
  LET b == s.buf[pv]
      o == Head(b).out
  IN  IF b = << >> THEN s
      ELSE IF o = -1 \/ Head(b).ovc # -1 \/ FreeVcs(s, o) = {} THEN s
      ELSE LET v == LowestVc(FreeVcs(s, o))
           IN  IF s.credit[o, v] = 0 THEN s
               ELSE [s EXCEPT !.buf[pv] = SetHead(b, [Head(b) EXCEPT !.ovc = v]),
                              !.alloc = @ \cup {<<o, v>>}]

(* stage_switch_allocation: one winner per output, the first in order.     *)
Ready(s, pv, o) ==
  /\ s.buf[pv] # << >>
  /\ Head(s.buf[pv]).out = o /\ Head(s.buf[pv]).ovc # -1
  /\ s.credit[o, Head(s.buf[pv]).ovc] > 0

Winners(s, o) == SelectSeq(InOrder, LAMBDA pv : Ready(s, pv, o))

(* Mutant: a tail keeps the channel it holds.                              *)
ForwardKeepsVc(s, e) ==
  LET out == [s EXCEPT !.credit[e.out, e.ovc] = @ - 1,
                       !.link = Append(@, [flit |-> e.flit, port |-> e.out])]
  IN  IF ~IsTail(e.flit) THEN out
      ELSE [out EXCEPT !.table = [t \in DOMAIN @ \ {Txn(e.flit)} |-> @[t]]]

(* A flit goes to the link: the credit is spent, and a tail frees the      *)
(* channel it holds and the entry of its transaction.                      *)
Forward(s, e) ==
  LET out == [s EXCEPT !.credit[e.out, e.ovc] = @ - 1,
                       !.link = Append(@, [flit |-> e.flit, port |-> e.out])]
  IN  IF ~IsTail(e.flit) THEN out
      ELSE [out EXCEPT !.alloc = @ \ {<<e.out, e.ovc>>},
                       !.table = [t \in DOMAIN @ \ {Txn(e.flit)} |-> @[t]]]

(* stage_switch_traversal, first the flits that waited for a credit.       *)
Resume(s, ov) ==
  IF s.wait[ov] = NoFlit \/ s.credit[ov] = 0 THEN s
  ELSE [Forward(s, s.wait[ov]) EXCEPT !.wait[ov] = NoFlit]

(* Then the winner w of an output, chosen before: it is forwarded, or      *)
(* parked in the register of its channel when the credit is gone by now.   *)
Traverse(s, o, w) ==
  LET e == Head(s.buf[w[1]])
      popped == [s EXCEPT !.buf[w[1]] = Tail(@)]
  IN  IF w = << >> THEN s
      ELSE IF s.credit[o, e.ovc] = 0
      THEN [popped EXCEPT !.wait[o, e.ovc] = e]
      ELSE Forward(popped, e)

OnLink(s) == IF s.link = << >> THEN << >> ELSE <<Head(s.link)>>

(* stage_link_traversal: one flit of the whole router per cycle.           *)
LinkTraversal(s) == IF s.link = << >> THEN s ELSE [s EXCEPT !.link = Tail(@)]

BeforeLink(s) ==
  LET routed    == FoldLeft(RouteOne, BufferWrite(s), InOrder)
      allocated == FoldLeft(AllocateOne, routed, InOrder)
      won       == [o \in Ports |-> Winners(allocated, o)]
      resumed   == FoldLeft(Resume, allocated, InOrder)
  IN  FoldLeft(LAMBDA t, o : Traverse(t, o, won[o]), resumed,
               <<North, East, South, West, Pe>>)

(* tick                                                                    *)
Tick ==
  LET t == BeforeLink(r)
  IN  /\ r' = LinkTraversal(t)
      /\ dropped' = dropped \cup Refused(r)
      /\ left' = left \o OnLink(t)
      /\ UNCHANGED sent

(* credit_safety_reset of a channel that was not given a credit for        *)
(* credit_timeout_ cycles.                                                 *)
CreditSafetyReset(p, v) ==
  /\ Timeout /\ r.credit[p, v] < Depth
  /\ r' = [r EXCEPT !.credit[p, v] = Depth]
  /\ UNCHANGED <<sent, dropped, left>>

(* receive_credit                                                          *)
ReceiveCredit(p, v) ==
  /\ r.credit[p, v] < Depth
  /\ r' = [r EXCEPT !.credit[p, v] = @ + 1]
  /\ UNCHANGED <<sent, dropped, left>>

(* A neighbour's flit in an empty input slot.                              *)
FlitArrives(p) ==
  /\ sent[p] < Packets[p].len /\ r.inp[Packets[p].port] = NoFlit
  /\ r' = [r EXCEPT !.inp[Packets[p].port] = Flit(p, sent[p])]
  /\ sent' = [sent EXCEPT ![p] = @ + 1]
  /\ UNCHANGED <<dropped, left>>

RouterNext ==
  \/ Tick
  \/ \E p \in Ports, v \in Vc : ReceiveCredit(p, v) \/ CreditSafetyReset(p, v)
  \/ \E p \in DOMAIN Packets : FlitArrives(p)

-----------------------------------------------------------------------------
AllFlits == UNION {{Flit(p, i) : i \in 0..(sent[p] - 1)} : p \in DOMAIN Packets}

InBuffers(f) ==
  Cardinality({pv \in Ports \X Vc : \E i \in DOMAIN r.buf[pv] : r.buf[pv][i].flit = f})
OnWire == left \o r.link
Places(f) ==
  Cardinality({p \in Ports : r.inp[p] = f}) + InBuffers(f)
  + Cardinality({pv \in Ports \X Vc : r.wait[pv] # NoFlit /\ r.wait[pv].flit = f})
  + Cardinality({i \in DOMAIN OnWire : OnWire[i].flit = f})
  + (IF f \in dropped THEN 1 ELSE 0)

XyRoute(p) == Route(Node % MeshX, Node \div MeshX, Packets[p].dst)
SharesTxn(p) == {q \in DOMAIN Packets : Packets[q].txn = Packets[p].txn}

(* Every flit the router took is in one place, a buffer, a register or a   *)
(* wire, whatever the neighbours send and whenever they return credits; in *)
(* particular the register of a channel, which the switch traversal writes *)
(* without looking, never loses the flit that is in it.  A head leaves by  *)
(* the port the XY route of its packet names.  So do, after it, the other  *)
(* flits of a packet that shares its transaction with none; those of other *)
(* packets leave by the route of a packet of their transaction             *)
(* (router_tlm.cc:188-205).                                                *)
FlitsAccounted ==
  /\ \A f \in AllFlits : Places(f) = 1
  /\ \A i \in DOMAIN OnWire :
       LET f == OnWire[i].flit
       IN  IF IsHead(f) THEN OnWire[i].port = XyRoute(f.pkt)
           ELSE /\ OnWire[i].port \in {XyRoute(q) : q \in SharesTxn(f.pkt)}
                /\ SharesTxn(f.pkt) = {f.pkt} =>
                     \E j \in 1..(i - 1) : OnWire[j].flit = Flit(f.pkt, 0)

Holders(o, v) == {pv \in Ports \X Vc :
                    r.buf[pv] # << >> /\ Head(r.buf[pv]).out = o /\ Head(r.buf[pv]).ovc = v}
Held(o)    == {v \in Vc : Holders(o, v) # {}}
Orphans(o) == {v \in Vc : <<o, v>> \in r.alloc} \ Held(o)

(* An output loses no channel but those of the flits that are not tails:   *)
(* every flit is given one of its own and only a tail gives its own back.  *)
(* So a channel is held by the flit at the head of a buffer, by no two     *)
(* flits, or was taken along by the head or the body of a packet.          *)
ChannelsAccounted ==
  \A o \in Ports :
    /\ Cardinality(Orphans(o)) <=
         Cardinality({i \in DOMAIN OnWire : OnWire[i].port = o /\ ~IsTail(OnWire[i].flit)})
    /\ \A v \in Held(o) : <<o, v>> \in r.alloc
                             /\ Cardinality(Holders(o, v)) = 1
    /\ \A v \in Vc : r.credit[o, v] \in 0..Depth
=============================================================================
