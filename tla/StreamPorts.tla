---------------------------- MODULE StreamPorts ----------------------------
(***************************************************************************)
(* The edge of the mesh: a NICTLM (nic_tlm.cc) that cuts requests into     *)
(* flits, a LinkTLM (link_tlm.cc) that carries a flit for latency_ cycles, *)
(* and the NICTLM at its other end, which answers.  One cycle ticks the    *)
(* three in this order; each takes its input slot in every tick, so a slot *)
(* is free when the module before it writes.  Data and the address map are *)
(* left out; a request is [txn, len] with len its number of flits.         *)
(*                                                                         *)
(* What carries a bundle from one module to another: the output slot a     *)
(* module writes, the tick of its stream adapter, the pair of ports of the *)
(* connection, and the adapter of the receiver, which puts the bundle in   *)
(* an input slot or drops it.  Two modules "a" and "b" of any of the kinds *)
(* of adapter, and the connections between them, are chosen first.         *)
(*                                                                         *)
(* The module itself is left open: it may write and take in any order.     *)
(***************************************************************************)
EXTENDS Integers, SequencesExt, FiniteSets, Sequences

CONSTANTS
  Reqs,        \* requests the processing element sends: [txn, len]
  Latencies,   \* values of set_latency
  MaxReqs,     \* bound: requests sent
  Types,       \* types of module: Registered gives each its kind and ports
  Wirings,     \* sets of connections [src, sp, dst, dp]
  MaxMsgs      \* bound: bundles written, credits among them

VARIABLES
  queue,     \* pending_flit_queue_ of the sender
  latency,   \* latency_
  delay,     \* delay_queue_: flits with their remaining cycles
  pending,   \* pending_packets_ of the receiver: their transactions
  answers,   \* history: transactions answered at pe_resp_out_
  sent,      \* history: the requests taken, in order
  arrived,   \* history: flits that reached the receiver, in order
  changed,   \* history: the latency was lowered while flits were under way
  type,      \* module -> type
  wires,     \* the connections
  out,       \* module -> output slot -> the message it holds
  inp,       \* module -> input slot -> the message it holds
  credits,   \* module -> pending_credits_: ports
  usage,     \* packets of the pool that are not free
  made,      \* how many messages were written
  fate       \* history: message -> what became of it and where it came in

edgeVars == <<queue, latency, delay, pending, answers, sent, arrived, changed>>

EdgeInit ==
  /\ queue = << >> /\ delay = << >> /\ pending = << >>
  /\ latency \in Latencies
  /\ answers = << >> /\ sent = << >> /\ arrived = << >> /\ changed = FALSE

Head0(f) == f.index = 0
Tail0(f) == f.index = f.len - 1

(* NICTLM::packetize: no flit at all for a request of size 0.              *)
Packetize(q) == [i \in 1..q.len |-> [txn |-> q.txn, len |-> q.len, index |-> i - 1]]

(* LinkTLM::tick: the counters go down before the slot is taken.  A flit   *)
(* taken with latency 0 wraps its unsigned counter and never comes out.    *)
Counted == [i \in DOMAIN delay |-> [delay[i] EXCEPT !.left = IF @ <= 0 THEN -1 ELSE @ - 1]]
Due     == SelectSeq(Counted, LAMBDA d : d.left = 0)
Carried == SelectSeq(Counted, LAMBDA d : d.left # 0)

(* Mutant: the tail alone answers.                                         *)
AnswersAtTail(f, new) == Tail0(f)

(* NICTLM::reassemble: whether this flit makes the answer.                 *)
Answers(f, new) == Tail0(f) \/ new

(* NICTLM::handle_net_resp: the flits of a packet that is not known are    *)
(* dropped unless they are heads.                                          *)
Reassemble(f) ==
  LET new   == f.txn \notin ToSet(pending)
      known == IF new /\ Head0(f) THEN Append(pending, f.txn) ELSE pending
  IN  IF f.txn \notin ToSet(known) THEN UNCHANGED <<pending, answers>>
      ELSE IF Answers(f, new)
           THEN /\ pending' = Remove(known, f.txn)
                /\ answers' = Append(answers, f.txn)
           ELSE pending' = known /\ UNCHANGED answers

(* One cycle: tick of the sender, of the link and of the receiver.         *)
Cycle(req) ==
  LET flits == queue \o Packetize(req)
      onto  == IF flits = << >> THEN << >>
               ELSE <<[flit |-> Head(flits), left |-> latency]>>
  IN  /\ queue' = IF flits = << >> THEN << >> ELSE Tail(flits)
      /\ delay' = Carried \o onto
      /\ sent' = IF req.len < 0 THEN sent ELSE Append(sent, req)
      /\ IF Due = << >> THEN UNCHANGED <<pending, answers, arrived>>
         ELSE /\ arrived' = Append(arrived, Last(Due).flit)
              /\ Reassemble(Last(Due).flit)
      /\ UNCHANGED <<latency, changed>>

NoRequest == [txn |-> -1, len |-> -1]

(* LinkTLM::set_latency.                                                   *)
SetLatency(l) ==
  /\ l # latency /\ latency' = l
  /\ changed' = (changed \/ (l < latency /\ delay # << >>))
  /\ UNCHANGED <<queue, delay, pending, answers, sent, arrived>>

EdgeNext ==
  \/ Cycle(NoRequest)
  \/ \E q \in Reqs : Len(sent) < MaxReqs /\ Cycle(q)
  \/ \E l \in Latencies : SetLatency(l)

EdgeSpec == EdgeInit /\ [][EdgeNext]_edgeVars
-----------------------------------------------------------------------------
AllFlits   == FlattenSeq([i \in DOMAIN sent |-> Packetize(sent[i])])
UnderWay   == [i \in DOMAIN delay |-> delay[i].flit]
Heads(s)   == SelectSeq(s, Head0)
Txns(s)    == [i \in DOMAIN s |-> s[i].txn]
Stuck      == \E i \in DOMAIN delay : delay[i].left < 0

(* The flits leave in the order of their requests and none is lost, while  *)
(* no latency of 0 was set and none was lowered under way; and every       *)
(* request of at least one flit is answered once, when its head arrives    *)
(* and in the order the heads arrive.                                      *)
EveryHeadAnswered ==
  /\ ~changed /\ ~Stuck => arrived \o UnderWay \o queue = AllFlits
  /\ answers = Txns(Heads(arrived))
  /\ pending = << >>

-----------------------------------------------------------------------------
portVars == <<type, wires, out, inp, credits, usage, made, fate>>

Modules == {"a", "b"}
None == 0

(* The types of chstream_register.hh, by the adapter they get.             *)
Registered ==
  [t \in {"CacheTLM", "MemoryTLM", "CPUTLM", "LinkTLM", "GmmuTLM"} |-> [kind |-> "single", ports |-> 1]]
    @@ [t \in {"CrossbarTLM", "CoherentXBarTLM", "ArbiterTLM4", "PcieEndpointTLM"} |->
          [kind |-> "multi", ports |-> 4]]
    @@ [t \in {"ArbiterTLM2", "PcieMemoryDevice"} |-> [kind |-> "multi", ports |-> 2]]
    @@ [t \in {"SdmaEngineTLM"} |-> [kind |-> "multi", ports |-> 5]]
    @@ [t \in {"RouterTLM"} |-> [kind |-> "bidirectional", ports |-> 5]]
    @@ [t \in {"MesifProtocolEngine", "ChiRnfProtocolEngine"} |-> [kind |-> "engine", ports |-> 2]]
    @@ [t \in {"NICTLM"} |-> [kind |-> "dual", ports |-> 2]]

Kind(m) == Registered[type[m]].kind
PortIds(t) == 0..(Registered[t].ports - 1)

(* Output slots in the order of the tick, with the port each leaves by.    *)
(* Only the engines of CohIf bundles, a single-port module's requests and  *)
(* the network side of a NIC leave by the port of requests.                *)
Slot(name, group, port) == [name |-> name, group |-> group, port |-> port]

Egress(t) ==
  CASE Registered[t].kind = "single" -> <<Slot(0, "req_out", 0), Slot(1, "resp_out", 0)>>
    [] Registered[t].kind = "dual" -> <<Slot(0, "resp_out", 0), Slot(1, "req_out", 1)>>
    [] Registered[t].kind = "engine" ->
         [i \in 1..Registered[t].ports |-> Slot(i - 1, "req_out", i - 1)]
    [] OTHER -> [i \in 1..Registered[t].ports |-> Slot(i - 1, "resp_out", i - 1)]

OutSlots(t) == {s.name : s \in ToSet(Egress(t))}

(* Input slots: the requests and the responses of a module with one port   *)
(* (0 and 1), the processing element's and the network's side of a NIC,    *)
(* one slot for each port of the others.                                   *)
InSlots(t) == IF Registered[t].kind \in {"single", "dual"} THEN {0, 1} ELSE PortIds(t)

PortInit ==
  /\ type \in [Modules -> Types]
  /\ wires \in {w \in Wirings : \A c \in w : c.sp \in PortIds(type[c.src]) /\ c.dp \in PortIds(type[c.dst])}
  /\ out = [m \in Modules |-> [s \in OutSlots(type[m]) |-> None]]
  /\ inp = [m \in Modules |-> [s \in InSlots(type[m]) |-> None]]
  /\ credits = [m \in Modules |-> << >>]
  /\ usage = 0 /\ made = 0
  /\ fate = << >>

-----------------------------------------------------------------------------
(* Where the port of a module leads: a connection pairs the source's       *)
(* req_out with the destination's req_in and the destination's resp_out    *)
(* with the source's resp_in.  << >> when the port is in no pair.          *)
Peer(m, group, p) ==
  LET ends == IF group = "req_out"
              THEN {<<c.dst, c.dp>> : c \in {d \in wires : d.src = m /\ d.sp = p}}
              ELSE {<<c.src, c.sp>> : c \in {d \in wires : d.dst = m /\ d.dp = p}}
  IN  IF ends = {} THEN << >> ELSE CHOOSE e \in ends : TRUE

(* The type of the packet: what the adapter says, or the flit's category.  *)
PacketType(m, slot) ==
  CASE Kind(m) \in {"single", "dual"} -> IF slot.group = "req_out" THEN "REQ" ELSE "RESP"
    [] Kind(m) = "multi" -> "RESP"
    [] Kind(m) = "engine" -> "REQ"
    [] OTHER -> "any"

(* process_request_input(pkt, unsigned): only the multi-port adapter has   *)
(* one.  The others fall back to the form without a port: a single port's  *)
(* goes by the type of the packet, the bidirectional one's takes slot 0    *)
(* (its own form with a port has a std::size_t and overrides nothing), the *)
(* dual one's takes the slot of the processing element.                    *)
Landing(m, t, p) ==
  CASE Kind(m) = "single" -> IF t = "RESP" THEN 1 ELSE 0
    [] Kind(m) = "multi"  -> p
    [] OTHER -> 0

(* ChStreamTargetPort::recvReq: an occupied slot drops the bundle; the     *)
(* packet goes back to the pool in either case.                            *)
Arrive(s, msg, m, t, p) ==
  LET slot == Landing(m, t, p)
      came(what) == [s.fate[msg] EXCEPT !.what = what, !.to = m, !.port = p, !.slot = slot]
  IN  IF s.inp[m][slot] = None
      THEN [s EXCEPT !.inp[m][slot] = msg, !.fate[msg] = came("in")]
      ELSE [s EXCEPT !.fate[msg] = came("dropped")]

(* One valid slot of the tick.  A port that leads nowhere refuses; the     *)
(* multi-port adapter clears the slot all the same.                        *)
SendSlot(m, s, slot) ==
  LET msg  == s.out[m][slot.name]
      peer == Peer(m, slot.group, slot.port)
      gone == [s EXCEPT !.out[m][slot.name] = None]
      t == IF PacketType(m, slot) = "any" THEN s.fate[msg].type ELSE PacketType(m, slot)
  IN  IF msg = None THEN s
      ELSE IF peer # << >> THEN Arrive(gone, msg, peer[1], t, peer[2])
      ELSE IF Kind(m) = "multi" THEN [gone EXCEPT !.fate[msg].what = "cleared"]
      ELSE s

(* BidirectionalPortAdapter::send_credit_impl: a packet of its own, by the *)
(* port of responses; nobody frees it when that port leads nowhere.        *)
SendCredit(m, s, msg) ==
  LET peer == Peer(m, "resp_out", s.fate[msg].slot)
  IN  IF peer = << >>
      THEN [s EXCEPT !.usage = @ + 1, !.fate[msg].what = "leaked"]
      ELSE Arrive(s, msg, peer[1], "CREDIT", peer[2])

World == [out |-> out, inp |-> inp, fate |-> fate, usage |-> usage]

(* The adapter's tick.                                                     *)
AdapterTick(m) ==
  LET told == FoldLeft(LAMBDA s, slot : SendSlot(m, s, slot), World, Egress(type[m]))
      s    == FoldLeft(LAMBDA x, msg : SendCredit(m, x, msg), told, credits[m])
  IN  /\ out' = s.out /\ inp' = s.inp /\ fate' = s.fate /\ usage' = s.usage
      /\ credits' = [credits EXCEPT ![m] = << >>]
      /\ UNCHANGED <<type, wires, made>>

Born(m, slot, t, what) ==
  [what |-> what, from |-> m, by |-> slot, type |-> t, to |-> m, port |-> 0, slot |-> slot]

(* OutputStreamAdapter::write replaces what the slot holds.  The type is   *)
(* the category of the flit, which only a router's adapter looks at.       *)
Write(m, slot, t) ==
  /\ made < MaxMsgs
  /\ Kind(m) = "bidirectional" \/ t = "REQ"
  /\ made' = made + 1
  /\ fate' = Append([i \in DOMAIN fate |->
                       IF i = out[m][slot] THEN [fate[i] EXCEPT !.what = "overwritten"] ELSE fate[i]],
                    Born(m, slot, t, "out"))
  /\ out' = [out EXCEPT ![m][slot] = made']
  /\ UNCHANGED <<type, wires, inp, credits, usage>>

(* BidirectionalPortAdapter::send_credit, sent by the next tick.           *)
QueueCredit(m, port) ==
  /\ made < MaxMsgs /\ Kind(m) \in {"bidirectional", "engine"}
  /\ made' = made + 1
  /\ fate' = Append(fate, Born(m, port, "CREDIT", "queued"))
  /\ credits' = [credits EXCEPT ![m] = Append(@, made')]
  /\ UNCHANGED <<type, wires, out, inp, usage>>

(* InputStreamAdapter::consume                                             *)
Consume(m, slot) ==
  /\ inp[m][slot] # None
  /\ inp' = [inp EXCEPT ![m][slot] = None]
  /\ fate' = [fate EXCEPT ![inp[m][slot]].what = "taken"]
  /\ UNCHANGED <<type, wires, out, credits, usage, made>>

PortNext ==
  \E m \in Modules :
    \/ AdapterTick(m)
    \/ \E slot \in OutSlots(type[m]), t \in {"REQ", "RESP"} : Write(m, slot, t)
    \/ \E port \in PortIds(type[m]) : QueueCredit(m, port)
    \/ \E slot \in InSlots(type[m]) : Consume(m, slot)

PortSpec == PortInit /\ [][PortNext]_portVars
-----------------------------------------------------------------------------
(* Every message is where its fate says, and in one place only; a packet   *)
(* is missing from the pool for each credit that had nowhere to go.        *)
MessagesAccounted ==
  /\ \A i \in DOMAIN fate :
       /\ (fate[i].what = "out") = (out[fate[i].from][fate[i].by] = i)
       /\ (fate[i].what = "in") = (inp[fate[i].to][fate[i].slot] = i)
       /\ (fate[i].what = "queued") = (i \in ToSet(credits[fate[i].from]))
  /\ usage = Cardinality({i \in DOMAIN fate : fate[i].what = "leaked"})

Reached(i) == fate[i].what \in {"in", "taken", "dropped"}

(* What a slot sends comes in the order it was written: a message that is  *)
(* still on its way was written after all that left the same slot.         *)
SlotsKeepOrder ==
  \A i, j \in DOMAIN fate :
    i < j /\ fate[i].from = fate[j].from /\ fate[i].by = fate[j].by
      /\ fate[i].type # "CREDIT" /\ fate[j].type # "CREDIT" /\ Reached(j) => fate[i].what # "out"

(* A multi-port module gets a bundle in the slot of the port it came by; a *)
(* module with one port gets an answer only from one it is the source of a *)
(* connection to; all others get everything in their first slot.           *)
SlotOfPort ==
  \A i \in DOMAIN fate : Reached(i) =>
    LET to == fate[i].to
    IN  CASE Kind(to) = "multi"  -> fate[i].slot = fate[i].port
          [] Kind(to) = "single" -> fate[i].slot = 1 => \E c \in wires : c.src = to /\ c.dst = fate[i].from
          [] OTHER -> fate[i].slot = 0

PortsSound == MessagesAccounted /\ SlotsKeepOrder /\ SlotOfPort
=============================================================================
