------------------------------ MODULE SimKernel ------------------------------
(***************************************************************************)
(* The event queue, and two objects it ticks: a sender with a downstream   *)
(* port and a receiver with the upstream port at its other end.  Packets   *)
(* come from the pool, cross the ports on virtual channels and are handled *)
(* or, if they are fragments, collected by the receiver.                   *)
(*                                                                         *)
(* Events of one time fire in any order: the priority queue compares times *)
(* only.                                                                   *)
(***************************************************************************)
EXTENDS Integers, FiniteSets, Sequences, SequencesExt

CONSTANTS
  Pkts,       \* packets
  Channel,    \* packet -> its vc_id
  Group,      \* packet -> <<group, fragment_id, fragment_total>>
  OutCap,     \* capacity of an OutputVC
  InCap,      \* capacity of an InputVC
  MaxCycle    \* bound: the run ends here

VARIABLES
  cycle,      \* cur_cycle
  end,        \* end_cycle of the run that is under way, 0 between runs
  due,        \* object -> fire_time of its TickEvent, 0 before it is started
  place,      \* packet -> free, held, out, in, kept, lost
  earlier,    \* history: <<p, q>> when p was sent before q, of those not given back
  out,        \* channel -> buffer of the OutputVC
  inp,        \* channel -> buffer of the InputVC
  usage       \* m_current_usage of the pool

kernelVars == <<cycle, end, due, place, earlier, out, inp, usage>>

Objs == {"sender", "receiver"}
Vcs == {Channel[p] : p \in Pkts}

KernelInit ==
  /\ cycle = 0 /\ end = 0
  /\ due = [o \in Objs |-> 0]
  /\ place = [p \in Pkts |-> "free"]
  /\ earlier = {}
  /\ out = [v \in Vcs |-> << >>]
  /\ inp = [v \in Vcs |-> << >>]
  /\ usage = 0

Started == {o \in Objs : due[o] > 0}

(* startAllTicks                                                           *)
InitiateTick(o) ==
  /\ end = 0 /\ due[o] = 0
  /\ due' = [due EXCEPT ![o] = cycle + 1]
  /\ UNCHANGED <<cycle, end, place, earlier, out, inp, usage>>

Run(n) ==
  /\ end = 0 /\ cycle + n <= MaxCycle
  /\ end' = cycle + n
  /\ UNCHANGED <<cycle, due, place, earlier, out, inp, usage>>

(* Events at end_cycle or later wait for the next run.                     *)
EndRun ==
  /\ end > 0 /\ \A o \in Started : due[o] >= end
  /\ cycle' = end /\ end' = 0
  /\ UNCHANGED <<due, place, earlier, out, inp, usage>>

-----------------------------------------------------------------------------
(* PacketPool.  The counts of references are never raised, so releasing a  *)
(* packet never releases its original_req.                                 *)
Acquire(p) ==
  /\ place[p] = "free"
  /\ usage' = usage + 1

Releasing(S) == usage' = usage - Cardinality(S)

(* SlavePort::recv: the InputVC takes the packet or drops it.              *)
RoomIn(v) == Len(inp[v]) < InCap

(* Mutant: a packet is sent past those that wait.                          *)
SendReqDirect(p) ==
  LET v == Channel[p]
  IN  IF RoomIn(v)
      THEN [to |-> "in", out |-> out[v], inp |-> Append(inp[v], p)]
      ELSE IF Len(out[v]) < OutCap
           THEN [to |-> "out", out |-> Append(out[v], p), inp |-> inp[v]]
           ELSE [to |-> "held", out |-> out[v], inp |-> inp[v]]

(* DownstreamPort::sendReq: behind the packets of its channel if there are *)
(* any, else directly, else into the channel, else refused.                *)
SendReq(p) ==
  LET v == Channel[p]
  IN  IF out[v] = << >> /\ RoomIn(v)
      THEN [to |-> "in", out |-> out[v], inp |-> Append(inp[v], p)]
      ELSE IF Len(out[v]) < OutCap
           THEN [to |-> "out", out |-> Append(out[v], p), inp |-> inp[v]]
           ELSE [to |-> "held", out |-> out[v], inp |-> inp[v]]

(* OutputVC::trySend hands the first packet to the same sendReq, which     *)
(* finds the channel occupied, by this packet, and puts it behind; when    *)
(* that succeeds the first one is taken out.                               *)
Rotated(q) == IF q # << >> /\ Len(q) < OutCap THEN Append(Tail(q), Head(q)) ELSE q

(* A module ticks its port or does not.                                    *)
PortTick(q) == out' \in {q, [v \in Vcs |-> Rotated(q[v])]}

(* The packets that were sent and not given back.                          *)
Sent == {p \in Pkts : place[p] \notin {"free", "held"}}
Among(S) == earlier \cap (S \X S)

(* The sender's tick: it sends a new packet, or one that was refused, or   *)
(* gives that one back, or nothing.                                        *)
Send(p) ==
  /\ place[p] \in {"free", "held"}
  /\ IF place[p] = "free" THEN Acquire(p) ELSE UNCHANGED usage
  /\ LET r == SendReq(p)
         v == Channel[p]
     IN  /\ place' = [place EXCEPT ![p] = r.to]
         /\ earlier' = IF r.to = "held" THEN earlier
                       ELSE earlier \cup (Sent \X {p})
         /\ PortTick([out EXCEPT ![v] = r.out])
         /\ inp' = [inp EXCEPT ![v] = r.inp]

GiveBack(p) ==
  /\ place[p] = "held"
  /\ Releasing({p})
  /\ place' = [place EXCEPT ![p] = "free"]
  /\ PortTick(out)
  /\ UNCHANGED <<earlier, inp>>

SendNothing ==
  /\ PortTick(out)
  /\ UNCHANGED <<place, earlier, inp, usage>>

SenderTick == SendNothing \/ \E p \in Pkts : Send(p) \/ GiveBack(p)

-----------------------------------------------------------------------------
(* processWithFragmentation: a packet that is whole is handled and given   *)
(* back; a fragment stays in the buffer of its group, also when the group  *)
(* is complete; one that is there already is neither kept nor given back.  *)
IsFragment(p) == Group[p][3] > 1

Buffered(p) ==
  \E q \in Pkts : place[q] = "kept" /\ Group[q][1] = Group[p][1] /\ Group[q][2] = Group[p][2]

Handle(p) ==
  IF ~IsFragment(p) THEN "free" ELSE IF Buffered(p) THEN "lost" ELSE "kept"

(* The upstream port's tick: the first packet of every channel is offered  *)
(* to the receiver, which may refuse it.  At most one channel is taken     *)
(* from here, the others are as if refused.                                *)
Take(v) ==
  /\ inp[v] # << >>
  /\ LET p == Head(inp[v])
     IN  /\ place' = [place EXCEPT ![p] = Handle(p)]
         /\ earlier' = IF Handle(p) = "free" THEN Among(Sent \ {p}) ELSE earlier
         /\ Releasing({p} \cap {q \in Pkts : Handle(q) = "free"})
  /\ inp' = [inp EXCEPT ![v] = Tail(@)]
  /\ UNCHANGED out

(* TLMModule::do_reset gives the fragments back.                           *)
Reset ==
  LET kept == {p \in Pkts : place[p] = "kept"}
  IN  /\ kept # {}
      /\ place' = [p \in Pkts |-> IF p \in kept THEN "free" ELSE place[p]]
      /\ earlier' = Among(Sent \ kept)
      /\ Releasing(kept)
      /\ UNCHANGED <<out, inp>>

ReceiverTick ==
  \/ UNCHANGED <<place, earlier, out, inp, usage>>
  \/ \E v \in Vcs : Take(v)
  \/ Reset

(* EventQueue::run fires the earliest event; TickEvent::process ticks the  *)
(* object and schedules its next tick.                                     *)
Fire(o) ==
  /\ end > 0 /\ o \in Started /\ due[o] < end
  /\ \A x \in Started : due[o] <= due[x]
  /\ cycle' = due[o]
  /\ due' = [due EXCEPT ![o] = @ + 1]
  /\ UNCHANGED end
  /\ (o = "sender" /\ SenderTick) \/ (o = "receiver" /\ ReceiverTick)

KernelNext ==
  \/ \E o \in Objs : InitiateTick(o) \/ Fire(o)
  \/ \E n \in 1..2 : Run(n)
  \/ EndRun

KernelSpec == KernelInit /\ [][KernelNext]_kernelVars

-----------------------------------------------------------------------------
(* The objects tick in step: an event never fires late, and no object is a *)
(* tick ahead of one that was started before it by more than the one of    *)
(* this cycle.                                                             *)
InStep ==
  \A o \in Started : due[o] \in {cycle, cycle + 1}

(* Packets: each is in one place and once, no buffer holds more than it    *)
(* may, the pool counts those it has handed out.                           *)
PacketsAccounted ==
  LET at(s) == {p \in Pkts : place[p] = s}
      queued(q) == UNION {ToSet(q[v]) : v \in Vcs}
  IN  /\ usage = Cardinality(Pkts \ at("free"))
      /\ queued(out) = at("out") /\ queued(inp) = at("in")
      /\ \A v \in Vcs : /\ IsInjective(out[v]) /\ Len(out[v]) <= OutCap
                        /\ IsInjective(inp[v]) /\ Len(inp[v]) <= InCap

(* A packet that crossed was sent before all that still wait to cross on   *)
(* its channel, and those of a channel arrive in the order they were sent. *)
ChannelsInOrder ==
  \A v \in Vcs :
    /\ \A p \in ToSet(inp[v]), q \in ToSet(out[v]) : <<p, q>> \in earlier
    /\ \A i, j \in DOMAIN inp[v] : i < j => <<inp[v][i], inp[v][j]>> \in earlier

KernelSound == InStep /\ PacketsAccounted /\ ChannelsInOrder

=============================================================================
