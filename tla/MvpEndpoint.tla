---------------------------- MODULE MvpEndpoint ----------------------------
(***************************************************************************)
(* The PCIe endpoint of the first board: one slot of requests, three ports *)
(* of answers, the configuration space with its list of capabilities, the  *)
(* registers of BAR 0 and the doorbells some of them ring.  A doorbell's   *)
(* value becomes the visible tail of its stream after a latency; the event *)
(* that announces it has a latency of its own, the least one.              *)
(***************************************************************************)
EXTENDS Integers, Sequences, SequencesExt

CONSTANTS
  Setups,      \* configurations: capabilities, vectors, mode of the link
  Registers,   \* registers of BAR 0 -> access and side effect
  Values,      \* values the host writes
  MinLatency, MaxLatency,   \* of a doorbell, in cycles
  MaxPending,  \* MAX_PENDING_PER_STREAM
  MaxRequests, \* bound: requests of the host
  MaxCycle     \* bound: cycles

VARIABLES
  setup,       \* the configuration that was loaded; none before
  conf,        \* capabilities_, the words of their headers, the word at 0x34
  asked,       \* requests the host has sent
  slot,        \* req_in: the request in it, or none
  cycle,       \* now_cycles_ and now_, which advance together
  bar,         \* register values, pending values and tails of the streams, events
  answers      \* history: requests answered, and by which port

mvpVars == <<setup, conf, asked, slot, cycle, bar, answers>>

None == << >>
Bells == {r \in DOMAIN Registers : Registers[r].effect = "doorbell"}
MsixId == 17
MsixOffset == 64

MvpInit ==
  /\ setup = None
  /\ conf = [caps |-> << >>, ptr |-> 0, words |-> << >>]
  /\ asked = 0 /\ slot = None /\ cycle = 0
  /\ bar = [value |-> [r \in DOMAIN Registers |-> 0], rung |-> [r \in Bells |-> << >>],
            tail |-> [r \in Bells |-> 0], refused |-> {}, events |-> << >>]
  /\ answers = << >>

-----------------------------------------------------------------------------
(* PcieConfigSpace::add_capability: refused when it is not aligned or its  *)
(* place is taken; the first one is where the pointer points.              *)
Header(c) == [id |-> c.id, next |-> c.next, control |-> c.control]

AddCapability(s, c) ==
  IF c.off % 4 # 0 \/ c.off \in {s.caps[k].off : k \in DOMAIN s.caps}
  THEN s
  ELSE [caps |-> Append(s.caps, c),
        ptr |-> IF s.caps = << >> THEN c.off ELSE s.ptr,
        words |-> [o \in DOMAIN s.words \cup {c.off} |->
                     IF o = c.off THEN Header(c) ELSE s.words[o]]]

(* update_capability_control writes the table and the word.                *)
UpdateControl(s, k, control) ==
  [s EXCEPT !.caps[k].control = control, !.words[s.caps[k].off].control = control]

(* The size goes to the five bits from bit 11 on; the rest of a declared   *)
(* control word stays.  A capability of the endpoint's own is linked from  *)
(* no other.                                                               *)
TableSize(n) == ((n - 1) % 32) * 2048

SyncMsix(s, n) ==
  LET found == {k \in DOMAIN s.caps : s.caps[k].id = MsixId}
  IN  IF found = {}
      THEN AddCapability(s, [id |-> MsixId, off |-> MsixOffset, next |-> 0,
                             control |-> TableSize(n)])
      ELSE UpdateControl(s, Min(found), TableSize(n) + (s.caps[Min(found)].control % 2048))

OnConfigLoaded ==
  /\ setup = None
  /\ setup' \in Setups
  /\ conf' = SyncMsix(FoldLeft(AddCapability, conf, setup'.caps), setup'.vectors)
  /\ UNCHANGED <<asked, slot, cycle, bar, answers>>

-----------------------------------------------------------------------------
(* The host's requests; one that finds the slot taken is lost.             *)
Ask(kind, where, v) ==
  /\ setup # None /\ asked < MaxRequests
  /\ asked' = asked + 1
  /\ slot' = IF slot = None
             THEN [id |-> asked', kind |-> kind, where |-> where, value |-> v] ELSE slot
  /\ UNCHANGED <<setup, conf, cycle, bar, answers>>

(* Doorbell::ring: a later value never shows before an earlier one.        *)
Ring(q, v, lat) ==
  LET at == cycle + lat
  IN  Append(q, [value |-> v, at |-> IF q # << >> /\ Last(q).at > at THEN Last(q).at ELSE at])

(* mmio_write and what it may lead to: the register keeps a value whose    *)
(* ring is refused, and the caller hears of no failure.  The event's time  *)
(* is the least latency, the tail's any.                                   *)
MmioWrite(b, r, v) ==
  LET kept == [b EXCEPT !.value[r] = v]
  IN  CASE Registers[r].access = "RO" -> {b}
        [] r \notin Bells -> {kept}
        [] Len(b.rung[r]) >= MaxPending -> {[kept EXCEPT !.refused = @ \cup {r}]}
        [] OTHER ->
             {[kept EXCEPT !.rung[r] = Ring(@, v, lat), !.refused = @ \ {r},
                           !.events = Append(@, [bell |-> r, value |-> v,
                                                 at |-> cycle + MinLatency])] :
                lat \in MinLatency..MaxLatency}

AllOnes == -1

MmioRead(b, r) == IF Registers[r].access = "WO" THEN AllOnes ELSE b.value[r]

Port(kind) == IF kind = "memory" THEN "mem" ELSE "mmio"

(* dispatch_tlp_entry: a link layer may refuse a request, which stays in   *)
(* its slot, unless the mux bypasses it.                                   *)
Dispatched == IF setup.mode = "link" THEN BOOLEAN ELSE {TRUE}

(* handle_slave_in_tlp.  A kind nobody knows is consumed unanswered.       *)
HandledBy(b, c) ==
  IF slot.kind = "mmioWrite" THEN {[bar |-> x, conf |-> c] : x \in MmioWrite(b, slot.where, slot.value)}
  ELSE IF slot.kind = "cfgWrite" /\ slot.where \in DOMAIN c.words
  THEN {[bar |-> b, conf |-> [c EXCEPT !.words[slot.where] = [host |-> slot.value]]]}
  ELSE {[bar |-> b, conf |-> c]}

Answer(b) ==
  IF slot.kind = "unknown" THEN << >>
  ELSE <<[port |-> Port(slot.kind), id |-> slot.id,
          data |-> IF slot.kind = "mmioRead" THEN MmioRead(b, slot.where) ELSE 0]>>

(* Doorbell::tick after the clock: every value that is due shows.          *)
BarTick(b) ==
  LET due(r) == Len(SelectSeq(b.rung[r], LAMBDA p : p.at <= cycle + 1))
  IN  [b EXCEPT !.rung = [r \in Bells |-> SubSeq(@[r], due(r) + 1, Len(@[r]))],
                !.tail = [r \in Bells |-> IF due(r) = 0 THEN @[r] ELSE b.rung[r][due(r)].value]]

(* The events that are due are taken from the front, and discarded; so the *)
(* tick has nothing to show for them.  The interrupts it also sends are    *)
(* the ones of the vector table (MsixTable).                               *)
EventsDue(b) == SelectSeq(b.events, LAMBDA e : e.at <= cycle + 1)

Tick ==
  /\ setup # None /\ cycle < MaxCycle
  /\ cycle' = cycle + 1
  /\ \E taken \in IF slot = None THEN {FALSE} ELSE Dispatched :
       \E h \in IF taken THEN HandledBy(bar, conf) ELSE {[bar |-> bar, conf |-> conf]} :
         LET b == BarTick(h.bar)
             out == EventsDue(b)
         IN  /\ slot' = IF taken THEN None ELSE slot
             /\ conf' = h.conf
             /\ bar' = [b EXCEPT !.events = SubSeq(@, Len(out) + 1, Len(@))]
             /\ answers' = answers \o (IF taken THEN Answer(bar) ELSE << >>)
  /\ UNCHANGED <<setup, asked>>

(* do_reset empties the slot; the registers, the doorbells and the         *)
(* configuration stay.                                                     *)
DoReset ==
  /\ slot # None
  /\ slot' = None
  /\ UNCHANGED <<setup, conf, asked, cycle, bar, answers>>

MvpNext ==
  \/ OnConfigLoaded \/ Tick \/ DoReset
  \/ \E k \in {"mmioWrite", "mmioRead"}, r \in DOMAIN Registers, v \in Values : Ask(k, r, v)
  \/ \E v \in Values : Ask("cfgWrite", MsixOffset, v)
  \/ \E k \in {"memory", "unknown"} : Ask(k, 0, 0)

MvpSpec == MvpInit /\ [][MvpNext]_mvpVars

-----------------------------------------------------------------------------
(* Requests are answered once at most, in their order and by the port of   *)
(* their kind.                                                             *)
AnsweredInOrder ==
  /\ \A i, j \in DOMAIN answers : i < j => answers[i].id < answers[j].id
  /\ slot # None => \A i \in DOMAIN answers : answers[i].id < slot.id

(* A stream shows the values of its register in their order; when nothing  *)
(* pends it shows the register's value, unless that ring was refused.      *)
(* Events come in the order of the rings, and none after its tail: nobody  *)
(* who waits for the tail misses its event.                                *)
BellsFollowRegisters ==
  \A r \in Bells :
    LET q == bar.rung[r]
        mine == SelectSeq(bar.events, LAMBDA e : e.bell = r)
        newest == IF q = << >> THEN bar.tail[r] ELSE Last(q).value
    IN  /\ Len(q) <= MaxPending
        /\ \A i, j \in DOMAIN q : i < j => q[i].at <= q[j].at
        /\ \A i \in DOMAIN q : q[i].at > cycle
        /\ r \notin bar.refused => newest = bar.value[r]
        /\ Len(mine) <= Len(q)
        /\ \A i \in DOMAIN mine :
             LET p == q[Len(q) - Len(mine) + i]
             IN  p.value = mine[i].value /\ mine[i].at <= p.at

(* The list of capabilities and the words of the headers agree until the   *)
(* host writes one; one of them is where the pointer points.               *)
CapabilitiesAgree ==
  /\ \A i, j \in DOMAIN conf.caps : i # j => conf.caps[i].off # conf.caps[j].off
  /\ \A i \in DOMAIN conf.caps :
       conf.words[conf.caps[i].off] \in {Header(conf.caps[i])} \cup [host : Values]
  /\ setup # None =>
       /\ conf.ptr = conf.caps[1].off
       /\ \E i \in DOMAIN conf.caps :
            conf.caps[i].id = MsixId /\ conf.caps[i].control \div 2048 = (setup.vectors - 1) % 32

MvpSound == AnsweredInOrder /\ BellsFollowRegisters /\ CapabilitiesAgree

=============================================================================
