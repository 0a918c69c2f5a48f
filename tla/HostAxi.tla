------------------------------- MODULE HostAxi -------------------------------
(***************************************************************************)
(* The AXI path between a host device (HostBypassTLM or                    *)
(* PcieRootComplexTLM, whose ticks are the same) and a PCIe endpoint: two  *)
(* Axi4StreamAdapters of one-place slots, the host's tick that moves them, *)
(* the endpoint's tick that answers, and the bursts the endpoint sends     *)
(* through PcieAxiAdapter.  A request is its number; nothing in src/       *)
(* answers the endpoint's bursts, so those answers are left out, and so is *)
(* the AXI-Lite slot, which nobody uses.  The host's init() resets its     *)
(* adapter before the first tick; a configuration may replace the          *)
(* endpoint's adapter, or take it away, at any time.                       *)
(***************************************************************************)
EXTENDS Integers, Sequences, FiniteSets

CONSTANTS
  IdRing,     \* transaction ids are uint16_t: 2^16
  MaxTries,   \* bound: calls of bar_read and bar_write
  Beats,      \* lengths of a burst
  MaxBursts,  \* bound: bursts started
  MaxIds      \* bound: ids the burst adapter notes

VARIABLES
  host,        \* the host adapter's slots: [req, resp, sreq], 0 when empty
  ready,       \* master_ready_ of the host's adapter
  attached,    \* the endpoint has an adapter (for_endpoint)
  ep,          \* the endpoint adapter's: [sreq, sresp, mreq]
  tries,       \* bar_tx_id_
  reqs,        \* history: accepted request -> [write, id]
  awaited,     \* outstanding_wr_ids_ and _rd_ids_: [write, id] -> how many
  answered,    \* history: requests whose response reached the host
  dropped,     \* history: requests a tick took out of a slot
  burst,       \* PcieAxiAdapter: [left, beat, written, ids, started]
  beats        \* history: [pushed, arrived, lost] beats of the endpoint

axiVars == <<host, ready, attached, ep, tries, reqs, awaited, answered, dropped, burst, beats>>
fixed   == <<ready, attached>>

IdKeys == [write : BOOLEAN, id : 0..(IdRing - 1)]

AxiInit ==
  /\ host = [req |-> 0, resp |-> 0, sreq |-> 0]
  /\ ready = TRUE /\ attached = TRUE
  /\ ep = [sreq |-> 0, sresp |-> 0, mreq |-> 0]
  /\ tries = 0 /\ reqs = << >>
  /\ awaited = [k \in IdKeys |-> 0]
  /\ answered = {} /\ dropped = {}
  /\ burst = [left |-> 0, beat |-> 0, written |-> FALSE, ids |-> 0, started |-> 0]
  /\ beats = [pushed |-> 0, arrived |-> {}, lost |-> {}]

burstVars == <<burst, beats>>
-----------------------------------------------------------------------------
(* bar_read and bar_write: an id is used up also when the slot is taken.   *)
(* The last id of the ring is followed by 0, and master_req and the        *)
(* endpoint (is_write_request) take a write with that id, of the address   *)
(* 0, for a read.                                                          *)
BarRequest(write, zero) ==
  LET id == ((tries % IdRing) + 1) % IdRing
      k  == [write |-> write /\ ~(id = 0 /\ zero), id |-> id]
      n  == Len(reqs) + 1
  IN  /\ tries' = tries + 1
      /\ IF host.req = 0
         THEN /\ host' = [host EXCEPT !.req = n]
              /\ reqs' = Append(reqs, k)
              /\ awaited' = [awaited EXCEPT ![k] = @ + 1]
         ELSE UNCHANGED <<host, reqs, awaited>>
      /\ UNCHANGED <<ep, answered, dropped>> /\ UNCHANGED burstVars /\ UNCHANGED fixed

(* master_resp: the id is struck off the list, a write's unless it is 0.   *)
Struck(n) ==
  LET k == reqs[n]
  IN  IF k.write /\ k.id = 0 THEN awaited
      ELSE [awaited EXCEPT ![k] = IF @ > 0 THEN @ - 1 ELSE 0]

Filled(S) == {n \in S : n # 0}

(* What finds its slot free moves on; kept stays in the slot of the host's *)
(* requests, and lost is what a tick throws away.                          *)
Move(kept, lost) ==
  /\ host' = [req  |-> kept,
              resp |-> IF host.resp = 0 THEN ep.sresp ELSE host.resp,
              sreq |-> IF host.sreq = 0 THEN ep.mreq ELSE host.sreq]
  /\ ep' = [sreq |-> IF ep.sreq = 0 THEN host.req ELSE ep.sreq, sresp |-> 0, mreq |-> 0]
  /\ awaited' = IF host.resp = 0 /\ ep.sresp # 0 THEN Struck(ep.sresp) ELSE awaited
  /\ answered' = IF host.resp = 0 THEN answered \cup Filled({ep.sresp}) ELSE answered
  /\ dropped' = dropped \cup lost
  /\ beats' = [beats EXCEPT !.lost = IF host.sreq = 0 THEN @ ELSE @ \cup Filled({ep.mreq})]
  /\ UNCHANGED <<tries, reqs, burst>> /\ UNCHANGED fixed

Refused(slot, n) == IF slot = 0 THEN {} ELSE Filled({n})
RefusedRequest == IF ready THEN Refused(ep.sreq, host.req) ELSE {}
KeptRequest    == IF ready \/ ep.sreq = 0 THEN 0 ELSE host.req

(* tick without an adapter at the endpoint: a ready host's request is gone.*)
TickAlone ==
  LET lost == IF ready THEN Filled({host.req}) ELSE {}
  IN  /\ host' = [host EXCEPT !.req = IF ready THEN 0 ELSE @]
      /\ dropped' = dropped \cup lost
      /\ UNCHANGED <<ep, tries, reqs, awaited, answered>> /\ UNCHANGED burstVars
      /\ UNCHANGED fixed

(* Mutant: the request is consumed although the endpoint did not take it.  *)
HostTickConsumes ==
  IF attached THEN Move(0, Refused(host.resp, ep.sresp)) ELSE TickAlone

(* tick: after the moves both adapters tick, which empties the slots of    *)
(* the requests and responses that could not move, the host's when it is   *)
(* ready.                                                                  *)
HostTick ==
  IF attached
  THEN Move(KeptRequest, RefusedRequest \cup Refused(host.resp, ep.sresp))
  ELSE TickAlone

(* The endpoint's tick: the response is refused by a slot still occupied,  *)
(* and the request consumed all the same.                                  *)
EndpointTick ==
  /\ ep.sreq # 0
  /\ ep' = [ep EXCEPT !.sreq = 0, !.sresp = IF @ = 0 THEN ep.sreq ELSE @]
  /\ dropped' = IF ep.sresp = 0 THEN dropped ELSE dropped \cup {ep.sreq}
  /\ UNCHANGED <<host, tries, reqs, awaited, answered>> /\ UNCHANGED burstVars
  /\ UNCHANGED fixed

(* The host's software takes a response, or a beat of the endpoint.        *)
TakeResp ==
  /\ host.resp # 0
  /\ host' = [host EXCEPT !.resp = 0]
  /\ UNCHANGED <<ep, tries, reqs, awaited, answered, dropped>> /\ UNCHANGED burstVars
  /\ UNCHANGED fixed

TakeBeat ==
  /\ host.sreq # 0
  /\ host' = [host EXCEPT !.sreq = 0]
  /\ beats' = [beats EXCEPT !.arrived = @ \cup {host.sreq}]
  /\ UNCHANGED <<ep, tries, reqs, awaited, answered, dropped, burst>> /\ UNCHANGED fixed

(* set_axi_master_ready                                                    *)
SetMasterReady ==
  /\ ready' = ~ready
  /\ UNCHANGED <<host, attached, ep, tries, reqs, awaited, answered, dropped>>
  /\ UNCHANGED burstVars

(* attach_to_endpoint makes a new adapter also where there is one, and     *)
(* detach_from_endpoint ends it: what was in its slots is lost, and the    *)
(* burst forgotten.                                                        *)
Reattach(there) ==
  /\ attached' = there
  /\ ep' = [sreq |-> 0, sresp |-> 0, mreq |-> 0]
  /\ dropped' = dropped \cup Filled({ep.sreq, ep.sresp})
  /\ beats' = [beats EXCEPT !.lost = @ \cup Filled({ep.mreq})]
  /\ burst' = [burst EXCEPT !.left = 0, !.beat = 0, !.written = FALSE, !.ids = 0]
  /\ UNCHANGED <<host, ready, tries, reqs, awaited, answered>>

-----------------------------------------------------------------------------
others == <<host, ready, attached, tries, reqs, awaited, answered, dropped>>

MasterWriteBurst(n) ==
  /\ attached /\ burst.left = 0
  /\ burst' = [burst EXCEPT !.left = n, !.beat = 0, !.written = FALSE, !.started = @ + 1]
  /\ UNCHANGED <<ep, beats>> /\ UNCHANGED others

WriteBeat ==
  /\ burst.left > 0
  /\ burst' = [burst EXCEPT !.written = TRUE]
  /\ UNCHANGED <<ep, beats>> /\ UNCHANGED others

(* push_beat_to_downstream: the burst's id is noted before the slot may    *)
(* refuse its first beat, and again when that beat is tried again.         *)
PushBeat ==
  LET first == IF burst.beat = 0 THEN 1 ELSE 0
  IN  /\ burst.left > 0 /\ burst.written
      /\ IF ep.mreq = 0
         THEN /\ ep' = [ep EXCEPT !.mreq = beats.pushed + 1]
              /\ beats' = [beats EXCEPT !.pushed = @ + 1]
              /\ burst' = [burst EXCEPT !.left = @ - 1, !.beat = @ + 1,
                                        !.written = FALSE, !.ids = @ + first]
         ELSE /\ burst' = [burst EXCEPT !.ids = IF @ < MaxIds THEN @ + first ELSE @]
              /\ UNCHANGED <<ep, beats>>
      /\ UNCHANGED others

ResetBurst ==
  /\ burst' = [burst EXCEPT !.left = 0, !.beat = 0, !.written = FALSE]
  /\ UNCHANGED <<ep, beats>> /\ UNCHANGED others

AxiNext ==
  \/ \E write \in BOOLEAN : tries < MaxTries /\ BarRequest(write, FALSE)
  \/ tries < MaxTries /\ BarRequest(TRUE, TRUE)
  \/ HostTick \/ EndpointTick \/ TakeResp \/ TakeBeat
  \/ SetMasterReady \/ \E there \in BOOLEAN : Reattach(there)
  \/ \E n \in Beats : burst.started < MaxBursts /\ MasterWriteBurst(n)
  \/ WriteBeat \/ PushBeat \/ ResetBurst

AxiSpec == AxiInit /\ [][AxiNext]_axiVars
-----------------------------------------------------------------------------
OnTheWay == Filled({host.req, ep.sreq, ep.sresp})

(* Every request the adapter accepted is on its way, answered or was taken *)
(* out of a slot by a tick or lost with the endpoint's adapter: exactly one*)
(* of the three; and so for the beats of the endpoint.                     *)
EveryRequestSomewhere ==
  /\ DOMAIN reqs = OnTheWay \cup answered \cup dropped
  /\ OnTheWay \cap answered = {} /\ OnTheWay \cap dropped = {} /\ answered \cap dropped = {}
  /\ 1..beats.pushed = Filled({ep.mreq, host.sreq}) \cup beats.arrived \cup beats.lost
  /\ beats.arrived \cap beats.lost = {}

(* The ids outstanding are those of the requests that have no answer, and  *)
(* of the writes whose id was 0.                                           *)
IdsAwaited ==
  \A k \in IdKeys :
    awaited[k] = Cardinality({n \in DOMAIN reqs :
                   reqs[n] = k /\ (n \notin answered \/ k = [write |-> TRUE, id |-> 0])})

AxiAccounted == EveryRequestSomewhere /\ IdsAwaited
=============================================================================
