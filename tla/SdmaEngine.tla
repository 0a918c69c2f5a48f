----------------------------- MODULE SdmaEngine -----------------------------
(***************************************************************************)
(* SdmaEngineTLM (src/src/tlm/gpu/sdma_engine_tlm.cc) with the page walker *)
(* it translates through (GmmuTLM, src/include/tlm/gpu/gmmu_tlm.hh) and the*)
(* memory the walker reads (PcieMemoryDevice, port 1), in the asynchronous *)
(* configuration: descriptors arrive on desc_in or are written to the ring *)
(* and announced by the doorbell; a descriptor whose translation is pending*)
(* waits in inflight_ and is tried again every tick.                       *)
(*                                                                         *)
(* A step is one tick() of one component, one delivery of a link, or one   *)
(* host call.  A port is a slot: a packet that finds the slot of its       *)
(* receiver taken is dropped (StreamAdapter::process_request_input).       *)
(*                                                                         *)
(* The walker comes first, as operators on its state g: one page-table     *)
(* walk at a time.  translate() never blocks: it starts a walk, or says    *)
(* EAGAIN, and its caller asks again.  Without mem_view_ and vram_ctrl_ the*)
(* walk is a read that travels to the memory and back.                     *)
(***************************************************************************)
EXTENDS Naturals, Sequences, FiniteSets

CONSTANTS
  Page,       \* a pair (iova, size) that translate() matches
  Mapped,     \* pages whose PTE has bit 0 set; the frame is named as the page
  Crossing,   \* (iova, size) pairs that cross a page boundary
  Beyond,     \* pages whose PTE address is past the memory's backing
  MaxRetry,   \* kMaxRetry
  Invalid,    \* a PTE with bit 0 clear
  Poison,     \* the frame of the 0xDEAD answer, whose bit 0 is set
  None

ASSUME PageAssumption ==
  /\ Mapped \subseteq Page /\ Crossing \subseteq Page /\ Beyond \subseteq Page
  /\ Mapped \cap Beyond = {}
  /\ {Invalid, Poison, None} \cap Page = {}
  /\ Invalid # Poison /\ None \notin {Invalid, Poison}
ASSUME RetryAssumption == MaxRetry \in Nat

Pte == Mapped \cup {Invalid, Poison}
Rc  == {"OK", "EAGAIN", "EIO", "EINVAL"}

\* What a read of p's page-table entry brings back.
PteOf(p) ==
  IF p \in Beyond THEN Poison ELSE IF p \in Mapped THEN p ELSE Invalid

Walker ==
  [ state   : {"IDLE", "WAIT", "COMPLETE"},
    enabled : BOOLEAN,                   \* enabled_ and pt_base() # 0
    page    : Page \cup {None},          \* pending_iova_, pending_size_
    retries : 0..(MaxRetry + 1),
    pte     : Pte \cup {None},           \* pte_buf_
    req     : Page \cup {None},          \* req_out_
    gaveUp  : BOOLEAN ]                  \* history: a walk was abandoned

PoweredUp ==
  [ state |-> "IDLE", enabled |-> TRUE, page |-> None, retries |-> 0,
    pte |-> None, req |-> None, gaveUp |-> FALSE ]

Refused(g, rc) == [rc |-> rc, g |-> g, frame |-> None]

\* The walk's answer is consumed only by a request for the same page.
Consume(g) ==
  [ rc    |-> IF g.pte = Invalid THEN "EIO" ELSE "OK",
    g     |-> [g EXCEPT !.state = "IDLE"],
    frame |-> IF g.pte = Invalid THEN None ELSE g.pte ]

StartWalk(g, p) ==
  Refused([g EXCEPT !.state = "WAIT", !.page = p, !.retries = 0, !.req = p],
          "EAGAIN")

\* A mutant of AskAgain: the limit is not checked.
AskForever(g) == Refused(g, "EAGAIN")

\* The (kMaxRetry + 1)-th question abandons the walk; its answer may still come.
AskAgain(g) ==
  IF g.retries + 1 > MaxRetry
    THEN Refused([g EXCEPT !.retries = @ + 1, !.state = "IDLE",
                           !.gaveUp = TRUE], "EIO")
    ELSE Refused([g EXCEPT !.retries = @ + 1], "EAGAIN")

\* A mutant of Matches: the check of pending_iova_ is dropped.
MatchesAny(g, p) == TRUE

Matches(g, p) == g.page = p

Refuses(g, p) == ~g.enabled \/ p \in Crossing

Translate(g, p) ==
  IF Refuses(g, p) THEN Refused(g, "EIO")
  ELSE CASE g.state = "IDLE" -> StartWalk(g, p)
         [] g.state # "IDLE" /\ ~Matches(g, p) -> Refused(g, "EAGAIN")
         [] g.state = "WAIT" /\ Matches(g, p) -> AskAgain(g)
         [] g.state = "COMPLETE" /\ Matches(g, p) -> Consume(g)

\* do_reset(): the TLB and the state, and nothing of the ports.
ResetWalker(g) ==
  [g EXCEPT !.state = "IDLE", !.gaveUp = @ \/ g.state = "WAIT"]
-----------------------------------------------------------------------------
(* The engine.                                                             *)
CONSTANTS
  Job,           \* descriptors without their tag
  MaxInflight,   \* max_inflight
  Capacity,      \* ring_buffer_->capacity_entries()
  MaxTag,        \* bound: descriptors the host submits or writes
  MaxFence,      \* bound: fences waiting at a time
  MaxHost        \* bound: resets and writes of the enable register

ASSUME JobAssumption ==
  Job \subseteq [dir : {"H2D", "D2H", "D2D"}, page : Page, fits : BOOLEAN]
\* The jobs of the small instances: pages of the host to the device, and a
\* copy inside VRAM.
HostToDevice == {[dir |-> "H2D", page |-> p, fits |-> TRUE] : p \in Page}
InVram       == {[dir |-> "D2D", page |-> p, fits |-> TRUE] : p \in Mapped}
SomeJobs     == HostToDevice \cup InVram

ASSUME SizeAssumption ==
  {MaxInflight, Capacity, MaxTag} \subseteq Nat \ {0}
  /\ {MaxFence, MaxHost} \subseteq Nat

Tag  == 0..MaxTag
Desc == [tag : Tag, job : Job \cup {None}]
Completion == [tag : Tag, status : {"OK", "EIO", "EINVAL"}]

ASSUME SlotAssumption == None \notin Completion

\* The descriptor an entry nobody wrote decodes to: tag 0 and size 0.
Blank == [tag |-> 0, job |-> None]

VARIABLES
  desc_in,     \* req_in[PORT_DESC_IN]
  inflight,    \* inflight_
  done_out,    \* resp_out[PORT_DONE_OUT]
  ring_mode, ring, wptr,
  fences,      \* fence_queue_.size()
  gmmu,        \* the walker
  to_mem, mem_in, to_gmmu, resp_in,   \* links and slots of the page walk
  tags,        \* tags given out
  host,        \* counter of the bound MaxHost
  accepted,    \* history: tags consumed from desc_in, not dropped
  dropped,     \* history: tags a reset threw away
  emitted,     \* history: emitted[t], the statuses emit_completion wrote to
               \* done_out for tag t
  sent,        \* history: tags whose completion left done_out on its port
  lost,        \* history: tags whose completion was overwritten in done_out
               \* by a later one, or cleared by a reset
  moved        \* history: moved[t], the transfers done for tag t

vars == <<desc_in, inflight, done_out, ring_mode, ring, wptr, fences, gmmu,
          to_mem, mem_in, to_gmmu, resp_in, tags, host, accepted, dropped,
          emitted, sent, lost, moved>>
walk == <<to_mem, mem_in, to_gmmu, resp_in>>

TypeOK ==
  /\ desc_in \in Desc \cup {None}
  /\ inflight \in Seq(Desc) /\ Len(inflight) <= MaxInflight
  /\ done_out \in Completion \cup {None}
  /\ ring_mode \in BOOLEAN /\ ring \in [0..(Capacity - 1) -> Desc]
  /\ wptr \in Nat /\ fences \in 0..MaxFence
  /\ gmmu \in Walker
  /\ to_mem \in Seq(Page) /\ mem_in \in Page \cup {None}
  /\ to_gmmu \in Seq(Pte) /\ resp_in \in Pte \cup {None}
  /\ tags \in 0..MaxTag /\ host \in 0..MaxHost
  /\ accepted \subseteq Tag /\ dropped \subseteq Tag
  /\ emitted \in [Tag -> Seq({"OK", "EIO", "EINVAL"})]
  /\ sent \subseteq Tag /\ lost \subseteq Tag
  /\ moved \in [Tag -> SUBSET [page : Page, frame : Page \cup {Poison}]]

Init ==
  /\ desc_in = None /\ inflight = <<>> /\ done_out = None
  /\ ring_mode = FALSE /\ ring = [i \in 0..(Capacity - 1) |-> Blank] /\ wptr = 0
  /\ fences = 0
  /\ gmmu = PoweredUp
  /\ to_mem = <<>> /\ mem_in = None /\ to_gmmu = <<>> /\ resp_in = None
  /\ tags = 0 /\ host = 0 /\ accepted = {} /\ dropped = {}
  /\ emitted = [t \in Tag |-> <<>>] /\ sent = {} /\ lost = {}
  /\ moved = [t \in Tag |-> {}]

-----------------------------------------------------------------------------
(* One attempt at a descriptor: process_h2d, process_d2h, d2d_forward.     *)

Settled(g, rc) == [rc |-> rc, g |-> g, moves |-> {}]
Moves(g, p, f) == [rc |-> "OK", g |-> g, moves |-> {[page |-> p, frame |-> f]}]

\* D2H writes to host_iova as it is: only H2D translates.
Translated(g, p) ==
  LET t == Translate(g, p)
  IN  IF t.rc = "OK" THEN Moves(t.g, p, t.frame) ELSE Settled(t.g, t.rc)

Fits(job) == job # None /\ (job.dir = "D2D" \/ job.fits)

Attempt(g, job) ==
  IF ~Fits(job) THEN Settled(g, "EINVAL")
  ELSE CASE job.dir = "D2D" -> Settled(g, "OK")
         [] job.dir = "D2H" -> Moves(g, job.page, job.page)
         [] job.dir = "H2D" -> Translated(g, job.page)

(* The work of one call: the walker, what stays in inflight_, and what the *)
(* descriptors it tried emitted and moved.                                 *)
Work == [g |-> gmmu, kept |-> <<>>, out |-> done_out,
         emitted |-> emitted, lost |-> lost, moved |-> moved]

TagIn(slot) == IF slot = None THEN {} ELSE {slot.tag}

\* emit_completion(): done_out is one slot, which write() overwrites.
Emit(w, t, status) ==
  [w EXCEPT !.out = [tag |-> t, status |-> status],
            !.lost = @ \cup TagIn(w.out),
            !.emitted[t] = Append(@, status)]

Settle(w, d, a, status) ==
  Emit([w EXCEPT !.g = a.g, !.moved[d.tag] = @ \cup a.moves], d.tag, status)

\* A mutant of Keep: a pending descriptor is not put back.
KeepForgets(w, d, a) == [w EXCEPT !.g = a.g]

Keep(w, d, a) == [w EXCEPT !.g = a.g, !.kept = Append(@, d)]

The(S) == CHOOSE e \in S : TRUE

\* Only inflight_ can wait for a translation; status[rc] is what is emitted.
Try(w, d, mayWait, status) ==
  The({ IF mayWait /\ a.rc = "EAGAIN" THEN Keep(w, d, a)
                                      ELSE Settle(w, d, a, status[a.rc])
        : a \in {Attempt(w.g, d.job)} })

\* The descriptors of s, one after the other.
TryAll(w, s, mayWait, status) ==
  LET after[i \in 0..Len(s)] ==
        IF i = 0 THEN w ELSE Try(after[i - 1], s[i], mayWait, status)
  IN  after[Len(s)]

\* A mutant of Retry: the status of the first error sticks.
RetryStale == [rc \in Rc |-> "EIO"]

\* retry_inflight(): in the order of arrival; every error becomes EIO.
Retry == [rc \in Rc |-> IF rc = "OK" THEN "OK" ELSE "EIO"]

RetryInflight(w) == TryAll(w, inflight, TRUE, Retry)

\* A mutant of Acceptable: the window is not checked.
AcceptableAlways(w) == desc_in # None

Acceptable(w) == desc_in # None /\ Len(w.kept) < MaxInflight

\* handle_desc_in(): a full window leaves the slot taken; in ring mode the
\* descriptor is dropped.
AsIs == [rc \in Rc |-> rc]
HandleDescIn(w) ==
  IF Acceptable(w) /\ ~ring_mode THEN Try(w, desc_in, TRUE, AsIs) ELSE w

Publish(w) ==
  gmmu' = w.g /\ emitted' = w.emitted /\ lost' = w.lost /\ moved' = w.moved

-----------------------------------------------------------------------------
(* The engine's tick and the calls of the host.                            *)

SdmaTick ==
  \E retried \in {RetryInflight(Work)} : \E worked \in {HandleDescIn(retried)} :
    /\ Publish(worked)
    /\ inflight' = worked.kept
    /\ desc_in' = IF Acceptable(retried) THEN None ELSE desc_in
    /\ accepted' = IF Acceptable(retried) /\ ~ring_mode
                     THEN accepted \cup {desc_in.tag} ELSE accepted
    /\ fences' = 0               \* process_fence_queue()
    /\ done_out' = None          \* the adapter sends the slot
    /\ sent' = sent \cup TagIn(worked.out)
    /\ UNCHANGED <<walk, ring_mode, ring, wptr, tags, host, dropped>>

NewDesc(job) == [tag |-> tags + 1, job |-> job]

Submit ==
  /\ tags < MaxTag
  /\ tags' = tags + 1
  /\ \E job \in Job :
       desc_in' = IF desc_in = None THEN NewDesc(job) ELSE desc_in
  /\ UNCHANGED <<inflight, done_out, ring_mode, ring, wptr, fences, gmmu, walk,
                 host, accepted, dropped, emitted, sent, lost, moved>>

\* submit_fence()
SubmitFence ==
  /\ fences < MaxFence
  /\ fences' = fences + 1
  /\ UNCHANGED <<desc_in, inflight, done_out, ring_mode, ring, wptr, gmmu, walk,
                 tags, host, accepted, dropped, emitted, sent, lost, moved>>

\* enable_ring_mode(): a new SdmaRingBuffer each time.
EnableRing ==
  /\ host < MaxHost /\ host' = host + 1
  /\ ring_mode' = TRUE
  /\ ring' = [i \in 0..(Capacity - 1) |-> Blank] /\ wptr' = 0
  /\ UNCHANGED <<desc_in, inflight, done_out, fences, gmmu, walk, tags, accepted,
                 dropped, emitted, sent, lost, moved>>

\* ring_write_entry()
WriteEntry ==
  /\ ring_mode /\ tags < MaxTag
  /\ tags' = tags + 1
  /\ \E i \in DOMAIN ring, job \in Job : ring' = [ring EXCEPT ![i] = NewDesc(job)]
  /\ UNCHANGED <<desc_in, inflight, done_out, ring_mode, wptr, fences, gmmu,
                 walk, host, accepted, dropped, emitted, sent, lost, moved>>

(* The doorbell runs the announced entries at once, in the caller.  A D2D  *)
(* entry is run as D2H, and an entry whose walk is pending is given the       *)
(* status nobody wrote, 0.                                                 *)
AsRingJob(job) ==
  IF job # None /\ job.dir = "D2D" THEN [job EXCEPT !.dir = "D2H"] ELSE job

Unwritten == [rc \in Rc |-> IF rc = "EAGAIN" THEN "OK" ELSE rc]
RingEntry(d) == [d EXCEPT !.job = AsRingJob(@)]

\* The n entries from wptr on, none past the end of the ring.
Announced(n) ==
  LET count == IF wptr + n <= Capacity THEN n ELSE Capacity - wptr
  IN  [i \in 1..count |-> RingEntry(ring[wptr + i - 1])]

RunEntries(w, n) == TryAll(w, Announced(n), FALSE, Unwritten)

Doorbell ==
  /\ ring_mode /\ wptr <= Capacity     \* wptr only grows: the bound
  /\ \E n \in 1..Capacity :
       \E worked \in {RunEntries(Work, n)} :
         /\ Publish(worked)
         /\ done_out' = worked.out
         /\ wptr' = wptr + n
  /\ UNCHANGED <<desc_in, inflight, ring_mode, ring, fences, walk, tags, host,
                 accepted, dropped, sent>>

\* handle_cr_transaction() on the enable register.
SetEnabled ==
  /\ host < MaxHost /\ host' = host + 1
  /\ \E on \in BOOLEAN : gmmu' = [gmmu EXCEPT !.enabled = on]
  /\ UNCHANGED <<desc_in, inflight, done_out, ring_mode, ring, wptr, fences, walk,
                 tags, accepted, dropped, emitted, sent, lost, moved>>

Tags(s) == {s[i].tag : i \in DOMAIN s}

(* A hierarchical reset() of the SOC: do_reset() of the engine and of the  *)
(* walker.  fence_queue_, the ring and what travels are left alone.        *)
Reset ==
  /\ host < MaxHost /\ host' = host + 1
  /\ desc_in' = None /\ inflight' = <<>> /\ done_out' = None
  /\ dropped' = dropped \cup Tags(inflight)
  /\ lost' = lost \cup TagIn(done_out)
  /\ gmmu' = ResetWalker(gmmu)
  /\ UNCHANGED <<ring_mode, ring, wptr, fences, walk, tags, accepted, emitted, sent,
                 moved>>

-----------------------------------------------------------------------------
(* The walk's way to the memory and back.                                  *)

engine == <<desc_in, inflight, done_out, ring_mode, ring, wptr, fences, tags,
            host, accepted, dropped, emitted, sent, lost, moved>>

Answered(g) == g.state = "WAIT" /\ resp_in # None

\* GmmuTLM::tick(), and its adapter's.
GmmuTick ==
  /\ Answered(gmmu) \/ gmmu.req # None
  /\ gmmu' = IF Answered(gmmu)
               THEN [gmmu EXCEPT !.state = "COMPLETE", !.pte = resp_in, !.req = None]
               ELSE [gmmu EXCEPT !.req = None]
  /\ resp_in' = IF Answered(gmmu) THEN None ELSE resp_in
  /\ to_mem' = IF gmmu.req = None THEN to_mem ELSE Append(to_mem, gmmu.req)
  /\ UNCHANGED <<engine, mem_in, to_gmmu>>

Slot(held, arriving) == IF held = None THEN arriving ELSE held

RequestArrives ==
  /\ to_mem # <<>>
  /\ mem_in' = Slot(mem_in, Head(to_mem)) /\ to_mem' = Tail(to_mem)
  /\ UNCHANGED <<engine, gmmu, to_gmmu, resp_in>>

\* PcieMemoryDevice::tick(): an address past the backing is answered too.
MemTick ==
  /\ mem_in # None
  /\ to_gmmu' = Append(to_gmmu, PteOf(mem_in)) /\ mem_in' = None
  /\ UNCHANGED <<engine, gmmu, to_mem, resp_in>>

AnswerArrives ==
  /\ to_gmmu # <<>>
  /\ resp_in' = Slot(resp_in, Head(to_gmmu)) /\ to_gmmu' = Tail(to_gmmu)
  /\ UNCHANGED <<engine, gmmu, to_mem, mem_in>>

Next ==
  \/ SdmaTick \/ Submit \/ SubmitFence
  \/ EnableRing \/ WriteEntry \/ Doorbell \/ SetEnabled \/ Reset
  \/ GmmuTick \/ RequestArrives \/ MemTick \/ AnswerArrives

Spec == Init /\ [][Next]_vars

(* The event queue ticks the engine every cycle.  Nothing is asked of the  *)
(* walker, the links or the memory: an answer that never comes is given up.*)
FairSpec == Spec /\ WF_vars(SdmaTick)

-----------------------------------------------------------------------------
(* Properties.                                                             *)

InSlot(t) == t \in TagIn(done_out)

(* Every descriptor taken from desc_in is in exactly one place: waiting in *)
(* inflight_, completed by one emit_completion, or thrown away by a reset. *)
(* Its completion in turn is in exactly one place: still in done_out, sent *)
(* on the port, or overwritten there: when one tick completes a waiting    *)
(* descriptor and a new one, the second write() replaces the first before  *)
(* the adapter sends (stream_adapter.hh:111), although "a completion with  *)
(* the matching `tag` MUST be emitted on `done_out`"                       *)
(* (openspec/specs/sdma-engine-tlm/spec.md:24).                            *)
EveryDescriptorAccounted ==
  \A t \in accepted :
    /\ Len(emitted[t]) + Cardinality({i \in DOMAIN inflight : inflight[i].tag = t})
         + (IF t \in dropped THEN 1 ELSE 0) = 1
    /\ emitted[t] # <<>> <=> InSlot(t) \/ t \in sent \cup lost
    /\ t \in sent => ~InSlot(t) /\ t \notin lost
    /\ InSlot(t) => t \notin lost

(* A descriptor of desc_in is completed with success only after its        *)
(* transfer was done, and one that failed moved nothing, however often it  *)
(* was tried (spec sdma-engine-error-paths, SD-G4).  D2D moves inside VRAM *)
(* and is not recorded.                                                    *)
FailureMovesNothing ==
  \A t \in accepted :
    /\ moved[t] # {} => emitted[t] = <<"OK">>
    /\ Cardinality(moved[t]) <= 1

(* As long as no walk was abandoned, a transfer uses the frame of the page *)
(* its descriptor names, whichever descriptors share the one walker.  Only *)
(* a page whose PTE lies past the backing is given the poison frame.       *)
OwnFrame ==
  ~gmmu.gaveUp =>
    \A t \in Tag : \A m \in moved[t] :
      m.frame = m.page \/ (m.page \in Beyond /\ m.frame = Poison)

(* A walk nobody will ask about again: its page is asked for by no         *)
(* descriptor that waits.                                                  *)
Orphaned ==
  gmmu.state # "IDLE" /\ \A i \in DOMAIN inflight : inflight[i].job.page # gmmu.page

(* With finitely many descriptors the waiting list drains, even if the     *)
(* answer of a walk is lost, unless an orphaned walk holds the walker: the *)
(* retry limit bounds every walk, and the next page gets its turn          *)
(* (retry_inflight(), kMaxRetry).                                          *)
WaitingListDrains ==
  inflight # <<>> ~> (inflight = <<>> \/ Orphaned)

(* Expected of the walker: "COMPLETE/WAIT ... pending_iova_ ... prevents   *)
(* the silent mismatch of out-of-order retries"                            *)
(* (src/openspec/specs/driver-visible-minimal-soc/spec.md:178).  An        *)
(* abandoned walk's answer completes the walk of another page.             *)
TranslationIsOfRequest ==
  \A t \in Tag : \A m \in moved[t] : m.page \in Mapped => m.frame = m.page
=============================================================================
