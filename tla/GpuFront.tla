------------------------------ MODULE GpuFront ------------------------------
(***************************************************************************)
(* The front end of the GPU: the command processor reads a PM4 header from *)
(* VRAM, decodes it and submits a task to the TMU, whose handler enqueues  *)
(* it in the submit queue; the queue activates it; a finished task is      *)
(* reported to the queue, to the TMU and to the completion ring, by calls  *)
(* of their own in an order nothing fixes; the ring tells the host.        *)
(***************************************************************************)
EXTENDS Integers, FiniteSets, Sequences, SequencesExt

CONSTANTS
  Opcodes,    \* method_addr >> 8 of the headers VRAM may hold
  MaxTasks,   \* MAX_ACTIVE_TASKS of the TMU
  Fifo,       \* PENDING_FIFO_SIZE
  Slots,      \* ACTIVE_SLOTS_PER_CORE
  RingSize,   \* capacity_ of the completion ring
  PushSize,   \* kRingSize, the limit of push
  Fences,     \* ids of the fences of the SDMA engine
  MaxId       \* bound: ids the command processor gives out

VARIABLES
  state,      \* state of the command processor
  nextId,     \* next_task_id_
  backoffs,   \* cp_backoff_count_, up to the threshold
  cached,     \* ids in scheduler_cache_
  inflight,   \* inflight_count_ of the TMU
  pending,    \* pending_ of the queue
  active,     \* active_ of the queue
  untold,     \* finished task -> whom nobody has told yet: queue, tmu, ring
  ring,       \* ring_: ids, in the order of their completion
  told        \* id -> how often the host was told

frontVars ==
  <<state, nextId, backoffs, cached, inflight, pending, active, untold, ring, told>>

Ids == 1..MaxId
Threshold == 3
Nobody == [t \in {} |-> {}]

FrontInit ==
  /\ state = "IDLE" /\ nextId = 1 /\ backoffs = 0
  /\ cached = {} /\ inflight = 0
  /\ pending = << >> /\ active = << >>
  /\ untold = Nobody
  /\ ring = << >>
  /\ told = [t \in Ids \cup Fences |-> 0]

-----------------------------------------------------------------------------
(* Pm4Decoder: the table of methods.                                       *)
Known == {64, 66} \cup 68..73

ParseMethod(op) == op \in Known

(* A doorbell wakes an idle processor; another one is lost.                *)
Wake ==
  /\ state' = IF state = "IDLE" THEN "FETCH" ELSE state
  /\ UNCHANGED <<nextId, backoffs, cached, inflight, pending, active, untold, ring, told>>

(* The header is read to see that it can be, and read again to decode it:  *)
(* VRAM may hold another one by then.                                      *)
Fetch ==
  /\ state = "FETCH"
  /\ state' \in {"DECODE", "COMPLETE"}
  /\ UNCHANGED <<nextId, backoffs, cached, inflight, pending, active, untold, ring, told>>

Decode ==
  /\ state = "DECODE"
  /\ \/ \E op \in Opcodes : state' = IF ParseMethod(op) THEN "DISPATCH" ELSE "COMPLETE"
     \/ state' = "COMPLETE"
  /\ UNCHANGED <<nextId, backoffs, cached, inflight, pending, active, untold, ring, told>>

(* SubmitQueueTLM::enqueue                                                 *)
Enqueue(t) == pending' = Append(pending, t)

Full == Len(pending) >= Fifo

(* TmuDispatchProcessor::submit, with a handler that enqueues.  Records    *)
(* that depend on a latch are refused; the command processor builds none.  *)
Backpressured == inflight >= MaxTasks

Submitted(t) ==
  /\ ~Backpressured /\ ~Full
  /\ Enqueue(t)
  /\ cached' = cached \cup {t}
  /\ inflight' = inflight + 1

(* Refused tasks are dropped with their id; the processor fetches again,   *)
(* at once: nothing counts backoff_cycles_remaining_ down.                 *)
EnterBackoff ==
  /\ Backpressured \/ Full
  /\ backoffs' = IF backoffs < Threshold THEN backoffs + 1 ELSE backoffs
  /\ state' = "FETCH"
  /\ UNCHANGED <<cached, inflight, pending>>

Dispatch ==
  /\ state = "DISPATCH" /\ nextId <= MaxId
  /\ nextId' = nextId + 1
  /\ \/ Submitted(nextId) /\ state' = "COMPLETE" /\ UNCHANGED backoffs
     \/ EnterBackoff
  /\ UNCHANGED <<active, untold, ring, told>>

Complete ==
  /\ state = "COMPLETE"
  /\ state' = "IDLE"
  /\ UNCHANGED <<nextId, backoffs, cached, inflight, pending, active, untold, ring, told>>

-----------------------------------------------------------------------------
(* SubmitQueueTLM::tick fills the slots.                                   *)
Activate ==
  LET n == IF Len(pending) < Slots - Len(active) THEN Len(pending) ELSE Slots - Len(active)
  IN  /\ n > 0
      /\ active' = active \o SubSeq(pending, 1, n)
      /\ pending' = SubSeq(pending, n + 1, Len(pending))
      /\ UNCHANGED <<state, nextId, backoffs, cached, inflight, untold, ring, told>>

(* A core finishes a task that is active.                                  *)
Finish(t) ==
  /\ t \in ToSet(active) /\ t \notin DOMAIN untold /\ told[t] = 0
  /\ untold' = [x \in DOMAIN untold \cup {t} |->
                  IF x = t THEN {"queue", "tmu", "ring"} ELSE untold[x]]
  /\ UNCHANGED <<state, nextId, backoffs, cached, inflight, pending, active, ring, told>>

Owes(t, whom) == t \in DOMAIN untold /\ whom \in untold[t]

Tell(t, whom) == untold' = [untold EXCEPT ![t] = @ \ {whom}]

(* on_warp_complete of the queue: the first active entry of that id goes.  *)
QueueWarpComplete(t) ==
  /\ Owes(t, "queue") /\ Tell(t, "queue")
  /\ active' = RemoveFirst(active, t)
  /\ UNCHANGED <<state, nextId, backoffs, cached, inflight, pending, ring, told>>

(* on_complete of the TMU; the dependents it looks for are never there.    *)
TmuComplete(t) ==
  /\ Owes(t, "tmu") /\ Tell(t, "tmu")
  /\ cached' = cached \ {t}
  /\ inflight' = inflight - Cardinality(cached \cap {t})
  /\ UNCHANGED <<state, nextId, backoffs, pending, active, ring, told>>

(* on_warp_complete of the ring: FALSE, and the caller may try again, when *)
(* the ring is full.                                                       *)
RingWarpComplete(t) ==
  /\ Owes(t, "ring") /\ Len(ring) < RingSize
  /\ Tell(t, "ring")
  /\ ring' = Append(ring, t)
  /\ UNCHANGED <<state, nextId, backoffs, cached, inflight, pending, active, told>>

(* tick of the ring: one entry a cycle.                                    *)
Notify ==
  /\ ring # << >>
  /\ told' = [told EXCEPT ![Head(ring)] = @ + 1]
  /\ ring' = Tail(ring)
  /\ UNCHANGED <<state, nextId, backoffs, cached, inflight, pending, active, untold>>

(* push, the entrance of the fences, tells the host at once, and the entry *)
(* it leaves makes tick tell it again.  A full ring drops the fence.       *)
Push(f) ==
  /\ told[f] = 0 /\ Len(ring) < PushSize
  /\ ring' = Append(ring, f)
  /\ told' = [told EXCEPT ![f] = 1]
  /\ UNCHANGED <<state, nextId, backoffs, cached, inflight, pending, active, untold>>

FrontNext ==
  \/ Wake \/ Fetch \/ Decode \/ Dispatch \/ Complete
  \/ Activate \/ Notify
  \/ \E t \in Ids : Finish(t) \/ QueueWarpComplete(t) \/ TmuComplete(t) \/ RingWarpComplete(t)
  \/ \E f \in Fences : Push(f)

FrontSpec == FrontInit /\ [][FrontNext]_frontVars

-----------------------------------------------------------------------------
(* A task is in one place of the queue, in the order of dispatch; the TMU  *)
(* holds exactly the tasks whose end nobody reported to it, and counts     *)
(* them; so a queue as long as the TMU's limit never refuses a task, in    *)
(* whatever order the ends are reported.                                   *)
TasksHeld ==
  LET queued == active \o pending
      due(whom) == {t \in DOMAIN untold : whom \in untold[t]}
      running == {t \in ToSet(queued) : t \notin DOMAIN untold}
  IN  /\ \A i, j \in DOMAIN queued : i < j => queued[i] < queued[j]
      /\ Len(active) <= Slots /\ Len(pending) <= Fifo
      /\ inflight = Cardinality(cached) /\ inflight <= MaxTasks
      /\ ToSet(queued) = running \cup due("queue")
      /\ cached = running \cup due("tmu")
      /\ Fifo >= MaxTasks /\ Full => Backpressured

(* The host hears of every task that ended exactly once, and of no other:  *)
(* the entries on_warp_complete leaves in the ring are told by tick alone. *)
HostTold ==
  \A t \in Ids :
     told[t] + Cardinality({i \in DOMAIN ring : ring[i] = t})
       = IF t \in DOMAIN untold /\ "ring" \notin untold[t] THEN 1 ELSE 0

(* "tick(): ... host_notify (exactly-once)", the host is told once of each *)
(* completion (completion_ring_mvp.hh:9-10).  Of one that entered by push  *)
(* it is told twice, by push and by tick (completion_ring_mvp.cc:20).      *)
NotifiedOnce == \A id \in Ids \cup Fences : told[id] <= 1

TasksAccounted == TasksHeld /\ HostTold

=============================================================================
