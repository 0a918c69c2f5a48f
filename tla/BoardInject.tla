---------------------------- MODULE BoardInject ----------------------------
(***************************************************************************)
(* The host-to-simulation injection path of DGpuBoard                      *)
(* (src/src/tlm/gpu/dgpu_board_shell.cc): mmio_write and backdoor_write    *)
(* store their data under inject_mu_ and queue a request; mmio_read queues *)
(* a request that carries a promise, helps to drain the queue, and waits   *)
(* a bounded time on the future; every thread that ticks the board (the    *)
(* simulation thread, a host thread in tick(), the reader itself) may      *)
(* drain.  destroy() stops and joins the simulation thread, and            *)
(* load_soc_config() + init() start it again.                              *)
(*                                                                         *)
(* The registers are the ones no routing serves: mmio_read and mmio_write  *)
(* of display, GMMU, frame-buffer and memory addresses return before the   *)
(* queue is used.  The doorbell of mmio_write is in SdmaEngine.            *)
(*                                                                         *)
(* A step is one critical section of inject_mu_ or one access to a field   *)
(* that no lock protects.  Wall-clock time is not modelled: a wait whose   *)
(* future is not ready may time out at any moment.                         *)
(***************************************************************************)
EXTENDS Naturals, Sequences

CONSTANTS
  Host,        \* host threads that call the ABI
  Pump,        \* host threads that only call tick()
  Sim,         \* the simulation thread
  Reg,         \* (bar, offset) keys that no routing serves
  Length,      \* lengths that are written and that a read may ask for
  Bytes,       \* what bytes of one length may be
  SelfDrain,   \* mmio_self_drain_enabled
  MaxCalls,    \* bound: ABI calls in a behaviour
  MaxStarts,   \* bound: times init() starts the simulation thread
  Zero,        \* the all-zero payload a read of an unwritten register gets
  None

ASSUME ThreadsDiffer ==
  Host \cap Pump = {} /\ Sim \notin Host \cup Pump

(* A written byte vector is its length and its bytes.                      *)
Val     == Length \X Bytes
Size(v) == v[1]

ASSUME DataAssumption ==
  Zero \notin Val /\ None \notin Val \cup {Zero} \cup 1..MaxCalls
ASSUME BoundAssumption ==
  SelfDrain \in BOOLEAN /\ MaxCalls \in Nat /\ MaxStarts \in Nat

Thread  == Host \cup Pump \cup {Sim}
Id      == 0..MaxCalls
Promise == 1..MaxCalls       \* the k-th call's promise is k
EINVAL  == "EINVAL"
Rc      == {"ok", EINVAL}
Unset   == "unset"

VARIABLES
  inject_q, mmio_regs, pending_resp, pending_data, \* under inject_mu_
  next_trans_id,   \* plain uint64_t, outside any lock
  shared,          \* shared state of each promise/future pair
  drained,         \* drained[t]: the local deque of t's drain
  rc,              \* rc[t]: the answer t is about to set, or t has got
  call,            \* call[h]: the arguments and locals of h's ABI call
  pc,
  stop,
  last_exception,
  calls, starts,   \* counters of the bounds
  abandoned        \* history: ids of the reads that timed out

locked == <<inject_q, mmio_regs, pending_resp, pending_data>>
vars == <<inject_q, mmio_regs, pending_resp, pending_data, next_trans_id,
          shared, drained, rc, call, pc, stop, last_exception, calls, starts,
          abandoned>>

HostPc == {"idle", "store_id", "push", "swap", "serve", "answer", "wait",
           "get", "collect", "abandon", "poison", "join"}
SimPc  == {"none", "loop", "swap", "serve", "answer", "exited"}

(* PendingReq: reg and len matter to a read only, promise is its resp.     *)
Request == [kind : {"read", "write", "backdoor", "poison"}, id : Id,
            reg : Reg \cup {None}, len : Length \cup {None},
            promise : Promise \cup {None}]
Poison == [kind |-> "poison", id |-> 0, reg |-> None, len |-> None,
           promise |-> None]
NoCall == Poison

Goto(t, label) == pc' = [pc EXCEPT ![t] = label]

Init ==
  /\ inject_q = <<>>
  /\ mmio_regs = [r \in Reg |-> None]
  /\ pending_resp = [i \in Id |-> None]
  /\ pending_data = [i \in Id |-> None]
  /\ next_trans_id = 0
  /\ shared = [p \in Promise |-> Unset]
  /\ drained = [t \in Thread |-> <<>>]
  /\ rc = [t \in Thread |-> Unset]
  /\ call = [h \in Host |-> NoCall]
  /\ pc = [t \in Thread |-> IF t = Sim THEN "none" ELSE "idle"]
  /\ stop = FALSE /\ last_exception = FALSE
  /\ calls = 0 /\ starts = 0
  /\ abandoned = {}

-----------------------------------------------------------------------------
(* ABI calls.  Each one rethrows last_exception_ first, and does nothing   *)
(* else then.                                                              *)

(* The body of a call up to the load of next_trans_id_++; its store is a   *)
(* step of its own, since the counter is not atomic.                       *)
Enter(h, kind, r, n) ==
  /\ pc[h] = "idle" /\ ~last_exception /\ calls < MaxCalls
  /\ calls' = calls + 1
  /\ call' = [call EXCEPT ![h] = [kind |-> kind, id |-> next_trans_id,
                reg |-> r, len |-> n,
                promise |-> IF kind = "read" THEN calls + 1 ELSE None]]
  /\ Goto(h, "store_id")
  /\ UNCHANGED <<inject_q, pending_resp, pending_data, next_trans_id, shared,
                 drained, rc, stop, last_exception, starts, abandoned>>

MmioWrite(h, r, v) ==
  /\ Enter(h, "write", r, None)
  /\ mmio_regs' = [mmio_regs EXCEPT ![r] = v]

BackdoorWrite(h) ==
  /\ Enter(h, "backdoor", None, None)
  /\ UNCHANGED mmio_regs

MmioRead(h, r, n) ==
  /\ Enter(h, "read", r, n)
  /\ UNCHANGED mmio_regs

(* Mutant: the counter is read but never advanced.                         *)
StoreIdReuse(h) ==
  /\ pc[h] = "store_id"
  /\ Goto(h, "push")
  /\ UNCHANGED <<locked, next_trans_id, shared, drained, rc, call, stop,
                 last_exception, calls, starts, abandoned>>

StoreId(h) ==
  /\ pc[h] = "store_id"
  /\ next_trans_id' = call[h].id + 1
  /\ Goto(h, "push")
  /\ UNCHANGED <<locked, shared, drained, rc, call, stop, last_exception,
                 calls, starts, abandoned>>

Push(h) ==
  /\ pc[h] = "push"
  /\ inject_q' = Append(inject_q, call[h])
  /\ IF call[h].kind = "read"
     THEN /\ pending_resp' =
               [pending_resp EXCEPT ![call[h].id] = call[h].promise]
          /\ Goto(h, IF SelfDrain THEN "swap" ELSE "wait")
     ELSE /\ Goto(h, "idle")
          /\ UNCHANGED pending_resp
  /\ UNCHANGED <<mmio_regs, pending_data, next_trans_id, shared, drained, rc,
                 call, stop, last_exception, calls, starts, abandoned>>

-----------------------------------------------------------------------------
(* drain_injection_queue: swap the queue out, then serve request by        *)
(* request.  A read is looked up and its payload stored in one critical    *)
(* section; the promise is set after it.  The catch around set_value never *)
(* runs: a promise whose future is gone still accepts its value.           *)

AfterDrain(t) == IF t \in Host THEN "wait" ELSE IF t = Sim THEN "loop"
                 ELSE "idle"

(* Mutant: the queue is copied out and not emptied.                        *)
SwapCopies(t) ==
  /\ pc[t] = "swap"
  /\ drained' = [drained EXCEPT ![t] = inject_q]
  /\ Goto(t, IF inject_q = <<>> THEN AfterDrain(t) ELSE "serve")
  /\ UNCHANGED <<locked, next_trans_id, shared, rc, call, stop,
                 last_exception, calls, starts, abandoned>>

Swap(t) ==
  /\ pc[t] = "swap"
  /\ drained' = [drained EXCEPT ![t] = inject_q]
  /\ inject_q' = <<>>
  /\ Goto(t, IF inject_q = <<>> THEN AfterDrain(t) ELSE "serve")
  /\ UNCHANGED <<mmio_regs, pending_resp, pending_data, next_trans_id, shared,
                 rc, call, stop, last_exception, calls, starts, abandoned>>

(* Mutant: a register nobody wrote has no zero bytes to show.              *)
ContentUnfilled(r) == mmio_regs[r]

Content(r) == IF mmio_regs[r] = None THEN Zero ELSE mmio_regs[r]
Answer(r, n) ==
  IF mmio_regs[r] # None /\ Size(mmio_regs[r]) # n THEN EINVAL ELSE "ok"

Advance(t) ==
  /\ drained' = [drained EXCEPT ![t] = Tail(@)]
  /\ Goto(t, IF Tail(drained[t]) = <<>> THEN AfterDrain(t) ELSE "serve")

ServeOther(t) ==
  /\ pc[t] = "serve" /\ Head(drained[t]).kind # "read"
  /\ Advance(t)
  /\ UNCHANGED <<locked, next_trans_id, shared, rc, call, stop,
                 last_exception, calls, starts, abandoned>>

ServeRead(t) ==
  LET req == Head(drained[t]) IN
  /\ pc[t] = "serve" /\ req.kind = "read"
  /\ rc' = [rc EXCEPT ![t] = Answer(req.reg, req.len)]
  /\ IF Answer(req.reg, req.len) = "ok"
     THEN pending_data' = [pending_data EXCEPT ![req.id] =
                             [reg |-> req.reg, val |-> Content(req.reg)]]
     ELSE UNCHANGED pending_data
  /\ Goto(t, "answer")
  /\ UNCHANGED <<inject_q, mmio_regs, pending_resp, next_trans_id, shared,
                 drained, call, stop, last_exception, calls, starts,
                 abandoned>>

SetValue(t) ==
  /\ pc[t] = "answer"
  /\ shared' = [shared EXCEPT ![Head(drained[t]).promise] = rc[t]]
  /\ rc' = [rc EXCEPT ![t] = Unset]
  /\ Advance(t)
  /\ UNCHANGED <<locked, next_trans_id, call, stop, last_exception, calls,
                 starts, abandoned>>

(* DGpuBoard::tick() on a host thread that makes no other call.            *)
Tick(t) ==
  /\ t \in Pump /\ pc[t] = "idle" /\ inject_q # <<>>
  /\ Goto(t, "swap")
  /\ UNCHANGED <<locked, next_trans_id, shared, drained, rc, call, stop,
                 last_exception, calls, starts, abandoned>>

-----------------------------------------------------------------------------
(* The rest of mmio_read: wait_for on pending_resp_[trans_id], without the *)
(* lock, then either give up or take the answer.                           *)

Future(h) == pending_resp[call[h].id]
Return(h) == Goto(h, "idle") /\ call' = [call EXCEPT ![h] = NoCall]

WaitReady(h) ==
  /\ pc[h] = "wait" /\ Future(h) # None /\ shared[Future(h)] # Unset
  /\ Goto(h, "get")
  /\ UNCHANGED <<locked, next_trans_id, shared, drained, rc, call, stop,
                 last_exception, calls, starts, abandoned>>

WaitTimeout(h) ==
  /\ pc[h] = "wait" /\ Future(h) # None /\ shared[Future(h)] = Unset
  /\ Goto(h, "abandon")
  /\ UNCHANGED <<locked, next_trans_id, shared, drained, rc, call, stop,
                 last_exception, calls, starts, abandoned>>

(* operator[] on an id another reader has erased or consumed: wait_for and *)
(* get throw future_error to the caller.                                   *)
NoState(h) ==
  /\ pc[h] \in {"wait", "get"} /\ Future(h) = None
  /\ Return(h)
  /\ UNCHANGED <<locked, next_trans_id, shared, drained, rc, stop,
                 last_exception, calls, starts, abandoned>>

Abandon(h) ==
  /\ pc[h] = "abandon"
  /\ pending_resp' = [pending_resp EXCEPT ![call[h].id] = None]
  /\ pending_data' = [pending_data EXCEPT ![call[h].id] = None]
  /\ abandoned' = abandoned \cup {call[h].id}
  /\ Return(h)
  /\ UNCHANGED <<inject_q, mmio_regs, next_trans_id, shared, drained, rc, stop,
                 last_exception, calls, starts>>

Get(h) ==
  /\ pc[h] = "get" /\ Future(h) # None
  /\ rc' = [rc EXCEPT ![h] = shared[Future(h)]]
  /\ pending_resp' = [pending_resp EXCEPT ![call[h].id] = None]
  /\ Goto(h, "collect")
  /\ UNCHANGED <<inject_q, mmio_regs, pending_data, next_trans_id, shared,
                 drained, call, stop, last_exception, calls, starts,
                 abandoned>>

(* Mutant: the payload is copied and not erased.                           *)
CollectKeepsData(h) ==
  /\ pc[h] = "collect"
  /\ pending_resp' = [pending_resp EXCEPT ![call[h].id] = None]
  /\ rc' = [rc EXCEPT ![h] = Unset]
  /\ Return(h)
  /\ UNCHANGED <<inject_q, mmio_regs, pending_data, next_trans_id, shared,
                 drained, stop, last_exception, calls, starts, abandoned>>

Collect(h) ==
  /\ pc[h] = "collect"
  /\ pending_data' = [pending_data EXCEPT ![call[h].id] = None]
  /\ pending_resp' = [pending_resp EXCEPT ![call[h].id] = None]
  /\ rc' = [rc EXCEPT ![h] = Unset]
  /\ Return(h)
  /\ UNCHANGED <<inject_q, mmio_regs, next_trans_id, shared, drained, stop,
                 last_exception, calls, starts, abandoned>>

-----------------------------------------------------------------------------
(* The simulation thread and the life cycle of the board.                  *)

(* init(): starts the thread unless it is joinable.  After a destroy() it  *)
(* follows load_soc_config(), which builds a new SOC and event queue.      *)
InitBoard(h) ==
  /\ pc[h] = "idle" /\ pc[Sim] = "none" /\ starts < MaxStarts
  /\ stop' = FALSE
  /\ starts' = starts + 1
  /\ Goto(Sim, "loop")
  /\ UNCHANGED <<locked, next_trans_id, shared, drained, rc, call,
                 last_exception, calls, abandoned>>

(* Mutant: the loop runs the event queue and does not drain.               *)
SimRunOnly == pc[Sim] = "loop" /\ ~stop /\ UNCHANGED vars

SimRun ==
  /\ pc[Sim] = "loop" /\ ~stop
  /\ Goto(Sim, "swap")
  /\ UNCHANGED <<locked, next_trans_id, shared, drained, rc, call, stop,
                 last_exception, calls, starts, abandoned>>

(* eq_->run throws: the exception is stored and the loop is left.          *)
SimThrow ==
  /\ pc[Sim] = "loop" /\ ~stop
  /\ last_exception' = TRUE
  /\ Goto(Sim, "exited")
  /\ UNCHANGED <<locked, next_trans_id, shared, drained, rc, call, stop,
                 calls, starts, abandoned>>

(* Mutant: the loop does not look at stop_.                                *)
SimNeverStops == FALSE

SimStop ==
  /\ pc[Sim] = "loop" /\ stop
  /\ Goto(Sim, "exited")
  /\ UNCHANGED <<locked, next_trans_id, shared, drained, rc, call, stop,
                 last_exception, calls, starts, abandoned>>

(* destroy(): stop_ = true, poison pill, join.                             *)
Shutdown(h) ==
  /\ pc[h] = "idle" /\ pc[Sim] # "none"
  /\ \A g \in Host \ {h} : pc[g] = "idle"
  /\ stop' = TRUE
  /\ Goto(h, "poison")
  /\ UNCHANGED <<locked, next_trans_id, shared, drained, rc, call,
                 last_exception, calls, starts, abandoned>>

PushPoison(h) ==
  /\ pc[h] = "poison"
  /\ inject_q' = Append(inject_q, Poison)
  /\ Goto(h, "join")
  /\ UNCHANGED <<mmio_regs, pending_resp, pending_data, next_trans_id, shared,
                 drained, rc, call, stop, last_exception, calls, starts,
                 abandoned>>

Join(h) ==
  /\ pc[h] = "join" /\ pc[Sim] = "exited"
  /\ pc' = [pc EXCEPT ![h] = "idle", ![Sim] = "none"]
  /\ UNCHANGED <<locked, next_trans_id, shared, drained, rc, call, stop,
                 last_exception, calls, starts, abandoned>>

-----------------------------------------------------------------------------
HostStep(h) ==
  \/ StoreId(h) \/ Push(h)
  \/ WaitReady(h) \/ WaitTimeout(h) \/ NoState(h) \/ Abandon(h)
  \/ Get(h) \/ Collect(h) \/ PushPoison(h) \/ Join(h)

Drain(t) == Swap(t) \/ ServeOther(t) \/ ServeRead(t) \/ SetValue(t)

SimStep == SimRun \/ SimThrow \/ SimStop

Next ==
  \/ \E h \in Host :
       \/ \E r \in Reg : \/ \E v \in Val : MmioWrite(h, r, v)
                         \/ \E n \in Length : MmioRead(h, r, n)
       \/ BackdoorWrite(h) \/ InitBoard(h) \/ Shutdown(h)
       \/ HostStep(h)
  \/ \E t \in Thread : Drain(t)
  \/ \E t \in Pump : Tick(t)
  \/ SimStep

(* Every thread runs; a host need not call, and a pump need not tick.      *)
Fairness ==
  /\ \A h \in Host : WF_vars(HostStep(h))
  /\ \A t \in Thread : WF_vars(Drain(t))
  /\ WF_vars(SimRun) /\ WF_vars(SimStop)

Spec == Init /\ [][Next]_vars
FairSpec == Spec /\ Fairness

-----------------------------------------------------------------------------
(* Every variable keeps the type the fields of DGpuBoard give it.          *)
TypeOK ==
  /\ inject_q \in Seq(Request)
  /\ mmio_regs \in [Reg -> Val \cup {None}]
  /\ pending_resp \in [Id -> Promise \cup {None}]
  /\ pending_data \in [Id -> [reg : Reg, val : Val \cup {Zero}] \cup {None}]
  /\ next_trans_id \in Id
  /\ shared \in [Promise -> Rc \cup {Unset}]
  /\ drained \in [Thread -> Seq(Request)]
  /\ rc \in [Thread -> Rc \cup {Unset}]
  /\ call \in [Host -> Request]
  /\ pc \in [Thread -> HostPc \cup SimPc]
  /\ stop \in BOOLEAN /\ last_exception \in BOOLEAN
  /\ calls \in 0..MaxCalls /\ starts \in 0..MaxStarts
  /\ abandoned \subseteq Id

Reading(h) == call[h].kind = "read" /\ pc[h] # "idle"

(* What mmio_read hands back with rc 0 is the register the caller asked    *)
(* for, with the bytes last written to it, however many earlier reads have *)
(* timed out and whichever thread served the request: late answers to      *)
(* abandoned reads never reach a later one (dgpu_board_shell.cc:428).      *)
ReadYourWrites ==
  \A h \in Host :
    pc[h] = "collect" /\ rc[h] = "ok" =>
      pending_data[call[h].id] =
        [reg |-> call[h].reg, val |-> Content(call[h].reg)]

(* A request is at one place: a promise is queued once, or held by one     *)
(* draining thread, or set; so no drain answers a read twice, which would  *)
(* throw promise_already_satisfied (dgpu_board_shell.cc:1144).             *)
Holders(p) ==
  {<<"q", k>> : k \in {j \in 1..Len(inject_q) : inject_q[j].promise = p}}
  \cup UNION {{<<t, k>> : k \in {j \in 1..Len(drained[t]) :
                                  drained[t][j].promise = p}} : t \in Thread}

ServedOnce ==
  \A p \in Promise : \A x, y \in Holders(p) :
    x = y /\ shared[p] = Unset

(* A payload or a future that stays in the maps belongs to a read that is  *)
(* under way or, for payloads, to one that timed out: a read that is       *)
(* answered leaves nothing behind (dgpu_board_shell.cc:431-439).           *)
NothingLeftByAnsweredReads ==
  \A i \in Id :
    /\ pending_data[i] # None =>
         i \in abandoned \/ \E h \in Host : Reading(h) /\ call[h].id = i
    /\ pending_resp[i] # None => \E h \in Host : Reading(h) /\ call[h].id = i

(* The trans_id of a request links a response to its reader                *)
(* (dgpu_board_shell.hh:50): no reader collects another register's bytes.  *)
(* With two host threads the unlocked counter breaks this.                 *)
NoCrossTalk ==
  \A h \in Host :
    pc[h] = "collect" /\ rc[h] = "ok" /\ pending_data[call[h].id] # None =>
      pending_data[call[h].id].reg = call[h].reg

(* destroy() returns: the simulation thread sees stop_ and is joined       *)
(* (dgpu_board_shell.cc:1083).                                             *)
ShutdownReturns ==
  \A h \in Host : pc[h] = "join" ~> pc[h] = "idle"

(* While the simulation thread lives, whatever the host injected is        *)
(* drained at a quantum boundary (dgpu_board_shell.cc:1130).               *)
InjectedIsDrained ==
  inject_q # <<>> ~> inject_q = <<>> \/ pc[Sim] \in {"none", "exited"}
=============================================================================
