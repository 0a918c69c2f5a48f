------------------------- MODULE SimulationProofs --------------------------
(***************************************************************************)
(* Proofs about what drives a simulation.                                  *)
(*                                                                         *)
(* BoardInject, for any number of host threads, ticking threads,           *)
(* registers, values and calls: the types, and that a promise is set once. *)
(* For a single host, beside any number of ticking threads: that a read    *)
(* returns what was written, and that an answered read leaves nothing      *)
(* behind.  The unlocked counter of the code breaks the last two for two   *)
(* hosts (NoCrossTalk).                                                    *)
(*                                                                         *)
(* SimKernel, for any packets and channels: objects tick in step, packets  *)
(* are in one place, channels keep their order.                            *)
(*                                                                         *)
(* MemPath, for any patterns and latencies: a request ends once.           *)
(***************************************************************************)
EXTENDS BoardInject, SimKernel, MemPath, FiniteSetTheorems, FunctionTheorems,
        SequenceTheorems, TLAPS

(* Types, for any number of threads.  TypeInv adds what the control points *)
(* say: a number drawn is below the count of calls, a thread that serves   *)
(* has something to serve, and a queued read has all its arguments.        *)
Wellformed == {q \in Request : q.kind = "read" =>
                 q.reg \in Reg /\ q.len \in Length /\ q.promise \in Promise}

TypeInv ==
  /\ TypeOK
  /\ inject_q \in Seq(Wellformed) /\ drained \in [Thread -> Seq(Wellformed)]
  /\ call \in [Host -> Wellformed]
  /\ next_trans_id <= calls
  /\ \A h \in Host : pc[h] = "store_id" => call[h].id < calls
  /\ \A t \in Thread : /\ pc[t] \in {"serve", "answer"} => drained[t] # <<>>
                       /\ pc[t] = "answer" => Head(drained[t]).kind = "read"

LEMMA PoisonIsRequest == Poison \in Wellformed /\ NoCall \in Wellformed
BY BoundAssumption DEF Poison, NoCall, Request, Wellformed, Id

(* Taking a request off the local queue.                                   *)
LEMMA AdvanceType ==
  ASSUME TypeInv, NEW t \in Thread, pc[t] \in {"serve", "answer"}, Advance(t),
         UNCHANGED <<call, calls>>
  PROVE  /\ drained' \in [Thread -> Seq(Wellformed)]
         /\ drained' \in [Thread -> Seq(Request)]
         /\ pc' \in [Thread -> HostPc \cup SimPc]
         /\ \A h \in Host : pc'[h] = "store_id" => call'[h].id < calls'
         /\ \A u \in Thread :
              /\ pc'[u] \in {"serve", "answer"} => drained'[u] # <<>>
              /\ pc'[u] = "answer" => Head(drained'[u]).kind = "read"
<1>1. /\ drained \in [Thread -> Seq(Wellformed)] /\ drained[t] # <<>>
      /\ pc \in [Thread -> HostPc \cup SimPc]
  BY DEF TypeInv, TypeOK
<1>2. Tail(drained[t]) \in Seq(Wellformed)
  BY <1>1
<1>3. /\ pc' = [pc EXCEPT ![t] = IF Tail(drained[t]) = <<>> THEN AfterDrain(t)
                                 ELSE "serve"]
      /\ drained' = [drained EXCEPT ![t] = Tail(drained[t])]
  BY DEF Advance, Goto
<1>4. AfterDrain(t) \in {"wait", "loop", "idle"}
  BY DEF AfterDrain
<1>5. drained' \in [Thread -> Seq(Wellformed)]
  BY <1>1, <1>2, <1>3
<1>6. pc' \in [Thread -> HostPc \cup SimPc]
  BY <1>1, <1>3, <1>4 DEF HostPc, SimPc
<1>7. \A h \in Host : pc'[h] = "store_id" => call'[h].id < calls'
  BY <1>1, <1>3, <1>4 DEF TypeInv, Thread
<1>8. \A u \in Thread :
        /\ pc'[u] \in {"serve", "answer"} => drained'[u] # <<>>
        /\ pc'[u] = "answer" => Head(drained'[u]).kind = "read"
  BY <1>1, <1>3, <1>4 DEF TypeInv
<1>9. drained' \in [Thread -> Seq(Request)]
  <2>1. Seq(Wellformed) \subseteq Seq(Request)
    BY DEF Wellformed
  <2> QED BY <1>5, <2>1
<1> QED BY <1>5, <1>6, <1>7, <1>8, <1>9

LEMMA TypeStep == TypeInv /\ [Next]_vars => TypeInv'
<1> SUFFICES ASSUME TypeInv, [Next]_vars PROVE TypeInv'
  OBVIOUS
<1>0. /\ Seq(Wellformed) \subseteq Seq(Request)
      /\ Host \subseteq Thread /\ Sim \in Thread /\ Sim \notin Host
      /\ MaxCalls \in Nat /\ MaxStarts \in Nat
  BY ThreadsDiffer, BoundAssumption DEF Wellformed, Thread
<1>1. ASSUME NEW h \in Host, NEW what \in {"read", "write", "backdoor"},
             NEW r \in Reg \cup {None}, NEW n \in Length \cup {None},
             what = "read" => r \in Reg /\ n \in Length,
             Enter(h, what, r, n),
             mmio_regs' \in [Reg -> Val \cup {None}]
      PROVE  TypeInv'
  <2> DEFINE new == [kind |-> what, id |-> next_trans_id, reg |-> r, len |-> n,
                     promise |-> IF what = "read" THEN calls + 1 ELSE None]
  <2>1. new \in Wellformed /\ new.id < calls + 1 /\ calls + 1 \in 0..MaxCalls
    BY <1>0, <1>1 DEF TypeInv, TypeOK, Enter, Wellformed, Request, Id, Promise
  <2>2. call' = [call EXCEPT ![h] = new] /\ calls' = calls + 1
    BY <1>1 DEF Enter
  <2> HIDE DEF new
  <2>3. call' \in [Host -> Wellformed] /\ call' \in [Host -> Request]
    BY <2>1, <2>2 DEF TypeInv, Wellformed
  <2>4. pc' = [pc EXCEPT ![h] = "store_id"] /\ pc[h] = "idle"
    BY <1>1 DEF Enter, Goto
  <2>5. /\ pc' \in [Thread -> HostPc \cup SimPc]
        /\ \A t \in Thread : /\ pc'[t] \in {"serve", "answer"} => drained[t] # <<>>
                             /\ pc'[t] = "answer" => Head(drained[t]).kind = "read"
    BY <1>0, <2>4 DEF TypeInv, TypeOK, HostPc
  <2>6. \A g \in Host : pc'[g] = "store_id" => call'[g].id < calls'
    <3> SUFFICES ASSUME NEW g \in Host, pc'[g] = "store_id"
                 PROVE  call'[g].id < calls'
      OBVIOUS
    <3>1. CASE g = h
      BY <2>1, <2>2, <3>1 DEF TypeInv
    <3>2. CASE g # h
      <4>1. pc[g] = "store_id" /\ call'[g] = call[g]
        BY <1>0, <2>2, <2>4, <3>2 DEF TypeInv, TypeOK
      <4>2. call[g].id < calls /\ call[g].id \in Nat /\ calls \in Nat
        BY <4>1 DEF TypeInv, TypeOK, Request, Id
      <4> QED BY <2>2, <4>1, <4>2
    <3> QED BY <3>1, <3>2
  <2>7. next_trans_id <= calls + 1 /\ calls' \in 0..MaxCalls
    BY <2>1, <2>2 DEF TypeInv, TypeOK, Id
  <2> QED BY <1>1, <2>2, <2>3, <2>5, <2>6, <2>7 DEF TypeInv, TypeOK, Enter
<1>2. ASSUME NEW h \in Host, NEW r \in Reg,
             \/ \E v \in Val : MmioWrite(h, r, v)
             \/ \E n \in Length : MmioRead(h, r, n)
      PROVE  TypeInv'
  <2>1. ASSUME NEW v \in Val, MmioWrite(h, r, v) PROVE TypeInv'
    <3>1. mmio_regs' \in [Reg -> Val \cup {None}]
      BY <2>1 DEF MmioWrite, TypeInv, TypeOK
    <3> QED BY <1>1, <2>1, <3>1 DEF MmioWrite
  <2>2. ASSUME NEW n \in Length, MmioRead(h, r, n) PROVE TypeInv'
    <3>1. mmio_regs' \in [Reg -> Val \cup {None}]
      BY <2>2 DEF MmioRead, TypeInv, TypeOK
    <3> QED BY <1>1, <2>2, <3>1 DEF MmioRead
  <2> QED BY <1>2, <2>1, <2>2
<1>3. ASSUME NEW h \in Host, BackdoorWrite(h) PROVE TypeInv'
  <2>1. mmio_regs' \in [Reg -> Val \cup {None}]
    BY <1>3 DEF BackdoorWrite, TypeInv, TypeOK
  <2> QED BY <1>1, <1>3, <2>1 DEF BackdoorWrite
<1>4. ASSUME NEW h \in Host, StoreId(h) PROVE TypeInv'
  <2>1. call[h].id + 1 \in Id /\ call[h].id + 1 <= calls
    BY <1>0, <1>4 DEF TypeInv, TypeOK, StoreId, Request, Id
  <2>2. pc' = [pc EXCEPT ![h] = "push"]
    BY <1>4 DEF StoreId, Goto
  <2>3. /\ pc' \in [Thread -> HostPc \cup SimPc]
        /\ \A g \in Host : pc'[g] = "store_id" => call[g].id < calls
        /\ \A t \in Thread : /\ pc'[t] \in {"serve", "answer"} => drained[t] # <<>>
                             /\ pc'[t] = "answer" => Head(drained[t]).kind = "read"
    BY <1>0, <2>2 DEF TypeInv, TypeOK, HostPc
  <2> QED BY <1>4, <2>1, <2>3 DEF StoreId, locked, TypeInv, TypeOK
(* A step that moves one thread to a control point that promises nothing.  *)
<1>5. ASSUME NEW t \in Thread, NEW label \in HostPc \cup SimPc,
             label \notin {"store_id", "serve", "answer"},
             pc' = [pc EXCEPT ![t] = label]
      PROVE  /\ pc' \in [Thread -> HostPc \cup SimPc]
             /\ \A g \in Host : pc'[g] = "store_id" => call[g].id < calls
             /\ \A u \in Thread :
                  /\ pc'[u] \in {"serve", "answer"} => drained[u] # <<>>
                  /\ pc'[u] = "answer" => Head(drained[u]).kind = "read"
  BY <1>0, <1>5 DEF TypeInv, TypeOK
<1>6. ASSUME NEW h \in Host, Push(h) PROVE TypeInv'
  <2>1. /\ inject_q' = Append(inject_q, call[h]) /\ call[h] \in Wellformed
        /\ inject_q' \in Seq(Wellformed)
    BY <1>6 DEF Push, TypeInv
  <2>2. pending_resp' \in [Id -> Promise \cup {None}]
    BY <1>6 DEF Push, TypeInv, TypeOK, Wellformed
  <2>3. \E label \in {"swap", "wait", "idle"} : pc' = [pc EXCEPT ![h] = label]
    BY <1>6 DEF Push, Goto
  <2> QED BY <1>0, <1>5, <1>6, <2>1, <2>2, <2>3
          DEF Push, TypeInv, TypeOK, HostPc
<1>7. ASSUME NEW h \in Host, WaitReady(h) \/ WaitTimeout(h) PROVE TypeInv'
  <2>1. \E label \in {"get", "abandon"} : pc' = [pc EXCEPT ![h] = label]
    BY <1>7 DEF WaitReady, WaitTimeout, Goto
  <2> QED BY <1>0, <1>5, <1>7, <2>1
          DEF WaitReady, WaitTimeout, locked, TypeInv, TypeOK, HostPc
(* The steps that end a call.                                              *)
<1>8. ASSUME NEW h \in Host, NoState(h) \/ Abandon(h) \/ Collect(h)
      PROVE  TypeInv'
  <2>1. /\ pc' = [pc EXCEPT ![h] = "idle"] /\ "idle" \in HostPc
        /\ call' = [call EXCEPT ![h] = NoCall]
        /\ UNCHANGED <<inject_q, mmio_regs, next_trans_id, shared, drained, stop,
                       last_exception, calls, starts>>
    BY <1>8 DEF NoState, Abandon, Collect, Return, Goto, locked, HostPc
  <2>2. call' \in [Host -> Wellformed] /\ call' \in [Host -> Request]
    BY <2>1, PoisonIsRequest DEF TypeInv, Wellformed
  <2>3. \A g \in Host : pc'[g] = "store_id" => call'[g].id < calls
    BY <1>0, <2>1 DEF TypeInv, TypeOK
  <2>4. /\ pending_resp' \in [Id -> Promise \cup {None}]
        /\ pending_data' \in [Id -> [reg : Reg, val : Val \cup {Zero}] \cup {None}]
        /\ rc' \in [Thread -> Rc \cup {Unset}] /\ abandoned' \subseteq Id
    <3>1. call[h].id \in Id
      BY DEF TypeInv, TypeOK, Request
    <3> QED BY <1>8, <3>1 DEF NoState, Abandon, Collect, locked, TypeInv, TypeOK
  <2>5. /\ pc' \in [Thread -> HostPc \cup SimPc]
        /\ \A u \in Thread :
             /\ pc'[u] \in {"serve", "answer"} => drained[u] # <<>>
             /\ pc'[u] = "answer" => Head(drained[u]).kind = "read"
    BY <1>0, <1>5, <2>1
  <2> QED BY <2>1, <2>2, <2>3, <2>4, <2>5 DEF TypeInv, TypeOK
<1>9. ASSUME NEW h \in Host, Get(h) PROVE TypeInv'
  <2>1. pending_resp' \in [Id -> Promise \cup {None}]
    BY <1>9 DEF Get, TypeInv, TypeOK
  <2>2. rc' \in [Thread -> Rc \cup {Unset}]
    <3>1. pending_resp[call[h].id] \in Promise
      BY <1>9 DEF Get, Future, TypeInv, TypeOK, Request
    <3> QED BY <1>0, <1>9, <3>1 DEF Get, Future, TypeInv, TypeOK
  <2>3. pc' = [pc EXCEPT ![h] = "collect"]
    BY <1>9 DEF Get, Goto
  <2> QED BY <1>0, <1>5, <1>9, <2>1, <2>2, <2>3
          DEF Get, TypeInv, TypeOK, HostPc
<1>10. ASSUME NEW h \in Host, PushPoison(h) PROVE TypeInv'
  <2>1. inject_q' \in Seq(Wellformed)
    BY <1>10, PoisonIsRequest DEF PushPoison, TypeInv
  <2>2. pc' = [pc EXCEPT ![h] = "join"]
    BY <1>10 DEF PushPoison, Goto
  <2> QED BY <1>0, <1>5, <1>10, <2>1, <2>2
          DEF PushPoison, TypeInv, TypeOK, HostPc
<1>11. ASSUME NEW h \in Host, Join(h) PROVE TypeInv'
  <2>1. /\ pc' \in [Thread -> HostPc \cup SimPc]
        /\ \A g \in Host : pc'[g] = "store_id" => call[g].id < calls
        /\ \A t \in Thread : /\ pc'[t] \in {"serve", "answer"} => drained[t] # <<>>
                             /\ pc'[t] = "answer" => Head(drained[t]).kind = "read"
    BY <1>0, <1>11 DEF Join, TypeInv, TypeOK, HostPc, SimPc
  <2> QED BY <1>11, <2>1 DEF Join, locked, TypeInv, TypeOK
<1>12. ASSUME NEW h \in Host, InitBoard(h) \/ Shutdown(h) PROVE TypeInv'
  <2>1. \/ pc' = [pc EXCEPT ![Sim] = "loop"]
        \/ pc' = [pc EXCEPT ![h] = "poison"]
    BY <1>12 DEF InitBoard, Shutdown, Goto
  <2>2. /\ pc' \in [Thread -> HostPc \cup SimPc]
        /\ \A g \in Host : pc'[g] = "store_id" => call[g].id < calls
        /\ \A t \in Thread : /\ pc'[t] \in {"serve", "answer"} => drained[t] # <<>>
                             /\ pc'[t] = "answer" => Head(drained[t]).kind = "read"
    BY <1>0, <1>5, <2>1 DEF HostPc, SimPc
  <2>3. starts' \in 0..MaxStarts
    <3>1. starts \in 0..MaxStarts /\ MaxStarts \in Nat
      BY <1>0 DEF TypeInv, TypeOK
    <3>2. CASE InitBoard(h)
      BY <3>1, <3>2 DEF InitBoard
    <3>3. CASE Shutdown(h)
      BY <3>1, <3>3 DEF Shutdown
    <3> QED BY <1>12, <3>2, <3>3
  <2>4. stop' \in BOOLEAN
    BY <1>12, Zenon DEF InitBoard, Shutdown
  <2> QED BY <1>12, <2>2, <2>3, <2>4 DEF InitBoard, Shutdown, locked, TypeInv, TypeOK
<1>13. ASSUME NEW t \in Thread, Swap(t) PROVE TypeInv'
  <2>1. /\ inject_q' = <<>> /\ inject_q' \in Seq(Wellformed)
        /\ drained' = [drained EXCEPT ![t] = inject_q]
        /\ pc' = [pc EXCEPT ![t] = IF inject_q = <<>> THEN AfterDrain(t)
                                   ELSE "serve"]
        /\ UNCHANGED <<call, calls>>
    BY <1>13 DEF Swap, Goto
  <2>2. drained' \in [Thread -> Seq(Wellformed)]
    BY <2>1 DEF TypeInv
  <2>3. AfterDrain(t) \in {"wait", "loop", "idle"}
    BY DEF AfterDrain
  <2>4. pc' \in [Thread -> HostPc \cup SimPc]
    BY <2>1, <2>3 DEF TypeInv, TypeOK, HostPc, SimPc
  <2>5. \A g \in Host : pc'[g] = "store_id" => call[g].id < calls
    BY <1>0, <2>1, <2>3 DEF TypeInv, TypeOK
  <2>6. \A u \in Thread : /\ pc'[u] \in {"serve", "answer"} => drained'[u] # <<>>
                          /\ pc'[u] = "answer" => Head(drained'[u]).kind = "read"
    BY <2>1, <2>3 DEF TypeInv, TypeOK
  <2>7. drained' \in [Thread -> Seq(Request)] /\ inject_q' \in Seq(Request)
    BY <1>0, <2>1, <2>2
  <2> QED BY <1>13, <2>1, <2>2, <2>4, <2>5, <2>6, <2>7 DEF Swap, TypeInv, TypeOK
<1>14. ASSUME NEW t \in Thread, ServeOther(t) PROVE TypeInv'
  <2>1. UNCHANGED <<call, calls>> /\ Advance(t) /\ pc[t] = "serve"
    BY <1>14 DEF ServeOther
  <2> QED BY <1>14, <2>1, AdvanceType DEF ServeOther, locked, TypeInv, TypeOK
<1>15. ASSUME NEW t \in Thread, ServeRead(t) PROVE TypeInv'
  <2> DEFINE req == Head(drained[t])
  <2>1. pc[t] = "serve" /\ drained[t] # <<>> /\ req.kind = "read"
    BY <1>15 DEF ServeRead, TypeInv
  <2>2. /\ req \in Wellformed /\ req.id \in Id /\ req.reg \in Reg
        /\ req.len \in Length
    <3>1. req \in Wellformed
      BY <2>1 DEF TypeInv
    <3> QED BY <2>1, <3>1 DEF Wellformed, Request
  <2> HIDE DEF req
  <2>3. /\ Answer(req.reg, req.len) \in Rc
        /\ [reg |-> req.reg, val |-> Content(req.reg)]
             \in [reg : Reg, val : Val \cup {Zero}]
    BY <2>2 DEF Answer, Content, Rc, TypeInv, TypeOK
  <2>4. /\ rc' \in [Thread -> Rc \cup {Unset}]
        /\ pending_data' \in [Id -> [reg : Reg, val : Val \cup {Zero}] \cup {None}]
    BY <1>15, <2>2, <2>3 DEF ServeRead, req, TypeInv, TypeOK
  <2>5. pc' = [pc EXCEPT ![t] = "answer"]
    BY <1>15 DEF ServeRead, Goto
  <2>6. /\ pc' \in [Thread -> HostPc \cup SimPc]
        /\ \A g \in Host : pc'[g] = "store_id" => call[g].id < calls
        /\ \A u \in Thread : /\ pc'[u] \in {"serve", "answer"} => drained[u] # <<>>
                             /\ pc'[u] = "answer" => Head(drained[u]).kind = "read"
    BY <1>0, <2>1, <2>5 DEF req, TypeInv, TypeOK, HostPc
  <2> QED BY <1>15, <2>4, <2>6 DEF ServeRead, TypeInv, TypeOK
<1>16. ASSUME NEW t \in Thread, SetValue(t) PROVE TypeInv'
  <2>1. UNCHANGED <<call, calls>> /\ Advance(t) /\ pc[t] = "answer"
    BY <1>16 DEF SetValue
  <2>2. Head(drained[t]).promise \in Promise
    <3>1. drained[t] \in Seq(Wellformed) /\ drained[t] # <<>>
          /\ Head(drained[t]).kind = "read"
      BY <2>1 DEF TypeInv
    <3> QED BY <3>1 DEF Wellformed
  <2>3. /\ shared' \in [Promise -> Rc \cup {Unset}]
        /\ rc' \in [Thread -> Rc \cup {Unset}]
    BY <1>16, <2>2 DEF SetValue, TypeInv, TypeOK
  <2> QED BY <1>16, <2>1, <2>3, AdvanceType DEF SetValue, locked, TypeInv, TypeOK
<1>17. ASSUME NEW t \in Pump, Tick(t) PROVE TypeInv'
  <2>1. t \in Thread /\ pc' = [pc EXCEPT ![t] = "swap"]
    BY <1>17 DEF Tick, Goto, Thread
  <2> QED BY <1>5, <1>17, <2>1 DEF Tick, locked, TypeInv, TypeOK, HostPc
<1>18. CASE SimStep
  <2>1. \E label \in {"swap", "exited"} : pc' = [pc EXCEPT ![Sim] = label]
    BY <1>18 DEF SimStep, SimRun, SimThrow, SimStop, Goto
  <2>2. /\ pc' \in [Thread -> HostPc \cup SimPc]
        /\ \A g \in Host : pc'[g] = "store_id" => call[g].id < calls
        /\ \A t \in Thread : /\ pc'[t] \in {"serve", "answer"} => drained[t] # <<>>
                             /\ pc'[t] = "answer" => Head(drained[t]).kind = "read"
    BY <1>0, <1>5, <2>1 DEF HostPc, SimPc
  <2> QED BY <1>18, <2>2
          DEF SimStep, SimRun, SimThrow, SimStop, locked, TypeInv, TypeOK
<1>19. CASE UNCHANGED vars
  BY <1>19 DEF vars, TypeInv, TypeOK
<1> QED BY <1>2, <1>3, <1>4, <1>6, <1>7, <1>8, <1>9, <1>10, <1>11, <1>12, <1>13,
           <1>14, <1>15, <1>16, <1>17, <1>18, <1>19
        DEF Next, HostStep, Drain

LEMMA TypeInit == Init => TypeInv
<1> SUFFICES ASSUME Init PROVE TypeInv
  OBVIOUS
<1>1. /\ 0 \in Id /\ Sim \in Thread /\ Host \subseteq Thread
      /\ 0 \in 0..MaxCalls /\ 0 \in 0..MaxStarts
  BY BoundAssumption DEF Id, Thread
<1>2. /\ pc \in [Thread -> HostPc \cup SimPc]
      /\ \A t \in Thread : pc[t] \notin {"store_id", "serve", "answer"}
  BY DEF Init, HostPc, SimPc
<1>3. call \in [Host -> Wellformed] /\ call \in [Host -> Request]
  BY PoisonIsRequest DEF Init, Wellformed
<1>4. /\ inject_q \in Seq(Wellformed) /\ inject_q \in Seq(Request)
      /\ drained \in [Thread -> Seq(Wellformed)]
      /\ drained \in [Thread -> Seq(Request)]
  BY DEF Init
<1>5. /\ mmio_regs \in [Reg -> Val \cup {None}]
      /\ pending_resp \in [Id -> Promise \cup {None}]
      /\ pending_data \in [Id -> [reg : Reg, val : Val \cup {Zero}] \cup {None}]
      /\ shared \in [Promise -> Rc \cup {Unset}]
      /\ rc \in [Thread -> Rc \cup {Unset}]
  BY DEF Init
<1>6. /\ next_trans_id \in Id /\ next_trans_id <= calls
      /\ calls \in 0..MaxCalls /\ starts \in 0..MaxStarts /\ abandoned \subseteq Id
  BY <1>1 DEF Init
<1>7. stop \in BOOLEAN /\ last_exception \in BOOLEAN
  BY DEF Init
<1>8. TypeOK
  BY <1>2, <1>3, <1>4, <1>5, <1>6, <1>7 DEF TypeOK
<1> QED BY <1>1, <1>2, <1>3, <1>4, <1>6, <1>8 DEF TypeInv

(* For any number of hosts, ticking threads and calls the variables keep   *)
(* the types of the fields of DGpuBoard.                                   *)
THEOREM TypeCorrect == Spec => []TypeOK
<1>1. TypeInv => TypeOK
  BY DEF TypeInv
<1> QED BY <1>1, TypeInit, TypeStep, PTL DEF Spec

-----------------------------------------------------------------------------
(* One place for each promise.  A promise is in the hands of the call that *)
(* made it until it is pushed, then in the queue, then in one thread's     *)
(* local queue; wherever it is it has no value yet.                        *)
Names(s) == {s[j].promise : j \in 1..Len(s)} \ {None}
Apart(s) == \A j, k \in 1..Len(s) :
              s[j].promise = s[k].promise /\ s[j].promise # None => j = k
Carried(h) == IF pc[h] \in {"store_id", "push"} THEN {call[h].promise} \ {None}
              ELSE {}

Disjoint ==
  /\ \A t \in Thread : Names(inject_q) \cap Names(drained[t]) = {}
  /\ \A t, u \in Thread : t # u => Names(drained[t]) \cap Names(drained[u]) = {}
  /\ \A h \in Host : Carried(h) \cap Names(inject_q) = {}
  /\ \A h \in Host, t \in Thread : Carried(h) \cap Names(drained[t]) = {}
  /\ \A h, g \in Host : h # g => Carried(h) \cap Carried(g) = {}

Somewhere(p) == \/ p \in Names(inject_q)
                \/ \E t \in Thread : p \in Names(drained[t])
                \/ \E h \in Host : p \in Carried(h)

Unanswered == \A p \in Promise :
                /\ Somewhere(p) => shared[p] = Unset /\ p <= calls
                /\ p > calls => shared[p] = Unset

OnceInv == /\ Apart(inject_q) /\ \A t \in Thread : Apart(drained[t])
           /\ Disjoint /\ Unanswered

LEMMA AppendNames ==
  ASSUME NEW s \in Seq(Wellformed), NEW q \in Wellformed
  PROVE  /\ Names(Append(s, q)) = Names(s) \cup ({q.promise} \ {None})
         /\ Apart(s) /\ q.promise \notin Names(s) => Apart(Append(s, q))
<1>1. /\ Len(Append(s, q)) = Len(s) + 1 /\ Len(s) \in Nat
      /\ \A j \in 1..Len(s) : Append(s, q)[j] = s[j]
      /\ Append(s, q)[Len(s) + 1] = q
  OBVIOUS
<1>2. 1..(Len(s) + 1) = 1..Len(s) \cup {Len(s) + 1}
  BY <1>1
<1>3. Names(Append(s, q)) = Names(s) \cup ({q.promise} \ {None})
  BY <1>1, <1>2 DEF Names
<1>4. ASSUME Apart(s), q.promise \notin Names(s) PROVE Apart(Append(s, q))
  BY <1>1, <1>2, <1>4 DEF Names, Apart
<1> QED BY <1>3, <1>4

LEMMA TailNames ==
  ASSUME NEW s \in Seq(Wellformed), s # <<>>, Apart(s)
  PROVE  /\ Names(Tail(s)) \subseteq Names(s) /\ Apart(Tail(s))
         /\ Head(s).promise # None =>
              Head(s).promise \in Names(s) \ Names(Tail(s))
<1>1. /\ Len(s) \in Nat /\ Len(s) >= 1 /\ Len(Tail(s)) = Len(s) - 1
      /\ \A j \in 1..(Len(s) - 1) : Tail(s)[j] = s[j + 1]
      /\ Head(s) = s[1]
  OBVIOUS
<1>2. \A j \in 1..(Len(s) - 1) : j + 1 \in 1..Len(s) /\ j + 1 # 1
  BY <1>1
<1>3. 1 \in 1..Len(s)
  BY <1>1
<1>4. Names(Tail(s)) \subseteq Names(s)
  BY <1>1, <1>2 DEF Names
<1>5. Apart(Tail(s))
  BY <1>1, <1>2 DEF Apart
<1>6. ASSUME Head(s).promise # None
      PROVE  Head(s).promise \in Names(s) \ Names(Tail(s))
  BY <1>1, <1>2, <1>3, <1>6 DEF Names, Apart
<1> QED BY <1>4, <1>5, <1>6

(* Steps that move no promise, and let a call go of its own at most.       *)
LEMMA OnceFrame ==
  ASSUME OnceInv, UNCHANGED <<inject_q, drained, shared, calls>>,
         \A h \in Host : Carried(h)' \subseteq Carried(h)
  PROVE  OnceInv'
<1>1. Names(inject_q)' = Names(inject_q) /\ Apart(inject_q)'
      /\ \A t \in Thread : /\ Names(drained[t])' = Names(drained[t])
                           /\ Apart(drained[t])'
  BY DEF OnceInv, Names, Apart
<1>2. Disjoint'
  BY <1>1 DEF OnceInv, Disjoint
<1>3. \A p \in Promise : Somewhere(p)' => Somewhere(p)
  BY <1>1 DEF Somewhere
<1> QED BY <1>1, <1>2, <1>3 DEF OnceInv, Unanswered

(* A call makes a promise nobody has.                                      *)
LEMMA OnceEnter ==
  ASSUME TypeInv, OnceInv, NEW h \in Host,
         NEW what \in {"read", "write", "backdoor"},
         NEW r, NEW n, Enter(h, what, r, n)
  PROVE  OnceInv'
<1>1. /\ UNCHANGED <<inject_q, drained, shared>> /\ calls' = calls + 1
      /\ calls \in Nat /\ calls < MaxCalls
  <2>1. inject_q' = inject_q /\ drained' = drained /\ shared' = shared
    BY DEF Enter
  <2> QED BY <2>1, BoundAssumption DEF Enter, TypeInv, TypeOK
<1>2. Carried(h)' \subseteq {calls + 1}
  BY DEF Enter, Carried, TypeInv, TypeOK
<1>3. \A g \in Host : g # h => Carried(g)' = Carried(g)
  BY DEF Enter, Goto, Carried, TypeInv, TypeOK, Thread
<1>4. Names(inject_q)' = Names(inject_q) /\ Apart(inject_q)'
      /\ \A t \in Thread : /\ Names(drained[t])' = Names(drained[t])
                           /\ Apart(drained[t])'
  BY <1>1 DEF OnceInv, Names, Apart
<1>5. calls + 1 \in Promise /\ ~Somewhere(calls + 1) /\ shared[calls + 1] = Unset
  <2>1. calls + 1 \in Promise /\ calls + 1 > calls /\ ~(calls + 1 <= calls)
    BY <1>1, BoundAssumption DEF Promise
  <2> QED BY <2>1 DEF OnceInv, Unanswered
<1>6. Disjoint'
  <2>1. \A t \in Thread : Carried(h)' \cap Names(drained[t])' = {}
    BY <1>2, <1>4, <1>5 DEF Somewhere
  <2>2. Carried(h)' \cap Names(inject_q)' = {}
    BY <1>2, <1>4, <1>5 DEF Somewhere
  <2>3. \A g \in Host : g # h => Carried(h)' \cap Carried(g)' = {}
    BY <1>2, <1>3, <1>5 DEF Somewhere
  <2> QED BY <1>3, <1>4, <2>1, <2>2, <2>3 DEF OnceInv, Disjoint
<1>7. \A p \in Promise : Somewhere(p)' => Somewhere(p) \/ p = calls + 1
  BY <1>2, <1>3, <1>4 DEF Somewhere
<1>8. Unanswered'
  BY <1>1, <1>5, <1>7 DEF OnceInv, Unanswered, Promise
<1> QED BY <1>4, <1>6, <1>8 DEF OnceInv

(* Pushing hands the promise from the call to the queue.                   *)
LEMMA OncePush ==
  ASSUME TypeInv, OnceInv, NEW h \in Host, Push(h)
  PROVE  OnceInv'
<1>1. /\ inject_q' = Append(inject_q, call[h]) /\ inject_q \in Seq(Wellformed)
      /\ call[h] \in Wellformed
      /\ UNCHANGED <<drained, shared, calls>>
  BY DEF Push, TypeInv
<1>2. Carried(h) = {call[h].promise} \ {None} /\ Carried(h)' = {}
  BY DEF Push, Goto, Carried, TypeInv, TypeOK, Thread
<1>3. \A g \in Host : g # h => Carried(g)' = Carried(g)
  BY DEF Push, Goto, Carried, TypeInv, TypeOK, Thread
<1>4. Names(inject_q)' = Names(inject_q) \cup Carried(h)
  BY <1>1, <1>2, AppendNames
<1>5. Apart(inject_q)'
  <2>1. call[h].promise \notin Names(inject_q)
    <3>1. Carried(h) \cap Names(inject_q) = {} /\ None \notin Names(inject_q)
      BY DEF OnceInv, Disjoint, Names
    <3> QED BY <1>2, <3>1
  <2> QED BY <1>1, <2>1, AppendNames DEF OnceInv
<1>6. \A t \in Thread : Names(drained[t])' = Names(drained[t]) /\ Apart(drained[t])'
  BY <1>1 DEF OnceInv, Names, Apart
<1>7. Disjoint'
  BY <1>2, <1>3, <1>4, <1>6 DEF OnceInv, Disjoint
<1>8. \A p \in Promise : Somewhere(p)' => Somewhere(p)
  BY <1>2, <1>3, <1>4, <1>6 DEF Somewhere
<1> QED BY <1>1, <1>5, <1>6, <1>7, <1>8 DEF OnceInv, Unanswered

(* A drain takes the whole queue; what a thread of its own had is done.    *)
LEMMA OnceSwap ==
  ASSUME TypeInv, OnceInv, NEW t \in Thread, Swap(t)
  PROVE  OnceInv'
<1>1. /\ inject_q' = <<>> /\ drained' = [drained EXCEPT ![t] = inject_q]
      /\ UNCHANGED <<shared, calls, call>>
  BY DEF Swap
<1>2. \A h \in Host : Carried(h)' = Carried(h)
  <2>1. pc' = [pc EXCEPT ![t] = pc'[t]] /\ pc[t] = "swap"
        /\ pc'[t] \in {"wait", "loop", "idle", "serve"}
    BY DEF Swap, Goto, AfterDrain, TypeInv, TypeOK
  <2> QED BY <1>1, <2>1 DEF Carried, TypeInv, TypeOK, Thread
<1>3. Names(inject_q') = {} /\ Apart(inject_q')
  BY <1>1 DEF Names, Apart
<1>4. drained'[t] = inject_q /\ \A u \in Thread : u # t => drained'[u] = drained[u]
  BY <1>1 DEF TypeInv
<1>5. Disjoint'
  BY <1>2, <1>3, <1>4 DEF OnceInv, Disjoint
<1>6. \A p \in Promise : Somewhere(p)' => Somewhere(p)
  BY <1>2, <1>3, <1>4 DEF Somewhere
<1>7. \A u \in Thread : Apart(drained'[u])
  BY <1>4 DEF OnceInv
<1> QED BY <1>1, <1>3, <1>5, <1>6, <1>7 DEF OnceInv, Unanswered

(* A request served leaves the local queue, a read with its promise set.   *)
LEMMA OnceAdvance ==
  ASSUME TypeInv, OnceInv, NEW t \in Thread, pc[t] \in {"serve", "answer"},
         Advance(t), UNCHANGED <<inject_q, call, calls>>,
         \/ shared' = shared
         \/ /\ Head(drained[t]).promise \in Promise
            /\ \A p \in Promise \ {Head(drained[t]).promise} :
                 shared'[p] = shared[p]
  PROVE  OnceInv'
<1>0. PICK q : q = Head(drained[t]).promise
  OBVIOUS
<1>1. /\ drained[t] \in Seq(Wellformed) /\ drained[t] # <<>> /\ Apart(drained[t])
      /\ drained'[t] = Tail(drained[t])
      /\ \A u \in Thread : u # t => drained'[u] = drained[u]
  BY DEF TypeInv, OnceInv, Advance
<1>2. /\ Names(drained'[t]) \subseteq Names(drained[t]) /\ Apart(drained'[t])
      /\ q # None => q \in Names(drained[t]) \ Names(drained'[t])
  BY <1>0, <1>1, TailNames
<1>3. \A h \in Host : Carried(h)' = Carried(h)
  <2>1. pc' = [pc EXCEPT ![t] = pc'[t]]
        /\ pc'[t] \in {"wait", "loop", "idle", "serve"}
    BY DEF Advance, Goto, AfterDrain, TypeInv, TypeOK
  <2> QED BY <2>1 DEF Carried, TypeInv, TypeOK, Thread
<1>4. inject_q' = inject_q /\ calls' = calls
  OBVIOUS
<1>5. Disjoint'
  BY <1>1, <1>2, <1>3, <1>4 DEF OnceInv, Disjoint
<1>6. \A p \in Promise : Somewhere(p)' => Somewhere(p)
  BY <1>1, <1>2, <1>3, <1>4 DEF Somewhere
<1>7. Unanswered'
  <2>1. CASE shared' = shared
    BY <1>4, <1>6, <2>1 DEF OnceInv, Unanswered
  <2>2. CASE /\ q \in Promise
             /\ \A p \in Promise \ {q} : shared'[p] = shared[p]
    <3>1. q # None
      BY <2>2, DataAssumption DEF Promise
    <3>2. q \in Names(drained[t]) /\ q \notin Names(drained'[t])
      BY <1>2, <3>1
    <3>3. q <= calls
      BY <2>2, <3>2 DEF OnceInv, Unanswered, Somewhere
    <3>4. ~Somewhere(q)'
      BY <1>1, <1>3, <1>4, <3>2 DEF OnceInv, Disjoint, Somewhere
    <3>5. ASSUME NEW p \in Promise
          PROVE  /\ Somewhere(p)' => shared'[p] = Unset /\ p <= calls'
                 /\ p > calls' => shared'[p] = Unset
      <4>1. CASE p = q
        <5>1. calls \in Nat /\ q \in Nat /\ ~(q > calls)
          BY <2>2, <3>3 DEF TypeInv, TypeOK, Promise
        <5> QED BY <1>4, <3>4, <4>1, <5>1
      <4>2. CASE p # q
        BY <1>4, <1>6, <2>2, <4>2 DEF OnceInv, Unanswered
      <4> QED BY <4>1, <4>2
    <3> QED BY <3>5 DEF Unanswered
  <2> QED BY <1>0, <2>1, <2>2
<1>8. Apart(inject_q') /\ \A u \in Thread : Apart(drained'[u])
  BY <1>1, <1>2, <1>4 DEF OnceInv
<1> QED BY <1>5, <1>7, <1>8 DEF OnceInv

LEMMA OnceStep == TypeInv /\ OnceInv /\ [Next]_vars => OnceInv'
<1> SUFFICES ASSUME TypeInv, OnceInv, [Next]_vars PROVE OnceInv'
  OBVIOUS
<1>1. ASSUME NEW h \in Host, NEW r \in Reg,
             \/ \E v \in Val : MmioWrite(h, r, v)
             \/ \E n \in Length : MmioRead(h, r, n)
      PROVE  OnceInv'
  BY <1>1, OnceEnter DEF MmioWrite, MmioRead
<1>2. ASSUME NEW h \in Host, BackdoorWrite(h) PROVE OnceInv'
  BY <1>2, OnceEnter DEF BackdoorWrite
<1>3. ASSUME NEW h \in Host, Push(h) PROVE OnceInv'
  BY <1>3, OncePush
<1>4. ASSUME NEW h \in Host, PushPoison(h) PROVE OnceInv'
  <2>1. /\ inject_q' = Append(inject_q, Poison) /\ inject_q \in Seq(Wellformed)
        /\ UNCHANGED <<drained, shared, calls, call>>
        /\ pc' = [pc EXCEPT ![h] = "join"]
    BY <1>4 DEF PushPoison, Goto, TypeInv
  <2>2. Names(inject_q') = Names(inject_q)
    <3>1. {Poison.promise} \ {None} = {}
      BY DEF Poison
    <3>2. Names(Append(inject_q, Poison))
            = Names(inject_q) \cup ({Poison.promise} \ {None})
      BY <2>1, PoisonIsRequest, AppendNames
    <3> QED BY <2>1, <3>1, <3>2
  <2>3. Apart(inject_q')
    <3>1. Poison.promise \notin Names(inject_q)
      BY DEF Poison, Names
    <3> QED BY <2>1, <3>1, PoisonIsRequest, AppendNames DEF OnceInv
  <2>4. \A g \in Host : Carried(g)' \subseteq Carried(g)
    BY <2>1 DEF Carried, TypeInv, TypeOK, Thread
  <2>5. Disjoint'
    BY <2>1, <2>2, <2>4 DEF OnceInv, Disjoint
  <2>6. \A p \in Promise : Somewhere(p)' => Somewhere(p)
    BY <2>1, <2>2, <2>4 DEF Somewhere
  <2> QED BY <2>1, <2>3, <2>5, <2>6 DEF OnceInv, Unanswered
<1>5. ASSUME NEW h \in Host,
             StoreId(h) \/ WaitReady(h) \/ WaitTimeout(h) \/ Get(h)
      PROVE  OnceInv'
  <2>1. /\ UNCHANGED <<inject_q, drained, shared, calls, call>>
        /\ \/ /\ pc[h] = "store_id" /\ pc' = [pc EXCEPT ![h] = "push"]
           \/ \E label \in {"get", "abandon", "collect"} :
                pc' = [pc EXCEPT ![h] = label]
    BY <1>5 DEF StoreId, WaitReady, WaitTimeout, Get, Goto, locked
  <2>2. \A g \in Host : Carried(g)' \subseteq Carried(g)
    BY <2>1 DEF Carried, TypeInv, TypeOK, Thread
  <2> QED BY <2>1, <2>2, OnceFrame
<1>6. ASSUME NEW h \in Host, NoState(h) \/ Abandon(h) \/ Collect(h)
      PROVE  OnceInv'
  <2>1. /\ UNCHANGED <<inject_q, drained, shared, calls>>
        /\ pc' = [pc EXCEPT ![h] = "idle"]
        /\ call' = [call EXCEPT ![h] = NoCall]
    BY <1>6 DEF NoState, Abandon, Collect, Return, Goto, locked
  <2>2. \A g \in Host : Carried(g)' \subseteq Carried(g)
    BY <2>1 DEF Carried, TypeInv, TypeOK, Thread
  <2> QED BY <2>1, <2>2, OnceFrame
<1>7. ASSUME NEW h \in Host, InitBoard(h) \/ Shutdown(h) \/ Join(h)
      PROVE  OnceInv'
  <2>1. /\ UNCHANGED <<inject_q, drained, shared, calls, call>>
        /\ \/ pc' = [pc EXCEPT ![Sim] = "loop"]
           \/ pc' = [pc EXCEPT ![h] = "poison"]
           \/ pc' = [pc EXCEPT ![h] = "idle", ![Sim] = "none"]
    BY <1>7 DEF InitBoard, Shutdown, Join, Goto, locked
  <2>2. \A g \in Host : Carried(g)' \subseteq Carried(g)
    BY <2>1 DEF Carried, TypeInv, TypeOK, Thread
  <2> QED BY <2>1, <2>2, OnceFrame
<1>8. ASSUME NEW t \in Thread, Swap(t) PROVE OnceInv'
  BY <1>8, OnceSwap
<1>9. ASSUME NEW t \in Thread, ServeOther(t) PROVE OnceInv'
  BY <1>9, OnceAdvance DEF ServeOther, locked
<1>10. ASSUME NEW t \in Thread, SetValue(t) PROVE OnceInv'
  <2> DEFINE q == Head(drained[t]).promise
  <2>1. q \in Promise
    <3>1. /\ drained[t] \in Seq(Wellformed) /\ drained[t] # <<>>
          /\ Head(drained[t]).kind = "read"
      BY <1>10 DEF SetValue, TypeInv
    <3> QED BY <3>1 DEF Wellformed
  <2>2. \A p \in Promise \ {q} : shared'[p] = shared[p]
    BY <1>10 DEF SetValue, TypeInv, TypeOK
  <2> QED BY <1>10, <2>1, <2>2, OnceAdvance DEF SetValue, locked
<1>11. ASSUME NEW t \in Thread, ServeRead(t) PROVE OnceInv'
  <2>1. /\ UNCHANGED <<inject_q, drained, shared, calls, call>>
        /\ pc' = [pc EXCEPT ![t] = "answer"]
    BY <1>11 DEF ServeRead, Goto
  <2>2. \A g \in Host : Carried(g)' \subseteq Carried(g)
    BY <2>1 DEF Carried, TypeInv, TypeOK, Thread
  <2> QED BY <2>1, <2>2, OnceFrame
<1>12. ASSUME NEW t \in Thread,
              \/ pc' = [pc EXCEPT ![t] = "swap"]
              \/ pc' = [pc EXCEPT ![t] = "exited"],
              UNCHANGED <<inject_q, drained, shared, calls, call>>
       PROVE  OnceInv'
  <2>1. \A g \in Host : Carried(g)' \subseteq Carried(g)
    BY <1>12 DEF Carried, TypeInv, TypeOK, Thread
  <2> QED BY <1>12, <2>1, OnceFrame
<1>13. ASSUME NEW t \in Pump, Tick(t) PROVE OnceInv'
  BY <1>12, <1>13 DEF Tick, Goto, locked, Thread
<1>14. CASE SimStep
  BY <1>12, <1>14 DEF SimStep, SimRun, SimThrow, SimStop, Goto, locked, Thread
<1>15. CASE UNCHANGED vars
  <2>1. \A g \in Host : Carried(g)' \subseteq Carried(g)
    BY <1>15 DEF vars, Carried
  <2> QED BY <1>15, <2>1, OnceFrame DEF vars
<1> QED BY <1>1, <1>2, <1>3, <1>4, <1>5, <1>6, <1>7, <1>8, <1>9, <1>10, <1>11,
           <1>13, <1>14, <1>15 DEF Next, HostStep, Drain

LEMMA OnceInit == Init => OnceInv
<1> SUFFICES ASSUME Init PROVE OnceInv
  OBVIOUS
<1>1. /\ Names(inject_q) = {} /\ Apart(inject_q)
      /\ \A t \in Thread : Names(drained[t]) = {} /\ Apart(drained[t])
  BY DEF Init, Names, Apart
<1>2. \A h \in Host : Carried(h) = {}
  BY ThreadsDiffer DEF Init, Carried, Thread
<1>3. \A p \in Promise : shared[p] = Unset
  BY DEF Init
<1> QED BY <1>1, <1>2, <1>3 DEF OnceInv, Disjoint, Unanswered, Somewhere

LEMMA OnceImplies == TypeInv /\ OnceInv => ServedOnce
<1> SUFFICES ASSUME TypeInv, OnceInv, NEW p \in Promise,
                    NEW x \in Holders(p), NEW y \in Holders(p)
             PROVE  x = y /\ shared[p] = Unset
  BY DEF ServedOnce
<1> DEFINE Q == {k \in 1..Len(inject_q) : inject_q[k].promise = p}
           L(t) == {k \in 1..Len(drained[t]) : drained[t][k].promise = p}
<1>1. p # None
  BY DataAssumption DEF Promise
<1>2. \A z \in Holders(p) : \/ \E k \in Q : z = <<"q", k>>
                            \/ \E t \in Thread : \E k \in L(t) : z = <<t, k>>
  BY DEF Holders
<1>3. \A k \in Q : p \in Names(inject_q)
  BY <1>1 DEF Names
<1>4. \A t \in Thread : \A k \in L(t) : p \in Names(drained[t])
  BY <1>1 DEF Names
<1>5. \A j, k \in Q : j = k
  BY <1>1 DEF OnceInv, Apart
<1>6. \A t \in Thread : \A j, k \in L(t) : j = k
  BY <1>1 DEF OnceInv, Apart
<1> HIDE DEF Q, L
<1>7. Somewhere(p)
  BY <1>2, <1>3, <1>4 DEF Somewhere
<1>8. x = y
  BY <1>2, <1>3, <1>4, <1>5, <1>6 DEF OnceInv, Disjoint
<1> QED BY <1>7, <1>8 DEF OnceInv, Unanswered

(* Whoever drains, and however many threads do: a read's promise is in one *)
(* place and without a value until it is set, so it is set once            *)
(* (dgpu_board_shell.cc:1144).                                             *)
THEOREM PromisesSetOnce == Spec => []ServedOnce
<1> QED BY TypeInit, TypeStep, OnceInit, OnceStep, OnceImplies, PTL DEF Spec
-----------------------------------------------------------------------------
(* One host.  A request that is queued or drained is that of the read      *)
(* under way, or of one that gave up; numbers of reads that gave up are    *)
(* never drawn again.  So a late answer goes to a number nobody reads, and *)
(* the payload under the reader's number is the register's content.        *)
Queued(s) == {s[j] : j \in 1..Len(s)}
InFlight(q) == q \in Queued(inject_q) \/ \E t \in Thread : q \in Queued(drained[t])

Awaiting == {"swap", "serve", "answer", "wait", "abandon"}

NumberDrawn(h) ==
  /\ pc[h] = "store_id" => call[h].id = next_trans_id
  /\ pc[h] \in Awaiting \cup {"push", "get", "collect"} =>
       call[h].id < next_trans_id
  /\ \A i \in abandoned : i < next_trans_id
  /\ Reading(h) => call[h].id \notin abandoned

ReadStage(h) ==
  /\ pc[h] \in Awaiting \cup {"get"} =>
       call[h].kind = "read" /\ pending_resp[call[h].id] = call[h].promise
  /\ pc[h] = "get" => shared[call[h].promise] # Unset
  /\ pc[h] = "collect" => /\ call[h].kind = "read"
                          /\ rc[h] = shared[call[h].promise] /\ rc[h] # Unset
  /\ \A t \in Thread : pc[t] = "answer" => rc[t] \in Rc
  /\ pc[h] \in {"idle", "poison", "join"} => call[h].kind # "read"

FlightOf(h) ==
  \A q \in Wellformed : InFlight(q) /\ q.kind = "read" =>
    /\ q.id \in abandoned \/ (q = call[h] /\ pc[h] \in Awaiting)
    /\ Reading(h) /\ q.promise = call[h].promise => q = call[h]

LeftOf(h) ==
  \A i \in Id :
    /\ pending_data[i] # None => i \in abandoned \/ (Reading(h) /\ call[h].id = i)
    /\ pending_resp[i] # None => Reading(h) /\ call[h].id = i

Shown(h) == [reg |-> call[h].reg, val |-> Content(call[h].reg)]
AnswerOf(h) ==
  Reading(h) =>
    /\ shared[call[h].promise] = "ok" => pending_data[call[h].id] = Shown(h)
    /\ \A t \in Thread :
         pc[t] = "answer" /\ Head(drained[t]) = call[h] /\ rc[t] = "ok" =>
           pending_data[call[h].id] = Shown(h)

ReadInv(h) == NumberDrawn(h) /\ ReadStage(h) /\ FlightOf(h) /\ LeftOf(h) /\ AnswerOf(h)

LEMMA QueuedLemma ==
  ASSUME NEW s \in Seq(Wellformed)
  PROVE  /\ \A q \in Queued(s) : q \in Wellformed /\
              (q.promise # None => q.promise \in Names(s))
         /\ \A q \in Wellformed : Queued(Append(s, q)) = Queued(s) \cup {q}
         /\ s # <<>> => Head(s) \in Queued(s) /\ Queued(Tail(s)) \subseteq Queued(s)
<1>1. \A q \in Queued(s) : q \in Wellformed /\ (q.promise # None => q.promise \in Names(s))
  BY DEF Queued, Names
<1>2. ASSUME NEW q \in Wellformed PROVE Queued(Append(s, q)) = Queued(s) \cup {q}
  <2>1. /\ Len(Append(s, q)) = Len(s) + 1 /\ Len(s) \in Nat
        /\ \A j \in 1..Len(s) : Append(s, q)[j] = s[j]
        /\ Append(s, q)[Len(s) + 1] = q
    OBVIOUS
  <2>2. 1..(Len(s) + 1) = 1..Len(s) \cup {Len(s) + 1}
    BY <2>1
  <2> QED BY <2>1, <2>2 DEF Queued
<1>3. ASSUME s # <<>>
      PROVE  Head(s) \in Queued(s) /\ Queued(Tail(s)) \subseteq Queued(s)
  <2>1. /\ Len(s) \in Nat /\ Len(s) >= 1 /\ Len(Tail(s)) = Len(s) - 1
        /\ \A j \in 1..(Len(s) - 1) : Tail(s)[j] = s[j + 1]
        /\ Head(s) = s[1]
    BY <1>3
  <2>2. \A j \in 1..(Len(s) - 1) : j + 1 \in 1..Len(s)
    BY <2>1
  <2> QED BY <2>1, <2>2 DEF Queued
<1> QED BY <1>1, <1>2, <1>3

(* What the other two invariants say of a read in flight.                  *)
LEMMA FlightFacts ==
  ASSUME TypeInv, OnceInv
  PROVE  /\ \A q : InFlight(q) => q \in Wellformed
         /\ \A q : InFlight(q) /\ q.kind = "read" =>
              /\ q.promise \in Promise /\ q.promise # None
              /\ shared[q.promise] = Unset /\ q.promise <= calls
         /\ \A q, t, u : t \in Thread /\ u \in Thread /\ q.kind = "read"
              /\ q \in Queued(drained[t]) /\ q \in Queued(drained[u]) => t = u
         /\ \A t \in Thread : drained[t] # <<>> => Head(drained[t]) \in Queued(drained[t])
<1>1. inject_q \in Seq(Wellformed) /\ \A t \in Thread : drained[t] \in Seq(Wellformed)
  BY DEF TypeInv
<1>2. \A q : InFlight(q) => q \in Wellformed
  BY <1>1, QueuedLemma DEF InFlight
<1>3. \A q \in Wellformed : q.kind = "read" => q.promise \in Promise /\ q.promise # None
  BY DataAssumption DEF Wellformed, Promise
<1>4. ASSUME NEW q, InFlight(q), q.kind = "read" PROVE Somewhere(q.promise)
  BY <1>1, <1>2, <1>3, <1>4, QueuedLemma DEF InFlight, Somewhere
<1>5. ASSUME NEW q, NEW t \in Thread, NEW u \in Thread, q.kind = "read",
             q \in Queued(drained[t]), q \in Queued(drained[u])
      PROVE  t = u
  <2>1. q.promise \in Names(drained[t]) /\ q.promise \in Names(drained[u])
    BY <1>1, <1>3, <1>5, QueuedLemma
  <2> QED BY <2>1 DEF OnceInv, Disjoint
<1>6. \A t \in Thread : drained[t] # <<>> => Head(drained[t]) \in Queued(drained[t])
  BY <1>1, QueuedLemma
<1>7. ASSUME NEW q, InFlight(q), q.kind = "read"
      PROVE  /\ q.promise \in Promise /\ q.promise # None
             /\ shared[q.promise] = Unset /\ q.promise <= calls
  BY <1>2, <1>3, <1>4, <1>7 DEF OnceInv, Unanswered
<1> QED BY <1>2, <1>5, <1>6, <1>7

(* Steps that touch nothing of the read: the other threads' control, and   *)
(* the host's own outside a read.                                          *)
LEMMA ReadFrame ==
  ASSUME NEW h \in Host, ReadInv(h), TypeInv,
         UNCHANGED <<mmio_regs, pending_resp, pending_data, next_trans_id, shared,
                     rc, abandoned, call>>,
         \A q \in Wellformed : q.kind = "read" /\ InFlight(q)' => InFlight(q),
         \A t \in Thread : pc'[t] = "answer" =>
           pc[t] = "answer" /\ drained'[t] = drained[t],
         \/ pc'[h] = pc[h]
         \/ pc[h] \in {"idle", "poison", "join"}
            /\ pc'[h] \in {"idle", "poison", "join"}
         \/ pc[h] = "swap" /\ pc'[h] \in {"serve", "wait"}
         \/ pc[h] = "serve" /\ pc'[h] \in {"serve", "wait"}
         \/ pc[h] = "wait" /\ pc'[h] = "abandon"
  PROVE  ReadInv(h)'
<1>1. Reading(h)' <=> Reading(h)
  BY DEF Reading, ReadInv, ReadStage
<1>2. NumberDrawn(h)'
  BY <1>1 DEF ReadInv, NumberDrawn, Awaiting
<1>3. ReadStage(h)'
  BY DEF ReadInv, ReadStage, Awaiting
<1>4. FlightOf(h)'
  BY <1>1 DEF ReadInv, FlightOf, Awaiting
<1>5. LeftOf(h)'
  BY <1>1 DEF ReadInv, LeftOf
<1>6. Shown(h)' = Shown(h)
  BY DEF Shown, Content
<1>7. AnswerOf(h)'
  BY <1>1, <1>6 DEF ReadInv, AnswerOf
<1> QED BY <1>2, <1>3, <1>4, <1>5, <1>7 DEF ReadInv

LEMMA ReadEnter ==
  ASSUME NEW h \in Host, TypeInv, OnceInv, ReadInv(h),
         NEW what \in {"read", "write", "backdoor"},
         NEW r, NEW n, Enter(h, what, r, n)
  PROVE  ReadInv(h)'
<1>1. /\ pc[h] = "idle" /\ pc' = [pc EXCEPT ![h] = "store_id"]
      /\ call' = [call EXCEPT ![h] = call'[h]]
      /\ call'[h].id = next_trans_id /\ call'[h].kind = what
      /\ call'[h].promise = IF what = "read" THEN calls + 1 ELSE None
      /\ inject_q' = inject_q /\ drained' = drained /\ shared' = shared
      /\ pending_resp' = pending_resp /\ pending_data' = pending_data
      /\ next_trans_id' = next_trans_id /\ rc' = rc /\ abandoned' = abandoned
  BY DEF Enter, Goto, TypeInv, TypeOK
<1>2. h \in Thread /\ pc'[h] = "store_id"
      /\ \A t \in Thread : t # h => pc'[t] = pc[t]
  BY <1>1 DEF Thread, TypeInv, TypeOK
<1>3. \A q : InFlight(q)' <=> InFlight(q)
  BY <1>1 DEF InFlight, Queued
<1>4. ~Reading(h)
  BY <1>1 DEF Reading
<1>5. NumberDrawn(h)'
  <2>1. next_trans_id \in Nat /\ \A i \in abandoned : i \in Nat /\ i < next_trans_id
    BY DEF TypeInv, TypeOK, Id, ReadInv, NumberDrawn
  <2>2. next_trans_id \notin abandoned
    BY <2>1
  <2> QED BY <1>1, <1>2, <2>2 DEF ReadInv, NumberDrawn, Awaiting
<1>6. ReadStage(h)'
  BY <1>1, <1>2 DEF ReadInv, ReadStage, Awaiting
<1>7. FlightOf(h)'
  <2> SUFFICES ASSUME NEW q \in Wellformed, InFlight(q), q.kind = "read"
               PROVE  /\ q.id \in abandoned
                      /\ Reading(h)' => q.promise # call'[h].promise
    BY <1>1, <1>3 DEF FlightOf
  <2>1. q.id \in abandoned
    BY <1>1 DEF ReadInv, FlightOf, Awaiting
  <2>2. q.promise \in Promise /\ q.promise <= calls
    BY FlightFacts
  <2>3. ASSUME Reading(h)' PROVE q.promise # call'[h].promise
    <3>1. call'[h].promise = calls + 1
      BY <1>1, <2>3 DEF Reading
    <3>2. calls \in Nat
      BY DEF TypeInv, TypeOK
    <3> QED BY <2>2, <3>1, <3>2 DEF Promise
  <2> QED BY <2>1, <2>3
<1>8. LeftOf(h)'
  BY <1>1, <1>4 DEF ReadInv, LeftOf
<1>9. AnswerOf(h)'
  <2> SUFFICES ASSUME Reading(h)'
               PROVE  /\ shared[call'[h].promise] # "ok"
                      /\ \A t \in Thread : pc'[t] = "answer" =>
                           Head(drained[t]) # call'[h]
    BY <1>1, Zenon DEF AnswerOf
  <2>1. call'[h].promise = calls + 1 /\ call'[h].kind = "read" /\ calls \in Nat
    <3>1. call'[h].kind = "read"
      BY DEF Reading
    <3>2. calls \in Nat
      BY DEF TypeInv, TypeOK
    <3> QED BY <1>1, <3>1, <3>2
  <2>2. shared[calls + 1] = Unset
    <3>1. calls + 1 \in Promise
      BY <2>1, BoundAssumption DEF Enter, Promise
    <3>2. calls + 1 > calls
      BY <2>1
    <3> QED BY <3>1, <3>2 DEF OnceInv, Unanswered
  <2>3. ASSUME NEW t \in Thread, pc'[t] = "answer", Head(drained[t]) = call'[h]
        PROVE  FALSE
    <3>1. pc[t] = "answer" /\ drained[t] # <<>>
      BY <1>1, <1>2, <2>3 DEF TypeInv
    <3>2. InFlight(call'[h])
      BY <2>3, <3>1, FlightFacts DEF InFlight
    <3>3. call'[h].promise <= calls
      BY <2>1, <3>2, FlightFacts
    <3> QED BY <2>1, <3>3
  <2> QED BY <2>1, <2>2, <2>3 DEF Unset
<1> QED BY <1>5, <1>6, <1>7, <1>8, <1>9 DEF ReadInv

LEMMA ReadStoreId ==
  ASSUME NEW h \in Host, TypeInv, OnceInv, ReadInv(h), StoreId(h)
  PROVE  ReadInv(h)'
<1>1. /\ pc[h] = "store_id" /\ pc' = [pc EXCEPT ![h] = "push"]
      /\ next_trans_id' = next_trans_id + 1 /\ call[h].id = next_trans_id
      /\ next_trans_id \in Nat
      /\ inject_q' = inject_q /\ drained' = drained /\ shared' = shared
      /\ pending_resp' = pending_resp /\ pending_data' = pending_data
      /\ mmio_regs' = mmio_regs /\ call' = call
      /\ rc' = rc /\ abandoned' = abandoned
  BY DEF StoreId, Goto, locked, ReadInv, NumberDrawn, TypeInv, TypeOK, Id
<1>2. h \in Thread /\ pc'[h] = "push" /\ \A t \in Thread : t # h => pc'[t] = pc[t]
  BY <1>1 DEF Thread, TypeInv, TypeOK
<1>3. (\A q : InFlight(q)' <=> InFlight(q)) /\ (Reading(h)' <=> Reading(h))
      /\ Shown(h)' = Shown(h)
  BY <1>1, <1>2 DEF InFlight, Queued, Reading, Shown, Content
<1>4. NumberDrawn(h)'
  <2>1. \A i \in abandoned : i \in Nat /\ i < next_trans_id
    BY DEF TypeInv, TypeOK, Id, ReadInv, NumberDrawn
  <2>2. \A i \in abandoned : i < next_trans_id + 1
    BY <1>1, <2>1
  <2>3. Reading(h) => call[h].id \notin abandoned
    BY DEF ReadInv, NumberDrawn
  <2> QED BY <1>1, <1>2, <1>3, <2>2, <2>3 DEF NumberDrawn, Awaiting
<1>5. ReadStage(h)'
  BY <1>1, <1>2 DEF ReadInv, ReadStage, Awaiting
<1>6. FlightOf(h)'
  BY <1>1, <1>2, <1>3 DEF ReadInv, FlightOf, Awaiting
<1>7. LeftOf(h)'
  BY <1>1, <1>3 DEF ReadInv, LeftOf
<1>8. AnswerOf(h)'
  BY <1>1, <1>2, <1>3 DEF ReadInv, AnswerOf
<1> QED BY <1>4, <1>5, <1>6, <1>7, <1>8 DEF ReadInv

LEMMA ReadPush ==
  ASSUME NEW h \in Host, TypeInv, OnceInv, ReadInv(h), Push(h)
  PROVE  ReadInv(h)'
<1>1. /\ pc[h] = "push" /\ inject_q' = Append(inject_q, call[h])
      /\ drained' = drained /\ shared' = shared /\ pending_data' = pending_data
      /\ next_trans_id' = next_trans_id
      /\ mmio_regs' = mmio_regs /\ call' = call
      /\ rc' = rc /\ abandoned' = abandoned
      /\ call[h] \in Wellformed /\ inject_q \in Seq(Wellformed)
  BY DEF Push, TypeInv
<1>2. \/ /\ call[h].kind = "read" /\ pc'[h] \in {"swap", "wait"}
         /\ pending_resp' = [pending_resp EXCEPT ![call[h].id] = call[h].promise]
      \/ call[h].kind # "read" /\ pc'[h] = "idle" /\ pending_resp' = pending_resp
  BY DEF Push, Goto, TypeInv, TypeOK, Thread
<1>3. h \in Thread /\ \A t \in Thread : t # h => pc'[t] = pc[t]
  BY DEF Push, Goto, Thread, TypeInv, TypeOK
<1>4. \A q \in Wellformed : InFlight(q)' <=> InFlight(q) \/ q = call[h]
  <2>1. Queued(inject_q') = Queued(inject_q) \cup {call[h]}
    BY <1>1, QueuedLemma
  <2> QED BY <1>1, <2>1 DEF InFlight
<1>5. (Reading(h)' <=> Reading(h)) /\ Shown(h)' = Shown(h)
  BY <1>1, <1>2 DEF Reading, Shown, Content
<1>6. call[h].id \in Id
  BY DEF TypeInv, TypeOK, Request
<1>7. NumberDrawn(h)'
  BY <1>1, <1>2, <1>5 DEF ReadInv, NumberDrawn, Awaiting
<1>8. ReadStage(h)'
  <2>1. pending_resp \in [Id -> Promise \cup {None}]
    BY DEF TypeInv, TypeOK
  <2> QED BY <1>1, <1>2, <1>3, <1>6, <2>1 DEF ReadInv, ReadStage, Awaiting
<1>9. FlightOf(h)'
  BY <1>1, <1>2, <1>4, <1>5 DEF ReadInv, FlightOf, Awaiting
<1>10. LeftOf(h)'
  <2>1. pending_resp \in [Id -> Promise \cup {None}]
    BY DEF TypeInv, TypeOK
  <2>2. call[h].kind = "read" => Reading(h)
    BY <1>1 DEF Reading
  <2> QED BY <1>1, <1>2, <1>5, <1>6, <2>1, <2>2 DEF ReadInv, LeftOf
<1>11. AnswerOf(h)'
  BY <1>1, <1>2, <1>3, <1>5 DEF ReadInv, AnswerOf
<1> QED BY <1>7, <1>8, <1>9, <1>10, <1>11 DEF ReadInv

(* A drain looks up a read's register.  The number it stores the payload   *)
(* under is the reader's own, or one that nobody reads.                    *)
LEMMA ReadServe ==
  ASSUME NEW h \in Host, TypeInv, OnceInv, ReadInv(h),
         NEW t \in Thread, ServeRead(t)
  PROVE  ReadInv(h)'
<1> DEFINE req == Head(drained[t])
<1>1. /\ pc[t] = "serve" /\ req.kind = "read" /\ drained[t] # <<>>
      /\ pc' = [pc EXCEPT ![t] = "answer"]
      /\ rc' = [rc EXCEPT ![t] = Answer(req.reg, req.len)]
      /\ inject_q' = inject_q /\ drained' = drained /\ shared' = shared
      /\ pending_resp' = pending_resp /\ next_trans_id' = next_trans_id
      /\ mmio_regs' = mmio_regs /\ call' = call /\ abandoned' = abandoned
  BY DEF ServeRead, Goto, TypeInv
<1>2. /\ Answer(req.reg, req.len) = "ok" => pending_data' =
           [pending_data EXCEPT ![req.id] = [reg |-> req.reg, val |-> Content(req.reg)]]
      /\ Answer(req.reg, req.len) # "ok" => pending_data' = pending_data
  BY DEF ServeRead
<1>3. Answer(req.reg, req.len) \in Rc
  BY DEF Answer, Rc
<1>4. /\ pc'[t] = "answer" /\ rc'[t] = Answer(req.reg, req.len)
      /\ \A u \in Thread : u # t => pc'[u] = pc[u] /\ rc'[u] = rc[u]
      /\ h \in Thread /\ (pc'[h] = pc[h] \/ (pc[h] = "serve" /\ pc'[h] = "answer"))
  BY <1>1 DEF TypeInv, TypeOK, Thread
<1>5. /\ req \in Queued(drained[t]) /\ InFlight(req) /\ req \in Wellformed
      /\ req.promise # None /\ shared[req.promise] = Unset
  BY <1>1, FlightFacts DEF InFlight
<1>6. /\ req.id \in abandoned \/ (req = call[h] /\ pc[h] \in Awaiting)
      /\ Reading(h) /\ req.promise = call[h].promise => req = call[h]
      /\ req.id \in Id
  BY <1>1, <1>5 DEF ReadInv, FlightOf, Wellformed, Request
<1>7. (\A q : InFlight(q)' <=> InFlight(q)) /\ (Reading(h)' <=> Reading(h))
      /\ Shown(h)' = Shown(h)
  BY <1>1, <1>4 DEF InFlight, Queued, Reading, Shown, Content
<1>8. \A u \in Thread : u # t /\ pc[u] = "answer" => Head(drained[u]) # req
  <2> SUFFICES ASSUME NEW u \in Thread, u # t, pc[u] = "answer",
                      Head(drained[u]) = req
               PROVE  FALSE
    OBVIOUS
  <2>1. drained[u] # <<>>
    BY DEF TypeInv
  <2>2. req \in Queued(drained[u])
    BY <2>1, FlightFacts
  <2> QED BY <1>1, <1>5, <2>2, FlightFacts
<1>9. Reading(h) => call[h].id \notin abandoned
  BY DEF ReadInv, NumberDrawn
<1>10. req = call[h] => Shown(h) = [reg |-> req.reg, val |-> Content(req.reg)]
  BY DEF Shown
<1>11. pending_data \in [Id -> [reg : Reg, val : Val \cup {Zero}] \cup {None}]
       /\ rc \in [Thread -> Rc \cup {Unset}] /\ call[h].id \in Id
  BY DEF TypeInv, TypeOK, Request
<1>12. req.kind = "read"
  BY <1>1
<1> HIDE DEF req
<1>13. NumberDrawn(h)'
  BY <1>1, <1>4, <1>7 DEF ReadInv, NumberDrawn, Awaiting
<1>14. ReadStage(h)'
  <2>1. pc[h] = "collect" => rc'[h] = rc[h]
    BY <1>1, <1>4
  <2> QED BY <1>1, <1>3, <1>4, <2>1 DEF ReadInv, ReadStage, Awaiting
<1>15. FlightOf(h)'
  BY <1>1, <1>4, <1>7 DEF ReadInv, FlightOf, Awaiting
<1>16. LeftOf(h)'
  <2>1. req = call[h] /\ pc[h] \in Awaiting => Reading(h)
    BY <1>12 DEF Reading, Awaiting
  <2>2. \A i \in Id : i # req.id => pending_data'[i] = pending_data[i]
    BY <1>2, <1>11
  <2>3. req.id \in abandoned \/ (Reading(h) /\ call[h].id = req.id)
    BY <1>6, <2>1
  <2> QED BY <1>1, <1>7, <2>2, <2>3 DEF ReadInv, LeftOf
<1>17. AnswerOf(h)'
  <2> SUFFICES ASSUME Reading(h)
               PROVE  /\ shared[call[h].promise] = "ok" =>
                           pending_data'[call[h].id] = Shown(h)
                      /\ \A u \in Thread :
                           pc'[u] = "answer" /\ Head(drained[u]) = call[h]
                             /\ rc'[u] = "ok" => pending_data'[call[h].id] = Shown(h)
    BY <1>1, <1>7 DEF AnswerOf
  <2>1. CASE req = call[h]
    <3>1. shared[call[h].promise] # "ok"
      BY <1>5, <2>1 DEF Unset
    <3>2. Answer(req.reg, req.len) = "ok" => pending_data'[call[h].id] = Shown(h)
      BY <1>2, <1>10, <1>11, <2>1
    <3>3. \A u \in Thread : u # t => ~(pc'[u] = "answer" /\ Head(drained[u]) = call[h])
      BY <1>4, <1>8, <2>1
    <3> QED BY <1>4, <3>1, <3>2, <3>3
  <2>2. CASE req # call[h]
    <3>1. pending_data'[call[h].id] = pending_data[call[h].id]
      BY <1>2, <1>6, <1>9, <1>11, <2>2
    <3>2. Head(drained[t]) # call[h]
      BY <2>2 DEF req
    <3> QED BY <1>4, <3>1, <3>2 DEF ReadInv, AnswerOf
  <2> QED BY <2>1, <2>2
<1> QED BY <1>13, <1>14, <1>15, <1>16, <1>17 DEF ReadInv

(* Setting the promise tells the reader an answer whose payload is there.  *)
LEMMA ReadSetValue ==
  ASSUME NEW h \in Host, TypeInv, OnceInv, ReadInv(h),
         NEW t \in Thread, SetValue(t)
  PROVE  ReadInv(h)'
<1>0. PICK req : req = Head(drained[t])
  OBVIOUS
<1>1. /\ pc[t] = "answer" /\ req.kind = "read" /\ drained[t] # <<>>
      /\ drained[t] \in Seq(Wellformed)
      /\ shared' = [shared EXCEPT ![req.promise] = rc[t]]
      /\ rc' = [rc EXCEPT ![t] = Unset]
      /\ drained' = [drained EXCEPT ![t] = Tail(drained[t])]
      /\ pc' = [pc EXCEPT ![t] = pc'[t]]
      /\ pc'[t] \in {"wait", "loop", "idle", "serve"} /\ (t = h => pc'[t] \in {"wait", "serve"})
      /\ inject_q' = inject_q /\ pending_data' = pending_data
      /\ pending_resp' = pending_resp /\ next_trans_id' = next_trans_id
      /\ mmio_regs' = mmio_regs /\ call' = call /\ abandoned' = abandoned
  BY <1>0 DEF SetValue, Advance, AfterDrain, Goto, locked, TypeInv, TypeOK
<1>2. /\ rc'[t] = Unset /\ drained'[t] = Tail(drained[t])
      /\ \A u \in Thread : u # t =>
           pc'[u] = pc[u] /\ rc'[u] = rc[u] /\ drained'[u] = drained[u]
      /\ h \in Thread /\ rc[t] \in Rc
  BY <1>1 DEF TypeInv, TypeOK, Thread, ReadInv, ReadStage
<1>3. /\ req \in Queued(drained[t]) /\ InFlight(req) /\ req \in Wellformed
      /\ req.promise # None /\ req.promise \in Promise
      /\ shared[req.promise] = Unset
  BY <1>0, <1>1, FlightFacts DEF InFlight
<1>4. /\ req.id \in abandoned \/ (req = call[h] /\ pc[h] \in Awaiting)
      /\ Reading(h) /\ req.promise = call[h].promise => req = call[h]
  BY <1>1, <1>3 DEF ReadInv, FlightOf
<1>5. \A q \in Wellformed : InFlight(q)' => InFlight(q)
  <2>1. Queued(Tail(drained[t])) \subseteq Queued(drained[t])
    BY <1>1, QueuedLemma
  <2> QED BY <1>1, <1>2, <2>1 DEF InFlight
<1>6. (Reading(h)' <=> Reading(h)) /\ Shown(h)' = Shown(h)
  BY <1>1, <1>2 DEF Reading, Shown, Content
<1>7. Reading(h) => call[h].id \notin abandoned
  BY DEF ReadInv, NumberDrawn
<1>8. /\ shared'[req.promise] = rc[t]
      /\ \A p \in Promise : p # req.promise => shared'[p] = shared[p]
      /\ Unset \notin Rc
  BY <1>1, <1>3 DEF TypeInv, TypeOK, Unset, Rc, EINVAL
<1>9. Reading(h) => call[h].promise \in Promise
  BY DEF Reading, TypeInv, Wellformed
<1>10. NumberDrawn(h)'
  BY <1>1, <1>2, <1>6 DEF ReadInv, NumberDrawn, Awaiting
<1>11. ReadStage(h)'
  <2>1. pc'[h] \in Awaiting \cup {"get"} =>
          call[h].kind = "read" /\ pending_resp[call[h].id] = call[h].promise
    BY <1>1, <1>2 DEF ReadInv, ReadStage, Awaiting
  <2>2. ASSUME pc'[h] = "get" PROVE shared'[call[h].promise] # Unset
    <3>1. pc[h] = "get" /\ Reading(h) /\ shared[call[h].promise] # Unset
      BY <1>1, <1>2, <2>2 DEF ReadInv, ReadStage, Reading
    <3> QED BY <1>2, <1>8, <1>9, <3>1
  <2>3. ASSUME pc'[h] = "collect"
        PROVE  /\ call[h].kind = "read"
               /\ rc'[h] = shared'[call[h].promise] /\ rc'[h] # Unset
    <3>1. pc[h] = "collect" /\ h # t /\ call[h].kind = "read" /\ Reading(h)
          /\ rc[h] = shared[call[h].promise] /\ rc[h] # Unset
      BY <1>1, <1>2, <2>3 DEF ReadInv, ReadStage, Reading
    <3>2. req.promise # call[h].promise
      BY <1>4, <1>7, <3>1 DEF Awaiting
    <3> QED BY <1>2, <1>8, <1>9, <3>1, <3>2
  <2>4. \A u \in Thread : pc'[u] = "answer" => rc'[u] \in Rc
    BY <1>1, <1>2 DEF ReadInv, ReadStage
  <2>5. pc'[h] \in {"idle", "poison", "join"} => call[h].kind # "read"
    BY <1>1, <1>2 DEF ReadInv, ReadStage
  <2> QED BY <1>1, <2>1, <2>2, <2>3, <2>4, <2>5 DEF ReadStage
<1>12. FlightOf(h)'
  BY <1>1, <1>2, <1>5, <1>6 DEF ReadInv, FlightOf, Awaiting
<1>13. LeftOf(h)'
  BY <1>1, <1>6 DEF ReadInv, LeftOf
<1>14. AnswerOf(h)'
  <2> SUFFICES ASSUME Reading(h)
               PROVE  /\ shared'[call[h].promise] = "ok" =>
                           pending_data[call[h].id] = Shown(h)
                      /\ \A u \in Thread :
                           pc'[u] = "answer" /\ Head(drained'[u]) = call[h]
                             /\ rc'[u] = "ok" => pending_data[call[h].id] = Shown(h)
    BY <1>1, <1>6 DEF AnswerOf
  <2>1. /\ shared[call[h].promise] = "ok" => pending_data[call[h].id] = Shown(h)
        /\ \A u \in Thread :
             pc[u] = "answer" /\ Head(drained[u]) = call[h] /\ rc[u] = "ok" =>
               pending_data[call[h].id] = Shown(h)
    BY DEF ReadInv, AnswerOf
  <2>2. CASE req.promise = call[h].promise
    BY <1>0, <1>1, <1>2, <1>4, <1>8, <2>1, <2>2
  <2>3. CASE req.promise # call[h].promise
    BY <1>1, <1>2, <1>8, <1>9, <2>1, <2>3
  <2> QED BY <2>2, <2>3
<1> QED BY <1>10, <1>11, <1>12, <1>13, <1>14 DEF ReadInv

(* The rest of the reader's own steps.                                     *)
LEMMA ReadOwn ==
  ASSUME NEW h \in Host, TypeInv, OnceInv, ReadInv(h),
         WaitReady(h) \/ NoState(h) \/ Abandon(h) \/ Get(h) \/ Collect(h)
  PROVE  ReadInv(h)'
<1>1. /\ inject_q' = inject_q /\ drained' = drained /\ shared' = shared
      /\ next_trans_id' = next_trans_id /\ mmio_regs' = mmio_regs
      /\ pc' = [pc EXCEPT ![h] = pc'[h]] /\ rc' = [rc EXCEPT ![h] = rc'[h]]
      /\ h \in Thread
  <2>1. /\ inject_q' = inject_q /\ drained' = drained /\ shared' = shared
        /\ next_trans_id' = next_trans_id /\ mmio_regs' = mmio_regs
    BY DEF WaitReady, NoState, Abandon, Get, Collect, locked
  <2>2. pc' = [pc EXCEPT ![h] = pc'[h]] /\ h \in Thread
    BY DEF WaitReady, NoState, Abandon, Get, Collect, Return, Goto, TypeInv,
           TypeOK, Thread
  <2>3. rc' = [rc EXCEPT ![h] = rc'[h]]
    BY DEF WaitReady, NoState, Abandon, Get, Collect, TypeInv, TypeOK, Thread
  <2> QED BY <2>1, <2>2, <2>3
<1>2. \A t \in Thread : t # h => pc'[t] = pc[t] /\ rc'[t] = rc[t]
  BY <1>1 DEF TypeInv, TypeOK
<1>3. \A q : InFlight(q)' <=> InFlight(q)
  BY <1>1 DEF InFlight, Queued
<1>4. /\ call[h].id \in Id /\ call[h] \in Wellformed
      /\ pending_resp \in [Id -> Promise \cup {None}]
      /\ pending_data \in [Id -> [reg : Reg, val : Val \cup {Zero}] \cup {None}]
      /\ next_trans_id \in Nat
  BY DEF TypeInv, TypeOK, Request, Id
<1>5. \A q \in Wellformed : q.kind = "read" => q.promise # None
  BY DataAssumption DEF Wellformed, Promise
(* The promise of a read that has been answered is not in flight.          *)
<1>6. ASSUME shared[call[h].promise] # Unset, call[h].kind = "read",
             NEW q \in Wellformed, InFlight(q), q.kind = "read"
      PROVE  q.id \in abandoned
  BY <1>6, FlightFacts DEF ReadInv, FlightOf
<1>7. CASE WaitReady(h)
  <2>1. /\ pc[h] = "wait" /\ pc'[h] = "get"
        /\ shared[pending_resp[call[h].id]] # Unset
        /\ call' = call /\ rc' = rc /\ pending_resp' = pending_resp
        /\ pending_data' = pending_data /\ abandoned' = abandoned
    BY <1>1, <1>7 DEF WaitReady, Future, Goto, locked, TypeInv, TypeOK
  <2>2. call[h].kind = "read" /\ pending_resp[call[h].id] = call[h].promise
    BY <2>1 DEF ReadInv, ReadStage, Awaiting
  <2>3. Reading(h) /\ Reading(h)' /\ Shown(h)' = Shown(h)
    BY <1>1, <2>1, <2>2 DEF Reading, Shown, Content
  <2>4. NumberDrawn(h)'
    BY <1>1, <2>1, <2>3 DEF ReadInv, NumberDrawn, Awaiting
  <2>5. ReadStage(h)'
    BY <1>1, <1>2, <2>1, <2>2 DEF ReadInv, ReadStage, Awaiting
  <2>6. FlightOf(h)'
    BY <1>3, <1>6, <2>1, <2>2, <2>3 DEF ReadInv, FlightOf
  <2>7. LeftOf(h)'
    BY <2>1, <2>3 DEF ReadInv, LeftOf
  <2>8. AnswerOf(h)'
    BY <1>1, <1>2, <2>1, <2>3 DEF ReadInv, AnswerOf
  <2> QED BY <2>4, <2>5, <2>6, <2>7, <2>8 DEF ReadInv
<1>8. CASE NoState(h)
  <2>1. pc[h] \in {"wait", "get"} /\ pending_resp[call[h].id] = None
    BY <1>8 DEF NoState, Future
  <2>2. call[h].kind = "read" /\ pending_resp[call[h].id] = call[h].promise
    BY <2>1 DEF ReadInv, ReadStage, Awaiting
  <2> QED BY <1>4, <1>5, <2>1, <2>2
<1>9. CASE Abandon(h)
  <2>1. /\ pc[h] = "abandon" /\ pc'[h] = "idle" /\ call'[h] = NoCall
        /\ pending_resp' = [pending_resp EXCEPT ![call[h].id] = None]
        /\ pending_data' = [pending_data EXCEPT ![call[h].id] = None]
        /\ abandoned' = abandoned \cup {call[h].id} /\ rc' = rc
    BY <1>1, <1>9 DEF Abandon, Return, Goto, TypeInv, TypeOK
  <2>2. ~Reading(h)' /\ call'[h].kind # "read" /\ Reading(h)
    BY <2>1 DEF Reading, NoCall, Poison, ReadInv, ReadStage, Awaiting
  <2>3. NumberDrawn(h)'
    BY <1>1, <2>1, <2>2 DEF ReadInv, NumberDrawn, Awaiting
  <2>4. ReadStage(h)'
    BY <1>1, <1>2, <2>1, <2>2 DEF ReadInv, ReadStage, Awaiting
  <2>5. FlightOf(h)'
    BY <1>3, <2>1, <2>2 DEF ReadInv, FlightOf
  <2>6. LeftOf(h)'
    BY <1>4, <2>1, <2>2 DEF ReadInv, LeftOf
  <2>7. AnswerOf(h)'
    BY <2>2 DEF AnswerOf
  <2> QED BY <2>3, <2>4, <2>5, <2>6, <2>7 DEF ReadInv
<1>10. CASE Get(h)
  <2>1. /\ pc[h] = "get" /\ pc'[h] = "collect" /\ call' = call
        /\ rc'[h] = shared[pending_resp[call[h].id]]
        /\ pending_resp' = [pending_resp EXCEPT ![call[h].id] = None]
        /\ pending_data' = pending_data /\ abandoned' = abandoned
    BY <1>1, <1>10 DEF Get, Future, Goto, TypeInv, TypeOK
  <2>2. /\ call[h].kind = "read" /\ pending_resp[call[h].id] = call[h].promise
        /\ shared[call[h].promise] # Unset
    BY <2>1 DEF ReadInv, ReadStage
  <2>3. Reading(h) /\ Reading(h)' /\ Shown(h)' = Shown(h)
    BY <1>1, <2>1, <2>2 DEF Reading, Shown, Content
  <2>4. NumberDrawn(h)'
    BY <1>1, <2>1, <2>3 DEF ReadInv, NumberDrawn, Awaiting
  <2>5. ReadStage(h)'
    BY <1>1, <1>2, <2>1, <2>2 DEF ReadInv, ReadStage, Awaiting
  <2>6. FlightOf(h)'
    BY <1>3, <1>6, <2>1, <2>2, <2>3 DEF ReadInv, FlightOf
  <2>7. LeftOf(h)'
    BY <1>4, <2>1, <2>3 DEF ReadInv, LeftOf
  <2>8. AnswerOf(h)'
    BY <1>1, <1>2, <2>1, <2>3 DEF ReadInv, AnswerOf
  <2> QED BY <2>4, <2>5, <2>6, <2>7, <2>8 DEF ReadInv
<1>11. CASE Collect(h)
  <2>1. /\ pc[h] = "collect" /\ pc'[h] = "idle" /\ call'[h] = NoCall
        /\ pending_resp' = [pending_resp EXCEPT ![call[h].id] = None]
        /\ pending_data' = [pending_data EXCEPT ![call[h].id] = None]
        /\ abandoned' = abandoned /\ rc'[h] = Unset
    BY <1>1, <1>11 DEF Collect, Return, Goto, TypeInv, TypeOK
  <2>2. /\ ~Reading(h)' /\ call'[h].kind # "read" /\ Reading(h)
        /\ call[h].kind = "read" /\ shared[call[h].promise] # Unset
    BY <2>1 DEF Reading, NoCall, Poison, ReadInv, ReadStage
  <2>3. NumberDrawn(h)'
    BY <1>1, <2>1, <2>2 DEF ReadInv, NumberDrawn, Awaiting
  <2>4. ReadStage(h)'
    BY <1>1, <1>2, <2>1, <2>2 DEF ReadInv, ReadStage, Awaiting
  <2>5. FlightOf(h)'
    BY <1>3, <1>6, <2>1, <2>2 DEF FlightOf
  <2>6. LeftOf(h)'
    BY <1>4, <2>1, <2>2 DEF ReadInv, LeftOf
  <2>7. AnswerOf(h)'
    BY <2>2 DEF AnswerOf
  <2> QED BY <2>3, <2>4, <2>5, <2>6, <2>7 DEF ReadInv
<1> QED BY <1>7, <1>8, <1>9, <1>10, <1>11

LEMMA ReadStep ==
  ASSUME NEW h, Host = {h}
  PROVE  TypeInv /\ OnceInv /\ ReadInv(h) /\ [Next]_vars => ReadInv(h)'
<1> SUFFICES ASSUME TypeInv, OnceInv, ReadInv(h), [Next]_vars
             PROVE  ReadInv(h)'
  OBVIOUS
<1>0. /\ h \in Host /\ h \in Thread /\ Sim \in Thread /\ Sim # h
      /\ \A t \in Pump : t # h /\ t \in Thread
  BY ThreadsDiffer DEF Thread
<1>1. ASSUME NEW r \in Reg,
             \/ \E v \in Val : MmioWrite(h, r, v)
             \/ \E n \in Length : MmioRead(h, r, n)
      PROVE  ReadInv(h)'
  BY <1>0, <1>1, ReadEnter DEF MmioWrite, MmioRead
<1>2. CASE BackdoorWrite(h)
  BY <1>0, <1>2, ReadEnter DEF BackdoorWrite
<1>3. CASE StoreId(h) \/ Push(h)
  BY <1>0, <1>3, ReadStoreId, ReadPush
<1>4. CASE WaitReady(h) \/ NoState(h) \/ Abandon(h) \/ Get(h) \/ Collect(h)
  BY <1>0, <1>4, ReadOwn
<1>5. CASE PushPoison(h)
  <2>1. inject_q' = Append(inject_q, Poison) /\ inject_q \in Seq(Wellformed)
    BY <1>5 DEF PushPoison, TypeInv
  <2>2. Queued(inject_q') = Queued(inject_q) \cup {Poison}
    BY <2>1, PoisonIsRequest, QueuedLemma
  <2>3. /\ \A q \in Wellformed : q.kind = "read" /\ InFlight(q)' => InFlight(q)
        /\ drained' = drained
    BY <1>5, <2>2 DEF PushPoison, InFlight, Queued, Poison
  <2>4. /\ pc[h] = "poison" /\ pc'[h] = "join"
        /\ \A t \in Thread : t # h => pc'[t] = pc[t]
        /\ UNCHANGED <<mmio_regs, pending_resp, pending_data, next_trans_id,
                       shared, rc, abandoned, call>>
    BY <1>0, <1>5 DEF PushPoison, Goto, TypeInv, TypeOK
  <2> QED BY <1>0, <2>3, <2>4, ReadFrame
(* Steps that change control alone.                                        *)
<1>6. ASSUME UNCHANGED <<inject_q, drained, mmio_regs, pending_resp, pending_data,
                         next_trans_id, shared, rc, abandoned, call>>,
             \A t \in Thread : pc'[t] = "answer" => pc[t] = "answer",
             \/ pc'[h] = pc[h]
             \/ pc[h] \in {"idle", "poison", "join"}
                /\ pc'[h] \in {"idle", "poison", "join"}
             \/ pc[h] = "wait" /\ pc'[h] = "abandon"
      PROVE  ReadInv(h)'
  <2>1. (\A q : InFlight(q)' <=> InFlight(q)) /\ drained' = drained
    BY <1>6 DEF InFlight, Queued
  <2> QED BY <1>0, <1>6, <2>1, ReadFrame
<1>7. CASE WaitTimeout(h)
  <2>1. pc[h] = "wait" /\ pc'[h] = "abandon"
        /\ \A t \in Thread : t # h => pc'[t] = pc[t]
    BY <1>0, <1>7 DEF WaitTimeout, Goto, TypeInv, TypeOK
  <2> QED BY <1>6, <1>7, <2>1 DEF WaitTimeout, locked
<1>8. CASE InitBoard(h) \/ Shutdown(h) \/ Join(h)
  <2>1. /\ \A t \in Thread : pc'[t] = "answer" => pc[t] = "answer"
        /\ \/ pc'[h] = pc[h]
           \/ pc[h] \in {"idle", "poison", "join"}
              /\ pc'[h] \in {"idle", "poison", "join"}
    BY <1>0, <1>8 DEF InitBoard, Shutdown, Join, Goto, TypeInv, TypeOK
  <2> QED BY <1>6, <1>8, <2>1 DEF InitBoard, Shutdown, Join, locked
<1>9. ASSUME NEW t \in Pump, Tick(t) PROVE ReadInv(h)'
  <2>1. /\ \A u \in Thread : pc'[u] = "answer" => pc[u] = "answer"
        /\ pc'[h] = pc[h]
    BY <1>0, <1>9 DEF Tick, Goto, TypeInv, TypeOK
  <2> QED BY <1>6, <1>9, <2>1 DEF Tick, locked
<1>10. CASE SimStep
  <2>1. /\ \A u \in Thread : pc'[u] = "answer" => pc[u] = "answer"
        /\ pc'[h] = pc[h]
    BY <1>0, <1>10 DEF SimStep, SimRun, SimThrow, SimStop, Goto, TypeInv, TypeOK
  <2> QED BY <1>6, <1>10, <2>1 DEF SimStep, SimRun, SimThrow, SimStop, locked
<1>11. ASSUME NEW t \in Thread, Swap(t) PROVE ReadInv(h)'
  <2>1. /\ inject_q' = <<>> /\ drained' = [drained EXCEPT ![t] = inject_q]
        /\ pc[t] = "swap" /\ pc' = [pc EXCEPT ![t] = pc'[t]]
        /\ pc'[t] \in {"wait", "loop", "idle", "serve"}
        /\ t = h => pc'[t] \in {"wait", "serve"}
        /\ UNCHANGED <<mmio_regs, pending_resp, pending_data, next_trans_id,
                       shared, rc, abandoned, call>>
    BY <1>0, <1>11 DEF Swap, Goto, AfterDrain, TypeInv, TypeOK
  <2>2. drained'[t] = inject_q /\ \A u \in Thread : u # t => drained'[u] = drained[u]
    BY <2>1 DEF TypeInv
  <2>3. \A q \in Wellformed : InFlight(q)' => InFlight(q)
    BY <2>1, <2>2 DEF InFlight, Queued
  <2>4. /\ \A u \in Thread : pc'[u] = "answer" =>
             pc[u] = "answer" /\ drained'[u] = drained[u]
        /\ pc'[h] = pc[h] \/ (pc[h] = "swap" /\ pc'[h] \in {"serve", "wait"})
    BY <1>0, <2>1, <2>2 DEF TypeInv, TypeOK
  <2> QED BY <1>0, <2>1, <2>3, <2>4, ReadFrame
<1>12. ASSUME NEW t \in Thread, ServeOther(t) PROVE ReadInv(h)'
  <2>1. /\ inject_q' = inject_q
        /\ drained' = [drained EXCEPT ![t] = Tail(drained[t])]
        /\ pc[t] = "serve" /\ pc' = [pc EXCEPT ![t] = pc'[t]]
        /\ pc'[t] \in {"wait", "loop", "idle", "serve"}
        /\ t = h => pc'[t] \in {"wait", "serve"}
        /\ UNCHANGED <<mmio_regs, pending_resp, pending_data, next_trans_id,
                       shared, rc, abandoned, call>>
    BY <1>0, <1>12
       DEF ServeOther, Advance, Goto, AfterDrain, locked, TypeInv, TypeOK
  <2>2. /\ drained'[t] = Tail(drained[t])
        /\ \A u \in Thread : u # t => drained'[u] = drained[u]
        /\ drained[t] \in Seq(Wellformed) /\ drained[t] # <<>>
    BY <2>1 DEF TypeInv
  <2>3. \A q \in Wellformed : InFlight(q)' => InFlight(q)
    <3>1. Queued(Tail(drained[t])) \subseteq Queued(drained[t])
      BY <2>2, QueuedLemma
    <3> QED BY <2>1, <2>2, <3>1 DEF InFlight
  <2>4. /\ \A u \in Thread : pc'[u] = "answer" =>
             pc[u] = "answer" /\ drained'[u] = drained[u]
        /\ pc'[h] = pc[h] \/ (pc[h] = "serve" /\ pc'[h] \in {"serve", "wait"})
    BY <1>0, <2>1, <2>2 DEF TypeInv, TypeOK
  <2> QED BY <1>0, <2>1, <2>3, <2>4, ReadFrame
<1>13. ASSUME NEW t \in Thread, ServeRead(t) \/ SetValue(t) PROVE ReadInv(h)'
  BY <1>0, <1>13, ReadServe, ReadSetValue
<1>14. CASE UNCHANGED vars
  BY <1>6, <1>14 DEF vars
<1> QED BY <1>1, <1>2, <1>3, <1>4, <1>5, <1>7, <1>8, <1>9, <1>10, <1>11, <1>12,
           <1>13, <1>14 DEF Next, HostStep, Drain

LEMMA ReadInit ==
  ASSUME NEW h, Host = {h}
  PROVE  Init => ReadInv(h)
<1> SUFFICES ASSUME Init PROVE ReadInv(h)
  OBVIOUS
<1>1. /\ pc[h] = "idle" /\ call[h] = NoCall /\ ~Reading(h)
      /\ \A t \in Thread : pc[t] # "answer"
  BY ThreadsDiffer DEF Init, Thread, Reading
<1>2. \A q : ~InFlight(q)
  BY DEF Init, InFlight, Queued
<1>3. NumberDrawn(h)
  BY <1>1 DEF Init, NumberDrawn, Awaiting
<1>4. ReadStage(h)
  BY <1>1 DEF ReadStage, Awaiting, NoCall, Poison
<1>5. FlightOf(h) /\ AnswerOf(h)
  BY <1>1, <1>2 DEF FlightOf, AnswerOf
<1>6. LeftOf(h)
  BY DEF Init, LeftOf
<1> QED BY <1>3, <1>4, <1>5, <1>6 DEF ReadInv

(* What a single host reads is what it last wrote, with any number of      *)
(* threads that tick the board and whichever of them serves the request,   *)
(* after any number of reads that timed out (dgpu_board_shell.cc:428).     *)
THEOREM ReadsReturnWrites ==
  ASSUME NEW h, Host = {h}
  PROVE  Spec => []ReadYourWrites
<1>1. TypeInv /\ ReadInv(h) => ReadYourWrites
  <2> SUFFICES ASSUME ReadInv(h), pc[h] = "collect", rc[h] = "ok"
               PROVE  pending_data[call[h].id]
                        = [reg |-> call[h].reg, val |-> Content(call[h].reg)]
    BY DEF ReadYourWrites
  <2>1. Reading(h) /\ shared[call[h].promise] = "ok"
    BY DEF ReadInv, ReadStage, Reading
  <2> QED BY <2>1 DEF ReadInv, AnswerOf, Shown
<1> QED BY <1>1, TypeInit, TypeStep, OnceInit, OnceStep, ReadInit, ReadStep, PTL
        DEF Spec

(* A read of a single host that was answered leaves neither payload nor    *)
(* future in the maps (dgpu_board_shell.cc:431-439).                       *)
THEOREM AnsweredReadsLeaveNothing ==
  ASSUME NEW h, Host = {h}
  PROVE  Spec => []NothingLeftByAnsweredReads
<1>1. ReadInv(h) => NothingLeftByAnsweredReads
  BY DEF ReadInv, LeftOf, NothingLeftByAnsweredReads
<1> QED BY <1>1, TypeInit, TypeStep, OnceInit, OnceStep, ReadInit, ReadStep, PTL
        DEF Spec

-----------------------------------------------------------------------------
(* SimKernel: objects in step, packets in one place, channels in order.    *)
(* What the proofs need of the constants.                                  *)
KernelAssumption == IsFiniteSet(Pkts) /\ OutCap \in Nat /\ InCap \in Nat

(* Objects fire in step with the cycle, and a run that is under way ends   *)
(* after it.                                                               *)
ClockHolds ==
  /\ cycle \in Nat /\ end \in Nat /\ (end > 0 => cycle < end)
  /\ due \in [Objs -> Nat] /\ InStep

(* The buffers of one direction hold the packets of that place, each once, *)
(* on its channel and no more than the capacity.                           *)
BuffersHold(at, buf, cap, where) ==
  /\ buf \in [Vcs -> Seq(Pkts)]
  /\ \A v \in Vcs : Len(buf[v]) <= cap
  /\ \A v \in Vcs : \A i \in DOMAIN buf[v] : at[buf[v][i]] = where /\ Channel[buf[v][i]] = v
  /\ \A v \in Vcs : \A i, j \in DOMAIN buf[v] : buf[v][i] = buf[v][j] => i = j
  /\ \A p \in Pkts : at[p] = where => \E i \in DOMAIN buf[Channel[p]] : buf[Channel[p]][i] = p

Places == {"free", "held", "out", "in", "kept", "lost"}
Pooled == {p \in Pkts : place[p] = "free"}

PlacesHold ==
  /\ place \in [Pkts -> Places]
  /\ usage = Cardinality(Pkts \ Pooled)
  /\ BuffersHold(place, out, OutCap, "out")
  /\ BuffersHold(place, inp, InCap, "in")

(* What arrived on a channel was sent before what waits for it, in order.  *)
OrderHolds ==
  \A v \in Vcs :
    /\ \A i \in DOMAIN inp[v], j \in DOMAIN out[v] : <<inp[v][i], out[v][j]>> \in earlier
    /\ \A i, j \in DOMAIN inp[v] : i < j => <<inp[v][i], inp[v][j]>> \in earlier

KernelInv == ClockHolds /\ PlacesHold /\ OrderHolds

LEMMA KernelInitInv ==
  ASSUME KernelAssumption, KernelInit
  PROVE  KernelInv
<1>1. ClockHolds
  BY DEF KernelInit, ClockHolds, InStep, Started, Objs
<1>2. PlacesHold
  <2>1. Pkts \ Pooled = {}
    BY DEF KernelInit, Pooled
  <2>2. \A v \in Vcs : out[v] = << >> /\ inp[v] = << >>
    BY DEF KernelInit
  <2>3. out \in [Vcs -> Seq(Pkts)] /\ inp \in [Vcs -> Seq(Pkts)]
    BY DEF KernelInit
  <2>4. \A p \in Pkts : place[p] = "free"
    BY DEF KernelInit
  <2>5. usage = Cardinality(Pkts \ Pooled)
    BY <2>1, FS_EmptySet DEF KernelInit
  <2>6. place \in [Pkts -> Places]
    BY DEF KernelInit, Places
  <2>7. DOMAIN << >> = {} /\ Len(<< >>) = 0
    OBVIOUS
  <2>8. BuffersHold(place, out, OutCap, "out") /\ BuffersHold(place, inp, InCap, "in")
    BY <2>2, <2>3, <2>4, <2>7 DEF BuffersHold, KernelAssumption
  <2> QED
    BY <2>5, <2>6, <2>8 DEF PlacesHold
<1>3. OrderHolds
  BY DEF KernelInit, OrderHolds
<1> QED
  BY <1>1, <1>2, <1>3 DEF KernelInv

(* A buffer after its channel got a packet, lost its head or turned.       *)
LEMMA BufferGets ==
  ASSUME NEW at, NEW buf, NEW cap \in Nat, NEW where, BuffersHold(at, buf, cap, where),
         NEW p \in Pkts, at \in [Pkts -> Places], at[p] # where, Len(buf[Channel[p]]) < cap
  PROVE  BuffersHold([at EXCEPT ![p] = where],
                     [buf EXCEPT ![Channel[p]] = Append(buf[Channel[p]], p)], cap, where)
<1> DEFINE v == Channel[p]
           q == Append(buf[v], p)
           after == [buf EXCEPT ![v] = q]
           now == [at EXCEPT ![p] = where]
<1>1. v \in Vcs /\ buf[v] \in Seq(Pkts)
  BY DEF Vcs, BuffersHold
<1>2. /\ q \in Seq(Pkts) /\ Len(q) = Len(buf[v]) + 1
      /\ \A i \in DOMAIN buf[v] : i \in DOMAIN q /\ q[i] = buf[v][i]
      /\ Len(q) \in DOMAIN q /\ q[Len(q)] = p
      /\ \A i \in DOMAIN q : i \in DOMAIN buf[v] \/ i = Len(q)
  BY <1>1
<1>3. after[v] = q /\ \A w \in Vcs \ {v} : after[w] = buf[w]
  BY <1>1 DEF BuffersHold
<1>4. now[p] = where /\ \A x \in Pkts \ {p} : now[x] = at[x]
  OBVIOUS
<1>5. \A w \in Vcs : \A i \in DOMAIN buf[w] : buf[w][i] \in Pkts \ {p}
  BY DEF BuffersHold
<1>6. after \in [Vcs -> Seq(Pkts)]
  BY <1>1, <1>2 DEF BuffersHold
<1> HIDE DEF after, now, q
<1>7. ASSUME NEW w \in Vcs PROVE Len(after[w]) <= cap
  BY <1>1, <1>2, <1>3 DEF BuffersHold
<1>8. ASSUME NEW w \in Vcs, NEW i \in DOMAIN after[w]
      PROVE  now[after[w][i]] = where /\ Channel[after[w][i]] = w
  <2>1. CASE w = v
    BY <2>1, <1>2, <1>3, <1>4, <1>5 DEF BuffersHold
  <2>2. CASE w # v
    BY <2>2, <1>3, <1>4, <1>5 DEF BuffersHold
  <2> QED BY <2>1, <2>2
<1>9. ASSUME NEW w \in Vcs, NEW i \in DOMAIN after[w], NEW j \in DOMAIN after[w],
             after[w][i] = after[w][j]
      PROVE  i = j
  <2>1. CASE w = v
    BY <2>1, <1>1, <1>2, <1>3, <1>5, <1>9 DEF BuffersHold
  <2>2. CASE w # v
    BY <2>2, <1>3, <1>9 DEF BuffersHold
  <2> QED BY <2>1, <2>2
<1>10. ASSUME NEW x \in Pkts, now[x] = where
       PROVE  \E i \in DOMAIN after[Channel[x]] : after[Channel[x]][i] = x
  <2>1. CASE x = p
    BY <2>1, <1>2, <1>3
  <2>2. CASE x # p
    <3>1. at[x] = where /\ Channel[x] \in Vcs
      BY <2>2, <1>4, <1>10 DEF Vcs
    <3>2. PICK i \in DOMAIN buf[Channel[x]] : buf[Channel[x]][i] = x
      BY <3>1 DEF BuffersHold
    <3> QED BY <3>1, <3>2, <1>2, <1>3
  <2> QED BY <2>1, <2>2
<1>11. BuffersHold(now, after, cap, where)
  BY <1>6, <1>7, <1>8, <1>9, <1>10 DEF BuffersHold
<1> QED
  BY <1>11 DEF now, after, q

LEMMA BufferFrame ==
  ASSUME NEW at, NEW now, NEW buf, NEW cap, NEW where, BuffersHold(at, buf, cap, where),
         \A x \in Pkts : (now[x] = where <=> at[x] = where)
  PROVE  BuffersHold(now, buf, cap, where)
<1>1. \A v \in Vcs : \A i \in DOMAIN buf[v] : buf[v][i] \in Pkts
  BY DEF BuffersHold
<1> QED
  BY <1>1 DEF BuffersHold

(* The turn of a channel keeps its packets.                                *)
LEMMA RotatedIs ==
  ASSUME NEW q \in Seq(Pkts), \A i, j \in DOMAIN q : q[i] = q[j] => i = j
  PROVE  /\ Rotated(q) \in Seq(Pkts) /\ Len(Rotated(q)) = Len(q)
         /\ \A i \in DOMAIN Rotated(q) : \E j \in DOMAIN q : Rotated(q)[i] = q[j]
         /\ \A j \in DOMAIN q : \E i \in DOMAIN Rotated(q) : Rotated(q)[i] = q[j]
         /\ \A i, j \in DOMAIN Rotated(q) : Rotated(q)[i] = Rotated(q)[j] => i = j
<1>1. CASE Rotated(q) = q
  BY <1>1
<1>2. CASE q # << >> /\ Rotated(q) = Append(Tail(q), Head(q))
  <2> DEFINE t == Tail(q)
             r == Append(t, Head(q))
  <2>1. Head(q) \in Pkts /\ Head(q) = q[1] /\ 1 \in DOMAIN q
        /\ t \in Seq(Pkts) /\ Len(t) = Len(q) - 1 /\ Len(q) \in Nat \ {0}
        /\ \A i \in 1..Len(t) : t[i] = q[i + 1]
    BY <1>2
  <2>2. r \in Seq(Pkts) /\ Len(r) = Len(t) + 1 /\ r[Len(r)] = Head(q)
        /\ \A i \in 1..Len(t) : r[i] = t[i]
    BY <2>1
  <2> HIDE DEF t, r
  <2>3. Len(r) = Len(q) /\ DOMAIN r = 1..Len(q) /\ DOMAIN q = 1..Len(q)
    BY <2>1, <2>2
  <2>4. r[Len(q)] = q[1] /\ \A i \in 1..(Len(q) - 1) : r[i] = q[i + 1]
    BY <2>1, <2>2, <2>3
  <2>5. \A i \in DOMAIN r : \E j \in DOMAIN q : r[i] = q[j]
    <3> SUFFICES ASSUME NEW i \in DOMAIN r PROVE \E j \in DOMAIN q : r[i] = q[j]
      OBVIOUS
    <3>1. CASE i = Len(q)
      BY <3>1, <2>1, <2>4
    <3>2. CASE i # Len(q)
      <4>1. i \in 1..(Len(q) - 1) /\ i + 1 \in DOMAIN q
        BY <3>2, <2>1, <2>3
      <4> QED BY <4>1, <2>4
    <3> QED BY <3>1, <3>2
  <2>6. \A j \in DOMAIN q : \E i \in DOMAIN r : r[i] = q[j]
    <3> SUFFICES ASSUME NEW j \in DOMAIN q PROVE \E i \in DOMAIN r : r[i] = q[j]
      OBVIOUS
    <3>1. CASE j = 1
      BY <3>1, <2>1, <2>3, <2>4
    <3>2. CASE j # 1
      <4>1. j - 1 \in 1..(Len(q) - 1) /\ j - 1 \in DOMAIN r /\ (j - 1) + 1 = j
        BY <3>2, <2>1, <2>3
      <4> QED BY <4>1, <2>4
    <3> QED BY <3>1, <3>2
  <2>7. ASSUME NEW i \in DOMAIN r, NEW j \in DOMAIN r, r[i] = r[j]  PROVE  i = j
    <3>1. CASE i = Len(q) /\ j = Len(q)
      BY <3>1
    <3>2. ASSUME i # Len(q), j # Len(q)  PROVE  i = j
      <4>1. i \in 1..(Len(q) - 1) /\ j \in 1..(Len(q) - 1) /\ i + 1 \in DOMAIN q /\ j + 1 \in DOMAIN q
        BY <3>2, <2>1, <2>3
      <4>2. q[i + 1] = q[j + 1]
        BY <4>1, <2>4, <2>7
      <4> QED BY <4>1, <4>2
    <3>3. ASSUME i = Len(q), j # Len(q)  PROVE  FALSE
      <4>1. j \in 1..(Len(q) - 1) /\ j + 1 \in DOMAIN q /\ j + 1 # 1
        BY <3>3, <2>1, <2>3
      <4> QED BY <4>1, <3>3, <2>1, <2>4, <2>7
    <3>4. ASSUME j = Len(q), i # Len(q)  PROVE  FALSE
      <4>1. i \in 1..(Len(q) - 1) /\ i + 1 \in DOMAIN q /\ i + 1 # 1
        BY <3>4, <2>1, <2>3
      <4> QED BY <4>1, <3>4, <2>1, <2>4, <2>7
    <3> QED BY <3>1, <3>2, <3>3, <3>4
  <2>8. Rotated(q) = r
    BY <1>2 DEF r, t
  <2> QED
    BY <2>2, <2>3, <2>5, <2>6, <2>7, <2>8
<1> QED
  BY <1>1, <1>2 DEF Rotated

LEMMA PortTickKeeps ==
  ASSUME NEW q, NEW at, BuffersHold(at, q, OutCap, "out"), PortTick(q)
  PROVE  /\ BuffersHold(at, out', OutCap, "out")
         /\ \A v \in Vcs : \A i \in DOMAIN out'[v] : \E j \in DOMAIN q[v] : out'[v][i] = q[v][j]
<1>1. CASE out' = q
  BY <1>1
<1>2. CASE out' = [v \in Vcs |-> Rotated(q[v])]
  <2> DEFINE R(v) == /\ Rotated(q[v]) \in Seq(Pkts) /\ Len(Rotated(q[v])) = Len(q[v])
                     /\ \A i \in DOMAIN Rotated(q[v]) : \E j \in DOMAIN q[v] : Rotated(q[v])[i] = q[v][j]
                     /\ \A j \in DOMAIN q[v] : \E i \in DOMAIN Rotated(q[v]) : Rotated(q[v])[i] = q[v][j]
                     /\ \A i, j \in DOMAIN Rotated(q[v]) : Rotated(q[v])[i] = Rotated(q[v])[j] => i = j
  <2>1. \A v \in Vcs : R(v)
    BY RotatedIs DEF BuffersHold
  <2>2. \A v \in Vcs : out'[v] = Rotated(q[v])
    BY <1>2
  <2>3. out' \in [Vcs -> Seq(Pkts)]
    BY <1>2, <2>1
  <2>4. PICK o : o = out'
    OBVIOUS
  <2>5. \A v \in Vcs : o[v] = Rotated(q[v])
    BY <2>2, <2>4
  <2>6. ASSUME NEW v \in Vcs
        PROVE  /\ Len(o[v]) = Len(q[v])
               /\ \A i \in DOMAIN o[v] : \E j \in DOMAIN q[v] : o[v][i] = q[v][j]
               /\ \A j \in DOMAIN q[v] : \E i \in DOMAIN o[v] : o[v][i] = q[v][j]
               /\ \A i, j \in DOMAIN o[v] : o[v][i] = o[v][j] => i = j
    <3>1. R(v) /\ o[v] = Rotated(q[v])
      BY <2>1, <2>5
    <3> QED BY <3>1
  <2>7. o \in [Vcs -> Seq(Pkts)]
    BY <2>3, <2>4
  <2>8. \A p \in Pkts : Channel[p] \in Vcs
    BY DEF Vcs
  <2> HIDE DEF R
  <2>9. \A v \in Vcs : Len(o[v]) <= OutCap
    BY <2>6 DEF BuffersHold
  <2>10. \A v \in Vcs : \A i \in DOMAIN o[v] : at[o[v][i]] = "out" /\ Channel[o[v][i]] = v
    BY <2>6 DEF BuffersHold
  <2>11. \A p \in Pkts : at[p] = "out" => \E i \in DOMAIN o[Channel[p]] : o[Channel[p]][i] = p
    <3> SUFFICES ASSUME NEW p \in Pkts, at[p] = "out"
                 PROVE  \E i \in DOMAIN o[Channel[p]] : o[Channel[p]][i] = p
      OBVIOUS
    <3>1. PICK j \in DOMAIN q[Channel[p]] : q[Channel[p]][j] = p
      BY DEF BuffersHold
    <3> QED BY <3>1, <2>6, <2>8
  <2>12. BuffersHold(at, o, OutCap, "out")
    BY <2>6, <2>7, <2>9, <2>10, <2>11 DEF BuffersHold
  <2> QED
    BY <2>4, <2>6, <2>12
<1> QED
  BY <1>1, <1>2 DEF PortTick

LEMMA BufferLoses ==
  ASSUME NEW at, NEW buf, NEW cap, NEW where, NEW to, BuffersHold(at, buf, cap, where), cap \in Nat,
         NEW v \in Vcs, buf[v] # << >>, to # where, at \in [Pkts -> Places]
  PROVE  BuffersHold([at EXCEPT ![Head(buf[v])] = to], [buf EXCEPT ![v] = Tail(buf[v])], cap, where)
<1> DEFINE p == Head(buf[v])
           q == Tail(buf[v])
           after == [buf EXCEPT ![v] = q]
           now == [at EXCEPT ![p] = to]
<1>1. /\ buf[v] \in Seq(Pkts) /\ p \in Pkts /\ p = buf[v][1] /\ 1 \in DOMAIN buf[v]
      /\ q \in Seq(Pkts) /\ Len(q) = Len(buf[v]) - 1 /\ Len(q) \in Nat
      /\ \A i \in DOMAIN q : q[i] = buf[v][i + 1] /\ i + 1 \in DOMAIN buf[v] /\ i + 1 # 1 /\ i \in Nat
      /\ \A i \in DOMAIN buf[v] : i # 1 => i - 1 \in DOMAIN q /\ q[i - 1] = buf[v][i]
  BY DEF BuffersHold
<1>2. after[v] = q /\ \A w \in Vcs \ {v} : after[w] = buf[w]
  BY <1>1 DEF BuffersHold
<1>3. now[p] = to /\ \A x \in Pkts \ {p} : now[x] = at[x]
  BY <1>1
<1>4. after \in [Vcs -> Seq(Pkts)]
  BY <1>1 DEF BuffersHold
<1>5. Channel[p] = v
  BY <1>1 DEF BuffersHold
<1>6. \A w \in Vcs : \A i \in DOMAIN buf[w] : buf[w][i] \in Pkts
  BY DEF BuffersHold
<1> HIDE DEF after, now, q, p
<1>7. ASSUME NEW w \in Vcs PROVE Len(after[w]) <= cap
  <2>1. Len(buf[w]) <= cap /\ Len(buf[w]) \in Nat
    BY DEF BuffersHold
  <2> QED
    BY <2>1, <1>1, <1>2
<1>8. ASSUME NEW w \in Vcs, NEW i \in DOMAIN after[w]
      PROVE  now[after[w][i]] = where /\ Channel[after[w][i]] = w
  <2>1. CASE w = v
    <3>1. after[w][i] = buf[v][i + 1] /\ i + 1 \in DOMAIN buf[v] /\ i + 1 # 1
      BY <2>1, <1>1, <1>2
    <3>2. buf[v][i + 1] # p
      BY <3>1, <1>1 DEF BuffersHold
    <3> QED BY <2>1, <3>1, <3>2, <1>3, <1>6 DEF BuffersHold
  <2>2. CASE w # v
    <3>1. after[w] = buf[w]
      BY <2>2, <1>2
    <3>2. Channel[buf[w][i]] = w /\ at[buf[w][i]] = where
      BY <3>1 DEF BuffersHold
    <3>3. buf[w][i] # p
      BY <3>2, <2>2, <1>5
    <3>4. buf[w][i] \in Pkts
      BY <3>1, <1>6
    <3> QED BY <3>1, <3>2, <3>3, <3>4, <1>3
  <2> QED BY <2>1, <2>2
<1>9. ASSUME NEW w \in Vcs, NEW i \in DOMAIN after[w], NEW j \in DOMAIN after[w],
             after[w][i] = after[w][j]
      PROVE  i = j
  <2>1. CASE w = v
    <3>1. buf[v][i + 1] = buf[v][j + 1] /\ i + 1 \in DOMAIN buf[v] /\ j + 1 \in DOMAIN buf[v]
          /\ i \in Nat /\ j \in Nat
      BY <2>1, <1>1, <1>2, <1>9
    <3>2. i + 1 = j + 1
      BY <3>1 DEF BuffersHold
    <3> QED BY <3>1, <3>2
  <2>2. CASE w # v
    BY <2>2, <1>2, <1>9 DEF BuffersHold
  <2> QED BY <2>1, <2>2
<1>10. ASSUME NEW x \in Pkts, now[x] = where
       PROVE  \E i \in DOMAIN after[Channel[x]] : after[Channel[x]][i] = x
  <2>1. x # p /\ at[x] = where /\ Channel[x] \in Vcs
    BY <1>3, <1>10 DEF Vcs
  <2>2. PICK i \in DOMAIN buf[Channel[x]] : buf[Channel[x]][i] = x
    BY <2>1 DEF BuffersHold
  <2>3. CASE Channel[x] = v
    <3>1. i \in DOMAIN buf[v] /\ buf[v][i] = x /\ i # 1
      BY <2>1, <2>2, <2>3, <1>1
    <3>2. i - 1 \in DOMAIN q /\ q[i - 1] = x
      BY <3>1, <1>1
    <3> QED BY <3>2, <2>3, <1>2
  <2>4. CASE Channel[x] # v
    BY <2>1, <2>2, <2>4, <1>2
  <2> QED BY <2>3, <2>4
<1>11. BuffersHold(now, after, cap, where)
  BY <1>4, <1>7, <1>8, <1>9, <1>10 DEF BuffersHold
<1> QED
  BY <1>11 DEF now, after, q, p

(* The pool counts the packets it has not back.                            *)
LEMMA PoolCounts ==
  ASSUME KernelAssumption, NEW S \in SUBSET Pkts
  PROVE  /\ \A p \in Pkts \ S : Cardinality(S \cup {p}) = Cardinality(S) + 1
         /\ \A T \in SUBSET S : Cardinality(S \ T) = Cardinality(S) - Cardinality(T)
<1>1. IsFiniteSet(S)
  BY FS_Subset DEF KernelAssumption
<1>2. ASSUME NEW p \in Pkts \ S  PROVE  Cardinality(S \cup {p}) = Cardinality(S) + 1
  BY <1>1, <1>2, FS_AddElement
<1>3. ASSUME NEW T \in SUBSET S  PROVE  Cardinality(S \ T) = Cardinality(S) - Cardinality(T)
  <2>1. S \cap T = T /\ IsFiniteSet(T)
    BY <1>1, FS_Subset
  <2>2. Cardinality(S \ T) = Cardinality(S) - Cardinality(S \cap T)
    BY <1>1, FS_Difference
  <2> QED BY <2>1, <2>2
<1> QED BY <1>2, <1>3

LEMMA ClockKeeps ==
  ASSUME KernelInv, NEW o \in Objs, InitiateTick(o) \/ Fire(o)
  PROVE  ClockHolds'
<1>1. CASE InitiateTick(o)
  <2>1. \A x \in Objs : due'[x] = IF x = o THEN cycle + 1 ELSE due[x]
    BY <1>1 DEF InitiateTick, KernelInv, ClockHolds
  <2>2. due' \in [Objs -> Nat] /\ cycle' = cycle /\ end' = end
    BY <1>1 DEF InitiateTick, KernelInv, ClockHolds
  <2> QED
    BY <2>1, <2>2 DEF KernelInv, ClockHolds, InStep, Started
<1>2. CASE Fire(o)
  <2>1. \A x \in Objs : due'[x] = IF x = o THEN due[x] + 1 ELSE due[x]
    BY <1>2 DEF Fire, KernelInv, ClockHolds
  <2>2. due' \in [Objs -> Nat] /\ cycle' = due[o] /\ end' = end /\ due[o] < end /\ due[o] > 0
        /\ \A x \in Started : due[o] <= due[x]
    BY <1>2 DEF Fire, KernelInv, ClockHolds, Started
  <2>3. \A x \in Objs : due[x] \in Nat /\ (due[x] > 0 => due[x] \in {cycle, cycle + 1} /\ due[o] <= due[x])
    BY <2>2 DEF KernelInv, ClockHolds, InStep, Started
  <2>4. ASSUME NEW x \in Objs, due'[x] > 0  PROVE  due'[x] \in {cycle', cycle' + 1}
    BY <2>1, <2>2, <2>3, <2>4 DEF KernelInv, ClockHolds
  <2> QED
    BY <2>2, <2>4 DEF KernelInv, ClockHolds, InStep, Started
<1> QED BY <1>1, <1>2

LEMMA RunKeeps ==
  ASSUME KernelInv, (\E n \in 1..2 : Run(n)) \/ EndRun
  PROVE  KernelInv'
<1>1. PlacesHold' /\ OrderHolds'
  <2>1. place' = place /\ earlier' = earlier /\ out' = out /\ inp' = inp /\ usage' = usage
    BY DEF Run, EndRun
  <2>2. Pooled' = Pooled
    BY <2>1 DEF Pooled
  <2> QED BY <2>1, <2>2 DEF KernelInv, PlacesHold, OrderHolds, BuffersHold
<1>2. ASSUME NEW n \in 1..2, Run(n)  PROVE ClockHolds'
  BY <1>2 DEF Run, KernelInv, ClockHolds, InStep, Started
<1>3. CASE EndRun
  <2>1. cycle' = end /\ end' = 0 /\ due' = due /\ \A x \in Started : due[x] >= end
    BY <1>3 DEF EndRun
  <2>2. cycle < end /\ end \in Nat /\ cycle \in Nat
    BY <1>3 DEF EndRun, KernelInv, ClockHolds
  <2>3. ASSUME NEW x \in Objs, due[x] > 0  PROVE  due[x] = end
    BY <2>1, <2>2, <2>3 DEF KernelInv, ClockHolds, InStep, Started
  <2>4. InStep'
    <3> SUFFICES ASSUME NEW x \in Objs, due[x] > 0  PROVE  due[x] = end
      <4>1. cycle' = end /\ Started' = {x \in Objs : due[x] > 0}
        BY <2>1 DEF Started
      <4>2. \A x \in Started' : due'[x] \in {cycle', cycle' + 1}
        BY <4>1, <2>1
      <4> QED BY <4>2 DEF InStep
    <3> QED BY <2>3
  <2> QED
    BY <2>1, <2>2, <2>4, <1>1 DEF KernelInv, ClockHolds
<1> QED
  BY <1>1, <1>2, <1>3 DEF KernelInv

LEMMA SendKeeps ==
  ASSUME KernelAssumption, KernelInv, NEW p \in Pkts, Send(p)
  PROVE  PlacesHold' /\ OrderHolds'
<1> DEFINE v == Channel[p]
           r == SendReq(p)
           mid == [out EXCEPT ![v] = r.out]
<1> USE DEF KernelAssumption
<1>1. /\ place[p] \in {"free", "held"}
      /\ place' = [place EXCEPT ![p] = r.to]
      /\ earlier' = IF r.to = "held" THEN earlier ELSE earlier \cup (Sent \X {p})
      /\ PortTick(mid)
      /\ inp' = [inp EXCEPT ![v] = r.inp]
      /\ usage' = IF place[p] = "free" THEN usage + 1 ELSE usage
  BY DEF Send, Acquire
<1>2. v \in Vcs
  BY DEF Vcs
<1>3. PlacesHold /\ OrderHolds /\ place \in [Pkts -> Places]
      /\ out \in [Vcs -> Seq(Pkts)] /\ inp \in [Vcs -> Seq(Pkts)]
  <2>1. PlacesHold /\ OrderHolds
    BY DEF KernelInv
  <2>2. place \in [Pkts -> Places]
    BY <2>1 DEF PlacesHold
  <2> QED BY <2>1, <2>2 DEF PlacesHold, BuffersHold
<1>4. \/ /\ out[v] = << >> /\ Len(inp[v]) < InCap
         /\ r = [to |-> "in", out |-> out[v], inp |-> Append(inp[v], p)]
      \/ /\ Len(out[v]) < OutCap
         /\ r = [to |-> "out", out |-> Append(out[v], p), inp |-> inp[v]]
      \/ r = [to |-> "held", out |-> out[v], inp |-> inp[v]]
  BY DEF SendReq, RoomIn
<1> HIDE DEF r
<1>5. BuffersHold(place', mid, OutCap, "out") /\ BuffersHold(place', inp', InCap, "in")
  <2>1. CASE r = [to |-> "in", out |-> out[v], inp |-> Append(inp[v], p)] /\ Len(inp[v]) < InCap
    <3>1. mid = out /\ inp' = [inp EXCEPT ![v] = Append(inp[v], p)] /\ place' = [place EXCEPT ![p] = "in"]
      BY <1>1, <1>2, <1>3, <2>1
    <3>2. BuffersHold([place EXCEPT ![p] = "in"], inp', InCap, "in")
      <4>1. BuffersHold(place, inp, InCap, "in") /\ place[p] # "in" /\ Len(inp[Channel[p]]) < InCap
        BY <1>1, <1>3, <2>1 DEF PlacesHold
      <4>2. BuffersHold([place EXCEPT ![p] = "in"],
                        [inp EXCEPT ![Channel[p]] = Append(inp[Channel[p]], p)], InCap, "in")
        BY <4>1, <1>3, BufferGets
      <4> QED BY <4>2, <3>1
    <3>3. \A x \in Pkts : (place'[x] = "out" <=> place[x] = "out")
      BY <3>1, <1>1, <1>3
    <3>4. PICK a : a = place'
      OBVIOUS
    <3>5. BuffersHold(a, out, OutCap, "out")
      BY <3>3, <3>4, <1>3, BufferFrame DEF PlacesHold
    <3> QED
      BY <3>1, <3>2, <3>4, <3>5
  <2>2. CASE r = [to |-> "out", out |-> Append(out[v], p), inp |-> inp[v]] /\ Len(out[v]) < OutCap
    <3>1. mid = [out EXCEPT ![v] = Append(out[v], p)] /\ inp' = inp /\ place' = [place EXCEPT ![p] = "out"]
      BY <1>1, <1>2, <1>3, <2>2
    <3>2. BuffersHold([place EXCEPT ![p] = "out"], mid, OutCap, "out")
      BY <3>1, <1>1, <1>3, <2>2, BufferGets DEF PlacesHold
    <3>3. \A x \in Pkts : (place'[x] = "in" <=> place[x] = "in")
      BY <3>1, <1>1, <1>3
    <3>4. PICK a : a = place'
      OBVIOUS
    <3>5. BuffersHold(a, inp, InCap, "in")
      BY <3>3, <3>4, <1>3, BufferFrame DEF PlacesHold
    <3> QED
      BY <3>1, <3>2, <3>4, <3>5
  <2>3. CASE r = [to |-> "held", out |-> out[v], inp |-> inp[v]]
    <3>1. mid = out /\ inp' = inp /\ place' = [place EXCEPT ![p] = "held"]
      BY <1>1, <1>2, <1>3, <2>3
    <3>2. \A x \in Pkts : (place'[x] = "in" <=> place[x] = "in") /\ (place'[x] = "out" <=> place[x] = "out")
      BY <3>1, <1>1, <1>3
    <3>3. PICK a : a = place'
      OBVIOUS
    <3>4. BuffersHold(a, inp, InCap, "in") /\ BuffersHold(a, out, OutCap, "out")
      BY <3>2, <3>3, <1>3, BufferFrame DEF PlacesHold
    <3> QED
      BY <3>1, <3>3, <3>4
  <2> QED BY <1>4, <2>1, <2>2, <2>3
<1>6. r.to \in {"in", "out", "held"}
  BY <1>4
<1>7. usage' = Cardinality(Pkts \ Pooled')
  <2>1. Pkts \ Pooled' = (Pkts \ Pooled) \cup {p}
    BY <1>1, <1>3, <1>6 DEF Pooled
  <2>2. CASE place[p] = "free"
    <3>1. p \notin Pkts \ Pooled
      BY <2>2 DEF Pooled
    <3>2. Cardinality((Pkts \ Pooled) \cup {p}) = Cardinality(Pkts \ Pooled) + 1
      BY <3>1, PoolCounts
    <3> QED BY <2>1, <2>2, <3>2, <1>1, <1>3 DEF PlacesHold
  <2>3. CASE place[p] # "free"
    <3>1. (Pkts \ Pooled) \cup {p} = Pkts \ Pooled
      BY <2>3 DEF Pooled
    <3> QED BY <2>1, <2>3, <3>1, <1>1, <1>3 DEF PlacesHold
  <2> QED BY <2>2, <2>3
<1>8. BuffersHold(place', out', OutCap, "out")
      /\ \A w \in Vcs : \A i \in DOMAIN out'[w] : \E j \in DOMAIN mid[w] : out'[w][i] = mid[w][j]
  <2>1. PICK m : m = mid
    OBVIOUS
  <2>2. PICK a : a = place'
    OBVIOUS
  <2>3. BuffersHold(a, m, OutCap, "out") /\ PortTick(m)
    BY <2>1, <2>2, <1>1, <1>5
  <2>4. /\ BuffersHold(a, out', OutCap, "out")
        /\ \A w \in Vcs : \A i \in DOMAIN out'[w] : \E j \in DOMAIN m[w] : out'[w][i] = m[w][j]
    BY <2>3, PortTickKeeps
  <2> QED BY <2>1, <2>2, <2>4
<1>9. PlacesHold'
  <2>1. place' \in [Pkts -> Places]
    BY <1>1, <1>3, <1>6 DEF Places
  <2> QED BY <2>1, <1>5, <1>7, <1>8 DEF PlacesHold, BuffersHold
<1>10. OrderHolds'
  <2>1. earlier \subseteq earlier'
    BY <1>1
  <2>2. \A w \in Vcs : \A i \in DOMAIN inp[w] : inp[w][i] \in Sent
    BY <1>3 DEF PlacesHold, BuffersHold, Sent
  <2>3. ASSUME NEW w \in Vcs, w # v  PROVE mid[w] = out[w] /\ inp'[w] = inp[w]
    BY <2>3, <1>1, <1>2, <1>3
  <2>4. mid[v] = r.out /\ inp'[v] = r.inp
    BY <1>1, <1>2, <1>3
  <2>5. ASSUME NEW w \in Vcs
        PROVE  /\ \A i \in DOMAIN inp'[w], j \in DOMAIN mid[w] : <<inp'[w][i], mid[w][j]>> \in earlier'
               /\ \A i, j \in DOMAIN inp'[w] : i < j => <<inp'[w][i], inp'[w][j]>> \in earlier'
    <3>1. CASE w # v
      BY <3>1, <2>1, <2>3, <1>3 DEF OrderHolds
    <3>2. CASE w = v /\ r = [to |-> "held", out |-> out[v], inp |-> inp[v]]
      BY <3>2, <2>1, <2>4, <1>2, <1>3 DEF OrderHolds
    <3>3. CASE w = v /\ r = [to |-> "out", out |-> Append(out[v], p), inp |-> inp[v]]
      <4>1. \A i \in DOMAIN inp[v] : <<inp[v][i], p>> \in earlier'
        BY <3>3, <2>2, <1>1, <1>2
      <4>2. inp'[v] = inp[v] /\ mid[v] = Append(out[v], p) /\ out[v] \in Seq(Pkts)
        BY <3>3, <2>4, <1>2, <1>3
      <4>3. \A j \in DOMAIN mid[v] : mid[v][j] = p \/ (j \in DOMAIN out[v] /\ mid[v][j] = out[v][j])
        BY <4>2
      <4>4. \A i \in DOMAIN inp[v], j \in DOMAIN out[v] : <<inp[v][i], out[v][j]>> \in earlier'
        BY <2>1, <1>2, <1>3 DEF OrderHolds
      <4>5. \A i, j \in DOMAIN inp[v] : i < j => <<inp[v][i], inp[v][j]>> \in earlier'
        BY <2>1, <1>2, <1>3 DEF OrderHolds
      <4> HIDE DEF mid, v
      <4> QED BY <3>3, <4>1, <4>2, <4>3, <4>4, <4>5
    <3>4. CASE w = v /\ out[v] = << >> /\ r = [to |-> "in", out |-> out[v], inp |-> Append(inp[v], p)]
      <4>1. \A i \in DOMAIN inp[v] : <<inp[v][i], p>> \in earlier'
        BY <3>4, <2>2, <1>1, <1>2
      <4>2. inp'[v] = Append(inp[v], p) /\ mid[v] = << >> /\ inp[v] \in Seq(Pkts)
        BY <3>4, <2>4, <1>2, <1>3
      <4>3. DOMAIN mid[v] = {}
        BY <4>2
      <4>4. \A i \in DOMAIN inp'[v] : (i = Len(inp[v]) + 1 /\ inp'[v][i] = p)
                                       \/ (i \in DOMAIN inp[v] /\ i <= Len(inp[v]) /\ inp'[v][i] = inp[v][i])
        BY <4>2
      <4>5. \A i, j \in DOMAIN inp[v] : i < j => <<inp[v][i], inp[v][j]>> \in earlier'
        BY <2>1, <1>2, <1>3 DEF OrderHolds
      <4>6. Len(inp[v]) \in Nat
        BY <4>2
      <4> HIDE DEF mid, v
      <4>7. ASSUME NEW i \in DOMAIN inp'[v], NEW j \in DOMAIN inp'[v], i < j
            PROVE  <<inp'[v][i], inp'[v][j]>> \in earlier'
        <5>1. i \in DOMAIN inp[v] /\ inp'[v][i] = inp[v][i]
          <6>1. ASSUME i = Len(inp[v]) + 1  PROVE FALSE
            BY <6>1, <4>7, <4>4, <4>6
          <6> QED BY <6>1, <4>4
        <5> QED BY <5>1, <4>1, <4>4, <4>5, <4>7
      <4> QED BY <3>4, <4>3, <4>7
    <3> QED
      BY <3>1, <3>2, <3>3, <3>4, <1>4
  <2> HIDE DEF mid
  <2> QED
    BY <2>5, <1>8 DEF OrderHolds
<1> QED
  BY <1>9, <1>10

(* The sender's other ticks: a packet given back, or nothing sent.         *)
LEMMA QuietKeeps ==
  ASSUME KernelAssumption, KernelInv, SendNothing \/ \E p \in Pkts : GiveBack(p)
  PROVE  PlacesHold' /\ OrderHolds'
<1>1. PlacesHold /\ OrderHolds /\ PortTick(out) /\ earlier' = earlier /\ inp' = inp
  BY DEF KernelInv, SendNothing, GiveBack
<1>2. /\ place' \in [Pkts -> Places] /\ usage' = Cardinality(Pkts \ Pooled')
      /\ \A x \in Pkts : (place'[x] = "in" <=> place[x] = "in") /\ (place'[x] = "out" <=> place[x] = "out")
  <2>1. CASE SendNothing
    <3>1. place' = place /\ usage' = usage /\ Pooled' = Pooled
      BY <2>1 DEF SendNothing, Pooled
    <3> QED BY <3>1, <1>1 DEF PlacesHold
  <2>2. ASSUME NEW p \in Pkts, GiveBack(p)
        PROVE  /\ place' \in [Pkts -> Places] /\ usage' = Cardinality(Pkts \ Pooled')
               /\ \A x \in Pkts : (place'[x] = "in" <=> place[x] = "in") /\ (place'[x] = "out" <=> place[x] = "out")
    <3>1. place[p] = "held" /\ place' = [place EXCEPT ![p] = "free"] /\ usage' = usage - Cardinality({p})
      BY <2>2 DEF GiveBack, Releasing
    <3>2. place \in [Pkts -> Places]
      BY <1>1 DEF PlacesHold
    <3>3. Pkts \ Pooled' = (Pkts \ Pooled) \ {p} /\ {p} \in SUBSET (Pkts \ Pooled)
      BY <3>1, <3>2 DEF Pooled
    <3>4. Cardinality((Pkts \ Pooled) \ {p}) = Cardinality(Pkts \ Pooled) - Cardinality({p})
      BY <3>3, PoolCounts
    <3>5. place' \in [Pkts -> Places]
      BY <3>1, <3>2 DEF Places
    <3> QED BY <3>1, <3>2, <3>3, <3>4, <3>5, <1>1 DEF PlacesHold
  <2> QED BY <2>1, <2>2
<1>3. PICK a : a = place'
  OBVIOUS
<1>4. BuffersHold(a, inp, InCap, "in") /\ BuffersHold(a, out, OutCap, "out")
  BY <1>1, <1>2, <1>3, BufferFrame DEF PlacesHold
<1>5. /\ BuffersHold(a, out', OutCap, "out")
      /\ \A v \in Vcs : \A i \in DOMAIN out'[v] : \E j \in DOMAIN out[v] : out'[v][i] = out[v][j]
  BY <1>1, <1>4, PortTickKeeps
<1>6. PlacesHold'
  BY <1>1, <1>2, <1>3, <1>4, <1>5 DEF PlacesHold, BuffersHold
<1>7. OrderHolds'
  BY <1>1, <1>5 DEF OrderHolds
<1> QED BY <1>6, <1>7

LEMMA TakeKeeps ==
  ASSUME KernelAssumption, KernelInv, NEW v \in Vcs, Take(v)
  PROVE  PlacesHold' /\ OrderHolds'
<1> DEFINE p == Head(inp[v])
<1> USE DEF KernelAssumption
<1>1. /\ inp[v] # << >> /\ place' = [place EXCEPT ![p] = Handle(p)]
      /\ earlier' = IF Handle(p) = "free" THEN Among(Sent \ {p}) ELSE earlier
      /\ usage' = usage - Cardinality({p} \cap {q \in Pkts : Handle(q) = "free"})
      /\ inp' = [inp EXCEPT ![v] = Tail(inp[v])] /\ out' = out
  BY DEF Take, Releasing
<1>2. PlacesHold /\ OrderHolds /\ place \in [Pkts -> Places]
      /\ out \in [Vcs -> Seq(Pkts)] /\ inp \in [Vcs -> Seq(Pkts)]
  <2>1. PlacesHold /\ OrderHolds
    BY DEF KernelInv
  <2> QED BY <2>1 DEF PlacesHold, BuffersHold
<1>3. inp[v] \in Seq(Pkts) /\ p = inp[v][1] /\ 1 \in DOMAIN inp[v] /\ p \in Pkts /\ place[p] = "in"
  <2>1. inp[v] \in Seq(Pkts) /\ p = inp[v][1] /\ 1 \in DOMAIN inp[v] /\ p \in Pkts
    BY <1>1, <1>2
  <2> HIDE DEF p
  <2> QED BY <2>1, <1>2 DEF PlacesHold, BuffersHold
<1>4. PICK to : to = Handle(p)
  OBVIOUS
<1>5. to \in {"free", "lost", "kept"}
  BY <1>4 DEF Handle
<1>6. BuffersHold([place EXCEPT ![p] = to], [inp EXCEPT ![v] = Tail(inp[v])], InCap, "in")
  <2>1. BuffersHold(place, inp, InCap, "in") /\ to # "in"
    BY <1>2, <1>5 DEF PlacesHold
  <2> QED BY <2>1, <1>1, <1>2, BufferLoses
<1>7. BuffersHold([place EXCEPT ![p] = to], out, OutCap, "out")
  <2>1. \A x \in Pkts : [place EXCEPT ![p] = to][x] = "out" <=> place[x] = "out"
    BY <1>2, <1>3, <1>5
  <2> QED BY <2>1, <1>2, BufferFrame DEF PlacesHold
<1> HIDE DEF p
<1>8. usage' = Cardinality(Pkts \ Pooled')
  <2>1. CASE to = "free"
    <3>1. {p} \cap {q \in Pkts : Handle(q) = "free"} = {p}
      BY <2>1, <1>3, <1>4
    <3>2. Pkts \ Pooled' = (Pkts \ Pooled) \ {p} /\ {p} \in SUBSET (Pkts \ Pooled)
      BY <1>1, <1>2, <1>3, <1>4, <2>1 DEF Pooled
    <3>3. Cardinality((Pkts \ Pooled) \ {p}) = Cardinality(Pkts \ Pooled) - Cardinality({p})
      BY <3>2, PoolCounts
    <3> QED BY <3>1, <3>2, <3>3, <1>1, <1>2 DEF PlacesHold
  <2>2. CASE to # "free"
    <3>1. {p} \cap {q \in Pkts : Handle(q) = "free"} = {}
      BY <2>2, <1>4
    <3>2. Pooled' = Pooled
      BY <1>1, <1>2, <1>3, <1>4, <2>2 DEF Pooled
    <3>3. usage \in Int
      BY <1>2, FS_CardinalityType, FS_Subset DEF PlacesHold
    <3>4. usage' = usage
      <4>1. Cardinality({p} \cap {q \in Pkts : Handle(q) = "free"}) = 0
        BY <3>1, FS_EmptySet
      <4> QED BY <4>1, <3>3, <1>1
    <3>5. usage = Cardinality(Pkts \ Pooled)
      BY <1>2 DEF PlacesHold
    <3> QED BY <3>2, <3>4, <3>5
  <2> QED BY <2>1, <2>2
<1>9. PlacesHold'
  <2>1. place' \in [Pkts -> Places]
    BY <1>1, <1>2, <1>4, <1>5 DEF Places
  <2>2. BuffersHold(place, inp, InCap, "in")' /\ BuffersHold(place, out, OutCap, "out")'
    BY <1>1, <1>4, <1>6, <1>7 DEF BuffersHold
  <2> QED BY <2>1, <2>2, <1>8 DEF PlacesHold
<1>10. OrderHolds'
  <2>1. \A w \in Vcs : \A i \in DOMAIN inp'[w] :
          inp'[w][i] \in Sent /\ inp'[w][i] # p
          /\ \E j \in DOMAIN inp[w] : inp'[w][i] = inp[w][j]
    <3> SUFFICES ASSUME NEW w \in Vcs, NEW i \in DOMAIN inp'[w]
                 PROVE  /\ inp'[w][i] \in Sent /\ inp'[w][i] # p
                        /\ \E j \in DOMAIN inp[w] : inp'[w][i] = inp[w][j]
      OBVIOUS
    <3>1. CASE w = v
      <4>1. inp'[v][i] = inp[v][i + 1] /\ i + 1 \in DOMAIN inp[v] /\ i + 1 # 1
        BY <3>1, <1>1, <1>2, <1>3
      <4>2. inp[v][i + 1] # p
        BY <4>1, <1>2, <1>3 DEF PlacesHold, BuffersHold
      <4>3. inp[v][i + 1] \in Sent
        BY <4>1, <1>2 DEF PlacesHold, BuffersHold, Sent
      <4> QED BY <4>1, <4>2, <4>3, <3>1
    <3>2. CASE w # v
      <4>1. inp'[w] = inp[w]
        BY <3>2, <1>1, <1>2
      <4>2. Channel[inp[w][i]] = w /\ place[inp[w][i]] = "in" /\ inp[w][i] \in Pkts
        BY <4>1, <1>2 DEF PlacesHold, BuffersHold
      <4>3. Channel[p] = v
        BY <1>2, <1>3 DEF PlacesHold, BuffersHold
      <4> QED BY <4>1, <4>2, <4>3, <3>2 DEF Sent
    <3> QED BY <3>1, <3>2
  <2>2. \A w \in Vcs : \A j \in DOMAIN out[w] : out[w][j] \in Sent /\ out[w][j] # p
    BY <1>2, <1>3 DEF PlacesHold, BuffersHold, Sent
  <2>3. \A x \in Sent \ {p}, y \in Sent \ {p} : <<x, y>> \in earlier => <<x, y>> \in earlier'
    BY <1>1 DEF Among
  <2>4. ASSUME NEW w \in Vcs, NEW i \in DOMAIN inp'[w], NEW j \in DOMAIN inp'[w], i < j
        PROVE  <<inp'[w][i], inp'[w][j]>> \in earlier
    <3>1. CASE w = v
      <4>1. inp'[v][i] = inp[v][i + 1] /\ i + 1 \in DOMAIN inp[v]
            /\ inp'[v][j] = inp[v][j + 1] /\ j + 1 \in DOMAIN inp[v] /\ i + 1 < j + 1
        BY <2>4, <3>1, <1>1, <1>2, <1>3
      <4> QED BY <4>1, <3>1, <1>2 DEF OrderHolds
    <3>2. CASE w # v
      <4>1. inp'[w] = inp[w]
        BY <3>2, <1>1, <1>2
      <4> QED BY <4>1, <2>4, <1>2 DEF OrderHolds
    <3> QED BY <3>1, <3>2
  <2>5. ASSUME NEW w \in Vcs, NEW i \in DOMAIN inp'[w], NEW j \in DOMAIN out[w]
        PROVE  <<inp'[w][i], out[w][j]>> \in earlier
    BY <2>1, <1>2 DEF OrderHolds
  <2>6. out' = out
    BY <1>1
  <2>7. ASSUME NEW w \in Vcs, NEW i \in DOMAIN inp'[w], NEW j \in DOMAIN inp'[w], i < j
        PROVE  <<inp'[w][i], inp'[w][j]>> \in earlier'
    BY <2>1, <2>3, <2>4, <2>7
  <2>8. ASSUME NEW w \in Vcs, NEW i \in DOMAIN inp'[w], NEW j \in DOMAIN out[w]
        PROVE  <<inp'[w][i], out[w][j]>> \in earlier'
    BY <2>1, <2>2, <2>3, <2>5
  <2> QED
    BY <2>6, <2>7, <2>8 DEF OrderHolds
<1> QED BY <1>9, <1>10

LEMMA ResetKeeps ==
  ASSUME KernelAssumption, KernelInv, Reset
  PROVE  PlacesHold' /\ OrderHolds'
<1> DEFINE kept == {p \in Pkts : place[p] = "kept"}
<1>1. /\ place' = [p \in Pkts |-> IF p \in kept THEN "free" ELSE place[p]]
      /\ earlier' = Among(Sent \ kept) /\ usage' = usage - Cardinality(kept)
      /\ out' = out /\ inp' = inp
  BY DEF Reset, Releasing
<1>2. PlacesHold /\ OrderHolds /\ place \in [Pkts -> Places]
  BY DEF KernelInv, PlacesHold
<1>3. usage' = Cardinality(Pkts \ Pooled')
  <2>1. Pkts \ Pooled' = (Pkts \ Pooled) \ kept /\ kept \in SUBSET (Pkts \ Pooled)
    BY <1>1, <1>2 DEF Pooled
  <2> HIDE DEF kept
  <2>2. Cardinality((Pkts \ Pooled) \ kept) = Cardinality(Pkts \ Pooled) - Cardinality(kept)
    BY <2>1, PoolCounts
  <2> QED BY <2>1, <2>2, <1>1, <1>2 DEF PlacesHold
<1>4. PICK a : a = place'
  OBVIOUS
<1>5. BuffersHold(a, inp, InCap, "in") /\ BuffersHold(a, out, OutCap, "out")
  <2>1. \A x \in Pkts : (a[x] = "in" <=> place[x] = "in") /\ (a[x] = "out" <=> place[x] = "out")
    BY <1>1, <1>2, <1>4
  <2> QED BY <2>1, <1>2, BufferFrame DEF PlacesHold
<1>6. PlacesHold'
  <2>1. place' \in [Pkts -> Places]
    BY <1>1, <1>2 DEF Places
  <2>2. place' = a /\ out' = out /\ inp' = inp
    BY <1>1, <1>4
  <2>3. BuffersHold(place, inp, InCap, "in")' /\ BuffersHold(place, out, OutCap, "out")'
    BY <2>2, <1>5 DEF BuffersHold
  <2> QED BY <2>1, <2>3, <1>3 DEF PlacesHold
<1>7. OrderHolds'
  <2>1. \A w \in Vcs : /\ \A i \in DOMAIN inp[w] : inp[w][i] \in Sent \ kept
                       /\ \A j \in DOMAIN out[w] : out[w][j] \in Sent \ kept
    BY <1>2 DEF PlacesHold, BuffersHold, Sent
  <2>2. \A x \in Sent \ kept, y \in Sent \ kept : <<x, y>> \in earlier => <<x, y>> \in earlier'
    BY <1>1 DEF Among
  <2> HIDE DEF kept
  <2> QED BY <2>1, <2>2, <1>1, <1>2 DEF OrderHolds
<1> QED BY <1>6, <1>7

LEMMA KernelInvHolds ==
  ASSUME KernelAssumption
  PROVE  KernelSpec => []KernelInv
<1>1. KernelInit => KernelInv
  BY KernelInitInv
<1>2. KernelInv /\ [KernelNext]_kernelVars => KernelInv'
  <2> SUFFICES ASSUME KernelInv, [KernelNext]_kernelVars PROVE KernelInv'
    OBVIOUS
  <2>1. CASE UNCHANGED kernelVars
    <3>1. /\ cycle' = cycle /\ end' = end /\ due' = due /\ place' = place /\ earlier' = earlier
          /\ out' = out /\ inp' = inp /\ usage' = usage
      BY <2>1 DEF kernelVars
    <3>2. Pooled' = Pooled /\ Started' = Started
      BY <3>1 DEF Pooled, Started
    <3> QED
      BY <3>1, <3>2 DEF KernelInv, ClockHolds, InStep, PlacesHold, OrderHolds, BuffersHold
  <2>2. ASSUME UNCHANGED <<place, earlier, out, inp, usage>>  PROVE PlacesHold' /\ OrderHolds'
    <3>1. place' = place /\ earlier' = earlier /\ out' = out /\ inp' = inp /\ usage' = usage
      BY <2>2
    <3>2. Pooled' = Pooled
      BY <3>1 DEF Pooled
    <3> QED
      BY <3>1, <3>2 DEF KernelInv, PlacesHold, OrderHolds, BuffersHold
  <2>3. ASSUME NEW o \in Objs, InitiateTick(o)  PROVE KernelInv'
    BY <2>2, <2>3, ClockKeeps DEF InitiateTick, KernelInv
  <2>4. ASSUME NEW o \in Objs, Fire(o)  PROVE KernelInv'
    <3>1. SenderTick \/ ReceiverTick
      BY <2>4 DEF Fire
    <3>2. PlacesHold' /\ OrderHolds'
      BY <3>1, <2>2, SendKeeps, QuietKeeps, TakeKeeps, ResetKeeps DEF SenderTick, ReceiverTick
    <3> QED BY <2>4, <3>2, ClockKeeps DEF KernelInv
  <2> QED
    BY <2>1, <2>3, <2>4, RunKeeps DEF KernelNext
<1> QED
  BY <1>1, <1>2, PTL DEF KernelSpec

(* For any packets, channels, fragments and capacities, and however the    *)
(* events of one time are ordered: no tick is late, every packet is in one *)
(* place and once and the pool counts those it gave out, and what arrives  *)
(* on a channel arrives in the order it was sent and before what waits.    *)
THEOREM KernelStaysSound ==
  ASSUME KernelAssumption
  PROVE  KernelSpec => []KernelSound
<1>1. KernelInv => KernelSound
  <2> SUFFICES ASSUME KernelInv PROVE KernelSound
    OBVIOUS
  <2>1. PlacesHold /\ OrderHolds /\ InStep
    BY DEF KernelInv, ClockHolds
  <2>2. \A p \in Pkts : Channel[p] \in Vcs
    BY DEF Vcs
  <2>3. \A v \in Vcs : \A i \in DOMAIN out[v] : out[v][i] \in Pkts
    BY <2>1 DEF PlacesHold, BuffersHold
  <2>4. \A v \in Vcs : \A i \in DOMAIN inp[v] : inp[v][i] \in Pkts
    BY <2>1 DEF PlacesHold, BuffersHold
  <2>5. UNION {ToSet(out[v]) : v \in Vcs} = {p \in Pkts : place[p] = "out"}
    BY <2>1, <2>2, <2>3 DEF PlacesHold, BuffersHold, ToSet
  <2>6. UNION {ToSet(inp[v]) : v \in Vcs} = {p \in Pkts : place[p] = "in"}
    BY <2>1, <2>2, <2>4 DEF PlacesHold, BuffersHold, ToSet
  <2>7. \A v \in Vcs : /\ IsInjective(out[v]) /\ Len(out[v]) <= OutCap
                       /\ IsInjective(inp[v]) /\ Len(inp[v]) <= InCap
    BY <2>1 DEF PlacesHold, BuffersHold, IsInjective
  <2>8. PacketsAccounted
    BY <2>1, <2>5, <2>6, <2>7 DEF PacketsAccounted, PlacesHold, Pooled
  <2>9. ChannelsInOrder
    BY <2>1 DEF ChannelsInOrder, OrderHolds, ToSet
  <2> QED
    BY <2>1, <2>8, <2>9 DEF KernelSound
<1> QED
  BY <1>1, KernelInvHolds, PTL

-----------------------------------------------------------------------------
(* MemPath: the requests from a generator to their answer.                 *)
(* What the proofs need of the constants.                                  *)
PathAssumption == HitLat \in Int /\ MissLat \in Int /\ WriteLat \in Int

RowsMade == {k[1] : k \in Kinds}
Reqs     == [gen : Gens, id : Nat, row : RowsMade, op : {k[2] : k \in Kinds}]
Slots    == Reqs \cup {NoReq}

Shape ==
  [issued : [Gens -> Nat], completed : [Gens -> Nat],
   gin : [Gens -> Slots], ain : [Gens -> Slots], queue : Seq(Reqs),
   owner : UNION {[S -> Gens] : S \in SUBSET Nat},
   rin : Slots, min : Slots, pend : SUBSET [req : Reqs, left : Int],
   row : RowsMade \cup {-1}, done : SUBSET (Gens \X Reqs),
   lost : SUBSET (Reqs \X {"overwritten", "unowned"}), clashed : SUBSET Nat]

(* The requests in each of the places where one can be.                    *)
Spots == {"gin0", "gin1", "ain0", "ain1", "queue", "rin", "min", "pend", "done", "lost"}

Entries(q) == {q[i] : i \in DOMAIN q}
Wanted(S)  == {y.req : y \in S}
Firsts(S)  == {l[1] : l \in S}
Seconds(S) == {d[2] : d \in S}

Resting(p) ==
  [s \in Spots |->
     CASE s = "gin0"  -> {p.gin[0]} \ {NoReq}
       [] s = "gin1"  -> {p.gin[1]} \ {NoReq}
       [] s = "ain0"  -> {p.ain[0]} \ {NoReq}
       [] s = "ain1"  -> {p.ain[1]} \ {NoReq}
       [] s = "queue" -> Entries(p.queue)
       [] s = "rin"   -> {p.rin} \ {NoReq}
       [] s = "min"   -> {p.min} \ {NoReq}
       [] s = "pend"  -> Wanted(p.pend)
       [] s = "done"  -> Seconds(p.done)
       [] s = "lost"  -> Firsts(p.lost)]

AllOf(C) == UNION {C[s] : s \in Spots}
NoOverlap(C) == \A s, t \in Spots : s # t => C[s] \cap C[t] = {}

(* No place holds a request twice.                                         *)
OnceIn(p) ==
  /\ \A i, j \in DOMAIN p.queue : p.queue[i] = p.queue[j] => i = j
  /\ \A y, z \in p.pend : y.req = z.req => y = z
  /\ \A c, d \in p.done : c[2] = d[2] => c = d
  /\ \A l, m \in p.lost : l[1] = m[1] => l = m

(* The numbers of a generator name its requests.                           *)
Numbered(S, issued) ==
  /\ \A x, y \in S : x.gen = y.gen /\ x.id = y.id => x = y
  /\ \A x \in S : x.id < issued[x.gen]
  /\ \A g \in Gens : \A i \in Nat : i < issued[g] => \E x \in S : x.gen = g /\ x.id = i

(* What is under way has its owner noted, or shared its number.            *)
OwnerNoted(p, x) ==
  (x.id \in DOMAIN p.owner /\ p.owner[x.id] = x.gen) \/ x.id \in p.clashed
Owned(p) ==
  /\ \A i \in DOMAIN p.queue : OwnerNoted(p, p.queue[i])
  /\ \A y \in p.pend : OwnerNoted(p, y.req)
  /\ p.rin # NoReq => OwnerNoted(p, p.rin)
  /\ p.min # NoReq => OwnerNoted(p, p.min)

Homed(p, k) ==
  /\ \A g \in Gens : p.ain[g] # NoReq => p.ain[g].gen = g
  /\ \A g \in Gens : p.gin[g] # NoReq => p.gin[g].gen = g \/ p.gin[g].id \in p.clashed
  /\ \A d \in p.done : d[1] = d[2].gen \/ d[2].id \in p.clashed
  /\ \A l \in p.lost : \/ l[2] = "overwritten" /\ k \in {"memory_timed", "vram_timed"}
                       \/ l[2] = "unowned" /\ l[1].id \in p.clashed

(* What every part of a cycle keeps.                                       *)
Sound(p, k) ==
  p \in Shape /\ NoOverlap(Resting(p)) /\ OnceIn(p) /\ Numbered(AllOf(Resting(p)), p.issued)
  /\ Owned(p) /\ Homed(p, k)

(* Between cycles the slots that every tick empties are empty.             *)
PathInv ==
  Sound(path, kind) /\ path.min = NoReq /\ path.ain = [g \in Gens |-> NoReq]

LEMMA NoReqIs == /\ NoReq \notin Reqs /\ \A x \in Slots : x # NoReq <=> x \in Reqs
  BY DEF NoReq, Reqs, Slots, Gens

(* A place whose register did not change holds what it held.               *)
LEMMA RestingSame ==
  ASSUME NEW p, NEW r
  PROVE  /\ r.gin[0] = p.gin[0] => Resting(r)["gin0"] = Resting(p)["gin0"]
         /\ r.gin[1] = p.gin[1] => Resting(r)["gin1"] = Resting(p)["gin1"]
         /\ r.ain[0] = p.ain[0] => Resting(r)["ain0"] = Resting(p)["ain0"]
         /\ r.ain[1] = p.ain[1] => Resting(r)["ain1"] = Resting(p)["ain1"]
         /\ r.queue = p.queue => Resting(r)["queue"] = Resting(p)["queue"]
         /\ r.rin = p.rin => Resting(r)["rin"] = Resting(p)["rin"]
         /\ r.min = p.min => Resting(r)["min"] = Resting(p)["min"]
         /\ r.pend = p.pend => Resting(r)["pend"] = Resting(p)["pend"]
         /\ r.done = p.done => Resting(r)["done"] = Resting(p)["done"]
         /\ r.lost = p.lost => Resting(r)["lost"] = Resting(p)["lost"]
<1>1. r.gin[0] = p.gin[0] => Resting(r)["gin0"] = Resting(p)["gin0"]
  BY DEF Resting, Spots
<1>2. r.gin[1] = p.gin[1] => Resting(r)["gin1"] = Resting(p)["gin1"]
  BY DEF Resting, Spots
<1>3. r.ain[0] = p.ain[0] => Resting(r)["ain0"] = Resting(p)["ain0"]
  BY DEF Resting, Spots
<1>4. r.ain[1] = p.ain[1] => Resting(r)["ain1"] = Resting(p)["ain1"]
  BY DEF Resting, Spots
<1>5. r.queue = p.queue => Resting(r)["queue"] = Resting(p)["queue"]
  BY DEF Resting, Spots
<1>6. r.rin = p.rin => Resting(r)["rin"] = Resting(p)["rin"]
  BY DEF Resting, Spots
<1>7. r.min = p.min => Resting(r)["min"] = Resting(p)["min"]
  BY DEF Resting, Spots
<1>8. r.pend = p.pend => Resting(r)["pend"] = Resting(p)["pend"]
  BY DEF Resting, Spots
<1>9. r.done = p.done => Resting(r)["done"] = Resting(p)["done"]
  BY DEF Resting, Spots
<1>10. r.lost = p.lost => Resting(r)["lost"] = Resting(p)["lost"]
  BY DEF Resting, Spots
<1> QED
  BY <1>1, <1>2, <1>3, <1>4, <1>5, <1>6, <1>7, <1>8, <1>9, <1>10

LEMMA SecondsOf ==
  ASSUME NEW S, NEW g, NEW x
  PROVE  Seconds(S \cup {<<g, x>>}) = Seconds(S) \cup {x}
<1>1. <<g, x>>[2] = x
  OBVIOUS
<1>2. PICK t : t = <<g, x>>
  OBVIOUS
<1>3. {d[2] : d \in S \cup {t}} = {d[2] : d \in S} \cup {x}
  BY <1>1, <1>2
<1> QED BY <1>2, <1>3 DEF Seconds

GinOf(g) == IF g = 0 THEN "gin0" ELSE "gin1"
AinOf(g) == IF g = 0 THEN "ain0" ELSE "ain1"

LEMMA SlotsOfGens ==
  ASSUME NEW p, NEW g \in Gens
  PROVE  /\ GinOf(g) \in Spots /\ AinOf(g) \in Spots /\ GinOf(g) # AinOf(g)
         /\ GinOf(g) \notin {"queue", "rin", "min", "pend", "done", "lost"}
         /\ AinOf(g) \notin {"queue", "rin", "min", "pend", "done", "lost"}
         /\ Resting(p)[GinOf(g)] = {p.gin[g]} \ {NoReq}
         /\ Resting(p)[AinOf(g)] = {p.ain[g]} \ {NoReq}
<1>1. CASE g = 0
  BY <1>1 DEF GinOf, AinOf, Resting, Spots
<1>2. CASE g = 1
  BY <1>2 DEF GinOf, AinOf, Resting, Spots
<1> QED BY <1>1, <1>2 DEF Gens

(* What did not change but for the slots of one generator.                 *)
GinApart(p, r, g) == \A s \in {"gin0", "gin1"} \ {GinOf(g)} : Resting(r)[s] = Resting(p)[s]
AinApart(p, r, g) == \A s \in {"ain0", "ain1"} \ {AinOf(g)} : Resting(r)[s] = Resting(p)[s]

LEMMA OtherGin ==
  ASSUME NEW p, NEW r, NEW g \in Gens, \A h \in Gens \ {g} : r.gin[h] = p.gin[h]
  PROVE  GinApart(p, r, g)
<1>1. CASE g = 0
  BY <1>1, RestingSame DEF GinApart, GinOf, Gens
<1>2. CASE g = 1
  BY <1>2, RestingSame DEF GinApart, GinOf, Gens
<1> QED BY <1>1, <1>2 DEF Gens

LEMMA OtherAin ==
  ASSUME NEW p, NEW r, NEW g \in Gens, \A h \in Gens \ {g} : r.ain[h] = p.ain[h]
  PROVE  AinApart(p, r, g)
<1>1. CASE g = 0
  BY <1>1, RestingSame DEF AinApart, AinOf, Gens
<1>2. CASE g = 1
  BY <1>2, RestingSame DEF AinApart, AinOf, Gens
<1> QED BY <1>1, <1>2 DEF Gens

(* What left place a is in place b, all else is where it was.              *)
MovesTo(p, r, a, b) ==
  /\ a \in Spots /\ b \in Spots /\ a # b
  /\ Resting(r)[a] \subseteq Resting(p)[a]
  /\ Resting(r)[b] = Resting(p)[b] \cup (Resting(p)[a] \ Resting(r)[a])
  /\ \A s \in Spots \ {a, b} : Resting(r)[s] = Resting(p)[s]

LEMMA MovedBetween ==
  ASSUME NEW p, NEW r, NEW a, NEW b, NoOverlap(Resting(p)), MovesTo(p, r, a, b)
  PROVE  NoOverlap(Resting(r)) /\ AllOf(Resting(r)) = AllOf(Resting(p))
<1>1. PICK C : C = Resting(p)
  OBVIOUS
<1>2. PICK D : D = Resting(r)
  OBVIOUS
<1>3. /\ NoOverlap(C) /\ D[a] \subseteq C[a] /\ D[b] = C[b] \cup (C[a] \ D[a])
      /\ \A s \in Spots \ {a, b} : D[s] = C[s]
      /\ a \in Spots /\ b \in Spots /\ a # b
  BY <1>1, <1>2 DEF MovesTo
<1>4. ASSUME NEW s \in Spots, NEW t \in Spots, s # t  PROVE  D[s] \cap D[t] = {}
  <2>1. \A u, w \in Spots : u # w => C[u] \cap C[w] = {}
    BY <1>3 DEF NoOverlap
  <2>2. /\ s # a /\ s # b => D[s] = C[s]
        /\ t # a /\ t # b => D[t] = C[t]
    BY <1>3
  <2> QED BY <1>3, <1>4, <2>1, <2>2
<1>5. \A x : (\E s \in Spots : x \in D[s]) <=> (\E s \in Spots : x \in C[s])
  <2>1. ASSUME NEW x, NEW s \in Spots, x \in D[s]  PROVE  \E t \in Spots : x \in C[t]
    <3>1. CASE x \in C[s]
      BY <3>1, <2>1
    <3>2. CASE x \in C[a]
      BY <3>2, <1>3
    <3> QED BY <3>1, <3>2, <2>1, <1>3
  <2>2. ASSUME NEW x, NEW s \in Spots, x \in C[s]  PROVE  \E t \in Spots : x \in D[t]
    <3>1. CASE x \in D[s]
      BY <3>1, <2>2
    <3>2. CASE x \in D[b]
      BY <3>2, <1>3
    <3> QED BY <3>1, <3>2, <2>2, <1>3
  <2> QED BY <2>1, <2>2
<1>6. NoOverlap(D) /\ AllOf(D) = AllOf(C)
  BY <1>4, <1>5 DEF NoOverlap, AllOf
<1> QED BY <1>1, <1>2, <1>6

(* A request that was nowhere is in place b.                               *)
AddsTo(p, r, b, x) ==
  /\ b \in Spots /\ x \notin AllOf(Resting(p))
  /\ Resting(r)[b] = Resting(p)[b] \cup {x}
  /\ \A s \in Spots \ {b} : Resting(r)[s] = Resting(p)[s]

LEMMA AddedTo ==
  ASSUME NEW p, NEW r, NEW b, NEW x, NoOverlap(Resting(p)), AddsTo(p, r, b, x)
  PROVE  NoOverlap(Resting(r)) /\ AllOf(Resting(r)) = AllOf(Resting(p)) \cup {x}
<1>1. PICK C : C = Resting(p)
  OBVIOUS
<1>2. PICK D : D = Resting(r)
  OBVIOUS
<1>3. /\ b \in Spots /\ x \notin AllOf(C) /\ NoOverlap(C) /\ D[b] = C[b] \cup {x}
      /\ \A s \in Spots \ {b} : D[s] = C[s]
  BY <1>1, <1>2 DEF AddsTo
<1>4. \A s \in Spots : x \notin C[s]
  BY <1>3 DEF AllOf
<1>5. NoOverlap(D)
  BY <1>3, <1>4 DEF NoOverlap
<1>6. AllOf(D) = AllOf(C) \cup {x}
  BY <1>3 DEF AllOf
<1> QED BY <1>1, <1>2, <1>5, <1>6

LEMMA BlankSound ==
  ASSUME NEW p, NEW k, p.issued = [g \in Gens |-> 0], p \in Shape,
         p.gin = [g \in Gens |-> NoReq], p.ain = [g \in Gens |-> NoReq],
         p.queue = << >>, p.rin = NoReq, p.min = NoReq, p.pend = {}, p.done = {}, p.lost = {}
  PROVE  Sound(p, k)
<1>1. DOMAIN p.queue = {}
  OBVIOUS
<1>2. \A g \in Gens : p.ain[g] = NoReq /\ p.gin[g] = NoReq /\ p.issued[g] = 0
  OBVIOUS
<1>3. \A s \in Spots : Resting(p)[s] = {}
  <2>1. p.gin[0] = NoReq /\ p.gin[1] = NoReq /\ p.ain[0] = NoReq /\ p.ain[1] = NoReq
    BY <1>2 DEF Gens
  <2> QED BY <1>1, <2>1 DEF Resting, Spots, Entries, Wanted, Firsts, Seconds
<1>4. NoOverlap(Resting(p)) /\ AllOf(Resting(p)) = {}
  BY <1>3 DEF NoOverlap, AllOf
<1>5. OnceIn(p) /\ Owned(p) /\ Homed(p, k)
  BY <1>1, <1>2 DEF OnceIn, Owned, Homed
<1>6. Numbered({}, p.issued)
  BY <1>2 DEF Numbered
<1> QED
  BY <1>4, <1>5, <1>6 DEF Sound

LEMMA PathInitInv == PathInit => PathInv
<1> SUFFICES ASSUME PathInit PROVE PathInv
  OBVIOUS
<1>1. path \in Shape
  <2>1. << >> \in Seq(Reqs) /\ << >> \in [{} -> Gens] /\ {} \in SUBSET Nat /\ NoReq \in Slots
    BY DEF Slots
  <2>2. << >> \in UNION {[S -> Gens] : S \in SUBSET Nat}
    BY <2>1
  <2> QED BY <2>1, <2>2 DEF PathInit, Shape
<1>2. Sound(path, kind)
  BY <1>1, BlankSound DEF PathInit
<1> QED
  BY <1>2 DEF PathInit, PathInv

LEMMA ResetSound == PathInv /\ PathReset => PathInv'
<1> SUFFICES ASSUME PathInv, PathReset PROVE PathInv'
  OBVIOUS
<1>1. PICK r : r = path'
  OBVIOUS
<1>2. r = [path EXCEPT !.issued = [g \in Gens |-> 0],
                !.completed = [g \in Gens |-> 0], !.gin = [g \in Gens |-> NoReq],
                !.ain = [g \in Gens |-> NoReq], !.queue = << >>, !.owner = << >>,
                !.rin = NoReq, !.min = NoReq, !.pend = {}, !.row = -1,
                !.done = {}, !.lost = {}, !.clashed = {}] /\ kind' = kind
  BY <1>1 DEF PathReset
<1>3. path \in Shape
  BY DEF PathInv, Sound
<1>4. /\ r.issued = [g \in Gens |-> 0] /\ r.completed = [g \in Gens |-> 0]
      /\ r.gin = [g \in Gens |-> NoReq] /\ r.ain = [g \in Gens |-> NoReq]
      /\ r.queue = << >> /\ r.owner = << >> /\ r.rin = NoReq /\ r.min = NoReq
      /\ r.pend = {} /\ r.row = -1 /\ r.done = {} /\ r.lost = {} /\ r.clashed = {}
  BY <1>2, <1>3 DEF Shape
<1>5. r \in Shape
  <2>1. << >> \in Seq(Reqs) /\ << >> \in [{} -> Gens] /\ {} \in SUBSET Nat /\ NoReq \in Slots
    BY DEF Slots
  <2>2. << >> \in UNION {[S -> Gens] : S \in SUBSET Nat}
    BY <2>1
  <2> QED BY <1>2, <1>3, <2>1, <2>2 DEF Shape
<1>6. Sound(r, kind)
  BY <1>4, <1>5, BlankSound
<1> QED
  BY <1>1, <1>2, <1>4, <1>6 DEF PathInv

LEMMA RestingTyped ==
  ASSUME NEW p \in Shape
  PROVE  \A x \in AllOf(Resting(p)) : x \in Reqs
<1> SUFFICES ASSUME NEW s \in Spots, NEW x \in Resting(p)[s] PROVE x \in Reqs
  BY DEF AllOf
<1>1. /\ p.gin \in [Gens -> Slots] /\ p.ain \in [Gens -> Slots] /\ p.queue \in Seq(Reqs)
      /\ p.rin \in Slots /\ p.min \in Slots /\ p.pend \in SUBSET [req : Reqs, left : Int]
      /\ p.done \in SUBSET (Gens \X Reqs) /\ p.lost \in SUBSET (Reqs \X {"overwritten", "unowned"})
  BY DEF Shape
<1>2. CASE s \in {"gin0", "gin1", "ain0", "ain1", "rin", "min"}
  BY <1>1, <1>2 DEF Resting, Spots, Slots, Gens
<1>3. CASE s = "queue"
  BY <1>1, <1>3 DEF Resting, Spots, Entries
<1>4. CASE s = "pend"
  BY <1>1, <1>4 DEF Resting, Spots, Wanted
<1>5. CASE s = "done"
  BY <1>1, <1>5 DEF Resting, Spots, Seconds
<1>6. CASE s = "lost"
  BY <1>1, <1>6 DEF Resting, Spots, Firsts
<1> QED BY <1>2, <1>3, <1>4, <1>5, <1>6 DEF Spots

(* TrafficGenTLM: an answer is counted.                                    *)
Took(p, g) ==
  [p EXCEPT !.gin[g] = NoReq, !.completed[g] = @ + 1, !.done = @ \cup {<<g, p.gin[g]>>}]

LEMMA TookIs ==
  ASSUME NEW p \in Shape, NEW g \in Gens, p.gin[g] # NoReq, NEW r, r = Took(p, g)
  PROVE  /\ r \in Shape
         /\ r.gin = [p.gin EXCEPT ![g] = NoReq] /\ r.done = p.done \cup {<<g, p.gin[g]>>}
         /\ r.issued = p.issued /\ r.ain = p.ain
         /\ r.queue = p.queue /\ r.owner = p.owner /\ r.rin = p.rin /\ r.min = p.min
         /\ r.pend = p.pend /\ r.lost = p.lost /\ r.clashed = p.clashed
<1>1. /\ r.gin = [p.gin EXCEPT ![g] = NoReq] /\ r.completed = [p.completed EXCEPT ![g] = p.completed[g] + 1]
      /\ r.done = p.done \cup {<<g, p.gin[g]>>} /\ r.issued = p.issued /\ r.ain = p.ain
      /\ r.queue = p.queue /\ r.owner = p.owner /\ r.rin = p.rin /\ r.min = p.min
      /\ r.pend = p.pend /\ r.row = p.row /\ r.lost = p.lost /\ r.clashed = p.clashed
  BY DEF Shape, Took
<1>2. p.gin[g] \in Reqs
  BY DEF Shape, Slots
<1>3. r.gin \in [Gens -> Slots] /\ r.completed \in [Gens -> Nat] /\ r.done \in SUBSET (Gens \X Reqs)
  BY <1>1, <1>2 DEF Shape, Slots
<1> QED BY <1>1, <1>3 DEF Shape, Took

LEMMA TookKeeps ==
  ASSUME NEW p, NEW k, NEW g \in Gens, Sound(p, k), p.gin[g] # NoReq, NEW r, r = Took(p, g)
  PROVE  Sound(r, k)
<1>1. p \in Shape
  BY DEF Sound
<1>2. PICK x : x = p.gin[g]
  OBVIOUS
<1>4. /\ r \in Shape /\ r.gin = [p.gin EXCEPT ![g] = NoReq] /\ r.done = p.done \cup {<<g, x>>}
      /\ r.issued = p.issued /\ r.ain = p.ain
      /\ r.queue = p.queue /\ r.owner = p.owner /\ r.rin = p.rin /\ r.min = p.min
      /\ r.pend = p.pend /\ r.lost = p.lost /\ r.clashed = p.clashed
  BY <1>1, <1>2, TookIs
<1>3. x \in Reqs /\ x # NoReq /\ p.gin \in [Gens -> Slots]
  BY <1>1, <1>2 DEF Shape, Slots
<1>5. PICK a : a = GinOf(g)
  OBVIOUS
<1>6. a \in Spots /\ "done" \in Spots /\ a # "done" /\ Resting(p)[a] = {x} /\ Resting(r)[a] = {}
      /\ Resting(p)["done"] = Seconds(p.done) /\ Resting(r)["done"] = Seconds(p.done) \cup {x}
  <2>1. r.gin[g] = NoReq
    BY <1>3, <1>4
  <2>2. "done" \in Spots /\ Resting(p)["done"] = Seconds(p.done) /\ Resting(r)["done"] = Seconds(r.done)
    BY DEF Resting, Spots
  <2>3. Seconds(r.done) = Seconds(p.done) \cup {x}
    BY <1>4, SecondsOf
  <2>4. a \in Spots /\ a # "done" /\ Resting(p)[a] = {p.gin[g]} \ {NoReq} /\ Resting(r)[a] = {r.gin[g]} \ {NoReq}
    BY <1>5, SlotsOfGens
  <2> QED BY <2>1, <2>2, <2>3, <2>4, <1>2, <1>3
<1>7. NoOverlap(Resting(p)) /\ Numbered(AllOf(Resting(p)), p.issued) /\ OnceIn(p) /\ Owned(p) /\ Homed(p, k)
  BY DEF Sound
<1>8. NoOverlap(Resting(r)) /\ AllOf(Resting(r)) = AllOf(Resting(p))
  <2>1. /\ Resting(r)["ain0"] = Resting(p)["ain0"] /\ Resting(r)["ain1"] = Resting(p)["ain1"]
        /\ Resting(r)["queue"] = Resting(p)["queue"] /\ Resting(r)["rin"] = Resting(p)["rin"]
        /\ Resting(r)["min"] = Resting(p)["min"] /\ Resting(r)["pend"] = Resting(p)["pend"]
        /\ Resting(r)["lost"] = Resting(p)["lost"]
    BY <1>4, RestingSame
  <2>2. \A h \in Gens \ {g} : r.gin[h] = p.gin[h]
    BY <1>3, <1>4
  <2>3. \A s \in {"gin0", "gin1"} \ {a} : Resting(r)[s] = Resting(p)[s]
    <3>1. GinApart(p, r, g)
      BY <2>2, OtherGin
    <3> QED BY <3>1, <1>5 DEF GinApart
  <2>4. \A s \in Spots \ {a, "done"} : Resting(r)[s] = Resting(p)[s]
    BY <2>1, <2>3 DEF Spots
  <2>5. MovesTo(p, r, a, "done")
    BY <1>6, <2>4 DEF MovesTo
  <2> QED BY <2>5, <1>7, MovedBetween
<1>9. OnceIn(r)
  <2>1. x \notin {d[2] : d \in p.done}
    <3>1. Resting(p)[a] \cap Resting(p)["done"] = {}
      BY <1>6, <1>7 DEF NoOverlap
    <3> QED BY <3>1, <1>6 DEF Seconds
  <2> QED BY <2>1, <1>4, <1>7 DEF OnceIn
<1>10. Owned(r)
  BY <1>4, <1>7 DEF Owned, OwnerNoted
<1>11. Homed(r, k)
  <2>1. \A h \in Gens : r.gin[h] # NoReq => r.gin[h] = p.gin[h]
    BY <1>3, <1>4
  <2>2. x.gen = g \/ x.id \in p.clashed
    BY <1>2, <1>3, <1>7 DEF Homed
  <2> QED BY <2>1, <2>2, <1>4, <1>7 DEF Homed
<1> QED
  BY <1>4, <1>7, <1>8, <1>9, <1>10, <1>11 DEF Sound

(* TrafficGenTLM: a request is issued.                                     *)
Issue(p, g, x) == [p EXCEPT !.issued[g] = @ + 1, !.ain[g] = x]

LEMMA IssueIs ==
  ASSUME NEW p \in Shape, NEW g \in Gens, NEW x \in Reqs, NEW r, r = Issue(p, g, x)
  PROVE  /\ r \in Shape
         /\ r.issued = [p.issued EXCEPT ![g] = p.issued[g] + 1] /\ r.ain = [p.ain EXCEPT ![g] = x]
         /\ r.gin = p.gin /\ r.queue = p.queue /\ r.owner = p.owner /\ r.rin = p.rin /\ r.min = p.min
         /\ r.pend = p.pend /\ r.done = p.done /\ r.lost = p.lost /\ r.clashed = p.clashed
<1>1. /\ r.issued = [p.issued EXCEPT ![g] = p.issued[g] + 1] /\ r.ain = [p.ain EXCEPT ![g] = x]
      /\ r.gin = p.gin /\ r.queue = p.queue /\ r.owner = p.owner /\ r.rin = p.rin /\ r.min = p.min
      /\ r.pend = p.pend /\ r.done = p.done /\ r.lost = p.lost /\ r.clashed = p.clashed
  BY DEF Shape, Issue
<1>2. r.issued \in [Gens -> Nat] /\ r.ain \in [Gens -> Slots]
  BY <1>1 DEF Shape, Slots
<1> QED BY <1>1, <1>2 DEF Shape, Issue

LEMMA IssueKeeps ==
  ASSUME NEW p, NEW k, NEW g \in Gens, Sound(p, k), p.ain[g] = NoReq,
         NEW x \in Reqs, x.gen = g, x.id = p.issued[g], NEW r, r = Issue(p, g, x)
  PROVE  Sound(r, k)
<1>1. p \in Shape /\ p.issued \in [Gens -> Nat] /\ p.ain \in [Gens -> Slots]
  BY DEF Sound, Shape
<1>2. x # NoReq
  BY NoReqIs
<1>4. /\ r \in Shape
      /\ r.issued = [p.issued EXCEPT ![g] = p.issued[g] + 1] /\ r.ain = [p.ain EXCEPT ![g] = x]
      /\ r.gin = p.gin /\ r.queue = p.queue /\ r.owner = p.owner /\ r.rin = p.rin /\ r.min = p.min
      /\ r.pend = p.pend /\ r.done = p.done /\ r.lost = p.lost /\ r.clashed = p.clashed
  BY <1>1, IssueIs
<1>5. PICK a : a = AinOf(g)
  OBVIOUS
<1>6. a \in Spots /\ Resting(p)[a] = {} /\ Resting(r)[a] = {x}
  <2>1. r.ain[g] = x
    BY <1>1, <1>4
  <2>2. a \in Spots /\ Resting(p)[a] = {p.ain[g]} \ {NoReq} /\ Resting(r)[a] = {r.ain[g]} \ {NoReq}
    BY <1>5, SlotsOfGens
  <2> QED BY <2>1, <2>2, <1>2
<1>7. NoOverlap(Resting(p)) /\ Numbered(AllOf(Resting(p)), p.issued) /\ OnceIn(p) /\ Owned(p) /\ Homed(p, k)
  BY DEF Sound
<1>8. x \notin AllOf(Resting(p))
  BY <1>1, <1>7 DEF Numbered
<1>9. NoOverlap(Resting(r)) /\ AllOf(Resting(r)) = AllOf(Resting(p)) \cup {x}
  <2>1. /\ Resting(r)["gin0"] = Resting(p)["gin0"] /\ Resting(r)["gin1"] = Resting(p)["gin1"]
        /\ Resting(r)["queue"] = Resting(p)["queue"] /\ Resting(r)["rin"] = Resting(p)["rin"]
        /\ Resting(r)["min"] = Resting(p)["min"] /\ Resting(r)["pend"] = Resting(p)["pend"]
        /\ Resting(r)["done"] = Resting(p)["done"] /\ Resting(r)["lost"] = Resting(p)["lost"]
    BY <1>4, RestingSame
  <2>2. \A h \in Gens \ {g} : r.ain[h] = p.ain[h]
    BY <1>1, <1>4
  <2>3. \A s \in {"ain0", "ain1"} \ {a} : Resting(r)[s] = Resting(p)[s]
    <3>1. AinApart(p, r, g)
      BY <2>2, OtherAin
    <3> QED BY <3>1, <1>5 DEF AinApart
  <2>4. \A s \in Spots \ {a} : Resting(r)[s] = Resting(p)[s]
    BY <2>1, <2>3 DEF Spots
  <2>5. AddsTo(p, r, a, x)
    BY <1>6, <1>8, <2>4 DEF AddsTo
  <2> QED BY <2>5, <1>7, AddedTo
<1>10. Numbered(AllOf(Resting(p)) \cup {x}, r.issued)
  <2>1. PICK S : S = AllOf(Resting(p))
    OBVIOUS
  <2>2. /\ r.issued[g] = p.issued[g] + 1 /\ p.issued[g] \in Nat
        /\ \A h \in Gens \ {g} : r.issued[h] = p.issued[h]
    BY <1>1, <1>4
  <2>3. Numbered(S, p.issued)
    BY <2>1, <1>7
  <2>4. \A y \in S : y.gen \in Gens /\ y.id \in Nat
    <3>1. \A y \in AllOf(Resting(p)) : y \in Reqs
      BY <1>1, RestingTyped
    <3> QED BY <3>1, <2>1 DEF Reqs
  <2>5. \A y, z \in S \cup {x} : y.gen = z.gen /\ y.id = z.id => y = z
    BY <2>2, <2>3, <2>4 DEF Numbered
  <2>6. \A y \in S \cup {x} : y.id < r.issued[y.gen]
    <3>1. ASSUME NEW y \in S  PROVE  y.id < r.issued[y.gen]
      BY <2>2, <2>3, <2>4 DEF Numbered
    <3> QED BY <3>1, <2>2
  <2>7. ASSUME NEW h \in Gens, NEW i \in Nat, i < r.issued[h]
        PROVE  \E y \in S \cup {x} : y.gen = h /\ y.id = i
    <3>1. CASE h = g /\ i = p.issued[g]
      BY <3>1
    <3>2. CASE ~(h = g /\ i = p.issued[g])
      <4>1. i < p.issued[h]
        BY <3>2, <2>2, <2>7
      <4> QED BY <4>1, <2>3 DEF Numbered
    <3> QED BY <3>1, <3>2
  <2> QED BY <2>1, <2>5, <2>6, <2>7 DEF Numbered
<1>11. OnceIn(r) /\ Owned(r)
  BY <1>4, <1>7 DEF OnceIn, Owned, OwnerNoted
<1>12. Homed(r, k)
  <2>1. \A h \in Gens : r.ain[h] = p.ain[h] \/ (h = g /\ r.ain[h] = x)
    BY <1>1, <1>4
  <2> QED BY <2>1, <1>4, <1>7 DEF Homed
<1> QED
  BY <1>4, <1>9, <1>10, <1>11, <1>12 DEF Sound

(* What is common to the steps that move a request from a to b.            *)
LEMMA MovedSound ==
  ASSUME NEW p, NEW r, NEW a, NEW b, NEW k, Sound(p, k), r \in Shape, r.issued = p.issued,
         MovesTo(p, r, a, b), OnceIn(r), Owned(r), Homed(r, k)
  PROVE  Sound(r, k)
<1>1. NoOverlap(Resting(p)) /\ Numbered(AllOf(Resting(p)), p.issued)
  BY DEF Sound
<1>2. NoOverlap(Resting(r)) /\ AllOf(Resting(r)) = AllOf(Resting(p))
  BY <1>1, MovedBetween
<1> QED BY <1>1, <1>2 DEF Sound

(* What is in a place is of no other place.                                *)
LEMMA OnlyThere ==
  ASSUME NEW p, NoOverlap(Resting(p)), NEW s \in Spots, NEW t \in Spots, s # t,
         NEW x \in Resting(p)[s]
  PROVE  x \notin Resting(p)[t]
BY DEF NoOverlap

(* ArbiterTLM: a request that arrived is queued and its owner noted.       *)
Accepted(p, g) ==
  LET t == p.ain[g].id
  IN  [p EXCEPT !.queue = Append(@, p.ain[g]), !.ain[g] = NoReq,
                !.owner = [u \in DOMAIN @ \cup {t} |-> IF u = t THEN g ELSE @[u]],
                !.clashed = IF t \in DOMAIN p.owner THEN @ \cup {t} ELSE @]

NewOwners(p, t, g) == [u \in DOMAIN p.owner \cup {t} |-> IF u = t THEN g ELSE p.owner[u]]
NewClashes(p, t) == IF t \in DOMAIN p.owner THEN p.clashed \cup {t} ELSE p.clashed

LEMMA AcceptedIs ==
  ASSUME NEW p \in Shape, NEW g \in Gens, p.ain[g] # NoReq, NEW r, r = Accepted(p, g)
  PROVE  /\ r \in Shape
         /\ r.ain = [p.ain EXCEPT ![g] = NoReq] /\ r.queue = Append(p.queue, p.ain[g])
         /\ r.owner = NewOwners(p, p.ain[g].id, g) /\ r.clashed = NewClashes(p, p.ain[g].id)
         /\ r.issued = p.issued /\ r.gin = p.gin /\ r.rin = p.rin /\ r.min = p.min
         /\ r.pend = p.pend /\ r.lost = p.lost /\ r.done = p.done
<1>1. PICK x : x = p.ain[g]
  OBVIOUS
<1>2. x \in Reqs /\ x.id \in Nat
  <2>1. x \in Reqs
    BY <1>1 DEF Shape, Slots
  <2> QED BY <2>1 DEF Reqs
<1>3. PICK o : o = NewOwners(p, x.id, g)
  OBVIOUS
<1>4. PICK c : c = NewClashes(p, x.id)
  OBVIOUS
<1>5. r = [p EXCEPT !.queue = Append(p.queue, x), !.ain = [p.ain EXCEPT ![g] = NoReq],
                    !.owner = o, !.clashed = c]
  BY <1>1, <1>3, <1>4 DEF Accepted, Shape, NewOwners, NewClashes
<1>6. o \in UNION {[S -> Gens] : S \in SUBSET Nat}
  <2>1. PICK S \in SUBSET Nat : p.owner \in [S -> Gens]
    BY DEF Shape
  <2>2. o \in [S \cup {x.id} -> Gens] /\ S \cup {x.id} \in SUBSET Nat
    BY <2>1, <1>2, <1>3 DEF NewOwners
  <2> QED BY <2>2
<1>7. c \in SUBSET Nat /\ Append(p.queue, x) \in Seq(Reqs) /\ [p.ain EXCEPT ![g] = NoReq] \in [Gens -> Slots]
  <2>1. p.clashed \in SUBSET Nat /\ p.queue \in Seq(Reqs) /\ p.ain \in [Gens -> Slots]
    BY DEF Shape
  <2> QED BY <2>1, <1>2, <1>4 DEF Slots, NewClashes
<1>8. /\ r.ain = [p.ain EXCEPT ![g] = NoReq] /\ r.queue = Append(p.queue, x)
      /\ r.owner = o /\ r.clashed = c
      /\ r.issued = p.issued /\ r.gin = p.gin /\ r.rin = p.rin /\ r.min = p.min
      /\ r.pend = p.pend /\ r.lost = p.lost /\ r.done = p.done
  BY <1>5 DEF Shape
<1>9. r \in Shape
  BY <1>5, <1>6, <1>7 DEF Shape
<1> QED BY <1>1, <1>3, <1>4, <1>8, <1>9

LEMMA AcceptedKeeps ==
  ASSUME NEW p, NEW k, NEW g \in Gens, Sound(p, k), p.ain[g] # NoReq, NEW r, r = Accepted(p, g)
  PROVE  Sound(r, k)
<1>1. p \in Shape /\ p.queue \in Seq(Reqs) /\ p.ain \in [Gens -> Slots]
  BY DEF Sound, Shape
<1>2. PICK x : x = p.ain[g]
  OBVIOUS
<1>3. x \in Reqs /\ x # NoReq
  BY <1>1, <1>2 DEF Slots
<1>4. /\ r \in Shape
      /\ r.ain = [p.ain EXCEPT ![g] = NoReq] /\ r.queue = Append(p.queue, x)
      /\ r.owner = [u \in DOMAIN p.owner \cup {x.id} |-> IF u = x.id THEN g ELSE p.owner[u]]
      /\ r.clashed = IF x.id \in DOMAIN p.owner THEN p.clashed \cup {x.id} ELSE p.clashed
      /\ r.issued = p.issued /\ r.gin = p.gin /\ r.rin = p.rin /\ r.min = p.min
      /\ r.pend = p.pend /\ r.lost = p.lost /\ r.done = p.done
  <2>1. /\ r \in Shape
        /\ r.ain = [p.ain EXCEPT ![g] = NoReq] /\ r.queue = Append(p.queue, p.ain[g])
        /\ r.owner = NewOwners(p, p.ain[g].id, g) /\ r.clashed = NewClashes(p, p.ain[g].id)
        /\ r.issued = p.issued /\ r.gin = p.gin /\ r.rin = p.rin /\ r.min = p.min
        /\ r.pend = p.pend /\ r.lost = p.lost /\ r.done = p.done
    BY <1>1, AcceptedIs
  <2> QED BY <2>1, <1>2 DEF NewOwners, NewClashes
<1>5. PICK a : a = AinOf(g)
  OBVIOUS
<1>6. /\ a \in Spots /\ a # "queue" /\ Resting(p)[a] = {x} /\ Resting(r)[a] = {}
      /\ "queue" \in Spots /\ Resting(p)["queue"] = Entries(p.queue)
      /\ Resting(r)["queue"] = Entries(r.queue)
  <2>1. r.ain[g] = NoReq
    BY <1>1, <1>4
  <2>2. /\ a \in Spots /\ a # "queue" /\ Resting(p)[a] = {p.ain[g]} \ {NoReq}
        /\ Resting(r)[a] = {r.ain[g]} \ {NoReq}
    BY <1>5, SlotsOfGens
  <2>3. "queue" \in Spots /\ Resting(p)["queue"] = Entries(p.queue) /\ Resting(r)["queue"] = Entries(r.queue)
    BY DEF Resting, Spots
  <2> QED BY <2>1, <2>2, <2>3, <1>2, <1>3
<1>7. NoOverlap(Resting(p)) /\ Numbered(AllOf(Resting(p)), p.issued) /\ OnceIn(p) /\ Owned(p) /\ Homed(p, k)
  BY DEF Sound
<1>8. /\ DOMAIN r.queue = 1..(Len(p.queue) + 1) /\ DOMAIN p.queue = 1..Len(p.queue)
      /\ Len(p.queue) \in Nat /\ r.queue[Len(p.queue) + 1] = x
      /\ \A i \in DOMAIN p.queue : r.queue[i] = p.queue[i]
  BY <1>1, <1>3, <1>4
<1>9. x \notin Entries(p.queue)
  BY <1>6, <1>7, OnlyThere
<1>10. MovesTo(p, r, a, "queue")
  <2>1. Entries(r.queue) = Entries(p.queue) \cup {x}
    BY <1>8 DEF Entries
  <2>2. /\ Resting(r)["gin0"] = Resting(p)["gin0"] /\ Resting(r)["gin1"] = Resting(p)["gin1"]
        /\ Resting(r)["rin"] = Resting(p)["rin"] /\ Resting(r)["min"] = Resting(p)["min"]
        /\ Resting(r)["pend"] = Resting(p)["pend"] /\ Resting(r)["done"] = Resting(p)["done"]
        /\ Resting(r)["lost"] = Resting(p)["lost"]
    BY <1>4, RestingSame
  <2>3. \A h \in Gens \ {g} : r.ain[h] = p.ain[h]
    BY <1>1, <1>4
  <2>4. \A s \in {"ain0", "ain1"} \ {a} : Resting(r)[s] = Resting(p)[s]
    <3>1. AinApart(p, r, g)
      BY <2>3, OtherAin
    <3> QED BY <3>1, <1>5 DEF AinApart
  <2>5. \A s \in Spots \ {a, "queue"} : Resting(r)[s] = Resting(p)[s]
    BY <2>2, <2>4 DEF Spots
  <2> QED BY <2>1, <2>5, <1>6 DEF MovesTo
<1>11. OnceIn(r)
  <2>1. \A i, j \in DOMAIN r.queue : r.queue[i] = r.queue[j] => i = j
    <3>1. \A i \in DOMAIN p.queue : p.queue[i] # x
      BY <1>9 DEF Entries
    <3>2. \A i, j \in DOMAIN p.queue : p.queue[i] = p.queue[j] => i = j
      BY <1>7 DEF OnceIn
    <3> QED BY <3>1, <3>2, <1>8
  <2> QED BY <2>1, <1>4, <1>7 DEF OnceIn
<1>12. \A y : OwnerNoted(p, y) => OwnerNoted(r, y)
  <2> TAKE y
  <2>1. CASE y.id = x.id
    BY <2>1, <1>4 DEF OwnerNoted
  <2>2. CASE y.id # x.id
    BY <2>2, <1>4 DEF OwnerNoted
  <2> QED BY <2>1, <2>2
<1>13. OwnerNoted(r, x)
  <2>1. x.gen = g
    BY <1>2, <1>3, <1>7 DEF Homed
  <2> QED BY <2>1, <1>4 DEF OwnerNoted
<1>14. Owned(r)
  <2>1. \A i \in DOMAIN r.queue : OwnerNoted(r, r.queue[i])
    <3>1. \A i \in DOMAIN p.queue : OwnerNoted(r, p.queue[i])
      BY <1>7, <1>12 DEF Owned
    <3> QED BY <3>1, <1>8, <1>13
  <2> QED BY <2>1, <1>4, <1>7, <1>12 DEF Owned
<1>15. Homed(r, k)
  <2>1. \A h \in Gens : r.ain[h] # NoReq => r.ain[h] = p.ain[h]
    BY <1>1, <1>4
  <2>2. \A i \in p.clashed : i \in r.clashed
    BY <1>4
  <2> QED BY <2>1, <2>2, <1>4, <1>7 DEF Homed
<1> QED
  BY <1>4, <1>10, <1>11, <1>14, <1>15, MovedSound

(* ArbiterTLM: the head of the queue goes on.                              *)
Served(p) == [p EXCEPT !.queue = Tail(@), !.min = Head(p.queue)]

LEMMA ServedKeeps ==
  ASSUME NEW p, NEW k, Sound(p, k), p.queue # << >>, p.min = NoReq, NEW r, r = Served(p)
  PROVE  Sound(r, k) /\ r.ain = p.ain /\ r.gin = p.gin /\ r.rin = p.rin
<1>1. p \in Shape /\ p.queue \in Seq(Reqs)
  BY DEF Sound, Shape
<1>2. PICK x : x = Head(p.queue)
  OBVIOUS
<1>3. /\ x \in Reqs /\ Tail(p.queue) \in Seq(Reqs) /\ x = p.queue[1] /\ 1 \in DOMAIN p.queue
      /\ Len(p.queue) \in Nat /\ DOMAIN p.queue = 1..Len(p.queue)
      /\ DOMAIN Tail(p.queue) = 1..(Len(p.queue) - 1)
      /\ \A i \in 1..(Len(p.queue) - 1) : Tail(p.queue)[i] = p.queue[i + 1]
  BY <1>1, <1>2
<1>4. /\ r.queue = Tail(p.queue) /\ r.min = x
      /\ r.issued = p.issued /\ r.gin = p.gin /\ r.rin = p.rin /\ r.ain = p.ain
      /\ r.pend = p.pend /\ r.lost = p.lost /\ r.done = p.done
      /\ r.owner = p.owner /\ r.clashed = p.clashed
  BY <1>1, <1>2 DEF Served, Shape
<1>5. r \in Shape
  BY <1>1, <1>2, <1>3 DEF Served, Shape, Slots
<1>6. /\ "queue" \in Spots /\ "min" \in Spots /\ Resting(p)["queue"] = Entries(p.queue)
      /\ Resting(r)["queue"] = Entries(r.queue) /\ Resting(p)["min"] = {} /\ Resting(r)["min"] = {x}
  <2>1. x # NoReq
    BY <1>3, NoReqIs
  <2>2. /\ "queue" \in Spots /\ "min" \in Spots /\ Resting(p)["queue"] = Entries(p.queue)
        /\ Resting(r)["queue"] = Entries(r.queue) /\ Resting(p)["min"] = {p.min} \ {NoReq}
        /\ Resting(r)["min"] = {r.min} \ {NoReq}
    BY DEF Resting, Spots
  <2> QED BY <2>1, <2>2, <1>4
<1>7. OnceIn(p) /\ Owned(p) /\ Homed(p, k)
  BY DEF Sound
<1>8. \A i, j \in DOMAIN p.queue : p.queue[i] = p.queue[j] => i = j
  BY <1>7 DEF OnceIn
<1>9. \A i \in DOMAIN r.queue : i + 1 \in DOMAIN p.queue /\ r.queue[i] = p.queue[i + 1]
  BY <1>3, <1>4
<1>10. Entries(r.queue) = Entries(p.queue) \ {x} /\ x \in Entries(p.queue)
  <2>1. ASSUME NEW i \in DOMAIN r.queue  PROVE  r.queue[i] # x
    <3>1. i \in Nat /\ i > 0
      BY <1>3, <1>4
    <3>2. i + 1 # 1
      BY <3>1
    <3> QED BY <3>2, <1>3, <1>8, <1>9
  <2>2. ASSUME NEW j \in DOMAIN p.queue, p.queue[j] # x
        PROVE  \E i \in DOMAIN r.queue : r.queue[i] = p.queue[j]
    <3>1. j \in 2..Len(p.queue)
      BY <2>2, <1>3
    <3>2. PICK i : i = j - 1
      OBVIOUS
    <3>3. i \in 1..(Len(p.queue) - 1) /\ i + 1 = j
      BY <3>1, <3>2, <1>3
    <3> QED BY <3>3, <1>3, <1>4
  <2> QED BY <2>1, <2>2, <1>3, <1>9 DEF Entries
<1>11. MovesTo(p, r, "queue", "min")
  <2>1. /\ Resting(r)["gin0"] = Resting(p)["gin0"] /\ Resting(r)["gin1"] = Resting(p)["gin1"]
        /\ Resting(r)["ain0"] = Resting(p)["ain0"] /\ Resting(r)["ain1"] = Resting(p)["ain1"]
        /\ Resting(r)["rin"] = Resting(p)["rin"]
        /\ Resting(r)["pend"] = Resting(p)["pend"] /\ Resting(r)["done"] = Resting(p)["done"]
        /\ Resting(r)["lost"] = Resting(p)["lost"]
    BY <1>4, RestingSame
  <2>2. \A s \in Spots \ {"queue", "min"} : Resting(r)[s] = Resting(p)[s]
    BY <2>1 DEF Spots
  <2> QED BY <2>2, <1>6, <1>10 DEF MovesTo
<1>12. OnceIn(r)
  <2>1. \A i, j \in DOMAIN r.queue : r.queue[i] = r.queue[j] => i = j
    <3> SUFFICES ASSUME NEW i \in DOMAIN r.queue, NEW j \in DOMAIN r.queue, r.queue[i] = r.queue[j]
                 PROVE  i = j
      OBVIOUS
    <3>1. i + 1 = j + 1
      BY <1>8, <1>9
    <3>2. i \in Int /\ j \in Int
      BY <1>3, <1>4
    <3> QED BY <3>1, <3>2
  <2> QED BY <2>1, <1>4, <1>7 DEF OnceIn
<1>13. Owned(r)
  <2>1. OwnerNoted(p, x) /\ \A i \in DOMAIN r.queue : OwnerNoted(p, r.queue[i])
    BY <1>3, <1>7, <1>9 DEF Owned
  <2> QED BY <2>1, <1>4, <1>7 DEF Owned, OwnerNoted
<1>14. Homed(r, k)
  BY <1>4, <1>7 DEF Homed
<1> QED
  BY <1>4, <1>5, <1>11, <1>12, <1>13, <1>14, MovedSound

(* ArbiterTLM: an answer goes to the owner of its number.                  *)
Without(p, t) == [u \in DOMAIN p.owner \ {t} |-> p.owner[u]]
Returned(p, g) ==
  [p EXCEPT !.rin = NoReq, !.owner = Without(p, p.rin.id), !.gin[g] = p.rin]

LEMMA ReturnedIs ==
  ASSUME NEW p \in Shape, NEW g \in Gens, p.rin # NoReq, NEW r, r = Returned(p, g)
  PROVE  /\ r \in Shape
         /\ r.rin = NoReq /\ r.owner = Without(p, p.rin.id) /\ r.gin = [p.gin EXCEPT ![g] = p.rin]
         /\ r.issued = p.issued /\ r.ain = p.ain /\ r.queue = p.queue /\ r.min = p.min
         /\ r.pend = p.pend /\ r.lost = p.lost /\ r.done = p.done /\ r.clashed = p.clashed
<1>1. PICK o : o = Without(p, p.rin.id)
  OBVIOUS
<1>2. r = [p EXCEPT !.rin = NoReq, !.owner = o, !.gin = [p.gin EXCEPT ![g] = p.rin]]
  BY <1>1 DEF Returned, Shape
<1>3. o \in UNION {[S -> Gens] : S \in SUBSET Nat}
  <2>1. PICK S \in SUBSET Nat : p.owner \in [S -> Gens]
    BY DEF Shape
  <2>2. o \in [S \ {p.rin.id} -> Gens] /\ S \ {p.rin.id} \in SUBSET Nat
    BY <2>1, <1>1 DEF Without
  <2> QED BY <2>2
<1>4. [p.gin EXCEPT ![g] = p.rin] \in [Gens -> Slots] /\ NoReq \in Slots
  BY DEF Shape, Slots
<1>5. r \in Shape
  BY <1>2, <1>3, <1>4 DEF Shape
<1>6. /\ r.rin = NoReq /\ r.owner = o /\ r.gin = [p.gin EXCEPT ![g] = p.rin]
      /\ r.issued = p.issued /\ r.ain = p.ain /\ r.queue = p.queue /\ r.min = p.min
      /\ r.pend = p.pend /\ r.lost = p.lost /\ r.done = p.done /\ r.clashed = p.clashed
  BY <1>2 DEF Shape
<1> QED BY <1>1, <1>5, <1>6

LEMMA ReturnedKeeps ==
  ASSUME NEW p, NEW k, NEW g \in Gens, Sound(p, k), p.rin # NoReq, p.gin[g] = NoReq,
         p.rin.id \in DOMAIN p.owner, p.owner[p.rin.id] = g, NEW r, r = Returned(p, g)
  PROVE  Sound(r, k)
<1>1. p \in Shape /\ p.gin \in [Gens -> Slots] /\ p.rin \in Slots /\ p.queue \in Seq(Reqs)
      /\ p.min \in Slots /\ p.pend \in SUBSET [req : Reqs, left : Int]
  BY DEF Sound, Shape
<1>2. PICK x : x = p.rin
  OBVIOUS
<1>3. x \in Reqs /\ x # NoReq
  BY <1>1, <1>2 DEF Slots
<1>4. /\ r \in Shape
      /\ r.rin = NoReq /\ r.owner = Without(p, x.id) /\ r.gin = [p.gin EXCEPT ![g] = x]
      /\ r.issued = p.issued /\ r.ain = p.ain /\ r.queue = p.queue /\ r.min = p.min
      /\ r.pend = p.pend /\ r.lost = p.lost /\ r.done = p.done /\ r.clashed = p.clashed
  <2>1. /\ r \in Shape
        /\ r.rin = NoReq /\ r.owner = Without(p, p.rin.id) /\ r.gin = [p.gin EXCEPT ![g] = p.rin]
        /\ r.issued = p.issued /\ r.ain = p.ain /\ r.queue = p.queue /\ r.min = p.min
        /\ r.pend = p.pend /\ r.lost = p.lost /\ r.done = p.done /\ r.clashed = p.clashed
    BY <1>1, ReturnedIs
  <2> QED BY <2>1, <1>2
<1>5. PICK a : a = GinOf(g)
  OBVIOUS
<1>6. /\ a \in Spots /\ a # "rin" /\ Resting(p)[a] = {} /\ Resting(r)[a] = {x}
      /\ "rin" \in Spots /\ Resting(p)["rin"] = {x} /\ Resting(r)["rin"] = {}
  <2>1. r.gin[g] = x
    BY <1>1, <1>4
  <2>2. /\ a \in Spots /\ a # "rin" /\ Resting(p)[a] = {p.gin[g]} \ {NoReq}
        /\ Resting(r)[a] = {r.gin[g]} \ {NoReq}
    BY <1>5, SlotsOfGens
  <2>3. "rin" \in Spots /\ Resting(p)["rin"] = {p.rin} \ {NoReq} /\ Resting(r)["rin"] = {r.rin} \ {NoReq}
    BY DEF Resting, Spots
  <2> QED BY <2>1, <2>2, <2>3, <1>2, <1>3, <1>4
<1>7. /\ NoOverlap(Resting(p)) /\ Numbered(AllOf(Resting(p)), p.issued) /\ OnceIn(p) /\ Owned(p)
      /\ Homed(p, k)
  BY DEF Sound
<1>8. MovesTo(p, r, "rin", a)
  <2>1. /\ Resting(r)["ain0"] = Resting(p)["ain0"] /\ Resting(r)["ain1"] = Resting(p)["ain1"]
        /\ Resting(r)["queue"] = Resting(p)["queue"] /\ Resting(r)["min"] = Resting(p)["min"]
        /\ Resting(r)["pend"] = Resting(p)["pend"] /\ Resting(r)["done"] = Resting(p)["done"]
        /\ Resting(r)["lost"] = Resting(p)["lost"]
    BY <1>4, RestingSame
  <2>2. \A h \in Gens \ {g} : r.gin[h] = p.gin[h]
    BY <1>1, <1>4
  <2>3. \A s \in {"gin0", "gin1"} \ {a} : Resting(r)[s] = Resting(p)[s]
    <3>1. GinApart(p, r, g)
      BY <2>2, OtherGin
    <3> QED BY <3>1, <1>5 DEF GinApart
  <2>4. \A s \in Spots \ {"rin", a} : Resting(r)[s] = Resting(p)[s]
    BY <2>1, <2>3 DEF Spots
  <2> QED BY <2>4, <1>6 DEF MovesTo
<1>9. OnceIn(r)
  BY <1>4, <1>7 DEF OnceIn
<1>10. ASSUME NEW y \in Reqs, NEW s \in Spots, y \in Resting(p)[s], s # "rin", OwnerNoted(p, y)
       PROVE  OwnerNoted(r, y)
  <2>1. CASE y.id # x.id
    BY <2>1, <1>4, <1>10 DEF OwnerNoted, Without
  <2>2. CASE y.id = x.id
    <3>1. y # x
      BY <1>6, <1>7, <1>10, OnlyThere
    <3>2. y \in AllOf(Resting(p)) /\ x \in AllOf(Resting(p))
      BY <1>6, <1>10 DEF AllOf
    <3>3. y.gen # x.gen
      BY <3>1, <3>2, <2>2, <1>7 DEF Numbered
    <3>4. OwnerNoted(p, x)
      BY <1>2, <1>3, <1>7 DEF Owned
    <3>5. y.id \in p.clashed
      BY <3>3, <3>4, <2>2, <1>10 DEF OwnerNoted
    <3> QED BY <3>5, <1>4 DEF OwnerNoted
  <2> QED BY <2>1, <2>2
<1>11. Owned(r)
  <2>1. /\ \A i \in DOMAIN p.queue : p.queue[i] \in Reqs /\ p.queue[i] \in Resting(p)["queue"]
        /\ \A y \in p.pend : y.req \in Reqs /\ y.req \in Resting(p)["pend"]
        /\ p.min # NoReq => p.min \in Reqs /\ p.min \in Resting(p)["min"]
        /\ {"queue", "pend", "min"} \subseteq Spots
    BY <1>1, NoReqIs DEF Resting, Spots, Entries, Wanted
  <2>2. \A i \in DOMAIN r.queue : OwnerNoted(r, r.queue[i])
    BY <2>1, <1>4, <1>7, <1>10 DEF Owned
  <2>3. \A y \in r.pend : OwnerNoted(r, y.req)
    BY <2>1, <1>4, <1>7, <1>10 DEF Owned
  <2>4. r.min # NoReq => OwnerNoted(r, r.min)
    BY <2>1, <1>4, <1>7, <1>10 DEF Owned
  <2> QED BY <2>2, <2>3, <2>4, <1>4 DEF Owned
<1>12. Homed(r, k)
  <2>1. x.gen = g \/ x.id \in p.clashed
    <3>1. OwnerNoted(p, x)
      BY <1>2, <1>3, <1>7 DEF Owned
    <3> QED BY <3>1, <1>2 DEF OwnerNoted
  <2>2. \A h \in Gens : r.gin[h] = p.gin[h] \/ (h = g /\ r.gin[h] = x)
    BY <1>1, <1>4
  <2> QED BY <2>1, <2>2, <1>4, <1>7 DEF Homed
<1> QED
  BY <1>4, <1>8, <1>9, <1>11, <1>12, MovedSound

(* ... or is lost when its number has none.                                *)
Unowned(p) == [p EXCEPT !.rin = NoReq, !.lost = @ \cup {<<p.rin, "unowned">>}]

LEMMA FirstsOf ==
  ASSUME NEW S, NEW x, NEW y
  PROVE  Firsts(S \cup {<<x, y>>}) = Firsts(S) \cup {x}
<1>1. <<x, y>>[1] = x
  OBVIOUS
<1>2. PICK t : t = <<x, y>>
  OBVIOUS
<1>3. {l[1] : l \in S \cup {t}} = {l[1] : l \in S} \cup {x}
  BY <1>1, <1>2
<1> QED BY <1>2, <1>3 DEF Firsts

LEMMA UnownedKeeps ==
  ASSUME NEW p, NEW k, Sound(p, k), p.rin # NoReq, p.rin.id \notin DOMAIN p.owner,
         NEW r, r = Unowned(p)
  PROVE  Sound(r, k)
<1>1. p \in Shape /\ p.rin \in Slots
  BY DEF Sound, Shape
<1>2. PICK x : x = p.rin
  OBVIOUS
<1>3. x \in Reqs /\ x # NoReq
  BY <1>1, <1>2 DEF Slots
<1>4. /\ r.rin = NoReq /\ r.lost = p.lost \cup {<<x, "unowned">>} /\ r.owner = p.owner
      /\ r.issued = p.issued /\ r.ain = p.ain /\ r.gin = p.gin /\ r.queue = p.queue /\ r.min = p.min
      /\ r.pend = p.pend /\ r.done = p.done /\ r.clashed = p.clashed
  BY <1>1, <1>2 DEF Unowned, Shape
<1>5. r \in Shape
  <2>1. PICK L : L = p.lost \cup {<<x, "unowned">>}
    OBVIOUS
  <2>2. L \in SUBSET (Reqs \X {"overwritten", "unowned"})
    BY <2>1, <1>1, <1>3 DEF Shape
  <2>3. r = [p EXCEPT !.rin = NoReq, !.lost = L] /\ NoReq \in Slots
    BY <2>1, <1>1, <1>2 DEF Unowned, Shape, Slots
  <2> QED BY <2>2, <2>3, <1>1 DEF Shape
<1>6. /\ "rin" \in Spots /\ Resting(p)["rin"] = {x} /\ Resting(r)["rin"] = {}
      /\ "lost" \in Spots /\ Resting(p)["lost"] = Firsts(p.lost)
      /\ Resting(r)["lost"] = Firsts(p.lost) \cup {x}
  <2>1. /\ "rin" \in Spots /\ Resting(p)["rin"] = {p.rin} \ {NoReq}
        /\ Resting(r)["rin"] = {r.rin} \ {NoReq}
        /\ "lost" \in Spots /\ Resting(p)["lost"] = Firsts(p.lost) /\ Resting(r)["lost"] = Firsts(r.lost)
    BY DEF Resting, Spots
  <2>2. Firsts(r.lost) = Firsts(p.lost) \cup {x}
    <3>1. Firsts(p.lost \cup {<<x, "unowned">>}) = Firsts(p.lost) \cup {x}
      BY FirstsOf
    <3>2. r.lost = p.lost \cup {<<x, "unowned">>}
      BY <1>4
    <3> QED BY <3>1, <3>2
  <2> QED BY <2>1, <2>2, <1>2, <1>3, <1>4
<1>7. /\ NoOverlap(Resting(p)) /\ OnceIn(p) /\ Owned(p) /\ Homed(p, k)
  BY DEF Sound
<1>8. MovesTo(p, r, "rin", "lost")
  <2>1. /\ Resting(r)["ain0"] = Resting(p)["ain0"] /\ Resting(r)["ain1"] = Resting(p)["ain1"]
        /\ Resting(r)["gin0"] = Resting(p)["gin0"] /\ Resting(r)["gin1"] = Resting(p)["gin1"]
        /\ Resting(r)["queue"] = Resting(p)["queue"] /\ Resting(r)["min"] = Resting(p)["min"]
        /\ Resting(r)["pend"] = Resting(p)["pend"] /\ Resting(r)["done"] = Resting(p)["done"]
    BY <1>4, RestingSame
  <2>2. \A s \in Spots \ {"rin", "lost"} : Resting(r)[s] = Resting(p)[s]
    BY <2>1 DEF Spots
  <2> QED BY <2>2, <1>6 DEF MovesTo
<1>9. OnceIn(r)
  <2>1. x \notin Firsts(p.lost)
    BY <1>6, <1>7, OnlyThere
  <2>2. \A l \in p.lost : l[1] # x
    BY <2>1 DEF Firsts
  <2> QED BY <2>2, <1>4, <1>7 DEF OnceIn
<1>10. Owned(r)
  BY <1>4, <1>7 DEF Owned, OwnerNoted
<1>11. Homed(r, k)
  <2>1. x.id \in p.clashed
    BY <1>2, <1>3, <1>7 DEF Owned, OwnerNoted
  <2> QED BY <2>1, <1>4, <1>7 DEF Homed
<1> QED
  BY <1>4, <1>5, <1>8, <1>9, <1>10, <1>11, MovedSound

(* CrossbarTLM: the request of a port is answered at it.                   *)
Crossed(p, g) == [p EXCEPT !.gin[g] = p.ain[g], !.ain[g] = NoReq]

LEMMA CrossedIs ==
  ASSUME NEW p \in Shape, NEW g \in Gens, NEW r, r = Crossed(p, g)
  PROVE  /\ r \in Shape
         /\ r.gin = [p.gin EXCEPT ![g] = p.ain[g]] /\ r.ain = [p.ain EXCEPT ![g] = NoReq]
         /\ r.issued = p.issued /\ r.queue = p.queue /\ r.owner = p.owner /\ r.rin = p.rin
         /\ r.min = p.min /\ r.pend = p.pend /\ r.lost = p.lost /\ r.done = p.done
         /\ r.clashed = p.clashed
<1>1. /\ [p.gin EXCEPT ![g] = p.ain[g]] \in [Gens -> Slots]
      /\ [p.ain EXCEPT ![g] = NoReq] \in [Gens -> Slots]
  BY DEF Shape, Slots
<1>2. r = [p EXCEPT !.gin = [p.gin EXCEPT ![g] = p.ain[g]], !.ain = [p.ain EXCEPT ![g] = NoReq]]
  BY DEF Crossed, Shape
<1> QED BY <1>1, <1>2 DEF Shape

LEMMA CrossedKeeps ==
  ASSUME NEW p, NEW k, NEW g \in Gens, Sound(p, k), p.ain[g] # NoReq, p.gin[g] = NoReq,
         NEW r, r = Crossed(p, g)
  PROVE  Sound(r, k)
<1>1. p \in Shape /\ p.gin \in [Gens -> Slots] /\ p.ain \in [Gens -> Slots]
  BY DEF Sound, Shape
<1>2. PICK x : x = p.ain[g]
  OBVIOUS
<1>3. x \in Reqs /\ x # NoReq
  BY <1>1, <1>2 DEF Slots
<1>4. /\ r \in Shape
      /\ r.gin = [p.gin EXCEPT ![g] = x] /\ r.ain = [p.ain EXCEPT ![g] = NoReq]
      /\ r.issued = p.issued /\ r.queue = p.queue /\ r.owner = p.owner /\ r.rin = p.rin
      /\ r.min = p.min /\ r.pend = p.pend /\ r.lost = p.lost /\ r.done = p.done
      /\ r.clashed = p.clashed
  <2>1. /\ r \in Shape
        /\ r.gin = [p.gin EXCEPT ![g] = p.ain[g]] /\ r.ain = [p.ain EXCEPT ![g] = NoReq]
        /\ r.issued = p.issued /\ r.queue = p.queue /\ r.owner = p.owner /\ r.rin = p.rin
        /\ r.min = p.min /\ r.pend = p.pend /\ r.lost = p.lost /\ r.done = p.done
        /\ r.clashed = p.clashed
    BY <1>1, CrossedIs
  <2> QED BY <2>1, <1>2
<1>5. PICK a : a = AinOf(g)
  OBVIOUS
<1>6. PICK b : b = GinOf(g)
  OBVIOUS
<1>7. /\ a \in Spots /\ b \in Spots /\ a # b /\ Resting(p)[a] = {x} /\ Resting(r)[a] = {}
      /\ Resting(p)[b] = {} /\ Resting(r)[b] = {x}
  <2>1. r.gin[g] = x /\ r.ain[g] = NoReq
    BY <1>1, <1>4
  <2>2. /\ a \in Spots /\ b \in Spots /\ a # b
        /\ Resting(p)[a] = {p.ain[g]} \ {NoReq} /\ Resting(p)[b] = {p.gin[g]} \ {NoReq}
    BY <1>5, <1>6, SlotsOfGens
  <2>3. Resting(r)[a] = {r.ain[g]} \ {NoReq} /\ Resting(r)[b] = {r.gin[g]} \ {NoReq}
    BY <1>5, <1>6, SlotsOfGens
  <2> QED BY <2>1, <2>2, <2>3, <1>2, <1>3
<1>8. OnceIn(p) /\ Owned(p) /\ Homed(p, k)
  BY DEF Sound
<1>9. MovesTo(p, r, a, b)
  <2>1. /\ Resting(r)["rin"] = Resting(p)["rin"]
        /\ Resting(r)["queue"] = Resting(p)["queue"] /\ Resting(r)["min"] = Resting(p)["min"]
        /\ Resting(r)["pend"] = Resting(p)["pend"] /\ Resting(r)["done"] = Resting(p)["done"]
        /\ Resting(r)["lost"] = Resting(p)["lost"]
    BY <1>4, RestingSame
  <2>2. \A h \in Gens \ {g} : r.gin[h] = p.gin[h]
    BY <1>1, <1>4
  <2>3. \A h \in Gens \ {g} : r.ain[h] = p.ain[h]
    BY <1>1, <1>4
  <2>4. \A s \in {"gin0", "gin1"} \ {b} : Resting(r)[s] = Resting(p)[s]
    <3>1. GinApart(p, r, g)
      BY <2>2, OtherGin
    <3> QED BY <3>1, <1>6 DEF GinApart
  <2>5. \A s \in {"ain0", "ain1"} \ {a} : Resting(r)[s] = Resting(p)[s]
    <3>1. AinApart(p, r, g)
      BY <2>3, OtherAin
    <3> QED BY <3>1, <1>5 DEF AinApart
  <2>6. \A s \in Spots \ {a, b} : Resting(r)[s] = Resting(p)[s]
    BY <2>1, <2>4, <2>5 DEF Spots
  <2> QED BY <2>6, <1>7 DEF MovesTo
<1>10. OnceIn(r) /\ Owned(r)
  BY <1>4, <1>8 DEF OnceIn, Owned, OwnerNoted
<1>11. Homed(r, k)
  <2>1. x.gen = g
    BY <1>2, <1>3, <1>8 DEF Homed
  <2>2. \A h \in Gens : r.gin[h] = p.gin[h] \/ (h = g /\ r.gin[h] = x)
    BY <1>1, <1>4
  <2>3. \A h \in Gens : r.ain[h] # NoReq => r.ain[h] = p.ain[h]
    BY <1>1, <1>4
  <2> QED BY <2>1, <2>2, <2>3, <1>4, <1>8 DEF Homed
<1> QED
  BY <1>4, <1>9, <1>10, <1>11, MovedSound

(* CacheTLM, MemoryTLM without delay: a request becomes its answer.        *)
Replied(p) == [p EXCEPT !.min = NoReq, !.rin = p.min]

LEMMA RepliedKeeps ==
  ASSUME NEW p, NEW k, Sound(p, k), p.min # NoReq, p.rin = NoReq, NEW r, r = Replied(p)
  PROVE  Sound(r, k) /\ r.min = NoReq /\ r.ain = p.ain /\ r.gin = p.gin
<1>1. p \in Shape
  BY DEF Sound
<1>2. PICK x : x = p.min
  OBVIOUS
<1>3. x \in Reqs /\ x # NoReq
  BY <1>1, <1>2 DEF Slots, Shape
<1>4. /\ r.min = NoReq /\ r.rin = x /\ r.owner = p.owner
      /\ r.issued = p.issued /\ r.ain = p.ain /\ r.gin = p.gin /\ r.queue = p.queue
      /\ r.pend = p.pend /\ r.done = p.done /\ r.lost = p.lost /\ r.clashed = p.clashed
  BY <1>1, <1>2 DEF Replied, Shape
<1>5. r \in Shape
  BY <1>1, <1>2, <1>3 DEF Replied, Shape, Slots
<1>6. /\ "rin" \in Spots /\ Resting(p)["rin"] = {} /\ Resting(r)["rin"] = {x}
      /\ "min" \in Spots /\ Resting(p)["min"] = {x} /\ Resting(r)["min"] = {}
  <2>1. /\ "rin" \in Spots /\ Resting(p)["rin"] = {p.rin} \ {NoReq}
        /\ Resting(r)["rin"] = {r.rin} \ {NoReq}
        /\ "min" \in Spots /\ Resting(p)["min"] = {p.min} \ {NoReq}
        /\ Resting(r)["min"] = {r.min} \ {NoReq}
    BY DEF Resting, Spots
  <2> QED BY <2>1, <1>2, <1>3, <1>4
<1>7. OnceIn(p) /\ Owned(p) /\ Homed(p, k)
  BY DEF Sound
<1>8. MovesTo(p, r, "min", "rin")
  <2>1. /\ Resting(r)["ain0"] = Resting(p)["ain0"] /\ Resting(r)["ain1"] = Resting(p)["ain1"]
        /\ Resting(r)["gin0"] = Resting(p)["gin0"] /\ Resting(r)["gin1"] = Resting(p)["gin1"]
        /\ Resting(r)["queue"] = Resting(p)["queue"] /\ Resting(r)["lost"] = Resting(p)["lost"]
        /\ Resting(r)["pend"] = Resting(p)["pend"] /\ Resting(r)["done"] = Resting(p)["done"]
    BY <1>4, RestingSame
  <2>2. \A s \in Spots \ {"min", "rin"} : Resting(r)[s] = Resting(p)[s]
    BY <2>1 DEF Spots
  <2> QED BY <2>2, <1>6 DEF MovesTo
<1>9. OnceIn(r)
  BY <1>4, <1>7 DEF OnceIn
<1>10. Owned(r)
  BY <1>2, <1>3, <1>4, <1>7 DEF Owned, OwnerNoted
<1>11. Homed(r, k)
  BY <1>4, <1>7 DEF Homed
<1> QED
  BY <1>4, <1>5, <1>8, <1>9, <1>10, <1>11, MovedSound

(* A cycle less to wait for every answer.                                  *)
Nearer(y) == [y EXCEPT !.left = @ - 1]
Pending == [req : Reqs, left : Int]

LEMMA ElapseKeeps ==
  ASSUME NEW p, NEW k, Sound(p, k), NEW r, r = Elapse(p)
  PROVE  Sound(r, k) /\ r.ain = p.ain /\ r.gin = p.gin /\ r.min = p.min /\ r.rin = p.rin
<1>1. p \in Shape /\ p.pend \in SUBSET Pending
  BY DEF Sound, Shape, Pending
<1>2. PICK D : D = {Nearer(y) : y \in p.pend}
  OBVIOUS
<1>3. r = [p EXCEPT !.pend = D]
  BY <1>1, <1>2 DEF Elapse, Nearer, Shape
<1>4. /\ r.min = p.min /\ r.rin = p.rin /\ r.owner = p.owner
      /\ r.issued = p.issued /\ r.ain = p.ain /\ r.gin = p.gin /\ r.queue = p.queue
      /\ r.pend = D /\ r.done = p.done /\ r.lost = p.lost /\ r.clashed = p.clashed
  BY <1>1, <1>3 DEF Shape
<1>5. \A y \in p.pend : Nearer(y) \in Pending /\ Nearer(y).req = y.req
  BY <1>1 DEF Nearer, Pending
<1>6. /\ \A z \in D : \E y \in p.pend : z = Nearer(y)
      /\ \A y \in p.pend : Nearer(y) \in D
  BY <1>2
<1>7. r \in Shape
  <2>1. D \in SUBSET Pending
    BY <1>5, <1>6
  <2> QED BY <2>1, <1>1, <1>3 DEF Shape, Pending
<1>8. Wanted(D) = Wanted(p.pend)
  BY <1>5, <1>6 DEF Wanted
<1>9. \A s \in Spots : Resting(r)[s] = Resting(p)[s]
  <2>1. /\ Resting(r)["ain0"] = Resting(p)["ain0"] /\ Resting(r)["ain1"] = Resting(p)["ain1"]
        /\ Resting(r)["gin0"] = Resting(p)["gin0"] /\ Resting(r)["gin1"] = Resting(p)["gin1"]
        /\ Resting(r)["queue"] = Resting(p)["queue"] /\ Resting(r)["lost"] = Resting(p)["lost"]
        /\ Resting(r)["min"] = Resting(p)["min"] /\ Resting(r)["rin"] = Resting(p)["rin"]
        /\ Resting(r)["done"] = Resting(p)["done"]
    BY <1>4, RestingSame
  <2>2. Resting(r)["pend"] = Wanted(r.pend) /\ Resting(p)["pend"] = Wanted(p.pend)
    BY DEF Resting, Spots
  <2> QED BY <2>1, <2>2, <1>4, <1>8 DEF Spots
<1>10. /\ NoOverlap(Resting(p)) /\ Numbered(AllOf(Resting(p)), p.issued) /\ OnceIn(p) /\ Owned(p)
       /\ Homed(p, k)
  BY DEF Sound
<1>11. NoOverlap(Resting(r)) /\ AllOf(Resting(r)) = AllOf(Resting(p))
  BY <1>9, <1>10 DEF NoOverlap, AllOf
<1>12. OnceIn(r)
  <2>1. \A y, z \in D : y.req = z.req => y = z
    <3> SUFFICES ASSUME NEW y \in D, NEW z \in D, y.req = z.req PROVE y = z
      OBVIOUS
    <3>1. PICK u \in p.pend : y = Nearer(u)
      BY <1>6
    <3>2. PICK w \in p.pend : z = Nearer(w)
      BY <1>6
    <3>3. u.req = w.req
      BY <3>1, <3>2, <1>5
    <3>4. u = w
      BY <3>3, <1>10 DEF OnceIn
    <3> QED BY <3>1, <3>2, <3>4
  <2> QED BY <2>1, <1>4, <1>10 DEF OnceIn
<1>13. Owned(r)
  <2>1. \A y \in p.pend : OwnerNoted(p, y.req)
    BY <1>10 DEF Owned
  <2>2. \A z \in D : OwnerNoted(p, z.req)
    <3> TAKE z \in D
    <3>1. PICK u \in p.pend : z = Nearer(u)
      BY <1>6
    <3>2. z.req = u.req
      BY <3>1, <1>5
    <3> QED BY <3>2, <2>1
  <2> QED BY <2>2, <1>4, <1>10 DEF Owned, OwnerNoted
<1>14. Homed(r, k)
  BY <1>4, <1>10 DEF Homed
<1> QED
  BY <1>4, <1>7, <1>10, <1>11, <1>12, <1>13, <1>14 DEF Sound

(* MemoryTLM with delay, VramControllerTLM: a request waits for its cycle. *)
Entered(p) ==
  [p EXCEPT !.row = p.min.row, !.min = NoReq,
            !.pend = @ \cup {[req |-> p.min, left |-> Latency(p, p.min)]}]

LEMMA EnteredKeeps ==
  ASSUME PathAssumption, NEW p, NEW k, Sound(p, k), p.min # NoReq, NEW r, r = Entered(p)
  PROVE  Sound(r, k) /\ r.min = NoReq /\ r.ain = p.ain /\ r.gin = p.gin /\ r.rin = p.rin
<1>1. p \in Shape /\ p.pend \in SUBSET Pending
  BY DEF Sound, Shape, Pending
<1>2. PICK x : x = p.min
  OBVIOUS
<1>3. x \in Reqs /\ x # NoReq /\ x.row \in RowsMade
  <2>1. x \in Reqs /\ x # NoReq
    BY <1>1, <1>2 DEF Slots, Shape
  <2> QED BY <2>1 DEF Reqs
<1>4. PICK y : y = [req |-> x, left |-> Latency(p, x)]
  OBVIOUS
<1>5. y \in Pending /\ y.req = x
  <2>1. Latency(p, x) \in Int
    BY DEF PathAssumption, Latency
  <2> QED BY <2>1, <1>3, <1>4 DEF Pending
<1>6. PICK D : D = p.pend \cup {y}
  OBVIOUS
<1>7. r = [p EXCEPT !.row = x.row, !.min = NoReq, !.pend = D]
  BY <1>1, <1>2, <1>4, <1>6 DEF Entered, Shape
<1>8. /\ r.min = NoReq /\ r.rin = p.rin /\ r.owner = p.owner
      /\ r.issued = p.issued /\ r.ain = p.ain /\ r.gin = p.gin /\ r.queue = p.queue
      /\ r.pend = D /\ r.done = p.done /\ r.lost = p.lost /\ r.clashed = p.clashed
  BY <1>1, <1>7 DEF Shape
<1>9. r \in Shape
  <2>1. D \in SUBSET Pending /\ NoReq \in Slots
    BY <1>1, <1>5, <1>6 DEF Slots
  <2> QED BY <2>1, <1>1, <1>3, <1>7 DEF Shape, Pending
<1>10. Wanted(D) = Wanted(p.pend) \cup {x}
  BY <1>5, <1>6 DEF Wanted
<1>11. /\ "pend" \in Spots /\ Resting(p)["pend"] = Wanted(p.pend)
       /\ Resting(r)["pend"] = Wanted(p.pend) \cup {x}
       /\ "min" \in Spots /\ Resting(p)["min"] = {x} /\ Resting(r)["min"] = {}
  <2>1. /\ "pend" \in Spots /\ Resting(p)["pend"] = Wanted(p.pend) /\ Resting(r)["pend"] = Wanted(r.pend)
        /\ "min" \in Spots /\ Resting(p)["min"] = {p.min} \ {NoReq}
        /\ Resting(r)["min"] = {r.min} \ {NoReq}
    BY DEF Resting, Spots
  <2> QED BY <2>1, <1>2, <1>3, <1>8, <1>10
<1>12. NoOverlap(Resting(p)) /\ OnceIn(p) /\ Owned(p) /\ Homed(p, k)
  BY DEF Sound
<1>13. MovesTo(p, r, "min", "pend")
  <2>1. /\ Resting(r)["ain0"] = Resting(p)["ain0"] /\ Resting(r)["ain1"] = Resting(p)["ain1"]
        /\ Resting(r)["gin0"] = Resting(p)["gin0"] /\ Resting(r)["gin1"] = Resting(p)["gin1"]
        /\ Resting(r)["queue"] = Resting(p)["queue"] /\ Resting(r)["lost"] = Resting(p)["lost"]
        /\ Resting(r)["rin"] = Resting(p)["rin"] /\ Resting(r)["done"] = Resting(p)["done"]
    BY <1>8, RestingSame
  <2>2. \A s \in Spots \ {"min", "pend"} : Resting(r)[s] = Resting(p)[s]
    BY <2>1 DEF Spots
  <2> QED BY <2>2, <1>11 DEF MovesTo
<1>14. OnceIn(r)
  <2>1. x \notin Wanted(p.pend)
    BY <1>11, <1>12, OnlyThere
  <2>2. \A z \in p.pend : z.req # x
    BY <2>1 DEF Wanted
  <2>3. \A z, u \in p.pend : z.req = u.req => z = u
    BY <1>12 DEF OnceIn
  <2>4. \A z, u \in D : z.req = u.req => z = u
    BY <2>2, <2>3, <1>5, <1>6
  <2> QED BY <2>4, <1>8, <1>12 DEF OnceIn
<1>15. Owned(r)
  <2>1. OwnerNoted(p, x)
    BY <1>2, <1>3, <1>12 DEF Owned
  <2>2. \A z \in D : OwnerNoted(p, z.req)
    BY <2>1, <1>5, <1>6, <1>12 DEF Owned
  <2> QED BY <2>2, <1>8, <1>12 DEF Owned, OwnerNoted
<1>16. Homed(r, k)
  BY <1>8, <1>12 DEF Homed
<1> QED
  BY <1>8, <1>9, <1>13, <1>14, <1>15, <1>16, MovedSound

(* Answers that are ripe and overwritten in the same tick are lost.         *)
Overwritten(D) == {<<y, "overwritten">> : y \in Wanted(D)}
Dropped(p, D) == [p EXCEPT !.pend = @ \ D, !.lost = @ \cup Overwritten(D)]

LEMMA OverwrittenIs ==
  ASSUME NEW D
  PROVE  /\ \A l \in Overwritten(D) : l[1] \in Wanted(D) /\ l[2] = "overwritten" /\ l = <<l[1], "overwritten">>
         /\ \A y \in Wanted(D) : <<y, "overwritten">> \in Overwritten(D)
BY DEF Overwritten

LEMMA DroppedKeeps ==
  ASSUME NEW p, NEW k, Sound(p, k), k \in {"memory_timed", "vram_timed"}, NEW D \in SUBSET p.pend,
         NEW r, r = Dropped(p, D)
  PROVE  /\ Sound(r, k) /\ r.pend = p.pend \ D
         /\ r.min = p.min /\ r.ain = p.ain /\ r.gin = p.gin /\ r.rin = p.rin
<1>1. p \in Shape /\ p.pend \in SUBSET Pending /\ \A y \in p.pend : y.req \in Reqs
  BY DEF Sound, Shape, Pending
<1>2. PICK E : E = p.pend \ D
  OBVIOUS
<1>3. PICK L : L = p.lost \cup Overwritten(D)
  OBVIOUS
<1>4. r = [p EXCEPT !.pend = E, !.lost = L]
  BY <1>1, <1>2, <1>3 DEF Dropped, Shape
<1>5. /\ r.min = p.min /\ r.rin = p.rin /\ r.owner = p.owner
      /\ r.issued = p.issued /\ r.ain = p.ain /\ r.gin = p.gin /\ r.queue = p.queue
      /\ r.pend = E /\ r.done = p.done /\ r.lost = L /\ r.clashed = p.clashed
  BY <1>1, <1>4 DEF Shape
<1>6. /\ \A l \in Overwritten(D) : l[1] \in Wanted(D) /\ l[2] = "overwritten" /\ l = <<l[1], "overwritten">>
      /\ \A y \in Wanted(D) : <<y, "overwritten">> \in Overwritten(D)
  BY OverwrittenIs
<1>7. /\ Wanted(D) \subseteq Wanted(p.pend) /\ Wanted(D) \subseteq Reqs
      /\ Wanted(p.pend) = Wanted(E) \cup Wanted(D)
  BY <1>1, <1>2 DEF Wanted
<1>8. r \in Shape
  <2>1. E \in SUBSET Pending
    BY <1>1, <1>2
  <2>2. Overwritten(D) \in SUBSET (Reqs \X {"overwritten", "unowned"})
    BY <1>7 DEF Overwritten
  <2>3. L \in SUBSET (Reqs \X {"overwritten", "unowned"})
    BY <2>2, <1>1, <1>3 DEF Shape
  <2> QED BY <2>1, <2>3, <1>1, <1>4 DEF Shape, Pending
<1>9. /\ NoOverlap(Resting(p)) /\ OnceIn(p) /\ Owned(p) /\ Homed(p, k)
  BY DEF Sound
<1>10. \A y, z \in p.pend : y.req = z.req => y = z
  BY <1>9 DEF OnceIn
<1>11. Wanted(E) \cap Wanted(D) = {}
  BY <1>2, <1>10 DEF Wanted
<1>12. Firsts(Overwritten(D)) = Wanted(D)
  <2>1. \A l \in Overwritten(D) : l[1] \in Wanted(D)
    BY <1>6
  <2>2. \A y \in Wanted(D) : \E l \in Overwritten(D) : l[1] = y
    <3> TAKE y \in Wanted(D)
    <3>1. <<y, "overwritten">>[1] = y /\ <<y, "overwritten">> \in Overwritten(D)
      BY <1>6
    <3> QED BY <3>1
  <2> QED BY <2>1, <2>2 DEF Firsts
<1>13. Firsts(L) = Firsts(p.lost) \cup Wanted(D)
  BY <1>3, <1>12 DEF Firsts
<1>14. /\ "pend" \in Spots /\ Resting(p)["pend"] = Wanted(p.pend) /\ Resting(r)["pend"] = Wanted(E)
       /\ "lost" \in Spots /\ Resting(p)["lost"] = Firsts(p.lost) /\ Resting(r)["lost"] = Firsts(L)
  <2>1. /\ "pend" \in Spots /\ Resting(p)["pend"] = Wanted(p.pend) /\ Resting(r)["pend"] = Wanted(r.pend)
        /\ "lost" \in Spots /\ Resting(p)["lost"] = Firsts(p.lost) /\ Resting(r)["lost"] = Firsts(r.lost)
    BY DEF Resting, Spots
  <2> QED BY <2>1, <1>5
<1>15. MovesTo(p, r, "pend", "lost")
  <2>1. /\ Resting(r)["ain0"] = Resting(p)["ain0"] /\ Resting(r)["ain1"] = Resting(p)["ain1"]
        /\ Resting(r)["gin0"] = Resting(p)["gin0"] /\ Resting(r)["gin1"] = Resting(p)["gin1"]
        /\ Resting(r)["queue"] = Resting(p)["queue"] /\ Resting(r)["min"] = Resting(p)["min"]
        /\ Resting(r)["rin"] = Resting(p)["rin"] /\ Resting(r)["done"] = Resting(p)["done"]
    BY <1>5, RestingSame
  <2>2. \A s \in Spots \ {"pend", "lost"} : Resting(r)[s] = Resting(p)[s]
    BY <2>1 DEF Spots
  <2>3. Wanted(D) = Wanted(p.pend) \ Wanted(E)
    BY <1>7, <1>11
  <2> QED BY <2>2, <2>3, <1>7, <1>13, <1>14 DEF MovesTo
<1>16. OnceIn(r)
  <2>1. \A l \in p.lost : l[1] \notin Wanted(D)
    <3>1. \A y \in Wanted(p.pend) : y \notin Firsts(p.lost)
      BY <1>9, <1>14, OnlyThere
    <3> QED BY <3>1, <1>7 DEF Firsts
  <2>2. \A l, m \in p.lost : l[1] = m[1] => l = m
    BY <1>9 DEF OnceIn
  <2>3. ASSUME NEW l \in L, NEW m \in L, l[1] = m[1]  PROVE  l = m
    <3>1. CASE l \in p.lost /\ m \in p.lost
      BY <3>1, <2>2, <2>3
    <3>2. CASE l \in Overwritten(D) /\ m \in Overwritten(D)
      BY <3>2, <2>3, <1>6
    <3>3. CASE l \in p.lost /\ m \in Overwritten(D)
      BY <3>3, <2>1, <2>3, <1>6
    <3>4. CASE l \in Overwritten(D) /\ m \in p.lost
      BY <3>4, <2>1, <2>3, <1>6
    <3> QED BY <3>1, <3>2, <3>3, <3>4, <1>3
  <2>4. \A y, z \in E : y.req = z.req => y = z
    BY <1>2, <1>10
  <2> QED BY <2>3, <2>4, <1>5, <1>9 DEF OnceIn
<1>17. Owned(r)
  <2>1. \A y \in E : OwnerNoted(p, y.req)
    BY <1>2, <1>9 DEF Owned
  <2> QED BY <2>1, <1>5, <1>9 DEF Owned, OwnerNoted
<1>18. Homed(r, k)
  <2>1. \A l \in L : \/ l[2] = "overwritten" /\ k \in {"memory_timed", "vram_timed"}
                     \/ l[2] = "unowned" /\ l[1].id \in p.clashed
    BY <1>3, <1>6, <1>9 DEF Homed
  <2> QED BY <2>1, <1>5, <1>9 DEF Homed
<1> QED
  BY <1>2, <1>5, <1>8, <1>15, <1>16, <1>17, <1>18, MovedSound

(* The last of them is the answer in the slot.                             *)
Backed(p, x) == [p EXCEPT !.pend = @ \ {x}, !.rin = x.req]

LEMMA BackedKeeps ==
  ASSUME NEW p, NEW k, Sound(p, k), NEW y \in p.pend, p.rin = NoReq, NEW r, r = Backed(p, y)
  PROVE  Sound(r, k) /\ r.min = p.min /\ r.ain = p.ain /\ r.gin = p.gin
<1>1. p \in Shape /\ p.pend \in SUBSET Pending
  BY DEF Sound, Shape, Pending
<1>2. PICK x : x = y.req
  OBVIOUS
<1>3. x \in Reqs /\ x # NoReq /\ x \in Wanted(p.pend)
  <2>1. x \in Reqs /\ x \in Wanted(p.pend)
    BY <1>1, <1>2 DEF Pending, Wanted
  <2> QED BY <2>1, NoReqIs
<1>4. PICK E : E = p.pend \ {y}
  OBVIOUS
<1>5. r = [p EXCEPT !.pend = E, !.rin = x]
  BY <1>1, <1>2, <1>4 DEF Backed, Shape
<1>6. /\ r.min = p.min /\ r.rin = x /\ r.owner = p.owner
      /\ r.issued = p.issued /\ r.ain = p.ain /\ r.gin = p.gin /\ r.queue = p.queue
      /\ r.pend = E /\ r.done = p.done /\ r.lost = p.lost /\ r.clashed = p.clashed
  BY <1>1, <1>5 DEF Shape
<1>7. r \in Shape
  <2>1. E \in SUBSET Pending /\ x \in Slots
    BY <1>1, <1>3, <1>4 DEF Slots
  <2> QED BY <2>1, <1>1, <1>5 DEF Shape, Pending
<1>8. /\ OnceIn(p) /\ Owned(p) /\ Homed(p, k)
  BY DEF Sound
<1>9. \A z, u \in p.pend : z.req = u.req => z = u
  BY <1>8 DEF OnceIn
<1>10. Wanted(E) = Wanted(p.pend) \ {x}
  BY <1>2, <1>4, <1>9 DEF Wanted
<1>11. /\ "pend" \in Spots /\ Resting(p)["pend"] = Wanted(p.pend) /\ Resting(r)["pend"] = Wanted(E)
       /\ "rin" \in Spots /\ Resting(p)["rin"] = {} /\ Resting(r)["rin"] = {x}
  <2>1. /\ "pend" \in Spots /\ Resting(p)["pend"] = Wanted(p.pend) /\ Resting(r)["pend"] = Wanted(r.pend)
        /\ "rin" \in Spots /\ Resting(p)["rin"] = {p.rin} \ {NoReq}
        /\ Resting(r)["rin"] = {r.rin} \ {NoReq}
    BY DEF Resting, Spots
  <2> QED BY <2>1, <1>3, <1>6
<1>12. MovesTo(p, r, "pend", "rin")
  <2>1. /\ Resting(r)["ain0"] = Resting(p)["ain0"] /\ Resting(r)["ain1"] = Resting(p)["ain1"]
        /\ Resting(r)["gin0"] = Resting(p)["gin0"] /\ Resting(r)["gin1"] = Resting(p)["gin1"]
        /\ Resting(r)["queue"] = Resting(p)["queue"] /\ Resting(r)["min"] = Resting(p)["min"]
        /\ Resting(r)["lost"] = Resting(p)["lost"] /\ Resting(r)["done"] = Resting(p)["done"]
    BY <1>6, RestingSame
  <2>2. \A s \in Spots \ {"pend", "rin"} : Resting(r)[s] = Resting(p)[s]
    BY <2>1 DEF Spots
  <2>3. {x} = Wanted(p.pend) \ Wanted(E)
    BY <1>3, <1>10
  <2> QED BY <2>2, <2>3, <1>10, <1>11 DEF MovesTo
<1>13. OnceIn(r)
  <2>1. \A z, u \in E : z.req = u.req => z = u
    BY <1>4, <1>9
  <2> QED BY <2>1, <1>6, <1>8 DEF OnceIn
<1>14. Owned(r)
  <2>1. OwnerNoted(p, x) /\ \A z \in E : OwnerNoted(p, z.req)
    BY <1>2, <1>4, <1>8 DEF Owned
  <2> QED BY <2>1, <1>6, <1>8 DEF Owned, OwnerNoted
<1>15. Homed(r, k)
  BY <1>6, <1>8 DEF Homed
<1> QED
  BY <1>6, <1>7, <1>12, <1>13, <1>14, <1>15, MovedSound

(* The parts of a cycle.                                                   *)
News == {NoReq} \cup {[gen |-> 0, id |-> 0, row |-> k[1], op |-> k[2]] : k \in Kinds}

LEMMA GenTickSound ==
  ASSUME NEW p, NEW k, NEW g \in Gens, NEW new \in News, Sound(p, k), p.ain[g] = NoReq,
         NEW r, r = GenTick(p, g, new)
  PROVE  /\ Sound(r, k) /\ r.min = p.min /\ r.gin[g] = NoReq
         /\ \A h \in Gens \ {g} : r.gin[h] = p.gin[h] /\ r.ain[h] = p.ain[h]
<1>1. PICK t : t = IF p.gin[g] = NoReq THEN p ELSE Took(p, g)
  OBVIOUS
<1>2. /\ Sound(t, k) /\ t.min = p.min /\ t.gin[g] = NoReq /\ t.ain = p.ain
      /\ \A h \in Gens \ {g} : t.gin[h] = p.gin[h]
  <2>1. CASE p.gin[g] = NoReq
    BY <2>1, <1>1
  <2>2. CASE p.gin[g] # NoReq
    <3>1. t = Took(p, g)
      BY <2>2, <1>1
    <3>2. Sound(t, k)
      BY <3>1, <2>2, TookKeeps
    <3>3. p \in Shape /\ p.gin \in [Gens -> Slots]
      BY DEF Sound, Shape
    <3>4. t.gin = [p.gin EXCEPT ![g] = NoReq] /\ t.ain = p.ain /\ t.min = p.min
      BY <3>1, <3>3, <2>2, TookIs
    <3> QED BY <3>2, <3>3, <3>4
  <2> QED BY <2>1, <2>2
<1>3. PICK x : x = [new EXCEPT !.gen = g, !.id = t.issued[g]]
  OBVIOUS
<1>4. t \in Shape /\ t.issued[g] \in Nat /\ t.ain \in [Gens -> Slots] /\ t.ain[g] = NoReq
  BY <1>2 DEF Sound, Shape
<1>5. new # NoReq => x \in Reqs /\ x.gen = g /\ x.id = t.issued[g]
  <2> SUFFICES ASSUME new # NoReq PROVE x \in Reqs /\ x.gen = g /\ x.id = t.issued[g]
    OBVIOUS
  <2>1. PICK c \in Kinds : new = [gen |-> 0, id |-> 0, row |-> c[1], op |-> c[2]]
    BY DEF News
  <2>2. x = [gen |-> g, id |-> t.issued[g], row |-> c[1], op |-> c[2]]
    BY <2>1, <1>3
  <2>3. c[1] \in RowsMade /\ c[2] \in {d[2] : d \in Kinds}
    BY DEF RowsMade
  <2> QED BY <2>2, <2>3, <1>4 DEF Reqs
<1>6. r = t \/ (new # NoReq /\ r = Issue(t, g, x))
  <2>1. r = IF new = NoReq \/ t.completed[g] >= PerGen \/ t.issued[g] >= PerGen
            THEN t
            ELSE LET sent == [t EXCEPT !.issued[g] = @ + 1]
                 IN  IF sent.ain[g] # NoReq THEN Lose(sent, {x}, "occupied")
                     ELSE [sent EXCEPT !.ain[g] = x]
    BY <1>1, <1>3 DEF GenTick, Took, Slot
  <2>2. [t EXCEPT !.issued[g] = @ + 1].ain[g] = NoReq
    BY <1>4 DEF Shape
  <2>3. [[t EXCEPT !.issued[g] = @ + 1] EXCEPT !.ain[g] = x] = Issue(t, g, x)
    BY <1>4 DEF Shape, Issue
  <2> QED BY <2>1, <2>2, <2>3
<1>7. CASE r = t
  BY <1>7, <1>2
<1>8. CASE new # NoReq /\ r = Issue(t, g, x)
  <2>1. x \in Reqs /\ x.gen = g /\ x.id = t.issued[g] /\ r = Issue(t, g, x)
    BY <1>5, <1>8
  <2>2. Sound(r, k)
    BY <2>1, <1>2, <1>4, IssueKeeps
  <2>3. r.ain = [t.ain EXCEPT ![g] = x] /\ r.gin = t.gin /\ r.min = t.min
    BY <2>1, <1>4 DEF Issue, Shape
  <2> QED BY <2>2, <2>3, <1>2, <1>4
<1> QED
  BY <1>6, <1>7, <1>8

LEMMA AcceptSound ==
  ASSUME NEW p, NEW k, NEW g \in Gens, Sound(p, k), NEW r, r = Accept(p, g)
  PROVE  /\ Sound(r, k) /\ r.min = p.min /\ r.gin = p.gin /\ r.ain[g] = NoReq
         /\ \A h \in Gens \ {g} : r.ain[h] = p.ain[h]
<1>1. CASE p.ain[g] = NoReq
  BY <1>1 DEF Accept, Slot
<1>2. CASE p.ain[g] # NoReq
  <2>1. r = Accepted(p, g)
    BY <1>2 DEF Accept, Accepted, Slot
  <2>2. Sound(r, k)
    BY <2>1, <1>2, AcceptedKeeps
  <2>3. p \in Shape /\ p.ain \in [Gens -> Slots]
    BY DEF Sound, Shape
  <2>4. r.ain = [p.ain EXCEPT ![g] = NoReq] /\ r.gin = p.gin /\ r.min = p.min
    BY <2>1, <2>3, <1>2, AcceptedIs
  <2> QED BY <2>2, <2>3, <2>4
<1> QED BY <1>1, <1>2

LEMMA ServeSound ==
  ASSUME NEW p, NEW k, Sound(p, k), p.min = NoReq, NEW r, r = Serve(p)
  PROVE  Sound(r, k) /\ r.ain = p.ain /\ r.gin = p.gin
<1>1. CASE p.queue = << >>
  BY <1>1 DEF Serve
<1>2. CASE p.queue # << >>
  <2>1. p \in Shape
    BY DEF Sound
  <2>2. r = Served(p)
    BY <1>2, <2>1 DEF Serve, Served, Slot, Shape
  <2> QED BY <2>2, <1>2, ServedKeeps
<1> QED BY <1>1, <1>2

LEMMA ReturnSound ==
  ASSUME NEW p, NEW k, Sound(p, k), \A h \in Gens : p.gin[h] = NoReq, NEW r, r = ReturnAnswer(p)
  PROVE  Sound(r, k) /\ r.ain = p.ain /\ r.min = p.min /\ r.rin = NoReq
<1>1. CASE p.rin = NoReq
  BY <1>1 DEF ReturnAnswer, Slot
<1>2. CASE p.rin # NoReq /\ p.rin.id \notin DOMAIN p.owner
  <2>1. p \in Shape
    BY DEF Sound
  <2>2. r = Unowned(p)
    <3>1. r = Lose([p EXCEPT !.rin = NoReq], {p.rin}, "unowned")
      BY <1>2 DEF ReturnAnswer, Slot
    <3>2. {<<x, "unowned">> : x \in {p.rin}} = {<<p.rin, "unowned">>}
      OBVIOUS
    <3>3. PICK U : U = {<<p.rin, "unowned">>}
      OBVIOUS
    <3>4. r = [[p EXCEPT !.rin = NoReq] EXCEPT !.lost = @ \cup U]
      BY <3>1, <3>2, <3>3 DEF Lose
    <3>5. Unowned(p) = [p EXCEPT !.rin = NoReq, !.lost = @ \cup U]
      BY <3>3 DEF Unowned
    <3> QED BY <3>4, <3>5, <2>1 DEF Shape
  <2>3. Sound(r, k)
    BY <2>2, <1>2, UnownedKeeps
  <2> QED BY <2>1, <2>2, <2>3 DEF Unowned, Shape
<1>3. CASE p.rin # NoReq /\ p.rin.id \in DOMAIN p.owner
  <2>1. p \in Shape
    BY DEF Sound
  <2>2. PICK g : g = p.owner[p.rin.id]
    OBVIOUS
  <2>3. g \in Gens
    <3>1. PICK S \in SUBSET Nat : p.owner \in [S -> Gens]
      BY <2>1 DEF Shape
    <3> QED BY <3>1, <2>2, <1>3
  <2>4. r = Returned(p, g)
    <3>1. PICK o : o = Without(p, p.rin.id)
      OBVIOUS
    <3>2. PICK e : e = [[p EXCEPT !.rin = NoReq] EXCEPT !.owner = [u \in DOMAIN @ \ {p.rin.id} |-> @[u]]]
      OBVIOUS
    <3>3. e = [p EXCEPT !.rin = NoReq, !.owner = o]
      BY <3>1, <3>2, <2>1 DEF Without, Shape
    <3>4. e.gin[g] = NoReq
      BY <3>3, <2>1, <2>3 DEF Shape
    <3>5. r = IF e.gin[g] # NoReq THEN Lose(e, {p.rin}, "occupied") ELSE [e EXCEPT !.gin[g] = p.rin]
      BY <3>2, <2>2, <1>3 DEF ReturnAnswer, Slot
    <3>6. [[p EXCEPT !.rin = NoReq, !.owner = o] EXCEPT !.gin[g] = p.rin] = Returned(p, g)
      BY <3>1, <2>1 DEF Returned, Shape
    <3> QED BY <3>3, <3>4, <3>5, <3>6
  <2>5. Sound(r, k)
    BY <2>2, <2>3, <2>4, <1>3, ReturnedKeeps
  <2>6. r.ain = p.ain /\ r.min = p.min /\ r.rin = NoReq
    BY <2>1, <2>4 DEF Returned, Shape
  <2> QED BY <2>5, <2>6
<1> QED BY <1>1, <1>2, <1>3

LEMMA ArbSound ==
  ASSUME NEW p, NEW k, Sound(p, k), p.min = NoReq, \A h \in Gens : p.gin[h] = NoReq,
         NEW r, r = ArbTick(p)
  PROVE  Sound(r, k) /\ (\A h \in Gens : r.ain[h] = NoReq) /\ r.rin = NoReq
<1>1. PICK a : a = Accept(p, 0)
  OBVIOUS
<1>2. PICK b : b = Accept(a, 1)
  OBVIOUS
<1>3. PICK c : c = Serve(b)
  OBVIOUS
<1>4. r = ReturnAnswer(c)
  BY <1>1, <1>2, <1>3 DEF ArbTick
<1>5. 0 \in Gens /\ 1 \in Gens /\ Gens = {0, 1}
  BY DEF Gens
<1>6. Sound(a, k) /\ a.min = p.min /\ a.gin = p.gin /\ a.ain[0] = NoReq
  BY <1>1, <1>5, AcceptSound
<1>7. /\ Sound(b, k) /\ b.min = a.min /\ b.gin = a.gin /\ b.ain[1] = NoReq
      /\ \A h \in Gens \ {1} : b.ain[h] = a.ain[h]
  BY <1>2, <1>5, <1>6, AcceptSound
<1>8. Sound(c, k) /\ c.ain = b.ain /\ c.gin = b.gin
  BY <1>3, <1>6, <1>7, ServeSound
<1>9. Sound(r, k) /\ r.ain = c.ain /\ r.rin = NoReq
  BY <1>4, <1>6, <1>7, <1>8, ReturnSound
<1> QED
  BY <1>5, <1>6, <1>7, <1>8, <1>9

LEMMA XbarSound ==
  ASSUME NEW p, NEW k, Sound(p, k), \A h \in Gens : p.gin[h] = NoReq, NEW r, r = XbarTick(p)
  PROVE  Sound(r, k) /\ r.min = p.min /\ \A h \in Gens : r.ain[h] = NoReq
<1>1. PICK a : a = IF p.ain[0] = NoReq THEN p ELSE Crossed(p, 0)
  OBVIOUS
<1>2. PICK b : b = IF a.ain[1] = NoReq THEN a ELSE Crossed(a, 1)
  OBVIOUS
<1>3. 0 \in Gens /\ 1 \in Gens /\ Gens = {0, 1}
  BY DEF Gens
<1>4. p \in Shape /\ p.ain \in [Gens -> Slots] /\ p.gin \in [Gens -> Slots]
  BY DEF Sound, Shape
<1>5. /\ Sound(a, k) /\ a = [p EXCEPT !.gin = a.gin, !.ain = a.ain]
      /\ a.gin = [p.gin EXCEPT ![0] = p.ain[0]] /\ a.ain = [p.ain EXCEPT ![0] = NoReq]
  <2>1. CASE p.ain[0] = NoReq
    <3>1. a = p
      BY <2>1, <1>1
    <3>2. p.gin = [p.gin EXCEPT ![0] = p.ain[0]] /\ p.ain = [p.ain EXCEPT ![0] = NoReq]
      BY <2>1, <1>3, <1>4
    <3>3. p = [p EXCEPT !.gin = p.gin, !.ain = p.ain]
      BY <1>4 DEF Shape
    <3> QED BY <3>1, <3>2, <3>3
  <2>2. CASE p.ain[0] # NoReq
    <3>1. a = Crossed(p, 0)
      BY <2>2, <1>1
    <3>2. Sound(a, k)
      BY <3>1, <2>2, <1>3, CrossedKeeps
    <3>3. /\ a.gin = [p.gin EXCEPT ![0] = p.ain[0]] /\ a.ain = [p.ain EXCEPT ![0] = NoReq]
          /\ a = [p EXCEPT !.gin = a.gin, !.ain = a.ain]
      BY <3>1, <1>3, <1>4 DEF Crossed, Shape
    <3> QED BY <3>2, <3>3
  <2> QED BY <2>1, <2>2
<1>6. a \in Shape /\ a.ain \in [Gens -> Slots] /\ a.gin \in [Gens -> Slots] /\ a.gin[1] = NoReq
  <2>1. a \in Shape
    BY <1>5 DEF Sound
  <2> QED BY <2>1, <1>3, <1>4, <1>5 DEF Shape
<1>7. /\ Sound(b, k) /\ b = [a EXCEPT !.gin = b.gin, !.ain = b.ain]
      /\ b.gin = [a.gin EXCEPT ![1] = a.ain[1]] /\ b.ain = [a.ain EXCEPT ![1] = NoReq]
  <2>1. CASE a.ain[1] = NoReq
    <3>1. b = a
      BY <2>1, <1>2
    <3>2. a.gin = [a.gin EXCEPT ![1] = a.ain[1]] /\ a.ain = [a.ain EXCEPT ![1] = NoReq]
      BY <2>1, <1>3, <1>6
    <3>3. a = [a EXCEPT !.gin = a.gin, !.ain = a.ain]
      BY <1>6 DEF Shape
    <3> QED BY <3>1, <3>2, <3>3, <1>5
  <2>2. CASE a.ain[1] # NoReq
    <3>1. b = Crossed(a, 1)
      BY <2>2, <1>2
    <3>2. Sound(b, k)
      BY <3>1, <2>2, <1>3, <1>5, <1>6, CrossedKeeps
    <3>3. /\ b.gin = [a.gin EXCEPT ![1] = a.ain[1]] /\ b.ain = [a.ain EXCEPT ![1] = NoReq]
          /\ b = [a EXCEPT !.gin = b.gin, !.ain = b.ain]
      BY <3>1, <1>3, <1>6 DEF Crossed, Shape
    <3> QED BY <3>2, <3>3
  <2> QED BY <2>1, <2>2
<1>8. b.gin = p.ain /\ b.ain = [h \in Gens |-> NoReq]
  BY <1>3, <1>4, <1>5, <1>7
<1>9. b = [p EXCEPT !.gin = p.ain, !.ain = [h \in Gens |-> NoReq]]
  BY <1>4, <1>5, <1>7, <1>8 DEF Shape
<1>10. r = [p EXCEPT !.gin = p.ain, !.ain = [h \in Gens |-> NoReq]]
  <2>1. {h \in Gens : Slot(p.ain[h]) /\ Slot(p.gin[h])} = {}
    BY DEF Slot
  <2>2. {<<p.ain[g], "occupied">> : g \in {h \in Gens : Slot(p.ain[h]) /\ Slot(p.gin[h])}} = {}
    BY <2>1
  <2>3. [g \in Gens |-> IF Slot(p.gin[g]) THEN p.gin[g] ELSE p.ain[g]] = p.ain
    BY <1>4 DEF Slot
  <2>4. PICK O : O = {<<p.ain[g], "occupied">> : g \in {h \in Gens : Slot(p.ain[h]) /\ Slot(p.gin[h])}}
    OBVIOUS
  <2>5. PICK G : G = [g \in Gens |-> IF Slot(p.gin[g]) THEN p.gin[g] ELSE p.ain[g]]
    OBVIOUS
  <2>6. r = [p EXCEPT !.gin = G, !.ain = [g \in Gens |-> NoReq], !.lost = @ \cup O]
    BY <2>4, <2>5, <1>4 DEF XbarTick, Shape
  <2> QED BY <2>2, <2>3, <2>4, <2>5, <2>6, <1>4 DEF Shape
<1>11. r = b /\ r.min = p.min
  BY <1>4, <1>9, <1>10 DEF Shape
<1> QED
  BY <1>7, <1>8, <1>11

LEMMA AtOnceSound ==
  ASSUME NEW p, NEW k, Sound(p, k), p.rin = NoReq, NEW r, r = AtOnce(p)
  PROVE  Sound(r, k) /\ r.min = NoReq /\ r.ain = p.ain
<1>1. CASE p.min = NoReq
  BY <1>1 DEF AtOnce, Slot
<1>2. CASE p.min # NoReq
  <2>1. p \in Shape
    BY DEF Sound
  <2>2. PICK q : q = Lose([p EXCEPT !.min = NoReq], {}, "overwritten")
    OBVIOUS
  <2>3. q = [p EXCEPT !.min = NoReq]
    <3>1. {<<x, "overwritten">> : x \in {}} = {}
      OBVIOUS
    <3>2. PICK E : E = {<<x, "overwritten">> : x \in {}}
      OBVIOUS
    <3>3. q = [[p EXCEPT !.min = NoReq] EXCEPT !.lost = @ \cup E]
      BY <2>2, <3>2 DEF Lose
    <3> QED BY <3>1, <3>2, <3>3, <2>1 DEF Shape
  <2>4. q.rin = NoReq
    BY <2>1, <2>3 DEF Shape
  <2>5. r = [q EXCEPT !.rin = p.min]
    BY <2>2, <2>4, <1>2 DEF AtOnce, AnswerWith, Slot
  <2>6. r = Replied(p)
    BY <2>1, <2>3, <2>5 DEF Replied, Shape
  <2> QED BY <2>6, <1>2, RepliedKeeps
<1> QED BY <1>1, <1>2

LEMMA TakeSound ==
  ASSUME PathAssumption, NEW p, NEW k, Sound(p, k), NEW r, r = TakeReq(p)
  PROVE  Sound(r, k) /\ r.min = NoReq /\ r.ain = p.ain /\ r.rin = p.rin
<1>1. CASE p.min = NoReq
  BY <1>1 DEF TakeReq, Slot
<1>2. CASE p.min # NoReq
  <2>1. r = Entered(p)
    BY <1>2 DEF TakeReq, Entered, Slot
  <2> QED BY <2>1, <1>2, EnteredKeeps
<1> QED BY <1>1, <1>2

LEMMA DrainedSound ==
  ASSUME NEW p, NEW k, Sound(p, k), k \in {"memory_timed", "vram_timed"}, p.rin = NoReq,
         NEW r \in Drained(p)
  PROVE  Sound(r, k) /\ r.min = p.min /\ r.ain = p.ain
<1>1. PICK ripe : ripe = {y \in p.pend : y.left <= 0}
  OBVIOUS
<1>2. CASE ripe = {}
  BY <1>1, <1>2 DEF Drained
<1>3. CASE ripe # {}
  <2>1. p \in Shape
    BY DEF Sound
  <2>2. PICK q : q = [p EXCEPT !.pend = @ \ ripe]
    OBVIOUS
  <2>3. PICK x \in ripe : r = AnswerWith(q, x.req, {y.req : y \in ripe \ {x}})
    BY <1>1, <1>3, <2>2 DEF Drained
  <2>4. PICK D : D = ripe \ {x}
    OBVIOUS
  <2>5. D \in SUBSET p.pend /\ x \in p.pend /\ x \notin D /\ ripe = D \cup {x}
    BY <2>3, <2>4, <1>1
  <2>6. PICK d : d = Dropped(p, D)
    OBVIOUS
  <2>7. Sound(d, k) /\ d.pend = p.pend \ D /\ d.rin = NoReq /\ d.min = p.min /\ d.ain = p.ain
    BY <2>5, <2>6, DroppedKeeps
  <2>8. PICK L : L = Overwritten(D)
    OBVIOUS
  <2>9. r = [p EXCEPT !.pend = @ \ ripe, !.lost = @ \cup L, !.rin = x.req]
    <3>1. {<<z, "overwritten">> : z \in {y.req : y \in ripe \ {x}}} = L
      BY <2>4, <2>8 DEF Overwritten, Wanted
    <3>2. PICK e : e = Lose(q, {y.req : y \in ripe \ {x}}, "overwritten")
      OBVIOUS
    <3>3. e = [q EXCEPT !.lost = @ \cup L]
      BY <3>1, <3>2 DEF Lose
    <3>4. e = [p EXCEPT !.pend = @ \ ripe, !.lost = @ \cup L]
      BY <3>3, <2>1, <2>2 DEF Shape
    <3>5. q.rin = NoReq
      BY <2>1, <2>2 DEF Shape
    <3>6. r = [e EXCEPT !.rin = x.req]
      BY <3>2, <3>5, <2>3 DEF AnswerWith, Slot
    <3> QED BY <3>4, <3>6, <2>1 DEF Shape
  <2>10. r = Backed(d, x)
    <3>1. d = [p EXCEPT !.pend = @ \ D, !.lost = @ \cup L]
      BY <2>6, <2>8 DEF Dropped
    <3>2. Backed(d, x) = [p EXCEPT !.pend = (p.pend \ D) \ {x}, !.lost = @ \cup L, !.rin = x.req]
      BY <3>1, <2>1 DEF Backed, Shape
    <3>3. (p.pend \ D) \ {x} = p.pend \ ripe
      BY <2>5
    <3> QED BY <3>2, <3>3, <2>9, <2>1 DEF Shape
  <2>11. x \in d.pend
    BY <2>5, <2>7
  <2> QED BY <2>7, <2>10, <2>11, BackedKeeps
<1> QED BY <1>2, <1>3

LEMMA MemSound ==
  ASSUME PathAssumption, NEW p, Sound(p, kind), p.rin = NoReq, NEW r \in MemTicks(p),
         kind \in {"cache", "memory", "memory_timed", "vram_timed"}
  PROVE  Sound(r, kind) /\ r.min = NoReq /\ r.ain = p.ain
<1>1. CASE kind \in {"cache", "memory"}
  <2>1. r = AtOnce(p)
    BY <1>1 DEF MemTicks
  <2> QED BY <2>1, AtOnceSound
<1>2. CASE kind \in {"memory_timed", "vram_timed"}
  <2>1. PICK e : e = Elapse(p)
    OBVIOUS
  <2>2. PICK t : t = TakeReq(e)
    OBVIOUS
  <2>3. r \in Drained(t)
    BY <2>1, <2>2, <1>2 DEF MemTicks
  <2>4. Sound(e, kind) /\ e.ain = p.ain /\ e.rin = NoReq
    BY <2>1, ElapseKeeps
  <2>5. Sound(t, kind) /\ t.min = NoReq /\ t.ain = e.ain /\ t.rin = NoReq
    BY <2>2, <2>4, TakeSound
  <2>6. Sound(r, kind) /\ r.min = t.min /\ r.ain = t.ain
    BY <2>3, <2>5, <1>2, DrainedSound
  <2> QED BY <2>4, <2>5, <2>6
<1> QED BY <1>1, <1>2

LEMMA CycleKeeps ==
  ASSUME PathAssumption, PathInv,
         kind \in {"cache", "memory", "memory_timed", "vram_timed", "crossbar"},
         NEW new \in [Gens -> News], Cycle(new)
  PROVE  PathInv' /\ kind' = kind
<1>1. PICK a : a = GenTick(path, 0, new[0])
  OBVIOUS
<1>2. PICK b : b = GenTick(a, 1, new[1])
  OBVIOUS
<1>3. PICK r : r = path'
  OBVIOUS
<1>4. kind' = kind /\ r \in (IF kind = "crossbar" THEN {XbarTick(b)} ELSE MemTicks(ArbTick(b)))
  BY <1>1, <1>2, <1>3 DEF Cycle
<1>5. 0 \in Gens /\ 1 \in Gens /\ Gens = {0, 1} /\ new[0] \in News /\ new[1] \in News
  BY DEF Gens
<1>6. Sound(path, kind) /\ path.min = NoReq /\ path.ain[0] = NoReq /\ path.ain[1] = NoReq
  BY <1>5 DEF PathInv
<1>7. /\ Sound(a, kind) /\ a.min = NoReq /\ a.gin[0] = NoReq
      /\ \A h \in Gens \ {0} : a.ain[h] = path.ain[h]
  BY <1>1, <1>5, <1>6, GenTickSound
<1>8. /\ Sound(b, kind) /\ b.min = NoReq /\ b.gin[1] = NoReq
      /\ \A h \in Gens \ {1} : b.gin[h] = a.gin[h]
  BY <1>2, <1>5, <1>6, <1>7, GenTickSound
<1>9. \A h \in Gens : b.gin[h] = NoReq
  BY <1>5, <1>7, <1>8
<1>10. Sound(r, kind) /\ r.min = NoReq /\ \A h \in Gens : r.ain[h] = NoReq
  <2>1. CASE kind = "crossbar"
    <3>1. r = XbarTick(b)
      BY <2>1, <1>4
    <3> QED BY <3>1, <1>8, <1>9, XbarSound
  <2>2. CASE kind # "crossbar"
    <3>1. PICK c : c = ArbTick(b)
      OBVIOUS
    <3>2. Sound(c, kind) /\ (\A h \in Gens : c.ain[h] = NoReq) /\ c.rin = NoReq
      BY <3>1, <1>8, <1>9, ArbSound
    <3>3. r \in MemTicks(c)
      BY <3>1, <2>2, <1>4
    <3>4. Sound(r, kind) /\ r.min = NoReq /\ r.ain = c.ain
      BY <3>2, <3>3, <2>2, MemSound
    <3> QED BY <3>2, <3>4
  <2> QED BY <2>1, <2>2
<1>11. r.ain = [h \in Gens |-> NoReq]
  <2>1. r.ain \in [Gens -> Slots]
    BY <1>10 DEF Sound, Shape
  <2> QED BY <2>1, <1>10
<1> QED
  BY <1>3, <1>4, <1>10, <1>11 DEF PathInv

Behinds == {"cache", "memory", "memory_timed", "vram_timed", "crossbar"}

LEMMA PathInvHolds ==
  ASSUME PathAssumption
  PROVE  PathSpec => [](PathInv /\ kind \in Behinds)
<1>1. PathInit => PathInv /\ kind \in Behinds
  BY PathInitInv DEF PathInit, Behinds
<1>2. PathInv /\ kind \in Behinds /\ [PathNext]_pathVars => (PathInv /\ kind \in Behinds)'
  <2> SUFFICES ASSUME PathInv, kind \in Behinds, [PathNext]_pathVars
               PROVE  PathInv' /\ kind' = kind
    OBVIOUS
  <2>1. ASSUME NEW new \in [Gens -> News], Cycle(new)  PROVE  PathInv' /\ kind' = kind
    BY <2>1, CycleKeeps DEF Behinds
  <2>2. CASE PathReset
    BY <2>2, ResetSound DEF PathReset
  <2>3. CASE UNCHANGED pathVars
    BY <2>3 DEF pathVars, PathInv
  <2> QED BY <2>1, <2>2, <2>3 DEF PathNext, News
<1> QED
  BY <1>1, <1>2, PTL DEF PathSpec

(* One member of a set has a key, or none has: how often it is counted.    *)
LEMMA CountIs ==
  ASSUME NEW S, NEW P, \A a, b \in S : a \in P /\ b \in P => a = b
  PROVE  Cardinality({a \in S : a \in P}) = (IF \E a \in S : a \in P THEN 1 ELSE 0)
<1>1. CASE \E a \in S : a \in P
  <2>1. PICK a \in S : a \in P
    BY <1>1
  <2>2. {c \in S : c \in P} = {a}
    BY <2>1
  <2> QED BY <1>1, <2>2, FS_Singleton
<1>2. CASE ~ \E a \in S : a \in P
  <2>1. {c \in S : c \in P} = {}
    BY <1>2
  <2> QED BY <1>2, <2>1, FS_EmptySet
<1> QED BY <1>1, <1>2

(* A place counts one for what it holds.                                   *)
In(C, s, x) == IF x \in C[s] THEN 1 ELSE 0

LEMMA SlotsCounted ==
  ASSUME NEW f, NEW x, x # NoReq
  PROVE  Cardinality({g \in Gens : f[g] = x}) =
           (IF x \in {f[0]} \ {NoReq} THEN 1 ELSE 0) + (IF x \in {f[1]} \ {NoReq} THEN 1 ELSE 0)
<1>1. CASE f[0] = x /\ f[1] = x
  <2>1. {g \in Gens : f[g] = x} = 0 .. 1
    BY <1>1 DEF Gens
  <2>2. PICK a, b \in Int : a = 0 /\ b = 1
    OBVIOUS
  <2>3. Cardinality(a .. b) = IF a > b THEN 0 ELSE b - a + 1
    BY FS_Interval
  <2> QED BY <1>1, <2>1, <2>2, <2>3
<1>2. CASE f[0] = x /\ f[1] # x
  <2>1. {g \in Gens : f[g] = x} = {0}
    BY <1>2 DEF Gens
  <2> QED BY <1>2, <2>1, FS_Singleton
<1>3. CASE f[0] # x /\ f[1] = x
  <2>1. {g \in Gens : f[g] = x} = {1}
    BY <1>3 DEF Gens
  <2> QED BY <1>3, <2>1, FS_Singleton
<1>4. CASE f[0] # x /\ f[1] # x
  <2>1. {g \in Gens : f[g] = x} = {}
    BY <1>4 DEF Gens
  <2> QED BY <1>4, <2>1, FS_EmptySet
<1> QED BY <1>1, <1>2, <1>3, <1>4

LEMMA RestingIs ==
  ASSUME NEW p
  PROVE  /\ Resting(p)["gin0"] = {p.gin[0]} \ {NoReq}
         /\ Resting(p)["gin1"] = {p.gin[1]} \ {NoReq}
         /\ Resting(p)["ain0"] = {p.ain[0]} \ {NoReq}
         /\ Resting(p)["ain1"] = {p.ain[1]} \ {NoReq}
         /\ Resting(p)["queue"] = Entries(p.queue)
         /\ Resting(p)["rin"] = {p.rin} \ {NoReq}
         /\ Resting(p)["min"] = {p.min} \ {NoReq}
         /\ Resting(p)["pend"] = Wanted(p.pend)
         /\ Resting(p)["done"] = Seconds(p.done)
         /\ Resting(p)["lost"] = Firsts(p.lost)
  BY DEF Resting, Spots

LEMMA TimesIs ==
  ASSUME NEW x, x # NoReq, OnceIn(path), NEW C, C = Resting(path)
  PROVE  Times(x) =
           (In(C, "gin0", x) + In(C, "gin1", x)) + (In(C, "ain0", x) + In(C, "ain1", x))
           + In(C, "rin", x) + In(C, "min", x)
           + In(C, "queue", x) + In(C, "pend", x) + In(C, "done", x) + In(C, "lost", x)
<1>1. Cardinality({g \in Gens : path.gin[g] = x}) = In(C, "gin0", x) + In(C, "gin1", x)
  <2>1. PICK f : f = path.gin
    OBVIOUS
  <2>2. Cardinality({g \in Gens : f[g] = x}) =
          (IF x \in {f[0]} \ {NoReq} THEN 1 ELSE 0) + (IF x \in {f[1]} \ {NoReq} THEN 1 ELSE 0)
    BY SlotsCounted
  <2>3. C["gin0"] = {f[0]} \ {NoReq} /\ C["gin1"] = {f[1]} \ {NoReq}
    BY <2>1, RestingIs
  <2> QED BY <2>1, <2>2, <2>3 DEF In
<1>2. Cardinality({g \in Gens : path.ain[g] = x}) = In(C, "ain0", x) + In(C, "ain1", x)
  <2>1. PICK f : f = path.ain
    OBVIOUS
  <2>2. Cardinality({g \in Gens : f[g] = x}) =
          (IF x \in {f[0]} \ {NoReq} THEN 1 ELSE 0) + (IF x \in {f[1]} \ {NoReq} THEN 1 ELSE 0)
    BY SlotsCounted
  <2>3. C["ain0"] = {f[0]} \ {NoReq} /\ C["ain1"] = {f[1]} \ {NoReq}
    BY <2>1, RestingIs
  <2> QED BY <2>1, <2>2, <2>3 DEF In
<1>3. (IF path.rin = x THEN 1 ELSE 0) = In(C, "rin", x)
  BY RestingIs DEF In
<1>4. (IF path.min = x THEN 1 ELSE 0) = In(C, "min", x)
  BY RestingIs DEF In
<1>5. Cardinality({i \in DOMAIN path.queue : path.queue[i] = x}) = In(C, "queue", x)
  <2>1. PICK P : P = {i \in DOMAIN path.queue : path.queue[i] = x}
    OBVIOUS
  <2>2. \A i, j \in DOMAIN path.queue : i \in P /\ j \in P => i = j
    BY <2>1 DEF OnceIn
  <2>3. Cardinality({i \in DOMAIN path.queue : i \in P})
          = (IF \E i \in DOMAIN path.queue : i \in P THEN 1 ELSE 0)
    BY <2>2, CountIs
  <2>4. {i \in DOMAIN path.queue : i \in P} = P
    BY <2>1
  <2>5. (\E i \in DOMAIN path.queue : i \in P) <=> x \in C["queue"]
    BY <2>1, RestingIs DEF Entries
  <2> QED BY <2>1, <2>3, <2>4, <2>5 DEF In
<1>6. Cardinality({y \in path.pend : y.req = x}) = In(C, "pend", x)
  <2>1. PICK P : P = {y \in path.pend : y.req = x}
    OBVIOUS
  <2>2. \A i, j \in path.pend : i \in P /\ j \in P => i = j
    BY <2>1 DEF OnceIn
  <2>3. Cardinality({i \in path.pend : i \in P}) = (IF \E i \in path.pend : i \in P THEN 1 ELSE 0)
    BY <2>2, CountIs
  <2>4. {i \in path.pend : i \in P} = P
    BY <2>1
  <2>5. (\E i \in path.pend : i \in P) <=> x \in C["pend"]
    BY <2>1, RestingIs DEF Wanted
  <2> QED BY <2>1, <2>3, <2>4, <2>5 DEF In
<1>7. Cardinality({d \in path.done : d[2] = x}) = In(C, "done", x)
  <2>1. PICK P : P = {d \in path.done : d[2] = x}
    OBVIOUS
  <2>2. \A i, j \in path.done : i \in P /\ j \in P => i = j
    BY <2>1 DEF OnceIn
  <2>3. Cardinality({i \in path.done : i \in P}) = (IF \E i \in path.done : i \in P THEN 1 ELSE 0)
    BY <2>2, CountIs
  <2>4. {i \in path.done : i \in P} = P
    BY <2>1
  <2>5. (\E i \in path.done : i \in P) <=> x \in C["done"]
    BY <2>1, RestingIs DEF Seconds
  <2> QED BY <2>1, <2>3, <2>4, <2>5 DEF In
<1>8. Cardinality({l \in path.lost : l[1] = x}) = In(C, "lost", x)
  <2>1. PICK P : P = {l \in path.lost : l[1] = x}
    OBVIOUS
  <2>2. \A i, j \in path.lost : i \in P /\ j \in P => i = j
    BY <2>1 DEF OnceIn
  <2>3. Cardinality({i \in path.lost : i \in P}) = (IF \E i \in path.lost : i \in P THEN 1 ELSE 0)
    BY <2>2, CountIs
  <2>4. {i \in path.lost : i \in P} = P
    BY <2>1
  <2>5. (\E i \in path.lost : i \in P) <=> x \in C["lost"]
    BY <2>1, RestingIs DEF Firsts
  <2> QED BY <2>1, <2>3, <2>4, <2>5 DEF In
<1>9. \A s \in Spots : In(C, s, x) \in {0, 1}
  BY DEF In
<1> QED
  BY <1>1, <1>2, <1>3, <1>4, <1>5, <1>6, <1>7, <1>8, <1>9 DEF Times, Spots

LEMMA OneTime ==
  ASSUME NEW C, NoOverlap(C), NEW x \in AllOf(C)
  PROVE  (In(C, "gin0", x) + In(C, "gin1", x)) + (In(C, "ain0", x) + In(C, "ain1", x))
           + In(C, "rin", x) + In(C, "min", x)
           + In(C, "queue", x) + In(C, "pend", x) + In(C, "done", x) + In(C, "lost", x) = 1
<1>1. PICK s \in Spots : x \in C[s]
  BY DEF AllOf
<1>2. \A t \in Spots : In(C, t, x) = (IF t = s THEN 1 ELSE 0)
  BY <1>1 DEF NoOverlap, In
<1> QED
  BY <1>2 DEF Spots

LEMMA IssuedIs ==
  ASSUME path \in Shape
  PROVE  Issued = AllOf(Resting(path))
<1>1. PICK C : C = Resting(path)
  OBVIOUS
<1>2. AllOf(C) = C["gin0"] \cup C["gin1"] \cup C["ain0"] \cup C["ain1"] \cup C["queue"]
                 \cup C["rin"] \cup C["min"] \cup C["pend"] \cup C["done"] \cup C["lost"]
  BY DEF AllOf, Spots
<1>3. {d[2] : d \in path.done} = C["done"] /\ {l[1] : l \in path.lost} = C["lost"]
      /\ {x.req : x \in path.pend} = C["pend"]
  BY <1>1, RestingIs DEF Wanted, Firsts, Seconds
<1>4. ToSet(path.queue) = C["queue"]
  BY <1>1, RestingIs DEF ToSet, Entries
<1>5. InSlots = {path.gin[0], path.gin[1], path.ain[0], path.ain[1], path.rin, path.min}
  BY DEF InSlots, Gens
<1>6. InSlots \ {NoReq} = C["gin0"] \cup C["gin1"] \cup C["ain0"] \cup C["ain1"]
                          \cup C["rin"] \cup C["min"]
  BY <1>1, <1>5, RestingIs
<1> QED
  BY <1>1, <1>2, <1>3, <1>4, <1>6 DEF Issued

(* As many requests of a generator exist as it has numbers given issued.      *)
LEMMA NumbersCounted ==
  ASSUME NEW S, NEW issued \in [Gens -> Nat], NEW g \in Gens, Numbered(S, issued),
         \A x \in S : x.gen \in Gens /\ x.id \in Nat
  PROVE  Cardinality({x \in S : x.gen = g}) = issued[g]
<1>1. PICK T : T = {x \in S : x.gen = g}
  OBVIOUS
<1>2. PICK n \in Nat : n = issued[g]
  OBVIOUS
<1>3. PICK N : N = 0 .. (n - 1)
  OBVIOUS
<1>4. PICK f : f = [x \in T |-> x.id]
  OBVIOUS
<1>5. f \in Bijection(T, N)
  <2>1. f \in [T -> N]
    <3>1. ASSUME NEW x \in T  PROVE  x.id \in N
      <4>1. x.id \in Nat /\ x.id < n
        BY <1>1, <1>2, <3>1 DEF Numbered
      <4> QED BY <4>1, <1>3
    <3> QED BY <3>1, <1>4
  <2>2. \A x, y \in T : f[x] = f[y] => x = y
    BY <1>1, <1>4 DEF Numbered
  <2>3. \A i \in N : \E x \in T : f[x] = i
    <3>1. ASSUME NEW i \in N  PROVE  \E x \in T : x.id = i
      <4>1. i \in Nat /\ i < n
        BY <1>3
      <4>2. PICK x \in S : x.gen = g /\ x.id = i
        BY <4>1, <1>2 DEF Numbered
      <4> QED BY <4>2, <1>1
    <3> QED BY <3>1, <1>4
  <2> QED BY <2>1, <2>2, <2>3, Fun_IsBij
<1>6. IsFiniteSet(N) /\ Cardinality(N) = n
  BY <1>3, FS_Interval
<1>7. Cardinality(T) = Cardinality(N)
  <2>1. f \in Surjection(T, N) /\ f \in Injection(T, N)
    BY <1>5 DEF Bijection
  <2> QED BY <1>6, <2>1, FS_Injection
<1> QED
  BY <1>1, <1>2, <1>6, <1>7

(* Every request is under way in one place, answered once, or lost where   *)
(* the modules can lose one, whatever the patterns ask, the latencies are  *)
(* and however long it runs: TrafficGenTLM, ArbiterTLM and CrossbarTLM     *)
(* before CacheTLM, MemoryTLM and VramControllerTLM.                       *)
THEOREM RequestsEndOnce ==
  ASSUME PathAssumption
  PROVE  PathSpec => []AnswersAccounted
<1>1. ASSUME PathInv, kind \in Behinds  PROVE  AnswersAccounted
  <2>1. /\ path \in Shape /\ NoOverlap(Resting(path)) /\ OnceIn(path)
        /\ Numbered(AllOf(Resting(path)), path.issued) /\ Homed(path, kind)
    BY <1>1 DEF PathInv, Sound
  <2>2. PICK C : C = Resting(path)
    OBVIOUS
  <2>3. Issued = AllOf(C) /\ \A x \in AllOf(C) : x \in Reqs
    BY <2>1, <2>2, IssuedIs, RestingTyped
  <2>4. ASSUME NEW x \in Issued  PROVE  Times(x) = 1
    <3>1. x \in AllOf(C) /\ x # NoReq
      BY <2>3, <2>4, NoReqIs
    <3> QED BY <3>1, <2>1, <2>2, TimesIs, OneTime
  <2>5. ASSUME NEW g \in Gens
        PROVE  Cardinality({x \in Issued : x.gen = g}) = path.issued[g]
    <3>1. path.issued \in [Gens -> Nat]
      BY <2>1 DEF Shape
    <3>2. \A x \in Issued : x.gen \in Gens /\ x.id \in Nat
      BY <2>3 DEF Reqs
    <3>3. Numbered(Issued, path.issued)
      BY <2>1, <2>2, <2>3
    <3> QED BY <3>1, <3>2, <3>3, NumbersCounted
  <2> QED BY <2>1, <2>4, <2>5 DEF AnswersAccounted, Homed
<1> QED
  BY <1>1, PathInvHolds, PTL

=============================================================================
