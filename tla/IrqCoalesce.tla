---------------------------- MODULE IrqCoalesce ----------------------------
(***************************************************************************)
(* The interrupt path of DGpuBoard (src/src/tlm/gpu/dgpu_board_shell.cc):  *)
(* msix_update_pending on the MSI-X table of the endpoint, the coalescer   *)
(* that turns a window of deliveries into one callback (threshold, timer   *)
(* thread, forced flush), the detached callback threads, and destroy()     *)
(* followed by load_soc_config() + init().                                 *)
(*                                                                         *)
(* A step is a critical section of coalesce_mu_, a wait on coalesce_cv_,   *)
(* or an unlocked access (the table, coalesce_stop_).  Time is abstract: a *)
(* timed wait may reach its deadline at any moment.  The timer's predicate *)
(* wait is two steps, since coalesce_stop_ is stored without the mutex.    *)
(***************************************************************************)
EXTENDS MsixTable, FiniteSets

CONSTANTS
  Updater,     \* threads that call msix_update_pending
  Thresholds,  \* thresholds set_msix_coalesce_threshold may set
  VecRing,     \* 2^16: vectors are narrowed to uint16_t for the table
  MaxArg,      \* bound: the largest vector argument (uint32_t) a caller uses
  MaxUpdates,  \* bound: msix_update_pending calls
  MaxConfigs,  \* bound: calls of the configuring thread
  MaxLives     \* bound: lives of the board

ASSUME CoalesceAssumption ==
  /\ Thresholds \subseteq Nat /\ Thresholds # {}
  /\ VecRing \in Nat \ {0} /\ MaxVec <= VecRing /\ MaxArg \in Nat
  /\ MaxUpdates \in Nat /\ MaxConfigs \in Nat /\ MaxLives \in Nat

VARIABLES
  count, rep, armed, threshold, \* coalesce_*, under coalesce_mu_
  enabled,    \* msix_coalesce_enabled_
  hooked,     \* irq_cb_ is set
  timer,      \* coalesce_timer_: "none" when not joinable
  tstop,      \* coalesce_stop_
  upc, uarg,  \* updater: control point, vector argument or representative
  cpc,        \* control point of the thread that configures and destroys
  frep, trep, \* representative that thread, and the timer, are to trigger
  up,         \* soc_ exists
  spawned,    \* detached callback threads that have not run, per vector
  dropped,    \* history: triggers that found no irq_cb_
  updates, configs, lives,      \* counters of the bounds
  handed,     \* history: deliveries handed to the coalescer
  settled,    \* history: deliveries of the windows drained so far
  win,        \* history: vectors handed over since the last drain
  fires,      \* history: decisions to trigger a callback
  called      \* history: callbacks run

window == <<count, rep, armed, handed, settled, win>>
boardVars == <<threshold, enabled, hooked, up, lives, configs, updates>>
vars == <<msixVars, count, rep, armed, threshold, enabled, hooked, timer, tstop,
          upc, uarg, cpc, frep, trep, up, spawned, dropped, updates, configs,
          lives, handed, settled, win, fires, called>>

Arg == 0..MaxArg                \* vector arguments, as they are reported
Narrow(a) == a % VecRing        \* static_cast<uint16_t>

Init ==
  /\ MsixInit /\ nvec = MaxVec
  /\ count = 0 /\ rep = 0 /\ armed = FALSE
  /\ threshold \in Thresholds
  /\ enabled = TRUE /\ hooked \in BOOLEAN /\ timer = "none" /\ tstop = FALSE
  /\ upc = [u \in Updater |-> "idle"] /\ uarg = [u \in Updater |-> 0]
  /\ cpc = "idle" /\ frep = 0 /\ trep = 0 /\ up = TRUE
  /\ spawned = [a \in Arg |-> 0] /\ dropped = 0
  /\ updates = 0 /\ configs = 0 /\ lives = 1
  /\ handed = 0 /\ settled = 0 /\ win = {} /\ fires = 0 /\ called = 0

-----------------------------------------------------------------------------
LockFree == timer # "dozing"    \* the timer holds coalesce_mu_ up to its wait

(* notify_all wakes a waiting timer.                                       *)
Awake(t) == IF t \in {"asleep", "asleep_until"} THEN "awake" ELSE t

(* The window is closed: it is reset and its representative triggered.     *)
CloseWindow(n) ==
  /\ count' = 0 /\ armed' = FALSE
  /\ settled' = settled + n
  /\ win' = {} /\ fires' = fires + 1

(* Mutant: without irq_cb_ there is nothing to count.                      *)
SpawnIfHooked(a) ==
  /\ spawned' = IF hooked THEN [spawned EXCEPT ![a] = @ + 1] ELSE spawned
  /\ UNCHANGED dropped

(* trigger_irq_async: a detached thread that will run the copy of irq_cb_  *)
(* taken now; without one, nothing.                                        *)
Trigger(a) ==
  IF hooked THEN spawned' = [spawned EXCEPT ![a] = @ + 1] /\ UNCHANGED dropped
            ELSE dropped' = dropped + 1 /\ UNCHANGED spawned

UpdaterGoto(u, label) == upc' = [upc EXCEPT ![u] = label]

(* msix_update_pending: the table's update_pending, of the vector narrowed *)
(* to 16 bits; the argument itself is what is coalesced and reported.      *)
Update(u, a) ==
  /\ up /\ upc[u] = "idle" /\ updates < MaxUpdates
  /\ updates' = updates + 1
  /\ UpdatePending(Narrow(a)) \/ RejectUpdate(Narrow(a))
  /\ uarg' = [uarg EXCEPT ![u] = a]
  /\ UpdaterGoto(u, IF Narrow(a) \in Table THEN "ask" ELSE "idle")
  /\ UNCHANGED <<window, threshold, enabled, hooked, timer, tstop, cpc, frep,
                 trep, up, spawned, dropped, configs, lives, fires, called>>

(* ... then did_deliver_last_update(), a second access to the table.       *)
Ask(u) ==
  /\ upc[u] = "ask"
  /\ UpdaterGoto(u, IF ~delivered THEN "idle"
                    ELSE IF enabled THEN "arm" ELSE "fire")
  /\ fires' = fires + (IF delivered /\ ~enabled THEN 1 ELSE 0)
  /\ UNCHANGED <<msixVars, window, boardVars, timer, tstop, uarg, cpc, frep,
                 trep, spawned, dropped, called>>

Started(t) == IF t = "none" THEN "awake" ELSE t   \* lazy start of the thread

(* Mutant: the timer is not notified of the new deadline.                  *)
ArmSilently(t) == Started(t)
Arming(t) == Awake(Started(t))

(* Mutant: only a window opened by the second delivery gets a new          *)
(* representative.                                                         *)
StaleRepresentative(u) == IF count = 1 THEN uarg[u] ELSE rep
Representative(u) == IF count = 0 THEN uarg[u] ELSE rep

(* coalesce_arm_or_drain.                                                  *)
ArmOrDrain(u) ==
  LET n == count + 1
      r == Representative(u)
  IN
  /\ upc[u] = "arm" /\ LockFree
  /\ rep' = r /\ handed' = handed + 1
  /\ timer' = Arming(timer)
  /\ IF n >= threshold
     THEN /\ CloseWindow(n) /\ UpdaterGoto(u, "fire")
          /\ uarg' = [uarg EXCEPT ![u] = r]
     ELSE /\ count' = n /\ armed' = (IF n = 1 THEN TRUE ELSE armed)
          /\ win' = win \cup {uarg[u]}
          /\ UpdaterGoto(u, "idle")
          /\ UNCHANGED <<settled, fires, uarg>>
  /\ UNCHANGED <<msixVars, boardVars, tstop, cpc, frep, trep, spawned, dropped,
                 called>>

UpdaterFire(u) ==
  /\ upc[u] = "fire"
  /\ Trigger(uarg[u])
  /\ UpdaterGoto(u, "idle")
  /\ UNCHANGED <<msixVars, window, boardVars, timer, tstop, uarg, cpc, frep,
                 trep, fires, called>>

Callback(a) ==
  /\ spawned[a] > 0
  /\ spawned' = [spawned EXCEPT ![a] = @ - 1]
  /\ called' = called + 1
  /\ UNCHANGED <<msixVars, window, boardVars, timer, tstop, upc, uarg, cpc,
                 frep, trep, dropped, fires>>

-----------------------------------------------------------------------------
(* coalesce_timer_loop.                                                    *)

TimerOnly == UNCHANGED <<msixVars, boardVars, tstop, upc, uarg, cpc, frep,
                         handed, called>>

(* The loop head, under the mutex.                                         *)
TimerLook ==
  /\ timer = "awake"
  /\ timer' = IF tstop THEN "exited"
              ELSE IF armed THEN "asleep_until" ELSE "dozing"
  /\ TimerOnly
  /\ UNCHANGED <<count, rep, armed, settled, win, trep, spawned, dropped,
                 fires>>

(* cv.wait releases the mutex and blocks in one step.                      *)
TimerSleep ==
  /\ timer = "dozing"
  /\ timer' = "asleep"
  /\ TimerOnly
  /\ UNCHANGED <<count, rep, armed, settled, win, trep, spawned, dropped,
                 fires>>

(* The deadline passes; the mutex is taken again by the next step.         *)
TimerTimeout ==
  /\ timer = "asleep_until"
  /\ timer' = "expired"
  /\ TimerOnly
  /\ UNCHANGED <<count, rep, armed, settled, win, trep, spawned, dropped,
                 fires>>

(* Mutant: the count is left to the next window.                           *)
ExpiredKeepsCount ==
  /\ timer = "expired"
  /\ timer' = IF armed /\ count > 0 THEN "fire" ELSE "awake"
  /\ trep' = rep /\ armed' = FALSE /\ win' = {}
  /\ settled' = settled + count
  /\ fires' = fires + (IF armed /\ count > 0 THEN 1 ELSE 0)
  /\ TimerOnly
  /\ UNCHANGED <<count, rep, spawned, dropped>>

TimerExpired ==
  /\ timer = "expired"
  /\ IF armed /\ count > 0
     THEN /\ timer' = "fire" /\ trep' = rep
          /\ CloseWindow(count)
     ELSE /\ timer' = "awake" /\ armed' = FALSE
          /\ UNCHANGED <<count, settled, win, fires, trep>>
  /\ TimerOnly
  /\ UNCHANGED <<rep, spawned, dropped>>

(* Mutant: the representative is dropped.                                  *)
TimerFireDropped ==
  /\ timer = "fire"
  /\ timer' = "awake"
  /\ TimerOnly
  /\ UNCHANGED <<count, rep, armed, settled, win, trep, spawned, dropped,
                 fires>>

TimerFire ==
  /\ timer = "fire"
  /\ timer' = "awake"
  /\ Trigger(trep)
  /\ TimerOnly
  /\ UNCHANGED <<count, rep, armed, settled, win, trep, fires>>

-----------------------------------------------------------------------------
(* The thread that configures, acknowledges, and destroys.                 *)

Configure == up /\ cpc = "idle" /\ configs < MaxConfigs
             /\ configs' = configs + 1

SetThreshold(k) ==
  /\ Configure /\ LockFree
  /\ threshold' = k /\ timer' = Awake(timer)
  /\ UNCHANGED <<msixVars, window, enabled, hooked, up, lives, updates, tstop,
                 upc, uarg, cpc, frep, trep, spawned, dropped, fires, called>>

(* set_msix_coalesce_timeout: an open window gets a new deadline.          *)
SetTimeout ==
  /\ Configure /\ LockFree
  /\ timer' = Awake(timer)
  /\ UNCHANGED <<msixVars, window, threshold, enabled, hooked, up, lives,
                 updates, tstop, upc, uarg, cpc, frep, trep, spawned, dropped,
                 fires, called>>

SetEnabled(b) ==
  /\ Configure
  /\ enabled' = b
  /\ UNCHANGED <<msixVars, window, threshold, hooked, timer, up, lives,
                 updates, tstop, upc, uarg, cpc, frep, trep, spawned, dropped,
                 fires, called>>

(* set_irq_callback: a handler, or none.                                   *)
SetCallback(b) ==
  /\ Configure
  /\ hooked' = b
  /\ UNCHANGED <<msixVars, window, threshold, enabled, timer, up, lives,
                 updates, tstop, upc, uarg, cpc, frep, trep, spawned, dropped,
                 fires, called>>

(* msix_clear_pending, the driver's acknowledgement.                       *)
Acknowledge(a) ==
  /\ Configure
  /\ ClearPending(Narrow(a))
  /\ UNCHANGED <<window, threshold, enabled, hooked, timer, up, lives, updates,
                 tstop, upc, uarg, cpc, frep, trep, spawned, dropped, fires,
                 called>>

(* msix_init: coalesce_force_flush, its trigger, then the table.           *)
FlushWindow ==
  /\ Configure /\ LockFree
  /\ timer' = Awake(timer)
  /\ IF armed /\ count > 0
     THEN /\ CloseWindow(count) /\ cpc' = "flushed" /\ frep' = rep
     ELSE /\ cpc' = "table"
          /\ UNCHANGED <<count, armed, settled, win, fires, frep>>
  /\ UNCHANGED <<msixVars, rep, handed, threshold, enabled, hooked, up, lives,
                 updates, tstop, upc, uarg, trep, spawned, dropped, called>>

FlushFire ==
  /\ cpc = "flushed"
  /\ cpc' = "table"
  /\ Trigger(frep)
  /\ UNCHANGED <<msixVars, window, boardVars, timer, tstop, upc, uarg, frep,
                 trep, fires, called>>

(* Mutant: the masks and pending bits of a larger table stay.              *)
SetTableKeepsBits(n, masks) ==
  /\ cpc = "table"
  /\ IF n = 0 THEN UNCHANGED msixVars
     ELSE /\ nvec' = n /\ masked' = masked \cup (masks \cap 0..(n - 1))
          /\ irq_out' = <<>> /\ delivered' = FALSE
          /\ UNCHANGED <<pba, owed, bypassed>>
  /\ cpc' = "idle"
  /\ UNCHANGED <<window, boardVars, timer, tstop, upc, uarg, frep, trep,
                 spawned, dropped, fires, called>>

(* resize(n), init() and the initial masks; resize refuses n = 0.          *)
SetTable(n, masks) ==
  /\ cpc = "table"
  /\ IF n = 0 THEN UNCHANGED msixVars
     ELSE /\ nvec' = n /\ masked' = masks \cap 0..(n - 1)
          /\ pba' = {} /\ irq_out' = <<>> /\ delivered' = FALSE
          /\ owed' = {} /\ bypassed' = {}
  /\ cpc' = "idle"
  /\ UNCHANGED <<window, boardVars, timer, tstop, upc, uarg, frep, trep,
                 spawned, dropped, fires, called>>

(* destroy() once no other call is under way and the simulation thread,    *)
(* an updater, has been joined.                                            *)
Destroy ==
  /\ up /\ cpc = "idle" /\ \A u \in Updater : upc[u] = "idle"
  /\ up' = FALSE /\ cpc' = "stop"
  /\ UNCHANGED <<msixVars, window, threshold, enabled, hooked, lives, configs,
                 updates, timer, tstop, upc, uarg, frep, trep, spawned,
                 dropped, fires, called>>

(* coalesce_stop_ = true and notify_all, without coalesce_mu_.             *)
StopTimer ==
  /\ cpc = "stop"
  /\ tstop' = TRUE /\ timer' = Awake(timer) /\ cpc' = "join"
  /\ UNCHANGED <<msixVars, window, boardVars, upc, uarg, frep, trep, spawned,
                 dropped, fires, called>>

JoinTimer ==
  /\ cpc = "join" /\ timer \in {"none", "exited"}
  /\ timer' = "none" /\ cpc' = "idle"
  /\ UNCHANGED <<msixVars, window, boardVars, tstop, upc, uarg, frep, trep,
                 spawned, dropped, fires, called>>

(* load_soc_config() and init() after destroy(): a new SOC, with a new     *)
(* table; none of the coalescer's fields is reset.                         *)
Restart ==
  /\ ~up /\ cpc = "idle" /\ lives < MaxLives
  /\ up' = TRUE /\ lives' = lives + 1
  /\ Clear(MaxVec)
  /\ UNCHANGED <<window, threshold, enabled, hooked, configs, updates, timer,
                 tstop, upc, uarg, cpc, frep, trep, spawned, dropped, fires,
                 called>>

-----------------------------------------------------------------------------
UpdaterStep(u) == Ask(u) \/ ArmOrDrain(u) \/ UpdaterFire(u)
TimerStep == TimerLook \/ TimerSleep \/ TimerTimeout \/ TimerExpired
             \/ TimerFire
ControlStep == FlushFire \/ (\E n \in 0..MaxVec, m \in SUBSET Vector :
                               SetTable(n, m)) \/ StopTimer \/ JoinTimer

Next ==
  \/ \E u \in Updater : UpdaterStep(u) \/ \E a \in Arg : Update(u, a)
  \/ \E a \in Arg : Callback(a) \/ Acknowledge(a)
  \/ TimerStep \/ ControlStep
  \/ (\E k \in Thresholds : SetThreshold(k)) \/ SetTimeout
  \/ (\E b \in BOOLEAN : SetEnabled(b) \/ SetCallback(b)) \/ FlushWindow
  \/ Destroy \/ Restart

(* Threads that are inside a call, the timer thread and the detached       *)
(* callback threads are scheduled; no call is forced to be made.           *)
Fairness ==
  /\ \A u \in Updater : WF_vars(UpdaterStep(u))
  /\ WF_vars(TimerStep) /\ WF_vars(ControlStep)
  /\ \A a \in Arg : WF_vars(Callback(a))

Spec == Init /\ [][Next]_vars
FairSpec == Spec /\ Fairness

-----------------------------------------------------------------------------
TimerState == {"none", "awake", "dozing", "asleep", "asleep_until", "expired",
               "fire", "exited"}

(* Every variable keeps the type the fields of DGpuBoard give it.          *)
TypeOK ==
  /\ MsixTypeOK
  /\ count \in Nat /\ rep \in Arg /\ armed \in BOOLEAN
  /\ threshold \in Thresholds /\ enabled \in BOOLEAN /\ hooked \in BOOLEAN
  /\ timer \in TimerState /\ tstop \in BOOLEAN
  /\ upc \in [Updater -> {"idle", "ask", "arm", "fire"}]
  /\ uarg \in [Updater -> Arg]
  /\ cpc \in {"idle", "flushed", "table", "stop", "join"}
  /\ frep \in Arg /\ trep \in Arg /\ up \in BOOLEAN
  /\ spawned \in [Arg -> Nat] /\ dropped \in Nat
  /\ updates \in 0..MaxUpdates /\ configs \in 0..MaxConfigs
  /\ lives \in Nat
  /\ handed \in Nat /\ settled \in Nat /\ win \subseteq Arg
  /\ fires \in Nat /\ called \in Nat

(* A delivery is counted in exactly one window, however the threshold, the *)
(* timer and a forced flush race to close it: none is dropped, none is     *)
(* reported twice, and a window is armed just when it holds deliveries     *)
(* (dgpu_board_shell.cc:237-307).                                          *)
NoDeliveryLost ==
  /\ handed = settled + count
  /\ armed <=> count > 0

(* The vector a window will report is one that was delivered in it, not    *)
(* one of a window closed before (dgpu_board_shell.cc:244).                *)
RepresentativeOfWindow ==
  armed => rep \in win

(* Every closed window and every direct delivery runs the callback once,   *)
(* or is dropped because no callback is set when it is triggered.          *)
SumOver(f) ==
  LET s[n \in 0..(MaxArg + 1)] == IF n = 0 THEN 0 ELSE s[n - 1] + f[n - 1]
  IN  s[MaxArg + 1]
InFlight ==
  Cardinality({u \in Updater : upc[u] = "fire"})
  + (IF timer = "fire" THEN 1 ELSE 0) + (IF cpc = "flushed" THEN 1 ELSE 0)
OneCallbackPerWindow ==
  fires = called + dropped + SumOver(spawned) + InFlight

(* A window of a live board that has a timer thread closes: when its       *)
(* source falls silent the timer flushes it (dgpu_board_shell.cc:234).  A  *)
(* board that was destroyed and initialised again breaks this: its new     *)
(* timer thread finds coalesce_stop_ still set and exits.                  *)
WindowCloses == armed /\ up /\ timer # "none" ~> ~armed \/ ~up

(* In the first life of the board the promise is kept, whatever is         *)
(* reconfigured while the timer waits (dgpu_board_shell.cc:264-286).       *)
FirstLifeWindowCloses == armed /\ up /\ lives = 1 ~> ~armed \/ ~up

(* Each decision to interrupt reaches the host: when the sources pause,    *)
(* every closed window has been reported, or found no callback             *)
(* (dgpu_board_shell.cc:1226-1242).                                        *)
FiresReachHost == fires > called + dropped ~> fires = called + dropped

(* destroy() joins the timer (dgpu_board_shell.cc:1099).  The notification *)
(* without coalesce_mu_ can fall between the timer's test and its wait.    *)
DestroyReturns == cpc = "join" ~> cpc = "idle"

=============================================================================
