------------------------------ MODULE EmulatorAbi ------------------------------
(***************************************************************************)
(* The C interface of the emulator (src/src/abi/cpptlm_emulator.cc) as     *)
(* host threads call it: create and destroy, open and close by handle, and *)
(* the query of a device, with the registry under one lock and the map of  *)
(* handles under another.  A step is what happens under a lock or between  *)
(* two.  An emulator is the number of its allocation.  Calls that only     *)
(* pass an argument on to the board are in the board's modules.            *)
(***************************************************************************)
EXTENDS Integers, FiniteSets, FiniteSetTheorems, TLAPS

CONSTANTS
  Callers,   \* host threads
  MaxEmus    \* bound: emulators created

VARIABLES
  at,           \* caller -> what it does: [pc, emu, open]
  emus,         \* allocated so far: emu -> [state, dev, name, shutdowns]
  registry_,    \* registry_: device number -> emu
  next_dev_id_, \* next_dev_id_
  handle_map_,  \* handle_map_: handle -> emu
  next_handle_  \* next_handle_, counted from 0

abiVars == <<at, emus, registry_, next_dev_id_, handle_map_, next_handle_>>

Idle == [pc |-> "idle", emu |-> 0, open |-> FALSE]

AbiInit ==
  /\ at = [c \in Callers |-> Idle]
  /\ emus = << >> /\ registry_ = << >> /\ handle_map_ = << >>
  /\ next_dev_id_ = 1 /\ next_handle_ = 0

Emus    == DOMAIN emus
Put(f, k, v) == [x \in DOMAIN f \cup {k} |-> IF x = k THEN v ELSE f[x]]
Without(f, k) == [x \in DOMAIN f \ {k} |-> f[x]]
GoTo(c, p, e) == at' = [at EXCEPT ![c] = [@ EXCEPT !.pc = p, !.emu = e]]
Done(c)       == at' = [at EXCEPT ![c] = Idle]

-----------------------------------------------------------------------------
(* create: the emulator is allocated and its board named by the number the *)
(* next device will get, which is read outside the lock.                   *)
Create(c, open) ==
  LET e == Cardinality(Emus) + 1
  IN  /\ at[c].pc = "idle"
      /\ emus' = Put(emus, e, [state |-> "new", dev |-> 0, name |-> next_dev_id_,
                               shutdowns |-> 0])
      /\ at' = [at EXCEPT ![c] = [pc |-> "load", emu |-> e, open |-> open]]
      /\ UNCHANGED <<registry_, next_dev_id_, handle_map_, next_handle_>>

(* load_soc_config and init: refused, the emulator is deleted; thrown, it  *)
(* is not.                                                                 *)
LoadProfile(c, outcome) ==
  LET e == at[c].emu
  IN  /\ at[c].pc = "load"
      /\ emus' = [emus EXCEPT ![e].state =
                    CASE outcome = "ok" -> "ready" [] outcome = "refused" -> "freed"
                      [] outcome = "thrown" -> "leaked"]
      /\ IF outcome = "ok" THEN GoTo(c, "register", e) ELSE Done(c)
      /\ UNCHANGED <<registry_, next_dev_id_, handle_map_, next_handle_>>

Register(c) ==
  LET e == at[c].emu
  IN  /\ at[c].pc = "register"
      /\ emus' = [emus EXCEPT ![e].dev = next_dev_id_]
      /\ registry_' = Put(registry_, next_dev_id_, e)
      /\ next_dev_id_' = next_dev_id_ + 1
      /\ IF at[c].open THEN GoTo(c, "handle", e) ELSE GoTo(c, "owner", e)
      /\ UNCHANGED <<handle_map_, next_handle_>>

(* open: a handle for the emulator just created.                           *)
PublishHandle(c) ==
  /\ at[c].pc = "handle"
  /\ next_handle_' = next_handle_ + 1
  /\ handle_map_' = Put(handle_map_, next_handle_, at[c].emu)
  /\ Done(c)
  /\ UNCHANGED <<emus, registry_, next_dev_id_>>

-----------------------------------------------------------------------------
(* Mutant: the handle leaves the map only when the emulator is gone.       *)
CloseLooksUp(c, h) ==
  /\ at[c].pc = "idle" /\ h \in DOMAIN handle_map_
  /\ UNCHANGED handle_map_
  /\ GoTo(c, "destroy", handle_map_[h])
  /\ UNCHANGED <<emus, registry_, next_dev_id_, next_handle_>>

(* close: any thread may close any handle; the one that takes it out of    *)
(* the map destroys the emulator.                                          *)
Close(c, h) ==
  /\ at[c].pc = "idle" /\ h \in DOMAIN handle_map_
  /\ handle_map_' = Without(handle_map_, h)
  /\ GoTo(c, "destroy", handle_map_[h])
  /\ UNCHANGED <<emus, registry_, next_dev_id_, next_handle_>>

(* A thread that called create destroys what it got.                       *)
DestroyOwn(c) ==
  /\ at[c].pc = "owner"
  /\ GoTo(c, "destroy", at[c].emu)
  /\ UNCHANGED <<emus, registry_, next_dev_id_, handle_map_, next_handle_>>

(* destroy, under the registry's lock: only what is registered is a victim.*)
Unregister(c) ==
  LET e == at[c].emu
  IN  /\ at[c].pc = "destroy"
      /\ IF \E d \in DOMAIN registry_ : d = emus[e].dev /\ registry_[d] = e
         THEN /\ registry_' = Without(registry_, emus[e].dev)
              /\ GoTo(c, "shutdown", e)
         ELSE /\ UNCHANGED registry_
              /\ Done(c)
      /\ UNCHANGED <<emus, next_dev_id_, handle_map_, next_handle_>>

ShutdownBoard(c) ==
  /\ at[c].pc = "shutdown"
  /\ emus' = [emus EXCEPT ![at[c].emu].shutdowns = @ + 1]
  /\ GoTo(c, "delete", at[c].emu)
  /\ UNCHANGED <<registry_, next_dev_id_, handle_map_, next_handle_>>

Delete(c) ==
  /\ at[c].pc = "delete"
  /\ emus' = [emus EXCEPT ![at[c].emu].state = "freed"]
  /\ Done(c)
  /\ UNCHANGED <<registry_, next_dev_id_, handle_map_, next_handle_>>

(* get_device_info: looked up under the lock, read after it.               *)
LookUp(c, d) ==
  /\ at[c].pc = "idle" /\ d \in DOMAIN registry_
  /\ GoTo(c, "info", registry_[d])
  /\ UNCHANGED <<emus, registry_, next_dev_id_, handle_map_, next_handle_>>

ReadInfo(c) ==
  /\ at[c].pc = "info"
  /\ Done(c)
  /\ UNCHANGED <<emus, registry_, next_dev_id_, handle_map_, next_handle_>>

AbiNext ==
  \E c \in Callers :
    \/ \E open \in BOOLEAN : Cardinality(Emus) < MaxEmus /\ Create(c, open)
    \/ \E outcome \in {"ok", "refused", "thrown"} : LoadProfile(c, outcome)
    \/ Register(c) \/ PublishHandle(c) \/ DestroyOwn(c)
    \/ \E h \in DOMAIN handle_map_ : Close(c, h)
    \/ Unregister(c) \/ ShutdownBoard(c) \/ Delete(c)
    \/ \E d \in DOMAIN registry_ : LookUp(c, d)
    \/ ReadInfo(c)

AbiSpec == AbiInit /\ [][AbiNext]_abiVars
-----------------------------------------------------------------------------
(* Whatever threads create, open, close and destroy at the same time: what *)
(* is registered is alive, ready and under its own number; a handle names  *)
(* an emulator that is registered, and no other handle's; and a board is   *)
(* shut down once, before its emulator is deleted.                         *)
RegisteredIsReady ==
  \A d \in DOMAIN registry_ : emus[registry_[d]].state = "ready" /\ emus[registry_[d]].dev = d

HandlesAreOwn ==
  /\ \A h \in DOMAIN handle_map_ :
       \E d \in DOMAIN registry_ : registry_[d] = handle_map_[h]
  /\ \A g, h \in DOMAIN handle_map_ : handle_map_[g] = handle_map_[h] => g = h

ShutDownOnce ==
  \A e \in Emus : /\ emus[e].shutdowns <= 1
                  /\ emus[e].state = "freed" /\ emus[e].dev # 0 => emus[e].shutdowns = 1

EmulatorsSound == RegisteredIsReady /\ HandlesAreOwn /\ ShutDownOnce

-----------------------------------------------------------------------------
(* Proofs, for any number of threads and emulators.  A call that has taken *)
(* an emulator holds it: no other call and no handle names it until it     *)
(* lets go, so what the call does to it disturbs nobody.                   *)

Holding == {"load", "register", "handle", "owner", "destroy", "shutdown", "delete"}
Holds(c) == at[c].pc \in Holding
Emulator == [state : {"new", "ready", "freed", "leaked"}, dev : Nat, name : Nat,
             shutdowns : Nat]
Control == [pc : Holding \cup {"idle", "info"}, emu : Nat, open : BOOLEAN]

AbiTypes ==
  /\ Cardinality(Emus) \in Nat /\ Emus = 1..Cardinality(Emus)
  /\ \A e \in Emus : emus[e] \in Emulator
  /\ next_dev_id_ \in Nat \ {0} /\ next_handle_ \in Nat
  /\ DOMAIN registry_ \subseteq 1..(next_dev_id_ - 1)
  /\ \A d \in DOMAIN registry_ : registry_[d] \in Emus
  /\ DOMAIN handle_map_ \subseteq 0..(next_handle_ - 1)
  /\ at \in [Callers -> Control]

RegistryHolds ==
  \A d \in DOMAIN registry_ : /\ emus[registry_[d]].state = "ready"
                              /\ emus[registry_[d]].dev = d
                              /\ emus[registry_[d]].shutdowns = 0

OneHolder ==
  \A c \in Callers : Holds(c) =>
    /\ at[c].emu \in Emus
    /\ \A d \in Callers : Holds(d) /\ at[d].emu = at[c].emu => d = c
    /\ \A h \in DOMAIN handle_map_ : handle_map_[h] # at[c].emu

(* How far the emulator is that a call holds.                              *)
Stage(p, e) ==
  /\ p = "load" => emus[e].dev = 0 /\ emus[e].shutdowns = 0
  /\ p = "register" =>
       emus[e].state = "ready" /\ emus[e].dev = 0 /\ emus[e].shutdowns = 0
  /\ p \in {"handle", "owner", "destroy"} =>
       emus[e].dev \in DOMAIN registry_ /\ registry_[emus[e].dev] = e
  /\ p \in {"shutdown", "delete"} =>
       /\ emus[e].dev # 0 /\ emus[e].state = "ready"
       /\ \A d \in DOMAIN registry_ : registry_[d] # e
  /\ p = "shutdown" => emus[e].shutdowns = 0
  /\ p = "delete" => emus[e].shutdowns = 1

Stages == \A c \in Callers : Stage(at[c].pc, at[c].emu)

AbiInv == AbiTypes /\ RegistryHolds /\ HandlesAreOwn /\ OneHolder /\ Stages /\ ShutDownOnce

LEMMA GoToFields ==
  ASSUME AbiTypes, NEW c \in Callers, NEW p \in Holding \cup {"idle", "info"},
         NEW e \in Nat, GoTo(c, p, e)
  PROVE  /\ at' \in [Callers -> Control]
         /\ at'[c].pc = p /\ at'[c].emu = e /\ at'[c].open = at[c].open
         /\ \A d \in Callers \ {c} : at'[d] = at[d]
<1>1. at[c] \in Control
  BY DEF AbiTypes
<1>2. [at[c] EXCEPT !.pc = p, !.emu = e] \in Control
  BY <1>1 DEF Control
<1>3. at' = [at EXCEPT ![c] = [at[c] EXCEPT !.pc = p, !.emu = e]]
  BY DEF GoTo
<1> QED BY <1>1, <1>2, <1>3 DEF AbiTypes, Control

LEMMA DoneFields ==
  ASSUME AbiTypes, NEW c \in Callers, Done(c)
  PROVE  /\ at' \in [Callers -> Control]
         /\ at'[c].pc = "idle"
         /\ \A d \in Callers \ {c} : at'[d] = at[d]
<1>1. Idle \in Control /\ Idle.pc = "idle"
  BY DEF Idle, Control, Holding
<1> QED BY <1>1 DEF Done, AbiTypes

LEMMA CreateKeeps ==
  ASSUME AbiInv, NEW c \in Callers, NEW open \in BOOLEAN, Create(c, open)
  PROVE  AbiInv'
<1> DEFINE n == Cardinality(Emus)
           m == [state |-> "new", dev |-> 0, name |-> next_dev_id_, shutdowns |-> 0]
           k == [pc |-> "load", emu |-> n + 1, open |-> open]
<1>1. n \in Nat /\ Emus = 1..n /\ n + 1 \notin Emus
  BY DEF AbiInv, AbiTypes
<1>2. /\ emus' = Put(emus, n + 1, m) /\ at' = [at EXCEPT ![c] = k]
      /\ UNCHANGED <<registry_, next_dev_id_, handle_map_, next_handle_>>
      /\ ~Holds(c)
  BY DEF Create, Holds, Holding
<1>3. m \in Emulator /\ m.dev = 0 /\ m.shutdowns = 0 /\ m.state = "new"
  BY DEF Emulator, AbiInv, AbiTypes
<1>4. k \in Control /\ k.pc = "load" /\ k.emu = n + 1
  BY <1>1 DEF Control, Holding
<1> HIDE DEF m, k
<1>5. /\ Emus' = 1..(n + 1) /\ emus'[n + 1] = m
      /\ \A e \in Emus : emus'[e] = emus[e]
  BY <1>1, <1>2 DEF Put, Emus
<1>6. Cardinality(Emus') = n + 1
  BY <1>1, <1>5, FS_Interval
<1> HIDE DEF n
<1>7. at' \in [Callers -> Control] /\ at'[c] = k /\ \A d \in Callers \ {c} : at'[d] = at[d]
  BY <1>2, <1>4 DEF AbiInv, AbiTypes
<1>8. AbiTypes'
  <2>1. \A e \in Emus' : emus'[e] \in Emulator
    BY <1>1, <1>3, <1>5 DEF AbiInv, AbiTypes
  <2>2. \A d \in DOMAIN registry_' : registry_'[d] \in Emus'
    BY <1>1, <1>2, <1>5 DEF AbiInv, AbiTypes
  <2>3. Cardinality(Emus') \in Nat /\ Emus' = 1..Cardinality(Emus')
    BY <1>1, <1>5, <1>6
  <2> QED BY <1>2, <1>7, <2>1, <2>2, <2>3 DEF AbiInv, AbiTypes
<1>9. RegistryHolds'
  BY <1>2, <1>5 DEF AbiInv, AbiTypes, RegistryHolds
<1>10. HandlesAreOwn'
  BY <1>2 DEF AbiInv, HandlesAreOwn
<1>11. \A h \in DOMAIN handle_map_ : handle_map_[h] \in Emus
  BY DEF AbiInv, AbiTypes, HandlesAreOwn
<1>12. OneHolder'
  BY <1>1, <1>2, <1>4, <1>5, <1>7, <1>11 DEF AbiInv, OneHolder, Holds
<1>13. Stages'
  <2>1. \A d \in Callers : d # c /\ Holds(d) => Stage(at[d].pc, at[d].emu)'
    BY <1>2, <1>5, <1>7 DEF AbiInv, OneHolder, Stages, Stage
  <2>2. \A d \in Callers : d # c /\ ~Holds(d) => Stage(at[d].pc, at[d].emu)'
    BY <1>7 DEF Stage, Holds, Holding
  <2>3. Stage(at[c].pc, at[c].emu)'
    BY <1>3, <1>4, <1>5, <1>7 DEF Stage
  <2> QED BY <2>1, <2>2, <2>3 DEF Stages
<1>14. ShutDownOnce'
  BY <1>1, <1>3, <1>5 DEF AbiInv, ShutDownOnce
<1> QED BY <1>8, <1>9, <1>10, <1>12, <1>13, <1>14 DEF AbiInv

(* A step that leaves the emulators and the registry alone.                *)
LEMMA MoveKeeps ==
  ASSUME AbiInv, UNCHANGED <<emus, registry_, next_dev_id_>>,
         DOMAIN handle_map_' \subseteq 0..(next_handle_' - 1), next_handle_' \in Nat,
         at' \in [Callers -> Control], HandlesAreOwn', OneHolder', Stages'
  PROVE  AbiInv'
BY DEF AbiInv, AbiTypes, RegistryHolds, ShutDownOnce, Emus

LEMMA PublishKeeps ==
  ASSUME AbiInv, NEW c \in Callers, PublishHandle(c)
  PROVE  AbiInv'
<1> DEFINE e == at[c].emu
<1>1. Holds(c) /\ e \in Emus /\ at[c].pc = "handle"
  BY DEF PublishHandle, Holds, Holding, AbiInv, OneHolder
<1>2. /\ UNCHANGED <<emus, registry_, next_dev_id_>> /\ Done(c)
      /\ next_handle_' = next_handle_ + 1
      /\ handle_map_' = Put(handle_map_, next_handle_, e)
  BY DEF PublishHandle
<1>3. /\ at' \in [Callers -> Control] /\ at'[c].pc = "idle"
      /\ \A d \in Callers \ {c} : at'[d] = at[d]
  BY <1>2, DoneFields DEF AbiInv
<1>4. /\ next_handle_ \in Nat /\ next_handle_ \notin DOMAIN handle_map_
      /\ DOMAIN handle_map_ \subseteq 0..(next_handle_ - 1)
  BY DEF AbiInv, AbiTypes
<1>5. /\ DOMAIN handle_map_' = DOMAIN handle_map_ \cup {next_handle_}
      /\ handle_map_'[next_handle_] = e
      /\ \A h \in DOMAIN handle_map_ : handle_map_'[h] = handle_map_[h]
  BY <1>2, <1>4 DEF Put
<1>6. \E d \in DOMAIN registry_ : registry_[d] = e
  BY <1>1 DEF AbiInv, Stages, Stage
<1>7. \A h \in DOMAIN handle_map_ : handle_map_[h] # e
  BY <1>1 DEF AbiInv, OneHolder
<1>8. HandlesAreOwn'
  BY <1>2, <1>5, <1>6, <1>7 DEF AbiInv, HandlesAreOwn
<1>9. \A d \in Callers : Holds(d) /\ d # c => at[d].emu # e
  BY <1>1 DEF AbiInv, OneHolder
<1> HIDE DEF e
<1>10. OneHolder'
  <2>1. \A d \in Callers : Holds(d)' => d # c /\ Holds(d) /\ at'[d] = at[d]
    BY <1>3 DEF Holds, Holding
  <2> QED BY <1>2, <1>5, <1>9, <2>1 DEF AbiInv, OneHolder, Emus
<1>11. Stages'
  <2>1. \A d \in Callers \ {c} : Stage(at[d].pc, at[d].emu)'
    BY <1>2, <1>3 DEF AbiInv, Stages, Stage
  <2>2. Stage(at[c].pc, at[c].emu)'
    BY <1>3 DEF Stage
  <2> QED BY <2>1, <2>2 DEF Stages
<1>12. DOMAIN handle_map_' \subseteq 0..(next_handle_' - 1) /\ next_handle_' \in Nat
  BY <1>2, <1>4, <1>5
<1> QED BY <1>2, <1>3, <1>8, <1>10, <1>11, <1>12, MoveKeeps

LEMMA CloseKeeps ==
  ASSUME AbiInv, NEW c \in Callers, NEW h \in DOMAIN handle_map_, Close(c, h)
  PROVE  AbiInv'
<1> DEFINE e == handle_map_[h]
<1>1. PICK r \in DOMAIN registry_ : registry_[r] = e
  BY DEF AbiInv, HandlesAreOwn
<1>2. e \in Emus /\ e \in Nat /\ emus[e].dev = r
  BY <1>1 DEF AbiInv, AbiTypes, RegistryHolds
<1>3. /\ UNCHANGED <<emus, registry_, next_dev_id_, next_handle_>>
      /\ GoTo(c, "destroy", e) /\ handle_map_' = Without(handle_map_, h)
  BY DEF Close
<1>4. /\ at' \in [Callers -> Control] /\ at'[c].pc = "destroy" /\ at'[c].emu = e
      /\ \A d \in Callers \ {c} : at'[d] = at[d]
  BY <1>2, <1>3, GoToFields DEF AbiInv, Holding
<1>5. /\ DOMAIN handle_map_' = DOMAIN handle_map_ \ {h}
      /\ \A g \in DOMAIN handle_map_' : handle_map_'[g] = handle_map_[g]
  BY <1>3 DEF Without
<1>6. \A g \in DOMAIN handle_map_' : handle_map_'[g] # e
  BY <1>5 DEF AbiInv, HandlesAreOwn
<1>7. \A d \in Callers : Holds(d) => at[d].emu # e
  BY DEF AbiInv, OneHolder
<1> HIDE DEF e
<1>8. HandlesAreOwn'
  BY <1>3, <1>5 DEF AbiInv, HandlesAreOwn
<1>9. OneHolder'
  <2>1. \A d \in Callers \ {c} : Holds(d)' => Holds(d)
    BY <1>4 DEF Holds
  <2> QED BY <1>2, <1>3, <1>4, <1>5, <1>6, <1>7, <2>1 DEF AbiInv, OneHolder, Emus
<1>10. Stages'
  <2>1. \A d \in Callers \ {c} : Stage(at[d].pc, at[d].emu)'
    BY <1>3, <1>4 DEF AbiInv, Stages, Stage
  <2>2. Stage(at[c].pc, at[c].emu)'
    BY <1>1, <1>2, <1>3, <1>4 DEF Stage
  <2> QED BY <2>1, <2>2 DEF Stages
<1>11. DOMAIN handle_map_' \subseteq 0..(next_handle_' - 1) /\ next_handle_' \in Nat
  BY <1>3, <1>5 DEF AbiInv, AbiTypes
<1> QED BY <1>3, <1>4, <1>8, <1>9, <1>10, <1>11, MoveKeeps

LEMMA LookKeeps ==
  ASSUME AbiInv, NEW c \in Callers,
         DestroyOwn(c) \/ (\E d \in DOMAIN registry_ : LookUp(c, d)) \/ ReadInfo(c)
  PROVE  AbiInv'
<1>1. UNCHANGED <<emus, registry_, next_dev_id_, handle_map_, next_handle_>>
  BY DEF DestroyOwn, LookUp, ReadInfo
<1>2. /\ at' \in [Callers -> Control] /\ \A d \in Callers \ {c} : at'[d] = at[d]
      /\ \/ ~Holds(c)'
         \/ /\ at'[c].pc = "destroy" /\ at'[c].emu = at[c].emu /\ at[c].pc = "owner"
  <2>1. CASE DestroyOwn(c)
    <3>1. at[c].emu \in Nat /\ at[c].pc = "owner" /\ GoTo(c, "destroy", at[c].emu)
      BY <2>1 DEF DestroyOwn, AbiInv, AbiTypes, Control
    <3> QED BY <3>1, GoToFields DEF AbiInv, Holding
  <2>2. CASE \E d \in DOMAIN registry_ : LookUp(c, d)
    <3>1. PICK d \in DOMAIN registry_ : GoTo(c, "info", registry_[d])
      BY <2>2 DEF LookUp
    <3>2. registry_[d] \in Nat
      BY DEF AbiInv, AbiTypes
    <3> QED BY <3>1, <3>2, GoToFields DEF AbiInv, Holding, Holds
  <2>3. CASE ReadInfo(c)
    BY <2>3, DoneFields DEF ReadInfo, AbiInv, Holding, Holds
  <2> QED BY <2>1, <2>2, <2>3
<1>3. \A d \in Callers : Holds(d)' => Holds(d) /\ at'[d].emu = at[d].emu
  BY <1>2 DEF Holds, Holding
<1>4. OneHolder'
  BY <1>1, <1>3 DEF AbiInv, OneHolder, Emus
<1>5. Stages'
  <2>1. \A d \in Callers \ {c} : Stage(at[d].pc, at[d].emu)'
    BY <1>1, <1>2 DEF AbiInv, Stages, Stage
  <2>2. Stage(at[c].pc, at[c].emu)'
    <3>1. CASE ~Holds(c)'
      BY <3>1 DEF Holds, Holding, Stage
    <3>2. CASE at'[c].pc = "destroy" /\ at'[c].emu = at[c].emu /\ at[c].pc = "owner"
      BY <1>1, <3>2 DEF AbiInv, Stages, Stage
    <3> QED BY <1>2, <3>1, <3>2
  <2> QED BY <2>1, <2>2 DEF Stages
<1>6. HandlesAreOwn'
  BY <1>1 DEF AbiInv, HandlesAreOwn
<1>7. DOMAIN handle_map_' \subseteq 0..(next_handle_' - 1) /\ next_handle_' \in Nat
  BY <1>1 DEF AbiInv, AbiTypes
<1> QED BY <1>1, <1>2, <1>4, <1>5, <1>6, <1>7, MoveKeeps

(* A step of the call of c that touches the emulator it holds and that     *)
(* emulator's place in the registry: what the others hold stays.           *)
LEMMA HeldKeeps ==
  ASSUME AbiInv, NEW c \in Callers, Holds(c), UNCHANGED <<handle_map_, next_handle_>>,
         DOMAIN emus' = DOMAIN emus,
         \A x \in Emus \ {at[c].emu} : emus'[x] = emus[x],
         emus'[at[c].emu] \in Emulator,
         next_dev_id_' \in Nat \ {0}, DOMAIN registry_' \subseteq 1..(next_dev_id_' - 1),
         \A d \in DOMAIN registry_ : registry_[d] # at[c].emu =>
                                     d \in DOMAIN registry_' /\ registry_'[d] = registry_[d],
         \A d \in DOMAIN registry_' : \/ registry_'[d] = at[c].emu
                                      \/ d \in DOMAIN registry_ /\ registry_'[d] = registry_[d],
         at' \in [Callers -> Control], \A d \in Callers \ {c} : at'[d] = at[d],
         ~Holds(c)' \/ at'[c].emu = at[c].emu,
         Stage(at[c].pc, at[c].emu)', RegistryHolds',
         /\ emus'[at[c].emu].shutdowns <= 1
         /\ emus'[at[c].emu].state = "freed" /\ emus'[at[c].emu].dev # 0 =>
              emus'[at[c].emu].shutdowns = 1
  PROVE  AbiInv'
<1> DEFINE e == at[c].emu
<1>1. /\ e \in Emus /\ \A d \in Callers : Holds(d) /\ d # c => at[d].emu # e
      /\ \A h \in DOMAIN handle_map_ : handle_map_[h] # e
  BY DEF AbiInv, OneHolder
<1>2. Emus' = Emus
  BY DEF Emus
<1>3. AbiTypes'
  <2>1. \A x \in Emus : emus'[x] \in Emulator
    BY <1>1 DEF AbiInv, AbiTypes
  <2>2. \A d \in DOMAIN registry_' : registry_'[d] \in Emus
    BY <1>1 DEF AbiInv, AbiTypes
  <2> QED BY <1>2, <2>1, <2>2 DEF AbiInv, AbiTypes
<1>4. HandlesAreOwn'
  BY <1>1 DEF AbiInv, HandlesAreOwn
<1>5. OneHolder'
  <2>1. \A d \in Callers : Holds(d)' => Holds(d) /\ at'[d].emu = at[d].emu
    BY DEF Holds
  <2> QED BY <1>2, <2>1 DEF AbiInv, OneHolder
<1>6. Stages'
  <2>1. \A d \in Callers : d # c /\ ~Holds(d) => Stage(at[d].pc, at[d].emu)'
    BY DEF Stage, Holds, Holding
  <2>2. ASSUME NEW d \in Callers, d # c, Holds(d) PROVE Stage(at[d].pc, at[d].emu)'
    <3>1. at[d].emu \in Emus /\ at[d].emu # e /\ at'[d] = at[d]
      BY <1>1, <2>2 DEF AbiInv, OneHolder
    <3>2. emus'[at[d].emu] = emus[at[d].emu]
      BY <3>1
    <3>3. Stage(at[d].pc, at[d].emu)
      BY DEF AbiInv, Stages
    <3> QED BY <3>1, <3>2, <3>3 DEF Stage
  <2> QED BY <2>1, <2>2 DEF Stages
<1>7. ShutDownOnce'
  BY <1>1, <1>2 DEF AbiInv, ShutDownOnce
<1> QED BY <1>3, <1>4, <1>5, <1>6, <1>7 DEF AbiInv

(* What c holds, field by field.                                           *)
LEMMA HeldFields ==
  ASSUME AbiInv, NEW c \in Callers, Holds(c)
  PROVE  /\ at[c].emu \in Emus /\ at[c].emu \in Nat /\ emus[at[c].emu] \in Emulator
         /\ Stage(at[c].pc, at[c].emu) /\ at[c] \in Control
         /\ \A d \in DOMAIN registry_ : registry_[d] = at[c].emu => d = emus[at[c].emu].dev
         /\ \A d \in DOMAIN registry_ : d \in Nat \ {0} /\ d < next_dev_id_
         /\ next_dev_id_ \in Nat \ {0}
BY DEF AbiInv, AbiTypes, OneHolder, Stages, RegistryHolds

LEMMA LoadKeeps ==
  ASSUME AbiInv, NEW c \in Callers, NEW outcome \in {"ok", "refused", "thrown"},
         LoadProfile(c, outcome)
  PROVE  AbiInv'
<1> DEFINE e == at[c].emu
           st == CASE outcome = "ok" -> "ready" [] outcome = "refused" -> "freed"
                   [] outcome = "thrown" -> "leaked"
<1>1. Holds(c) /\ at[c].pc = "load"
  BY DEF LoadProfile, Holds, Holding
<1>2. /\ e \in Emus /\ e \in Nat /\ emus[e] \in Emulator /\ at[c] \in Control
      /\ emus[e].dev = 0 /\ emus[e].shutdowns = 0
      /\ \A d \in DOMAIN registry_ : registry_[d] # e
  BY <1>1, HeldFields DEF Stage
<1>3. /\ emus' = [emus EXCEPT ![e] = [emus[e] EXCEPT !.state = st]]
      /\ UNCHANGED <<registry_, next_dev_id_, handle_map_, next_handle_>>
      /\ IF outcome = "ok" THEN GoTo(c, "register", e) ELSE Done(c)
  BY DEF LoadProfile
<1>4. st \in {"ready", "freed", "leaked"} /\ (outcome = "ok" => st = "ready")
  OBVIOUS
<1> HIDE DEF st
<1>5. /\ emus'[e] \in Emulator /\ emus'[e].state = st /\ emus'[e].dev = 0
      /\ emus'[e].shutdowns = 0 /\ DOMAIN emus' = DOMAIN emus
      /\ \A x \in Emus \ {e} : emus'[x] = emus[x]
  BY <1>2, <1>3, <1>4 DEF Emulator, Emus
<1>6. /\ at' \in [Callers -> Control] /\ \A d \in Callers \ {c} : at'[d] = at[d]
      /\ \/ at'[c].pc = "register" /\ at'[c].emu = e /\ outcome = "ok"
         \/ at'[c].pc = "idle"
  BY <1>2, <1>3, GoToFields, DoneFields DEF AbiInv, Holding
<1>7. Stage(at[c].pc, at[c].emu)'
  BY <1>4, <1>5, <1>6 DEF Stage
<1>8. RegistryHolds'
  BY <1>2, <1>3, <1>5 DEF AbiInv, AbiTypes, RegistryHolds
<1>9. ~Holds(c)' \/ at'[c].emu = e
  BY <1>6 DEF Holds, Holding
<1>10. /\ next_dev_id_' \in Nat \ {0} /\ DOMAIN registry_' \subseteq 1..(next_dev_id_' - 1)
  BY <1>3 DEF AbiInv, AbiTypes
<1> QED BY <1>1, <1>2, <1>3, <1>5, <1>6, <1>7, <1>8, <1>9, <1>10, HeldKeeps

LEMMA RegisterKeeps ==
  ASSUME AbiInv, NEW c \in Callers, Register(c)
  PROVE  AbiInv'
<1> DEFINE e == at[c].emu
           n == next_dev_id_
<1>1. Holds(c) /\ at[c].pc = "register"
  BY DEF Register, Holds, Holding
<1>2. /\ e \in Emus /\ e \in Nat /\ emus[e] \in Emulator /\ at[c] \in Control
      /\ emus[e].dev = 0 /\ emus[e].shutdowns = 0 /\ emus[e].state = "ready"
      /\ \A d \in DOMAIN registry_ : registry_[d] # e /\ d # n
      /\ n \in Nat \ {0}
  BY <1>1, HeldFields DEF Stage
<1>3. /\ emus' = [emus EXCEPT ![e] = [emus[e] EXCEPT !.dev = n]]
      /\ registry_' = Put(registry_, n, e) /\ next_dev_id_' = n + 1
      /\ UNCHANGED <<handle_map_, next_handle_>>
      /\ GoTo(c, "handle", e) \/ GoTo(c, "owner", e)
  BY DEF Register
<1> HIDE DEF n
<1>4. /\ emus'[e] \in Emulator /\ emus'[e].state = "ready" /\ emus'[e].dev = n
      /\ emus'[e].shutdowns = 0 /\ DOMAIN emus' = DOMAIN emus
      /\ \A x \in Emus \ {e} : emus'[x] = emus[x]
  BY <1>2, <1>3 DEF Emulator, Emus
<1>5. /\ DOMAIN registry_' = DOMAIN registry_ \cup {n} /\ registry_'[n] = e
      /\ \A d \in DOMAIN registry_ : registry_'[d] = registry_[d]
  BY <1>2, <1>3 DEF Put
<1>6. /\ at' \in [Callers -> Control] /\ \A d \in Callers \ {c} : at'[d] = at[d]
      /\ at'[c].pc \in {"handle", "owner"} /\ at'[c].emu = e
  BY <1>2, <1>3, GoToFields DEF AbiInv, Holding
<1>7. Stage(at[c].pc, at[c].emu)'
  BY <1>4, <1>5, <1>6 DEF Stage
<1>8. RegistryHolds'
  BY <1>2, <1>4, <1>5 DEF AbiInv, AbiTypes, RegistryHolds
<1>9. next_dev_id_' \in Nat \ {0} /\ DOMAIN registry_' \subseteq 1..(next_dev_id_' - 1)
  BY <1>2, <1>3, <1>5 DEF AbiInv, AbiTypes, n
<1> QED BY <1>1, <1>2, <1>3, <1>4, <1>5, <1>6, <1>7, <1>8, <1>9, HeldKeeps

LEMMA UnregisterKeeps ==
  ASSUME AbiInv, NEW c \in Callers, Unregister(c)
  PROVE  AbiInv'
<1> DEFINE e == at[c].emu
           k == emus[e].dev
<1>1. Holds(c) /\ at[c].pc = "destroy"
  BY DEF Unregister, Holds, Holding
<1>2. /\ e \in Emus /\ e \in Nat /\ emus[e] \in Emulator /\ at[c] \in Control
      /\ k \in DOMAIN registry_ /\ registry_[k] = e /\ k \in Nat \ {0}
      /\ \A d \in DOMAIN registry_ : registry_[d] = e => d = k
  BY <1>1, HeldFields DEF Stage
<1>3. emus[e].state = "ready" /\ emus[e].shutdowns = 0
  BY <1>2 DEF AbiInv, RegistryHolds
<1>4. /\ registry_' = Without(registry_, k) /\ GoTo(c, "shutdown", e)
      /\ UNCHANGED <<emus, next_dev_id_, handle_map_, next_handle_>>
  BY <1>2 DEF Unregister
<1> HIDE DEF k
<1>5. /\ DOMAIN registry_' = DOMAIN registry_ \ {k}
      /\ \A d \in DOMAIN registry_' : registry_'[d] = registry_[d]
  BY <1>4 DEF Without
<1>6. /\ at' \in [Callers -> Control] /\ \A d \in Callers \ {c} : at'[d] = at[d]
      /\ at'[c].pc = "shutdown" /\ at'[c].emu = e
  BY <1>2, <1>4, GoToFields DEF AbiInv, Holding
<1>7. Stage(at[c].pc, at[c].emu)'
  BY <1>2, <1>3, <1>4, <1>5, <1>6 DEF Stage, k
<1>8. RegistryHolds'
  BY <1>4, <1>5 DEF AbiInv, RegistryHolds
<1>9. next_dev_id_' \in Nat \ {0} /\ DOMAIN registry_' \subseteq 1..(next_dev_id_' - 1)
  BY <1>4, <1>5 DEF AbiInv, AbiTypes
<1> QED BY <1>1, <1>2, <1>3, <1>4, <1>5, <1>6, <1>7, <1>8, <1>9, HeldKeeps

LEMMA ShutdownKeeps ==
  ASSUME AbiInv, NEW c \in Callers, ShutdownBoard(c) \/ Delete(c)
  PROVE  AbiInv'
<1> DEFINE e == at[c].emu
<1>1. Holds(c) /\ at[c].pc \in {"shutdown", "delete"}
  BY DEF ShutdownBoard, Delete, Holds, Holding
<1>2. /\ e \in Emus /\ e \in Nat /\ emus[e] \in Emulator /\ at[c] \in Control
      /\ emus[e].dev # 0 /\ emus[e].state = "ready"
      /\ emus[e].shutdowns = (IF at[c].pc = "shutdown" THEN 0 ELSE 1)
      /\ \A d \in DOMAIN registry_ : registry_[d] # e
  BY <1>1, HeldFields DEF Stage
<1>3. UNCHANGED <<registry_, next_dev_id_, handle_map_, next_handle_>>
  BY DEF ShutdownBoard, Delete
<1>4. /\ emus'[e] \in Emulator /\ DOMAIN emus' = DOMAIN emus
      /\ emus'[e].dev = emus[e].dev /\ emus'[e].shutdowns = 1
      /\ \A x \in Emus \ {e} : emus'[x] = emus[x]
      /\ \/ ShutdownBoard(c) /\ emus'[e].state = "ready"
         \/ Delete(c) /\ emus'[e].state = "freed"
  <2>1. CASE ShutdownBoard(c)
    <3>1. /\ emus' = [emus EXCEPT ![e] = [emus[e] EXCEPT !.shutdowns = emus[e].shutdowns + 1]]
          /\ emus[e].shutdowns = 0
      BY <1>2, <2>1 DEF ShutdownBoard
    <3> QED BY <1>2, <2>1, <3>1 DEF Emulator, Emus
  <2>2. CASE Delete(c)
    <3>1. /\ emus' = [emus EXCEPT ![e] = [emus[e] EXCEPT !.state = "freed"]]
          /\ emus[e].shutdowns = 1
      BY <1>2, <2>2 DEF Delete
    <3> QED BY <1>2, <2>2, <3>1 DEF Emulator, Emus
  <2> QED BY <2>1, <2>2
<1>5. /\ at' \in [Callers -> Control] /\ \A d \in Callers \ {c} : at'[d] = at[d]
      /\ \/ ShutdownBoard(c) /\ at'[c].pc = "delete" /\ at'[c].emu = e
         \/ Delete(c) /\ at'[c].pc = "idle"
  <2>1. CASE ShutdownBoard(c)
    <3>1. GoTo(c, "delete", e)
      BY <2>1 DEF ShutdownBoard
    <3> QED BY <1>2, <2>1, <3>1, GoToFields DEF AbiInv, Holding
  <2>2. CASE Delete(c)
    BY <2>2, DoneFields DEF Delete, AbiInv
  <2> QED BY <2>1, <2>2
<1>6. ~(ShutdownBoard(c) /\ Delete(c))
  BY DEF ShutdownBoard, Delete
<1>7. Stage(at[c].pc, at[c].emu)'
  BY <1>2, <1>3, <1>4, <1>5, <1>6 DEF Stage
<1>8. RegistryHolds'
  BY <1>2, <1>3, <1>4 DEF AbiInv, AbiTypes, RegistryHolds
<1>9. next_dev_id_' \in Nat \ {0} /\ DOMAIN registry_' \subseteq 1..(next_dev_id_' - 1)
  BY <1>3 DEF AbiInv, AbiTypes
<1>10. ~Holds(c)' \/ at'[c].emu = e
  BY <1>5 DEF Holds, Holding
<1> QED BY <1>1, <1>2, <1>3, <1>4, <1>5, <1>7, <1>8, <1>9, <1>10, HeldKeeps

(* Whatever any number of threads create, open, close and destroy at the   *)
(* same time: what is registered is ready and under its own number, a      *)
(* handle names a registered emulator and no other handle's, and a board   *)
(* is shut down once.                                                      *)
THEOREM EmulatorsStaySound == AbiSpec => []EmulatorsSound
<1>1. AbiInit => AbiInv
  <2> SUFFICES ASSUME AbiInit PROVE AbiInv
    OBVIOUS
  <2>1. Emus = {} /\ DOMAIN registry_ = {} /\ DOMAIN handle_map_ = {}
    BY DEF AbiInit, Emus
  <2>2. Idle \in Control /\ Idle.pc = "idle"
    BY DEF Idle, Control, Holding
  <2>3. Cardinality(Emus) = 0 /\ 1..0 = {}
    BY <2>1, FS_EmptySet
  <2>4. AbiTypes
    BY <2>1, <2>2, <2>3 DEF AbiInit, AbiTypes
  <2>5. \A c \in Callers : at[c].pc = "idle"
    BY <2>2 DEF AbiInit
  <2> QED BY <2>1, <2>4, <2>5 DEF AbiInv, RegistryHolds, HandlesAreOwn, OneHolder,
             Holds, Holding, Stages, Stage, ShutDownOnce
<1>2. AbiInv /\ [AbiNext]_abiVars => AbiInv'
  <2> SUFFICES ASSUME AbiInv, [AbiNext]_abiVars PROVE AbiInv'
    OBVIOUS
  <2>1. CASE AbiNext
    BY <2>1, CreateKeeps, LoadKeeps, RegisterKeeps, PublishKeeps, CloseKeeps,
       LookKeeps, UnregisterKeeps, ShutdownKeeps DEF AbiNext
  <2>2. CASE UNCHANGED abiVars
    BY <2>2 DEF abiVars, AbiInv, AbiTypes, RegistryHolds, HandlesAreOwn, OneHolder,
       Holds, Stages, Stage, ShutDownOnce, Emus
  <2> QED BY <2>1, <2>2
<1>3. AbiInv => EmulatorsSound
  BY DEF AbiInv, RegistryHolds, EmulatorsSound, RegisteredIsReady
<1> QED BY <1>1, <1>2, <1>3, PTL DEF AbiSpec
=============================================================================
