------------------------------ MODULE StubCache ------------------------------
(***************************************************************************)
(* StubCacheCore (src/include/tlm/cep/stub_cache_core.hh): the single-     *)
(* ported cache stub behind a protocol engine, with its miss registers and *)
(* its delayed snoop responses.  The home that completes and snoops is     *)
(* outside the source: it completes what is outstanding, perhaps with an   *)
(* old transaction number or an error, and snoops when it likes.           *)
(***************************************************************************)
EXTENDS Integers, FiniteSets, Sequences, Functions

CONSTANTS
  StubAddrs,    \* line addresses
  StubValues,   \* line contents
  MaxMshr,      \* Config::max_mshr
  SnoopLatency, \* Config::snoop_latency_cycles
  MaxTxnId,     \* bound: transactions started
  MaxResps      \* bound: snoop responses waiting

VARIABLES
  cache,        \* lines_: address -> [state, data]
  mshr,         \* mshr_: address -> transaction
  resps,        \* pending_resps_, each with the cycles it still waits
  next_txn_id,  \* next_txn_id_
  written       \* history: address -> the value only this cache may have

stubVars == <<cache, mshr, resps, next_txn_id, written>>

NoLine  == [state |-> "NONE", data |-> 0]
Perms   == {"NONE", "READ", "UNIQUE", "WRITEBACK"}
Nothing == 0    \* not a member of StubValues

StubInit ==
  /\ cache = [a \in StubAddrs |-> NoLine]
  /\ mshr = << >> /\ resps = << >> /\ next_txn_id = 1
  /\ written = [a \in StubAddrs |-> Nothing]

StateForPerm(p) ==
  CASE p = "READ" -> "S" [] p = "UNIQUE" -> "E" [] p = "WRITEBACK" -> "M"
    [] OTHER -> "I"

Hit(a) == cache[a].state \in {"S", "E", "M"}

(* request: one transaction per address and at most MaxMshr of them; a     *)
(* refused request changes nothing.                                        *)
StubRequest(a) ==
  /\ a \notin DOMAIN mshr /\ Cardinality(DOMAIN mshr) < MaxMshr
  /\ next_txn_id <= MaxTxnId
  /\ mshr' = [b \in DOMAIN mshr \cup {a} |->
                IF b = a THEN next_txn_id ELSE mshr[b]]
  /\ next_txn_id' = next_txn_id + 1
  /\ UNCHANGED <<cache, resps, written>>

(* cpu_read: a hit answers and changes nothing.                            *)
CpuRead(a) == ~Hit(a) /\ StubRequest(a)

(* cpu_write: without the permission the write is not done, only asked for.*)
CpuWrite(a, v) ==
  IF cache[a].state \in {"E", "M"}
  THEN /\ cache' = [cache EXCEPT ![a] = [state |-> "M", data |-> v]]
       /\ written' = [written EXCEPT ![a] = v]
       /\ UNCHANGED <<mshr, resps, next_txn_id>>
  ELSE StubRequest(a)

(* evict_line: refused while the line is being fetched.                    *)
EvictLine(a) ==
  /\ a \notin DOMAIN mshr /\ Hit(a)
  /\ cache' = [cache EXCEPT ![a] = NoLine]
  /\ written' = [written EXCEPT ![a] = Nothing]
  /\ UNCHANGED <<mshr, resps, next_txn_id>>

(* completion: of the address's own transaction; anything else is ignored. *)
Completion(a, txn, v, perm, error) ==
  /\ a \in DOMAIN mshr /\ mshr[a] = txn
  /\ mshr' = Restrict(mshr, DOMAIN mshr \ {a})
  /\ cache' = [cache EXCEPT ![a] =
       [state |-> IF error THEN "I" ELSE StateForPerm(perm), data |-> v]]
  /\ written' = [written EXCEPT ![a] =
       IF ~error /\ perm = "WRITEBACK" THEN v ELSE @]
  /\ UNCHANGED <<resps, next_txn_id>>

(* The line's state after a snoop hit.                                     *)
AfterSnoop(state, type) ==
  CASE type = "INVALIDATE" -> "I" [] type = "CLEAN" -> "S" [] OTHER -> state

(* Mutant: the answer is built after the line has changed.                 *)
SnoopLineFirst(a, type) ==
  /\ Len(resps) < MaxResps
  /\ resps' = Append(resps,
       [addr |-> a, dirty |-> AfterSnoop(cache[a].state, type) = "M",
        data |-> IF Hit(a) THEN cache[a].data ELSE Nothing, wait |-> SnoopLatency])
  /\ cache' = IF Hit(a) THEN [cache EXCEPT ![a].state = AfterSnoop(@, type)]
              ELSE cache
  /\ UNCHANGED <<mshr, next_txn_id, written>>

(* snoop: the line changes now, the answer with what it held is queued.    *)
Snoop(a, type) ==
  /\ Len(resps) < MaxResps
  /\ resps' = Append(resps,
       [addr |-> a, dirty |-> cache[a].state = "M",
        data |-> IF Hit(a) THEN cache[a].data ELSE Nothing, wait |-> SnoopLatency])
  /\ cache' = IF Hit(a) THEN [cache EXCEPT ![a].state = AfterSnoop(@, type)]
              ELSE cache
  /\ UNCHANGED <<mshr, next_txn_id, written>>

(* snoop_resp: the oldest answer, once its latency has passed; a dirty one *)
(* hands the value on unless the cache still has it as its own.            *)
SnoopRespOut ==
  /\ resps # << >> /\ Head(resps).wait = 0
  /\ resps' = Tail(resps)
  /\ LET r == Head(resps)
     IN  written' = IF r.dirty /\ written[r.addr] = r.data
                       /\ cache[r.addr].state # "M"
                    THEN [written EXCEPT ![r.addr] = Nothing] ELSE written
  /\ UNCHANGED <<cache, mshr, next_txn_id>>

(* tick                                                                    *)
StubTick ==
  /\ \E i \in DOMAIN resps : resps[i].wait > 0
  /\ resps' = [i \in DOMAIN resps |->
                 [resps[i] EXCEPT !.wait = IF @ > 0 THEN @ - 1 ELSE 0]]
  /\ UNCHANGED <<cache, mshr, next_txn_id, written>>

StubNext ==
  \/ \E a \in StubAddrs :
       \/ CpuRead(a) \/ EvictLine(a)
       \/ \E v \in StubValues : CpuWrite(a, v)
       \/ \E txn \in 1..MaxTxnId, v \in StubValues, perm \in Perms, e \in BOOLEAN :
            txn < next_txn_id /\ Completion(a, txn, v, perm, e)
       \/ \E type \in {"INVALIDATE", "CLEAN", "FORWARD"} : Snoop(a, type)
  \/ SnoopRespOut
  \/ StubTick

StubSpec == StubInit /\ [][StubNext]_stubVars

-----------------------------------------------------------------------------
StubTypeOK ==
  /\ \A a \in StubAddrs : cache[a].state \in {"NONE", "I", "S", "E", "M"}
  /\ DOMAIN mshr \subseteq StubAddrs
  /\ Len(resps) <= MaxResps

(* The value a processor wrote is never lost: until it was handed out by   *)
(* an eviction or in an answered snoop, it is in the line in state M or in *)
(* a dirty snoop answer that still waits - however snoops, completions,    *)
(* errors and refetches of the line overlap.                               *)
DirtyValueKept ==
  \A a \in StubAddrs : written[a] # Nothing =>
    \/ cache[a] = [state |-> "M", data |-> written[a]]
    \/ \E i \in DOMAIN resps :
         resps[i].addr = a /\ resps[i].dirty /\ resps[i].data = written[a]

(* A line that is being fetched is not owned: a completion, which replaces *)
(* the line, can never overwrite a value that was not written back.        *)
NeverFetchedOverOwned ==
  \A a \in DOMAIN mshr : cache[a].state \notin {"E", "M"}
=============================================================================
