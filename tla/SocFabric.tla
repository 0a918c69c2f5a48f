----------------------------- MODULE SocFabric -----------------------------
(***************************************************************************)
(* The SOC's own buses: LwcBusHub carries the host's register accesses to  *)
(* the GMMU's input slot while the board also hands them to the GMMU       *)
(* itself (host thread, simulation thread); SocInternalNoc hands a flit to *)
(* the adapter of its node; GpuMeshNoC copies within the VRAM.             *)
(***************************************************************************)
EXTENDS Integers, FiniteSets, Sequences, FiniteSetsExt, SequencesExt, Functions

CONSTANTS MaxIpPorts, Names, Values, Ids, MaxCalls,   \* of the hub
          Foreign, Asked, Splits, TagMod, IdMod,      \* of the NoC
          MaxFlits, MaxDim

VARIABLES hub,      \* registered targets, first ones, promises, counters
          slots,    \* the input slots of the registered streams
          futures,  \* what became of each future cr_read returned
          mmu,      \* [regs, taken]: registers, transaction the tick reads
          access,   \* transaction between the hub and the GMMU, and history
          noc,      \* counters per channel, nodes with an accept function
          ends,     \* the SDMA's and the VRAM's adapters
          mesh      \* dimension, hop latency, bytes and latency of copies

busVars == <<hub, slots, futures, mmu, access>>
nocVars == <<noc, ends, mesh>>
fabricVars == <<hub, slots, futures, mmu, access, noc, ends, mesh>>

Regs == {"lo", "hi", "enabled"}
Streams == [cr |-> {"gmmu", "other"}, db |-> {"sdma"}]
NoTarget == "nullptr"
NoTx == << >>
Pcie == 0
Sdma == 1
Gmmu == 2
Vram == 3
Channels == 0..3
Snoop == 3
Request == 0
Response == 1
NoFlit == << >>
NoEnds ==
  [sdma |-> [received |-> 0, unexpected |-> 0, tag |-> 0, ok |-> FALSE],
   vram |-> [emitted |-> 0, wrapped |-> 0, response |-> NoFlit, beats |-> << >>, whole |-> NoFlit],
   entered |-> {}]

FabricInit ==
  /\ hub = [targets |-> {}, first |-> [cr |-> NoTarget, db |-> NoTarget], pending |-> << >>,
            routed |-> 0, dropped |-> 0, calls |-> 0]
  /\ slots = [s \in UNION Range(Streams) |-> [valid |-> FALSE, tx |-> NoTx]]
  /\ futures = << >>
  /\ mmu = [regs |-> [r \in Regs |-> 0], taken |-> NoTx]
  /\ access = [tx |-> NoTx, last |-> [r \in Regs |-> 0], raced |-> {}]
  /\ noc = [dispatched |-> 0, unknown |-> 0, counts |-> [c \in Channels |-> 0], wired |-> {}]
  /\ ends = NoEnds
  /\ mesh = [dim |-> 2, hop |-> 2, bytes |-> 0, latency |-> 0]

-----------------------------------------------------------------------------
(* The hub.  Whatever the name a target was registered under, everything   *)
(* goes to the first one: the maps by name are only counted.               *)
RegisterTarget(kind, name, stream) ==
  /\ Cardinality(hub.targets) < MaxIpPorts
  /\ hub' = [hub EXCEPT !.targets = @ \cup {<<kind, name>>},
                         !.first[kind] = IF @ = NoTarget THEN stream ELSE @]
  /\ UNCHANGED <<slots, futures, mmu, access, nocVars>>

Routed == [hub EXCEPT !.calls = @ + 1, !.routed = @ + 1]
Dropped == [hub EXCEPT !.calls = @ + 1, !.dropped = @ + 1]
Counted(kind) == IF hub.first[kind] = NoTarget THEN Dropped ELSE Routed

Posted(kind, tx) ==
  IF hub.first[kind] = NoTarget THEN slots
  ELSE [slots EXCEPT ![hub.first[kind]] = [valid |-> TRUE, tx |-> tx]]

(* cr_write: a posted transaction replaces what the slot holds.            *)
CrWrite(tx) ==
  /\ hub' = Counted("cr")
  /\ slots' = Posted("cr", tx)

(* cr_read: no target and a busy slot are errors at once; a promise under  *)
(* the same 8-bit identifier is replaced, and its future broken.           *)
CrRead(id) ==
  LET target == hub.first.cr
      mine == Len(futures) + 1
  IN  /\ hub.calls < MaxCalls
      /\ \/ /\ target = NoTarget
            /\ futures' = Append(futures, "decerr")
            /\ hub' = Dropped
            /\ UNCHANGED slots
         \/ /\ target # NoTarget /\ slots[target].valid
            /\ futures' = Append(futures, "slverr")
            /\ hub' = Dropped
            /\ UNCHANGED slots
         \/ /\ target # NoTarget /\ ~slots[target].valid
            /\ slots' = Posted("cr", [op |-> "read", reg |-> "lo"])
            /\ futures' = LET broken == IF id \in DOMAIN hub.pending
                                          THEN [futures EXCEPT ![hub.pending[id]] = "broken"]
                                          ELSE futures
                          IN  Append(broken, "waiting")
            /\ hub' = [Routed EXCEPT !.pending =
                         [i \in DOMAIN @ \cup {id} |-> IF i = id THEN mine ELSE @[i]]]
      /\ UNCHANGED <<mmu, access, nocVars>>

CompleteCrRead(id) ==
  /\ id \in DOMAIN hub.pending
  /\ futures' = [futures EXCEPT ![hub.pending[id]] = "ok"]
  /\ hub' = [hub EXCEPT !.pending = Restrict(@, DOMAIN @ \ {id})]
  /\ UNCHANGED <<slots, mmu, access, nocVars>>

DoorbellWrite ==
  /\ hub.calls < MaxCalls
  /\ hub' = Counted("db")
  /\ slots' = Posted("db", [op |-> "write", reg |-> "wptr"])
  /\ UNCHANGED <<futures, mmu, access, nocVars>>

-----------------------------------------------------------------------------
(* The GMMU's registers: an unknown one answers DECERR and changes nothing.*)
Handled(regs, tx) ==
  IF tx.op = "write" /\ tx.reg \in Regs
    THEN [regs EXCEPT ![tx.reg] = IF tx.reg = "enabled" THEN tx.val % 2 ELSE tx.val]
    ELSE regs

(* mmio_read and mmio_write of the board: through the hub, then, with the  *)
(* same transaction, straight to the GMMU.                                 *)
BoardPosts(tx) ==
  /\ hub.calls < MaxCalls /\ access.tx = NoTx
  /\ CrWrite(tx)
  /\ access' = [access EXCEPT !.tx = tx,
                !.raced = CASE tx.op = "read" -> @
                            [] tx.op = "write" /\ mmu.taken # NoTx
                                 /\ mmu.taken.op = "write" /\ mmu.taken.reg = tx.reg -> @ \cup {tx.reg}
                            [] OTHER -> @ \ {tx.reg}]
  /\ UNCHANGED <<futures, mmu, nocVars>>

BoardWrites(r, v) == BoardPosts([op |-> "write", reg |-> r, val |-> v])
BoardReads(r) == BoardPosts([op |-> "read", reg |-> r])

BoardHandles ==
  /\ access.tx # NoTx
  /\ mmu' = [mmu EXCEPT !.regs = Handled(@, access.tx)]
  /\ access' = [access EXCEPT !.tx = NoTx, !.last = Handled(@, access.tx)]
  /\ UNCHANGED <<hub, slots, futures, nocVars>>

(* The GMMU's tick takes the slot's transaction without the hub's lock,    *)
(* handles it again, and then empties the slot.                            *)
TickTakes ==
  /\ mmu.taken = NoTx /\ slots["gmmu"].valid
  /\ mmu' = [mmu EXCEPT !.taken = slots["gmmu"].tx]
  /\ UNCHANGED <<hub, slots, futures, access, nocVars>>

TickHandles ==
  /\ mmu.taken # NoTx
  /\ mmu' = [regs |-> Handled(mmu.regs, mmu.taken), taken |-> NoTx]
  /\ slots' = [slots EXCEPT !["gmmu"].valid = FALSE]
  /\ UNCHANGED <<hub, futures, access, nocVars>>

BusNext ==
  \/ \E kind \in DOMAIN Streams, name \in Names : \E s \in Streams[kind] :
        RegisterTarget(kind, name, s)
  \/ \E id \in Ids : CrRead(id) \/ CompleteCrRead(id)
  \/ \E v \in Values, r \in {"lo", "enabled", "none"} : BoardWrites(r, v)
  \/ DoorbellWrite \/ BoardReads("hi")
  \/ BoardHandles \/ TickTakes \/ TickHandles

-----------------------------------------------------------------------------
(* The NoC and its adapters.                                               *)
Lane(cat) == IF cat \in Channels THEN cat ELSE Snoop

ToVram(write, addr, size, tag) ==
  [src |-> Sdma, dst |-> Vram, cat |-> Request, txn |-> tag % TagMod, write |-> write,
   addr |-> addr, size |-> Min({size, 255}), count |-> 1, ok |-> FALSE]

(* The VRAM adapter's request and its answer, which always goes to the     *)
(* SDMA and, nothing being read or written, always succeeds.               *)
FabricRequest(flit) ==
  [addr |-> flit.addr, size |-> flit.size, write |-> flit.write, txn |-> flit.txn % IdMod]
WrapResponse(request) ==
  [src |-> Vram, dst |-> Sdma, cat |-> Response, txn |-> request.txn, write |-> FALSE,
   addr |-> 0, size |-> 0, count |-> 1, ok |-> TRUE]

AtSdma(flit) ==
  IF flit.cat = Response
    THEN [ends EXCEPT !.sdma = [received |-> @.received + 1, unexpected |-> @.unexpected,
                                tag |-> flit.txn % TagMod, ok |-> flit.ok]]
    ELSE [ends EXCEPT !.sdma.unexpected = @ + 1]
AtVram(flit) ==
  [ends EXCEPT !.vram.emitted = @ + 1, !.vram.wrapped = @ + 1,
               !.vram.response = WrapResponse(FabricRequest(flit)),
               !.entered = @ \cup {flit.txn % TagMod}]

Counts == noc.counts[0] + noc.counts[1] + noc.counts[2] + noc.counts[3]

(* route_flit: counted on its category's channel first; a known node       *)
(* without an accept function counts as dispatched.                        *)
RouteFlit(flit) ==
  /\ Counts < MaxFlits
  /\ ends.sdma.received + ends.sdma.unexpected < MaxFlits /\ ends.vram.emitted < MaxFlits
  /\ noc' = [noc EXCEPT !.counts[Lane(flit.cat)] = @ + 1,
               !.unknown = IF flit.dst \in Pcie..Vram THEN @ ELSE @ + 1,
               !.dispatched = IF flit.dst \in Pcie..Vram THEN @ + 1 ELSE @]
  /\ ends' = CASE flit.dst = Sdma /\ Sdma \in noc.wired -> AtSdma(flit)
               [] flit.dst = Vram /\ Vram \in noc.wired -> AtVram(flit)
               [] OTHER -> ends
  /\ UNCHANGED <<mesh, busVars>>

SetAcceptFn(node) ==
  /\ noc' = [noc EXCEPT !.wired = @ \cup {node}]
  /\ UNCHANGED <<ends, mesh, busVars>>

SendRequest(write, size, tag) == RouteFlit(ToVram(write, 0, size, tag))
SendResponse == ends.vram.response # NoFlit /\ RouteFlit(ends.vram.response)

(* emit_noc_multibeat: one request per flit, and never more than eight.    *)
Beats(flit) ==
  IF flit.count <= 1 THEN <<FabricRequest(flit)>>
  ELSE [i \in 1..Min({flit.count, 8}) |->
          FabricRequest([flit EXCEPT !.addr = @ + (i - 1) * 32, !.size = 32])]

EmitMultibeat(flit) ==
  /\ ends.vram.emitted < MaxFlits
  /\ ends' = [ends EXCEPT !.vram.emitted = @ + Len(Beats(flit)), !.vram.beats = Beats(flit),
                !.vram.whole = flit]
  /\ UNCHANGED <<noc, mesh, busVars>>

NocReset ==
  /\ noc' = [noc EXCEPT !.dispatched = 0, !.unknown = 0, !.counts = [c \in Channels |-> 0]]
  /\ UNCHANGED <<ends, mesh, busVars>>
AdapterReset ==
  /\ ends' = NoEnds
  /\ UNCHANGED <<noc, mesh, busVars>>

-----------------------------------------------------------------------------
(* The mesh between the GPCs.                                              *)
Distance(a, b) == IF a > b THEN a - b ELSE b - a
RouteLatency(src, dst) == (Distance(src[1], dst[1]) + Distance(src[2], dst[2])) * mesh.hop
Corner == LET last == IF mesh.dim > 0 THEN mesh.dim - 1 ELSE 0 IN <<last, last>>

SetMesh(dim, hop) ==
  /\ mesh' = [mesh EXCEPT !.dim = dim, !.hop = hop]
  /\ UNCHANGED <<noc, ends, busVars>>

D2dForwardPayload(len) ==
  /\ len > 0 /\ mesh.bytes < MaxDim
  /\ mesh' = [mesh EXCEPT !.bytes = @ + len, !.latency = RouteLatency(<<0, 0>>, Corner)]
  /\ UNCHANGED <<noc, ends, busVars>>

NocNext ==
  \/ \E node \in {Sdma, Vram} : SetAcceptFn(node)
  \/ \E flit \in Foreign : RouteFlit(flit)
  \/ \E write \in BOOLEAN, a \in Asked : SendRequest(write, a[1], a[2])
  \/ SendResponse
  \/ \E flit \in Splits : EmitMultibeat(flit)
  \/ NocReset \/ AdapterReset

MeshNext ==
  \/ \E dim \in 0..MaxDim, hop \in 1..2 : SetMesh(dim, hop)
  \/ \E len \in 0..1 : D2dForwardPayload(len)

FabricSpec == FabricInit /\ [][BusNext \/ NocNext \/ MeshNext]_fabricVars

-----------------------------------------------------------------------------
(* Types of the fabric's variables.                                        *)
FabricTypeOK ==
  /\ hub.first \in [cr : Streams.cr \cup {NoTarget}, db : Streams.db \cup {NoTarget}]
  /\ mmu.regs \in [Regs -> Nat]
  /\ Range(futures) \subseteq {"decerr", "slverr", "waiting", "broken", "ok"}
  /\ noc.counts \in [Channels -> Nat]

(* A GMMU register holds the last value the host wrote, although every     *)
(* access also waits in the slot and is handled again by a later tick: the *)
(* slot always holds the newest transaction.  The registers for which a    *)
(* write came between a tick's reading of the slot and its handling are    *)
(* the exception, until they are written again.                            *)
RegistersFollowTheHost ==
  access.tx = NoTx => \A r \in Regs \ access.raced : mmu.regs[r] = access.last[r]

(* Every future that waits has its promise, and every call of the hub is   *)
(* either routed or dropped.                                               *)
PromisesKept ==
  /\ {i \in DOMAIN futures : futures[i] = "waiting"} = Range(hub.pending)
  /\ Cardinality(Range(hub.pending)) = Cardinality(DOMAIN hub.pending)
  /\ hub.routed + hub.dropped = hub.calls

(* Of the streams of one kind only one is ever given a transaction.        *)
OneTargetIsServed ==
  \A kind \in DOMAIN Streams :
    Cardinality({s \in Streams[kind] : slots[s].tx # NoTx}) <= 1

(* Every flit is counted on one channel and either dispatched or unknown;  *)
(* the SDMA is answered about what reached the VRAM's adapter; the beats   *)
(* of a request of up to eight flits cover it without a gap.               *)
FlitsAreCounted ==
  /\ noc.dispatched + noc.unknown = Counts
  /\ ends.sdma.received > 0 => ends.sdma.tag \in ends.entered
  /\ LET b == ends.vram.beats
         flit == ends.vram.whole
     IN  flit # NoFlit /\ flit.count \in 2..8 =>
           {b[i].addr + j : i \in DOMAIN b, j \in 0..31}
             = flit.addr..(flit.addr + 32 * flit.count - 1)

(* The latency charged for a copy is that of the longest route.            *)
CopyTakesTheLongestRoute ==
  \A x, y, u, v \in 0..(mesh.dim - 1) :
    RouteLatency(<<x, y>>, <<u, v>>) <= RouteLatency(<<0, 0>>, Corner)

FabricSound ==
  /\ RegistersFollowTheHost
  /\ PromisesKept
  /\ OneTargetIsServed
  /\ FlitsAreCounted
  /\ CopyTakesTheLongestRoute
=============================================================================
