# CppTLM: specifications, model checking and proofs

CppTLM is a transaction-level simulator in C++: a simulation kernel with typed
ports, a factory that builds systems from configurations, a library of
interconnect, memory, PCIe, GPU and coherence models, and a GPU board that a
host program drives through a C ABI. This directory holds TLA+ specifications
of the parts whose correctness depends on order, or on what several parts do
together. Paths below are relative to `src/`, the root of the repository.

    tlc -workers 2 -config LinkLayer.cfg LinkLayer           one run
    tlc -workers 2 -config MCComponents.cfg MCComponents     all the small components
    tlapm SimulationProofs.tla                               proofs of one module (section 4)

## 1. The system

### Components

| component | state | operations | what makes it hard | what makes it correct |
|---|---|---|---|---|
| **DGpuBoard, injection** `src/tlm/gpu/dgpu_board_shell.cc` | `inject_q_`, `mmio_regs_`, `pending_resp_`, `pending_data_` (under `inject_mu_`), `next_trans_id_` (no lock), `stop_`, `last_exception_` | `mmio_read`, `mmio_write`, `backdoor_write`, `tick`, `sim_loop`, `drain_injection_queue`, `init`, `destroy` | any thread may drain; a 50 ms time-out races the answer; shutdown; restart | reads return the latest write; a promise is set once; nothing is left behind; `destroy` returns |
| **DGpuBoard, interrupts** same file | `coalesce_*` under `coalesce_mu_`, `coalesce_stop_`, the timer thread, detached callback threads | `msix_update_pending`, `msix_init`, `msix_clear_pending`, `set_msix_coalesce_*`, timer loop, forced flush, `destroy` | threshold, timer and flush race for a window; predicate wait; restart | each delivery in one window; one report per window, with one of its vectors; windows close |
| **Board devices and stores** same file, `display_device.cc`, memory views | VRAM, display registers and memory, register map, BAR windows | writes and reads by BAR or back door, init, destroy, gate | two routes that must agree; pointers of a former life | what is written by one way is read by the others |
| **SOC fabric** `lwc_bus_hub.hh`, `soc_internal_noc.cc`, adapters, `gpu_mesh_noc.hh` | targets, promises, one-slot registers, flits | register accesses, flit routing, splitting, mesh copies | a tick reads a slot a host thread writes; everything goes to the first target | registers follow the host; every flit is counted; copies take the longest route |
| **MsiXTable** `msix_table_mvp.cc` | masks, PBA bits, event queue | update, mask, unmask, EOI, resize, init, pop | sequences of masks, updates and EOIs | no accepted interrupt is lost; no dead vector is named |
| **PcieLinkLayer**, **FcTokenBucket**, **PcieBypassMux** `src/tlm/pcie/` | sequence numbers, retry buffer, output queues, credits, error injector | `tx_tlp`, `try_pop_*`, `rx_tlp_from_host`, `rx_dllp`, `tick`, `trigger_rate_switch`, `apply_mode` | loss, repetition, wrap of sequence numbers, credits at zero | TLPs arrive once and in order; credit is not overspent |
| **PCIe PHY control** `pcie_phy_digital_ctrl_tlm.cc` | LTSSM, rate switch, ASPM timers, sideband | training, switch, low power, removal, PERST | operations in any order, two modules share a switch | up exactly in L0; removed stays down |
| **Requester, completer, tracker, VF pool** | tags, outstanding reads, per-function tables, one shared queue | reads, completions, time-outs, FLR, MSI-X | late completions; reset of one function under traffic of the others | a tag names one read; a reset touches one function |
| **Endpoint, MVP endpoint, TLP codec, AXI path** | config registers, two BAR stores, doorbells, slots | TLP, AXI and config writes, FLR, resize, power states, pack, unpack | two stores; state set aside by a reset; narrow fields | stores and registers agree; what is sent is what is read |
| **SdmaEngineTLM**, **SdmaRingBuffer** `sdma_engine_tlm.cc` | `desc_in` slot, `inflight_`, `done_out` slot, ring, fences | `tick` (retry, then new descriptor), doorbell, `enable_ring_mode`, `ring_write_entry`, `submit_fence`, reset | retries over one page walker; slots that drop or overwrite | every descriptor is settled once and its completion accounted for; failures move nothing |
| **GmmuTLM** `include/tlm/gpu/gmmu_tlm.hh`, **PcieMemoryDevice** | walk state, pending page, retry count, PTE | `translate`, `tick`, enable register, reset, PTE reads | give-up against late answer; requests out of order | a translation is of the page asked for |
| **GPU front end and core** command processor, TMU, submit queue, completion ring, SM | rings, slots, back-off, instruction ring, pending loads | fetch, decode, dispatch, complete, notify, issue, execute | refusals and retries; ends reported in any order | a task is in one place and its end told once; an instruction ends once |
| **Simulation kernel** `include/core/` | event queue, packet pool, ports, virtual channels | schedule, run, send, tick | events of one time in any order; reuse of packets | no packet is reused while used; channels keep their order |
| **Configuration, factory, gates** `module_factory*.cc`, `json_includer.hh`, CDG gates | documents, instances, registry, groups, ports, bridges | extends, include, variables, checks, the steps of `instantiateAll`, nested factories | failure in the middle; names and groups are global | what is inherited is complete; ports of a pair belong together; no cyclic declaration passes |
| **Stream adapters** `framework/` | one-slot inputs and outputs, port pairs, credits | tick, arrival, consume | adapters of different kinds wired by index | what is delivered is what was sent, at its port |
| **NoC** router, NIC, link | input buffers, VCs, credits, delay line | per-cycle pipelines | back-pressure, credits at zero, changing latency | flits are in one place; channels and credits are accounted for |
| **Memory path** generators, arbiter, cache, memory, VRAM controller, crossbar | queues, owners, latencies, slots | tick, reset | several answers due at once; numbers that collide | a request ends once: answered, lost in a named slot, or waiting |
| **CEP coherence** sharer trackers, MESIF, CHI RN-F, stub cache, TileLink, MOESI, UALink engines, tables | handles, directories, lines, credits, MSHRs | local requests, snoops, completions, evictions | answers in any order, stale directories, back-pressure | one writer; no holder missed; dirty values kept; answers once |
| **CEP planes, contracts, state specifications** | groups, regions, rounds, barriers; tables with their evidence | create, destroy, register, send, barrier; checks | destruction under traffic; checks that pass too much | nothing outlives its group; a weakened table is refused |
| **Emulator C ABI** `src/abi/cpptlm_emulator.cc` | registry, handle map, next numbers | create, open, close, destroy, query | threads over two locks | a registered emulator is ready; shut down once |
| **Statistics, trackers, topology generator** | histograms, reporter thread, transaction records; graphs | sample, snapshot, start, stop, link, complete; export | threads; payloads that are recycled | snapshots are written; parents end with their last child; a mesh is wired once |

`PROJECT.json` lists every component with its status and what of it is not
modelled, and the hazards with their lines.

### How they interact

A host thread enters through the C ABI into `DGpuBoard`. Accesses that the
routing serves (windows, display, register bus) end there; the others go through
the injection queue, which the simulation thread (after each quantum), a caller
of `tick()` or the reading thread itself drains. A write to the doorbell address
runs SDMA ring entries at once, in the caller. The simulation thread advances
the board's event queue, which ticks the modules of the SOC; modules talk over
one-slot ports, and links deliver after a delay. The SDMA engine calls the page
walker directly (`translate`) and the walker reads page-table entries from the
memory device over ports. Interrupts go from the MSI-X table of the endpoint to
the coalescer and from there, on detached threads, to the host's callback.
`destroy()` stops the threads in the order `stop_`, poison, join, timer, members;
`load_soc_config()` and `init()` give the board another life. In a system without
the board the factory builds the modules from a configuration, after inheritance,
includes, variables and the gates; protocol engines are ticked like any module
and call their sharer tracker directly.

## 2. Modules

| module | models | granularity |
|---|---|---|
| `BoardInject` | the injection path and life cycle | a step is a critical section of `inject_mu_` or one unlocked access |
| `MsixTable` | the MSI-X table | an action is a call |
| `IrqCoalesce` (extends `MsixTable`) | interrupts, coalescer, timer, callbacks, restart | a step is a critical section of `coalesce_mu_`, a wait, or an unlocked access |
| `LinkTransfer` | what a link promises: accepted TLPs arrive once, in order | abstract specification |
| `LinkLayer` (instantiates `LinkTransfer`) | the link layer, its token buckets and its partner | an action is a call; the code is single-threaded |
| `SdmaEngine` | engine, ring, page walker (operators on its state), memory port and the links between them | a step is one tick of a component, one delivery or one host call |
| `BoardStores`, `SocFabric` | where the board keeps what is written; register bus, SOC NoC, mesh | a call; on the bus, a lock or an unlocked access |
| `PhyCtrl`, `EndpointIp`, `MvpEndpoint`, `TlpCodec`, `HostAxi`, `VfPool` (with the requester engine) | PCIe | a call or a tick |
| `GpuFront`, `GpuCore` | command processor to completion ring; one multiprocessor | a state of the processor, a tick |
| `SimKernel`, `StreamPorts`, `NocRouter`, `MemPath` | kernel, adapters with the NoC's interfaces and link (`StreamPorts`), router, memory path | an event, a tick, a cycle |
| `ConfigInput`, `FactoryAssembly`, `CepGates` | from a configuration to a system, with the topology generator (`ConfigInput`) and the adapters' contracts (`CepGates`) | a step of the elaboration; a step of the search |
| `SharerTracker` (snoop mechanics and trackers), `MesifEngine` (extends it), `ChiRnfEngine`, `StubCache`, `CepEngines`, `CoherenceTables` | coherence | a call of the engine, a tick |
| `CollectivePlane`, `StateSpecs` | planes, and checks over declarations | a call; one evaluation |
| `EmulatorAbi`, `Metrics`, `Trackers` | C ABI, statistics, records | what happens under a lock or between two |
| `SimulationProofs`, `DgpuProofs`, `LinkLayerProofs`, `SdmaProofs`, `CoherenceProofs`, `PcieProofs` | proofs about `BoardInject`, `SimKernel` and `MemPath`, about `IrqCoalesce`, `MsixTable`, `GpuFront`, `GpuCore` and `BoardStores`, about `LinkLayer` and its refinement of `LinkTransfer`, about `SdmaEngine` and `SocFabric`, about `SharerTracker`, `MesifEngine`, `CoherenceTables`, `ChiRnfEngine`, `StubCache`, `CollectivePlane` and `CepEngines`, about `PhyCtrl`, `HostAxi`, `VfPool` and `EndpointIp` | |
| `MCComponents` | the small components with values for their run | |

Each module's opening comment says what it stands for and what is left out; each
action's comment names the function. The four larger models:

**BoardInject.** `mmio_read` is cut where other threads can act: it draws its
number (`StoreId`: the read and the store of the unlocked counter are two
steps), pushes the request and future under the lock, drains (`Swap`, then
`ServeRead` or `ServeOther` for each request of the batch, then `SetValue`), waits
(`WaitReady`, `WaitTimeout`), and collects its payload (`Get`, `Collect`) or
abandons the read (`Abandon`). A promise and its future share a state that
survives the erased future, which decides what a late answer leaves behind.
`SimRun`, `SimThrow` and `SimStop` are the loop of the simulation thread: a
quantum that ends in a drain, a quantum that throws and stores
`last_exception_`, and the exit. Left out: requests that the routing answers
before the queue, the D3hot gate, and the contents of the configuration.

**IrqCoalesce.** `Update` is the unlocked table update and `Ask` the unlocked
question whether it delivered; both run in the updater, with other updaters
between them. `ArmOrDrain` is the critical section that counts a delivery, arms
the window or closes it at the threshold. The timer's wait has two steps,
`TimerLook` (predicate evaluated, mutex held) and `TimerSleep` (blocked, mutex
released), because `destroy()` sets `coalesce_stop_` and notifies without the
mutex. Time is abstract: a timed wait may expire at any moment, which covers
every deadline. `FlushWindow`, `FlushFire` and `SetTable` are `msix_init`. The
argument of `msix_update_pending` has 32 bits and the table's index 16: `Narrow`
is the conversion, modulo a small ring, and the report names the argument as it
came. `Trigger` takes the callback that is set at that moment or drops the report
(`dropped`); `SetCallback` sets it or takes it away at any time. In the code
`set_irq_callback` and `trigger_irq_async` touch the `std::function` without a
lock: replacing it while another thread copies it is a data race, of which the
model keeps the two outcomes, the callback before and the one after.

**MsixTable.** Each vector's mask and PBA bit and the event queue. `owed` is a
history variable: vectors for which an interrupt has been accepted and neither
delivered, acknowledged nor dropped by a resize or an init. `ConfigureVector`
overwrites the control word, mask bit included, and delivers nothing; `bypassed`
notes the vectors it unmasked while their interrupt was pending, which
`NoPendingLost` excepts. The board never configures a vector, so in `IrqCoalesce`
the stronger `PendingDelivered` holds. The one caller in the repository is the VF
pool, which has the call in its own module.

**LinkLayer.** TLPs are serial numbers. The sender gives them sequence numbers
modulo `SeqWrap` (4096 in the code), keeps them in `retry_buf` and refuses
beyond half the ring. `PopTlp` takes one TLP off the queue, past those the error
injector loses, and hands it to the partner. The partner is external: it takes
what it expects, acknowledges, asks again once per gap and again when nothing
comes, and its DLLPs may be lost. `granted` and `used` are histories of credit.
`ApplyMode` does to the link layer what `PcieBypassMux::apply_mode` does. Not
modelled: DLLP encoding. The 128b/130b wire time is modelled when the encoding
latency is on (`Encoded`): see "Wire time" in section 5.

**SdmaEngine.** The asynchronous configuration of the walker (no memory view, no
VRAM controller), where `translate()` answers `-EAGAIN` until a PTE read has come
back. With a memory view the walk is a synchronous look-up with no protocol. A
completion is written to `done_out`, one slot that a second write in the same tick
overwrites (`Emit`): `emitted` is the history of the writes, `sent` what the adapter
took from the slot, `lost` what was overwritten. `SdmaTick` is the whole `tick()`:
retries in order, then the new descriptor, fences, and the adapter's emission. Its
retries and the doorbell's loop are both `TryAll`, one attempt per descriptor in
order. The doorbell runs a D2D entry as D2H (`RingEntry`) and tells an entry whose
walk is pending the status nobody wrote, 0 (`Unwritten`). The doorbell's write is
atomic here since it runs in its caller; its interleaving with the simulation thread
inside a tick is not modelled. Pages, frames and statuses are model values; a PTE of
an address past the memory's backing is the distinct value `Poison`. Not modelled:
the path through the requester engine, and the contents of `mem_out` and `host_out`.

**The components.** `MCComponents` puts small instances of the other components, and
the safety runs of `BoardInject` and `LinkLayer`, side by side. The first state
chooses one (`unit`), its steps are the component's, and its properties are
conjoined under that choice. The variables are shared between the components, each
using as many as it declares, so the states of the components add up and never
multiply. Some components appear twice, with other values: the snoop mechanics with
merging, the fabric as bus, network and mesh, the endpoint at work and while its
documents are composed. They are separate questions put in one run, and nothing is
claimed of their composition beyond what a module composes itself: `MesifEngine`
runs two engines against a tracker, `SharerTracker` runs on the snoop mechanics,
`GpuFront` composes four modules, `StreamPorts` two interfaces and a link, `MemPath`
generators, arbiter and memory, `FactoryAssembly` nested factories.

## 3. Runs

| run | distinct states | shows |
|---|---|---|
| `board_inject_live` | 179 677 | two hosts without self-drain, two lives: `ShutdownReturns`, `InjectedIsDrained` |
| `board_inject_cross` | violation | `NoCrossTalk` |
| `components` | 2 107 726 | the components of section 2, each on its own, see the table below |
| `irq_coalesce` | 534 114 | two updaters, two lives: `NoDeliveryLost`, `RepresentativeOfWindow`, `OneCallbackPerWindow`, `PendingDelivered`, `FirstLifeWindowCloses`, `FiresReachHost` |
| `irq_coalesce_destroy` | violation | `DestroyReturns` |
| `irq_coalesce_restart` | violation | `WindowCloses` |
| `link_layer` | 211 132 | the link implements `LinkTransfer` under two losses (`TransfersInOrder`); `UnreceivedIsRetained`, `RetryIsWindow`, `EveryTlpReceived` |
| `link_layer_stale` | violation | `TransfersInOrder` |
| `link_rate_switch` | violation | `WireComesBack` |
| `sdma_engine` | 448 160 | `EveryDescriptorAccounted`, `FailureMovesNothing`, `OwnFrame`, `WaitingListDrains` |
| `gmmu_stale` | violation | `TranslationIsOfRequest` |
| `completion_twice` | violation | `NotifiedOnce` |

| property of `components` | what it conjoins |
|---|---|
| `ComponentsTypeOK` | the variables keep their types; no mask, bit or event names a vector beyond a table that shrank |
| `ReadYourWrites`, `ServedOnce`, `NothingLeftByAnsweredReads` | of `BoardInject`, where a self-draining host, a ticking thread and the simulation thread all swap `inject_q_` |
| `CreditCoversTraffic`, `AcksInOrder` | of `LinkLayer`, in both directions with two functions, every DLLP, injected losses, a rate switch and a change of mode |
| `NoPendingLost` | an accepted interrupt is queued or remembered until it is handed out or acknowledged, unless `configure_vector` took its mask away |
| `SnoopsAreSound` | a handle names one snoop, each that was begun with a responder waits for one, answers merge in any order |
| `HomeReachesHolders` | no tracker misses a holder; a forwarded read finds the data; the directory follows the engines |
| `ChiAccounts` | credits conserved, a snoop answered once, a completion acknowledged once |
| `DirtyValueKept` | a value of a dirty line is in the line, in a waiting answer or handed on; no fetch over an owned line |
| `OneWriter` | the tables of four families leave one writer after any requests |
| `EnginesAccount` | what arrived is counted once or in its slot; O is left only with the tracker's answer |
| `NothingOutlivesItsGroup` | regions, rounds, events and barriers of a group that is gone are gone |
| `NocAccounts` | each flit is in one place; a head leaves by its own route, the flits behind it too unless another packet of their transaction id crosses; channels and credits agree; every head is answered; adapters deliver what was sent where it belongs |
| `AnswersAccounted` | requests of the memory path end once; tasks are held, the host hears of the end of each task once and of a fence once for each way it is told; instructions end once; records and children agree; snapshots are written |
| `LinkStateSound` | up exactly in L0, the link layer switches only while the PHY does, the PHY longer only until its next tick, a removed card stays down |
| `PcieTransactions` | reads end once with their own tag, functions are apart, AXI requests are accounted for, what the codec accepts is what was packed |
| `EndpointConsistent` | power state, ASPM and stores of the endpoint agree, its composition follows the documents loaded; the same for the MVP endpoint, the board's stores and the register bus |
| `EmulatorsSound` | registered emulators are ready, handles their own, boards shut down once |
| `ElaborationSound` | inheritance is complete, pairs of ports belong together, cyclic declarations are refused, contracts pass what they name, specifications with a weakened entry are refused, a mesh is wired once |

**Bounds.** Every bound is a constant named `Max...`, used in a guard.
- `components`, injection: three calls are a write, a read and a second write or
  read of one thread while two others drain; two registers tell a wrong key from a
  right one, two lengths reach the length check. The hazards need one reader, one
  drainer and one more drainer; a third one repeats the second's role.
- `board_inject_live`: two hosts, two calls, two starts of the simulation
  thread: a destroy and a restart with requests queued.
- `irq_coalesce`: two updates meet at threshold 2 (closed by the second) and
  threshold 3 (closed by the timer or a flush); one reconfiguration (of a window
  parameter or of the callback) and two lives; arguments reach one past the ring of
  the table's index; queue bound 9 is never reached.
- `link_layer`: five TLPs over a ring of four pass the wrap, the half window is
  two, so it fills, and two faults lose a TLP and its NAK, or a TLP twice.
  Its instance in `components` has one credit per class with a capacity of two, so
  that credit runs out, returns and is capped. `link_rate_switch` has the two TLPs
  that are the least with a bill behind the front one.
- `sdma_engine`: two waiting descriptors are a full window, the third is
  refused; `MaxRetry = 2` stands for the code's `kMaxRetry`: the property speaks
  of the limit, not of its value. `gmmu_stale` has three waiting descriptors of
  two pages, the least that uses up the limit and then meets the late answer.
- `components`: two or three actors of a kind (nodes, ports, threads, functions,
  groups), one or two addresses, and counts just beyond a limit: one more message
  than credits, one more read than tags, a FIFO as long as the limit behind it, a
  ring of handles shorter than the snoops of a behaviour, so that numbers are
  reused. The endpoint is run twice: with three writes over two documents and a
  32-bit size of two pages, so that a BAR's size wraps, and with one write over
  every document that its composition distinguishes. Bounds in guards are named
  `Max...` in the modules, their values are in `MCComponents`.
- Deadlock is not checked (`CHECK_DEADLOCK FALSE`) because the calls are bounded:
  when they are used up and the threads wait for work, the system rightly stops.

**Fairness.** Weak fairness, and only where the code schedules something.
`BoardInject`: a thread inside a call goes on, the simulation thread runs its
loop; no host is obliged to call or tick, and a throw or a time-out is never
obliged to happen. `IrqCoalesce`: threads inside a call, the timer (its timed
wait expires) and detached threads run. `LinkLayer`: the link is ticked and the
partner handles what arrives; `SendingSpec` adds a partner that keeps
asking for what it misses. That is an assumption on the partner, which the link
layer needs since it has no replay timer. `SdmaEngine`: the event
queue ticks the engine; nothing is assumed of the walker, the links or the
memory, whose lost answers the retry limit must cover.

**Disagreements between the code and its words.** Seven runs end in a
counterexample, each to a sentence of a comment or a specification:
1. `next_trans_id_` is drawn outside `inject_mu_`, so that two hosts may share
   one number and one reads the other's register (`board_inject_cross`).
2. `destroy()` notifies the timer without `coalesce_mu_`; the wake-up may be lost
   and the join never return (`irq_coalesce_destroy`).
3. `coalesce_stop_` is never reset: in the next life the timer, started by the
   first update below the threshold, leaves at once, and the window never closes
   (`irq_coalesce_restart`).
4. `on_nak_received` puts new copies in front of `tx_tlp_out_` and leaves the copies
   already queued; an old copy reaches the partner a full turn of the ring late
   and is taken for a new TLP (`link_layer_stale`).
5. A walk the walker gave up is answered later and completes another page's
   walk: a descriptor is moved with a wrong frame and told success
   (`gmmu_stale`).
6. A completion pushed into the completion ring is told to the host by the push and
   again by the tick that takes it out, against "exactly-once"
   (`completion_twice`).
7. A rate switch clears the time the wire is busy and leaves the queue: the ready
   time of the front TLP wraps, and it is never popped (`link_rate_switch`).

`link_layer_stale` needs no loss on the wire: two NAKs injected at the sender are
enough, the second for TLPs sent after the copies of the first. With 4096 sequence
numbers it takes a queue of half a ring of stale copies. `link_layer` therefore
takes `Sending` for its steps, where NAKs come from the partner, and section 4
proves that the queue of copies is the only thing that can break the order.

Noted while modelling, modelled as the code does it, and without a run: an
abandoned read's late payload stays in `pending_data_`, although the comment at
`dgpu_board_shell.cc:1203` says it is cleaned; a TLP refused by the half window
has already spent its credit (`pcie_link_layer_tlm.cc:357-361`); a change of
mode resets only the bucket of function 0 although `pcie_bypass_mux.cc:85` says
every VF; a ring entry whose walk is pending is reported as done; the ring's
`wptr` never wraps; D2D overtakes a waiting H2D although
`sdma-engine-tlm/spec.md:44` requires tag order; an address past the memory's
backing is translated to 0xDEAD's frame although `gmmu_tlm.hh:13` says `-EIO`; an
orphaned walk holds the walker for ever; TLPs and ACKs of the old numbering stay in
the queues over a change of mode, and as nothing says what the partner should make
of them, no property does (`AcksInOrder` speaks of the time before).

`PROJECT.json` quotes nineteen more under "findings", met while modelling and
modelled as the code does it. Four of them are excepted by name in a property that
passes, so that it says what remains true:
- `configure_vector` unmasks a pending vector without delivering it (`bypassed` in
  `NoPendingLost`);
- the router's routing table is keyed by a transaction id that every source counts
  for itself, so that packets of two sources take each other's route (`SharesTxn`
  in `FlitsAccounted`);
- `done_out` holds one completion, and another that is written in the same tick
  replaces it (`lost` in `EveryDescriptorAccounted`);
- a snoop begun for nobody stalls its line (`SomebodyAwaited` speaks of those begun
  for somebody).

The others are an interrupt vector cut to 16 bits for the table and reported uncut,
answers to snoops lost at a full egress (MESIF), messages that overtake the pending
queue (CHI), a barrier that C-3 does not see, virtual channels that heads and bodies
keep, credits returned to the opposite port, an UpdateFC that never credits the
transmitter, doorbell events thrown away, the port index lost by an overload that
does not override, checks that skip what they announce (CXL table, AC-03), a
generated mesh mirrored against the router's rows, objects lost in inheritance, a
slot read without a lock, and a doorbell registered where no look-up reaches it.
Smaller ones, not listed there:
- coherence: `submit_local_request` of MESIF keeps the transaction of a request
  that found no slot; a CHI MakeUnique never gives its TxnID back;
- memory and NoC: answers due in one cycle overwrite one another
  (`memory_tlm.hh:273`); the interface answers at the head flit and sends nothing
  for an empty request; a latency of 0 in a link wraps;
- PCIe: the completer cuts tags to 8 bits while the requester uses 12; a removal
  does not stop a rate switch; a function reset clears capabilities nobody
  installs again, and a full reset writes the standard ones but not the header of
  the first extended one; a PHY attached after LNKCTL was written is never told;
  `on_bar_resize` keeps the size in 32 bits (`pcie_endpoint_ip.cc:674`), so that a
  BAR of 4 GB is emptied, although `pcie_resizable_bar.hh:25` says that overflow is
  fixed; hosts drop what the AXI slot refuses, and a new endpoint adapter drops what
  was in the old one; the pool's shared queue keeps the messages of a function that
  was reset;
- assembly: connections without a port get default ports and skip their adapters; a
  nested assembly's refusal is ignored; a failed elaboration leaves its names in
  the registry; `Wildcard::match("*", ...)` accepts every name; a variable that
  refers to itself is replaced up to the limit;
- board: the SOC NoC pointer survives the modules; beats beyond the eighth are
  lost; a response always goes to the SDMA adapter; register writes take effect
  twice, once by the call and once by the tick.

## 4. Proofs

Every theorem holds for all values of the constants that satisfy the assumptions
its module names; where a theorem has an assumption of its own it is given below.
Each rests on an inductive invariant that is stronger than the property. Proofs
of the components that TLC runs inside `MCComponents` stand at the end of the
component's module, the long ones in modules of their own.

**Injection** (`SimulationProofs`, any number of hosts, ticking threads, registers,
values and calls).
- `TypeCorrect`: `TypeInv` adds to `TypeOK` that a thread in `serve` or `answer`
  has something in its batch, that a thread about to answer has a read at its head,
  and that a number drawn is below the count of calls, which bounds the counter
  although its load and store are two steps.
- `PromisesSetOnce` (`ServedOnce`): `OnceInv` follows each promise through its
  places: the call that made it until it is pushed (`Carried`), the queue, one
  thread's batch (`Names`). The places are pairwise disjoint, none holds it twice,
  and a promise that is somewhere has no value. Each action moves a promise from
  one place to the next or takes it out and sets it (`OncePush`, `OnceSwap`,
  `OnceAdvance`); all the others are `OnceFrame`.
- `ReadsReturnWrites` and `AnsweredReadsLeaveNothing` hold for one host,
  `Host = {h}`, beside any number of ticking threads: for two hosts the shared
  number breaks them, as `board_inject_cross` shows. `ReadInv` says that a request
  in flight is that of the read under way or of an abandoned one (`FlightOf`), that
  numbers of abandoned reads are never drawn again (`NumberDrawn`), and that once
  the promise is set to success, or is about to be, the payload under the reader's
  number is the register's content (`AnswerOf`). That an answer is in no batch any
  more when the reader wakes is `ServedOnce`, so this proof rests on the one before.

**Simulation kernel** (`SimulationProofs`).
- `KernelStaysSound` (`KernelSound`; finitely many packets, any two capacities):
  `KernelInv` has three parts. `ClockHolds`: a run under way ends after the present
  cycle and what is due is due now or next. `PlacesHold`: a port's buffers hold
  exactly the packets whose place is that direction, each once and on its own
  channel (`BuffersHold`), and the pool counts the packets that are not free.
  `OrderHolds`: what arrived on a channel was sent before all that waits there and
  arrived in the order it was sent. It holds because what waits never goes over: a
  retry finds the channel occupied by the packet itself and only turns the channel
  round (`RotatedIs`, `PortTickKeeps`), so that a packet that is sent crosses at once
  or not at all. Which of two was sent first is kept as a set of pairs, `earlier`, so
  that a packet that was given back and taken again is a new one.

**Memory path** (`SimulationProofs`).
- `RequestsEndOnce` (`AnswersAccounted` of `MemPath`; any requests and number of
  them, any integer latencies): a request is in one of ten places, the slots, the
  queue, the pending answers, answered or lost, and `Sound` says that the places are
  apart (`NoOverlap`), that none holds a request twice (`OnceIn`), that a
  generator's requests are exactly the numbers it gave out (`Numbered`), and that
  the owner noted for what is under way is its generator unless the number clashed
  (`Owned`, `Homed`). It is kept by each part of a tick and not only by the cycle,
  so each part is a lemma about a value (`GenTickSound`, `ArbSound`, `XbarSound`,
  `MemSound`) made of moves from one place to another (`MovedBetween`). That nothing
  is lost at an occupied slot needs the order of the ticks: `PathInv` says that the
  slots before arbiter and memory are empty between cycles. Several answers due at
  once are dropped one set at a time (`DroppedKeeps`), the last goes on
  (`BackedKeeps`).

**Interrupts** (`DgpuProofs`; `MsixBounds`, `CoalesceAssumption`: naturals, a
non-empty set of thresholds).
- `TypeCorrect`: `TypeInv` strengthens `TypeOK` by what the control points say of
  the arguments: an updater inside a call holds a vector. `msix_update_pending` may
  be called with a number past the table; only the table's refusal keeps it from the
  coalescer. One lemma per group of actions, joined in `TypeNext`.
- `DeliveriesAccounted` (`NoDeliveryLost`: `handed = settled + count`) and
  `RepresentativeDelivered` (`RepresentativeOfWindow`) rest on `WindowInv`: when a
  delivery finds an empty window its representative is replaced just when the count
  is zero, and only `armed <=> count > 0` makes that the step that arms.
  `ArmOrDrainWindow`, `TimerWindow`, `FlushWindowWindow` treat the steps that touch
  the window, `WindowFrame` all the others.
- `CallbacksAccounted` (`OneCallbackPerWindow`: what was fired was called, dropped
  for want of a callback, spawned, or is in the hands of the thread that fires).
  `CallInv` adds that the updaters about to fire are finitely many and that the sum
  over the vectors is a natural number. The sum is a recursive function over the
  table: `PartialSumsExist` and `SumMoves` show, by the least index at which it
  fails, that a thread spawned or run for one vector moves it by one. Each of the
  four places a callback comes from has a lemma (`UpdaterCalls`, `TimerCalls`,
  `FlushCalls`, `CallbackCalls`).
- `AcceptedIsKept` (`NoPendingLost`, the table alone) and `BoardKeepsPending`
  (`PendingDelivered`, the table in the board, which configures no vector): each
  property is inductive with the types. The lemmas say where a vector still occurs
  after an event was appended, popped or removed; `BelowKeeps`, that a resize keeps
  exactly the queued vectors the new table has.

**GPU** (`DgpuProofs`).
- `TasksKept` (`TasksAccounted`): `FrontInv` says that the submit queue has its active
  tasks before its pending ones and both in the order of dispatch (`QueueHolds`),
  that what the TMU caches are the tasks whose end it was not told, `inflight` being
  their number (`TmuHolds`), and that each end is still to be reported, in the
  completion ring or told to the host (`EndsKnown`, `RingKnown`). The three reports
  of an end come in any order, which is why none of the three may count by another.
  `FrontAssumption` keeps task ids and fence values apart, because the history of
  notices is kept by number.
- `InstructionsEndOnce` (`InstructionsAccounted`; any natural ring size, any integer
  latency): `CoreInv` says that the ring has the instructions fetched and not issued
  (`RingHolds`), that pending loads wait in the order they were fetched and nothing
  after them was touched (`LoadsWait`), that what ended is neither in the ring nor
  pending (`EndsHold`), and that a register holds what a completed instruction wrote
  (`FileHolds`), over a new start of the core too.

**Link layer** (`LinkLayerProofs`).
- `CreditIsCovered` (`CreditCoversTraffic`), for up to three TLP classes as in the
  code: `CreditInv` adds that tokens, capacities and histories are naturals. A
  TLP's credit is taken before the half window may refuse it, so the count may fall
  behind the tokens spent and never run ahead (`ConsumeCovers`); an UpdateFC is
  counted by what it adds under the cap (`UpdateCovers`); the largest of the
  capacity and the credits is one of them, so InitFC makes a bucket
  (`InitFcIsBucket`).
- `AcksStayInOrder` (`AcksInOrder`), for every even ring: `DistAfter` shows that a
  step of the counter makes every distance one longer, across the wrap. The ring is
  a constant, so its remainders have a variable divisor: `Remainder` and
  `RemainderUnique` give quotients to the solvers.
- `LinkTyped` (`TypeOK`): one lemma per group of variables, sender, receiver,
  errors, partner, mode.
- `LinkImplementsTransfer` (`TransfersInOrder`, the refinement of `LinkTransfer`) and
  `RetryBufferIsWindow` (`RetryIsWindow`, `UnreceivedIsRetained`), within one mode
  (`MaxModes = 0`: `apply_mode` empties the buffers by design). `OrderInv` counts
  what the code keeps modulo the ring: `acked` TLPs were acknowledged, at most half a
  ring is outstanding, each outstanding TLP is in the buffer under its number, every
  queued entry is a copy of a TLP under its number, and the DLLPs under way carry a
  sequence of counts that never falls (`heard`), so that an ACK read against
  `last_acked_seq` names the count it was sent with. The abstract step follows:
  `tx_tlp` accepts, a pop the partner expects receives, everything else stutters.
  The invariant needs one thing the code does not ensure: no queued copy is a whole
  turn of the ring behind the partner (`FreshCopies`). Both theorems have it as a
  hypothesis, and `link_layer_stale` shows the order broken where it fails.
  `FirstTurnInOrder` and `FirstTurnRetry` need no such hypothesis: while fewer TLPs
  were sent than the ring has numbers, copies are fresh.

**SDMA engine and page walker** (`SdmaProofs`, for every set of pages and jobs, every
window, ring, retry limit and number of descriptors).
- All four theorems come from one invariant, `SdmaInv` (`SdmaInvariant`). `TagsInv`
  and `Account` follow a tag: what waits in `inflight_` has its own tag, was never
  emitted and moved nothing; what was accepted and waits no longer was emitted with
  one status or dropped by a reset, moved at most once, and moved only if the status
  is OK; a completion emitted is in `done_out`, sent or lost; the tags in the slot and
  in the ring are not among the accepted. `OneWalk` follows the page read:
  while the walker waits, its page is in exactly one of the five places between the
  walker and the memory, and there is nothing in them otherwise, as long as no walk
  was given up.
- One attempt is analysed once, bottom up: `StartWalkSound`, `AskAgainSound` and
  `ConsumeSound` for the walker, `TranslateSound`, `AttemptSound`, then `TrySound`
  for what it does to the tags. `LoopSound` carries it over the loop, which is a
  recursive function (`LoopExists`): the same lemma serves `retry_inflight()` and
  the doorbell. `SdmaTickKeeps` and `DoorbellKeeps` put the parts together.
- `SdmaTyped` (`TypeOK`), `DescriptorsAccounted` (`EveryDescriptorAccounted`),
  `FailuresMoveNothing` (`FailureMovesNothing`), `TransfersUseOwnFrame` (`OwnFrame`).
  `OwnFrame` speaks of systems without an abandoned walk, which is where the code
  keeps it: `gmmu_stale` shows it lost after one.

**Coherence** (`CoherenceProofs`, any number of nodes, lines, levels and snoops).
- `HandlesSound` (`MaxHandle` not 0) rests on `MergeInv`: handle and address name each
  other, a live snoop that was begun for somebody, or joined by one, waits for a
  responder (a fresh handle is a free one by its
  choice, a joined one keeps its address), and the merged state is the largest of
  the answers, or M once one carried data (`MergeOf`), which no order changes:
  `MergeAdds` says what one more answer does to it.
- `HoldersReached` (`LevelOk`, finitely many nodes): `TrkInv` says of all six trackers
  together that a node is entered at its own place and for tracked lines only
  (`Located`), that every holder is among the sharers (`HoldersNoted`) although a
  clean one may leave silently, that the dirty set is exact (`DirtyNoted`), and that
  an owner holds a line alone (`OneOwner`). `PutIs`, `SetIs` and `ClearIs` reduce the
  six layouts to one entry per level and line; `ViewKnows` and `FlatView` turn the
  entries into the verdict that the home acts on.
- `DirectoryIsCurrent` (`LevelOk`): `LinesNoted` is an equivalence, entry by entry,
  and each transition of an engine is entered in the same step (`ApplyKeeps`); what
  is on the wires needs only its type.
- `TablesKeepOneWriter`: `RowsAgree` reads from the four tables that an actor that
  may write leaves the others without a copy, and that another cache keeps the
  right to write only if it had it and the actor gave the line up; `TablesInv` is
  inductive from it.
- `MessagesAccounted` (`InitialCredit`, `MaxPending` naturals): `OutInv` speaks of the
  way out as one value, so that `emit`, `drain_pending` and the sending of the slots
  are functions that keep it (`EmitKeeps`, `DrainOneKeeps`, `SentKeeps`) however `tick`
  composes them. The balance of a channel is `Balanced`; that a snoop has one answer
  is said by positions (`OneAnswer`: one waits and none is in a slot, or the other
  way round), because a drain moves the answer from the head into a slot.
- `WrittenIsKept` (`SnoopLatency \in Nat`): a line in state M holds the value last
  written (`OwnedIsLatest`), so a dirty answer that went stale in the queue is not
  the only copy of anything.
- `NothingIsLeftBehind` (`NothingOutlivesItsGroup` of both planes) and
  `GroupsNeverReturn` (an action property), for any finite set of members:
  `PlaneInv` says that regions and rounds are of live groups (`GroupsKnown`), that
  regions do not overlap (`RegionsApart`), and that a round or a barrier that is
  open still waits for a member of its group (`RoundsOpen`, `BarriersOpen`). The
  last needs that members are finitely many: a round closes when the number of those
  that came is the number of members, and only for finite sets is that the same set.
  `destroy_group` takes out all three in one step; numbers only grow.
- `BundlesAccounted` (`EnginesAccount`, any bundles and numbers of ticks): `EngInv` says
  what waits in each of the two ports (`SlotsKnown`), that what arrived is what was
  handled plus what waits (`Counters`), that handled bundles are events or explicitly
  none (`Tallies`), and that the MOESI engine left O as often as the tracker's
  answer is on record.

**PCIe** (`PcieProofs`).
- `LinkStateHolds` (`SwitchDelay \in Nat`): a removed card stays down because
  nothing that may bring it up is under way (`NothingUnderWay`); that up is L0 needs
  that ASPM never enters L0 and that a forced link is up outside it (`UpInL0`,
  `ForcedIsUp`). `SwitchInStep` says that the link layer switches only while the PHY
  does; `tx_tlp` and `rx_tlp_from_host` may end the link layer's switch before the
  PHY's tick does (`LinkTraffic`), so the two agree only after the tick. `tick()` is
  a sequence of parts, each of which keeps all of it.
- `ReadsEndOnce` (`TagsOk`: `MaxTag` a natural, tags on the wire modulo a number that is
  not 0): `ReqInv` says that an outstanding tag is that of its read, so no two stand
  for one (`TagsNameReads`), that awaited, finished and failed reads are disjoint and
  all there are (`EndedOnce`), and that a read is answered by one completion, on the
  wire or taken (`AnsweredOnce`). The tag chosen is free because the least of the
  free candidates exists (`LeastNat`). A completion whose tag was not cut meets its
  own read or finds it over; in the second case `EndedOnce` says how it ended.
- `RequestsSomewhere` (`IdRing` not 0): no number is in two slots (`SlotsApart`), a beat
  on its way has not arrived (`BeatsApart`), and the count of an id is the number of
  requests that note it (`Noted`), which a response lowers by one (`StruckIs`).
- `FunctionsStayApart` (`FnsOk`: there is a function 0): `FrontDelivered` adds to the
  property that what the link layer has of a function is the front of that
  function's messages, so that what a tick takes comes after it. `InOrder` shows
  that the ranks of a finite set of numbers enumerate it in order, which is what
  the tick's loop over the queue does.
- `EndpointStaysConsistent` (`InputsOk`: what is written to registers are integers,
  offsets are, a document's link is on, off or absent): that the device is in
  PMCSR's state needs that the bits of the register are those its callback saw last
  (`PmSeen`, `LnkSeen`), since the same bits written again tell nobody; that is
  what a reset breaks, after which `apart` excuses the power state and LNKCTL asks
  for nothing. The stores agree word by word because no word is at an offset that is
  not aligned (`WordsAligned`). A composition is `Composed`: built once, unless there
  were other modules, and with both sinks and one mode whenever it is active.

**Records** (`TrackersStaySound`, at the end of `Trackers`; `NoPayload` is no payload):
a child that is not in `late` was linked once, so its parent is the one that lists it
(`ChildrenKnowParents`), and no record of a payload is newer than the payload's
context (`NewestHasContext`), which is what makes a foreign hop a sign of reuse.

**The board's stores** (`BoardStoresAgree` in `DgpuProofs`; `StoresOk`: offsets are
naturals, the status register is none of the display's identity). Every action but a
write and the gate forgets the last write, so the two routes are compared where they
are taken: a read's place is among the write's (`RouteTaken`), every place the write
took has its cells (`WriteReads`), and a place in the VRAM has the same cells from any
window (`WriteAgrees`). Without a SOC the pointers are null (`Pointed`).

**The SOC's buses** (`FabricStaysSound` in `SdmaProofs`; `FabricOk`: a transaction id
keeps a tag, nobody but the VRAM's adapter answers the SDMA). A write in the GMMU's
slot is the access the board is about to handle or the last it handled
(`SlotIsNewest`); of one the tick has taken this holds for registers no write raced
(`TakenIsNewest`), so handling it again leaves what the host left. `PromiseInv` gives
each waiting future one identifier; `Answering` says what waits at the VRAM's adapter
answers a flit that came in; `Covered` divides a byte's distance by the beat.

**The C ABI** (at the end of its module).
- `EmulatorAbi!EmulatorsStaySound`: a call that has taken an emulator out of the
  registry, or not yet put it in, holds it alone (`OneHolder`): no handle and no
  other call names it; what a stage of a call does to it disturbs nobody.

Only model-checked: every liveness property (the prover does not reach fairness or
`ENABLED`); the link's order with changes of mode; and of `components`:
`NocAccounts` (router, NIC, statistics), the snapshots of `AnswersAccounted`
(`Metrics`), `MvpEndpoint` of `EndpointConsistent`, the TLP codec of
`PcieTransactions`, and of `ElaborationSound` all but the kernel: the elaboration,
the search for cycles and the checks of declarations are single evaluations over
documents, whose proof would be an induction over data. Recursive functions of a
model (a loop, a sum, a filter) are proved about by their least failing index; the
community modules' folds and `SelectSeq` are not unfolded by the prover, so `Below`
and `TryAll` are written out.

## 5. What the plan has left, and what is not modelled

Of the plan of the first version everything named is modelled. What is left:

1. Proofs of what section 4 leaves to TLC and the provers could reach:
   the router's flits and channels, the snapshots, the MVP endpoint.
2. Composition of `SdmaEngine` with `Requester`: the engine's path through the
   requester loses its descriptor when `mrd_read` refuses
   (`sdma_engine_tlm.cc:752-761`).
3. Several routers, so that the missing return of credits shows as a deadlock of a
   mesh and not as the channels one router loses.

Not modelled, and why:
- GPU arithmetic (ALUs, matrix unit, shared memory banks, latencies of encodings):
  right or wrong by numbers, for which tests are the tool.
- Bundles, extensions and accessors: layouts without behaviour. The models take a
  bundle as a record of the fields their properties tell apart.
- Wire time: not the durations, only what they decide. Without the encoding latency,
  which is off by default and in all passing runs (`Encoded = FALSE`), a TLP that is
  queued may be popped, and fairness of `PopTlp` is the caller that keeps asking.
  With it, a pop must find that the bill of the wire covers the TLPs behind the front
  (`HeadGetsReady`): `try_pop_tx_tlp` subtracts their block times from it, unsigned.
  The bill is kept in block times of one constant length, up to `MaxBill`, and each
  accepted TLP may raise it by any number, since any time may have passed.
  `TriggerRateSwitch` sets it to 0, as in the code; what was queued then is refused
  until enough later TLPs have billed the wire anew (`link_rate_switch`).
  `set_encoding_latency` during traffic resets the same field and is not an action;
  copies queued by a NAK are not billed in the code either, so with the latency on
  they too may leave the bill short. `EveryTlpReceived` is claimed without it only.
- RTL wrappers and mock IP: the behaviour is the RTL's, which is not in the
  repository, or a test's.
- The wording of errors and reports, JSON syntax, logging, layout, statistics that
  nothing reads back, plug-in loading.
- Python analysis tools, probes, data, vendored libraries: no behaviour of the
  simulator.
- Fine interleavings inside an SDMA doorbell write (it runs in its caller while the
  simulation thread may be in a tick), the rehash of an unlocked map, a shift by 32
  or more: undefined behaviour of which the models keep only the outcomes that are
  states of the program.
