------------------------------- MODULE VfPool -------------------------------
(***************************************************************************)
(* PcieRequesterEngine (pcie_requester_engine.cc): tags, time-outs and     *)
(* completions of memory reads, against a completer that builds its        *)
(* completions the way PcieCompleterEngine does (pcie_completer_engine.cc: *)
(* the tag cut to 8 bits).  Between them is a wire that may hold a read or *)
(* a completion for any time, or lose it.  The data and the codec are left *)
(* out; a read is a number, counted in the order of mrd_read.              *)
(*                                                                         *)
(* PcieSriovVfPool (pcie_sriov_vf_pool_tlm.cc): the functions of an SR-IOV *)
(* endpoint share one queue of MSI-X messages and one link layer, and each *)
(* has its own MSI-X table and outstanding non-posted requests             *)
(* (CompletionTracker).  A table is its mask and pending bits.  Left out:  *)
(* addresses and data, and each function's config space, sequence number   *)
(* and credits, registers that nothing else in the pool reads.             *)
(***************************************************************************)
EXTENDS Integers, FiniteSets, Sequences

CONSTANTS
  MaxTag,        \* the tags are 1..MaxTag (4095)
  TagMod,        \* what a completion keeps of a tag (256)
  TimeoutNs,     \* default_timeout_ns_, in ticks
  MaxReads,      \* bound: reads issued
  Fns,           \* functions, 0 the physical one (NUM_PORTS)
  Vecs,          \* vectors of a table
  Ids,           \* transaction ids of non-posted requests
  Capacity,      \* DEFAULT_CAPACITY of a tracker
  MaxDelivery,   \* bound: messages in delivery_queue_
  MaxReg         \* bound: requests registered

VARIABLES
  outstanding,   \* outstanding_: tag -> [read, age]
  last_tag,      \* last_tag_
  reads,         \* history: read -> the tag it was sent with
  wire,          \* reads on their way to the completer
  back,          \* completions on their way back: [tag, of]
  done,          \* history: completion callbacks, [read, of]
  errors,        \* history: reads the error callback was called for
  fns,           \* function -> [masked, pba, np, completed]
  ari,           \* ari_enabled_
  queue,         \* delivery_queue_: [fn, vec, delivered]
  mwr,           \* history: positions in queue whose message the link layer took
  tally          \* history: function -> [registered, flushed] requests

reqVars == <<outstanding, last_tag, reads, wire, back, done, errors>>

RequesterInit ==
  /\ outstanding = << >> /\ last_tag = 0 /\ reads = << >>
  /\ wire = {} /\ back = {} /\ done = {} /\ errors = {}

-----------------------------------------------------------------------------
(* allocate_tag: the candidate that lies i after the last tag.             *)
Candidate(i) == ((last_tag + i) % MaxTag) + 1
Free         == {i \in 1..MaxTag : Candidate(i) \notin DOMAIN outstanding}
Tag          == Candidate(CHOOSE i \in Free : \A j \in Free : i <= j)

(* Mutant: the search does not look at the reads that are outstanding.     *)
MrdReadNextTag ==
  LET r == Cardinality(DOMAIN reads) + 1
  IN  /\ reads' = [x \in DOMAIN reads \cup {r} |-> IF x = r THEN Candidate(1) ELSE reads[x]]
      /\ outstanding' = [t \in DOMAIN outstanding \cup {Candidate(1)} |->
                           IF t = Candidate(1) THEN [read |-> r, age |-> 0]
                           ELSE outstanding[t]]
      /\ last_tag' = Candidate(1) /\ wire' = wire \cup {r}
      /\ UNCHANGED <<back, done, errors>>

(* mrd_read.  Without a free tag, or refused by the link layer, it changes *)
(* nothing.                                                                *)
MrdRead ==
  LET r == Cardinality(DOMAIN reads) + 1
  IN  /\ Free # {}
      /\ reads' = [x \in DOMAIN reads \cup {r} |-> IF x = r THEN Tag ELSE reads[x]]
      /\ outstanding' = [t \in DOMAIN outstanding \cup {Tag} |->
                           IF t = Tag THEN [read |-> r, age |-> 0] ELSE outstanding[t]]
      /\ last_tag' = Tag /\ wire' = wire \cup {r}
      /\ UNCHANGED <<back, done, errors>>

(* handle_mem_read and generate_cpld.                                      *)
HandleMemRead(r) ==
  /\ wire' = wire \ {r}
  /\ back' = back \cup {[tag |-> reads[r] % TagMod, of |-> r]}
  /\ UNCHANGED <<outstanding, last_tag, reads, done, errors>>

(* The wire loses a read or a completion.                                  *)
Lost ==
  /\ \/ \E r \in wire : wire' = wire \ {r} /\ UNCHANGED back
     \/ \E c \in back : back' = back \ {c} /\ UNCHANGED wire
  /\ UNCHANGED <<outstanding, last_tag, reads, done, errors>>

Without(S) == [t \in DOMAIN outstanding \ S |-> outstanding[t]]

(* on_cpld_received: dropped when its tag is not outstanding.              *)
OnCpldReceived(c) ==
  /\ back' = back \ {c}
  /\ IF c.tag \in DOMAIN outstanding
     THEN /\ done' = done \cup {[read |-> outstanding[c.tag].read, of |-> c.of]}
          /\ outstanding' = Without({c.tag})
     ELSE UNCHANGED <<done, outstanding>>
  /\ UNCHANGED <<last_tag, reads, wire, errors>>

(* tick: all reads that are old enough fail in one tick.                   *)
RequesterTick ==
  LET Old  == {t \in DOMAIN outstanding : outstanding[t].age + 1 >= TimeoutNs}
      Kept == Without(Old)
  IN  /\ outstanding # << >>
      /\ errors' = errors \cup {outstanding[t].read : t \in Old}
      /\ outstanding' = [t \in DOMAIN Kept |-> [Kept[t] EXCEPT !.age = @ + 1]]
      /\ UNCHANGED <<last_tag, reads, wire, back, done>>

RequesterNext ==
  \/ Cardinality(DOMAIN reads) < MaxReads /\ MrdRead
  \/ \E r \in wire : HandleMemRead(r)
  \/ \E c \in back : OnCpldReceived(c)
  \/ Lost \/ RequesterTick

RequesterSpec == RequesterInit /\ [][RequesterNext]_reqVars
-----------------------------------------------------------------------------
Awaiting == {outstanding[t].read : t \in DOMAIN outstanding}
Finished == {d.read : d \in done}

(* Every read is outstanding, completed or failed, in exactly one of these *)
(* ways and at most once; and a completion is taken for the read it        *)
(* answers, unless that read's tag does not fit the completion's 8 bits,   *)
(* or that read had already failed or been given another's completion.     *)
ReadsAccounted ==
  /\ DOMAIN reads = Awaiting \cup Finished \cup errors
  /\ Awaiting \cap Finished = {} /\ Awaiting \cap errors = {} /\ Finished \cap errors = {}
  /\ Cardinality(done) = Cardinality(Finished)
  /\ Cardinality(DOMAIN outstanding) = Cardinality(Awaiting)
  /\ \A d \in done : \/ d.read = d.of
                    \/ reads[d.of] >= TagMod
                    \/ d.of \in errors \cup {e.read : e \in {x \in done : x.read # x.of}}

-----------------------------------------------------------------------------
poolVars == <<fns, ari, queue, mwr, tally>>

Fresh == [masked |-> {}, pba |-> {}, np |-> {}, completed |-> 0]

PoolInit ==
  /\ fns = [f \in Fns |-> Fresh]
  /\ ari = FALSE /\ queue = <<>> /\ mwr = <<>>
  /\ tally = [f \in Fns |-> [registered |-> 0, flushed |-> 0]]

-----------------------------------------------------------------------------
(* route_id_to_vf: without ARI, and for a function there is none of, the   *)
(* physical function.                                                      *)
RouteIdToVf(routing_id) ==
  IF ari /\ routing_id % 256 \in Fns THEN routing_id % 256 ELSE 0

(* dispatch_tlp of a CFG_READ, answered later: an id that is outstanding   *)
(* is not registered again, nor is any in a full tracker.                  *)
DispatchCfgRead(f, id) ==
  LET taken == id \notin fns[f].np /\ Cardinality(fns[f].np) < Capacity
  IN  /\ fns' = [fns EXCEPT ![f].np = IF taken THEN @ \cup {id} ELSE @]
      /\ tally' = [tally EXCEPT ![f].registered = IF taken THEN @ + 1 ELSE @]
      /\ UNCHANGED <<ari, queue, mwr>>

DispatchCompletion(f, id) ==
  /\ id \in fns[f].np
  /\ fns' = [fns EXCEPT ![f].np = @ \ {id}, ![f].completed = @ + 1]
  /\ UNCHANGED <<ari, queue, mwr, tally>>

(* dispatch_msix: a masked vector is pending in its table and nowhere else.*)
DispatchMsix(f, v) ==
  /\ fns' = [fns EXCEPT ![f].pba = @ \cup {v}]
  /\ queue' = IF v \in fns[f].masked THEN queue
              ELSE Append(queue, [fn |-> f, vec |-> v, delivered |-> FALSE])
  /\ UNCHANGED <<ari, mwr, tally>>

(* msix_configure_vector, with the control word's mask bit.                *)
ConfigureVector(f, v, mask) ==
  /\ fns' = [fns EXCEPT ![f].masked = IF mask THEN @ \cup {v} ELSE @ \ {v}]
  /\ UNCHANGED <<ari, queue, mwr, tally>>

SetAriEnabled(on) ==
  /\ ari' = on
  /\ UNCHANGED <<fns, queue, mwr, tally>>

-----------------------------------------------------------------------------
Unsent == {i \in DOMAIN queue : ~queue[i].delivered}

(* What the link layer may take in one tick: once it has refused a message *)
(* of a function it refuses the later ones of that function too.           *)
Taken == {S \in SUBSET Unsent :
            \A i \in S : \A j \in Unsent :
              j < i /\ queue[j].fn = queue[i].fn => j \in S}

(* Mutant: a function's turn starts with its latest message.               *)
TickLatestFirst(S) ==
  /\ Unsent # {}
  /\ queue' = [i \in DOMAIN queue |-> [queue[i] EXCEPT !.delivered = @ \/ i \in S]]
  /\ mwr' = mwr \o [k \in 1..Cardinality(S) |->
                      CHOOSE i \in S : Cardinality({j \in S : j >= i}) = k]
  /\ UNCHANGED <<fns, ari, tally>>

(* tick and emit_mwr_for_msix: every message not yet taken is offered, in  *)
(* the order of the queue.                                                 *)
PoolTick(S) ==
  /\ Unsent # {}
  /\ queue' = [i \in DOMAIN queue |-> [queue[i] EXCEPT !.delivered = @ \/ i \in S]]
  /\ mwr' = mwr \o [k \in 1..Cardinality(S) |->
                      CHOOSE i \in S : Cardinality({j \in S : j <= i}) = k]
  /\ UNCHANGED <<fns, ari, tally>>

-----------------------------------------------------------------------------
(* What a reset of the functions R discards: their requests.  The queue is *)
(* left as it is, and so are the numbers of completed requests.            *)
Flushed(R) ==
  tally' = [f \in Fns |-> IF f \in R
                          THEN [tally[f] EXCEPT !.flushed = @ + Cardinality(fns[f].np)]
                          ELSE tally[f]]

AfterReset(R) ==
  fns' = [f \in Fns |-> IF f \in R
                        THEN [Fresh EXCEPT !.completed = fns[f].completed] ELSE fns[f]]

FlrPf ==
  /\ AfterReset(Fns) /\ Flushed(Fns)
  /\ ari' = FALSE
  /\ UNCHANGED <<queue, mwr>>

(* Mutant: the tracker is told to flush every function.                    *)
FlrVfFlushesAll(f) ==
  /\ f # 0
  /\ fns' = [g \in Fns |-> IF g = f THEN [Fresh EXCEPT !.completed = fns[g].completed]
                           ELSE [fns[g] EXCEPT !.np = {}]]
  /\ Flushed({f})
  /\ UNCHANGED <<ari, queue, mwr>>

FlrVf(f) ==
  /\ f # 0
  /\ AfterReset({f}) /\ Flushed({f})
  /\ UNCHANGED <<ari, queue, mwr>>

PoolNext ==
  \/ \E id \in Ids, rid \in Fns :
       \/ /\ tally[RouteIdToVf(rid)].registered < MaxReg
          /\ DispatchCfgRead(RouteIdToVf(rid), id)
       \/ DispatchCompletion(rid, id)
  \/ \E f \in Fns, v \in Vecs :
       \/ Len(queue) < MaxDelivery /\ DispatchMsix(f, v)
       \/ \E mask \in BOOLEAN : ConfigureVector(f, v, mask)
  \/ \E f \in Fns : FlrVf(f)
  \/ \E on \in BOOLEAN : SetAriEnabled(on)
  \/ \E S \in Taken : PoolTick(S)
  \/ FlrPf

PoolSpec == PoolInit /\ [][PoolNext]_poolVars
-----------------------------------------------------------------------------
(* A function's requests are outstanding, completed or discarded by a      *)
(* reset of that function: no reset of another function loses one.         *)
RequestsAccounted ==
  \A f \in Fns : tally[f].registered =
                   fns[f].completed + Cardinality(fns[f].np) + tally[f].flushed

(* Each message goes to the link layer once, and a function's in the order *)
(* of its interrupts, whatever the link layer refuses in between and       *)
(* whichever function is reset.                                            *)
MessagesOnce ==
  /\ {mwr[k] : k \in DOMAIN mwr} = {i \in DOMAIN queue : queue[i].delivered}
  /\ \A j, k \in DOMAIN mwr :
       j < k => /\ mwr[j] # mwr[k]
                /\ queue[mwr[j]].fn = queue[mwr[k]].fn => mwr[j] < mwr[k]

FunctionsApart == RequestsAccounted /\ MessagesOnce
=============================================================================
