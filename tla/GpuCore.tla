------------------------------ MODULE GpuCore ------------------------------
(***************************************************************************)
(* A streaming multiprocessor: the ring of instruction descriptors, the    *)
(* fetch that consumes one a cycle, the issue's choice of a warp, and the  *)
(* pipes: the scalar and vector ALU and the local memory finish at once, a *)
(* load of global memory waits behind the loads before it.  A register     *)
(* holds the number of the instruction that wrote it last.                 *)
(***************************************************************************)
EXTENDS Integers, Sequences, SequencesExt

CONSTANTS
  Program,    \* the instructions submitted, by their number
  Regs,       \* the scalar registers
  InstrRingSize,   \* entries of instr_ring_
  Latency,    \* latency_cycles_ of the global loads
  Warps       \* num_warps_ of the issue unit

VARIABLES
  submitted,  \* how many instructions were submitted
  instrRing,  \* instr_ring_ from its head, as numbers
  warp,       \* last_issued_warp_id_
  loads,      \* pending_ of the LSU: number and cycles left
  regs,       \* the register file of warp 0: register -> its writer
  completed,  \* completed_instr_ids_
  mask,       \* whether exec_mask_ is the one of an instruction
  ends        \* history: instructions whose completion is due or was told

coreVars == <<submitted, instrRing, warp, loads, regs, completed, mask, ends>>

Unwritten == 0

CoreInit ==
  /\ submitted = 0 /\ instrRing = << >>
  /\ warp = 0 /\ loads = << >>
  /\ regs = [r \in Regs |-> Unwritten]
  /\ completed = {} /\ ends = {}
  /\ mask = FALSE

-----------------------------------------------------------------------------
(* A full ring drops its oldest entries, of the batch itself too.          *)
SetInstrDescriptorBuf(n) ==
  /\ n \in 1..InstrRingSize /\ submitted + n <= Len(Program)
  /\ submitted' = submitted + n
  /\ LET all == instrRing \o [i \in 1..n |-> submitted + i]
         kept == IF Len(all) < InstrRingSize THEN Len(all) ELSE InstrRingSize
     IN  instrRing' = SubSeq(all, Len(all) - kept + 1, Len(all))
  /\ UNCHANGED <<warp, loads, regs, completed, mask, ends>>

(* The cycles that are left count for the first load only.                 *)
LsuTick ==
  IF loads = << >>
  THEN [loads |-> loads, done |-> {}]
  ELSE IF Head(loads).left = 1
       THEN [loads |-> Tail(loads), done |-> {Head(loads).id}]
       ELSE [loads |-> <<[Head(loads) EXCEPT !.left = @ - 1]>> \o Tail(loads), done |-> {}]

(* The pipes of which an instruction that is well formed ends at once, and *)
(* those that note its end whether it is or not.                           *)
Immediate == {"scalar", "vector", "lds"}
NotesEnd(i) == i.pipe \in {"scalar", "vector"} \/ (i.pipe = "lds" /\ i.ok)
Loads(i) == i.pipe = "global" /\ i.ok

Written(file, n) == [file EXCEPT ![Program[n].dst] = n]

FetchAndExecute(n, lsu, file) ==
  LET i == Program[n] IN
    /\ warp' = (warp + 1) % Warps
    /\ loads' = IF Loads(i) THEN Append(lsu.loads, [id |-> n, left |-> Latency]) ELSE lsu.loads
    /\ regs' = IF i.pipe \in Immediate /\ i.ok THEN Written(file, n) ELSE file
    /\ completed' = completed \cup lsu.done \cup (IF NotesEnd(i) THEN {n} ELSE {})
    /\ ends' = ends \cup (IF NotesEnd(i) \/ Loads(i) THEN {n} ELSE {})
    /\ mask' = (mask \/ (i.pipe = "simt" /\ i.ok))

(* exe_once: the loads advance before the fetch, and without one.  Nobody  *)
(* asks the hazard tracker whether an operand is still being loaded.       *)
ExeOnce ==
  LET lsu == LsuTick
      file == [r \in Regs |-> IF \E n \in lsu.done : Program[n].dst = r
                              THEN CHOOSE n \in lsu.done : TRUE ELSE regs[r]]
  IN  /\ IF instrRing = << >>
         THEN /\ loads # << >>
              /\ loads' = lsu.loads /\ regs' = file
              /\ completed' = completed \cup lsu.done
              /\ UNCHANGED <<instrRing, warp, mask, ends>>
         ELSE /\ instrRing' = Tail(instrRing)
              /\ FetchAndExecute(Head(instrRing), lsu, file)
      /\ UNCHANGED submitted

(* initialize leaves the loads and the mask of the life before.            *)
Initialize ==
  /\ instrRing' = << >>
  /\ regs' = [r \in Regs |-> Unwritten]
  /\ completed' = {}
  /\ ends' = {loads[k].id : k \in DOMAIN loads}
  /\ UNCHANGED <<submitted, warp, loads, mask>>

CoreNext == ExeOnce \/ Initialize \/ \E n \in 1..InstrRingSize : SetInstrDescriptorBuf(n)

CoreSpec == CoreInit /\ [][CoreNext]_coreVars

-----------------------------------------------------------------------------
(* The ring holds the newest instructions in their order.  Every           *)
(* instruction that can end, and was fetched, has completed or is a load   *)
(* that waits: in the order of the fetch, with its whole latency before it *)
(* while another waits in front.                                           *)
InstructionsEnd ==
  LET waiting == {loads[k].id : k \in DOMAIN loads}
      oldest == submitted - Len(instrRing)
  IN  /\ \A k \in DOMAIN instrRing : instrRing[k] = oldest + k
      /\ \A n \in completed \cup waiting : n <= oldest
      /\ completed = ends \ waiting
      /\ \A j, k \in DOMAIN loads : j < k => loads[j].id < loads[k].id
      /\ \A k \in 2..Len(loads) : loads[k].left = Latency

(* A register is written by an instruction that completed and names it.    *)
WritersCompleted ==
  \A r \in Regs : regs[r] # Unwritten => regs[r] \in completed /\ Program[regs[r]].dst = r

InstructionsAccounted == InstructionsEnd /\ WritersCompleted

=============================================================================
