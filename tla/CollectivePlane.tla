--------------------------- MODULE CollectivePlane ---------------------------
(***************************************************************************)
(* The collective planes (src/include/tlm/cep/collective_plane.hh,         *)
(* fabric_collective_plane.hh): groups of members, the address regions     *)
(* they register and drain, barriers by phase, and on the fabric plane the *)
(* rounds of REDUCE, BROADCAST and MULTICAST.  The null plane refuses      *)
(* everything and keeps no state.  An operation of a plane is guarded by   *)
(* the status it would report; one that is refused changes last_status_    *)
(* alone, which is left out, except where the code has already acted.      *)
(* Values are small numbers; the integer masks of a reduction are left out *)
(* and the floating types are refused, as the code refuses them.           *)
(***************************************************************************)
EXTENDS Integers, FiniteSets, SequencesExt, FiniteSetsExt, Functions

CONSTANTS
  Members,      \* member numbers
  Tags,         \* round tags; a barrier's phases are the same set
  Payloads,     \* payload values, numbers
  Ranges,       \* the address ranges that are registered: sets of addresses
  MaxGid,       \* bound: groups created
  MaxOpen,      \* bound: rounds and barriers under way
  MaxEvents     \* bound: events waiting

VARIABLES
  plane,        \* "null", "local" or "fabric"
  groups,       \* groups_: live group -> its members
  regions,      \* regions_: range -> [gid, epoch_valid]
  rounds,       \* rounds_: <<gid, op, tag>> -> [participants, contributions, first]
  barriers,     \* barrier_state_: <<gid, phase>> -> the members that arrived
  events,       \* events_
  next_gid,     \* next_gid_
  current       \* current_member_, 0 for none

planeVars == <<plane, groups, regions, rounds, barriers, events, next_gid, current>>

Gids == 1..MaxGid
Ops  == {"REDUCE", "BROADCAST", "MULTICAST"}

(* The planes that promise that nothing of a group changes under a round.  *)
ExclusionPlanes == {"fabric"}

(* query_capability for a size other than 0.                               *)
Capabilities(p) ==
  CASE p = "null" -> {}
    [] p = "local" -> {"BARRIER"}
    [] p = "fabric" -> Ops \cup {"BARRIER"}

(* A barrier's key: what it names and what its completion counts must say  *)
(* the same, and it names an address or a group, not both.                 *)
KeyClass(kind, counts, addr, group) ==
  LET valid == (addr = 0) # (group = 0) /\ (IF kind = "address" THEN addr # 0 ELSE group # 0)
      ordering == kind = "address"
  IN  CASE ~valid \/ ordering # (counts = "transactions") -> "invalid"
        [] valid /\ ordering /\ counts = "transactions" -> "ordering"
        [] OTHER -> "collective"

PlaneInit ==
  /\ plane \in {"null", "local", "fabric"}
  /\ groups = << >> /\ regions = << >> /\ rounds = << >> /\ barriers = << >>
  /\ events = << >> /\ next_gid = 1 /\ current = 0

(* The null plane answers Unsupported and does nothing.                    *)
NullOperation == plane = "null" /\ UNCHANGED planeVars

With(f, k, v) == [x \in DOMAIN f \cup {k} |-> IF x = k THEN v ELSE f[x]]
Without(f, S) == Restrict(f, DOMAIN f \ S)

(* group_create: an empty member set is refused.                           *)
GroupCreate(members) ==
  /\ plane # "null" /\ members # {}
  /\ next_gid <= MaxGid
  /\ groups' = With(groups, next_gid, members)
  /\ next_gid' = next_gid + 1
  /\ UNCHANGED <<plane, current, regions, rounds, barriers, events>>

(* group_has_inflight: a round of the group; its barriers do not count.    *)
HasInflight(g) == \E k \in DOMAIN rounds : k[1] = g

RegionsOf(g) == {r \in DOMAIN regions : regions[r].gid = g}
PhasesOf(g)  == {k \in DOMAIN barriers : k[1] = g}
Fault(g, m)  == [kind |-> "Fault", gid |-> g, culprit |-> m]

(* LocalCollectivePlane::group_destroy: every member that waits in one of  *)
(* the group's barriers is told.                                           *)
LocalGroupDestroy(g) ==
  LET waiting == {<<k[2], m>> : k \in PhasesOf(g), m \in Members}
      told    == {w \in waiting : w[2] \in barriers[<<g, w[1]>>]}
      faults  == SetToSeq({<<w[1], Fault(g, w[2])>> : w \in told})
  IN  /\ plane = "local" /\ g \in DOMAIN groups
      /\ regions' = Without(regions, RegionsOf(g))
      /\ events' = events \o [i \in DOMAIN faults |-> faults[i][2]]
      /\ barriers' = Without(barriers, PhasesOf(g))
      /\ groups' = Without(groups, {g})
      /\ UNCHANGED <<plane, current, rounds, next_gid>>

(* Mutant: the rounds under way are not looked at.                         *)
DestroyBusy(g) ==
  /\ plane = "fabric" /\ g \in DOMAIN groups
  /\ regions' = Without(regions, RegionsOf(g))
  /\ groups' = Without(groups, {g})
  /\ UNCHANGED <<plane, current, rounds, barriers, events, next_gid>>

(* FabricCollectivePlane::group_destroy: refused while a round is under    *)
(* way; what waits in a barrier is left where it is.                       *)
FabricGroupDestroy(g) ==
  /\ plane = "fabric" /\ g \in DOMAIN groups
  /\ ~HasInflight(g)
  /\ regions' = Without(regions, RegionsOf(g))
  /\ groups' = Without(groups, {g})
  /\ UNCHANGED <<plane, current, rounds, barriers, events, next_gid>>

(* group_register_region: no overlap with any registered range, whoever    *)
(* registered it; on the fabric plane not while the group has a round.     *)
Overlapped(r) == \E q \in DOMAIN regions : q \cap r # {}

LocalRegisterStatus(g, r) ==
  CASE g \notin DOMAIN groups -> "InvalidGroup"
    [] g \in DOMAIN groups /\ r = {} -> "InvalidRange"
    [] g \in DOMAIN groups /\ r # {} /\ Overlapped(r) -> "RegionOverlap"
    [] OTHER -> "Ok"

FabricRegisterStatus(g, r) ==
  IF g \in DOMAIN groups /\ HasInflight(g) THEN "ControlPlaneConflict" ELSE LocalRegisterStatus(g, r)

RegisterRegion(g, r) ==
  /\ plane # "null"
  /\ (IF plane = "local" THEN LocalRegisterStatus(g, r) ELSE FabricRegisterStatus(g, r)) = "Ok"
  /\ regions' = With(regions, r, [gid |-> g, epoch_valid |-> FALSE])
  /\ UNCHANGED <<plane, current, groups, rounds, barriers, events, next_gid>>

(* complete_drain: the second phase, which makes the region usable.        *)
CompleteDrain(g, r) ==
  /\ g \in DOMAIN groups /\ r \in DOMAIN regions /\ regions[r].gid = g
  /\ regions' = [regions EXCEPT ![r].epoch_valid = TRUE]
  /\ UNCHANGED <<plane, current, groups, rounds, barriers, events, next_gid>>

RegionState(addr) ==
  LET covering == {r \in DOMAIN regions : addr \in r}
  IN  CASE covering = {} -> "NoRegion"
        [] covering # {} /\ \E r \in covering : regions[r].epoch_valid -> "Active"
        [] OTHER -> "EpochInvalid"

(* The local plane has no data path: even an active region is refused.     *)
LocalSendStatus(addr) ==
  IF RegionState(addr) = "Active" THEN "DataPathNotImplemented" ELSE "GroupRegisterError"

FabricSendStatus(g, m, op, type, addr) ==
  CASE RegionState(addr) # "Active" -> "GroupRegisterError"
    [] RegionState(addr) = "Active" /\ g \notin DOMAIN groups -> "InvalidGroup"
    [] RegionState(addr) = "Active" /\ g \in DOMAIN groups /\ m \notin groups[g] -> "NotMember"
    [] op = "REDUCE" /\ type = "float" /\ RegionState(addr) = "Active"
         /\ g \in DOMAIN groups /\ m \in groups[g] -> "Unsupported"
    [] OTHER -> "Ok"

(* participants_of                                                         *)
ParticipantsOf(g, op, mask) ==
  IF op = "MULTICAST" THEN groups[g] \cap mask ELSE groups[g]

(* compute_result: a reduction folds the contributions with the operation  *)
(* of the send that completes the round; the other operations answer what  *)
(* the first contributor sent.                                             *)
ResultOf(op, round, contributions, reduce_op) ==
  IF op # "REDUCE" THEN round.first[1]
  ELSE LET s == {<<m, contributions[m]>> : m \in round.participants}
       IN  IF reduce_op = "Sum" THEN MapThenSumSet(LAMBDA x : x[2], s)
           ELSE Max({x[2] : x \in s})

(* The round a send belongs to: its participants are fixed by the first    *)
(* send of the round, even one that is refused because its sender is not   *)
(* in the mask: the round it opened stays.                                 *)
RoundOf(g, op, tag, mask) ==
  LET key == <<g, op, tag>>
  IN  IF key \in DOMAIN rounds THEN rounds[key]
      ELSE [participants |-> ParticipantsOf(g, op, mask), contributions |-> << >>, first |-> << >>]

SendOutsideMask(g, m, op, tag, mask) ==
  /\ RoundOf(g, op, tag, mask).participants # {}
  /\ m \notin RoundOf(g, op, tag, mask).participants
  /\ rounds' = With(rounds, <<g, op, tag>>, RoundOf(g, op, tag, mask))
  /\ UNCHANGED <<plane, current, groups, regions, barriers, events, next_gid>>

(* A repeated contribution replaces the earlier one, and the last missing  *)
(* one completes the round.                                                *)
Contribute(g, m, op, tag, v, reduce_op, mask) ==
  /\ m \in RoundOf(g, op, tag, mask).participants
  /\ LET key == <<g, op, tag>>
         open == RoundOf(g, op, tag, mask)
         round == [open EXCEPT !.first = IF @ = << >> THEN <<v>> ELSE @,
                               !.contributions = With(@, m, v)]
     IN  IF DOMAIN round.contributions = round.participants
         THEN /\ events' = events
                   \o [i \in 1..Cardinality(round.participants) |->
                         [kind |-> "Result", gid |-> g,
                          payload |-> ResultOf(op, round, round.contributions, reduce_op)]]
                   \o <<[kind |-> "Completion", gid |-> g, tag |-> tag]>>
              /\ rounds' = Without(rounds, {key})
         ELSE /\ rounds' = With(rounds, key, round)
              /\ UNCHANGED events
  /\ UNCHANGED <<plane, current, groups, regions, barriers, next_gid>>

PlaneSend(g, m, op, type, tag, addr, v, reduce_op, mask) ==
  /\ plane = "fabric" /\ FabricSendStatus(g, m, op, type, addr) = "Ok"
  /\ SendOutsideMask(g, m, op, tag, mask) \/ Contribute(g, m, op, tag, v, reduce_op, mask)

LocalSend(addr) ==
  /\ plane = "local" /\ LocalSendStatus(addr) # "Ok"
  /\ UNCHANGED planeVars

SetCurrentMember(m) ==
  /\ plane # "null"
  /\ current' = m
  /\ UNCHANGED <<plane, groups, regions, rounds, barriers, events, next_gid>>

BarrierStatus(g) ==
  CASE g \notin DOMAIN groups -> "InvalidGroup"
    [] g \in DOMAIN groups /\ current \notin groups[g] -> "NotMember"
    [] OTHER -> "Ok"

(* collective_barrier, for the member set_current_member named last: the   *)
(* last member of the phase completes it for all.                          *)
Barrier(g, phase) ==
  /\ plane # "null" /\ BarrierStatus(g) = "Ok"
  /\ LET key == <<g, phase>>
         arrived == {current} \cup IF key \in DOMAIN barriers THEN barriers[key] ELSE {}
     IN  IF Cardinality(arrived) >= Cardinality(groups[g])
         THEN /\ events' = events \o [i \in 1..Cardinality(groups[g]) |->
                             [kind |-> "Completion", gid |-> g, tag |-> phase]]
              /\ barriers' = Without(barriers, {key})
         ELSE /\ barriers' = With(barriers, key, arrived)
              /\ UNCHANGED events
  /\ UNCHANGED <<plane, current, groups, regions, rounds, next_gid>>

(* recv                                                                    *)
Recv ==
  /\ events # << >>
  /\ events' = Tail(events)
  /\ UNCHANGED <<plane, current, groups, regions, rounds, barriers, next_gid>>

Room ==
  /\ Len(events) + 2 * Cardinality(Members) + 1 <= MaxEvents
  /\ Cardinality(DOMAIN rounds) + Cardinality(DOMAIN barriers) <= MaxOpen

PlaneNext ==
  \/ NullOperation
  \/ \E members \in SUBSET Members : GroupCreate(members)
  \/ \E g \in Gids :
       \/ Room /\ LocalGroupDestroy(g)
       \/ FabricGroupDestroy(g)
       \/ \E r \in Ranges : RegisterRegion(g, r) \/ CompleteDrain(g, r)
       \/ \E tag \in Tags : Room /\ Barrier(g, tag)
       \/ \E m \in Members, tag \in Tags, op \in Ops, type \in {"integer", "float"},
             addr \in UNION Ranges, v \in Payloads, reduce_op \in {"Sum", "Max"},
             mask \in SUBSET Members :
            /\ op = "MULTICAST" \/ mask = Members
            /\ op = "REDUCE" \/ <<reduce_op, type>> = <<"Sum", "integer">>
            /\ Room /\ PlaneSend(g, m, op, type, tag, addr, v, reduce_op, mask)
  \/ \E addr \in UNION Ranges : LocalSend(addr)
  \/ \E m \in Members : SetCurrentMember(m)
  \/ Recv

PlaneSpec == PlaneInit /\ [][PlaneNext]_planeVars

-----------------------------------------------------------------------------
(* Keys and completions of the two kinds are classified alike.             *)
KeysClassifiedAlike ==
  LET dual(x) == CASE x = "address" -> "group" [] x = "group" -> "address"
                   [] x = "transactions" -> "participants" [] x = "participants" -> "transactions"
  IN  \A kind \in {"address", "group"}, counts \in {"transactions", "participants"}, a, g \in 0..1 :
        KeyClass(kind, counts, a, g) = "ordering"
          <=> KeyClass(dual(kind), dual(counts), g, a) = "collective"

(* Nothing outlives its group and nothing complete is left waiting: every  *)
(* region and every round belongs to a live group, no two regions overlap, *)
(* a round waits for a participant that is a member and is of a kind the   *)
(* plane says it can do, and on the local plane, whose destroy tells the   *)
(* members that wait, a barrier belongs to a live group as well.           *)
NothingOutlivesItsGroup ==
  /\ \A r \in DOMAIN regions : regions[r].gid \in DOMAIN groups
  /\ \A q, r \in DOMAIN regions : q # r => q \cap r = {}
  /\ \A k \in DOMAIN rounds :
       /\ k[1] \in DOMAIN groups /\ k[2] \in Capabilities(plane)
       /\ rounds[k].participants \subseteq groups[k[1]]
       /\ rounds[k].participants \ DOMAIN rounds[k].contributions # {}
  /\ plane \notin ExclusionPlanes =>
       \A k \in DOMAIN barriers :
         k[1] \in DOMAIN groups /\ groups[k[1]] \ barriers[k] # {}
  /\ KeysClassifiedAlike
=============================================================================
