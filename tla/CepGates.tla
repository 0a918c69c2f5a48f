------------------------------ MODULE CepGates ------------------------------
(***************************************************************************)
(* The contracts of the CEP layer that are evaluated over declarations:    *)
(* collective_plane_contract.hh (is the collective plane kept apart from   *)
(* the coherence networks), instance_assembly_gate.hh (is every bridge of  *)
(* a configuration backed by declared things) and the five criteria of     *)
(* adapter_schema_contracts.hh over what adapter_contracts_loader.hh       *)
(* reads.  A subject is a set of documents as they are read, text reduced  *)
(* to the names and the rows the criteria look for.                        *)
(*                                                                         *)
(* The two gates a configuration with a cep section must pass before       *)
(* modules are built: channel_dependency_graph.hh searches the graph of    *)
(* virtual channels of every declared protocol instance for a cycle, and   *)
(* ordering_point_checker.hh looks for the ordering points of responses.   *)
(*                                                                         *)
(* A declaration comes from a source: no cep section, the default file, a  *)
(* file or inline JSON the configuration names, or a value of the wrong    *)
(* type.  Message classes are abstracted to the channels they are bound    *)
(* to; "answers" holds the channels of response and snoop_resp.            *)
(***************************************************************************)
EXTENDS Integers, FiniteSets, Sequences, TLC

CONSTANTS
  Subjects,   \* the documents given to a contract
  Vcs,        \* a vc_id is below this number (noc_bundles_tlm.hh)
  Sources,    \* declarations with where they come from
  MaxVc       \* kMaxVcId

VARIABLES
  subject,   \* what is evaluated
  report,    \* the verdict of each criterion that was reached
  source,    \* the declaration and its source
  phase,     \* what the channel gate does next
  todo,      \* instances whose graph is still to be searched
  inst,      \* the instance whose graph is searched
  color,     \* find_cycle's colours
  frames,    \* its stack: a vertex and the successors still to follow
  cycle,     \* the first cycle found
  failed,    \* GateReport::errors is not empty
  verdict    \* of the channel gate

contractVars == <<subject, report>>

Verdicts == {"PASS", "FAIL", "SKIP"}

Graded(fails, skips) == IF fails THEN "FAIL" ELSE IF skips THEN "SKIP" ELSE "PASS"

Elements(s) == {s[i] : i \in DOMAIN s}

(* kCollectivePlaneRegistry                                                *)
Planes == [NullCollectivePlane   |-> [local |-> TRUE, exclusive |-> FALSE],
           LocalCollectivePlane  |-> [local |-> TRUE, exclusive |-> FALSE],
           FabricCollectivePlane |-> [local |-> FALSE, exclusive |-> TRUE]]

ContractInit == subject \in Subjects /\ report = << >>

-----------------------------------------------------------------------------
(* The collective plane's contract.  A declaration in error ends it: no    *)
(* object, or an entry that is incomplete or names no mode.                *)
Modes == {"normal", "nc_drop_cacheable"}

RegionLegible(r) == r.whole /\ r.lo <= r.hi /\ r.mode \in Modes

DocumentError(d) ==
  ~d.legible \/ \E r \in Elements(d.regions) : ~RegionLegible(r)

(* CP-01: no header of the collective side includes one of the other side. *)
ZeroCallEdge(d) ==
  Graded(\E h \in Elements(d.headers) : ~h.readable \/ h.includes \cap d.forbidden # {}, FALSE)

(* CP-02: the rows of section 2 of the ADR that have a number and a name;  *)
(* none of the ten names is a word of the plane's header, the first one.   *)
FlowNames(d) ==
  {d.adr[i].name : i \in {j \in DOMAIN d.adr :
     d.adr[j].section = 2 /\ d.adr[j].numbered /\ d.adr[j].name # ""}}

CanonicalFlows(d) ==
  Graded(\/ Cardinality(FlowNames(d)) # 10
         \/ ~d.headers[1].readable \/ d.headers[1].words \cap FlowNames(d) # {}, FALSE)

(* load_vc_binding_snapshot: the channels used on a network, and for each  *)
(* instance that binds some its message classes' channels.                 *)
Mappings(d, net) ==
  {i[net] : i \in {j \in d.instances : net \in DOMAIN j /\ j[net] # << >>}}

UsedVcs(d, net) == UNION {{m[c] : c \in DOMAIN m} : m \in Mappings(d, net)}

(* CP-03: with channels reserved, each exists and no class uses it; with   *)
(* none reserved that is declared, completely and as one of two modes.     *)
ScopeLegible(d) ==
  /\ d.scope # << >>
  /\ \A e \in Elements(d.scope) : e.plane # "" /\ e.network \in DOMAIN d.vc_count

VcReservation(d) ==
  IF d.reserved # << >>
  THEN Graded(\E r \in Elements(d.reserved) :
                \/ r.vc >= Vcs \/ r.network \notin DOMAIN d.vc_count
                \/ r.vc >= d.vc_count[r.network] \/ r.vc \in UsedVcs(d, r.network), FALSE)
  ELSE Graded(\/ ~d.declared \/ ~d.complete
              \/ d.status \notin {"unavailable", "shared_no_isolation"}
              \/ d.status = "shared_no_isolation" /\ ~ScopeLegible(d), FALSE)

(* evaluate_vc_precondition: without channels only planes that are local   *)
(* models may be bound.                                                    *)
BoundPlanes(d) == {d.binding[i] : i \in DOMAIN d.binding} \ {""}

VcPrecondition(d) ==
  LET skips == ~d.declared \/ d.status # "unavailable" \/ d.binding = << >>
  IN  Graded(~skips /\ \E p \in BoundPlanes(d) : p \notin DOMAIN Planes \/ ~Planes[p].local, skips)

(* evaluate_shared_mode_certificate, for each network and plane in scope:  *)
(* every instance maps the classes alike, every channel is the image of a  *)
(* class, the plane is a remote one that excludes; what is untested is     *)
(* listed and not called tested.                                           *)
Certified(d, e) ==
  /\ e.plane # "" /\ e.network # ""
  /\ ~d.own_binding
  /\ Cardinality(Mappings(d, e.network)) = 1
  /\ e.network \in DOMAIN d.vc_count
  /\ 0..(d.vc_count[e.network] - 1) \subseteq UsedVcs(d, e.network)
  /\ e.plane \in DOMAIN Planes /\ ~Planes[e.plane].local /\ Planes[e.plane].exclusive

UntestedListed(d) == d.untested # {} /\ \A u \in d.untested : u.ref # "" /\ ~u.claimed

SharedCertificate(d) ==
  LET skips == ~d.declared \/ d.status # "shared_no_isolation"
  IN  Graded(~skips /\ (\/ d.scope = << >> \/ ~UntestedListed(d)
                        \/ \E e \in Elements(d.scope) : ~Certified(d, e)), skips)

VcRule(d) ==
  IF ~d.fabric THEN "FAIL"
  ELSE Graded("FAIL" \in {VcReservation(d), VcPrecondition(d), SharedCertificate(d)}, FALSE)

(* CP-04 registers the regions one after the other on a local plane.       *)
Overlap(a, b) == a.lo <= b.hi /\ b.lo <= a.hi

RegionExclusion(d) ==
  Graded(\E i, j \in DOMAIN d.regions : i < j /\ Overlap(d.regions[i], d.regions[j]), FALSE)

(* CP-05: the coherence side does not know groups.                         *)
CompletionDomain(d) ==
  Graded(\E s \in d.coherence_side : ~s.readable \/ s.group_words, FALSE)

(* CP-06: the last status update of the ADR that has a table of the seven  *)
(* catch points counts, the whole text without one; the first row of a     *)
(* point does.  A point said to be measurable needs a criterion that       *)
(* passed, one that is not must have none.                                 *)
Scope06(d) ==
  LET tables == {i \in DOMAIN d.updates : \E r \in Elements(d.updates[i]) : r.marked}
  IN  IF tables = {} THEN d.prose
      ELSE d.updates[CHOOSE i \in tables : \A j \in tables : j <= i]

Wording(d, id) ==
  LET rows == {i \in DOMAIN Scope06(d) : Scope06(d)[i].id = id}
  IN  Scope06(d)[CHOOSE i \in rows : \A j \in rows : i <= j].says

(* catchpoint_bindings: measurable by a criterion, by the behaviour, not.  *)
PointRule == [p1 |-> "CP-01", p3 |-> "CP-03", p4 |-> "CP-02"]
Measurable == DOMAIN PointRule \cup {"p6"}
Points == {"p1", "p2", "p3", "p4", "p5", "p6", "p7"}

CatchpointCoverage(d, lines) ==
  Graded(\/ ~d.catchpoints
         \/ {r.id : r \in Elements(Scope06(d))} # Points
         \/ \E p \in Points :
              LET says == Wording(d, p)
              IN  \/ says \cap {"measurable", "deferred", "satisfied"} = {}
                  \/ ("measurable" \in says) # (p \in Measurable)
                  \/ p \in DOMAIN PointRule
                       /\ (lines[PointRule[p]] # "PASS" \/ says \cap {"deferred", "satisfied"} # {}),
         FALSE)

(* run_collective_plane_contract                                           *)
PlaneLines(d) ==
  LET own == [r \in {"CP-01", "CP-02", "CP-03", "CP-04", "CP-05"} |->
                CASE r = "CP-01" -> ZeroCallEdge(d) [] r = "CP-02" -> CanonicalFlows(d)
                  [] r = "CP-03" -> VcRule(d)       [] r = "CP-04" -> RegionExclusion(d)
                  [] r = "CP-05" -> CompletionDomain(d)]
  IN  [r \in DOMAIN own \cup {"CP-06"} |->
         IF r = "CP-06" THEN CatchpointCoverage(d, own) ELSE own[r]]

RunPlaneContract ==
  /\ subject.kind = "plane" /\ report = << >>
  /\ report' = IF DocumentError(subject) THEN [source |-> "FAIL"] ELSE PlaneLines(subject)
  /\ UNCHANGED subject

-----------------------------------------------------------------------------
(* run_instance_assembly_gate: a bridge whose instance is not declared is  *)
(* an error and is not looked at any further.                              *)
Placed(c, b) == b.modules # {} /\ b.modules \subseteq c.modules

PlaneOf(c, b) == IF b.instance \in DOMAIN c.binding THEN c.binding[b.instance] ELSE ""

PlaneFits(c, b) ==
  IF PlaneOf(c, b) = "" THEN b.instance \notin c.required
  ELSE PlaneOf(c, b) \in DOMAIN Planes

BridgeSound(c, i) ==
  LET b == c.bridges[i]
      earlier == {j \in 1..(i - 1) : c.bridges[j].instance \in DOMAIN c.families}
  IN  /\ b.instance \in DOMAIN c.families /\ c.families[b.instance] \in c.known
      /\ Placed(c, b) /\ PlaneFits(c, b)
      /\ b.id # 0 /\ \A j \in earlier : c.bridges[j].id # b.id

RunAssemblyGate ==
  /\ subject.kind = "assembly" /\ report = << >>
  /\ report' = [gate |-> IF ~subject.section THEN "SKIP"
                         ELSE Graded(\/ subject.bridges = << >>
                                     \/ \E i \in DOMAIN subject.bridges :
                                          ~BridgeSound(subject, i), FALSE)]
  /\ UNCHANGED subject

-----------------------------------------------------------------------------
(* The criteria on an adapter.                                             *)
PermOrder == <<"NONE", "READ", "UNIQUE", "WRITEBACK">>
Rank(p) == IF p \in Elements(PermOrder) THEN CHOOSE i \in 1..4 : PermOrder[i] = p ELSE 0

(* AC-01                                                                   *)
FourValueLock(a) ==
  Graded(\/ a.domain # PermOrder \/ ~a.upgradesLegible
         \/ \E u \in a.upgrades : 0 \in {Rank(u.from), Rank(u.to)}, FALSE)

(* AC-02: the instance has both permissions and the upgrade does not lower.*)
UpgradeIntegrity(a) ==
  LET broken(u) == \/ u.id \notin DOMAIN a.perms
                   \/ ~({u.from, u.to} \subseteq a.perms[u.id])
                   \/ 0 \in {Rank(u.from), Rank(u.to)} \/ Rank(u.to) < Rank(u.from)
  IN  Graded(~a.upgradesLegible \/ ~a.instancesLegible \/ \E u \in a.upgrades : broken(u),
             a.upgrades = {})

(* derive_no_upgrade_instances: the instances no upgrade is declared for.  *)
NoUpgradeInstances(a) == DOMAIN a.perms \ {u.id : u \in a.upgrades}

(* AC-03: no upgrade of an instance that can have none.                    *)
SourceSanity(a, none) ==
  Graded(~a.upgradesLegible \/ \E u \in a.upgrades : u.id \in none, a.upgrades = {})

(* AC-04: one row for each class; the mapping that is the default one must *)
(* say so and why.                                                         *)
DefaultMap == [request |-> 0, response |-> 1, snoop |-> 0, snoop_resp |-> 1, atomic |-> 0, query |-> 0]
Categories == 0..2

FirstRow(a, c) == CHOOSE i \in DOMAIN a.rows : a.rows[i].class = c /\ \A j \in 1..(i - 1) : a.rows[j].class # c

Identical(a) ==
  \A c \in DOMAIN DefaultMap :
    /\ \E r \in Elements(a.rows) : r.class = c
    /\ a.rows[FirstRow(a, c)].category = DefaultMap[c]

ClassMapping(a) ==
  Graded(\/ \E i, j \in DOMAIN a.rows : i # j /\ a.rows[i].class = a.rows[j].class
         \/ \E r \in Elements(a.rows) : r.category \notin Categories
         \/ a.rows # << >> /\ Identical(a) /\ ~a.identity, a.rows = << >>)

(* AC-05: every stable state has a permission; a write takes the clean     *)
(* exclusive state to the dirty one, whose permission is higher.           *)
SelfConsistency(a) ==
  Graded(\/ ~a.projected
         \/ a.clean /\ \/ a.writeTo # a.dirty \/ 0 \in {a.rankClean, a.rankDirty}
                       \/ a.rankDirty <= a.rankClean, ~a.clean)

(* check_all of what load_adapter_contract_inputs read                     *)
CheckAll ==
  /\ subject.kind = "adapter" /\ report = << >>
  /\ subject.readable
  /\ report' = ("AC-01" :> FourValueLock(subject)) @@ ("AC-02" :> UpgradeIntegrity(subject))
      @@ ("AC-03" :> SourceSanity(subject, NoUpgradeInstances(subject)))
      @@ ("AC-04" :> ClassMapping(subject)) @@ ("AC-05" :> SelfConsistency(subject))
  /\ UNCHANGED subject

ContractNext == RunPlaneContract \/ RunAssemblyGate \/ CheckAll

ContractSpec == ContractInit /\ [][ContractNext]_contractVars

(* The reports' own verdict                                                *)
Overall ==
  LET vs == {report[r] : r \in DOMAIN report}
  IN  Graded("FAIL" \in vs, "SKIP" \in vs)

-----------------------------------------------------------------------------
(* A plane contract that passes: a collective channel is never also the    *)
(* channel of a coherence class, unless every plane certified for the      *)
(* network excludes for itself; every address has one region at most.      *)
PlanesApart ==
  subject.kind = "plane" /\ report # << >> /\ Overall = "PASS" =>
    /\ \A r \in Elements(subject.reserved) : r.vc \notin UsedVcs(subject, r.network)
    /\ subject.reserved = << >> /\ subject.status = "unavailable" =>
         \A p \in BoundPlanes(subject) : Planes[p].local
    /\ subject.reserved = << >> /\ subject.status # "unavailable" =>
         /\ \A e \in Elements(subject.scope) : Planes[e.plane].exclusive
         /\ \A i, j \in subject.instances : \A e \in Elements(subject.scope) :
              LET n == e.network
              IN  n \in DOMAIN i \cap DOMAIN j /\ i[n] # << >> /\ j[n] # << >> => i[n] = j[n]
    /\ \A x \in UNION {r.lo..r.hi : r \in Elements(subject.regions)} :
         Cardinality({k \in DOMAIN subject.regions :
                        subject.regions[k].lo <= x /\ x <= subject.regions[k].hi}) = 1

(* A gate that passes: no two bridges share a number and each stands for   *)
(* an instance of a known family.                                          *)
BridgesBacked ==
  subject.kind = "assembly" /\ report # << >> /\ Overall = "PASS" =>
    /\ Cardinality({b.id : b \in Elements(subject.bridges)}) = Len(subject.bridges)
    /\ \A b \in Elements(subject.bridges) : subject.families[b.instance] \in subject.known
    /\ \A i \in subject.required : (\E b \in Elements(subject.bridges) : b.instance = i) =>
         i \in DOMAIN subject.binding /\ subject.binding[i] \in DOMAIN Planes

(* A criterion without an object is never counted as passed, and an        *)
(* adapter that is not refused never loses permission by an upgrade nor    *)
(* maps a class two ways.                                                  *)
UpgradesRaise ==
  subject.kind = "adapter" /\ report # << >> =>
    /\ subject.upgrades = {} \/ subject.rows = << >> \/ ~subject.clean => Overall # "PASS"
    /\ Overall # "FAIL" =>
         /\ \A u \in subject.upgrades : 1 <= Rank(u.from) /\ Rank(u.from) <= Rank(u.to)
         /\ \A r, s \in Elements(subject.rows) : r.class = s.class => r = s

(* The third criterion refuses nothing the second does not.                *)
SanityRefusesNothing ==
  subject.kind = "adapter" /\ report # << >> /\ subject.upgradesLegible =>
    report["AC-03"] # "FAIL"

ContractsSound == PlanesApart /\ BridgesBacked /\ UpgradesRaise /\ SanityRefusesNothing

-----------------------------------------------------------------------------
gateVars == <<source, phase, todo, inst, color, frames, cycle, failed, verdict>>

Explicit == {"file", "object", "array"}

(* load_channel_declaration: an unreadable or malformed default file is    *)
(* no declaration at all.                                                  *)
Loaded(s) == s.kind \in Explicit \cup {"default"} /\ s.legible

(* parse_channel_declaration: the instances; an entry that is none puts    *)
(* the source in error and is left out.                                    *)
Read(s) == IF Loaded(s) THEN s.instances ELSE {}

(* parse_channel_declaration_from_config                                   *)
SourceError(s) ==
  \/ s.kind \in {"notObject", "otherType"}
  \/ s.kind \in Explicit /\ Read(s) = {}
  \/ Loaded(s) /\ s.badEntry

Vertices(i) ==
  {<<n, v>> \in UNION {{n} \X i.binding[n] : n \in DOMAIN i.binding} : v \in 0..MaxVc}

OutOfRange(i) == \E n \in DOMAIN i.binding : \E v \in i.binding[n] : v \notin 0..MaxVc

(* An edge counts for the networks the instance binds; an edge whose end   *)
(* is not bound is an error and left out of the graph.                     *)
DeclaredEdges(i) ==
  UNION {{<<<<n, e[1]>>, <<n, e[2]>>>> : e \in source.edges[n]} :
           n \in DOMAIN source.edges \cap DOMAIN i.binding}

EndsBound(i, e) == e[1] \in Vertices(i) /\ e[2] \in Vertices(i)

Edges(i) == {e \in DeclaredEdges(i) : EndsBound(i, e)}

Successors(i, v) == {w \in Vertices(i) : <<v, w>> \in Edges(i)}

GateInit ==
  /\ source \in Sources
  /\ phase = "load" /\ verdict = "none"
  /\ todo = {} /\ inst = "none" /\ color = << >> /\ frames = << >>
  /\ cycle = << >> /\ failed = FALSE

-----------------------------------------------------------------------------
(* evaluate_channel_dependency_gate: a source in error fails, no instance  *)
(* skips, otherwise every instance is searched.                            *)
Load ==
  /\ phase = "load"
  /\ IF SourceError(source) \/ Read(source) = {}
     THEN /\ verdict' = IF SourceError(source) THEN "FAIL" ELSE "SKIP"
          /\ phase' = "done"
          /\ UNCHANGED todo
     ELSE phase' = "pick" /\ todo' = Read(source) /\ UNCHANGED verdict
  /\ UNCHANGED <<source, inst, color, frames, cycle, failed>>

Build ==
  /\ phase = "pick"
  /\ \E i \in todo :
       /\ inst' = i /\ todo' = todo \ {i}
       /\ color' = [v \in Vertices(i) |-> "white"]
       /\ failed' = (failed \/ OutOfRange(i)
                       \/ \E e \in DeclaredEdges(i) : ~EndsBound(i, e))
  /\ phase' = "search"
  /\ UNCHANGED <<source, frames, cycle, verdict>>

Frame(v) == [vertex |-> v, left |-> Successors(inst, v)]

Top == frames[Len(frames)]

Below == SubSeq(frames, 1, Len(frames) - 1)

(* find_cycle takes the next vertex without a colour as a root.            *)
StartRoot ==
  /\ phase = "search" /\ frames = << >>
  /\ \E v \in DOMAIN color :
       /\ color[v] = "white"
       /\ color' = [color EXCEPT ![v] = "grey"]
       /\ frames' = <<Frame(v)>>
  /\ UNCHANGED <<source, phase, todo, inst, cycle, failed, verdict>>

(* A vertex whose successors are all followed is finished.                 *)
LeaveVertex ==
  /\ phase = "search" /\ frames # << >> /\ Top.left = {}
  /\ color' = [color EXCEPT ![Top.vertex] = "black"]
  /\ frames' = Below
  /\ UNCHANGED <<source, phase, todo, inst, cycle, failed, verdict>>

(* The path from w to the top of the stack, closed with w.                 *)
PathFrom(w) ==
  LET k == CHOOSE j \in 1..Len(frames) : frames[j].vertex = w
  IN  [j \in 1..(Len(frames) - k + 2) |->
         IF j = Len(frames) - k + 2 THEN w ELSE frames[k + j - 1].vertex]

FollowEdge(w) ==
  LET rest == Append(Below, [Top EXCEPT !.left = @ \ {w}])
  IN  /\ color[w] # "grey"
      /\ IF color[w] = "white"
         THEN /\ color' = [color EXCEPT ![w] = "grey"]
              /\ frames' = Append(rest, Frame(w))
         ELSE frames' = rest /\ UNCHANGED color
      /\ UNCHANGED <<phase, cycle, failed>>

(* A successor on the stack closes a cycle: the search of this graph ends. *)
CloseCycle(w) ==
  /\ color[w] = "grey"
  /\ cycle' = IF cycle = << >> THEN PathFrom(w) ELSE cycle
  /\ failed' = TRUE
  /\ frames' = << >> /\ phase' = "pick"
  /\ UNCHANGED color

Follow ==
  /\ phase = "search" /\ frames # << >>
  /\ \E w \in Top.left : FollowEdge(w) \/ CloseCycle(w)
  /\ UNCHANGED <<source, todo, inst, verdict>>

(* Mutant: only the vertices of the first root's tree are looked at.       *)
EndSearchEarly ==
  /\ phase = "search" /\ frames = << >> /\ \E v \in DOMAIN color : color[v] # "white"
  /\ phase' = "pick"
  /\ UNCHANGED <<source, todo, inst, color, frames, cycle, failed, verdict>>

EndSearch ==
  /\ phase = "search" /\ frames = << >> /\ \A v \in DOMAIN color : color[v] # "white"
  /\ phase' = "pick"
  /\ UNCHANGED <<source, todo, inst, color, frames, cycle, failed, verdict>>

Decide ==
  /\ phase = "pick" /\ todo = {}
  /\ verdict' = IF failed THEN "FAIL" ELSE "PASS"
  /\ phase' = "done"
  /\ UNCHANGED <<source, todo, inst, color, frames, cycle, failed>>

GateNext ==
  Load \/ Build \/ StartRoot \/ LeaveVertex \/ Follow \/ EndSearch \/ Decide

GateSpec == GateInit /\ [][GateNext]_gateVars

-----------------------------------------------------------------------------
(* evaluate_ordering_point_instance.  J1: every channel of an answer is    *)
(* declared point-to-point ordered; negative channels are passed over.     *)
(* J2: partial knowledge of the sharers needs the broadcast.  J3 never     *)
(* fails.  IC2: a silent E to M upgrade needs a hierarchical combination.  *)
SinglePoint(i) ==
  \A n \in DOMAIN i.answers : \A v \in i.answers[n] :
    v >= 0 => /\ n \in DOMAIN i.ordering
              /\ v \in DOMAIN i.ordering[n]
              /\ i.ordering[n][v] = "p2p_ordered"

TotalOrderObservable(i) == i.completeness = "PARTIAL" => i.broadcast_fallback

SilentUpgradeDeclared(i) == i.exposes_unique_perm => i.hierarchical

Criteria(i) == SinglePoint(i) /\ TotalOrderObservable(i) /\ SilentUpgradeDeclared(i)

(* evaluate_ordering_points, derive_ordering_verdict                       *)
OrderingVerdict ==
  IF SourceError(source) THEN "FAIL"
  ELSE IF Read(source) = {} THEN "SKIP"
  ELSE IF \A i \in Read(source) : Criteria(i) THEN "PASS" ELSE "FAIL"

(* ModuleFactory::instantiateAll goes on unless a gate fails.              *)
Admitted == phase = "done" /\ verdict # "FAIL" /\ OrderingVerdict # "FAIL"

-----------------------------------------------------------------------------
(* Every set of channels of a graph without a cycle has one that depends   *)
(* on none of the set.                                                     *)
Acyclic(i) ==
  \A S \in SUBSET Vertices(i) :
    S # {} => \E v \in S : \A w \in S : <<v, w>> \notin Edges(i)

(* What the channel gate lets through has no cyclic dependency between the *)
(* channels of any instance.                                               *)
PassedIsAcyclic ==
  verdict = "PASS" => \A i \in Read(source) : Acyclic(i)

(* A cycle the gate reports is one.                                        *)
CycleIsReal ==
  cycle # << >> =>
    /\ Len(cycle) > 1 /\ cycle[1] = cycle[Len(cycle)]
    /\ \E i \in Read(source) :
         \A k \in 1..(Len(cycle) - 1) : <<cycle[k], cycle[k + 1]>> \in Edges(i)

(* The grey vertices are those of the stack, and what is finished depends  *)
(* on finished vertices alone.                                             *)
SearchIsSound ==
  phase = "search" =>
    /\ {v \in DOMAIN color : color[v] = "grey"} = {frames[k].vertex : k \in 1..Len(frames)}
    /\ \A v \in DOMAIN color : color[v] = "black" =>
         \A w \in Successors(inst, v) : color[w] = "black"

(* A configuration that names a declaration is never waved through because *)
(* nothing could be read from it, and the answers of every admitted        *)
(* instance travel on ordered channels, also those whose number one gate   *)
(* passes over and the other refuses.                                      *)
AdmittedIsChecked ==
  Admitted =>
    /\ source.kind \in Explicit => Read(source) # {}
    /\ \A i \in Read(source) : \A n \in DOMAIN i.answers : \A v \in i.answers[n] :
         v \in 0..MaxVc /\ i.ordering[n][v] = "p2p_ordered"

GatesSound == PassedIsAcyclic /\ CycleIsReal /\ SearchIsSound /\ AdmittedIsChecked
=============================================================================
