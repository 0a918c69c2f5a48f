--------------------------- MODULE FactoryAssembly ---------------------------
(***************************************************************************)
(* ModuleFactory::instantiateAll: a configuration becomes modules, groups, *)
(* protocol bridges and connected ports.  Factories nest: a composite      *)
(* module assembles its own modules with a factory of its own, while the   *)
(* one around it is half way.  The registry of instance names and the      *)
(* groups (ModuleGroup) are global, the rest belongs to a factory.         *)
(*                                                                         *)
(* A configuration has fields for what its checks find (vetted), a         *)
(* sequence of modules, of connections and of bridges, and its groups.  An *)
(* end of a connection names a module or a group and a port, "none" when   *)
(* it has no dot.  A port is <<factory, module, label, n>>, where n tells  *)
(* the default ports made for single connections apart.                    *)
(***************************************************************************)
EXTENDS Integers, FiniteSets, Sequences, SequencesExt

CONSTANTS
  Factories,   \* of which Top is the outermost
  Top,
  Configs,     \* the configurations a factory may be given
  Class,       \* type -> object, legacy, stream, composite, inner, unknown
  PortCount,   \* stream type -> number of ports of its adapter
  Nested,      \* composite module -> the factory it owns
  Accepts,     \* stream types that take a protocol bridge
  MaxId,       \* the largest bridge_id (65535)
  Digits       \* port text -> index, for the texts that are numbers

VARIABLES
  cfg,         \* factory -> its configuration
  stage,       \* factory -> what instantiateAll does next
  pos,         \* factory -> position in the sequence of that stage
  objs,        \* factory -> name -> type: object_instances, then instances
  registry,    \* ModuleGroup's instances: name -> factory that registered it
  groups,      \* ModuleGroup's groups
  bound,       \* SimplePort::pair: port -> its peer
  pairs,       \* port_pairs_ of all factories
  mounted,     \* factory -> the bridges whose id was accepted
  refused      \* factory -> bridge_failed or connection_failed

asmVars ==
  <<cfg, stage, pos, objs, registry, groups, bound, pairs, mounted, refused>>

ports == <<bound, pairs>>

Restricted(f, S) == [x \in DOMAIN f \cap S |-> f[x]]

Inner(f) == {Nested[m] : m \in DOMAIN objs[f] \cap DOMAIN Nested}

At(f, s) == stage[f] = s

Enter(f, s) == stage' = [stage EXCEPT ![f] = s] /\ pos' = [pos EXCEPT ![f] = 1]

Advance(f) == pos' = [pos EXCEPT ![f] = @ + 1] /\ UNCHANGED stage

AsmInit ==
  /\ cfg \in [Factories -> Configs]
  /\ stage = [f \in Factories |-> "idle"]
  /\ pos = [f \in Factories |-> 1]
  /\ objs = [f \in Factories |-> << >>]
  /\ registry = << >> /\ groups = << >>
  /\ bound = << >> /\ pairs = << >>
  /\ mounted = [f \in Factories |-> << >>]
  /\ refused = [f \in Factories |-> FALSE]

-----------------------------------------------------------------------------
(* A factory that gives up destroys its objects, with them the factories   *)
(* inside; the destructor of those erases what they had assembled and      *)
(* clears all groups.  The names of the factory itself stay registered:    *)
(* its destructor only knows those of a finished assembly.                 *)
Forget(f) ==
  LET names == UNION {DOMAIN objs[g] : g \in {h \in Inner(f) : At(h, "done")}}
  IN  /\ registry' = Restricted(registry, DOMAIN registry \ names)
      /\ groups' = IF Inner(f) = {} THEN groups ELSE << >>

GiveUp(f) ==
  /\ stage' = [g \in Factories |-> IF g = f THEN "failed"
                                   ELSE IF g \in Inner(f) THEN "gone" ELSE stage[g]]
  /\ objs' = [g \in Factories |-> IF g \in {f} \cup Inner(f) THEN << >> ELSE objs[g]]
  /\ Forget(f)

(* The checks before anything is built: inheritance, validateConfig, the   *)
(* gates of a cep section, the hierarchy and the required parameters.      *)
Vet(f) ==
  /\ At(f, "begin")
  /\ IF cfg[f].vetted
     THEN Enter(f, "create")
     ELSE stage' = [stage EXCEPT ![f] = "failed"] /\ UNCHANGED pos
  /\ UNCHANGED <<cfg, objs, registry, groups, ports, mounted, refused>>

(* The next module: an unknown type is passed over, a type meant only for  *)
(* the inside of composites ends any assembly.                             *)
Create(f) ==
  /\ At(f, "create") /\ pos[f] <= Len(cfg[f].modules)
  /\ LET m == cfg[f].modules[pos[f]]
         c == Class[m.type]
     IN  IF c = "inner"
         THEN GiveUp(f) /\ UNCHANGED pos
         ELSE /\ Advance(f)
              /\ UNCHANGED groups
              /\ IF c = "unknown"
                 THEN UNCHANGED <<objs, registry>>
                 ELSE /\ objs' = [objs EXCEPT ![f] =
                           [x \in DOMAIN @ \cup {m.name} |->
                              IF x = m.name THEN m.type ELSE @[x]]]
                      /\ registry' = [x \in DOMAIN registry \cup {m.name} |->
                                        IF x = m.name THEN f ELSE registry[x]]
  /\ UNCHANGED <<cfg, ports, mounted, refused>>

DefineGroups(f) ==
  /\ At(f, "create") /\ pos[f] > Len(cfg[f].modules)
  /\ groups' = [g \in DOMAIN groups \cup DOMAIN cfg[f].groups |->
                  IF g \in DOMAIN cfg[f].groups THEN cfg[f].groups[g] ELSE groups[g]]
  /\ Enter(f, "nest")
  /\ UNCHANGED <<cfg, objs, registry, ports, mounted, refused>>

(* simulate_instantiate of the composites: each runs its own factory to    *)
(* the end, and whether that succeeded is not asked.                       *)
Busy(g) == stage[g] \notin {"idle", "done", "failed", "gone"}

RunInner(f, g) ==
  /\ At(f, "nest") /\ g \in Inner(f) /\ At(g, "idle")
  /\ \A h \in Inner(f) : ~Busy(h)
  /\ stage' = [stage EXCEPT ![g] = "begin"]
  /\ UNCHANGED <<cfg, pos, objs, registry, groups, ports, mounted, refused>>

(* The depth limit throws out of simulate_instantiate: the assembly ends.  *)
TooDeep(f) ==
  /\ At(f, "nest") /\ Inner(f) # {} /\ \A g \in Inner(f) : ~Busy(g)
  /\ GiveUp(f)
  /\ UNCHANGED <<cfg, pos, ports, mounted, refused>>

Nest(f) ==
  /\ At(f, "nest") /\ \A g \in Inner(f) : ~Busy(g) /\ ~At(g, "idle")
  /\ Enter(f, "connect")
  /\ UNCHANGED <<cfg, objs, registry, groups, ports, mounted, refused>>

-----------------------------------------------------------------------------
Conns(f) == cfg[f].connections

(* Of several connections with the same ends the first is kept.            *)
Kept(f, k) ==
  \A j \in 1..(k - 1) : <<Conns(f)[j].src, Conns(f)[j].dst>> # <<Conns(f)[k].src, Conns(f)[k].dst>>

IsGroup(e) == e.who \in UNION {DOMAIN cfg[f].groups : f \in Factories}

(* The modules an end stands for: those of a group, whoever defined its    *)
(* name last, and else those whose name it matches.  Every end is taken    *)
(* for a pattern, so one that names a port matches nothing.                *)
Ends(f, e) ==
  IF IsGroup(e)
  THEN {[who |-> n, port |-> "none"] :
          n \in IF e.who \in DOMAIN groups THEN groups[e.who] ELSE {}}
  ELSE IF e.port = "none" /\ e.who \in DOMAIN objs[f] THEN {e} ELSE {}

(* The default port made on a module for a connection.                     *)
LegacyPort(f, e, side, n) ==
  IF e.who \in DOMAIN objs[f] THEN <<f, e.who, side, n>> ELSE << >>

(* PortPair binds both ports, whatever they were bound to.                 *)
Bind(b, p) ==
  [x \in DOMAIN b \cup {p.a, p.b} |->
     IF x = p.a THEN p.b ELSE IF x = p.b THEN p.a ELSE b[x]]

Pair(f, s, d, kind, a, b) ==
  [f |-> f, src |-> s, dst |-> d, kind |-> kind, a |-> a, b |-> b]

(* processed_connections                                                   *)
Processed(f, s, d) ==
  \E k \in DOMAIN pairs : pairs[k].f = f /\ pairs[k].src = s /\ pairs[k].dst = d

(* A source has one default port per connection, a destination one per     *)
(* source.                                                                 *)
LegacyPairs(f, k) ==
  LET c == Conns(f)[k]
      all == {Pair(f, s, d, "legacy", LegacyPort(f, s, "down", <<k>>),
                                      LegacyPort(f, d, "up", <<k, s.who>>)) :
                s \in Ends(f, c.src), d \in Ends(f, c.dst)}
  IN  {p \in all : p.a # << >> /\ p.b # << >> /\ ~Processed(f, p.src, p.dst)}

(* The ports of a sequence of pairs are bound in turn.                     *)
MakePairs(new) ==
  /\ pairs' = pairs \o new
  /\ bound' = FoldLeft(Bind, bound, new)

(* The legacy step makes a pair of every two ends that are modules.        *)
ConnectLegacy(f) ==
  /\ At(f, "connect") /\ pos[f] <= Len(Conns(f))
  /\ MakePairs(IF Kept(f, pos[f]) THEN SetToSeq(LegacyPairs(f, pos[f])) ELSE << >>)
  /\ Advance(f)
  /\ UNCHANGED <<cfg, objs, registry, groups, mounted, refused>>

ConnectedLegacy(f) ==
  /\ At(f, "connect") /\ pos[f] > Len(Conns(f))
  /\ Enter(f, "bridge")
  /\ UNCHANGED <<cfg, objs, registry, groups, ports, mounted, refused>>

-----------------------------------------------------------------------------
IsStream(f, m) == m \in DOMAIN objs[f] /\ Class[objs[f][m]] = "stream"

(* The id a bridge gets: the one given, or the first that is not in use.   *)
UsedIds(f) == {mounted[f][k].id : k \in DOMAIN mounted[f]}

IdOf(f, b) ==
  IF ~b.auto THEN b.id
  ELSE CHOOSE i \in 1..(Cardinality(UsedIds(f)) + 1) :
         i \notin UsedIds(f) /\ \A j \in 1..(i - 1) : j \in UsedIds(f)

(* Registered, of an id in range that is not taken, of the family its      *)
(* protocol instance declares.                                             *)
Acceptable(f, b) ==
  /\ b.registered /\ b.fits
  /\ IdOf(f, b) \in 1..MaxId
  /\ IdOf(f, b) \notin UsedIds(f)

Takes(f, m) == IsStream(f, m) /\ objs[f][m] \in Accepts

(* A bridge is attached to its modules up to the first that does not take  *)
(* it.                                                                     *)
Attachable(f, b) ==
  {b.modules[k] : k \in {j \in DOMAIN b.modules : \A i \in 1..j : Takes(f, b.modules[i])}}

MountBridge(f) ==
  /\ At(f, "bridge") /\ pos[f] <= Len(cfg[f].bridges)
  /\ LET b == cfg[f].bridges[pos[f]]
         on == Attachable(f, b)
     IN  /\ mounted' = IF Acceptable(f, b)
                       THEN [mounted EXCEPT ![f] = Append(@, [id |-> IdOf(f, b), on |-> on])]
                       ELSE mounted
         /\ refused' = [refused EXCEPT ![f] = @ \/ ~Acceptable(f, b) \/ b.modules = << >>
                                                \/ on # ToSet(b.modules)]
  /\ Advance(f)
  /\ UNCHANGED <<cfg, objs, registry, groups, ports>>

MountedBridges(f) ==
  /\ At(f, "bridge") /\ pos[f] > Len(cfg[f].bridges)
  /\ IF refused[f]
     THEN GiveUp(f) /\ UNCHANGED pos
     ELSE Enter(f, "stream") /\ UNCHANGED <<objs, registry, groups>>
  /\ UNCHANGED <<cfg, ports, mounted, refused>>

-----------------------------------------------------------------------------
(* The index of a port text, a number or the name of a direction: anything *)
(* else counts as 0, and so does every index of a module with one port.    *)
Index(f, e) ==
  IF e.port \in DOMAIN Digits /\ PortCount[objs[f][e.who]] > 1 THEN Digits[e.port] ELSE 0

HasPort(f, e) ==
  /\ IsStream(f, e.who)
  /\ Index(f, e) < PortCount[objs[f][e.who]]

(* validate_nic_pe_connection: port 0 of a NIC is its processing element's *)
NicMisused(f, s, d) ==
  LET nic(e) == e.who \in DOMAIN objs[f] /\ objs[f][e.who] = "NICTLM"
      router(e) == e.who \in DOMAIN objs[f] /\ objs[f][e.who] = "RouterTLM"
      zero(e) == e.port \notin DOMAIN Digits \/ Digits[e.port] = 0
  IN  (nic(s) /\ zero(s) /\ router(d)) \/ (nic(d) /\ zero(d) /\ router(s))

StreamPort(f, e, label) == <<f, e.who, label, <<Index(f, e)>>>>

AnswerPair(f, s, d) ==
  Pair(f, s, d, "answer", StreamPort(f, d, "resp_out"), StreamPort(f, s, "resp_in"))

RequestPair(f, s, d) ==
  Pair(f, s, d, "request", StreamPort(f, s, "req_out"), StreamPort(f, d, "req_in"))

(* The stream step connects what the legacy step has not: requests one     *)
(* way, answers the other.  A connection that names no two stream ports is *)
(* passed over.                                                            *)
ConnectStream(f) ==
  /\ At(f, "stream") /\ pos[f] <= Len(Conns(f))
  /\ LET c == Conns(f)[pos[f]]
         skip == Processed(f, c.src, c.dst)
         bad  == ~skip /\ (NicMisused(f, c.src, c.dst)
                            \/ (HasPort(f, c.src) /\ HasPort(f, c.dst) /\ ~c.compatible))
     IN  /\ refused' = [refused EXCEPT ![f] = @ \/ bad]
         /\ IF skip \/ bad \/ ~HasPort(f, c.src) \/ ~HasPort(f, c.dst)
            THEN UNCHANGED ports
            ELSE MakePairs(<<RequestPair(f, c.src, c.dst), AnswerPair(f, c.src, c.dst)>>)
  /\ Advance(f)
  /\ UNCHANGED <<cfg, objs, registry, groups, mounted>>

(* The objects become the factory's instances whatever was refused; the    *)
(* caller is told.                                                         *)
Finish(f) ==
  /\ At(f, "stream") /\ pos[f] > Len(Conns(f))
  /\ Enter(f, "done")
  /\ UNCHANGED <<cfg, objs, registry, groups, ports, mounted, refused>>

(* ~ModuleFactory: first the objects, with the factories inside, then the  *)
(* names of its instances, then all groups.                                *)
Destroy ==
  /\ stage[Top] \in {"done", "failed"}
  /\ LET mine == IF At(Top, "done") THEN DOMAIN objs[Top] ELSE {}
         inside == UNION {DOMAIN objs[g] : g \in {h \in Inner(Top) : At(h, "done")}}
     IN  registry' = Restricted(registry, DOMAIN registry \ (mine \cup inside))
  /\ groups' = << >>
  /\ stage' = [f \in Factories |-> "gone"]
  /\ objs' = [f \in Factories |-> << >>]
  /\ UNCHANGED <<cfg, pos, ports, mounted, refused>>

Start ==
  /\ At(Top, "idle")
  /\ stage' = [stage EXCEPT ![Top] = "begin"]
  /\ UNCHANGED <<cfg, pos, objs, registry, groups, ports, mounted, refused>>

AsmNext ==
  \/ Start \/ Destroy
  \/ \E f \in Factories :
       \/ Vet(f) \/ Create(f) \/ DefineGroups(f) \/ TooDeep(f) \/ Nest(f)
       \/ (\E g \in Factories : RunInner(f, g))
       \/ ConnectLegacy(f) \/ ConnectedLegacy(f)
       \/ MountBridge(f) \/ MountedBridges(f) \/ ConnectStream(f) \/ Finish(f)

AsmSpec == AsmInit /\ [][AsmNext]_asmVars

-----------------------------------------------------------------------------
(* A registered name belongs to an object that exists; what an assembly    *)
(* that failed had registered is the exception.                            *)
RegistryNamesLive ==
  \A n \in DOMAIN registry :
    n \in DOMAIN objs[registry[n]] \/ stage[registry[n]] \in {"failed", "gone"}

(* No two ends are connected twice, neither by the legacy and the stream   *)
(* step nor by a connection that is declared twice or by a group and by    *)
(* name.                                                                   *)
ConnectedOnce ==
  \A j, k \in DOMAIN pairs :
    /\ pairs[j].f = pairs[k].f /\ pairs[j].src = pairs[k].src /\ pairs[j].dst = pairs[k].dst
    => j = k \/ {pairs[j].kind, pairs[k].kind} = {"request", "answer"}

(* Where no two connections share a port, what a stream module sends to a  *)
(* module is answered to the port it asks from.                            *)
AnswersReturn ==
  \A k \in DOMAIN pairs :
    LET mine == {j \in DOMAIN pairs : {pairs[j].a, pairs[j].b} \cap {pairs[k].a, pairs[k].b} # {}}
    IN  mine = {k} /\ pairs[k].kind = "request" =>
          \E j \in DOMAIN pairs :
            /\ pairs[j].kind = "answer"
            /\ pairs[j].a[2] = pairs[k].b[2] /\ pairs[j].a[4] = pairs[k].b[4]
            /\ pairs[j].b[2] = pairs[k].a[2] /\ pairs[j].b[4] = pairs[k].a[4]

(* The bridges of an assembly have ids of their own, and a module that was *)
(* given one is a stream module of the factory that keeps it.              *)
BridgesApart ==
  \A f \in Factories :
    /\ \A j, k \in DOMAIN mounted[f] : mounted[f][j].id = mounted[f][k].id => j = k
    /\ At(f, "done") =>
         \A k \in DOMAIN mounted[f] :
           mounted[f][k].on # {} /\ \A m \in mounted[f][k].on : Takes(f, m)

(* An assembly that failed keeps no object; of those that went through the *)
(* factory knows all.                                                      *)
FailureKeepsNothing ==
  \A f \in Factories : stage[f] \in {"failed", "gone"} => objs[f] = << >>

AssemblySound ==
  /\ RegistryNamesLive /\ ConnectedOnce /\ AnswersReturn
  /\ BridgesApart /\ FailureKeepsNothing

=============================================================================
