---------------------------- MODULE ConfigInput ----------------------------
(***************************************************************************)
(* The topology generator (scripts/topology/topology_generator.py): a      *)
(* graph of abstract nodes is built for one family, placed, and exported   *)
(* as a configuration whose connections name RouterTLM's and NICTLM's      *)
(* ports.  The node "router_2_3" is the tuple <<"router", 2, 3>>.          *)
(*                                                                         *)
(* What ModuleFactory::instantiateAll does with a configuration before it  *)
(* builds anything: it follows `extends` from file to file and merges the  *)
(* files back, takes in `include`, replaces ${key} references, and checks  *)
(* modules, hierarchy, required parameters and ports of connections.       *)
(*                                                                         *)
(* A document is a function from the keys it has to their values: modules  *)
(* is a function from names to records, connections a sequence, groups a   *)
(* function to sequences, hierarchy the set of paths from the root; other  *)
(* keys have a scalar value, or a table's (an object or an array).  A      *)
(* scalar is <<"int", n>>, <<"float", n>>, <<"text", s>>, <<"digits", n>>  *)
(* for a text that reads as a number, or <<"ref", key>> for "${key}".      *)
(***************************************************************************)
EXTENDS Integers, FiniteSets, Sequences, FiniteSetsExt, TLC, SequencesExt

CONSTANTS
  Sizes,       \* of meshes, <<rows, columns>>
  Counts,      \* of the nodes of a ring or of a bus
  Trees,       \* <<levels, factor>>
  Crossings,   \* <<inputs, outputs>>
  Docs,        \* the configurations that may be given
  Files,       \* file name -> document, for the files that can be read
  MaxDepth     \* levels of extends (10)

VARIABLES
  g,       \* the generator: graph, layout_coords, target
  out,     \* what main has written
  stage,   \* follow, merge, inherited, include, check, accepted, refused
  chain,   \* the configuration, then the files it extends, outermost first
  doc      \* the document that comes out

North == 0
East == 1
South == 2
West == 3
Local == 4
PeSide == 0
NetSide == 1
NoPort == -1          \* None: the end is written without an index
NoCoords == << >>
NoPlace == << >>
NoConfig == [modules |-> << >>, links |-> {}]

CpptlmTypes ==
  [Processor |-> "CPUTLM", Cache |-> "CacheTLM", Memory |-> "MemoryTLM",
   Directory |-> "DirectoryCtrl", NetworkInterface |-> "NICTLM", Router |-> "RouterTLM",
   MeshRouter |-> "RouterTLM", Bus |-> "BusSim", Crossbar |-> "CrossbarTLM",
   TrafficGen |-> "TrafficGenTLM", Port |-> "Port"]

(* The modules the factory can build under those names.                    *)
Buildable == {"CacheTLM", "MemoryTLM", "CrossbarTLM", "CPUTLM", "TrafficGenTLM", "RouterTLM", "NICTLM"}

MapType(target, type) ==
  IF target = "cpptlm" /\ type \in DOMAIN CpptlmTypes THEN CpptlmTypes[type] ELSE type

IsRouter(type) == type \in {"Router", "MeshRouter"}
RouterCoords(node) == IF node[1] = "router" THEN Tail(node) ELSE NoCoords

(* The two port indices of a connection, from the types of its ends and    *)
(* from where the routers lie.                                             *)
RouterPorts(s, d) ==
  CASE d[1] = s[1] + 1 /\ d[2] = s[2] -> <<East, West>>
    [] d[1] = s[1] - 1 /\ d[2] = s[2] -> <<West, East>>
    [] d[1] = s[1] /\ d[2] = s[2] + 1 -> <<South, North>>
    [] d[1] = s[1] /\ d[2] = s[2] - 1 -> <<North, South>>
    [] OTHER -> <<NoPort, NoPort>>

PortIndices(types, src, dst) ==
  LET s == types[src]
      d == types[dst]
      near == RouterCoords(src)
      far == RouterCoords(dst)
  IN  CASE IsRouter(s) /\ IsRouter(d) /\ near # NoCoords /\ far # NoCoords -> RouterPorts(near, far)
        [] s = "NetworkInterface" /\ IsRouter(d) -> <<NetSide, Local>>
        [] IsRouter(s) /\ d = "NetworkInterface" -> <<Local, NetSide>>
        [] s = "NetworkInterface" /\ d = "Processor" -> <<PeSide, NoPort>>
        [] s = "Processor" /\ d = "NetworkInterface" -> <<NoPort, PeSide>>
        [] OTHER -> <<NoPort, NoPort>>

(* -- the families: nodes with their types, edges with their attributes,   *)
(* and the first place of each node.                                       *)
Cost(l, b) == [latency |-> l, bandwidth |-> b]
NiCost == [latency |-> 0]
ProcCost == [latency |-> 1]
BothWays(pairs) == pairs \cup {<<p[2], p[1]>> : p \in pairs}
Graph(types, edges, places) == [types |-> types, edges |-> edges, places |-> places]

Cells(rows, cols) == (0..(rows - 1)) \X (0..(cols - 1))

MeshEdges(rows, cols) ==
  LET router(c) == <<"router", c[1], c[2]>>
      ni(c) == <<"ni", c[1], c[2]>>
      proc(c) == <<"proc", c[1], c[2]>>
      at == Cells(rows, cols)
      east == {<<router(c), router(<<c[1], c[2] + 1>>)>> : c \in {x \in at : x[2] < cols - 1}}
      south == {<<router(c), router(<<c[1] + 1, c[2]>>)>> : c \in {x \in at : x[1] < rows - 1}}
      inject == BothWays({<<ni(c), router(c)>> : c \in at})
      serve == BothWays({<<proc(c), ni(c)>> : c \in at})
  IN  [e \in east \cup south |-> Cost(1, 100)] @@ [e \in inject |-> NiCost] @@ [e \in serve |-> ProcCost]

MeshTypes(rows, cols) ==
  [n \in {"router", "ni", "proc"} \X (0..(rows - 1)) \X (0..(cols - 1)) |->
     CASE n[1] = "router" -> "MeshRouter" [] n[1] = "ni" -> "NetworkInterface" [] n[1] = "proc" -> "Processor"]

Mesh(rows, cols) ==
  LET shift(kind) == CASE kind = "router" -> 0 [] kind = "ni" -> 30 [] kind = "proc" -> 60
      types == MeshTypes(rows, cols)
  IN  Graph(types, MeshEdges(rows, cols),
            [n \in DOMAIN types |-> <<"at", 100 * n[3] + shift(n[1]), (-100) * n[2] - shift(n[1])>>])

Ring(n) ==
  LET types == [v \in {"node"} \X (0..(n - 1)) |-> "Processor"]
      around == {<<v, <<"node", (v[2] + 1) % n>>>> : v \in DOMAIN types}
  IN  Graph(types, [e \in BothWays(around) |-> Cost(2, 100)],
            [v \in DOMAIN types |-> <<"angle", v[2], n>>])

Bus(n) ==
  LET nodes == {"node"} \X (0..(n - 1))
      types == (<<"bus">> :> "Bus") @@ [v \in nodes |-> "Processor"]
  IN  Graph(types, [e \in BothWays(nodes \X {<<"bus">>}) |-> Cost(1, 10)],
            [v \in DOMAIN types |-> IF v = <<"bus">> THEN <<"at", 250, 0>> ELSE <<"at", v[2], 100>>])

(* Level k of the tree has factor^k nodes, the last one the processors.    *)
TreeLevel(factor, k) == IF k = 0 THEN {<<"root">>} ELSE {<<"l", k, i>> : i \in 0..(factor ^ k - 1)}

Tree(levels, factor) ==
  LET nodes == UNION {TreeLevel(factor, k) : k \in 0..levels}
      types == [v \in nodes |-> IF v # <<"root">> /\ v[2] = levels THEN "Processor" ELSE "Router"]
      above(v) == IF v[2] = 1 THEN <<"root">> ELSE <<"l", v[2] - 1, v[3] \div factor>>
  IN  IF levels < 1 THEN Graph(<< >>, << >>, << >>)
      ELSE Graph(types, [e \in BothWays({<<above(v), v>> : v \in nodes \ {<<"root">>}}) |-> Cost(1, 100)],
                 [v \in nodes |-> IF v = <<"root">> THEN <<"at", 0, 0>> ELSE <<"at", v[3], (-100) * v[2]>>])

CrossbarOf(ins, outs) ==
  LET ends == ({"input"} \X (0..(ins - 1))) \cup ({"output"} \X (0..(outs - 1)))
      types == (<<"arbiter">> :> "Arbiter") @@ [v \in ends |-> "Port"]
  IN  Graph(types, [e \in BothWays(ends \X {<<"arbiter">>}) |-> Cost(1, 100)],
            [v \in DOMAIN types |->
               CASE v[1] = "arbiter" -> <<"at", 250, 0>>
                 [] v[1] = "input" -> <<"at", 50, 50 * v[2] - 50>>
                 [] v[1] = "output" -> <<"at", 450, 50 * v[2] - 50>>])

(* -- export ------------------------------------------------------------- *)
MeshExtent(types) ==
  LET coords == {RouterCoords(n) : n \in {v \in DOMAIN types : IsRouter(types[v])}} \ {NoCoords}
  IN  IF coords = {} THEN <<2, 2>>
      ELSE <<Max({c[1] : c \in coords}) + 1, Max({c[2] : c \in coords}) + 1>>

ExportedParams(types, node, type) ==
  LET mesh == MeshExtent(types)
      coords == RouterCoords(node)
  IN  CASE type \in {"RouterTLM", "Router"} /\ coords # NoCoords ->
             [node_x |-> coords[1], node_y |-> coords[2], mesh_x |-> mesh[1], mesh_y |-> mesh[2]]
        [] type \in {"NICTLM", "NetworkInterface"} /\ node[1] = "ni" ->
             [node_id |-> node[3] * mesh[1] + node[2], mesh_x |-> mesh[1], mesh_y |-> mesh[2]]
        [] OTHER -> << >>

ExportedLinks(types, edges) ==
  {LET port == PortIndices(types, e[1], e[2])
   IN  [src |-> <<e[1], port[1]>>, dst |-> <<e[2], port[2]>>, latency |-> edges[e].latency,
        bandwidth |-> IF "bandwidth" \in DOMAIN edges[e] THEN edges[e].bandwidth ELSE 100] :
     e \in DOMAIN edges}

ExportConfig(gen, mapped) ==
  [modules |-> [n \in DOMAIN gen.graph.types |->
      LET type == IF mapped THEN MapType(gen.target, gen.graph.types[n]) ELSE gen.graph.types[n]
      IN  [type |-> type, params |-> ExportedParams(gen.graph.types, n, type)]],
   links |-> ExportedLinks(gen.graph.types, gen.graph.edges)]

DotShape(type) ==
  CASE type \in {"Processor", "Router", "MeshRouter", "NetworkInterface", "Port"} -> "box"
    [] type = "Bus" -> "ellipse"
    [] type = "Arbiter" -> "diamond"
    [] OTHER -> "box"

Drawing(gen) ==
  [nodes |-> [n \in DOMAIN gen.graph.types |->
                [shape |-> DotShape(gen.graph.types[n]),
                 pos |-> IF n \in DOMAIN gen.places THEN gen.places[n] ELSE NoPlace]],
   edges |-> DOMAIN gen.graph.edges]

(* -- main ---------------------------------------------------------------- *)
NoGraph == Graph(<< >>, << >>, << >>)

TopologyInit ==
  /\ g \in {[graph |-> NoGraph, places |-> << >>, target |-> t, family |-> "none", step |-> 0] :
              t \in {"cpptlm", "gem5"}}
  /\ out = [config |-> NoConfig, mapped |-> FALSE, layout |-> << >>, dot |-> << >>]

Built(family, graph) ==
  /\ g.step = 0
  /\ g' = [g EXCEPT !.graph = graph, !.places = graph.places, !.family = family, !.step = 1]
  /\ UNCHANGED out

GenerateMesh == \E s \in Sizes : Built("mesh", Mesh(s[1], s[2]))
GenerateRing == \E n \in Counts : Built("ring", Ring(n))
GenerateBus == \E n \in Counts : Built("bus", Bus(n))
GenerateTree == \E s \in Trees : Built("hierarchical", Tree(s[1], s[2]))
GenerateCrossbar == \E s \in Crossings : Built("crossbar", CrossbarOf(s[1], s[2]))

(* The library places every node, or fails and the first places stay.      *)
ApplyLayout ==
  /\ g.step = 1
  /\ \E places \in {[n \in DOMAIN g.graph.types |-> <<"placed", n>>], g.places} :
       g' = [g EXCEPT !.places = places, !.step = 2]
  /\ UNCHANGED out

(* A layout file moves the nodes it shares with the graph.                 *)
ImportLayout ==
  /\ g.step = 2
  /\ \E n \in DOMAIN g.graph.types \cup {<<"node", 9>>} :
       g' = [g EXCEPT !.places =
               [m \in DOMAIN @ |-> IF m = n THEN <<"moved", n>> ELSE @[m]], !.step = 3]
  /\ UNCHANGED out

Export ==
  /\ g.step \in {2, 3}
  /\ \E mapped \in BOOLEAN, layout \in BOOLEAN, dot \in BOOLEAN :
       out' = [config |-> ExportConfig(g, mapped), mapped |-> mapped,
               layout |-> IF layout THEN g.places ELSE << >>,
               dot |-> IF dot THEN Drawing(g) ELSE << >>]
  /\ g' = [g EXCEPT !.step = 4]

TopologyNext ==
  \/ GenerateMesh \/ GenerateRing \/ GenerateBus \/ GenerateTree \/ GenerateCrossbar
  \/ ApplyLayout \/ ImportLayout \/ Export

(* -- what the exported configuration is worth ---------------------------- *)
Routable == {n \in DOMAIN out.config.modules : out.config.modules[n].type = "RouterTLM"}
Interfaces == {n \in DOMAIN out.config.modules : out.config.modules[n].type = "NICTLM"}

(* The ends that the connections of an end lead to.                        *)
Peers(end) == {l.dst : l \in {x \in out.config.links : x.src = end}}
              \cup {l.src : l \in {x \in out.config.links : x.dst = end}}

(* RouterTLM's XY routing on the exported parameters: the output for node d. *)
XyPort(p, d) ==
  LET x == d % p.mesh_x
      y == d \div p.mesh_x
  IN  CASE x > p.node_x -> East [] x < p.node_x -> West
        [] x = p.node_x /\ y > p.node_y -> North [] x = p.node_x /\ y < p.node_y -> South
        [] OTHER -> Local

Hop(n, d) ==
  IF n \notin Routable THEN n
  ELSE LET next == Peers(<<n, XyPort(out.config.modules[n].params, d)>>)
       IN  IF next = {} THEN << >> ELSE (CHOOSE e \in next : TRUE)[1]

(* Where a flit for node d ends that interface n gives to its router.      *)
EndsAt(n, d) ==
  LET at[k \in 0..Cardinality(Routable) + 1] ==
        IF k = 0 THEN (CHOOSE e \in Peers(<<n, NetSide>>) : TRUE)[1] ELSE Hop(at[k - 1], d)
  IN  at[Cardinality(Routable) + 1]

NodeId(n) == out.config.modules[n].params.node_id

(* A flit between two interfaces of one mesh row of the routing arrives,   *)
(* and no flit arrives anywhere but at its destination.                    *)
FlitsReachTheirNode ==
  \A a, b \in Interfaces :
    /\ EndsAt(a, NodeId(b)) \in {b, << >>} \cup Routable
    /\ a[3] = b[3] => EndsAt(a, NodeId(b)) = b

(* One wire per indexed port, one number per interface.                    *)
EndsAreUnique ==
  /\ \A n \in Routable \cup Interfaces, p \in 0..4 : Cardinality(Peers(<<n, p>>)) <= 1
  /\ \A a, b \in Interfaces : NodeId(a) = NodeId(b) => a = b

(* From one node all the others are reached.                               *)
AllReached ==
  LET nodes == DOMAIN g.graph.types
      near(set) == set \cup {e[2] : e \in {x \in DOMAIN g.graph.edges : x[1] \in set}}
                       \cup {e[1] : e \in {x \in DOMAIN g.graph.edges : x[2] \in set}}
      reach[k \in 0..Cardinality(nodes)] ==
        IF k = 0 THEN {CHOOSE n \in nodes : TRUE} ELSE near(reach[k - 1])
  IN  nodes = {} \/ reach[Cardinality(nodes)] = nodes

(* Every node has a place of its own, moved or not.                        *)
PlacesApart ==
  /\ DOMAIN g.places = DOMAIN g.graph.types
  /\ \A a, b \in DOMAIN g.places : g.places[a] = g.places[b] => a = b

(* The types of a mesh, a ring and a tree exist (a bus's and a crossbar's  *)
(* do not: BusSim, Arbiter and Port are registered nowhere).               *)
TypesExist ==
  out.mapped /\ g.target = "cpptlm" /\ g.family \in {"mesh", "ring", "hierarchical"}
    => \A n \in DOMAIN out.config.modules : out.config.modules[n].type \in Buildable

(* A generated topology is one piece, drawn without overlaps, and its      *)
(* exported mesh wires each port once and leads flits to the node they are *)
(* for (scripts/topology/topology_generator.py against RouterTLM's XY      *)
(* routing, tlm/router_tlm.cc).                                            *)
TopologySound ==
  g.step > 0 => /\ AllReached
                /\ PlacesApart
                /\ g.step = 4 => EndsAreUnique /\ FlitsReachTheirNode /\ TypesExist

-----------------------------------------------------------------------------
configVars == <<stage, chain, doc>>

Has(d, key) == key \in DOMAIN d

Overlay(f, h) == [k \in DOMAIN f \cup DOMAIN h |-> IF k \in DOMAIN h THEN h[k] ELSE f[k]]

Pick(f, S) == [k \in DOMAIN f \cap S |-> f[k]]

-----------------------------------------------------------------------------
(* Mutant: the base's parameters over the child's.                         *)
MergeModuleBaseWins(base, child) ==
  IF ~Has(child, "params") THEN base
  ELSE IF Has(base, "params")
       THEN [base EXCEPT !.params = Overlay(child.params, @)]
       ELSE Overlay(base, Pick(child, {"params"}))

(* A module of both keeps the base's entry, type included, with the        *)
(* child's parameters over the base's.                                     *)
MergeModule(base, child) ==
  IF ~Has(child, "params") THEN base
  ELSE IF Has(base, "params")
       THEN [base EXCEPT !.params = Overlay(@, child.params)]
       ELSE Overlay(base, Pick(child, {"params"}))

MergeModules(base, child) ==
  [n \in DOMAIN base \cup DOMAIN child |->
     IF n \notin DOMAIN child THEN base[n]
     ELSE IF n \notin DOMAIN base THEN child[n]
     ELSE MergeModule(base[n], child[n])]

Joined(f, h) ==
  [k \in DOMAIN f \cup DOMAIN h |->
     IF k \notin DOMAIN h THEN f[k] ELSE IF k \notin DOMAIN f THEN h[k] ELSE f[k] \o h[k]]

OwnKeys == {"modules", "connections", "groups", "hierarchy", "extends"}

IsScalar(v) == v[1] # "table"

(* Of the child's other keys only the scalars are taken.                   *)
Scalars(d) == {k \in DOMAIN d \ OwnKeys : IsScalar(d[k])}

MergeConfigs(base, child) ==
  Overlay(base, [k \in Scalars(child) \cup (DOMAIN child \cap {"modules", "connections", "groups"}) |->
    CASE k = "modules" -> MergeModules(IF Has(base, k) THEN base.modules ELSE << >>, child.modules)
      [] k = "connections" -> (IF Has(base, k) THEN base.connections ELSE << >>) \o child.connections
      [] k = "groups" -> Joined(IF Has(base, k) THEN base.groups ELSE << >>, child.groups)
      [] OTHER -> child[k]])

ConfigInit ==
  /\ stage = "follow"
  /\ doc = << >>
  /\ \E d \in Docs : chain = <<d>>

Refuse == stage' = "refused"

(* processExtends on the way in: the file must be readable, and the chain  *)
(* not longer than MaxDepth.                                               *)
Follow ==
  /\ stage = "follow" /\ Has(Last(chain), "extends")
  /\ LET f == Last(chain).extends
     IN  IF f \in DOMAIN Files /\ Len(chain) <= MaxDepth
         THEN chain' = Append(chain, Files[f]) /\ UNCHANGED stage
         ELSE Refuse /\ UNCHANGED chain
  /\ UNCHANGED doc

(* The end of the chain is taken as it is.                                 *)
Base ==
  /\ stage = "follow" /\ ~Has(Last(chain), "extends")
  /\ doc' = Last(chain)
  /\ stage' = "merge"
  /\ UNCHANGED chain

(* And on the way out; an empty document counts as a failure.              *)
Merge ==
  /\ stage = "merge" /\ Len(chain) > 1 /\ DOMAIN doc # {}
  /\ chain' = Front(chain)
  /\ doc' = MergeConfigs(doc, Last(Front(chain)))
  /\ UNCHANGED stage

Merged ==
  /\ stage = "merge" /\ (Len(chain) = 1 \/ DOMAIN doc = {})
  /\ IF DOMAIN doc = {} THEN Refuse ELSE stage' = "inherited"
  /\ UNCHANGED <<chain, doc>>

(* JsonIncluder: keys of the included file that are not there yet; a file  *)
(* that includes another hands its keys on.  An unreadable one throws.     *)
Include ==
  /\ stage \in {"inherited", "include"} /\ Has(doc, "include")
  /\ IF doc.include[2] \in DOMAIN Files
     THEN /\ stage' = "include"
          /\ doc' = Overlay(Files[doc.include[2]], Pick(doc, DOMAIN doc \ {"include"}))
     ELSE Refuse /\ UNCHANGED doc
  /\ UNCHANGED chain

-----------------------------------------------------------------------------
(* VarResolver.  Numbers are written out as floating point, and a text     *)
(* that then reads as a number becomes one; a reference to a reference is  *)
(* followed, a reference to nothing stays a text.                          *)
IsRef(d, v) == v[1] = "ref" /\ Has(d, v[2])

ResolveScalar(d, v) ==
  LET value[w \in {v} \cup {d[k] : k \in Scalars(d)}] ==
        IF ~IsRef(d, w) THEN IF w[1] = "digits" THEN <<"float", w[2]>> ELSE w
        ELSE IF w[2] \notin Scalars(d) THEN <<"text", "">>
        ELSE IF d[w[2]][1] = "int" THEN <<"float", d[w[2]][2]>>
        ELSE value[d[w[2]]]
  IN  value[v]

(* Keys that refer to one another in a ring keep the resolver busy.        *)
RefersInRing(d) ==
  \E S \in SUBSET Scalars(d) :
    S # {} /\ \A k \in S : d[k][1] = "ref" /\ d[k][2] \in S

(* An empty object comes out as null: the key is there, its keys are not.  *)
ResolveParams(d, f) == [p \in DOMAIN f |-> ResolveScalar(d, f[p])]

ResolveModule(d, m) ==
  Overlay(m, [k \in DOMAIN m \cap {"params", "inline"} |-> ResolveParams(d, m[k])])

ResolveAll(d) ==
  Overlay(d, [k \in DOMAIN d \cap ({"modules"} \cup Scalars(d)) |->
                IF k = "modules"
                THEN [n \in DOMAIN d.modules |-> ResolveModule(d, d.modules[n])]
                ELSE ResolveScalar(d, d[k])])

Resolve ==
  /\ stage \in {"inherited", "include"} /\ ~Has(doc, "include")
  /\ ~RefersInRing(doc)
  /\ doc' = ResolveAll(doc)
  /\ stage' = "check"
  /\ UNCHANGED chain

-----------------------------------------------------------------------------
(* validateConfig.  The names of modules are texts that do not read as     *)
(* numbers; routers and network interfaces need integers.                  *)
Demanded(type) ==
  CASE type = "RouterTLM" -> {"node_x", "node_y", "mesh_x", "mesh_y"}
    [] type = "NICTLM" -> {"node_id"}
    [] OTHER -> {}

(* Where the parameters of a module are looked for.                        *)
ParamsOf(m) ==
  IF Has(m, "params") THEN m.params ELSE IF Has(m, "inline") THEN m.inline ELSE << >>

ValidModule(n, m) ==
  /\ n[1] = "text"
  /\ \A p \in Demanded(m.type) : Has(ParamsOf(m), p) /\ ParamsOf(m)[p][1] = "int"

Valid(d) ==
  /\ Has(d, "modules") /\ Has(d, "connections")
  /\ \A n \in DOMAIN d.modules : ValidModule(n, d.modules[n])

(* parse_hierarchy_node_internal: no name twice on a path from the root.   *)
HierarchySound(d) ==
  Has(d, "hierarchy") =>
    \A path \in d.hierarchy : \A i, j \in DOMAIN path : path[i] = path[j] => i = j

(* The registered rules of RouterTLM; those it gives a default for are     *)
(* filled in, for modules that have a params object.                       *)
RouterDefaults ==
  [flit_width |-> <<"int", 64>>, vc_count |-> <<"int", 2>>, buffer_size |-> <<"int", 16>>]

Defaulted(m) ==
  IF m.type = "RouterTLM" /\ Has(m, "params")
  THEN [m EXCEPT !.params = Overlay(RouterDefaults, @)]
  ELSE m

DefaultedDoc(d) == [d EXCEPT !.modules = [n \in DOMAIN @ |-> Defaulted(@[n])]]

-----------------------------------------------------------------------------
(* Ports: the roles and bundles of a module's ports, those it gives itself *)
(* or its type's.  Types without a default are not checked.                *)
RoleAllowed ==
  [initiator |-> {"target", "bi"}, target |-> {}, bi |-> {"initiator", "target", "bi", "network"},
   network |-> {"bi", "network", "pe"}, pe |-> {"network"}]

BundlesFit(a, b) == a = b \/ "generic" \in {a, b}

DefaultPorts(type) ==
  LET all(n, role, bundle) == [i \in 1..n |-> <<role, bundle>>]
  IN  CASE type = "RouterTLM" -> all(5, "bi", "flit")
        [] type = "NICTLM" -> <<<<"bi", "req">>, <<"bi", "flit">>>>
        [] type = "CacheTLM" -> <<<<"initiator", "req">>, <<"target", "req">>>>
        [] type = "CrossbarTLM" -> all(4, "bi", "req")
        [] type = "MemoryTLM" -> <<<<"target", "generic">>>>
        [] OTHER -> << >>

PortsOf(d, n) ==
  IF n \notin DOMAIN d.modules THEN << >>
  ELSE IF Has(d.modules[n], "ports") THEN d.modules[n].ports
  ELSE DefaultPorts(d.modules[n].type)

(* check_port_compatibility: an index beyond the ports is let pass.        *)
Compatible(d, c) ==
  LET s == PortsOf(d, c.src[1])
      t == PortsOf(d, c.dst[1])
      i == c.src[2] + 1
      j == c.dst[2] + 1
  IN  i \in DOMAIN s /\ j \in DOMAIN t =>
        t[j][1] \in RoleAllowed[s[i][1]] /\ BundlesFit(s[i][2], t[j][2])

Connectable(d) == \A k \in DOMAIN d.connections : Compatible(d, d.connections[k])

(* In the code's order; the connections are checked when everything has    *)
(* been built.                                                             *)
Check ==
  /\ stage = "check"
  /\ IF Valid(doc) /\ HierarchySound(doc)
     THEN /\ doc' = DefaultedDoc(doc)
          /\ stage' = IF Connectable(doc') THEN "accepted" ELSE "refused"
     ELSE Refuse /\ UNCHANGED doc
  /\ UNCHANGED chain

ConfigNext == Follow \/ Base \/ Merge \/ Merged \/ Include \/ Resolve \/ Check

ConfigSpec == ConfigInit /\ [][ConfigNext]_configVars

-----------------------------------------------------------------------------
(* A document, the files it extends and those they extend, as they were.   *)
Lineage(d) ==
  LET l[n \in 0..MaxDepth, e \in {d} \cup {Files[f] : f \in DOMAIN Files}] ==
        IF n = 0 \/ ~Has(e, "extends") \/ e.extends \notin DOMAIN Files THEN <<e>>
        ELSE <<e>> \o l[n - 1, Files[e.extends]]
  IN  l[MaxDepth, d]

Givers(docs, n) ==
  {k \in DOMAIN docs : Has(docs[k], "modules") /\ n \in DOMAIN docs[k].modules}

(* What is inherited: every module of the line is there, with the value of *)
(* a parameter that the nearest heir gives it, and all connections, those  *)
(* of the oldest ancestor first.                                           *)
InheritedInFull ==
  stage = "inherited" =>
    LET line == Lineage(chain[1])
        given(n, p) == {k \in Givers(line, n) : Has(line[k].modules[n], "params")
                                                 /\ p \in DOMAIN line[k].modules[n].params}
    IN  /\ \A k \in DOMAIN line : Has(line[k], "modules") =>
             \A n \in DOMAIN line[k].modules :
               /\ Has(doc, "modules") /\ n \in DOMAIN doc.modules
               /\ Has(line[k].modules[n], "params") =>
                    \A p \in DOMAIN line[k].modules[n].params :
                      LET first == CHOOSE i \in given(n, p) : \A j \in given(n, p) : i <= j
                      IN  doc.modules[n].params[p] = line[first].modules[n].params[p]
        /\ Has(doc, "connections") =>
             doc.connections = FlattenSeq([k \in DOMAIN line |->
               LET e == line[Len(line) + 1 - k]
               IN  IF Has(e, "connections") THEN e.connections ELSE << >>])

(* What is accepted can be built: a router knows its place as integers,    *)
(* with the width and buffers that it is given or their defaults, and no   *)
(* connection leaves a target.                                             *)
AcceptedIsBuildable ==
  stage = "accepted" =>
    /\ \A n \in DOMAIN doc.modules : doc.modules[n].type = "RouterTLM" =>
         LET ps == ParamsOf(doc.modules[n])
         IN  /\ \A p \in Demanded("RouterTLM") : p \in DOMAIN ps /\ ps[p][1] = "int"
             /\ Has(doc.modules[n], "params") => DOMAIN RouterDefaults \subseteq DOMAIN ps
    /\ \A k \in DOMAIN doc.connections :
         LET c == doc.connections[k]
             s == PortsOf(doc, c.src[1])
         IN  c.src[2] + 1 \in DOMAIN s /\ PortsOf(doc, c.dst[1]) # << >> =>
               s[c.src[2] + 1][1] # "target" \/ c.dst[2] + 1 \notin DOMAIN PortsOf(doc, c.dst[1])

InputSound == InheritedInFull /\ AcceptedIsBuildable
=============================================================================
