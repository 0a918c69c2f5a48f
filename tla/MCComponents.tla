---------------------------- MODULE MCComponents ----------------------------
(***************************************************************************)
(* Small instances of the components that are checked on their own, side   *)
(* by side in one run: the first state chooses a component, and its steps  *)
(* are the component's.  The variables are shared: each component uses as  *)
(* many as it has, in the order in which its module declares them.         *)
(***************************************************************************)
EXTENDS Integers, FiniteSets, Sequences, TLC

CONSTANTS
  NoBytes,   \* the payload of a register nobody wrote
  Absent     \* no value

(* One packet from the node itself, one that passes through, one short.    *)
Packets ==
  LET packet(port, dst, len, txn) ==
        [port |-> port, dst |-> dst, len |-> len, txn |-> txn]
  IN  [p1 |-> packet(4, 1, 2, 0), p2 |-> packet(0, 0, 2, 0), p3 |-> packet(0, 1, 2, 1)]

(* Requests of one and of three flits, two of one id, and an empty one.    *)
EdgeReqs ==
  {[txn |-> 1, len |-> 1], [txn |-> 1, len |-> 3], [txn |-> 2, len |-> 2], [txn |-> 2, len |-> 0]}

(* Reads of two requesters and one beyond the memory.                      *)
PathKinds == {<<0, "read">>, <<1, "read">>, <<0, "beyond">>}

Levels == ("n1" :> 0) @@ ("n2" :> 2)

(* Configurations as files and documents: a base, an heir, rings, includes *)
(* and what the checks refuse.                                             *)
Num(n) == <<"int", n>>
Text(s) == <<"text", s>>
Place(x) == [node_x |-> x, node_y |-> Num(0), mesh_x |-> Num(2), mesh_y |-> Num(1)]
Routed(x) == [type |-> "RouterTLM", params |-> Place(x)]
Wire(s, i, d, j) == [src |-> <<Text(s), i>>, dst |-> <<Text(d), j>>]
Nic(form) == [type |-> "NICTLM"] @@ form

ConfigFiles ==
  [base |-> [modules |-> (Text("r0") :> Routed(Num(0))) @@ (Text("r1") :> Routed(Num(1)))
                           @@ (Text("n") :> Nic([inline |-> [node_id |-> Num(3)]])),
             connections |-> <<Wire("r0", 1, "r1", 3)>>, depth |-> Num(4), cep |-> <<"table">>],
   mid |-> [extends |-> "base",
            modules |-> Text("r1") :> [type |-> "CacheTLM",
                          params |-> [vc_count |-> Num(1), node_x |-> <<"ref", "depth">>]],
            connections |-> <<Wire("n", 1, "r0", 4)>>, depth |-> Num(7)],
   empty |-> << >>,
   self |-> [extends |-> "self"],
   more |-> [connections |-> << >>, include |-> Text("tree"), x |-> <<"digits", 1>>],
   tree |-> [depth |-> Num(9), hierarchy |-> {<<"a">>, <<"a", "b">>, <<"a", "b", "a">>},
             connections |-> <<Wire("r0", 0, "r1", 0)>>]]

ConfigDocs ==
  LET heirs == {Text("r1") :> [type |-> "RouterTLM", params |-> [node_x |-> Num(5)]],
                Text("n") :> Nic([params |-> [node_id |-> <<"digits", 2>>]]),
                <<"digits", 8>> :> [type |-> "Other"],
                Text("r0") :> [type |-> "RouterTLM"]}
      rests == {[groups |-> "g" :> <<"a">>],
                [connections |-> <<Wire("r1", 0, "n", 0)>>, cep |-> <<"table">>],
                [include |-> Text("more")],
                [include |-> Text("nofile"), depth |-> <<"ref", "x">>],
                [depth |-> <<"ref", "x">>, x |-> <<"ref", "depth">>],
                [depth |-> <<"ref", "x">>, x |-> <<"digits", 3>>]}
      wired(i, ports) ==
        [modules |-> (Text("l1") :> [type |-> "CacheTLM"]) @@ (Text("m") :> [type |-> "MemoryTLM"])
                       @@ (Text("o") :> [type |-> "Other"])
                       @@ (Text("q") :> [type |-> "Other", ports |-> ports]),
         connections |-> <<Wire("l1", i, "m", 0), Wire("o", 0, "l1", 0), Wire("q", 0, "m", 0)>>]
      treed(h) == [modules |-> Text("n") :> Nic([inline |-> [node_id |-> Num(3)]]),
                   connections |-> << >>, hierarchy |-> h]
  IN  {[extends |-> e, modules |-> ms] @@ x :
         e \in {"base", "mid", "empty", "self", "nofile"}, ms \in heirs, x \in rests}
      \cup {wired(i, p) : i \in {0, 1, 2}, p \in {<<<<r, b>>>> : r \in {"network", "bi", "pe"},
                                                                 b \in {"generic", "flit"}}}
      \cup {treed(h) : h \in {{<<"a">>}, {<<"a">>, <<"a", "b">>, <<"a", "b", "a">>}}}
      \cup {<< >>, [connections |-> << >>], [modules |-> << >>]}

(* Assemblies: streams, groups, composites, bridges and what fails.        *)
End(w, p) == [who |-> w, port |-> p]
Conn(s, d) == [src |-> s, dst |-> d, compatible |-> TRUE]
Made(n, t) == [name |-> n, type |-> t]
Config(v, ms, cs, gs, bs) ==
  [vetted |-> v, modules |-> ms, connections |-> cs, groups |-> gs, bridges |-> bs]
Bridge(id, ms) == [registered |-> TRUE, fits |-> TRUE, auto |-> id = 0, id |-> id, modules |-> ms]

AsmConfigs ==
  LET streams == <<Made("x", "CrossbarTLM"), Made("l1", "CacheTLM"), Made("l2", "CacheTLM")>>
      engines == <<Made("e", "Engine"), Made("l1", "CacheTLM")>>
      whole(n) == End(n, "none")
  IN  {Config(FALSE, << >>, << >>, << >>, << >>),
       Config(TRUE, streams,
         <<Conn(End("l1", "req_out"), End("x", "1")), Conn(End("l2", "0"), End("x", "0")),
           Conn(End("l1", "req_out"), End("x", "1"))>>, << >>, << >>),
       Config(TRUE, streams,
         <<Conn(whole("g"), whole("x")), Conn(whole("l1"), whole("x")), Conn(whole("l2"), End("x", "7"))>>,
         [g \in {"g"} |-> {"l1", "l2"}], << >>),
       Config(TRUE, <<Made("c", "Cluster")>> \o engines \o <<Made("o", "Old"), Made("p", "Old")>>,
         <<Conn(whole("g"), whole("e")), Conn(whole("o"), whole("p")), Conn(End("o", "a"), End("e", "0"))>>,
         [g \in {"g"} |-> {"l1", "zz"}], <<Bridge(0, <<"e">>), Bridge(2, <<"e">>)>>),
       Config(TRUE, engines, <<[Conn(End("e", "0"), End("l1", "0")) EXCEPT !.compatible = FALSE]>>,
         << >>, <<Bridge(0, <<"e">>)>>),
       Config(TRUE, engines, << >>, << >>,
         <<Bridge(0, <<"e", "l1">>), Bridge(1, <<"e">>), Bridge(9, <<"e">>),
           [Bridge(0, << >>) EXCEPT !.fits = FALSE]>>),
       Config(TRUE, <<Made("l1", "CacheTLM"), Made("e", "Part"), Made("u", "What")>>, << >>,
         [g \in {"g"} |-> {"e"}], << >>),
       Config(TRUE, <<Made("n", "NICTLM"), Made("r", "RouterTLM"), Made("u", "What")>>,
         <<Conn(End("n", "0"), End("r", "4")), Conn(End("n", "1"), End("r", "4"))>>, << >>, << >>)}

AsmClass ==
  [Cluster |-> "composite", Part |-> "inner", What |-> "unknown", Old |-> "legacy"]
    @@ [t \in {"CrossbarTLM", "CacheTLM", "Engine", "NICTLM", "RouterTLM"} |-> "stream"]

AsmPorts ==
  [CrossbarTLM |-> 4, NICTLM |-> 2, RouterTLM |-> 5]
    @@ [t \in {"CacheTLM", "Engine", "Cluster", "Part", "What", "Old"} |-> 1]

AsmDigits == ("0" :> 0) @@ ("1" :> 1) @@ ("4" :> 4) @@ ("7" :> 7)

(* Declarations of channels: graphs over three channels, orderings of the  *)
(* points, and sources that are no declaration.                            *)
GateInst(b, o) ==
  [binding |-> [n \in {"req"} |-> b], answers |-> [n \in {"req"} |-> b \cap {0}], ordering |-> o,
   completeness |-> "FULL", broadcast_fallback |-> FALSE, exposes_unique_perm |-> FALSE,
   hierarchical |-> FALSE]
GateDecl(kind, edges, is) ==
  [kind |-> kind, legible |-> TRUE, badEntry |-> FALSE, edges |-> [n \in {"req"} |-> edges],
   instances |-> is]

GateSources ==
  LET p2p == [n \in {"req"} |-> [v \in {0} |-> "p2p_ordered"]]
      graphs == {GateDecl("file", edges, {GateInst(b, p2p), GateInst({0, 1}, p2p)}) :
                   edges \in SUBSET ({0, 1, 2} \X {0, 1, 2}), b \in {{0, 1, 2}, {0, 2}, {0, 5}}}
      ordered == {GateDecl("file", {<<-1, 0>>},
                    {[GateInst({-1, 0}, o) EXCEPT !.completeness = c, !.broadcast_fallback = x,
                        !.exposes_unique_perm = y, !.hierarchical = z]}) :
                    o \in {p2p, << >>, [p2p EXCEPT !["req"] = [v \in {0} |-> "none"]],
                           [p2p EXCEPT !["req"] = << >>]},
                    c \in {"FULL", "PARTIAL"}, x, y, z \in BOOLEAN}
      odd == {[GateDecl(k, {}, is) EXCEPT !.legible = l, !.badEntry = b] :
                k \in {"none", "default", "file", "object", "array", "notObject", "otherType"},
                is \in {{}, {GateInst({0}, p2p)}}, l, b \in BOOLEAN}
  IN  graphs \cup ordered \cup odd

(* Two whole packets and two fragments of a group, one on a channel of its *)
(* own.                                                                    *)
KernelPkts == {"p", "q", "f", "g"}
KernelChannel == [k \in KernelPkts |-> IF k = "g" THEN 1 ELSE 0]
KernelGroup == [p |-> <<1, 0, 1>>, q |-> <<2, 0, 1>>, f |-> <<3, 0, 2>>, g |-> <<3, 0, 2>>]

(* Instructions of every pipe, two that are refused.                       *)
GpuProgram ==
  LET op(pipe, ok, dst) == [pipe |-> pipe, ok |-> ok, dst |-> dst]
  IN  <<op("global", TRUE, "r1"), op("scalar", TRUE, "r1"), op("global", TRUE, "r2"),
        op("scalar", FALSE, "r1"), op("lds", TRUE, "r1"), op("simt", TRUE, "r2"),
        op("global", TRUE, "r1"), op("global", FALSE, "r1"), op("vector", TRUE, "r2"),
        op("matrix", TRUE, "r1")>>

(* No capability declared, and three of which one is refused.              *)
MvpSetups ==
  LET cap(i, o, n, c) == [id |-> i, off |-> o, next |-> n, control |-> c]
  IN  {[caps |-> << >>, vectors |-> 4, mode |-> "plain"],
       [caps |-> <<cap(1, 80, 64, 0), cap(17, 96, 0, 7), cap(5, 96, 0, 0), cap(5, 3, 0, 0)>>,
        vectors |-> 40, mode |-> "link"]}

(* An endpoint's params: the link's group left out, off, or on in some or   *)
(* no mode, alone and with the other groups.                               *)
EpDoc(l, m, a) ==
  [axi |-> a, link |-> l, mode |-> m, settings |-> "default", pm |-> 0, hot |-> "absent",
   ari |-> "absent", vfVecs |-> 0, size |-> 0, pfVecs |-> 0, regs |-> {}, sizes |-> FALSE,
   unknown |-> {}]

EpPairs ==
  {EpDoc("on", "Bypass", "plain"),
   [EpDoc("off", "absent", "plain") EXCEPT !.size = 256, !.sizes = TRUE, !.pm = 3]}

EpDocs ==
  LET full == [EpDoc("on", "Partial", "inject") EXCEPT
                 !.ari = "on", !.regs = {"r0"}, !.hot = "hot", !.vfVecs = 4, !.settings = "given"]
  IN  {EpDoc("absent", "absent", "plain"), EpDoc("off", "absent", "absent"),
       EpDoc("on", "absent", "absent"), EpDoc("on", "Bypass", "plain"), full,
       [full EXCEPT !.mode = "other", !.size = 100, !.unknown = {"params", "sr_iov"},
                    !.sizes = TRUE, !.pm = 3],
       [EpDoc("absent", "absent", "absent") EXCEPT
          !.size = 256, !.ari = "off", !.unknown = {"phy_digital"}, !.pfVecs = 8]}

MvpRegisters == [db |-> [access |-> "RW", effect |-> "doorbell"], ro |-> [access |-> "RO", effect |-> "none"]]

(* A board that has no VRAM but segments, one with VRAM, one with display. *)
Boards ==
  LET board(r, s, b, d) ==
        [modules |-> TRUE, routing |-> r, size |-> s, cap |-> 4, bar1 |-> b, display |-> d]
  IN  {board({}, 0, 0, 0), board({"storage", "memory", "gmmu"}, 3, 3, 2),
       board({"display", "storage", "memory"}, 3, 2, 2),
       [board({}, 5, 2, 2) EXCEPT !.modules = FALSE]}

(* Modules of every kind of adapter, with one connection, with one each    *)
(* way, and with the second ports.                                         *)
PortTypes == {"CacheTLM", "ArbiterTLM2", "RouterTLM", "MesifProtocolEngine", "NICTLM"}
PortWirings ==
  LET wire(s, i, d, j) == [src |-> s, sp |-> i, dst |-> d, dp |-> j]
  IN  {{wire("a", 0, "b", 0)}, {wire("a", 0, "b", 0), wire("b", 0, "a", 0)},
       {wire("a", 1, "b", 1), wire("b", 1, "a", 1), wire("b", 0, "a", 0)}}

(* Bundles of every kind, some too long for the buffer, and what other     *)
(* encoders send: digests, headers of four words, kinds without data.      *)
TlpBundles ==
  LET bundle(k, n, c, p) == [kind |-> k, length |-> n, req |-> 5, tag |-> 1, addr |-> 6, count |-> c, payload |-> p]
  IN  {bundle("MEM_READ", 0, 0, <<4>>), bundle("MEM_WRITE", 2, 0, <<7, 8, 9>>),
       bundle("MEM_WRITE", 0, 0, <<7>>), bundle("CPLD", 1, 3, <<9>>), bundle("CFG_READ", 1, 0, << >>)}
TlpForeign ==
  LET header(f, t, d, n) ==
        <<[fmt |-> f, type |-> t, td |-> d, len |-> n], [id |-> 3, tag |-> 2], [addr |-> 4]>>
      seal(w) == Append(w, [over |-> w])
  IN  {seal(header(0, 10, 0, 1)), seal(header(0, 4, 0, 1)), seal(header(4, 26, 0, 1))}
      \cup {seal(seal(Append(header(2, 5, 1, 1), [w |-> 7]))), seal(header(0, 0, 1, 1))}

(* Documents of the CEP contracts: the ones in order and each variation of *)
(* one of them.                                                            *)
PlaneDoc ==
  LET header == [readable |-> TRUE, includes |-> {"map"}, words |-> {"group"}]
      row(k) == [id |-> ("1" :> "p1" @@ "2" :> "p2" @@ "3" :> "p3" @@ "4" :> "p4" @@ "5" :> "p5"
                           @@ "6" :> "p6" @@ "7" :> "p7")[k], marked |-> TRUE,
                 says |-> IF k \in {"1", "3", "4", "6"} THEN {"measurable"} ELSE {"deferred"}]
  IN  [kind |-> "plane", legible |-> TRUE, fabric |-> TRUE, catchpoints |-> TRUE,
       regions |-> <<[whole |-> TRUE, lo |-> 0, hi |-> 1, mode |-> "normal"]>>,
       headers |-> <<header, header>>, forbidden |-> {"sharer_tracker"},
       adr |-> [i \in 1..11 |-> [section |-> IF i = 11 THEN 3 ELSE 2, numbered |-> TRUE,
                                 name |-> <<"f0", "f1", "f2", "f3", "f4", "f5", "f6", "f7", "f8", "f9", "fx">>[i]]],
       instances |-> {[net |-> [req |-> 0, rsp |-> 1]]}, vc_count |-> [net |-> 3, alt |-> 1],
       reserved |-> << >>, declared |-> TRUE, complete |-> TRUE, status |-> "unavailable",
       scope |-> << >>, own_binding |-> FALSE, binding |-> [i \in {"i1"} |-> ""],
       untested |-> {[ref |-> "U-1", claimed |-> FALSE]},
       coherence_side |-> {[readable |-> TRUE, group_words |-> FALSE]},
       updates |-> << <<row("1"), row("2"), row("3"), row("4"), row("5"), row("6"), row("7"),
                        [row("1") EXCEPT !.says = {}]>> >>, prose |-> << >>]

PlaneDocs ==
  LET region(lo, hi) == [whole |-> TRUE, lo |-> lo, hi |-> hi, mode |-> "normal"]
      regions == {<<region(0, 1), region(1, 2)>>, <<region(0, 0), region(2, 3)>>, <<region(3, 2)>>,
                  <<[region(0, 1) EXCEPT !.mode = "wb"]>>}
      maps == {[net |-> [req |-> 0, rsp |-> 1]], [net |-> [req |-> 0, rsp |-> 1, snp |-> 2]],
               [net |-> [req |-> 2]], [alt |-> [req |-> 0]], [net |-> << >>]}
      modes == {<<"unavailable", << >>>>, <<"shared_no_isolation", << >>>>, <<"other", << >>>>}
        \cup {<<"shared_no_isolation", <<[plane |-> p, network |-> n]>>>> :
                p \in {"FabricCollectivePlane", "LocalCollectivePlane", "x", ""}, n \in {"net", "alt", "zz", ""}}
      shared == {[PlaneDoc EXCEPT !.instances = is, !.status = m[1], !.scope = m[2],
                    !.reserved = r, !.own_binding = o, !.vc_count.net = c] :
                   is \in {s \in SUBSET maps : Cardinality(s) <= 2}, m \in modes, o \in BOOLEAN, c \in {2, 3},
                   r \in {<< >>, <<[network |-> "net", vc |-> 2]>>}}
      odd == {[PlaneDoc EXCEPT !.legible = l, !.fabric = f, !.regions = rs] :
                l, f \in BOOLEAN, rs \in regions}
        \cup {[PlaneDoc EXCEPT !.declared = d, !.complete = c, !.binding = b, !.reserved = r] :
                d, c \in BOOLEAN,
                b \in {<< >>, [i \in {"i1"} |-> "x"], [i \in {"i1"} |-> "LocalCollectivePlane"],
                       [i \in {"i1"} |-> "FabricCollectivePlane"]},
                r \in {<< >>, <<[network |-> "zz", vc |-> 0]>>, <<[network |-> "alt", vc |-> 1]>>,
                       <<[network |-> "alt", vc |-> 0]>>, <<[network |-> "net", vc |-> 4]>>}}
        \cup {[PlaneDoc EXCEPT !.headers[i].includes = {"sharer_tracker"}] : i \in {1, 2}}
        \cup {[PlaneDoc EXCEPT !.headers[i].words = {"f3"}] : i \in {1, 2}}
        \cup {[PlaneDoc EXCEPT !.headers[1].readable = FALSE], [PlaneDoc EXCEPT !.adr[3].numbered = FALSE],
              [PlaneDoc EXCEPT !.coherence_side = {[readable |-> TRUE, group_words |-> TRUE]}],
              [PlaneDoc EXCEPT !.untested = {}], [PlaneDoc EXCEPT !.catchpoints = FALSE],
              [PlaneDoc EXCEPT !.updates = << >>],
              [PlaneDoc EXCEPT !.updates[1][3].says = {"deferred"}],
              [PlaneDoc EXCEPT !.updates[1][2].says = {"measurable"}],
              [PlaneDoc EXCEPT !.updates[1][6].says = {}]}
  IN  {PlaneDoc} \cup shared \cup odd

AssemblyDocs ==
  LET bridge(i, n, ms) == [instance |-> i, id |-> n, modules |-> ms]
      doc(s, bs, r, p) ==
        [kind |-> "assembly", section |-> s, bridges |-> bs, modules |-> {"m"}, required |-> r,
         families |-> [i1 |-> "chi", i2 |-> "mesif", i3 |-> ""], known |-> {"chi", "mesif"}, binding |-> p]
      list == {<< >>} \cup {<<bridge(i, n, ms)>> : i \in {"i1", "i3", "zz"}, n \in {0, 1}, ms \in {{}, {"m"}, {"m", "q"}}}
        \cup {<<bridge(i, 1, {"m"}), bridge("i2", n, {"m"})>> : i \in {"i1", "zz"}, n \in {1, 2}}
  IN  {doc(TRUE, bs, r, p) : bs \in list, r \in {{}, {"i1"}},
         p \in {<< >>, [i1 |-> ""], [i1 |-> "FabricCollectivePlane"], [i1 |-> "x"]}}
      \cup {doc(FALSE, << >>, {}, << >>)}

AdapterDocs ==
  LET order == <<"NONE", "READ", "UNIQUE", "WRITEBACK">>
      row(c, k) == [class |-> c, category |-> k]
      default == <<row("request", 0), row("response", 1), row("snoop", 0), row("snoop_resp", 1),
                   row("atomic", 0), row("query", 0)>>
      base == [kind |-> "adapter", readable |-> TRUE, domain |-> order, upgradesLegible |-> TRUE,
               instancesLegible |-> TRUE, upgrades |-> {}, rows |-> << >>, identity |-> FALSE,
               perms |-> [a |-> {"NONE", "UNIQUE", "WRITEBACK"}, b |-> {"READ"}],
               projected |-> TRUE, clean |-> TRUE, dirty |-> 3, writeTo |-> 3, rankClean |-> 3, rankDirty |-> 4]
      up(i, f, t) == [id |-> i, from |-> f, to |-> t]
  IN  {[base EXCEPT !.upgrades = us, !.rows = rs, !.identity = i, !.upgradesLegible = l] :
         us \in {{}, {up("a", "UNIQUE", "WRITEBACK")}, {up("a", "UNIQUE", "NONE")}, {up("b", "READ", "UNIQUE")},
                 {up("c", "READ", "UNIQUE")}, {up("a", "UNIQUE", "UNIQUE"), up("b", "READ", "READ")},
                 {up("a", "ATOMIC", "UNIQUE")}},
         rs \in {<< >>, default, <<row("snoop", 2), row("query", 0)>>, <<row("snoop", 1), row("snoop", 0)>>,
                 <<row("snoop", 3)>>}, i, l \in BOOLEAN}
      \cup {[base EXCEPT !.upgrades = {up("a", "UNIQUE", "WRITEBACK")}, !.rows = default, !.identity = TRUE,
               !.clean = c, !.writeTo = w, !.rankDirty = r, !.projected = p, !.instancesLegible = p] :
              c, p \in BOOLEAN, w \in {2, 3}, r \in {0, 3, 4}}
      \cup {[base EXCEPT !.domain = Tail(order)], [base EXCEPT !.readable = FALSE]}

ContractDocs == PlaneDocs \cup AssemblyDocs \cup AdapterDocs

(* Flits nobody of the SOC sends: no category, no node, a credit; and      *)
(* requests of several beats.                                              *)
FabricFlits ==
  {[src |-> 0, dst |-> to[1], cat |-> to[2], txn |-> 9, write |-> FALSE, addr |-> 0, size |-> 0,
    count |-> 1, ok |-> FALSE] : to \in {<<1, 2>>, <<2, 5>>, <<3, 2>>, <<4, 5>>}}
FabricSplits ==
  {[src |-> 1, dst |-> 3, cat |-> 0, txn |-> 1, write |-> TRUE, addr |-> 64, size |-> 96, count |-> n,
    ok |-> FALSE] : n \in {1, 3, 9}}

VARIABLES
  unit,   \* the component this behaviour is about
  v1, v2, v3, v4, v5, v6, v7, v8, v9, v10, v11, v12, v13, v14, v15, v16, v17, v18, v19, v20, v21, v22, v23   \* its variables, in the order of its module

vars == <<unit, v1, v2, v3, v4, v5, v6, v7, v8, v9, v10, v11, v12, v13, v14, v15, v16, v17, v18, v19, v20, v21, v22, v23>>

Inject == INSTANCE BoardInject WITH
  Host <- {"host"}, Pump <- {"pump"}, Sim <- "sim", Reg <- {"r1", "r2"},
  Length <- {4, 8}, Bytes <- {"bytes"}, SelfDrain <- TRUE, MaxCalls <- 3,
  MaxStarts <- 1, Zero <- NoBytes, None <- Absent, inject_q <- v1,
  mmio_regs <- v2, pending_resp <- v3, pending_data <- v4,
  next_trans_id <- v5, shared <- v6, drained <- v7, rc <- v8, call <- v9,
  pc <- v10, stop <- v11, last_exception <- v12, calls <- v13, starts <- v14,
  abandoned <- v15

Credit == INSTANCE LinkLayer WITH
  FcType <- {"Posted"}, FcCapacity <- 2, DefaultCredit <- 1, SeqWrap <- 2,
  Vf <- {0, 1}, FcInit <- [t \in {"Posted"} |-> 1], Encoded <- FALSE,
  MaxTlp <- 2, MaxRx <- 2, MaxFaults <- 1, MaxNaks <- 0, MaxModes <- 1,
  MaxWire <- 2, MaxBill <- 0, fc <- v1, next_tx_seq <- v2,
  last_acked_seq <- v3, retry_buf <- v4, tx_tlp_out <- v5, billed <- v6,
  next_rx_seq <- v7, tx_dllp_out <- v8, tlp_loss <- v9,
  drop_next_dllp <- v10, switching <- v11, expect <- v12, got <- v13,
  nak_sent <- v14, dllp_in <- v15, sent <- v16, taken <- v17, faults <- v18,
  naks <- v19, modes <- v20, base <- v21, granted <- v22, used <- v23

Msix == INSTANCE MsixTable WITH
  MaxVec <- 3, MaxQueue <- 3, nvec <- v1, masked <- v2, pba <- v3,
  irq_out <- v4, delivered <- v5, owed <- v6, bypassed <- v7

Snoop == INSTANCE SharerTracker WITH
  Addrs <- {"a1", "a2", "a3"}, Nodes <- {"n1", "n2"}, Unmapped <- {"gone"},
  MaxHandle <- 2, Level <- Levels, Region <- {}, inflight <- v1,
  byAddr <- v2, next_handle <- v3, folded <- v4, impl <- v5, own <- v6,
  holds <- v7

Merge == INSTANCE SharerTracker WITH
  Addrs <- {"a1"}, Nodes <- {"n1", "n2", "n3"}, Unmapped <- {"gone"},
  MaxHandle <- 1, Level <- Levels, Region <- {}, inflight <- v1,
  byAddr <- v2, next_handle <- v3, folded <- v4, impl <- v5, own <- v6,
  holds <- v7

Trk == INSTANCE SharerTracker WITH
  Addrs <- {"a1", "a2"}, Nodes <- {"n1", "n2"}, Unmapped <- {"gone"},
  MaxHandle <- 1, Level <- Levels, Region <- {"a1"}, inflight <- v1,
  byAddr <- v2, next_handle <- v3, folded <- v4, impl <- v5, own <- v6,
  holds <- v7

Mesif == INSTANCE MesifEngine WITH
  Addrs <- {"a1"}, Nodes <- {"n1", "n2"}, Unmapped <- {"gone"},
  MaxHandle <- 1, Level <- Levels, Region <- {"a1"}, Txns <- {"t1"},
  inflight <- v1, byAddr <- v2, next_handle <- v3, folded <- v4, impl <- v5,
  own <- v6, holds <- v7, line <- v8, txn_addr <- v9, egress <- v10,
  next_port <- v11, atHome <- v12

Chi == INSTANCE ChiRnfEngine WITH
  ChiAddrs <- {"a1"}, ChiTxns <- {"t1", "t2"}, InitialCredit <- 1,
  MaxPending <- 2, credits <- v1, in_flight <- v2, ack_pending <- v3,
  lines <- v4, txn_line <- v5, pending <- v6, slots <- v7, toReturn <- v8,
  snooped <- v9, acks <- v10

Stub == INSTANCE StubCache WITH
  StubAddrs <- {"a1", "a2"}, StubValues <- {1, 2}, MaxMshr <- 1,
  SnoopLatency <- 1, MaxTxnId <- 2, MaxResps <- 2, cache <- v1, mshr <- v2,
  resps <- v3, next_txn_id <- v4, written <- v5

Tables == INSTANCE CoherenceTables WITH
  Caches <- {"c1", "c2", "c3"}, family <- v1, copy <- v2

Cep == INSTANCE CepEngines WITH
  EngineTxns <- {"t1", "t2"}, MaxBundles <- 3, engine <- v1, req_in <- v2,
  handled <- v3, tally <- v4, outstanding <- v5, moesi <- v6, records <- v7,
  tracker <- v8, received <- v9, leftO <- v10

Plane == INSTANCE CollectivePlane WITH
  Members <- {1, 2}, Tags <- {1}, Payloads <- {1}, Ranges <- {{1, 2}, {2}},
  MaxGid <- 2, MaxOpen <- 1, MaxEvents <- 5, plane <- v1, groups <- v2,
  regions <- v3, rounds <- v4, barriers <- v5, events <- v6, next_gid <- v7,
  current <- v8

Router == INSTANCE NocRouter WITH
  MeshX <- 2, Node <- 0, Vcs <- 2, Depth <- 1, Packets <- Packets,
  Timeout <- TRUE, r <- v1, sent <- v2, dropped <- v3, left <- v4

Memory == INSTANCE MemPath WITH
  PerGen <- 2, Kinds <- PathKinds, HitLat <- 1, MissLat <- 2, WriteLat <- 2,
  kind <- v1, path <- v2

Edge == INSTANCE StreamPorts WITH
  Reqs <- EdgeReqs, Latencies <- {0, 1, 3}, MaxReqs <- 2, Types <- PortTypes,
  Wirings <- PortWirings, MaxMsgs <- 0, queue <- v1, latency <- v2,
  delay <- v3, pending <- v4, answers <- v5, sent <- v6, arrived <- v7,
  changed <- v8, type <- v9, wires <- v10, out <- v11, inp <- v12,
  credits <- v13, usage <- v14, made <- v15, fate <- v16

Phy == INSTANCE PhyCtrl WITH
  IdleL0s <- 1, IdleL1 <- 2, ExitL0s <- 1, ExitL1 <- 2, SwitchDelay <- 1,
  phy <- v1, link <- v2, forced <- v3, quiet <- v4

Req == INSTANCE VfPool WITH
  MaxTag <- 3, TagMod <- 2, TimeoutNs <- 2, MaxReads <- 4, Fns <- {0},
  Vecs <- {}, Ids <- {}, Capacity <- 0, MaxDelivery <- 0, MaxReg <- 0,
  outstanding <- v1, last_tag <- v2, reads <- v3, wire <- v4, back <- v5,
  done <- v6, errors <- v7, fns <- v8, ari <- v9, queue <- v10, mwr <- v11,
  tally <- v12

Pool == INSTANCE VfPool WITH
  MaxTag <- 1, TagMod <- 1, TimeoutNs <- 1, MaxReads <- 0, Fns <- {0, 1},
  Vecs <- {0}, Ids <- {7}, Capacity <- 1, MaxDelivery <- 2, MaxReg <- 2,
  fns <- v1, ari <- v2, queue <- v3, mwr <- v4, tally <- v5,
  outstanding <- v6, last_tag <- v7, reads <- v8, wire <- v9, back <- v10,
  done <- v11, errors <- v12

Ep == INSTANCE EndpointIp WITH
  Offsets <- {256, 258}, Values <- {7}, CfgWrites <- {<<68, 3>>, <<96, 1>>},
  Sizes <- {8192}, SizeMod <- 8192, Docs <- EpPairs, MaxWrites <- 3,
  cfg <- v1, ccfg <- v2, seen <- v3, caps <- v4, power <- v5,
  aspm_level <- v6, store <- v7, cstore <- v8, rung <- v9, rebar <- v10,
  ip <- v11, apart <- v12, writes <- v13

Comp == INSTANCE EndpointIp WITH
  Offsets <- {256, 268500992}, Values <- {7},
  CfgWrites <- {<<64, 3>>, <<96, 2>>, <<256, 3>>, <<328, 3>>},
  Sizes <- {4096}, SizeMod <- 8192, Docs <- EpDocs, MaxWrites <- 1,
  cfg <- v1, ccfg <- v2, seen <- v3, caps <- v4, power <- v5,
  aspm_level <- v6, store <- v7, cstore <- v8, rung <- v9, rebar <- v10,
  ip <- v11, apart <- v12, writes <- v13

Axi == INSTANCE HostAxi WITH
  IdRing <- 2, MaxTries <- 3, Beats <- {2}, MaxBursts <- 1, MaxIds <- 2,
  host <- v1, ready <- v2, attached <- v3, ep <- v4, tries <- v5, reqs <- v6,
  awaited <- v7, answered <- v8, dropped <- v9, burst <- v10, beats <- v11

Abi == INSTANCE EmulatorAbi WITH
  Callers <- {1, 2}, MaxEmus <- 3, at <- v1, emus <- v2, registry_ <- v3,
  next_dev_id_ <- v4, handle_map_ <- v5, next_handle_ <- v6

Cfg == INSTANCE ConfigInput WITH
  Sizes <- {}, Counts <- {}, Trees <- {}, Crossings <- {},
  Docs <- ConfigDocs, Files <- ConfigFiles, MaxDepth <- 3, stage <- v1,
  chain <- v2, doc <- v3, g <- v4, out <- v5

Asm == INSTANCE FactoryAssembly WITH
  Factories <- {"top", "in"}, Top <- "top", Configs <- AsmConfigs,
  Class <- AsmClass, PortCount <- AsmPorts, Nested <- [m \in {"c"} |-> "in"],
  Accepts <- {"Engine"}, MaxId <- 3, Digits <- AsmDigits, cfg <- v1,
  stage <- v2, pos <- v3, objs <- v4, registry <- v5, groups <- v6,
  bound <- v7, pairs <- v8, mounted <- v9, refused <- v10

Gates == INSTANCE CepGates WITH
  Subjects <- {}, Vcs <- 0, Sources <- GateSources, MaxVc <- 3, source <- v1,
  phase <- v2, todo <- v3, inst <- v4, color <- v5, frames <- v6,
  cycle <- v7, failed <- v8, verdict <- v9, subject <- v10, report <- v11

Contracts == INSTANCE CepGates WITH
  Subjects <- ContractDocs, Vcs <- 4, Sources <- {}, MaxVc <- 0,
  subject <- v1, report <- v2, source <- v3, phase <- v4, todo <- v5,
  inst <- v6, color <- v7, frames <- v8, cycle <- v9, failed <- v10,
  verdict <- v11

Topology == INSTANCE ConfigInput WITH
  Sizes <- {<<1, 1>>, <<1, 3>>, <<2, 2>>, <<3, 2>>}, Counts <- 0..4,
  Trees <- {<<0, 2>>, <<1, 2>>, <<2, 0>>, <<2, 2>>},
  Crossings <- {<<0, 1>>, <<2, 1>>}, Docs <- {}, Files <- << >>,
  MaxDepth <- 0, g <- v1, out <- v2, stage <- v3, chain <- v4, doc <- v5

Kernel == INSTANCE SimKernel WITH
  Pkts <- KernelPkts, Channel <- KernelChannel, Group <- KernelGroup,
  OutCap <- 2, InCap <- 1, MaxCycle <- 6, cycle <- v1, end <- v2, due <- v3,
  place <- v4, earlier <- v5, out <- v6, inp <- v7, usage <- v8

Front == INSTANCE GpuFront WITH
  Opcodes <- {64, 1}, MaxTasks <- 2, Fifo <- 2, Slots <- 2, RingSize <- 1,
  PushSize <- 2, Fences <- {9}, MaxId <- 3, state <- v1, nextId <- v2,
  backoffs <- v3, cached <- v4, inflight <- v5, pending <- v6, active <- v7,
  untold <- v8, ring <- v9, told <- v10

Core == INSTANCE GpuCore WITH
  Program <- GpuProgram, Regs <- {"r1", "r2"}, InstrRingSize <- 2,
  Latency <- 3, Warps <- 3, submitted <- v1, instrRing <- v2, warp <- v3,
  loads <- v4, regs <- v5, completed <- v6, mask <- v7, ends <- v8

Mvp == INSTANCE MvpEndpoint WITH
  Setups <- MvpSetups, Registers <- MvpRegisters, Values <- {1, 2},
  MinLatency <- 1, MaxLatency <- 3, MaxPending <- 2, MaxRequests <- 4,
  MaxCycle <- 4, setup <- v1, conf <- v2, asked <- v3, slot <- v4,
  cycle <- v5, bar <- v6, answers <- v7

Specs == INSTANCE StateSpecs WITH

  EditedEvents <- {"RdShared", "RdOwn", "ItoMWr", "DirtyEvict", "CleanEvict", "SnpInv"},
  family <- v1, spec <- v2, verdict <- v3

Stores == INSTANCE BoardStores WITH
  Boards <- Boards, Offsets <- {0, 2}, Bell <- 2, CrLimit <- 1,
  Protected <- 0, Status <- 2, StatusClear <- 3, MaxSocs <- 2,
  MaxWrites <- 2, board <- v1, soc <- v2, socs <- v3, ptrs <- v4,
  stale <- v5, vram <- v6, view <- v7, shown <- v8, gated <- v9,
  store <- v10, last <- v11, writes <- v12

Ports == INSTANCE StreamPorts WITH
  Reqs <- {}, Latencies <- {}, MaxReqs <- 0, Types <- PortTypes,
  Wirings <- PortWirings, MaxMsgs <- 2, type <- v1, wires <- v2, out <- v3,
  inp <- v4, credits <- v5, usage <- v6, made <- v7, fate <- v8, queue <- v9,
  latency <- v10, delay <- v11, pending <- v12, answers <- v13, sent <- v14,
  arrived <- v15, changed <- v16

Tlp == INSTANCE TlpCodec WITH
  Bundles <- TlpBundles, Foreign <- TlpForeign, MaxDw <- 6, CountMod <- 2,
  TagMod <- 4, sent <- v1, wire <- v2, intact <- v3, got <- v4,
  verdict <- v5

Txn == INSTANCE Trackers WITH
  Payloads <- {"p"}, MaxId <- 3, MaxLinks <- 2, ready <- v1, next <- v2,
  txns <- v3, context <- v4, late <- v5

Metric == INSTANCE Metrics WITH
  Samplers <- {1, 2}, Values <- {0, 5}, NumBuckets <- 2, MaxSamples <- 2,
  MaxSnaps <- 2, MaxStarts <- 2, dist <- v1, buckets <- v2, local <- v3,
  taken <- v4, total <- v5, torn <- v6, reporter <- v7, thread <- v8,
  pending <- v9, file <- v10, snaps <- v11, gone <- v12, flushed <- v13

Bus == INSTANCE SocFabric WITH
  MaxIpPorts <- 2, Names <- {"a", "b"}, Values <- {1, 2}, Ids <- {1},
  MaxCalls <- 3, Foreign <- FabricFlits, Asked <- {<<300, 1>>, <<4, 2>>},
  Splits <- FabricSplits, TagMod <- 4, IdMod <- 8, MaxFlits <- 1,
  MaxDim <- 3, hub <- v1, slots <- v2, futures <- v3, mmu <- v4,
  access <- v5, noc <- v6, ends <- v7, mesh <- v8

Noc == INSTANCE SocFabric WITH
  MaxIpPorts <- 2, Names <- {"a", "b"}, Values <- {1, 2}, Ids <- {1},
  MaxCalls <- 1, Foreign <- FabricFlits, Asked <- {<<300, 1>>, <<4, 2>>},
  Splits <- FabricSplits, TagMod <- 4, IdMod <- 8, MaxFlits <- 3,
  MaxDim <- 3, hub <- v1, slots <- v2, futures <- v3, mmu <- v4,
  access <- v5, noc <- v6, ends <- v7, mesh <- v8

Mesh == INSTANCE SocFabric WITH
  MaxIpPorts <- 2, Names <- {"a", "b"}, Values <- {1, 2}, Ids <- {1},
  MaxCalls <- 1, Foreign <- FabricFlits, Asked <- {<<300, 1>>, <<4, 2>>},
  Splits <- FabricSplits, TagMod <- 4, IdMod <- 8, MaxFlits <- 3,
  MaxDim <- 3, hub <- v1, slots <- v2, futures <- v3, mmu <- v4,
  access <- v5, noc <- v6, ends <- v7, mesh <- v8

-----------------------------------------------------------------------------
(* The variables from the k-th on are not used.                            *)
Init ==
  \/ unit = "inject" /\ Inject!Init
     /\ v16 = 0 /\ v17 = 0 /\ v18 = 0 /\ v19 = 0 /\ v20 = 0 /\ v21 = 0 /\ v22 = 0 /\ v23 = 0
  \/ unit = "credit" /\ Credit!Init
  \/ unit = "msix" /\ Msix!MsixInit
     /\ v8 = 0 /\ v9 = 0 /\ v10 = 0 /\ v11 = 0 /\ v12 = 0 /\ v13 = 0 /\ v14 = 0 /\ v15 = 0 /\ v16 = 0 /\ v17 = 0 /\ v18 = 0 /\ v19 = 0 /\ v20 = 0 /\ v21 = 0 /\ v22 = 0 /\ v23 = 0
  \/ unit = "snoop" /\ Snoop!MechInit
     /\ v5 = 0 /\ v6 = 0 /\ v7 = 0 /\ v8 = 0 /\ v9 = 0 /\ v10 = 0 /\ v11 = 0 /\ v12 = 0 /\ v13 = 0 /\ v14 = 0 /\ v15 = 0 /\ v16 = 0 /\ v17 = 0 /\ v18 = 0 /\ v19 = 0 /\ v20 = 0 /\ v21 = 0 /\ v22 = 0 /\ v23 = 0
  \/ unit = "merge" /\ Merge!MechInit
     /\ v5 = 0 /\ v6 = 0 /\ v7 = 0 /\ v8 = 0 /\ v9 = 0 /\ v10 = 0 /\ v11 = 0 /\ v12 = 0 /\ v13 = 0 /\ v14 = 0 /\ v15 = 0 /\ v16 = 0 /\ v17 = 0 /\ v18 = 0 /\ v19 = 0 /\ v20 = 0 /\ v21 = 0 /\ v22 = 0 /\ v23 = 0
  \/ unit = "tracker" /\ Trk!TrkInit
     /\ v8 = 0 /\ v9 = 0 /\ v10 = 0 /\ v11 = 0 /\ v12 = 0 /\ v13 = 0 /\ v14 = 0 /\ v15 = 0 /\ v16 = 0 /\ v17 = 0 /\ v18 = 0 /\ v19 = 0 /\ v20 = 0 /\ v21 = 0 /\ v22 = 0 /\ v23 = 0
  \/ unit = "mesif" /\ Mesif!MesifInit
     /\ v13 = 0 /\ v14 = 0 /\ v15 = 0 /\ v16 = 0 /\ v17 = 0 /\ v18 = 0 /\ v19 = 0 /\ v20 = 0 /\ v21 = 0 /\ v22 = 0 /\ v23 = 0
  \/ unit = "chi" /\ Chi!ChiInit
     /\ v11 = 0 /\ v12 = 0 /\ v13 = 0 /\ v14 = 0 /\ v15 = 0 /\ v16 = 0 /\ v17 = 0 /\ v18 = 0 /\ v19 = 0 /\ v20 = 0 /\ v21 = 0 /\ v22 = 0 /\ v23 = 0
  \/ unit = "stub" /\ Stub!StubInit
     /\ v6 = 0 /\ v7 = 0 /\ v8 = 0 /\ v9 = 0 /\ v10 = 0 /\ v11 = 0 /\ v12 = 0 /\ v13 = 0 /\ v14 = 0 /\ v15 = 0 /\ v16 = 0 /\ v17 = 0 /\ v18 = 0 /\ v19 = 0 /\ v20 = 0 /\ v21 = 0 /\ v22 = 0 /\ v23 = 0
  \/ unit = "tables" /\ Tables!TableInit
     /\ v3 = 0 /\ v4 = 0 /\ v5 = 0 /\ v6 = 0 /\ v7 = 0 /\ v8 = 0 /\ v9 = 0 /\ v10 = 0 /\ v11 = 0 /\ v12 = 0 /\ v13 = 0 /\ v14 = 0 /\ v15 = 0 /\ v16 = 0 /\ v17 = 0 /\ v18 = 0 /\ v19 = 0 /\ v20 = 0 /\ v21 = 0 /\ v22 = 0 /\ v23 = 0
  \/ unit = "cep" /\ Cep!CepInit
     /\ v11 = 0 /\ v12 = 0 /\ v13 = 0 /\ v14 = 0 /\ v15 = 0 /\ v16 = 0 /\ v17 = 0 /\ v18 = 0 /\ v19 = 0 /\ v20 = 0 /\ v21 = 0 /\ v22 = 0 /\ v23 = 0
  \/ unit = "plane" /\ Plane!PlaneInit
     /\ v9 = 0 /\ v10 = 0 /\ v11 = 0 /\ v12 = 0 /\ v13 = 0 /\ v14 = 0 /\ v15 = 0 /\ v16 = 0 /\ v17 = 0 /\ v18 = 0 /\ v19 = 0 /\ v20 = 0 /\ v21 = 0 /\ v22 = 0 /\ v23 = 0
  \/ unit = "router" /\ Router!RouterInit
     /\ v5 = 0 /\ v6 = 0 /\ v7 = 0 /\ v8 = 0 /\ v9 = 0 /\ v10 = 0 /\ v11 = 0 /\ v12 = 0 /\ v13 = 0 /\ v14 = 0 /\ v15 = 0 /\ v16 = 0 /\ v17 = 0 /\ v18 = 0 /\ v19 = 0 /\ v20 = 0 /\ v21 = 0 /\ v22 = 0 /\ v23 = 0
  \/ unit = "memory" /\ Memory!PathInit
     /\ v3 = 0 /\ v4 = 0 /\ v5 = 0 /\ v6 = 0 /\ v7 = 0 /\ v8 = 0 /\ v9 = 0 /\ v10 = 0 /\ v11 = 0 /\ v12 = 0 /\ v13 = 0 /\ v14 = 0 /\ v15 = 0 /\ v16 = 0 /\ v17 = 0 /\ v18 = 0 /\ v19 = 0 /\ v20 = 0 /\ v21 = 0 /\ v22 = 0 /\ v23 = 0
  \/ unit = "edge" /\ Edge!EdgeInit
     /\ v9 = 0 /\ v10 = 0 /\ v11 = 0 /\ v12 = 0 /\ v13 = 0 /\ v14 = 0 /\ v15 = 0 /\ v16 = 0 /\ v17 = 0 /\ v18 = 0 /\ v19 = 0 /\ v20 = 0 /\ v21 = 0 /\ v22 = 0 /\ v23 = 0
  \/ unit = "phy" /\ Phy!PhyInit
     /\ v5 = 0 /\ v6 = 0 /\ v7 = 0 /\ v8 = 0 /\ v9 = 0 /\ v10 = 0 /\ v11 = 0 /\ v12 = 0 /\ v13 = 0 /\ v14 = 0 /\ v15 = 0 /\ v16 = 0 /\ v17 = 0 /\ v18 = 0 /\ v19 = 0 /\ v20 = 0 /\ v21 = 0 /\ v22 = 0 /\ v23 = 0
  \/ unit = "requester" /\ Req!RequesterInit
     /\ v8 = 0 /\ v9 = 0 /\ v10 = 0 /\ v11 = 0 /\ v12 = 0 /\ v13 = 0 /\ v14 = 0 /\ v15 = 0 /\ v16 = 0 /\ v17 = 0 /\ v18 = 0 /\ v19 = 0 /\ v20 = 0 /\ v21 = 0 /\ v22 = 0 /\ v23 = 0
  \/ unit = "vfpool" /\ Pool!PoolInit
     /\ v6 = 0 /\ v7 = 0 /\ v8 = 0 /\ v9 = 0 /\ v10 = 0 /\ v11 = 0 /\ v12 = 0 /\ v13 = 0 /\ v14 = 0 /\ v15 = 0 /\ v16 = 0 /\ v17 = 0 /\ v18 = 0 /\ v19 = 0 /\ v20 = 0 /\ v21 = 0 /\ v22 = 0 /\ v23 = 0
  \/ unit = "endpoint" /\ Ep!EpInit
     /\ v14 = 0 /\ v15 = 0 /\ v16 = 0 /\ v17 = 0 /\ v18 = 0 /\ v19 = 0 /\ v20 = 0 /\ v21 = 0 /\ v22 = 0 /\ v23 = 0
  \/ unit = "composition" /\ Comp!EpInit
     /\ v14 = 0 /\ v15 = 0 /\ v16 = 0 /\ v17 = 0 /\ v18 = 0 /\ v19 = 0 /\ v20 = 0 /\ v21 = 0 /\ v22 = 0 /\ v23 = 0
  \/ unit = "hostaxi" /\ Axi!AxiInit
     /\ v12 = 0 /\ v13 = 0 /\ v14 = 0 /\ v15 = 0 /\ v16 = 0 /\ v17 = 0 /\ v18 = 0 /\ v19 = 0 /\ v20 = 0 /\ v21 = 0 /\ v22 = 0 /\ v23 = 0
  \/ unit = "abi" /\ Abi!AbiInit
     /\ v7 = 0 /\ v8 = 0 /\ v9 = 0 /\ v10 = 0 /\ v11 = 0 /\ v12 = 0 /\ v13 = 0 /\ v14 = 0 /\ v15 = 0 /\ v16 = 0 /\ v17 = 0 /\ v18 = 0 /\ v19 = 0 /\ v20 = 0 /\ v21 = 0 /\ v22 = 0 /\ v23 = 0
  \/ unit = "config" /\ Cfg!ConfigInit
     /\ v4 = 0 /\ v5 = 0 /\ v6 = 0 /\ v7 = 0 /\ v8 = 0 /\ v9 = 0 /\ v10 = 0 /\ v11 = 0 /\ v12 = 0 /\ v13 = 0 /\ v14 = 0 /\ v15 = 0 /\ v16 = 0 /\ v17 = 0 /\ v18 = 0 /\ v19 = 0 /\ v20 = 0 /\ v21 = 0 /\ v22 = 0 /\ v23 = 0
  \/ unit = "assembly" /\ Asm!AsmInit
     /\ v11 = 0 /\ v12 = 0 /\ v13 = 0 /\ v14 = 0 /\ v15 = 0 /\ v16 = 0 /\ v17 = 0 /\ v18 = 0 /\ v19 = 0 /\ v20 = 0 /\ v21 = 0 /\ v22 = 0 /\ v23 = 0
  \/ unit = "gates" /\ Gates!GateInit
     /\ v10 = 0 /\ v11 = 0 /\ v12 = 0 /\ v13 = 0 /\ v14 = 0 /\ v15 = 0 /\ v16 = 0 /\ v17 = 0 /\ v18 = 0 /\ v19 = 0 /\ v20 = 0 /\ v21 = 0 /\ v22 = 0 /\ v23 = 0
  \/ unit = "contracts" /\ Contracts!ContractInit
     /\ v3 = 0 /\ v4 = 0 /\ v5 = 0 /\ v6 = 0 /\ v7 = 0 /\ v8 = 0 /\ v9 = 0 /\ v10 = 0 /\ v11 = 0 /\ v12 = 0 /\ v13 = 0 /\ v14 = 0 /\ v15 = 0 /\ v16 = 0 /\ v17 = 0 /\ v18 = 0 /\ v19 = 0 /\ v20 = 0 /\ v21 = 0 /\ v22 = 0 /\ v23 = 0
  \/ unit = "topology" /\ Topology!TopologyInit
     /\ v3 = 0 /\ v4 = 0 /\ v5 = 0 /\ v6 = 0 /\ v7 = 0 /\ v8 = 0 /\ v9 = 0 /\ v10 = 0 /\ v11 = 0 /\ v12 = 0 /\ v13 = 0 /\ v14 = 0 /\ v15 = 0 /\ v16 = 0 /\ v17 = 0 /\ v18 = 0 /\ v19 = 0 /\ v20 = 0 /\ v21 = 0 /\ v22 = 0 /\ v23 = 0
  \/ unit = "kernel" /\ Kernel!KernelInit
     /\ v9 = 0 /\ v10 = 0 /\ v11 = 0 /\ v12 = 0 /\ v13 = 0 /\ v14 = 0 /\ v15 = 0 /\ v16 = 0 /\ v17 = 0 /\ v18 = 0 /\ v19 = 0 /\ v20 = 0 /\ v21 = 0 /\ v22 = 0 /\ v23 = 0
  \/ unit = "front" /\ Front!FrontInit
     /\ v11 = 0 /\ v12 = 0 /\ v13 = 0 /\ v14 = 0 /\ v15 = 0 /\ v16 = 0 /\ v17 = 0 /\ v18 = 0 /\ v19 = 0 /\ v20 = 0 /\ v21 = 0 /\ v22 = 0 /\ v23 = 0
  \/ unit = "core" /\ Core!CoreInit
     /\ v9 = 0 /\ v10 = 0 /\ v11 = 0 /\ v12 = 0 /\ v13 = 0 /\ v14 = 0 /\ v15 = 0 /\ v16 = 0 /\ v17 = 0 /\ v18 = 0 /\ v19 = 0 /\ v20 = 0 /\ v21 = 0 /\ v22 = 0 /\ v23 = 0
  \/ unit = "mvp" /\ Mvp!MvpInit
     /\ v8 = 0 /\ v9 = 0 /\ v10 = 0 /\ v11 = 0 /\ v12 = 0 /\ v13 = 0 /\ v14 = 0 /\ v15 = 0 /\ v16 = 0 /\ v17 = 0 /\ v18 = 0 /\ v19 = 0 /\ v20 = 0 /\ v21 = 0 /\ v22 = 0 /\ v23 = 0
  \/ unit = "specs" /\ Specs!SpecInit
     /\ v4 = 0 /\ v5 = 0 /\ v6 = 0 /\ v7 = 0 /\ v8 = 0 /\ v9 = 0 /\ v10 = 0 /\ v11 = 0 /\ v12 = 0 /\ v13 = 0 /\ v14 = 0 /\ v15 = 0 /\ v16 = 0 /\ v17 = 0 /\ v18 = 0 /\ v19 = 0 /\ v20 = 0 /\ v21 = 0 /\ v22 = 0 /\ v23 = 0
  \/ unit = "stores" /\ Stores!BoardInit
     /\ v13 = 0 /\ v14 = 0 /\ v15 = 0 /\ v16 = 0 /\ v17 = 0 /\ v18 = 0 /\ v19 = 0 /\ v20 = 0 /\ v21 = 0 /\ v22 = 0 /\ v23 = 0
  \/ unit = "ports" /\ Ports!PortInit
     /\ v9 = 0 /\ v10 = 0 /\ v11 = 0 /\ v12 = 0 /\ v13 = 0 /\ v14 = 0 /\ v15 = 0 /\ v16 = 0 /\ v17 = 0 /\ v18 = 0 /\ v19 = 0 /\ v20 = 0 /\ v21 = 0 /\ v22 = 0 /\ v23 = 0
  \/ unit = "codec" /\ Tlp!CodecInit
     /\ v6 = 0 /\ v7 = 0 /\ v8 = 0 /\ v9 = 0 /\ v10 = 0 /\ v11 = 0 /\ v12 = 0 /\ v13 = 0 /\ v14 = 0 /\ v15 = 0 /\ v16 = 0 /\ v17 = 0 /\ v18 = 0 /\ v19 = 0 /\ v20 = 0 /\ v21 = 0 /\ v22 = 0 /\ v23 = 0
  \/ unit = "txns" /\ Txn!TrackInit
     /\ v6 = 0 /\ v7 = 0 /\ v8 = 0 /\ v9 = 0 /\ v10 = 0 /\ v11 = 0 /\ v12 = 0 /\ v13 = 0 /\ v14 = 0 /\ v15 = 0 /\ v16 = 0 /\ v17 = 0 /\ v18 = 0 /\ v19 = 0 /\ v20 = 0 /\ v21 = 0 /\ v22 = 0 /\ v23 = 0
  \/ unit = "metrics" /\ Metric!MetricInit
     /\ v14 = 0 /\ v15 = 0 /\ v16 = 0 /\ v17 = 0 /\ v18 = 0 /\ v19 = 0 /\ v20 = 0 /\ v21 = 0 /\ v22 = 0 /\ v23 = 0
  \/ unit = "bus" /\ Bus!FabricInit
     /\ v9 = 0 /\ v10 = 0 /\ v11 = 0 /\ v12 = 0 /\ v13 = 0 /\ v14 = 0 /\ v15 = 0 /\ v16 = 0 /\ v17 = 0 /\ v18 = 0 /\ v19 = 0 /\ v20 = 0 /\ v21 = 0 /\ v22 = 0 /\ v23 = 0
  \/ unit = "socnoc" /\ Noc!FabricInit
     /\ v9 = 0 /\ v10 = 0 /\ v11 = 0 /\ v12 = 0 /\ v13 = 0 /\ v14 = 0 /\ v15 = 0 /\ v16 = 0 /\ v17 = 0 /\ v18 = 0 /\ v19 = 0 /\ v20 = 0 /\ v21 = 0 /\ v22 = 0 /\ v23 = 0
  \/ unit = "mesh" /\ Mesh!FabricInit
     /\ v9 = 0 /\ v10 = 0 /\ v11 = 0 /\ v12 = 0 /\ v13 = 0 /\ v14 = 0 /\ v15 = 0 /\ v16 = 0 /\ v17 = 0 /\ v18 = 0 /\ v19 = 0 /\ v20 = 0 /\ v21 = 0 /\ v22 = 0 /\ v23 = 0

Next ==
  \/ unit = "inject" /\ Inject!Next /\ UNCHANGED <<unit, v16, v17, v18, v19, v20, v21, v22, v23>>
  \/ unit = "credit" /\ Credit!Next /\ UNCHANGED <<unit>>
  \/ unit = "msix" /\ Msix!MsixNext /\ UNCHANGED <<unit, v8, v9, v10, v11, v12, v13, v14, v15, v16, v17, v18, v19, v20, v21, v22, v23>>
  \/ unit = "snoop" /\ Snoop!MechNext /\ UNCHANGED <<unit, v5, v6, v7, v8, v9, v10, v11, v12, v13, v14, v15, v16, v17, v18, v19, v20, v21, v22, v23>>
  \/ unit = "merge" /\ Merge!MechNext /\ UNCHANGED <<unit, v5, v6, v7, v8, v9, v10, v11, v12, v13, v14, v15, v16, v17, v18, v19, v20, v21, v22, v23>>
  \/ unit = "tracker" /\ Trk!TrkNext /\ UNCHANGED <<unit, v8, v9, v10, v11, v12, v13, v14, v15, v16, v17, v18, v19, v20, v21, v22, v23>>
  \/ unit = "mesif" /\ Mesif!MesifNext /\ UNCHANGED <<unit, v13, v14, v15, v16, v17, v18, v19, v20, v21, v22, v23>>
  \/ unit = "chi" /\ Chi!ChiNext /\ UNCHANGED <<unit, v11, v12, v13, v14, v15, v16, v17, v18, v19, v20, v21, v22, v23>>
  \/ unit = "stub" /\ Stub!StubNext /\ UNCHANGED <<unit, v6, v7, v8, v9, v10, v11, v12, v13, v14, v15, v16, v17, v18, v19, v20, v21, v22, v23>>
  \/ unit = "tables" /\ Tables!TableNext /\ UNCHANGED <<unit, v3, v4, v5, v6, v7, v8, v9, v10, v11, v12, v13, v14, v15, v16, v17, v18, v19, v20, v21, v22, v23>>
  \/ unit = "cep" /\ Cep!CepNext /\ UNCHANGED <<unit, v11, v12, v13, v14, v15, v16, v17, v18, v19, v20, v21, v22, v23>>
  \/ unit = "plane" /\ Plane!PlaneNext /\ UNCHANGED <<unit, v9, v10, v11, v12, v13, v14, v15, v16, v17, v18, v19, v20, v21, v22, v23>>
  \/ unit = "router" /\ Router!RouterNext /\ UNCHANGED <<unit, v5, v6, v7, v8, v9, v10, v11, v12, v13, v14, v15, v16, v17, v18, v19, v20, v21, v22, v23>>
  \/ unit = "memory" /\ Memory!PathNext /\ UNCHANGED <<unit, v3, v4, v5, v6, v7, v8, v9, v10, v11, v12, v13, v14, v15, v16, v17, v18, v19, v20, v21, v22, v23>>
  \/ unit = "edge" /\ Edge!EdgeNext /\ UNCHANGED <<unit, v9, v10, v11, v12, v13, v14, v15, v16, v17, v18, v19, v20, v21, v22, v23>>
  \/ unit = "phy" /\ Phy!PhyNext /\ UNCHANGED <<unit, v5, v6, v7, v8, v9, v10, v11, v12, v13, v14, v15, v16, v17, v18, v19, v20, v21, v22, v23>>
  \/ unit = "requester" /\ Req!RequesterNext /\ UNCHANGED <<unit, v8, v9, v10, v11, v12, v13, v14, v15, v16, v17, v18, v19, v20, v21, v22, v23>>
  \/ unit = "vfpool" /\ Pool!PoolNext /\ UNCHANGED <<unit, v6, v7, v8, v9, v10, v11, v12, v13, v14, v15, v16, v17, v18, v19, v20, v21, v22, v23>>
  \/ unit = "endpoint" /\ Ep!EpNext /\ UNCHANGED <<unit, v14, v15, v16, v17, v18, v19, v20, v21, v22, v23>>
  \/ unit = "composition" /\ Comp!EpNext /\ UNCHANGED <<unit, v14, v15, v16, v17, v18, v19, v20, v21, v22, v23>>
  \/ unit = "hostaxi" /\ Axi!AxiNext /\ UNCHANGED <<unit, v12, v13, v14, v15, v16, v17, v18, v19, v20, v21, v22, v23>>
  \/ unit = "abi" /\ Abi!AbiNext /\ UNCHANGED <<unit, v7, v8, v9, v10, v11, v12, v13, v14, v15, v16, v17, v18, v19, v20, v21, v22, v23>>
  \/ unit = "config" /\ Cfg!ConfigNext /\ UNCHANGED <<unit, v4, v5, v6, v7, v8, v9, v10, v11, v12, v13, v14, v15, v16, v17, v18, v19, v20, v21, v22, v23>>
  \/ unit = "assembly" /\ Asm!AsmNext /\ UNCHANGED <<unit, v11, v12, v13, v14, v15, v16, v17, v18, v19, v20, v21, v22, v23>>
  \/ unit = "gates" /\ Gates!GateNext /\ UNCHANGED <<unit, v10, v11, v12, v13, v14, v15, v16, v17, v18, v19, v20, v21, v22, v23>>
  \/ unit = "contracts" /\ Contracts!ContractNext /\ UNCHANGED <<unit, v3, v4, v5, v6, v7, v8, v9, v10, v11, v12, v13, v14, v15, v16, v17, v18, v19, v20, v21, v22, v23>>
  \/ unit = "topology" /\ Topology!TopologyNext /\ UNCHANGED <<unit, v3, v4, v5, v6, v7, v8, v9, v10, v11, v12, v13, v14, v15, v16, v17, v18, v19, v20, v21, v22, v23>>
  \/ unit = "kernel" /\ Kernel!KernelNext /\ UNCHANGED <<unit, v9, v10, v11, v12, v13, v14, v15, v16, v17, v18, v19, v20, v21, v22, v23>>
  \/ unit = "front" /\ Front!FrontNext /\ UNCHANGED <<unit, v11, v12, v13, v14, v15, v16, v17, v18, v19, v20, v21, v22, v23>>
  \/ unit = "core" /\ Core!CoreNext /\ UNCHANGED <<unit, v9, v10, v11, v12, v13, v14, v15, v16, v17, v18, v19, v20, v21, v22, v23>>
  \/ unit = "mvp" /\ Mvp!MvpNext /\ UNCHANGED <<unit, v8, v9, v10, v11, v12, v13, v14, v15, v16, v17, v18, v19, v20, v21, v22, v23>>
  \/ unit = "specs" /\ Specs!SpecNext /\ UNCHANGED <<unit, v4, v5, v6, v7, v8, v9, v10, v11, v12, v13, v14, v15, v16, v17, v18, v19, v20, v21, v22, v23>>
  \/ unit = "stores" /\ Stores!BoardNext /\ UNCHANGED <<unit, v13, v14, v15, v16, v17, v18, v19, v20, v21, v22, v23>>
  \/ unit = "ports" /\ Ports!PortNext /\ UNCHANGED <<unit, v9, v10, v11, v12, v13, v14, v15, v16, v17, v18, v19, v20, v21, v22, v23>>
  \/ unit = "codec" /\ Tlp!CodecNext /\ UNCHANGED <<unit, v6, v7, v8, v9, v10, v11, v12, v13, v14, v15, v16, v17, v18, v19, v20, v21, v22, v23>>
  \/ unit = "txns" /\ Txn!TrackNext /\ UNCHANGED <<unit, v6, v7, v8, v9, v10, v11, v12, v13, v14, v15, v16, v17, v18, v19, v20, v21, v22, v23>>
  \/ unit = "metrics" /\ Metric!MetricNext /\ UNCHANGED <<unit, v14, v15, v16, v17, v18, v19, v20, v21, v22, v23>>
  \/ unit = "bus" /\ Bus!BusNext /\ UNCHANGED <<unit, v9, v10, v11, v12, v13, v14, v15, v16, v17, v18, v19, v20, v21, v22, v23>>
  \/ unit = "socnoc" /\ Noc!NocNext /\ UNCHANGED <<unit, v9, v10, v11, v12, v13, v14, v15, v16, v17, v18, v19, v20, v21, v22, v23>>
  \/ unit = "mesh" /\ Mesh!MeshNext /\ UNCHANGED <<unit, v9, v10, v11, v12, v13, v14, v15, v16, v17, v18, v19, v20, v21, v22, v23>>

Spec == Init /\ [][Next]_vars
-----------------------------------------------------------------------------
(* The variables of the components keep their types.                       *)
ComponentsTypeOK ==
  /\ unit = "inject" => Inject!TypeOK
  /\ unit = "credit" => Credit!TypeOK
  /\ unit = "msix" => Msix!MsixTypeOK
  /\ unit = "snoop" => Snoop!MechTypeOK
  /\ unit = "tracker" => Trk!TrkTypeOK
  /\ unit = "mesif" => Mesif!MesifTypeOK
  /\ unit = "chi" => Chi!ChiTypeOK
  /\ unit = "stub" => Stub!StubTypeOK
  /\ unit = "phy" => Phy!PhyTypeOK

(* A read returns the register asked for as last written (BoardInject).    *)
ReadYourWrites == unit = "inject" => Inject!ReadYourWrites

(* Host, ticking thread and simulation thread drain at once: no promise is *)
(* set twice, none is stranded (BoardInject).                              *)
ServedOnce == unit = "inject" => Inject!ServedOnce

(* A read that was answered leaves nothing in the maps (BoardInject).      *)
NothingLeftByAnsweredReads == unit = "inject" => Inject!NothingLeftByAnsweredReads

(* No more TLPs pass than credit was granted (LinkLayer).                  *)
CreditCoversTraffic == unit = "credit" => Credit!CreditCoversTraffic

(* The ACKs to the host are consecutive (LinkLayer).                       *)
AcksInOrder == unit = "credit" => Credit!AcksInOrder

(* No accepted interrupt is lost (MsixTable).                              *)
NoPendingLost == unit = "msix" => Msix!NoPendingLost

(* Snoops: a handle names one snoop, each that was begun with a responder  *)
(* waits for one, and answers may come in any order (SharerTracker).       *)
SnoopsAreSound ==
  /\ unit = "snoop" => Snoop!HandleNamesOneSnoop /\ Snoop!SomebodyAwaited
  /\ unit = "merge" => Merge!MergeIsOrderFree

(* No holder of a line is missed by the home's snoops, and data is asked   *)
(* from one that has it (SharerTracker); the directory follows what the    *)
(* engines do (MesifEngine).                                               *)
HomeReachesHolders ==
  /\ unit = "tracker" => Trk!NoHolderMissed /\ Trk!ForwardFindsData
  /\ unit = "mesif" => Mesif!DirectoryFollowsEngines

(* Credits are conserved, a snoop is answered once and a completion        *)
(* acknowledged once (ChiRnfEngine).                                       *)
ChiAccounts == unit = "chi" => Chi!CreditsConserved /\ Chi!SnoopAnsweredOnce /\ Chi!CompAckOnce

(* A dirty value is never lost, nor fetched over (StubCache).              *)
DirtyValueKept == unit = "stub" => Stub!DirtyValueKept /\ Stub!NeverFetchedOverOwned

(* The protocol tables keep a single writer (CoherenceTables).             *)
OneWriter == unit = "tables" => Tables!OneWriter

(* What the protocol engines count is what they handled (CepEngines).      *)
EnginesAccount == unit = "cep" => Cep!EnginesAccount

(* Nothing outlives its group (CollectivePlane).                           *)
NothingOutlivesItsGroup == unit = "plane" => Plane!NothingOutlivesItsGroup

(* Flits and virtual channels are accounted for (NocRouter), every head is *)
(* answered (StreamPorts).                                                 *)
NocAccounts ==
  /\ unit = "router" => Router!FlitsAccounted /\ Router!ChannelsAccounted
  /\ unit = "edge" => Edge!EveryHeadAnswered
  /\ unit = "ports" => Ports!PortsSound

(* Requests of the memory path are answered or accounted for (MemPath).    *)
AnswersAccounted ==
  /\ unit = "memory" => Memory!AnswersAccounted
  /\ unit = "front" => Front!TasksAccounted
  /\ unit = "core" => Core!InstructionsAccounted
  /\ unit = "txns" => Txn!TrackersSound
  /\ unit = "metrics" => Metric!MetricsSound

(* The PHY's link is up exactly in L0 (PhyCtrl).                           *)
LinkStateSound == unit = "phy" => Phy!LinkStateSound

(* Reads, interrupts and AXI requests are accounted for (VfPool, VfPool,   *)
(* HostAxi).                                                               *)
PcieTransactions ==
  /\ unit = "requester" => Req!ReadsAccounted
  /\ unit = "vfpool" => Pool!FunctionsApart
  /\ unit = "hostaxi" => Axi!AxiAccounted
  /\ unit = "codec" => Tlp!WireSound

(* Registers, power state and the two stores of the endpoint agree         *)
(* (EndpointIp).                                                           *)
EndpointConsistent ==
  /\ unit = "endpoint" => Ep!EndpointConsistent
  /\ unit = "composition" => Comp!CompositionFollowsConfig
  /\ unit = "mvp" => Mvp!MvpSound
  /\ unit = "stores" => Stores!StoresAgree
  /\ unit = "bus" => Bus!FabricTypeOK /\ Bus!FabricSound
  /\ unit = "socnoc" => Noc!FabricSound
  /\ unit = "mesh" => Mesh!CopyTakesTheLongestRoute

(* The emulator's registry and handles name live emulators (EmulatorAbi).  *)
EmulatorsSound == unit = "abi" => Abi!EmulatorsSound

(* What is inherited is inherited in full and what is accepted can be built*)
(* (ConfigInput), ports, bridges and names of an assembly agree            *)
(* (FactoryAssembly), no declaration with a cycle of channels is admitted  *)
(* (CepGates), contracts pass only what they name (CepGates), a generated  *)
(* mesh leads flits to their node (ConfigInput), and a state specification *)
(* whose evidence or permissions were weakened is refused by its checks    *)
(* (StateSpecs).                                                           *)
ElaborationSound ==
  /\ unit = "config" => Cfg!InputSound
  /\ unit = "assembly" => Asm!AssemblySound
  /\ unit = "gates" => Gates!GatesSound
  /\ unit = "contracts" => Contracts!ContractsSound
  /\ unit = "specs" => Specs!SpecsSound
  /\ unit = "topology" => Topology!TopologySound
  /\ unit = "kernel" => Kernel!KernelSound

=============================================================================
