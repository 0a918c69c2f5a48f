------------------------------ MODULE EndpointIp ------------------------------
(***************************************************************************)
(* PcieEndpointIP (pcie_endpoint_ip.cc) with the config space of its       *)
(* physical function (pcie_config_space_mvp.cc), its resizable BARs and    *)
(* PcieCompleterEngine (pcie_completer_engine.cc).  What a host has        *)
(* written is kept twice: in the endpoint, whose config space and BARs it  *)
(* reads by AXI, and in the completer, whose copies TLPs read.  Registers  *)
(* are named by their offset; a datum of a BAR is three parts, its first   *)
(* byte, the rest of its low word, its high word.  Left out: requests      *)
(* waiting in the AXI slots (HostAxi), the link's and the PHY's own state  *)
(* (LinkLayer, PhyCtrl), the pool's tables and trackers (VfPool), and      *)
(* TLPs that write less than a register.                                   *)
(***************************************************************************)
EXTENDS Integers, FiniteSets

CONSTANTS
  Offsets,      \* offsets that writes name, not all of them aligned
  Values,       \* data written to a BAR
  CfgWrites,    \* <<offset, value>>: what is written to config registers
  Sizes,        \* what a BAR is reprogrammed to
  SizeMod,      \* 2^32: on_bar_resize keeps a size in 32 bits
  Docs,         \* the params a configuration may give
  MaxWrites     \* bound: operations other than loading a configuration

VARIABLES
  cfg,      \* config_of(0): offset -> register
  ccfg,     \* config_space_ of the completer
  seen,     \* last_pmcsr_pws_ and last_lnkctl_; 4 is the sentinel
  caps,     \* capabilities_ holds the two standard capabilities
  power,    \* power_state_; mmio_gated_ says that it is D3hot
  aspm_level,   \* aspm_level_ of the composite's PHY
  store,    \* bar_store_ of the endpoint: <<bar, aligned offset>> -> datum
  cstore,   \* bar_store_ of the completer: <<bar, offset>> -> datum
  rung,     \* sdma_ring_processed_count_
  rebar,    \* resizable_bars_: [state, size] of each
  ip,       \* what the configurations made of the endpoint
  apart,    \* history: what was last changed on one side only
  writes    \* operations so far

hostVars == <<seen, caps, power, aspm_level, store, cstore, rung, rebar>>
epVars == <<cfg, ccfg, hostVars, ip, apart, writes>>

Bars     == {0, 1}
DoorbellOffset == 268500992    \* kBar1DoorbellOffset, 0x10010000

Aligned(o) == o - (o % 4)

(* BAR 0, the capabilities pointer, the PM capability and PMCSR, LNKCTL,   *)
(* the first extended capability and the control of the resizable BAR.     *)
Regs == {16, 52, 64, 68, 96, 256, 328}
Pmcsr == 68
Lnkctl == 96

PmCap(control) == control * 65536 + 1

(* init() of a config space: of these registers all are 0.                 *)
Wiped == [r \in Regs |-> 0]

(* install_pm_capability and install_capabilities; the header of an        *)
(* extended capability is written when it is added, and after the          *)
(* constructor none is: extended_caps_ is never cleared.                   *)
Installed(size, first) ==
  [Wiped EXCEPT ![52] = 64, ![64] = PmCap(19), ![Lnkctl] = 16,
                ![256] = IF first THEN 335544333 ELSE 0,
                ![328] = IF 328 < size THEN 526352 ELSE 0]

Zero == <<0, 0, 0>>

(* bar_store_value                                                         *)
BarStoreValue(s, x) == IF x \in DOMAIN s THEN s[x] ELSE Zero

Stored(s, x, datum) == [y \in DOMAIN s \cup {x} |-> IF y = x THEN datum ELSE s[y]]

Counted == writes < MaxWrites /\ writes' = writes + 1

-----------------------------------------------------------------------------
(* composite(), link_layer(), phy() and bypass_mux(): what is inside, as   *)
(* long as the configuration enables it.                                   *)
Composite(p) == p.active /\ p.built

(* PcieConfigSpace::write: offsets beyond the size and the capabilities    *)
(* pointer are left alone.  The callback of PMCSR takes D0 and D3hot, that *)
(* of LNKCTL needs a PHY and turns nothing off; each runs when the two     *)
(* bits differ from those it saw last.                                     *)
Writable(r) == r < ip.size /\ r # 52

TellsPm(r, v) == Writable(r) /\ caps /\ r = Pmcsr /\ v % 4 # seen.pws
TellsPhy(r, v) == Writable(r) /\ caps /\ r = Lnkctl /\ v % 4 # seen.lnk

ConfigSpaceWrite(r, v) ==
  /\ cfg' = IF Writable(r) THEN [cfg EXCEPT ![r] = v] ELSE cfg
  /\ seen' = [pws |-> IF TellsPm(r, v) THEN v % 4 ELSE seen.pws,
              lnk |-> IF TellsPhy(r, v) THEN v % 4 ELSE seen.lnk]
  /\ power' = IF TellsPm(r, v) /\ v % 4 \in {0, 3} THEN v % 4 ELSE power
  /\ aspm_level' = IF TellsPhy(r, v) /\ Composite(ip) /\ v % 4 # 0
                   THEN (IF v % 4 >= 2 THEN 2 ELSE 1) ELSE aspm_level
  /\ UNCHANGED <<caps, store, rung, rebar, ip>>

(* What such a write brings together, and what apart.                      *)
Met(r, v) ==
  {x \in {<<"power">>} : TellsPm(r, v) /\ v % 4 \in {0, 3}} \cup
  {x \in {<<"aspm">>} : TellsPhy(r, v) /\ Composite(ip)}
Parted(r, v) == {x \in {<<"aspm">>} : TellsPhy(r, v) /\ ~Composite(ip)}

(* A write by the board or, below the config size, by an AXI request, in   *)
(* any power state.                                                        *)
ConfigWrite(r, v) ==
  /\ Counted
  /\ ConfigSpaceWrite(r, v)
  /\ apart' = (apart \ Met(r, v)) \cup Parted(r, v) \cup {<<"cfg", r>>}
  /\ UNCHANGED <<ccfg, cstore>>

(* set_power_state, called by the board.                                   *)
SetPowerState(s) ==
  /\ Counted
  /\ power' = s
  /\ apart' = apart \cup {<<"power">>}
  /\ UNCHANGED <<cfg, ccfg, seen, caps, aspm_level, store, cstore, rung, rebar, ip>>

Swept == apart \cup {<<"power">>} \cup {<<"cfg", r>> : r \in Regs}

(* init() and do_reset: the pool's config spaces are wiped, the            *)
(* capabilities installed again, which is a write of LNKCTL that its       *)
(* callback sees.  The power state, BARs and the completer stay.           *)
DoReset ==
  /\ Counted
  /\ cfg' = Installed(ip.size, FALSE)
  /\ caps' = TRUE /\ seen' = [seen EXCEPT !.lnk = 0]
  /\ apart' = Swept
  /\ UNCHANGED <<ccfg, power, aspm_level, store, cstore, rung, rebar, ip>>

(* flr_pf installs nothing, and turns ARI off.                             *)
EpFlrPf ==
  /\ Counted
  /\ cfg' = Wiped /\ caps' = FALSE
  /\ ip' = [ip EXCEPT !.ari = "off"]
  /\ apart' = Swept
  /\ UNCHANGED <<ccfg, seen, power, aspm_level, store, cstore, rung, rebar>>

-----------------------------------------------------------------------------
(* A write to the endpoint's store alone.                                  *)
WriteStore(x, datum) ==
  /\ store' = Stored(store, x, datum)
  /\ apart' = apart \cup {<<"bar", x>>}
  /\ UNCHANGED <<cfg, ccfg, seen, caps, power, aspm_level, cstore, rebar, ip>>

(* mmio_write, of the host's library; BAR 1 has the doorbell.              *)
MmioWrite(bar, o, v) ==
  /\ Counted
  /\ IF bar = 1 /\ o = DoorbellOffset
     THEN rung' = rung + v
          /\ UNCHANGED <<cfg, ccfg, seen, caps, power, aspm_level, store, cstore, rebar, ip, apart>>
     ELSE WriteStore(<<bar, Aligned(o)>>, <<v, v, v>>) /\ UNCHANGED rung

(* tick with an AXI write in the adapter's slot: of a config register, or  *)
(* of the strobed parts of a 32-bit word of BAR 0, refused in D3hot.       *)
AxiConfigWrite(o, v) ==
  /\ ip.axi # "absent" /\ o < ip.size
  /\ ConfigWrite(Aligned(o), v)

AxiBarWrite(o, v, strobes) ==
  LET x   == <<0, Aligned(o)>>
      old == BarStoreValue(store, x)
  IN  /\ Counted
      /\ ip.axi # "absent" /\ o >= ip.size /\ power # 3
      /\ WriteStore(x, [i \in 1 .. 3 |-> IF i = 3 THEN 0 ELSE IF i \in strobes THEN v ELSE old[i]])
      /\ UNCHANGED rung

(* inject_tlp_from_host: to the sink in Bypass, else through the link.     *)
InjectedIsDispatched ==
  IF ip.mode = "Bypass" THEN ip.tlpSink ELSE Composite(ip) /\ ip.linkSink

(* config_space_write and bar_store_write of the completer.                *)
CompleterConfigWrite(r, v) == ccfg' = [ccfg EXCEPT ![r] = v]
CompleterBarWrite(x, v) == cstore' = Stored(cstore, x, <<v, v, v>>)

(* Mutant: the endpoint's own store is not written.                        *)
DispatchTlpOneStore(bar, o, v) ==
  LET x == <<bar, Aligned(o)>>
  IN  /\ CompleterBarWrite(<<bar, o>>, v)
      /\ apart' = IF o = Aligned(o) THEN apart \ {<<"bar", x>>} ELSE apart \cup {<<"bar", x>>}
      /\ UNCHANGED <<cfg, ccfg, seen, caps, power, aspm_level, store, rung, rebar, ip>>

(* dispatch_tlp_entry: both sides take a TLP's write, also in D3hot; a     *)
(* BAR's offset is cut to a word on the endpoint's only.                   *)
DispatchTlpWrite(bar, o, v) ==
  LET x == <<bar, Aligned(o)>>
  IN  /\ store' = Stored(store, x, <<v, v, v>>)
      /\ CompleterBarWrite(<<bar, o>>, v)
      /\ apart' = IF o = Aligned(o) THEN apart \ {<<"bar", x>>} ELSE apart \cup {<<"bar", x>>}
      /\ UNCHANGED <<cfg, ccfg, seen, caps, power, aspm_level, rung, rebar, ip>>

DispatchTlpConfig(r, v) ==
  /\ ConfigSpaceWrite(r, v)
  /\ CompleterConfigWrite(r, v)
  /\ LET rest == (apart \ Met(r, v)) \cup Parted(r, v)
     IN  apart' = IF Writable(r) THEN rest \ {<<"cfg", r>>} ELSE rest \cup {<<"cfg", r>>}
  /\ UNCHANGED cstore

InjectTlp ==
  /\ InjectedIsDispatched /\ Counted
  /\ \/ \E bar \in Bars, o \in Offsets, v \in Values : DispatchTlpWrite(bar, o, v)
     \/ \E w \in CfgWrites : DispatchTlpConfig(w[1], w[2])

-----------------------------------------------------------------------------
SetBar(bar, to) ==
  /\ rebar' = [rebar EXCEPT ![bar] = to]
  /\ UNCHANGED <<cfg, ccfg, seen, caps, power, aspm_level, cstore, rung>>

ReprogramSize(bar, size) ==
  /\ Counted /\ rebar[bar].state # "Enabled"
  /\ SetBar(bar, [state |-> "Programming", size |-> size])
  /\ UNCHANGED <<store, ip, apart>>

(* enable_resizable_bar and on_bar_resize: what is stored beyond the size, *)
(* or what 32 bits keep of it, is taken out of the endpoint's store, with  *)
(* a warning.                                                              *)
EnableResizableBar(bar) ==
  LET beyond == {x \in DOMAIN store : x[1] = bar /\ x[2] >= rebar[bar].size % SizeMod}
  IN  /\ Counted /\ rebar[bar].state = "Programming"
      /\ SetBar(bar, [rebar[bar] EXCEPT !.state = "Enabled"])
      /\ store' = [x \in DOMAIN store \ beyond |-> store[x]]
      /\ apart' = apart \cup {<<"bar", x>> : x \in beyond}
      /\ ip' = [ip EXCEPT !.warned = IF beyond = {} THEN @ ELSE @ \cup {"resized"}]

DisableResizableBar(bar) ==
  /\ Counted
  /\ SetBar(bar, [rebar[bar] EXCEPT !.state = "Disabled"])
  /\ UNCHANGED <<store, ip, apart>>

-----------------------------------------------------------------------------
(* A document leaves out what is "absent", 0 or empty; `unknown' are the   *)
(* groups in which it has a key that nothing reads, `settings' says        *)
(* whether its link_layer names the link's capacities.                     *)
NoDoc ==
  [axi |-> "absent", link |-> "absent", mode |-> "absent", settings |-> "default",
   pm |-> 0, hot |-> "absent", ari |-> "absent", vfVecs |-> 0, size |-> 0, pfVecs |-> 0,
   regs |-> {}, sizes |-> FALSE, unknown |-> {}]

(* After the constructor; `others' are modules that were put into the      *)
(* endpoint before.                                                        *)
IpInit ==
  \E others \in BOOLEAN :
    ip = [others |-> others, built |-> FALSE, active |-> FALSE, mode |-> "Full",
          mux |-> "Full", settings |-> "default", hot |-> "cold", linkSink |-> FALSE,
          tlpSink |-> FALSE, adapters |-> FALSE, axi |-> "absent", ari |-> "off",
          pfVecs |-> 16, vfVecs |-> 16, size |-> 4096, regs |-> {"DOORBELL"},
          warned |-> {}, doc |-> NoDoc, wanted |-> FALSE]

EpInit ==
  /\ IpInit
  /\ cfg = Installed(4096, TRUE) /\ ccfg = Wiped
  /\ seen = [pws |-> 4, lnk |-> 4] /\ caps = TRUE
  /\ power = 0 /\ aspm_level = 0
  /\ store = << >> /\ cstore = << >> /\ rung = 0
  /\ rebar = [b \in Bars |-> [state |-> "Disabled", size |-> 0]]
  /\ apart = {<<"cfg", r>> : r \in {x \in Regs : cfg[x] # 0}}
  /\ writes = 0

(* ensure_composite_instantiated: built once, and not at all when there    *)
(* are other modules inside; it counts as active even then.                *)
EnsureComposite(p) ==
  [p EXCEPT !.active = TRUE, !.built = p.built \/ ~p.others]

LinkEnabled(doc) == doc.link = "on"

(* simulate_instantiate: the first document builds the composite early.    *)
Instantiated(p, doc) ==
  IF LinkEnabled(doc) /\ ~p.built /\ ~p.others THEN EnsureComposite(p) ELSE p

(* The AXI adapter goes with the group that asks for it.                   *)
AttachAxi(p, doc) == [p EXCEPT !.axi = doc.axi]

(* Mutant: a mode in the document reaches the mux, not the endpoint.       *)
AttachLinkMuxOnly(p, doc) ==
  LET q == EnsureComposite(p)
      m == CASE doc.mode = "absent" -> q.mux [] doc.mode = "other" -> "Full" [] OTHER -> doc.mode
  IN  CASE doc.link = "absent" -> p
        [] doc.link = "off"    -> [p EXCEPT !.active = FALSE]
        [] OTHER -> IF Composite(q)
                    THEN [q EXCEPT !.mux = m, !.settings = doc.settings,
                                   !.linkSink = TRUE, !.tlpSink = TRUE]
                    ELSE q

(* link_layer: disabled, everything inside is out of sight and keeps its   *)
(* state, the sinks and the endpoint's copy of the mux's mode included.    *)
(* Enabled, what the group does not name is set to its default, the mode   *)
(* apart; a name that is no mode means Full.                               *)
AttachLink(p, doc) ==
  LET q == EnsureComposite(p)
      m == CASE doc.mode = "absent" -> q.mux [] doc.mode = "other" -> "Full" [] OTHER -> doc.mode
  IN  CASE doc.link = "absent" -> p
        [] doc.link = "off"    -> [p EXCEPT !.active = FALSE]
        [] OTHER -> IF Composite(q)
                    THEN [q EXCEPT !.mux = m, !.mode = m, !.settings = doc.settings,
                                   !.linkSink = TRUE, !.tlpSink = TRUE]
                    ELSE q

(* phy_digital needs the PHY.                                              *)
AttachPhy(p, doc) ==
  [p EXCEPT !.hot = IF doc.hot = "absent" \/ ~Composite(p) THEN @ ELSE doc.hot]

(* sr_iov and transaction_layer: a size that is neither 256 nor 4096 is    *)
(* taken for 4096, with a warning.                                         *)
BadSize(doc) == doc.size \notin {0, 256, 4096}

AttachGroups(p, doc) ==
  [p EXCEPT !.ari = IF doc.ari = "absent" THEN @ ELSE doc.ari,
            !.vfVecs = IF doc.vfVecs = 0 THEN @ ELSE doc.vfVecs,
            !.pfVecs = IF doc.pfVecs = 0 THEN @ ELSE doc.pfVecs,
            !.size = IF doc.size = 0 THEN @ ELSE IF BadSize(doc) THEN 4096 ELSE doc.size]

(* bar0_registers replaces the router's registers, the doorbell's too;     *)
(* bar_sizes puts the doorbell's back.                                     *)
AttachRegisters(p, doc) ==
  LET declared == IF doc.regs = {} THEN p.regs ELSE doc.regs
  IN  [p EXCEPT !.regs = IF doc.sizes THEN declared \cup {"DOORBELL"} ELSE declared]

(* warn_unconsumed and warn_unconsumed_subkeys: what nothing consumes, of  *)
(* this document alone; phy_digital is looked into when there is a PHY.    *)
WarnUnconsumed(p, doc) ==
  [p EXCEPT !.warned = {g \in doc.unknown : g = "phy_digital" => Composite(p)}
                         \cup {w \in {"config_size"} : BadSize(doc)}]

(* The registers that a document writes: the PM capability's control word, *)
(* if it is installed, and the BARs.                                       *)
AttachConfigSpace(doc) ==
  LET pm == caps /\ doc.pm # 0
  IN  /\ cfg' = [cfg EXCEPT ![64] = IF pm THEN PmCap(doc.pm) ELSE @,
                            ![16] = IF doc.sizes THEN 0 ELSE @]
      /\ apart' = apart \cup {<<"cfg", r>> : r \in {x \in {64} : pm} \cup {x \in {16} : doc.sizes}}

(* on_config_loaded: the document is taken in whole.                       *)
OnConfigLoaded(doc) ==
  /\ ip' = LET linked == AttachLink(AttachAxi(Instantiated(ip, doc), doc), doc)
               p == AttachRegisters(AttachGroups(AttachPhy(linked, doc), doc), doc)
           IN  [WarnUnconsumed(p, doc) EXCEPT
                  !.doc = doc, !.wanted = IF doc.link = "absent" THEN @ ELSE LinkEnabled(doc)]
  /\ AttachConfigSpace(doc)
  /\ UNCHANGED <<ccfg, hostVars, writes>>

(* set_bypass_mux_mode_for_test: the endpoint's copy, and the mux if any.  *)
SetBypassMuxMode(mode) ==
  /\ ip' = [ip EXCEPT !.mode = mode, !.mux = IF Composite(ip) THEN mode ELSE @]
  /\ UNCHANGED <<cfg, ccfg, hostVars, apart, writes>>

(* set_stream_adapter: before the composite is there they are lost.        *)
SetStreamAdapter ==
  /\ Composite(ip)
  /\ ip' = [ip EXCEPT !.adapters = TRUE]
  /\ UNCHANGED <<cfg, ccfg, hostVars, apart, writes>>

CompStep ==
  \/ \E doc \in Docs : OnConfigLoaded(doc)
  \/ \E mode \in {"Full", "Partial", "Bypass"} : SetBypassMuxMode(mode)
  \/ SetStreamAdapter

EpStep ==
  \/ \E s \in {0, 3} : SetPowerState(s)
  \/ \E w \in CfgWrites : ConfigWrite(w[1], w[2])
  \/ DoReset \/ EpFlrPf
  \/ \E bar \in Bars, o \in Offsets, v \in Values : MmioWrite(bar, o, v)
  \/ \E w \in CfgWrites, byte \in 0 .. 3 : AxiConfigWrite(w[1] + byte, w[2])
  \/ \E o \in Offsets, v \in Values, strobes \in SUBSET {1, 2} : AxiBarWrite(o, v, strobes)
  \/ InjectTlp
  \/ \E bar \in Bars, size \in Sizes : ReprogramSize(bar, size)
  \/ \E bar \in Bars : EnableResizableBar(bar) \/ DisableResizableBar(bar)

EpNext == EpStep \/ CompStep

EpSpec == EpInit /\ [][EpNext]_epVars

-----------------------------------------------------------------------------
(* The device is in the power state that its PMCSR says, through any       *)
(* series of writes, reserved states among them; unless a reset cleared    *)
(* the register or the board set the state by itself, and no write changed *)
(* it since.                                                               *)
PowerFollowsPmcsr ==
  caps /\ <<"power">> \notin apart /\ cfg[Pmcsr] % 4 \in {0, 3} => cfg[Pmcsr] % 4 = power

(* While LNKCTL asks for a low-power state the PHY has been told which,    *)
(* unless LNKCTL was written when there was none: what is written once     *)
(* more is no news, and the PHY is not told then either.                   *)
AspmFollowsLnkctl ==
  LET level == cfg[Lnkctl] % 4
  IN  caps /\ <<"aspm">> \notin apart /\ level # 0
        => aspm_level = (IF level >= 2 THEN 2 ELSE 1)

(* A read over AXI and a read over TLPs find the same datum and the same   *)
(* register, unless it was last changed in a way that reaches one side     *)
(* alone.                                                                  *)
StoresAgree ==
  \A x \in Bars \X {Aligned(o) : o \in Offsets} :
    <<"bar", x>> \notin apart => BarStoreValue(store, x) = BarStoreValue(cstore, x)

RegistersAgree == \A r \in Regs : <<"cfg", r>> \notin apart => cfg[r] = ccfg[r]

EndpointConsistent == PowerFollowsPmcsr /\ AspmFollowsLnkctl /\ StoresAgree /\ RegistersAgree

(* Whatever documents were loaded, in whatever order: there is a link if   *)
(* the last one that spoke of it enabled it and nothing else had been put  *)
(* into the endpoint; its mux has the mode the endpoint goes by, and a TLP *)
(* from the host is dispatched by either way; and each key of the last     *)
(* document that nothing reads has its warning, those for a PHY that is    *)
(* not there apart, and no earlier one's.                                  *)
CompositionFollowsConfig ==
  /\ Composite(ip) <=> ip.wanted /\ ~ip.others
  /\ Composite(ip) => ip.mode = ip.mux /\ InjectedIsDispatched
  /\ ip.warned \subseteq ip.doc.unknown \cup {"config_size", "resized"}
  /\ ip.doc.unknown \ ip.warned \subseteq (IF Composite(ip) THEN {} ELSE {"phy_digital"})
  /\ ip.axi = ip.doc.axi
=============================================================================
