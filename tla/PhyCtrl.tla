------------------------------- MODULE PhyCtrl -------------------------------
(***************************************************************************)
(* PciePhyDigitalCtrl (pcie_phy_digital_ctrl_tlm.cc): the LTSSM, the rate  *)
(* switch it shares with the link layer, ASPM and the sideband signals,    *)
(* inside PcieLinkPhyMuxTLM (pcie_link_phy_mux_tlm.cc), whose tick drives  *)
(* the PHY and then the link layer.  Cycle numbers are kept as the cycles  *)
(* since, or until, the event they stand for.  Equalization, a sequence of *)
(* its own that nothing here reads, and the presets are left out.          *)
(***************************************************************************)
EXTENDS Integers

CONSTANTS
  IdleL0s, IdleL1,    \* idle cycles before L0s and L1 (100, 4000)
  ExitL0s, ExitL1,    \* cycles to leave them (4, 32)
  SwitchDelay         \* rate_switch_delay_us, in cycles

VARIABLES
  phy,       \* the registers of the PHY
  link,      \* the link layer's [switching, ready]: cycles until it is ready
  forced,    \* history: set_link_up(true) was the last to decide link_up_
  quiet      \* history: nothing was asked of the PHY since the card was
             \* removed, and no rate switch was under way then

phyVars == <<phy, link, forced, quiet>>

Training  == {"Detect", "Polling", "Configuration"}
LowPower  == {"L0s", "L1", "L2"}
LtState   == Training \cup LowPower
             \cup {"Recovery", "L0", "Disabled", "Loopback", "Hot_Reset"}
AspmLevel == {"Off", "L0s", "L1"}
Rates     == {"GEN1", "GEN5"}

(* The PHY as PcieLinkPhyMuxTLM's constructor leaves it.                   *)
PhyInit ==
  /\ phy = [state |-> "Detect", up |-> TRUE, training |-> FALSE,
            rate |-> "GEN1", switching |-> FALSE, to |-> "GEN1",
            aspm |-> "Off", idle |-> 0, exit |-> FALSE, wait |-> 0,
            prsnt |-> TRUE, slot |-> TRUE]
  /\ link = [switching |-> FALSE, ready |-> 0]
  /\ forced = TRUE /\ quiet = FALSE

-----------------------------------------------------------------------------
(* What several operations share.                                          *)
Up(p)      == [p EXCEPT !.state = "L0", !.up = TRUE]
Down(p, s) == [p EXCEPT !.state = s, !.up = FALSE]

(* The link goes back to Detect and nothing is under way.                  *)
Detected(p) == [Down(p, "Detect") EXCEPT !.training = FALSE]

StartTraining(p) == [Down(p, "Detect") EXCEPT !.training = TRUE]
ExitLowPower(p)  == IF p.state \in {"L0s", "L1"} THEN Up(p) ELSE p

(* An operation a host asks for, by what it makes of the registers.        *)
Asked(p) ==
  /\ phy' = p
  /\ quiet' = FALSE
  /\ forced' = (forced /\ p.up /\ p.state # "L0")
  /\ UNCHANGED link

StartLinkTraining == Asked(StartTraining(phy))

SetLinkUp(up) ==
  /\ phy' = IF up THEN [phy EXCEPT !.up = TRUE] ELSE Detected(phy)
  /\ forced' = (up /\ phy.state # "L0")
  /\ quiet' = FALSE
  /\ UNCHANGED link

SetActiveState(s) == Asked(Down(phy, s))   \* enter_l0s, enter_l1, enter_l2
ExitLow           == Asked(ExitLowPower(phy))
EnterState(s)     == Asked(Down(phy, s))   \* enter_disabled, _loopback, _hot_reset

(* start_rate_switch: to the rate it has, nothing.                         *)
StartRateSwitch(to) ==
  /\ to # phy.rate
  /\ phy' = [Down(phy, "Recovery") EXCEPT !.switching = TRUE, !.to = to,
                                          !.training = FALSE]
  /\ link' = [switching |-> TRUE, ready |-> SwitchDelay]
  /\ forced' = FALSE /\ quiet' = FALSE

EnableAspm(level) ==
  LET p == [phy EXCEPT !.aspm = level, !.idle = 0]
  IN  Asked(IF level = "Off" THEN [ExitLowPower(p) EXCEPT !.exit = FALSE] ELSE p)

(* Every packet starts the exit latency again.                             *)
OnTraffic ==
  /\ phy' = [phy EXCEPT !.idle = 0,
                        !.exit = @ \/ phy.state \in {"L0s", "L1"},
                        !.wait = IF phy.state \in {"L0s", "L1"} THEN 0 ELSE @]
  /\ UNCHANGED <<link, forced, quiet>>

(* tx_tlp and rx_tlp_from_host: once its time has come, the link layer     *)
(* ends the switch on its side, perhaps before the next tick of the PHY.   *)
LinkTraffic ==
  /\ link' = [link EXCEPT !.switching = @ /\ link.ready > 0]
  /\ UNCHANGED <<phy, forced, quiet>>

-----------------------------------------------------------------------------
(* Mutant: the removal leaves a training under way.                        *)
SignalPrsntTrains(present) ==
  IF phy.prsnt /\ ~present
  THEN /\ phy' = [Down(phy, "Detect") EXCEPT !.prsnt = FALSE]
       /\ forced' = FALSE /\ quiet' = ~phy.switching
       /\ UNCHANGED link
  ELSE /\ phy' = [phy EXCEPT !.prsnt = present]
       /\ UNCHANGED <<link, forced, quiet>>

(* A removal takes the link down; a rate switch under way is not stopped.  *)
SignalPrsnt(present) ==
  IF phy.prsnt /\ ~present
  THEN /\ phy' = [Detected(phy) EXCEPT !.prsnt = FALSE]
       /\ forced' = FALSE /\ quiet' = ~phy.switching
       /\ UNCHANGED link
  ELSE /\ phy' = [phy EXCEPT !.prsnt = present]
       /\ UNCHANGED <<link, forced, quiet>>

(* signal_mrl, signal_pwrgood and signal_refclk: one bit for the three.    *)
SignalSlot(ok) ==
  /\ phy' = [phy EXCEPT !.slot = ok]
  /\ UNCHANGED <<link, forced, quiet>>

SignalPerst(asserted) ==
  LET q == IF asserted
           THEN IF phy.state \in {"Recovery", "Hot_Reset"} THEN Down(phy, "Hot_Reset")
                ELSE Detected(phy)
           ELSE IF phy.prsnt /\ phy.slot THEN StartTraining(phy) ELSE phy
  IN  /\ phy' = q
      /\ forced' = (forced /\ q.up)
      /\ UNCHANGED <<link, quiet>>

-----------------------------------------------------------------------------
(* PciePhyDigitalCtrl::tick, in the order of its parts: a step of the      *)
(* training, the end of a rate switch, ASPM entry, ASPM exit.              *)
AfterState(s) ==
  CASE s = "Detect" -> "Polling" [] s = "Polling" -> "Configuration" [] OTHER -> s

Trained(p) ==
  IF ~p.training THEN p
  ELSE IF p.state = "Configuration" THEN [Up(p) EXCEPT !.training = FALSE]
  ELSE [p EXCEPT !.state = AfterState(@)]

Switched(p) ==
  IF p.switching /\ link.ready = 0
  THEN [Up(p) EXCEPT !.switching = FALSE, !.rate = p.to] ELSE p

Idled(p) ==
  IF /\ p.aspm # "Off" /\ p.state = "L0"
     /\ p.idle >= (IF p.aspm = "L0s" THEN IdleL0s ELSE IdleL1)
  THEN Down(p, p.aspm) ELSE p

Woken(p) ==
  IF p.exit /\ p.wait >= (IF p.state = "L0s" THEN ExitL0s ELSE ExitL1)
  THEN [ExitLowPower(p) EXCEPT !.exit = FALSE] ELSE p

AtMost(n, bound) == IF n < bound THEN n ELSE bound

(* PcieLinkPhyMuxTLM::tick, and the cycle that then passes.                *)
LpmTick ==
  LET p == Woken(Idled(Switched(Trained(phy))))
  IN  /\ phy' = [p EXCEPT !.idle = AtMost(@ + 1, IdleL1),
                          !.wait = AtMost(@ + 1, ExitL1)]
      /\ link' = [switching |-> link.switching /\ link.ready > 0,
                  ready |-> IF link.ready > 0 THEN link.ready - 1 ELSE 0]
      /\ forced' = (forced /\ p.up /\ p.state # "L0")
      /\ UNCHANGED quiet

PhyNext ==
  \/ StartLinkTraining \/ ExitLow \/ OnTraffic \/ LinkTraffic
  \/ \E up \in BOOLEAN :
       SetLinkUp(up) \/ SignalPrsnt(up) \/ SignalSlot(up) \/ SignalPerst(up)
  \/ \E s \in LowPower : SetActiveState(s)
  \/ \E s \in {"Disabled", "Loopback", "Hot_Reset"} : EnterState(s)
  \/ \E r \in Rates : StartRateSwitch(r)
  \/ \E l \in AspmLevel : EnableAspm(l)
  \/ LpmTick

PhySpec == PhyInit /\ [][PhyNext]_phyVars
-----------------------------------------------------------------------------
PhyTypeOK ==
  /\ phy.state \in LtState /\ phy.aspm \in AspmLevel
  /\ phy.idle \in 0..IdleL1 /\ phy.wait \in 0..ExitL1
  /\ link.ready \in 0..SwitchDelay

(* The link reports itself up exactly in L0, whatever order training, rate *)
(* switches, low power, resets and removals come in, unless set_link_up    *)
(* said otherwise and nothing decided it since; and a card that was taken  *)
(* out stays down while nobody asks for anything, unless a rate switch was *)
(* under way when it was taken.                                            *)
UpIsL0 == ~forced => (phy.up <=> phy.state = "L0")

(* The link layer is never in a rate switch that the PHY is not in, and    *)
(* the PHY is in one alone only when its time has passed.                  *)
SwitchInStep ==
  /\ link.switching => phy.switching
  /\ phy.switching => link.switching \/ link.ready = 0

RemovedStaysDown == quiet /\ ~phy.prsnt => ~phy.up

LinkStateSound == UpIsL0 /\ SwitchInStep /\ RemovedStaysDown

=============================================================================
