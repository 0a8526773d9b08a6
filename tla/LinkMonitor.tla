---------------------------- MODULE LinkMonitor -----------------------------
(***************************************************************************)
(* How the firmware follows the Ethernet cable: the PHY's interrupt line,  *)
(* the EXTI line it drives, the interrupt handler EXTI15_10_IRQHandler,    *)
(* the boot sequence ETH_BSP_Config ; LwIP_Init that the handler may       *)
(* preempt anywhere, and the flags of the network interface gnetif, which  *)
(* both of them write.                                                     *)
(*                                                                         *)
(* The handler has priority over the main program: while it runs, the main *)
(* program takes no step.  The PHY is hardware: it latches a change of the *)
(* link in MISR, drives INT low while the latch is set and the interrupt   *)
(* enabled, and reading MISR clears the latch.  EXTI is set for falling    *)
(* edges, so it sees only a change that finds INT high.                    *)
(*                                                                         *)
(* Every wait of ETH_Init, and a write of a PHY register at boot, may time *)
(* out whatever the link is.  A read of a PHY register is taken to finish. *)
(*                                                                         *)
(* The mode the PHY negotiated is the set of MACCR bits it calls for: FES  *)
(* for 100 Mbit/s, DM for full duplex.                                     *)
(***************************************************************************)
EXTENDS Naturals

CONSTANTS Modes,       \* the modes the other end of the cable may negotiate
          MaxChanges,  \* bound: how often the cable is plugged or unplugged
          Windows      \* the phases in which it may be, beside the quiet ones

Bits == {"FES", "DM"}

ASSUME LinkAssumption ==
  /\ Modes \subseteq SUBSET Bits /\ Modes # {}
  /\ MaxChanges \in Nat
  /\ Windows \subseteq {"boot", "handler"}

VARIABLES
  up,          \* PHY_SR bit 0: the link is valid
  mode,        \* what the PHY negotiated, meaningful while up
  changes,     \* how often the cable has been plugged or unplugged
  disturbed,   \* history: it has been outside the quiet phases
  gaveUp,      \* history: ETH_Init failed with the link up, and it has not changed since
  misr,        \* MISR, link status changed since it was last read
  intEnabled,  \* MISR link interrupt enable (with MICR INT_EN and INT_OE)
  extiOn,      \* the EXTI line and its NVIC channel are configured
  pending,     \* the EXTI pending bit
  pc,          \* where the main program is
  ethStatus,   \* EthStatus, a subset of {"init", "link"}
  reg,         \* gnetif.flags as the main program loaded it
  isr,         \* where EXTI15_10_IRQHandler is, or "idle"
  flags,       \* gnetif.flags: NETIF_FLAG_UP and NETIF_FLAG_LINK_UP
  callback,    \* gnetif.link_callback is ETH_link_callback
  maccr,       \* the FES and DM bits of ETH->MACCR
  wanted,      \* ETH_InitStructure: ETH_Speed | ETH_Mode
  running      \* the MAC and its DMA are started

phyVars  == <<up, mode, changes, disturbed, gaveUp>>
mainVars == <<pc, ethStatus, reg>>
macVars  == <<maccr, wanted, running>>
vars == <<phyVars, misr, intEnabled, extiOn, pending, mainVars, isr, flags,
          callback, macVars>>

Init ==
  /\ up \in BOOLEAN /\ mode \in Modes
  /\ changes = 0 /\ disturbed = FALSE /\ gaveUp = FALSE
  /\ misr \in BOOLEAN
  /\ intEnabled = FALSE /\ extiOn = FALSE /\ pending = FALSE
  /\ pc = "waitLink" /\ isr = "idle"
  /\ ethStatus = {} /\ reg = {} /\ flags = {} /\ callback = FALSE
  /\ maccr = {} /\ wanted = {} /\ running = FALSE

-----------------------------------------------------------------------------
(* The cable.                                                              *)

\* A phase of the program with no decision about the link under way: before
\* the boot first looks at it, and in the main loop with no interrupt open.
Quiet == pc = "waitLink" \/ (pc = "running" /\ isr = "idle" /\ ~pending)

MayChange ==
  \/ Quiet
  \/ "boot" \in Windows /\ pc # "running"
  \/ "handler" \in Windows /\ pc = "running"

\* INT falls, and sets the pending bit, when the latch goes from clear to set.
LinkChange ==
  /\ changes < MaxChanges /\ MayChange
  /\ up' = ~up
  /\ IF up THEN mode' = mode ELSE mode' \in Modes
  /\ changes' = changes + 1
  /\ disturbed' = (disturbed \/ ~Quiet)
  /\ gaveUp' = FALSE
  /\ misr' = TRUE
  /\ pending' = (pending \/ (extiOn /\ intEnabled /\ ~misr))
  /\ UNCHANGED <<intEnabled, extiOn, mainVars, isr, flags, callback, macVars>>

-----------------------------------------------------------------------------
(* Steps of the main program, which needs the processor to itself, and of  *)
(* the handler.                                                            *)

Main(from, to) == isr = "idle" /\ pc = from /\ pc' = to
Isr(from, to)  == isr = from /\ isr' = to

lwipUnchanged == UNCHANGED <<phyVars, misr, intEnabled, extiOn, pending,
                             ethStatus, isr, maccr, wanted>>
isrUnchanged == UNCHANGED <<phyVars, intEnabled, extiOn, mainVars, callback>>

-----------------------------------------------------------------------------
(* Plausible mistakes in the code; each breaks one property below.         *)

HandlerTrustsPin ==
  /\ Isr("readMisr", "readStatus")
  /\ isrUnchanged /\ UNCHANGED <<misr, pending, flags, macVars>>

NeverRegisters ==
  /\ Main("register", "running")
  /\ lwipUnchanged /\ UNCHANGED <<reg, flags, callback, running>>

StopsMacOnly ==
  /\ Isr("stop", "clear")
  /\ running' = FALSE
  /\ isrUnchanged /\ UNCHANGED <<misr, pending, flags, maccr, wanted>>

UpBeforeStart ==
  /\ Isr("autoneg", "setUp")
  /\ wanted' \in (IF up THEN {mode} ELSE SUBSET Bits)
  /\ maccr' = maccr \union wanted'
  /\ isrUnchanged /\ UNCHANGED <<misr, pending, flags, running>>

-----------------------------------------------------------------------------
(* The main program: ETH_Init and the rest of ETH_BSP_Config.              *)

\* ETH_Init gives up on the PHY: 100 Mbit/s, full duplex.
InitFailed ==
  /\ Main(pc, "readStatus")
  /\ gaveUp' = up
  /\ ethStatus' = {}
  /\ maccr' = Bits /\ wanted' = Bits

\* With a link too: the write that resets the PHY may time out, or the link be
\* seen by the last read only, which the code takes for a timeout.
WaitLink ==
  /\ pc = "waitLink"
  /\ \/ InitFailed
     \/ /\ up
        /\ Main("waitLink", "waitAutoneg")
        /\ UNCHANGED <<gaveUp, ethStatus, maccr, wanted>>
  /\ UNCHANGED <<up, mode, changes, disturbed, misr, intEnabled, extiOn, pending, reg,
                 isr, flags, callback, running>>

\* And here the write that enables the autonegotiation, or the autonegotiation.
WaitAutoneg ==
  /\ pc = "waitAutoneg"
  /\ \/ InitFailed
     \/ /\ up
        /\ Main("waitAutoneg", "readStatus")
        /\ ethStatus' = {"init"}
        /\ wanted' = mode /\ maccr' = mode
        /\ UNCHANGED gaveUp
  /\ UNCHANGED <<up, mode, changes, disturbed, misr, intEnabled, extiOn, pending, reg,
                 isr, flags, callback, running>>

ReadStatus ==
  /\ Main("readStatus", "clearMisr")
  /\ ethStatus' = IF up THEN ethStatus \union {"link"} ELSE ethStatus
  /\ UNCHANGED <<phyVars, misr, intEnabled, extiOn, pending, reg, isr, flags,
                 callback, macVars>>

\* Eth_Link_PHYITConfig writes MICR, and gives up if that times out; then it reads
\* MISR, which clears the latch, to set its enable bit.
ClearMisr ==
  /\ \/ Main("clearMisr", "enableInt") /\ misr' = FALSE
     \/ Main("clearMisr", "configExti") /\ UNCHANGED misr
  /\ UNCHANGED <<phyVars, intEnabled, extiOn, pending, ethStatus, reg, isr,
                 flags, callback, macVars>>

\* This write may time out too, and ETH_BSP_Config does not look at the result.
EnableInt ==
  /\ Main("enableInt", "configExti")
  /\ intEnabled' \in BOOLEAN
  /\ UNCHANGED <<phyVars, misr, extiOn, pending, ethStatus, reg, isr, flags,
                 callback, macVars>>

ConfigExti ==
  /\ Main("configExti", "netifAdd")
  /\ extiOn' = TRUE
  /\ UNCHANGED <<phyVars, misr, intEnabled, pending, ethStatus, reg, isr, flags,
                 callback, macVars>>

-----------------------------------------------------------------------------
(* The main program: LwIP_Init.  An update of gnetif.flags is a load and a *)
(* store, with the handler possibly between them.                          *)

NetifAdd ==
  /\ Main("netifAdd", "lowLevelInit")
  /\ flags' = {} /\ callback' = FALSE
  /\ lwipUnchanged /\ UNCHANGED <<reg, running>>

LowLevelInit ==
  /\ Main("lowLevelInit", "ethStart")
  /\ flags' = {}
  /\ lwipUnchanged /\ UNCHANGED <<reg, callback, running>>

EthStart ==
  /\ Main("ethStart", "checkStatus")
  /\ running' = TRUE
  /\ lwipUnchanged /\ UNCHANGED <<reg, flags, callback>>

CheckStatus ==
  /\ IF ethStatus = {"init", "link"} THEN Main("checkStatus", "loadLink")
                                     ELSE Main("checkStatus", "setDown")
  /\ lwipUnchanged /\ UNCHANGED <<reg, flags, callback, running>>

LoadFlags ==
  /\ \/ Main("loadLink", "storeLink")
     \/ /\ pc = "loadUp"
        /\ IF "up" \in flags THEN Main("loadUp", "register")
                             ELSE Main("loadUp", "storeUp")
  /\ reg' = flags
  /\ lwipUnchanged /\ UNCHANGED <<flags, callback, running>>

StoreFlags ==
  /\ \/ Main("storeLink", "loadUp") /\ flags' = reg \union {"linkUp"}
     \/ Main("storeUp", "register") /\ flags' = reg \union {"up"}
  /\ lwipUnchanged /\ UNCHANGED <<reg, callback, running>>

\* netif_set_down finds the interface down already: it was only just added.
SetDownAtBoot ==
  /\ Main("setDown", "register")
  /\ flags' = flags \ {"up"}
  /\ lwipUnchanged /\ UNCHANGED <<reg, callback, running>>

RegisterCallback ==
  /\ Main("register", "running")
  /\ callback' = TRUE
  /\ lwipUnchanged /\ UNCHANGED <<reg, flags, running>>

Boot == \/ WaitLink \/ WaitAutoneg \/ ReadStatus \/ ClearMisr \/ EnableInt
        \/ ConfigExti \/ NetifAdd \/ LowLevelInit \/ EthStart \/ CheckStatus
        \/ LoadFlags \/ StoreFlags \/ SetDownAtBoot \/ RegisterCallback

-----------------------------------------------------------------------------
(* The interrupt handler.                                                  *)

EnterHandler ==
  /\ pending /\ extiOn
  /\ Isr("idle", "readMisr")
  /\ isrUnchanged /\ UNCHANGED <<misr, pending, flags, macVars>>

ReadMisr ==
  /\ Isr("readMisr", IF misr THEN "readStatus" ELSE "clear")
  /\ misr' = FALSE
  /\ isrUnchanged /\ UNCHANGED <<pending, flags, macVars>>

ReadPhyStatus ==
  /\ Isr("readStatus", IF up THEN "linkUp" ELSE "linkDown")
  /\ isrUnchanged /\ UNCHANGED <<misr, pending, flags, macVars>>

\* netif_set_link_up and netif_set_link_down: the callback, when there is one,
\* is called only if the flag changes.
SetLinkUp ==
  /\ Isr("linkUp", IF "linkUp" \notin flags /\ callback THEN "autoneg" ELSE "clear")
  /\ flags' = flags \union {"linkUp"}
  /\ isrUnchanged /\ UNCHANGED <<misr, pending, macVars>>

SetLinkDown ==
  /\ Isr("linkDown", IF "linkUp" \in flags /\ callback THEN "stop" ELSE "clear")
  /\ flags' = flags \ {"linkUp"}
  /\ isrUnchanged /\ UNCHANGED <<misr, pending, macVars>>

\* ETH_link_callback, link up: the mode bits read from the PHY are or'ed into
\* MACCR.  They say nothing of use when the link is lost meanwhile.
Autoneg ==
  /\ Isr("autoneg", "start")
  /\ wanted' \in (IF up THEN {mode} ELSE SUBSET Bits)
  /\ maccr' = maccr \union wanted'
  /\ isrUnchanged /\ UNCHANGED <<misr, pending, flags, running>>

StartMac ==
  /\ Isr("start", "setUp")
  /\ running' = TRUE
  /\ isrUnchanged /\ UNCHANGED <<misr, pending, flags, maccr, wanted>>

SetUp ==
  /\ Isr("setUp", "clear")
  /\ flags' = flags \union {"up"}
  /\ isrUnchanged /\ UNCHANGED <<misr, pending, macVars>>

\* ETH_link_callback, link down.
StopMac ==
  /\ Isr("stop", "setDown")
  /\ running' = FALSE
  /\ isrUnchanged /\ UNCHANGED <<misr, pending, flags, maccr, wanted>>

SetDown ==
  /\ Isr("setDown", "clear")
  /\ flags' = flags \ {"up"}
  /\ isrUnchanged /\ UNCHANGED <<misr, pending, macVars>>

\* EXTI_ClearITPendingBit, the last thing the handler does.
ClearPending ==
  /\ Isr("clear", "idle")
  /\ pending' = FALSE
  /\ isrUnchanged /\ UNCHANGED <<misr, flags, macVars>>

Handler == \/ EnterHandler \/ ReadMisr \/ ReadPhyStatus \/ SetLinkUp \/ SetLinkDown
           \/ Autoneg \/ StartMac \/ SetUp \/ StopMac \/ SetDown \/ ClearPending

Next == LinkChange \/ Boot \/ Handler

Spec == Init /\ [][Next]_vars

\* The CPU executes instructions: the handler when it is active or pending,
\* otherwise the boot sequence, every wait of which is bounded by a timeout.
Fairness == WF_vars(Boot) /\ WF_vars(Handler)

FairSpec == Spec /\ Fairness

-----------------------------------------------------------------------------
TypeOK ==
  /\ up \in BOOLEAN /\ mode \in Modes /\ changes \in 0 .. MaxChanges
  /\ disturbed \in BOOLEAN /\ gaveUp \in BOOLEAN
  /\ misr \in BOOLEAN /\ intEnabled \in BOOLEAN /\ extiOn \in BOOLEAN
  /\ pending \in BOOLEAN
  /\ pc \in {"waitLink", "waitAutoneg", "readStatus", "clearMisr", "enableInt",
             "configExti", "netifAdd", "lowLevelInit", "ethStart", "checkStatus",
             "loadLink", "storeLink", "loadUp", "storeUp", "setDown", "register",
             "running"}
  /\ ethStatus \subseteq {"init", "link"}
  /\ isr \in {"idle", "readMisr", "readStatus", "linkUp", "autoneg", "start", "setUp",
              "linkDown", "stop", "setDown", "clear"}
  /\ reg \subseteq {"up", "linkUp"} /\ flags \subseteq {"up", "linkUp"}
  /\ callback \in BOOLEAN
  /\ maccr \subseteq Bits /\ wanted \subseteq Bits /\ running \in BOOLEAN

NetifUp == "up" \in flags

(***************************************************************************)
(* lwIP sends only through an interface that is up; while gnetif is up the *)
(* MAC is started, wherever the handler preempted the boot, except inside  *)
(* the callback between ETH_Stop and netif_set_down.                       *)
(***************************************************************************)
UpMeansRunning == NetifUp /\ isr # "setDown" => running

(***************************************************************************)
(* When ETH_link_callback has run, the link flag, the interface and the    *)
(* MAC say the same, whatever the cable did while it ran.                  *)
(***************************************************************************)
CallbackAgrees ==
  [][ isr' = "clear" /\ isr \in {"setUp", "setDown", "start", "stop"}
        => NetifUp' = running' /\ NetifUp' = ("linkUp" \in flags') ]_vars

(***************************************************************************)
(* A change of the link the PHY has latched is one the handler is going to *)
(* see: its interrupt is pending.  Otherwise INT stays low, no falling     *)
(* edge ever comes again, and the firmware is deaf to the cable.  That     *)
(* much is lost for good once a change has come outside the quiet phases,  *)
(* or when the boot could not enable the PHY's interrupt.                  *)
(***************************************************************************)
LatchedMeansPending ==
  ~disturbed /\ intEnabled => (pc = "running" /\ isr = "idle" /\ misr => pending)

(***************************************************************************)
(* The interface follows the cable: "this function is called on change of  *)
(* link status" (ETH_link_callback), so gnetif does not stay up without a  *)
(* link, nor down with one, as long as the cable only changes in the quiet *)
(* phases.  The code excepts two boots from this.  If ETH_Init fails       *)
(* although there is a link, the interface is set down with the cable in,  *)
(* and stays so until the cable changes: from then on it follows again.    *)
(* And if Eth_Link_PHYITConfig fails, no interrupt ever comes.             *)
(***************************************************************************)
Deaf == pc = "running" /\ ~intEnabled
LinkFollowed == NetifUp # up ~> NetifUp = up \/ disturbed \/ gaveUp \/ Deaf

(***************************************************************************)
(* The same whenever the cable changes, which the code does not achieve.   *)
(***************************************************************************)
LinkAlwaysFollowed == NetifUp # up ~> NetifUp = up \/ gaveUp \/ Deaf

(***************************************************************************)
(* The MAC works in the mode the PHY negotiated: "Configure the MAC with   *)
(* the speed fixed by the auto-negotiation process" (ETH_link_callback).   *)
(***************************************************************************)
MacModeFollowsPhy == maccr = wanted
=============================================================================
