-------------------------- MODULE LinkMonitorProofs --------------------------
(***************************************************************************)
(* Proofs about LinkMonitor, for every set of modes, every number of       *)
(* changes of the cable and every choice of the phases in which it may     *)
(* change: the type invariant, UpMeansRunning, CallbackAgrees and          *)
(* LatchedMeansPending.                                                    *)
(***************************************************************************)
EXTENDS LinkMonitor, TLAPS

(***************************************************************************)
(* The boot sequence has started the MAC and not yet registered the        *)
(* callback that could stop it.                                            *)
(***************************************************************************)
Started == {"checkStatus", "loadLink", "storeLink", "loadUp", "storeUp", "setDown",
            "register"}

\* Until the callback is registered, the handler only moves the link flag.
BootInv ==
  /\ callback <=> pc = "running"
  /\ pc \in Started => running
  /\ pc \in {"storeLink", "storeUp"} => "up" \notin reg
  /\ NetifUp => pc \in {"register", "running"}
  /\ isr \in {"autoneg", "start", "setUp", "stop", "setDown"} => callback

\* The callback runs with the link flag that made netif_set_link_up or
\* netif_set_link_down call it.
CallbackInv ==
  /\ isr \in {"autoneg", "start", "setUp"} => "linkUp" \in flags
  /\ isr \in {"stop", "setDown"} => "linkUp" \notin flags
  /\ isr = "setUp" => running
  /\ isr = "setDown" => ~running
  /\ UpMeansRunning

LinkInv == BootInv /\ CallbackInv

-----------------------------------------------------------------------------
(* Every step keeps the types. *)
LEMMA TypeStep == ASSUME TypeOK, [Next]_vars PROVE TypeOK'
  <1> USE LinkAssumption DEF TypeOK, Bits
  <1>1. CASE LinkChange
    <2>1. disturbed' \in BOOLEAN /\ gaveUp' \in BOOLEAN /\ pending' \in BOOLEAN /\ up' \in BOOLEAN
      BY <1>1, Zenon DEF LinkChange
    <2>2. misr' \in BOOLEAN /\ mode' \in Modes /\ changes' \in 0 .. MaxChanges
      BY <1>1 DEF LinkChange
    <2>3. UNCHANGED <<intEnabled, extiOn, mainVars, isr, flags, callback, macVars>>
      BY <1>1 DEF LinkChange
    <2> QED BY <2>1, <2>2, <2>3 DEF mainVars, macVars
  <1>2. CASE WaitLink
    BY <1>2, ZenonT(60) DEF WaitLink, InitFailed, Main, vars, phyVars, mainVars, macVars
  <1>3. CASE WaitAutoneg
    BY <1>3, ZenonT(60) DEF WaitAutoneg, InitFailed, Main, vars, phyVars, mainVars, macVars
  <1>4. CASE ReadStatus
    BY <1>4 DEF ReadStatus, Main, vars, phyVars, mainVars, macVars
  <1>5. CASE ClearMisr
    BY <1>5, ZenonT(60) DEF ClearMisr, Main, vars, phyVars, mainVars, macVars
  <1>6. CASE EnableInt
    BY <1>6 DEF EnableInt, Main, vars, phyVars, mainVars, macVars
  <1>7. CASE ConfigExti
    BY <1>7 DEF ConfigExti, Main, vars, phyVars, mainVars, macVars
  <1>8. CASE NetifAdd
    BY <1>8, ZenonT(60) DEF NetifAdd, Main, lwipUnchanged, vars, phyVars, mainVars, macVars
  <1>9. CASE LowLevelInit
    BY <1>9 DEF LowLevelInit, Main, lwipUnchanged, vars, phyVars, mainVars, macVars
  <1>10. CASE EthStart
    BY <1>10 DEF EthStart, Main, lwipUnchanged, vars, phyVars, mainVars, macVars
  <1>11. CASE CheckStatus
    BY <1>11 DEF CheckStatus, Main, lwipUnchanged, vars, phyVars, mainVars, macVars
  <1>12. CASE LoadFlags
    BY <1>12 DEF LoadFlags, Main, lwipUnchanged, vars, phyVars, mainVars, macVars
  <1>13. CASE StoreFlags
    BY <1>13, ZenonT(60) DEF StoreFlags, Main, lwipUnchanged, vars, phyVars, mainVars, macVars
  <1>14. CASE SetDownAtBoot
    BY <1>14 DEF SetDownAtBoot, Main, lwipUnchanged, vars, phyVars, mainVars, macVars
  <1>15. CASE RegisterCallback
    BY <1>15 DEF RegisterCallback, Main, lwipUnchanged, vars, phyVars, mainVars, macVars
  <1>16. CASE EnterHandler
    BY <1>16 DEF EnterHandler, Isr, isrUnchanged, vars, phyVars, mainVars, macVars
  <1>17. CASE ReadMisr
    <2>1. isr' \in {"readStatus", "clear"} /\ misr' = FALSE
      BY <1>17 DEF ReadMisr, Isr
    <2>2. UNCHANGED <<phyVars, intEnabled, extiOn, mainVars, callback, pending, flags,
                      macVars>>
      BY <1>17 DEF ReadMisr, isrUnchanged
    <2>3. misr' \in BOOLEAN
      BY <2>1
    <2>4. isr' \in {"idle", "readMisr", "readStatus", "linkUp", "autoneg", "start", "setUp",
                    "linkDown", "stop", "setDown", "clear"}
      BY <2>1
    <2> QED BY <2>2, <2>3, <2>4 DEF phyVars, mainVars, macVars
  <1>18. CASE ReadPhyStatus
    BY <1>18 DEF ReadPhyStatus, Isr, isrUnchanged, vars, phyVars, mainVars, macVars
  <1>19. CASE SetLinkUp
    BY <1>19 DEF SetLinkUp, Isr, isrUnchanged, vars, phyVars, mainVars, macVars
  <1>20. CASE SetLinkDown
    BY <1>20 DEF SetLinkDown, Isr, isrUnchanged, vars, phyVars, mainVars, macVars
  <1>21. CASE Autoneg
    BY <1>21 DEF Autoneg, Isr, isrUnchanged, vars, phyVars, mainVars, macVars
  <1>22. CASE StartMac
    BY <1>22 DEF StartMac, Isr, isrUnchanged, vars, phyVars, mainVars, macVars
  <1>23. CASE SetUp
    BY <1>23 DEF SetUp, Isr, isrUnchanged, vars, phyVars, mainVars, macVars
  <1>24. CASE StopMac
    BY <1>24, ZenonT(60) DEF StopMac, Isr, isrUnchanged, vars, phyVars, mainVars, macVars
  <1>25. CASE SetDown
    BY <1>25 DEF SetDown, Isr, isrUnchanged, vars, phyVars, mainVars, macVars
  <1>26. CASE ClearPending
    BY <1>26, ZenonT(60) DEF ClearPending, Isr, isrUnchanged, vars, phyVars, mainVars, macVars
  <1>27. CASE UNCHANGED vars
    BY <1>27 DEF vars, phyVars, mainVars, macVars
  <1> QED
    BY <1>1, <1>2, <1>3, <1>4, <1>5, <1>6, <1>7, <1>8, <1>9, <1>10, <1>11, <1>12, <1>13, <1>14, <1>15, <1>16, <1>17, <1>18, <1>19, <1>20, <1>21, <1>22, <1>23, <1>24, <1>25, <1>26, <1>27 DEF Next, Boot, Handler

(***************************************************************************)
(* Every variable has its type throughout the boot and the handler.        *)
(***************************************************************************)
THEOREM TypeCorrect == Spec => []TypeOK
  <1>1. ASSUME Init PROVE TypeOK
    <2> USE <1>1 DEF Init
    <2>1. changes \in 0 .. MaxChanges
      BY LinkAssumption
    <2>2. /\ pc \in {"waitLink", "waitAutoneg", "readStatus", "clearMisr", "enableInt",
                   "configExti", "netifAdd", "lowLevelInit", "ethStart", "checkStatus",
                   "loadLink", "storeLink", "loadUp", "storeUp", "setDown", "register",
                   "running"}
          /\ isr \in {"idle", "readMisr", "readStatus", "linkUp", "autoneg", "start",
                   "setUp", "linkDown", "stop", "setDown", "clear"}
      OBVIOUS
    <2>3. /\ ethStatus \subseteq {"init", "link"}
          /\ reg \subseteq {"up", "linkUp"} /\ flags \subseteq {"up", "linkUp"}
          /\ maccr \subseteq Bits /\ wanted \subseteq Bits
      OBVIOUS
    <2> QED BY <2>1, <2>2, <2>3 DEF TypeOK
  <1>2. TypeOK /\ [Next]_vars => TypeOK'
    BY TypeStep
  <1> QED BY <1>1, <1>2, PTL DEF Spec

-----------------------------------------------------------------------------
(* Every step keeps what holds of the boot and of the callback. *)
LEMMA LinkStep == ASSUME TypeOK, LinkInv, [Next]_vars PROVE LinkInv'
  <1> USE DEF TypeOK, LinkInv, BootInv, CallbackInv, UpMeansRunning, NetifUp, Started
  <1>1. CASE LinkChange
    BY <1>1 DEF LinkChange, vars, phyVars, mainVars, macVars
  <1>2. CASE WaitLink
    BY <1>2 DEF WaitLink, InitFailed, Main, vars, phyVars, mainVars, macVars
  <1>3. CASE WaitAutoneg
    BY <1>3 DEF WaitAutoneg, InitFailed, Main, vars, phyVars, mainVars, macVars
  <1>4. CASE ReadStatus
    BY <1>4 DEF ReadStatus, Main, vars, phyVars, mainVars, macVars
  <1>5. CASE ClearMisr
    BY <1>5 DEF ClearMisr, Main, vars, phyVars, mainVars, macVars
  <1>6. CASE EnableInt
    BY <1>6 DEF EnableInt, Main, vars, phyVars, mainVars, macVars
  <1>7. CASE ConfigExti
    BY <1>7 DEF ConfigExti, Main, vars, phyVars, mainVars, macVars
  <1>8. CASE NetifAdd
    BY <1>8 DEF NetifAdd, Main, lwipUnchanged, vars, phyVars, mainVars, macVars
  <1>9. CASE LowLevelInit
    BY <1>9 DEF LowLevelInit, Main, lwipUnchanged, vars, phyVars, mainVars, macVars
  <1>10. CASE EthStart
    BY <1>10 DEF EthStart, Main, lwipUnchanged, vars, phyVars, mainVars, macVars
  <1>11. CASE CheckStatus
    BY <1>11 DEF CheckStatus, Main, lwipUnchanged, vars, phyVars, mainVars, macVars
  <1>12. CASE LoadFlags
    BY <1>12 DEF LoadFlags, Main, lwipUnchanged, vars, phyVars, mainVars, macVars
  <1>13. CASE StoreFlags
    BY <1>13 DEF StoreFlags, Main, lwipUnchanged, vars, phyVars, mainVars, macVars
  <1>14. CASE SetDownAtBoot
    BY <1>14 DEF SetDownAtBoot, Main, lwipUnchanged, vars, phyVars, mainVars, macVars
  <1>15. CASE RegisterCallback
    BY <1>15 DEF RegisterCallback, Main, lwipUnchanged, vars, phyVars, mainVars, macVars
  <1>16. CASE EnterHandler
    BY <1>16 DEF EnterHandler, Isr, isrUnchanged, vars, phyVars, mainVars, macVars
  <1>17. CASE ReadMisr
    BY <1>17 DEF ReadMisr, Isr, isrUnchanged, vars, phyVars, mainVars, macVars
  <1>18. CASE ReadPhyStatus
    BY <1>18 DEF ReadPhyStatus, Isr, isrUnchanged, vars, phyVars, mainVars, macVars
  <1>19. CASE SetLinkUp
    BY <1>19 DEF SetLinkUp, Isr, isrUnchanged, vars, phyVars, mainVars, macVars
  <1>20. CASE SetLinkDown
    BY <1>20 DEF SetLinkDown, Isr, isrUnchanged, vars, phyVars, mainVars, macVars
  <1>21. CASE Autoneg
    BY <1>21 DEF Autoneg, Isr, isrUnchanged, vars, phyVars, mainVars, macVars
  <1>22. CASE StartMac
    BY <1>22 DEF StartMac, Isr, isrUnchanged, vars, phyVars, mainVars, macVars
  <1>23. CASE SetUp
    BY <1>23 DEF SetUp, Isr, isrUnchanged, vars, phyVars, mainVars, macVars
  <1>24. CASE StopMac
    BY <1>24 DEF StopMac, Isr, isrUnchanged, vars, phyVars, mainVars, macVars
  <1>25. CASE SetDown
    BY <1>25 DEF SetDown, Isr, isrUnchanged, vars, phyVars, mainVars, macVars
  <1>26. CASE ClearPending
    BY <1>26 DEF ClearPending, Isr, isrUnchanged, vars, phyVars, mainVars, macVars
  <1>27. CASE UNCHANGED vars
    BY <1>27 DEF vars, phyVars, mainVars, macVars
  <1> QED
    BY <1>1, <1>2, <1>3, <1>4, <1>5, <1>6, <1>7, <1>8, <1>9, <1>10, <1>11, <1>12, <1>13, <1>14, <1>15, <1>16, <1>17, <1>18, <1>19, <1>20, <1>21, <1>22, <1>23, <1>24, <1>25, <1>26, <1>27 DEF Next, Boot, Handler

LEMMA LinkInvariance == Spec => []LinkInv
  <1>1. Init => LinkInv
    BY DEF Init, LinkInv, BootInv, CallbackInv, UpMeansRunning, NetifUp, Started
  <1>2. TypeOK /\ LinkInv /\ [Next]_vars => LinkInv'
    BY LinkStep
  <1> QED BY <1>1, <1>2, TypeCorrect, PTL DEF Spec

(***************************************************************************)
(* While gnetif is up the MAC is started, except between ETH_Stop and      *)
(* netif_set_down, wherever the handler preempts the boot and whatever the *)
(* cable does.                                                             *)
(***************************************************************************)
THEOREM NoSendOnStoppedMac == Spec => []UpMeansRunning
  <1>1. LinkInv => UpMeansRunning
    BY DEF LinkInv, CallbackInv
  <1> QED BY <1>1, LinkInvariance, PTL

(***************************************************************************)
(* When ETH_link_callback has run, the link flag, the interface and the    *)
(* MAC agree.                                                              *)
(***************************************************************************)
THEOREM CallbackLeavesAgreement == Spec => CallbackAgrees
  <1> DEFINE Agrees == isr' = "clear" /\ isr \in {"setUp", "setDown", "start", "stop"}
                        => NetifUp' = running' /\ NetifUp' = ("linkUp" \in flags')
  <1>1. TypeOK /\ LinkInv /\ [Next]_vars => [Agrees]_vars
    <2> SUFFICES ASSUME TypeOK, LinkInv, Next, isr' = "clear",
                        isr \in {"setUp", "setDown", "start", "stop"}
                 PROVE  NetifUp' = running' /\ NetifUp' = ("linkUp" \in flags')
      OBVIOUS
    <2> USE DEF TypeOK, LinkInv, CallbackInv, NetifUp
    <2>1. SetUp \/ SetDown
      <3>1. isr # "idle" /\ isr # isr' /\ isr # "clear"
        OBVIOUS
      <3>2. ~LinkChange
        BY <3>1 DEF LinkChange
      <3>3. ~Boot
        BY <3>1 DEF Boot, WaitLink, WaitAutoneg, ReadStatus, ClearMisr,
               EnableInt, ConfigExti, NetifAdd, LowLevelInit,
               EthStart, CheckStatus, LoadFlags, StoreFlags,
               SetDownAtBoot, RegisterCallback, InitFailed, Main
      <3>4. Handler => SetUp \/ SetDown
        BY DEF Handler, EnterHandler, ReadMisr, ReadPhyStatus, SetLinkUp,
               SetLinkDown, Autoneg, StartMac, SetUp, StopMac,
               SetDown, ClearPending, Isr
      <3> QED BY <3>2, <3>3, <3>4 DEF Next
    <2>2. CASE SetUp
      <3>1. running' = TRUE
        BY <2>2 DEF SetUp, Isr, macVars
      <3>2. "up" \in flags' /\ "linkUp" \in flags'
        BY <2>2 DEF SetUp, Isr
      <3> QED BY <3>1, <3>2
    <2>3. CASE SetDown
      BY <2>3 DEF SetDown, Isr, macVars
    <2> QED BY <2>1, <2>2, <2>3
  <1>2. []TypeOK /\ []LinkInv /\ [][Next]_vars => [][Agrees]_vars
    BY <1>1, PTL
  <1> QED BY <1>2, TypeCorrect, LinkInvariance, PTL DEF Spec, CallbackAgrees

-----------------------------------------------------------------------------
(***************************************************************************)
(* Before the first change of the cable outside the quiet phases, a latched*)
(* change always has its interrupt pending.  Until MISR is cleared at boot *)
(* the latch does not matter; from there to the main loop it stays clear,  *)
(* if the PHY's interrupt could be enabled.                                *)
(***************************************************************************)
Cleared == {"enableInt", "configExti", "netifAdd", "lowLevelInit", "ethStart"} \union Started

QuietInv ==
  /\ pc # "running" => isr = "idle" /\ ~pending
  /\ pc = "waitLink" => ~extiOn
  /\ pc \in Cleared /\ (intEnabled \/ pc = "enableInt") => ~misr
  /\ pc = "running" => extiOn
  /\ pc \in {"waitLink", "waitAutoneg", "readStatus", "clearMisr", "enableInt"} => ~intEnabled
  /\ pc \in Started \union {"netifAdd", "lowLevelInit", "ethStart"} => extiOn
  /\ isr \notin {"idle", "readMisr"} => ~misr
  /\ pc = "running" /\ isr = "idle" /\ misr /\ intEnabled => pending

LatchInv == ~disturbed => QuietInv

\* A change outside the quiet phases is remembered, and only the cable writes that.
LEMMA Disturbance ==
  ASSUME TypeOK, [Next]_vars, ~disturbed'
  PROVE  ~disturbed /\ (LinkChange => Quiet)
  <1>1. CASE LinkChange
    BY <1>1, Zenon DEF LinkChange
  <1>2. CASE ~LinkChange
    <2>1. UNCHANGED disturbed
      BY <1>2 DEF phyVars, Next, Boot, WaitLink, WaitAutoneg, ReadStatus, ClearMisr, EnableInt,
             ConfigExti, NetifAdd, LowLevelInit, EthStart, CheckStatus, LoadFlags,
             StoreFlags, SetDownAtBoot, RegisterCallback, lwipUnchanged, Handler,
             EnterHandler, ReadMisr, ReadPhyStatus, SetLinkUp, SetLinkDown, Autoneg,
             StartMac, SetUp, StopMac, SetDown, ClearPending, isrUnchanged, vars
    <2> QED BY <1>2, <2>1
  <1> QED BY <1>1, <1>2

LEMMA LatchStep == ASSUME TypeOK, LatchInv, [Next]_vars PROVE LatchInv'
  <1> SUFFICES ASSUME ~disturbed' PROVE QuietInv'
    BY DEF LatchInv
  <1>0. ~disturbed /\ QuietInv /\ (LinkChange => Quiet)
    BY Disturbance DEF LatchInv
  <1> USE <1>0 DEF TypeOK, QuietInv, Cleared, Started, Quiet
  <1>1. CASE LinkChange
    <2>1. CASE pc = "waitLink"
      <3>0. isr = "idle" /\ ~extiOn /\ ~pending
        BY <2>1
      <3>1. pc' = "waitLink" /\ isr' = "idle" /\ ~extiOn' /\ ~intEnabled'
        BY <1>1, <2>1, <3>0 DEF LinkChange, mainVars
      <3>2. pending' = (pending \/ (extiOn /\ intEnabled /\ ~misr))
        BY <1>1 DEF LinkChange
      <3>3. ~pending'
        BY <3>0, <3>2, Zenon
      <3> QED BY <3>1, <3>3
    <2>2. CASE pc = "running" /\ isr = "idle" /\ ~pending
      <3>1. pc' = "running" /\ isr' = "idle" /\ extiOn' /\ intEnabled' = intEnabled
        BY <1>1, <2>2 DEF LinkChange, mainVars
      <3>2. extiOn /\ (intEnabled => ~misr)
        BY <2>2
      <3>3. pending' = (pending \/ (extiOn /\ intEnabled /\ ~misr))
        BY <1>1 DEF LinkChange
      <3>4. intEnabled => pending'
        BY <3>2, <3>3, Zenon
      <3> QED BY <3>1, <3>4
    <2> QED BY <1>1, <2>1, <2>2 DEF LinkChange
  <1>2. CASE WaitLink
    BY <1>2 DEF WaitLink, InitFailed, Main, vars, phyVars, mainVars, macVars
  <1>3. CASE WaitAutoneg
    BY <1>3 DEF WaitAutoneg, InitFailed, Main, vars, phyVars, mainVars, macVars
  <1>4. CASE ReadStatus
    BY <1>4 DEF ReadStatus, Main, vars, phyVars, mainVars, macVars
  <1>5. CASE ClearMisr
    BY <1>5 DEF ClearMisr, Main, vars, phyVars, mainVars, macVars
  <1>6. CASE EnableInt
    BY <1>6 DEF EnableInt, Main, vars, phyVars, mainVars, macVars
  <1>7. CASE ConfigExti
    BY <1>7 DEF ConfigExti, Main, vars, phyVars, mainVars, macVars
  <1>8. CASE NetifAdd
    BY <1>8 DEF NetifAdd, Main, lwipUnchanged, vars, phyVars, mainVars, macVars
  <1>9. CASE LowLevelInit
    BY <1>9 DEF LowLevelInit, Main, lwipUnchanged, vars, phyVars, mainVars, macVars
  <1>10. CASE EthStart
    BY <1>10 DEF EthStart, Main, lwipUnchanged, vars, phyVars, mainVars, macVars
  <1>11. CASE CheckStatus
    BY <1>11 DEF CheckStatus, Main, lwipUnchanged, vars, phyVars, mainVars, macVars
  <1>12. CASE LoadFlags
    BY <1>12 DEF LoadFlags, Main, lwipUnchanged, vars, phyVars, mainVars, macVars
  <1>13. CASE StoreFlags
    BY <1>13 DEF StoreFlags, Main, lwipUnchanged, vars, phyVars, mainVars, macVars
  <1>14. CASE SetDownAtBoot
    BY <1>14 DEF SetDownAtBoot, Main, lwipUnchanged, vars, phyVars, mainVars, macVars
  <1>15. CASE RegisterCallback
    BY <1>15 DEF RegisterCallback, Main, lwipUnchanged, vars, phyVars, mainVars, macVars
  <1>16. CASE EnterHandler
    BY <1>16 DEF EnterHandler, Isr, isrUnchanged, vars, phyVars, mainVars, macVars
  <1>17. CASE ReadMisr
    BY <1>17 DEF ReadMisr, Isr, isrUnchanged, vars, phyVars, mainVars, macVars
  <1>18. CASE ReadPhyStatus
    BY <1>18 DEF ReadPhyStatus, Isr, isrUnchanged, vars, phyVars, mainVars, macVars
  <1>19. CASE SetLinkUp
    BY <1>19 DEF SetLinkUp, Isr, isrUnchanged, vars, phyVars, mainVars, macVars
  <1>20. CASE SetLinkDown
    BY <1>20 DEF SetLinkDown, Isr, isrUnchanged, vars, phyVars, mainVars, macVars
  <1>21. CASE Autoneg
    BY <1>21 DEF Autoneg, Isr, isrUnchanged, vars, phyVars, mainVars, macVars
  <1>22. CASE StartMac
    BY <1>22 DEF StartMac, Isr, isrUnchanged, vars, phyVars, mainVars, macVars
  <1>23. CASE SetUp
    BY <1>23 DEF SetUp, Isr, isrUnchanged, vars, phyVars, mainVars, macVars
  <1>24. CASE StopMac
    BY <1>24 DEF StopMac, Isr, isrUnchanged, vars, phyVars, mainVars, macVars
  <1>25. CASE SetDown
    BY <1>25 DEF SetDown, Isr, isrUnchanged, vars, phyVars, mainVars, macVars
  <1>26. CASE ClearPending
    BY <1>26 DEF ClearPending, Isr, isrUnchanged, vars, phyVars, mainVars, macVars
  <1>27. CASE UNCHANGED vars
    BY <1>27 DEF vars, phyVars, mainVars, macVars
  <1> QED
    BY <1>1, <1>2, <1>3, <1>4, <1>5, <1>6, <1>7, <1>8, <1>9, <1>10, <1>11, <1>12, <1>13, <1>14, <1>15, <1>16, <1>17, <1>18, <1>19, <1>20, <1>21, <1>22, <1>23, <1>24, <1>25, <1>26, <1>27 DEF Next, Boot, Handler

(***************************************************************************)
(* A change the PHY has latched has its interrupt pending, as long as the  *)
(* cable only changed in the quiet phases.                                 *)
(***************************************************************************)
THEOREM QuietLatchPends == Spec => []LatchedMeansPending
  <1>1. ASSUME Init PROVE LatchInv
    <2>1. /\ pc = "waitLink" /\ isr = "idle" /\ pending = FALSE /\ extiOn = FALSE
          /\ intEnabled = FALSE
      BY <1>1 DEF Init
    <2> QED BY <2>1 DEF LatchInv, QuietInv, Cleared, Started
  <1>2. TypeOK /\ LatchInv /\ [Next]_vars => LatchInv'
    BY LatchStep
  <1>3. LatchInv => LatchedMeansPending
    BY DEF LatchInv, QuietInv, LatchedMeansPending
  <1> QED BY <1>1, <1>2, <1>3, TypeCorrect, PTL DEF Spec
=============================================================================
