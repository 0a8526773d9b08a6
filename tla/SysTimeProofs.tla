---------------------------- MODULE SysTimeProofs ----------------------------
(***************************************************************************)
(* Proofs about SysTime, for every width of LocalTime, every length of the *)
(* delays and every interval of the ARP timer that TimeAssumption admits:  *)
(* Delay is never entered by two at once, it lasts its ticks, and the ARP  *)
(* timer runs when its interval has passed.                                *)
(***************************************************************************)
EXTENDS SysTime, TLAPS

-----------------------------------------------------------------------------
(* Unsigned arithmetic.                                                    *)

LEMMA PlusType == ASSUME NEW a \in 0 .. W - 1, NEW b \in 0 .. W - 1
                  PROVE  Plus(a, b) \in 0 .. W - 1
  BY TimeAssumption DEF Plus

\* A tick lengthens a difference by one, as long as it fits.
LEMMA TickDifference ==
  ASSUME NEW a \in 0 .. W - 1, NEW b \in 0 .. W - 1, Minus(a, b) + 1 < W
  PROVE  Minus(Plus(a, 1), b) = Minus(a, b) + 1
  BY TimeAssumption DEF Plus, Minus

\* Differences from a later time add up.
LEMMA DifferencesAdd ==
  ASSUME NEW a \in 0 .. W - 1, NEW b \in 0 .. W - 1, NEW c \in 0 .. W - 1,
         Minus(a, b) <= Minus(a, c)
  PROVE  Minus(b, c) = Minus(a, c) - Minus(a, b)
  BY TimeAssumption DEF Minus

LEMMA Bounds ==
  /\ BootTicks \in Nat /\ PassTicks \in Nat
  /\ PowerDelay < W /\ ResetDelay < W /\ 1 < W /\ BootTicks < W
  /\ \A n \in 0 .. MaxIrqs : MaxPass + n * RegDelays <= PassTicks
  <1>1. MaxIrqs * RegDelays \in Nat
    BY TimeAssumption
  <1>2. \A n \in 0 .. MaxIrqs : n * RegDelays \in Nat /\ n * RegDelays <= MaxIrqs * RegDelays
    BY TimeAssumption
  <1> QED BY <1>1, <1>2, TimeAssumption DEF BootTicks, PassTicks

-----------------------------------------------------------------------------
LEMMA StartType ==
  ASSUME TypeOK, NEW w \in Who, NEW n \in 0 .. W - 1, StartDelay(w, n)
  PROVE  timingdelay' \in 0 .. W - 1 /\ waiting' \in [Who -> Nat] /\ waited' \in [Who -> Int]
  <1>1. timingdelay' \in 0 .. W - 1
    BY PlusType DEF TypeOK, StartDelay
  <1>2. n \in Nat /\ -period \in Int
    BY TimeAssumption DEF TypeOK
  <1>3. waiting' \in [Who -> Nat] /\ waited' \in [Who -> Int]
    BY <1>2 DEF TypeOK, StartDelay
  <1> QED BY <1>1, <1>3

LEMMA TypeStep == ASSUME TypeOK, [Next]_vars PROVE TypeOK'
  <1> USE DEF hardware, delayVars, isrVars, arpVars
  <1>0. "main" \in Who /\ "isr" \in Who
    BY DEF Who
  <1>1. CASE Tick
    <2>1. Plus(LocalTime, 1) \in 0 .. W - 1
      BY Bounds, PlusType, TimeAssumption DEF TypeOK
    <2>2. waited' \in [Who -> Int]
      BY <1>1, TimeAssumption DEF Tick, TypeOK, Who
    <2>3. lag' \in Nat /\ sinceArp' \in Nat
      BY <1>1 DEF Tick, TypeOK
    <2> QED BY <1>1, <2>1, <2>2, <2>3 DEF Tick, TypeOK
  <1>2. CASE PowerPhy
    <2>1. timingdelay' \in 0 .. W - 1 /\ waiting' \in [Who -> Nat] /\ waited' \in [Who -> Int]
      BY <1>2, <1>0, Bounds, StartType, TimeAssumption DEF PowerPhy
    <2> QED BY <1>2, <2>1 DEF PowerPhy, Main, TypeOK
  <1>3. CASE FastTick
    BY <1>3 DEF FastTick, Main, TypeOK
  <1>4. CASE ResetPhy
    <2>1. timingdelay' \in 0 .. W - 1 /\ waiting' \in [Who -> Nat] /\ waited' \in [Who -> Int]
      BY <1>4, <1>0, Bounds, StartType, TimeAssumption DEF ResetPhy, TypeOK
    <2> QED BY <1>4, <2>1 DEF ResetPhy, Main, TypeOK
  <1>5. CASE RegisterDelay
    <2>1. timingdelay' \in 0 .. W - 1 /\ waiting' \in [Who -> Nat] /\ waited' \in [Who -> Int]
      BY <1>5, <1>0, Bounds, StartType, TimeAssumption DEF RegisterDelay
    <2>2. left' \in 0 .. RegDelays
      BY <1>5, TimeAssumption DEF RegisterDelay, TypeOK
    <2> QED BY <1>5, <2>1, <2>2 DEF RegisterDelay, Main, TypeOK
  <1>6. CASE EnableExti
    BY <1>6 DEF EnableExti, Main, TypeOK
  <1>7. CASE RegisterCallback
    BY <1>7 DEF RegisterCallback, Main, TypeOK
  <1>8. CASE ReadTime
    BY <1>8 DEF ReadTime, Main, TypeOK
  <1>9. CASE PeriodicHandle
    BY <1>9 DEF PeriodicHandle, Main, TypeOK
  <1>10. CASE LinkInterrupt
    <2>1. isrLeft' \in 0 .. RegDelays
      <3>1. CASE callback
        BY <3>1, <1>10 DEF LinkInterrupt
      <3>2. CASE ~callback
        BY <3>2, <1>10, TimeAssumption DEF LinkInterrupt
      <3> QED BY <3>1, <3>2
    <2>2. irqs' \in 0 .. MaxIrqs
      BY <1>10, TimeAssumption DEF LinkInterrupt, TypeOK
    <2> QED BY <1>10, <2>1, <2>2 DEF LinkInterrupt, TypeOK
  <1>11. CASE CallbackDelay
    <2>1. timingdelay' \in 0 .. W - 1 /\ waiting' \in [Who -> Nat] /\ waited' \in [Who -> Int]
      BY <1>11, <1>0, Bounds, StartType, TimeAssumption DEF CallbackDelay
    <2>2. isrLeft' \in 0 .. RegDelays
      BY <1>11, TimeAssumption DEF CallbackDelay, TypeOK
    <2> QED BY <1>11, <2>1, <2>2 DEF CallbackDelay, TypeOK
  <1>12. CASE LeaveInterrupt
    BY <1>12 DEF LeaveInterrupt, TypeOK
  <1>13. ASSUME NEW w \in Who, EndDelay(w) PROVE TypeOK'
    BY <1>13 DEF EndDelay, TypeOK
  <1>14. CASE UNCHANGED vars
    BY <1>14 DEF vars, TypeOK
  <1> QED BY <1>0, <1>1, <1>2, <1>3, <1>4, <1>5, <1>6, <1>7, <1>8, <1>9, <1>10, <1>11, <1>12,
             <1>13, <1>14 DEF Next, MainStep, IsrStep

LEMMA InitType == Init => TypeOK
  <1> SUFFICES ASSUME Init PROVE TypeOK
    OBVIOUS
  <1>1. waiting \in [Who -> Nat] /\ waited \in [Who -> Int]
    BY DEF Init
  <1>2. exti \in BOOLEAN /\ callback \in BOOLEAN /\ isr \in BOOLEAN
    BY DEF Init
  <1> QED BY <1>1, <1>2, TimeAssumption DEF Init, TypeOK

(***************************************************************************)
(* Every variable has its type.                                            *)
(***************************************************************************)
THEOREM TypeCorrect == Spec => []TypeOK
  BY InitType, TypeStep, PTL DEF Spec
-----------------------------------------------------------------------------
(***************************************************************************)
(* Who may wait when: the main program only while it boots, the interrupt  *)
(* only in its callback, which is there once the boot is over.             *)
(***************************************************************************)
WaitInv ==
  /\ callback => ~Booting
  /\ Waits("main") => Booting
  /\ Waits("isr") => isr /\ callback
  /\ isrLeft > 0 => isr /\ callback

LEMMA WaitStep == ASSUME TypeOK, WaitInv, [Next]_vars PROVE WaitInv'
  <1> USE DEF WaitInv, Booting, Waits, hardware, delayVars, isrVars, arpVars
  <1>0. /\ "main" \in Who /\ "isr" \in Who /\ DOMAIN waiting = Who
        /\ \A w \in Who : waiting[w] \in Nat
        /\ isrLeft \in Nat
    BY TimeAssumption DEF Who, TypeOK
  <1>1. CASE Tick
    BY <1>1 DEF Tick
  <1>2. CASE PowerPhy
    BY <1>0, <1>2 DEF PowerPhy, Main, StartDelay
  <1>3. CASE FastTick
    BY <1>3 DEF FastTick, Main
  <1>4. CASE ResetPhy
    BY <1>0, <1>4 DEF ResetPhy, Main, StartDelay
  <1>5. CASE RegisterDelay
    BY <1>0, <1>5 DEF RegisterDelay, Main, StartDelay
  <1>6. CASE EnableExti
    BY <1>6 DEF EnableExti, Main
  <1>7. CASE RegisterCallback
    BY <1>7 DEF RegisterCallback, Main
  <1>8. CASE ReadTime
    BY <1>8 DEF ReadTime, Main
  <1>9. CASE PeriodicHandle
    BY <1>9 DEF PeriodicHandle, Main
  <1>10. CASE LinkInterrupt
    BY <1>10 DEF LinkInterrupt
  <1>11. CASE CallbackDelay
    BY <1>0, <1>11 DEF CallbackDelay, StartDelay
  <1>12. CASE LeaveInterrupt
    BY <1>0, <1>12 DEF LeaveInterrupt
  <1>13. ASSUME NEW w \in Who, EndDelay(w) PROVE WaitInv'
    BY <1>0, <1>13 DEF EndDelay
  <1>14. CASE UNCHANGED vars
    BY <1>14 DEF vars
  <1> QED BY <1>0, <1>1, <1>2, <1>3, <1>4, <1>5, <1>6, <1>7, <1>8, <1>9, <1>10, <1>11, <1>12,
             <1>13, <1>14 DEF Next, MainStep, IsrStep

LEMMA InitWait == Init => WaitInv
  BY DEF Init, WaitInv, Booting, Waits, Who

(***************************************************************************)
(* Nobody enters Delay while the other waits there: one deadline is        *)
(* enough.                                                                 *)
(***************************************************************************)
THEOREM OneWaitsAtATime == Spec => []DelaysDoNotOverlap
  <1>1. WaitInv => DelaysDoNotOverlap
    BY DEF WaitInv, DelaysDoNotOverlap
  <1>2. TypeOK /\ WaitInv /\ [Next]_vars => WaitInv'
    BY WaitStep
  <1> QED BY <1>1, <1>2, InitWait, TypeCorrect, PTL DEF Spec
-----------------------------------------------------------------------------
(***************************************************************************)
(* How much of the boot's waiting is spent when the main program is at pc. *)
(***************************************************************************)
Allowance ==
  IF pc = "power" THEN 0
  ELSE IF pc \in {"fast", "reset"} THEN PowerDelay
  ELSE IF pc = "init" THEN PowerDelay + ResetDelay + RegDelays - left
  ELSE PowerDelay + ResetDelay + 2 * RegDelays - left

(***************************************************************************)
(* The boot ends before LocalTime wraps, so none of its deadlines does.    *)
(* started is when the Delay in progress began.                            *)
(***************************************************************************)
BootTime ==
  Booting =>
    /\ sinceArp = LocalTime /\ ARPTimer = 0
    /\ lag <= MaxPass /\ LocalTime - lag <= Allowance
    /\ Waits("main") =>
         LET started == timingdelay - waiting["main"]
         IN  /\ timingdelay - lag <= Allowance
             /\ started >= 0 /\ started <= LocalTime
             /\ (LocalTime - started) * period <= waited["main"] + period

\* A tick the interrupt still waits for.
Owed == IF Waits("isr") /\ timingdelay > LocalTime THEN 1 ELSE 0

(***************************************************************************)
(* In the main loop, sinceArp is the difference the code computes, and lag *)
(* is explained by MaxPass and the delays of the interrupts so far.        *)
(***************************************************************************)
LoopTime ==
  ~Booting =>
    /\ isrLeft + Owed <= irqs * RegDelays
    /\ lag + isrLeft + Owed <= MaxPass + irqs * RegDelays
    /\ sinceArp = Minus(LocalTime, ARPTimer)
    /\ lag <= sinceArp
    /\ pc = "read" => sinceArp - lag <= Interval + BootTicks
    /\ pc = "check" => /\ sinceArp - lag <= Interval + BootTicks + PassTicks
                       /\ lag = Minus(LocalTime, localtime)

IsrTime ==
  Waits("isr") =>
    /\ waiting["isr"] = 1
    /\ waited["isr"] >= -period
    /\ \/ timingdelay = 0
       \/ timingdelay = LocalTime + 1
       \/ timingdelay = LocalTime /\ waited["isr"] >= 0

TimeInv == WaitInv /\ BootTime /\ LoopTime /\ IsrTime

-----------------------------------------------------------------------------
LEMMA AllowanceBound ==
  ASSUME TypeOK PROVE Allowance \in Nat /\ Allowance + MaxPass <= BootTicks
  BY TimeAssumption DEF TypeOK, Allowance, BootTicks

LEMMA InLoop == ASSUME TypeOK, LoopTime, ~Booting
                PROVE  lag <= PassTicks /\ sinceArp <= Interval + BootTicks + 2 * PassTicks
  <1>1. MaxPass + irqs * RegDelays <= PassTicks /\ irqs * RegDelays \in Nat
    BY Bounds, TimeAssumption DEF TypeOK
  <1>2. lag <= PassTicks
    <2>1. Owed \in Nat /\ isrLeft \in Nat
      BY TimeAssumption DEF Owed, TypeOK
    <2>2. lag + isrLeft + Owed <= MaxPass + irqs * RegDelays
      BY DEF LoopTime
    <2>3. lag \in Nat
      BY DEF TypeOK
    <2> HIDE DEF Owed, PassTicks
    <2> QED BY <1>1, <2>1, <2>2, <2>3, Bounds, TimeAssumption
  <1>3. pc \in {"read", "check"}
    BY DEF Booting
  <1> QED BY <1>2, <1>3, Bounds, TimeAssumption DEF LoopTime, TypeOK

\* A register delay, the last thing that fits below W.
LEMMA RegisterDeadline ==
  ASSUME TypeOK
  PROVE  Plus(LocalTime, 1) = 0 \/ Plus(LocalTime, 1) = LocalTime + 1
  BY Bounds, TimeAssumption DEF TypeOK, Plus

-----------------------------------------------------------------------------
LEMMA TickTime == ASSUME TypeOK, TimeInv, Tick PROVE BootTime' /\ LoopTime' /\ IsrTime'
  <1> USE TimeAssumption DEF TypeOK, TimeInv
  <1>0. "main" \in Who /\ "isr" \in Who
    BY DEF Who
  <1>a. TypeOK'
    <2> HIDE DEF TypeOK
    <2> QED BY TypeStep DEF Next
  <1>1. CASE Booting
    <2>1. ~Waits("isr")
      BY <1>1 DEF WaitInv
    <2>2. Booting' /\ Allowance' = Allowance
      BY <1>1 DEF Tick, Booting, Allowance
    <2>3. lag' <= MaxPass /\ (LocalTime + 1) - lag' <= Allowance
      <3>1. CASE InDelay
        <4>1. Waits("main") /\ timingdelay > LocalTime
          <5>1. Waits("main")
            BY <2>1, <3>1, Zenon DEF InDelay
          <5>2. ~(timingdelay <= LocalTime)
            BY <1>0, <3>1, Zenon DEF Tick, PollDue
          <5> QED BY <5>1, <5>2
        <4>2. lag' = lag
          BY <1>1, <3>1, Zenon DEF Tick
        <4> QED BY <1>1, <4>1, <4>2, AllowanceBound DEF BootTime
      <3>2. CASE ~InDelay
        <4>1. lag < MaxPass /\ lag' = lag + 1
          BY <1>1, <3>2, Zenon DEF Tick
        <4> QED BY <1>1, <4>1, AllowanceBound DEF BootTime
      <3> QED BY <3>1, <3>2
    <2>4. LocalTime + 1 < W
      BY <1>a, <2>3, AllowanceBound, Bounds
    <2>5. LocalTime' = LocalTime + 1 /\ sinceArp' = LocalTime' /\ ARPTimer' = 0
      BY <1>1, <2>4 DEF Tick, Plus, BootTime
    <2>6. ASSUME Waits("main")'
          PROVE  /\ timingdelay' - lag' <= Allowance'
                 /\ timingdelay' - waiting'["main"] >= 0
                 /\ timingdelay' - waiting'["main"] <= LocalTime'
                 /\ (LocalTime' - (timingdelay' - waiting'["main"])) * period' <= waited'["main"] + period'
      <3>1. Waits("main") /\ timingdelay' = timingdelay /\ waiting' = waiting /\ period' = period
        BY <2>6 DEF Tick, Waits
      <3>2. waited'["main"] = waited["main"] + period
        BY <1>0, <3>1 DEF Tick
      <3>3. lag' >= lag
        BY DEF Tick
      <3> DEFINE e == LocalTime - (timingdelay - waiting["main"])
      <3>4. e \in Nat /\ e * period <= waited["main"] + period /\ timingdelay - lag <= Allowance
        BY <1>0, <1>1, <3>1 DEF BootTime
      <3>5. (e + 1) * period = e * period + period
        <4> HIDE DEF e
        <4> QED BY <3>4
      <3>6. LocalTime' - (timingdelay' - waiting'["main"]) = e + 1
        BY <1>0, <2>5, <3>1
      <3>7. waited["main"] \in Int /\ e * period \in Int /\ waiting["main"] \in Nat
        <4> HIDE DEF e
        <4> QED BY <1>0, <3>4
      <3>8. (LocalTime' - (timingdelay' - waiting'["main"])) * period' <= waited'["main"] + period'
        <4> DEFINE m == e * period
                   n == (e + 1) * period
        <4>1. n <= waited'["main"] + period
          <5>1. n = m + period /\ m <= waited["main"] + period /\ m \in Int /\ period \in Int
            BY <3>4, <3>5, <3>7
          <5> HIDE DEF m, n
          <5> QED BY <3>2, <3>7, <5>1
        <4> QED BY <3>1, <3>6, <4>1, Zenon
      <3>9. timingdelay - waiting["main"] >= 0 /\ timingdelay - waiting["main"] <= LocalTime
        BY <1>1, <3>1 DEF BootTime
      <3>10. timingdelay' - waiting'["main"] >= 0 /\ timingdelay' - waiting'["main"] <= LocalTime'
        BY <2>5, <3>1, <3>7, <3>9
      <3>11. timingdelay' - lag' <= Allowance'
        BY <1>a, <2>2, <3>1, <3>3, <3>4, AllowanceBound
      <3> QED BY <3>8, <3>10, <3>11
    <2>7. BootTime'
      BY <2>2, <2>3, <2>5, <2>6 DEF BootTime
    <2>8. LoopTime' /\ IsrTime'
      BY <2>1, <2>2 DEF LoopTime, IsrTime, Waits, Tick
    <2> QED BY <2>7, <2>8
  <1>2. CASE ~Booting
    <2>1. ~Booting' /\ ~Waits("main") /\ pc' = pc
      BY <1>2 DEF WaitInv, Booting, Tick
    <2>2. lag <= PassTicks /\ sinceArp <= Interval + BootTicks + 2 * PassTicks
      BY <1>2, InLoop
    <2>3. lag' = lag + 1 /\ sinceArp' = sinceArp + 1 /\ LocalTime' = Plus(LocalTime, 1)
      BY <1>2, Zenon DEF Tick
    <2>4. UNCHANGED <<timingdelay, waiting, isr, isrLeft, irqs, localtime, ARPTimer, period>>
      BY DEF Tick, isrVars
    <2>5. /\ lag' + isrLeft + Owed' <= MaxPass + irqs * RegDelays
          /\ isrLeft + Owed' <= irqs * RegDelays
      <3> DEFINE granted == irqs * RegDelays
      <3>1. /\ granted \in Int
            /\ isrLeft + Owed <= granted
            /\ lag + isrLeft + Owed <= MaxPass + granted
        BY <1>2 DEF LoopTime
      <3>2. CASE Waits("isr")
        <4>1. InDelay /\ ~(timingdelay <= LocalTime)
          BY <3>2, Zenon DEF WaitInv, InDelay, Tick, PollDue
        <4>2. Owed = 1 /\ Owed' = 0
          <5>1. timingdelay = LocalTime + 1
            BY <3>2, <4>1 DEF IsrTime
          <5>2. LocalTime' = timingdelay /\ timingdelay' = timingdelay
            BY <2>3, <2>4, <5>1 DEF Plus
          <5> QED BY <3>2, <5>1, <5>2 DEF Owed
        <4> HIDE DEF granted
        <4>3. lag' + isrLeft + Owed' <= MaxPass + granted /\ isrLeft + Owed' <= granted
          BY <2>3, <3>1, <4>2
        <4> QED BY <4>3 DEF granted
      <3>3. CASE ~Waits("isr")
        <4>1. Owed = 0 /\ Owed' = 0
          BY <2>4, <3>3 DEF Owed, Waits
        <4>2. lag < MaxPass
          BY <2>1, <3>3, Zenon DEF Tick, InDelay
        <4> HIDE DEF granted
        <4>3. lag' + isrLeft + Owed' <= MaxPass + granted /\ isrLeft + Owed' <= granted
          BY <2>3, <3>1, <4>1, <4>2
        <4> QED BY <4>3 DEF granted
      <3> QED BY <3>2, <3>3
    <2>6. sinceArp' = Minus(LocalTime', ARPTimer)
      BY <1>2, <2>2, <2>3, Bounds, TickDifference DEF LoopTime
    <2>7. pc = "check" => lag' = Minus(LocalTime', localtime)
      BY <1>2, <2>2, <2>3, Bounds, TickDifference DEF LoopTime
    <2>8. LoopTime'
      <3>1. sinceArp' - lag' = sinceArp - lag /\ lag' <= sinceArp'
        BY <1>2, <2>3 DEF LoopTime
      <3> QED BY <1>2, <2>1, <2>4, <2>5, <2>6, <2>7, <3>1 DEF LoopTime
    <2>9. IsrTime'
      <3> SUFFICES ASSUME Waits("isr") PROVE IsrTime'
        BY <2>4 DEF IsrTime, Waits
      <3>1. InDelay /\ ~(timingdelay <= LocalTime)
        BY Zenon DEF WaitInv, InDelay, Tick, PollDue
      <3>2. timingdelay = LocalTime + 1 /\ waiting["isr"] = 1
        BY <3>1 DEF IsrTime
      <3>3. LocalTime' = LocalTime + 1
        BY <2>3, <3>2 DEF Plus
      <3>4. waited'["isr"] = waited["isr"] + period /\ waited["isr"] >= -period /\ waited["isr"] \in Int /\ period \in Nat
        BY <1>0 DEF Tick, IsrTime
      <3> QED BY <2>4, <3>2, <3>3, <3>4 DEF IsrTime
    <2> QED BY <2>1, <2>8, <2>9 DEF BootTime
  <1> QED BY <1>1, <1>2

-----------------------------------------------------------------------------
\* What a step of the main program leaves to the interrupt, and the other way.
LEMMA MainQuiet ==
  ASSUME TypeOK, WaitInv, ~isr
  PROVE  ~Waits("isr") /\ isrLeft = 0 /\ Owed = 0
  BY TimeAssumption DEF TypeOK, WaitInv, Owed

\* A Delay of the boot starts with a deadline that does not wrap.
LEMMA BootDelay ==
  ASSUME TypeOK, TimeInv, NEW n \in Nat, Booting, Booting', StartDelay("main", n),
         UNCHANGED <<LocalTime, lag, sinceArp, ARPTimer, period>>,
         NEW a \in Int, Allowance' = a, Allowance + n <= a, a + MaxPass <= BootTicks
  PROVE  BootTime'
  <1> USE TimeAssumption DEF TypeOK
  <1>0. "main" \in Who
    BY DEF Who
  <1>1. Allowance \in Nat /\ BootTicks \in Nat /\ BootTicks < W
    BY AllowanceBound, Bounds
  <1>2. /\ sinceArp = LocalTime /\ ARPTimer = 0
        /\ lag <= MaxPass /\ LocalTime - lag <= Allowance
    BY DEF TimeInv, BootTime
  <1>4. LocalTime + n < W
    BY <1>1, <1>2
  <1>5. timingdelay' = LocalTime + n /\ waiting'["main"] = n /\ waited'["main"] = -period
    BY <1>0, <1>4 DEF StartDelay, Plus
  <1>6. (LocalTime' - (timingdelay' - waiting'["main"])) * period' = 0
    <2>1. LocalTime' - (timingdelay' - waiting'["main"]) = 0
      BY <1>5
    <2>2. period' \in Nat /\ 0 * period' = 0
      OBVIOUS
    <2> QED BY <2>1, <2>2, Zenon
  <1>7. /\ timingdelay' - lag' <= a
        /\ timingdelay' - waiting'["main"] >= 0
        /\ timingdelay' - waiting'["main"] <= LocalTime'
        /\ (LocalTime' - (timingdelay' - waiting'["main"])) * period' <= waited'["main"] + period'
    BY <1>1, <1>2, <1>5, <1>6
  <1>8. LocalTime' - lag' <= a
    BY <1>1, <1>2
  <1> QED BY <1>2, <1>7, <1>8 DEF BootTime

\* A step of the boot that starts no Delay.
LEMMA BootMoves ==
  ASSUME TypeOK, TimeInv, Booting, Booting', ~Waits("main")',
         UNCHANGED <<LocalTime, lag, sinceArp, ARPTimer>>,
         NEW a \in Int, Allowance' = a, Allowance <= a
  PROVE  BootTime'
  <1>1. Allowance \in Nat /\ LocalTime \in Int /\ lag \in Int
    BY AllowanceBound, TimeAssumption DEF TypeOK
  <1> QED BY <1>1 DEF TimeInv, BootTime

LEMMA MainTime ==
  ASSUME TypeOK, TimeInv,
         \/ PowerPhy \/ FastTick \/ ResetPhy \/ RegisterDelay \/ EnableExti
  PROVE  BootTime' /\ LoopTime' /\ IsrTime'
  <1> USE TimeAssumption DEF TypeOK, hardware, delayVars, isrVars, arpVars
  <1>1. /\ Booting /\ Booting' /\ ~isr /\ ~Waits("main")
        /\ UNCHANGED <<LocalTime, lag, sinceArp, ARPTimer, isr, isrLeft, irqs>>
    BY DEF Booting, PowerPhy, FastTick, ResetPhy, RegisterDelay, EnableExti, Main
  <1>2. ~Waits("isr") /\ "main" \in Who /\ "isr" \in Who
    BY <1>1, MainQuiet DEF TimeInv, Who
  <1>3. ~Waits("isr")'
    BY <1>2 DEF Waits, PowerPhy, FastTick, ResetPhy, RegisterDelay, EnableExti, StartDelay, Who
  <1>4. LoopTime' /\ IsrTime'
    BY <1>1, <1>3 DEF LoopTime, IsrTime
  <1>5. CASE PowerPhy
    <2>1. Allowance = 0 /\ Allowance' = PowerDelay
      BY <1>5 DEF PowerPhy, Main, Allowance
    <2>2. UNCHANGED period /\ StartDelay("main", PowerDelay)
      BY <1>5 DEF PowerPhy
    <2>3. PowerDelay + MaxPass <= BootTicks
      BY DEF BootTicks
    <2> QED BY <1>1, <1>4, <2>1, <2>2, <2>3, BootDelay
  <1>6. CASE FastTick
    <2>1. Allowance = PowerDelay /\ Allowance' = PowerDelay
      BY <1>6 DEF FastTick, Main, Allowance
    <2>2. ~Waits("main")'
      BY <1>1, <1>6 DEF FastTick, Waits
    <2> QED BY <1>1, <1>4, <2>1, <2>2, BootMoves
  <1>7. CASE ResetPhy
    <2> PICK l \in 0 .. RegDelays : left' = l
      BY <1>7 DEF ResetPhy
    <2> DEFINE a == PowerDelay + ResetDelay + RegDelays - l
    <2>0. Allowance = PowerDelay /\ Allowance' = a
      BY <1>7 DEF ResetPhy, Main, Allowance
    <2>1. a \in Int /\ Allowance + ResetDelay <= a
      BY <2>0
    <2>2. a + MaxPass <= BootTicks
      BY <2>0 DEF BootTicks
    <2> HIDE DEF a
    <2>3. CASE StartDelay("main", ResetDelay)
      BY <1>1, <1>4, <1>7, <2>0, <2>1, <2>2, <2>3, BootDelay DEF ResetPhy
    <2>4. CASE UNCHANGED <<timingdelay, waiting, waited>>
      <3>1. ~Waits("main")'
        BY <1>1, <2>4 DEF Waits
      <3> QED BY <1>1, <1>4, <2>0, <2>1, <3>1, BootMoves
    <2> QED BY <1>7, <2>3, <2>4 DEF ResetPhy
  <1>8. CASE RegisterDelay
    <2>1. Allowance' = Allowance + 1
      BY <1>8 DEF RegisterDelay, Main, Allowance
    <2>2. Allowance' + MaxPass <= BootTicks
      BY <1>8 DEF RegisterDelay, Main, Allowance, BootTicks
    <2>3. UNCHANGED period /\ StartDelay("main", 1)
      BY <1>8 DEF RegisterDelay
    <2> QED BY <1>1, <1>4, <2>1, <2>2, <2>3, BootDelay, AllowanceBound
  <1>9. CASE EnableExti
    <2> PICK l \in 0 .. RegDelays : left' = l
      BY <1>9 DEF EnableExti
    <2> DEFINE a == PowerDelay + ResetDelay + 2 * RegDelays - l
    <2>0. Allowance = PowerDelay + ResetDelay + RegDelays /\ Allowance' = a
      BY <1>9 DEF EnableExti, Main, Allowance
    <2>1. a \in Int
      OBVIOUS
    <2>3. Allowance <= a
      BY <2>0
    <2> HIDE DEF a
    <2>2. ~Waits("main")'
      BY <1>1, <1>9 DEF EnableExti, Waits
    <2> QED BY <1>1, <1>4, <2>0, <2>1, <2>2, <2>3, BootMoves
  <1> QED BY <1>5, <1>6, <1>7, <1>8, <1>9

-----------------------------------------------------------------------------
\* The main loop begins with everything the boot spent on the ARP timer's account.
LEMMA RegisterTime ==
  ASSUME TypeOK, TimeInv, RegisterCallback PROVE BootTime' /\ LoopTime' /\ IsrTime'
  <1> USE TimeAssumption DEF TypeOK, RegisterCallback, Main, hardware, delayVars, isrVars,
                             arpVars
  <1>1. Booting /\ ~Booting' /\ pc' = "read" /\ ~Waits("isr") /\ isrLeft = 0
    BY MainQuiet DEF Booting, TimeInv
  <1>2. ~Waits("isr")' /\ Owed' = 0
    BY <1>1 DEF Waits, Owed
  <1>3. sinceArp = LocalTime /\ ARPTimer = 0 /\ LocalTime <= BootTicks
    BY <1>1, AllowanceBound, Bounds DEF TimeInv, BootTime
  <1>4. sinceArp' = Minus(LocalTime', ARPTimer') /\ sinceArp' <= Interval + BootTicks /\ lag' = 0
    BY <1>3, Bounds DEF Minus
  <1>5. irqs * RegDelays \in Nat /\ irqs' = irqs /\ isrLeft' = 0
    BY <1>1
  <1> QED BY <1>1, <1>2, <1>4, <1>5 DEF BootTime, LoopTime, IsrTime

LEMMA ReadStep == ASSUME TypeOK, TimeInv, ReadTime PROVE BootTime' /\ LoopTime' /\ IsrTime'
  <1> USE TimeAssumption DEF TypeOK, ReadTime, Main, hardware, delayVars, isrVars
  <1>1. ~Booting /\ ~Booting' /\ pc = "read" /\ pc' = "check" /\ ~Waits("isr") /\ isrLeft = 0
    BY MainQuiet DEF Booting, TimeInv
  <1>2. ~Waits("isr")' /\ Owed' = 0
    BY <1>1 DEF Waits, Owed
  <1>3. lag <= PassTicks /\ sinceArp - lag <= Interval + BootTicks /\ sinceArp = Minus(LocalTime, ARPTimer)
    BY <1>1, InLoop DEF TimeInv, LoopTime
  <1>4. sinceArp' - lag' <= Interval + BootTicks + PassTicks /\ lag' = 0 /\ sinceArp' = sinceArp
    BY <1>3, Bounds
  <1>5. Minus(LocalTime', localtime') = 0 /\ sinceArp' = Minus(LocalTime', ARPTimer')
    BY <1>3 DEF Minus
  <1>6. irqs * RegDelays \in Nat /\ irqs' = irqs /\ isrLeft' = 0
    BY <1>1
  <1> QED BY <1>1, <1>2, <1>4, <1>5, <1>6 DEF BootTime, LoopTime, IsrTime

\* The difference the code computes is the time that has passed.
LEMMA TrueDifference ==
  ASSUME TypeOK, TimeInv, ~Booting, pc = "check"
  PROVE  Minus(localtime, ARPTimer) = sinceArp - lag
  <1>1. /\ sinceArp = Minus(LocalTime, ARPTimer) /\ lag = Minus(LocalTime, localtime)
        /\ lag <= sinceArp
    BY DEF TimeInv, LoopTime
  <1> QED BY <1>1, DifferencesAdd DEF TypeOK

LEMMA CheckStep ==
  ASSUME TypeOK, TimeInv, PeriodicHandle PROVE BootTime' /\ LoopTime' /\ IsrTime'
  <1> USE TimeAssumption DEF TypeOK, PeriodicHandle, Main, hardware, delayVars, isrVars
  <1>1. ~Booting /\ ~Booting' /\ pc = "check" /\ pc' = "read" /\ ~Waits("isr")
    BY MainQuiet DEF Booting, TimeInv
  <1>2. ~Waits("isr")' /\ Owed' = Owed
    BY <1>1 DEF Waits, Owed
  <1>3. /\ sinceArp = Minus(LocalTime, ARPTimer) /\ lag = Minus(LocalTime, localtime)
        /\ lag <= sinceArp /\ isrLeft + Owed <= irqs * RegDelays
        /\ lag + isrLeft + Owed <= MaxPass + irqs * RegDelays
    BY <1>1 DEF TimeInv, LoopTime
  <1>6. BootTicks \in Nat
    BY Bounds
  <1>4. CASE Minus(localtime, ARPTimer) >= Interval
    <2>1. sinceArp' = lag /\ lag' = lag /\ ARPTimer' = localtime /\ LocalTime' = LocalTime
      BY <1>4
    <2> QED BY <1>1, <1>2, <1>3, <1>6, <2>1 DEF BootTime, LoopTime, IsrTime
  <1>5. CASE ~(Minus(localtime, ARPTimer) >= Interval)
    <2>1. sinceArp - lag <= Interval
      <3>1. Minus(localtime, ARPTimer) \in Int
        BY DEF Minus
      <3> QED BY <1>1, <1>5, <3>1, TrueDifference
    <2>2. UNCHANGED <<sinceArp, lag, ARPTimer, LocalTime>>
      BY <1>5
    <2> QED BY <1>1, <1>2, <1>3, <1>6, <2>1, <2>2 DEF BootTime, LoopTime, IsrTime
  <1> QED BY <1>4, <1>5

-----------------------------------------------------------------------------
\* What the interrupt does changes no time; it may only be granted more delays.
LEMMA IsrMoves ==
  ASSUME TypeOK, TypeOK', TimeInv,
         UNCHANGED <<LocalTime, lag, sinceArp, ARPTimer, localtime, pc, left, period>>,
         UNCHANGED <<waiting["main"], waited["main"]>>,
         Waits("main") => timingdelay' = timingdelay,
         isrLeft' + Owed' + irqs * RegDelays <= isrLeft + Owed + irqs' * RegDelays
  PROVE  BootTime' /\ LoopTime'
  <1> USE TimeAssumption
  <1>1. (Booting <=> Booting') /\ Allowance' = Allowance /\ (Waits("main") <=> Waits("main")')
    BY DEF Booting, Allowance, Waits
  <1>2. ASSUME Booting PROVE BootTime'
    <2>1. CASE Waits("main")
      BY <1>1, <1>2, <2>1 DEF TimeInv, BootTime
    <2>2. CASE ~Waits("main")
      BY <1>1, <1>2, <2>2 DEF TimeInv, BootTime
    <2> QED BY <2>1, <2>2
  <1>3. ASSUME ~Booting PROVE LoopTime'
    <2> DEFINE g == irqs * RegDelays
               h == irqs' * RegDelays
    <2>1. g \in Int /\ h \in Int /\ Owed \in Int /\ Owed' \in Int /\ isrLeft \in Int
          /\ isrLeft' \in Int /\ lag \in Int
      BY DEF TypeOK, Owed
    <2>2. isrLeft + Owed <= g /\ lag + isrLeft + Owed <= MaxPass + g
      BY <1>3 DEF TimeInv, LoopTime
    <2>3. isrLeft' + Owed' + g <= isrLeft + Owed + h
      OBVIOUS
    <2>4. isrLeft' + Owed' <= h /\ lag + isrLeft' + Owed' <= MaxPass + h
      <3> HIDE DEF g, h
      <3>1. PICK i \in Int : isrLeft' = i
        BY <2>1
      <3>2. PICK o \in Int : Owed' = o
        BY <2>1
      <3>3. i + o <= h /\ lag + i + o <= MaxPass + h
        BY <2>1, <2>2, <2>3, <3>1, <3>2
      <3> QED BY <3>1, <3>2, <3>3
    <2> QED BY <1>1, <1>3, <2>4 DEF TimeInv, LoopTime
  <1> QED BY <1>1, <1>2, <1>3 DEF BootTime, LoopTime

LEMMA IsrStepTime ==
  ASSUME TypeOK, TimeInv, LinkInterrupt \/ CallbackDelay \/ LeaveInterrupt
  PROVE  BootTime' /\ LoopTime' /\ IsrTime'
  <1> USE TimeAssumption DEF hardware, delayVars, isrVars, arpVars
  <1>0. TypeOK' /\ "main" \in Who /\ "isr" \in Who
    BY TypeStep DEF Next, IsrStep, Who
  <1>1. CASE LinkInterrupt
    <2>1. ~isr /\ ~Waits("isr") /\ isrLeft = 0 /\ Owed = 0
      BY <1>1, MainQuiet DEF LinkInterrupt, TimeInv
    <2>2. ~Waits("isr")' /\ Owed' = 0
      BY <1>1, <2>1 DEF LinkInterrupt, Waits, Owed
    <2>3. irqs' * RegDelays = irqs * RegDelays + RegDelays
      BY <1>1 DEF LinkInterrupt, TypeOK
    <2>4. isrLeft' + Owed' + irqs * RegDelays <= isrLeft + Owed + irqs' * RegDelays
      <3> DEFINE g == irqs * RegDelays
      <3>1. PICK i \in 0 .. RegDelays : isrLeft' = i
        BY <1>0 DEF TypeOK
      <3>2. g \in Int
        BY DEF TypeOK
      <3> HIDE DEF g
      <3>3. i + 0 + g <= 0 + 0 + (g + RegDelays)
        BY <3>1, <3>2
      <3> QED BY <2>1, <2>2, <2>3, <3>1, <3>3 DEF g
    <2>5. BootTime' /\ LoopTime'
      BY <1>0, <1>1, <2>4, IsrMoves DEF LinkInterrupt
    <2> QED BY <2>2, <2>5 DEF IsrTime
  <1>2. CASE CallbackDelay
    <2>1. ~Waits("isr") /\ isr /\ isrLeft > 0 /\ ~Waits("main") /\ Owed = 0
      BY <1>2 DEF CallbackDelay, TimeInv, WaitInv, Owed
    <2>2. /\ timingdelay' = Plus(LocalTime, 1) /\ waiting'["isr"] = 1 /\ waited'["isr"] = -period
          /\ waiting'["main"] = waiting["main"] /\ waited'["main"] = waited["main"]
      BY <1>0, <1>2 DEF CallbackDelay, StartDelay, TypeOK
    <2>3. Owed' \in {0, 1} /\ isrLeft' = isrLeft - 1 /\ irqs' = irqs
      BY <1>2 DEF CallbackDelay, Owed
    <2>4. isrLeft' + Owed' + irqs * RegDelays <= isrLeft + Owed + irqs' * RegDelays
      <3> DEFINE g == irqs * RegDelays
      <3>1. g \in Int /\ isrLeft \in Int
        BY DEF TypeOK
      <3> HIDE DEF g
      <3>2. PICK o \in {0, 1} : Owed' = o
        BY <2>3
      <3>3. (isrLeft - 1) + o + g <= isrLeft + 0 + g
        BY <3>1, <3>2
      <3> QED BY <2>1, <2>3, <3>2, <3>3 DEF g
    <2>5. BootTime' /\ LoopTime'
      BY <1>0, <1>2, <2>1, <2>2, <2>4, IsrMoves DEF CallbackDelay
    <2>6. timingdelay' = 0 \/ timingdelay' = LocalTime' + 1
      BY <1>2, <2>2, RegisterDeadline DEF CallbackDelay
    <2>7. period' = period /\ -period \in Int /\ -period >= -period
      BY <1>2 DEF CallbackDelay, TypeOK
    <2> QED BY <2>2, <2>5, <2>6, <2>7 DEF IsrTime
  <1>3. CASE LeaveInterrupt
    <2>1. UNCHANGED <<LocalTime, lag, sinceArp, ARPTimer, localtime, pc, left, period, waiting,
                      waited, timingdelay, isrLeft, irqs>>
      BY <1>3 DEF LeaveInterrupt
    <2>2. ~Waits("isr")' /\ Owed' = Owed
      BY <1>3, <2>1 DEF LeaveInterrupt, Waits, Owed
    <2>3. isrLeft' + Owed' + irqs * RegDelays <= isrLeft + Owed + irqs' * RegDelays
      <3>1. irqs * RegDelays \in Int /\ isrLeft \in Int /\ Owed \in Int
        BY DEF TypeOK, Owed
      <3> QED BY <2>1, <2>2, <3>1
    <2>4. BootTime' /\ LoopTime'
      BY <1>0, <2>1, <2>3, IsrMoves
    <2> QED BY <2>2, <2>4 DEF IsrTime
  <1> QED BY <1>1, <1>2, <1>3

LEMMA EndTime ==
  ASSUME TypeOK, TimeInv, NEW w \in Who, EndDelay(w)
  PROVE  BootTime' /\ LoopTime' /\ IsrTime'
  <1> USE TimeAssumption
  <1>0. "main" \in Who /\ "isr" \in Who /\ Waits(w)
    BY DEF Who, EndDelay
  <1>1. UNCHANGED <<LocalTime, lag, sinceArp, ARPTimer, localtime, pc, left, period,
                    waited, timingdelay, isrLeft, irqs>>
    BY DEF EndDelay, arpVars, isrVars
  <1>2. (Booting <=> Booting') /\ Allowance' = Allowance
    BY <1>1 DEF Booting, Allowance
  <1>3. CASE w = "main"
    <2>1. Booting /\ ~Waits("main")' /\ ~Waits("isr") /\ ~Waits("isr")'
      BY <1>0, <1>3 DEF EndDelay, Waits, TypeOK, TimeInv, WaitInv
    <2> QED BY <1>1, <1>2, <2>1 DEF TimeInv, BootTime, LoopTime, IsrTime
  <1>4. CASE w = "isr"
    <2>1. ~Booting /\ ~Waits("isr")'
      BY <1>0, <1>4 DEF EndDelay, Waits, TypeOK, TimeInv, WaitInv
    <2>2. Owed = 0 /\ Owed' = 0
      BY <1>0, <2>1 DEF EndDelay, Owed, TypeOK
    <2> QED BY <1>1, <1>2, <2>1, <2>2 DEF TimeInv, BootTime, LoopTime, IsrTime
  <1> QED BY <1>3, <1>4 DEF Who

LEMMA TimeStep == ASSUME TypeOK, TimeInv, [Next]_vars PROVE TimeInv'
  <1>1. WaitInv'
    BY WaitStep DEF TimeInv
  <1>2. CASE UNCHANGED vars
    <2>1. BootTime' /\ LoopTime' /\ IsrTime'
      BY <1>2 DEF vars, delayVars, isrVars, arpVars, TimeInv, BootTime, LoopTime, IsrTime,
             Booting, Waits, Allowance, Owed
    <2> QED BY <1>1, <2>1 DEF TimeInv
  <1>3. CASE Next
    <2>1. "main" \in Who /\ "isr" \in Who
      BY DEF Who
    <2>2. BootTime' /\ LoopTime' /\ IsrTime'
      BY <1>3, <2>1, TickTime, MainTime, RegisterTime, ReadStep, CheckStep, IsrStepTime, EndTime
         DEF Next, MainStep, IsrStep
    <2> QED BY <1>1, <2>2 DEF TimeInv
  <1> QED BY <1>2, <1>3

LEMMA InitTime == Init => TimeInv
  <1> SUFFICES ASSUME Init PROVE TimeInv
    OBVIOUS
  <1>1. Booting /\ ~Waits("main") /\ ~Waits("isr")
    BY DEF Init, Booting, Waits, Who
  <1>2. BootTime
    BY <1>1, TimeAssumption DEF Init, BootTime, Allowance
  <1> QED BY <1>1, <1>2, InitWait DEF TimeInv, LoopTime, IsrTime

LEMMA TimeInvariance == Spec => []TimeInv
  BY InitTime, TimeStep, TypeCorrect, PTL DEF Spec

-----------------------------------------------------------------------------
\* Only the poll that finds the deadline reached ends a Delay.
LEMMA OnlyEndDelayEnds ==
  ASSUME TypeOK, Next, NEW w \in Who, Waits(w), waiting'[w] = 0 PROVE EndDelay(w)
  <1> USE DEF Waits, hardware, delayVars, isrVars, arpVars
  <1>1. waiting[w] > 0 /\ waiting' # waiting /\ DOMAIN waiting = Who
    BY DEF TypeOK
  <1>2. ASSUME NEW x \in Who, NEW n \in Nat \ {0}, StartDelay(x, n) PROVE waiting[x] > 0
    <2>1. waiting' = [waiting EXCEPT ![x] = n]
      BY <1>2 DEF StartDelay
    <2>2. CASE x = w
      BY <1>1, <2>2
    <2>3. CASE x # w
      BY <1>1, <2>1, <2>3
    <2> QED BY <2>2, <2>3
  <1>3. ASSUME NEW x \in Who, EndDelay(x), x # w PROVE FALSE
    BY <1>1, <1>3 DEF EndDelay
  <1>4. /\ PowerDelay \in Nat \ {0} /\ ResetDelay \in Nat \ {0} /\ 1 \in Nat \ {0}
        /\ "main" \in Who /\ "isr" \in Who
    BY TimeAssumption DEF Who
  <1>5. ~PowerPhy /\ ~RegisterDelay
    BY <1>2, <1>4 DEF PowerPhy, RegisterDelay, Main
  <1>6. ~ResetPhy
    BY <1>1, <1>2, <1>4 DEF ResetPhy, Main
  <1>7. ~CallbackDelay
    BY <1>2, <1>4 DEF CallbackDelay
  <1>8. /\ ~Tick /\ ~FastTick /\ ~EnableExti /\ ~RegisterCallback /\ ~ReadTime
        /\ ~PeriodicHandle /\ ~LinkInterrupt /\ ~LeaveInterrupt
    BY <1>1 DEF Tick, FastTick, EnableExti, RegisterCallback, ReadTime, PeriodicHandle,
           LinkInterrupt, LeaveInterrupt
  <1> QED BY <1>3, <1>4, <1>5, <1>6, <1>7, <1>8 DEF Next, MainStep, IsrStep

(***************************************************************************)
(* A Delay lasts the ticks it was asked for, and so all but one of them as *)
(* whole periods, except in the interrupt when its deadline wraps.         *)
(***************************************************************************)
THEOREM DelayLastsLongEnough == Spec => DelayNotCutShort
  <1> DEFINE Lasts(w) == Waits(w) /\ waiting'[w] = 0 =>
                           \/ waited[w] >= (waiting[w] - 1) * period
                           \/ w = "isr" /\ timingdelay < waiting[w]
  <1>1. TypeOK /\ TimeInv /\ [Next]_vars => [\A w \in Who : Lasts(w)]_vars
    <2> SUFFICES ASSUME TypeOK, TimeInv, Next, NEW w \in Who, Waits(w), waiting'[w] = 0
                 PROVE  \/ waited[w] >= (waiting[w] - 1) * period
                        \/ w = "isr" /\ timingdelay < waiting[w]
      OBVIOUS
    <2> USE TimeAssumption DEF TypeOK
    <2>1. timingdelay <= LocalTime
      <3> HIDE DEF TypeOK
      <3> QED BY OnlyEndDelayEnds DEF EndDelay
    <2>2. CASE w = "isr"
      <3>1. waiting[w] = 1 /\ (timingdelay = 0 \/ waited[w] >= 0)
        BY <2>1, <2>2 DEF TimeInv, IsrTime
      <3>2. (waiting[w] - 1) * period = 0
        BY <3>1
      <3> QED BY <2>2, <3>1, <3>2
    <2>3. CASE w = "main"
      <3> DEFINE e == LocalTime - (timingdelay - waiting[w])
      <3>1. e * period <= waited[w] + period /\ e \in Int
        BY <2>3 DEF TimeInv, WaitInv, BootTime
      <3>2. /\ e >= waiting[w] /\ waiting[w] \in Nat /\ waited[w] \in Int /\ period \in Nat
            /\ waiting[w] > 0
        BY <2>1 DEF Waits
      <3>3. \A a, b, p \in Nat : a <= b => a * p <= b * p /\ a * p \in Nat /\ b * p \in Nat
        OBVIOUS
      <3> HIDE DEF e
      <3>4. waiting[w] * period <= e * period /\ e * period \in Nat /\ waiting[w] * period \in Nat
        BY <3>1, <3>2, <3>3
      <3>5. (waiting[w] - 1) * period = waiting[w] * period - period
        BY <3>2
      <3> DEFINE a == waiting[w] * period
                 b == e * period
                 c == (waiting[w] - 1) * period
      <3>6. waited[w] >= c
        <4>1. /\ a <= b /\ b <= waited[w] + period /\ a \in Nat /\ b \in Nat
              /\ c = a - period
          BY <3>1, <3>4, <3>5
        <4> HIDE DEF a, b, c
        <4> QED BY <3>2, <4>1
      <3> QED BY <3>6
    <2> QED BY <2>2, <2>3 DEF Who
  <1>2. []TypeOK /\ []TimeInv /\ [][Next]_vars => [][\A w \in Who : Lasts(w)]_vars
    BY <1>1, PTL
  <1> QED BY <1>2, TypeCorrect, TimeInvariance, PTL DEF Spec, DelayNotCutShort

-----------------------------------------------------------------------------
(***************************************************************************)
(* The ARP timer runs exactly when its interval has passed between the     *)
(* times the loop read, however often LocalTime has wrapped and however    *)
(* long the boot and the passes of the loop were.                          *)
(***************************************************************************)
THEOREM ArpTimerInTime == Spec => ArpInTime
  <1> DEFINE Good == pc = "check" /\ pc' = "read" =>
                       (ARPTimer' # ARPTimer <=> sinceArp - lag >= Interval)
  <1>1. ASSUME TypeOK, TimeInv, Next, pc = "check", pc' = "read"
        PROVE  ARPTimer' # ARPTimer <=> sinceArp - lag >= Interval
    <2>1. PeriodicHandle
      BY <1>1 DEF Next, MainStep, IsrStep, Tick, PowerPhy, FastTick, ResetPhy, RegisterDelay,
             EnableExti, RegisterCallback, ReadTime, LinkInterrupt, CallbackDelay,
             LeaveInterrupt, EndDelay, Main
    <2>2. Minus(localtime, ARPTimer) = sinceArp - lag
      BY <1>1, TrueDifference DEF Booting
    <2>3. CASE Minus(localtime, ARPTimer) >= Interval
      <3>1. localtime # ARPTimer
        BY <1>1, <2>3, TimeAssumption DEF Minus, TypeOK
      <3> QED BY <2>1, <2>2, <2>3, <3>1 DEF PeriodicHandle
    <2>4. CASE ~(Minus(localtime, ARPTimer) >= Interval)
      BY <2>1, <2>2, <2>4 DEF PeriodicHandle
    <2> QED BY <2>3, <2>4
  <1>2. TypeOK /\ TimeInv /\ [Next]_vars => [Good]_vars
    BY <1>1
  <1>3. []TypeOK /\ []TimeInv /\ [][Next]_vars => [][Good]_vars
    BY <1>2, PTL
  <1> QED BY <1>3, TypeCorrect, TimeInvariance, PTL DEF Spec, ArpInTime
=============================================================================
