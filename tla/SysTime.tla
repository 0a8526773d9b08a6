------------------------------- MODULE SysTime -------------------------------
(***************************************************************************)
(* The time base of the firmware: LocalTime, a counter that the SysTick    *)
(* interrupt advances and that wraps; Delay, a busy wait on it through the *)
(* global variable timingdelay; and the ARP timer that the main loop runs  *)
(* from it.                                                                *)
(*                                                                         *)
(* Three activities share them.  The main program boots (a Delay while the *)
(* PHY is held in reset, a faster tick, the delays of ETH_Init and         *)
(* ETH_Start) and then loops.  The link interrupt preempts it from the     *)
(* moment the EXTI line is configured, and calls Delay only through        *)
(* ETH_link_callback, once that is registered.  SysTick preempts both.     *)
(*                                                                         *)
(* LocalTime advances by one at each tick.  A tick is long for the         *)
(* processor (1 ms at 168 MHz): whoever polls LocalTime in Delay polls it  *)
(* between two ticks, and everything else the main program and the         *)
(* interrupt do outside Delay is given MaxPass ticks, which may be many    *)
(* times Interval: without a cable ETH_Init, and the callback, read the PHY*)
(* hundreds of thousands of times.                                         *)
(***************************************************************************)
EXTENDS Integers

CONSTANTS
  W,           \* LocalTime counts modulo W: 2^32
  SlowMs,      \* the period of SysTick at first: 10 ms
  FastMs,      \* and from ETH_BSP_Config on: 1 ms
  PowerDelay,  \* Delay(5), with the PHY disabled
  ResetDelay,  \* PHY_RESET_DELAY
  RegDelays,   \* ETH_REG_WRITE_DELAY is 1; so many of them at most in one call
  Interval,    \* ARP_TMR_INTERVAL
  MaxPass,     \* bound: ticks outside Delay, in the boot and in a pass of the loop
  MaxIrqs      \* bound: how often the link interrupt comes

\* The longest boot, and the longest time between two readings of LocalTime
\* in the main loop.
BootTicks == PowerDelay + ResetDelay + 2 * RegDelays + MaxPass
PassTicks == MaxPass + MaxIrqs * RegDelays

\* The counter is wide enough for the longest time that the ARP timer can be
\* behind: 2^32 ms are 49 days, and the PHY's polls time out within hours even
\* if each of their reads does so too.
ASSUME TimeAssumption ==
  /\ W \in Nat \ {0} /\ SlowMs \in Nat \ {0} /\ FastMs \in Nat \ {0}
  /\ PowerDelay \in Nat \ {0} /\ ResetDelay \in Nat \ {0} /\ RegDelays \in Nat \ {0}
  /\ Interval \in Nat \ {0} /\ MaxPass \in Nat /\ MaxIrqs \in Nat
  /\ Interval + BootTicks + 2 * PassTicks + 1 < W

VARIABLES
  LocalTime,    \* ticks since the start, modulo W
  period,       \* what SysTick is programmed to, in ms
  timingdelay,  \* the deadline of the Delay that was called last
  waiting,      \* who waits in Delay, and for how many units: 0 when not
  waited,       \* history: ms since then, less one tick: the first may come at once
  pc,           \* where the main program is
  left,         \* how many register delays its present call still makes
  exti,         \* the EXTI line of the PHY is enabled
  callback,     \* ETH_link_callback is registered
  isr,          \* the link interrupt handler is active
  isrLeft,      \* how many register delays it still makes
  irqs,         \* how often it has come
  localtime,    \* LocalTime as the main loop read it for LwIP_Periodic_Handle
  ARPTimer,     \* when the ARP timer last ran
  lag,          \* history: ticks outside Delay in the boot; since localtime was read
  sinceArp      \* history: ticks since the time ARPTimer stands for

delayVars == <<timingdelay, waiting, waited>>
isrVars   == <<isr, isrLeft, irqs>>
arpVars   == <<localtime, ARPTimer, sinceArp>>
vars == <<LocalTime, period, delayVars, pc, left, exti, callback, isrVars, arpVars, lag>>

Who == {"main", "isr"}

\* Unsigned arithmetic, of numbers below W.
Plus(a, b)  == IF a + b < W THEN a + b ELSE a + b - W
Minus(a, b) == IF a >= b THEN a - b ELSE a - b + W

Init ==
  /\ LocalTime = 0 /\ period = SlowMs
  /\ timingdelay = 0 /\ waiting = [w \in Who |-> 0] /\ waited = [w \in Who |-> 0]
  /\ pc = "power" /\ left = 0
  /\ exti = FALSE /\ callback = FALSE
  /\ isr = FALSE /\ isrLeft = 0 /\ irqs = 0
  /\ localtime = 0 /\ ARPTimer = 0
  /\ lag = 0 /\ sinceArp = 0

-----------------------------------------------------------------------------
(* Who has the processor, and a step of the main program, which has it     *)
(* when neither the interrupt handler is active nor a Delay of its own is. *)

Waits(w) == waiting[w] > 0
InDelay  == Waits(IF isr THEN "isr" ELSE "main")
Booting  == pc # "read" /\ pc # "check"

\* The poll that ends a Delay comes before the next tick.
PollDue == InDelay /\ timingdelay <= LocalTime

Main(from, to) == ~isr /\ ~Waits("main") /\ pc = from /\ pc' = to

hardware == UNCHANGED <<LocalTime, isrVars>>

-----------------------------------------------------------------------------
(* Plausible mistakes in the code; each breaks one property below.         *)

CountsTheCall(w, n) ==
  /\ timingdelay' = Plus(LocalTime, n - 1)
  /\ waiting' = [waiting EXCEPT ![w] = n]
  /\ waited' = [waited EXCEPT ![w] = -period]

SamePriority ==
  /\ ~PollDue /\ ~isr
  /\ InDelay \/ lag < MaxPass
  /\ LocalTime' = Plus(LocalTime, 1)
  /\ waited' = [w \in Who |-> IF Waits(w) THEN waited[w] + period ELSE 0]
  /\ lag' = IF Booting /\ InDelay THEN lag ELSE lag + 1
  /\ sinceArp' = sinceArp + 1
  /\ UNCHANGED <<period, timingdelay, waiting, pc, left, exti, callback, isrVars,
                 localtime, ARPTimer>>

RegistersFirst ==
  /\ Main("init", "start") /\ left = 0
  /\ exti' = TRUE /\ callback' = TRUE
  /\ left' \in 0 .. RegDelays
  /\ hardware /\ UNCHANGED <<period, delayVars, arpVars, lag>>

ComparesDeadline ==
  /\ Main("check", "read")
  /\ IF localtime >= Plus(ARPTimer, Interval)
       THEN ARPTimer' = localtime /\ sinceArp' = lag
       ELSE UNCHANGED <<ARPTimer, sinceArp>>
  /\ hardware /\ UNCHANGED <<period, delayVars, left, exti, callback, localtime, lag>>

-----------------------------------------------------------------------------
(* Delay, for whoever calls it.                                            *)

StartDelay(w, n) ==
  /\ timingdelay' = Plus(LocalTime, n)
  /\ waiting' = [waiting EXCEPT ![w] = n]
  /\ waited' = [waited EXCEPT ![w] = -period]

\* while (timingdelay > LocalTime): the poll of the one who has the processor.
EndDelay(w) ==
  /\ Waits(w) /\ timingdelay <= LocalTime
  /\ isr <=> w = "isr"
  /\ waiting' = [waiting EXCEPT ![w] = 0]
  /\ UNCHANGED <<LocalTime, period, timingdelay, waited, pc, left, exti, callback,
                 isrVars, arpVars, lag>>

-----------------------------------------------------------------------------
(* SysTick_Handler, at any moment: it has the highest priority.            *)

Tick ==
  /\ ~PollDue
  /\ InDelay \/ lag < MaxPass
  /\ LocalTime' = Plus(LocalTime, 1)
  /\ waited' = [w \in Who |-> IF Waits(w) THEN waited[w] + period ELSE 0]
  /\ lag' = IF Booting /\ InDelay THEN lag ELSE lag + 1
  /\ sinceArp' = sinceArp + 1
  /\ UNCHANGED <<period, timingdelay, waiting, pc, left, exti, callback, isrVars,
                 localtime, ARPTimer>>

-----------------------------------------------------------------------------
(* The main program.                                                       *)

\* main: the PHY is powered down around Delay(5).
PowerPhy ==
  /\ Main("power", "fast")
  /\ StartDelay("main", PowerDelay)
  /\ hardware /\ UNCHANGED <<period, left, exti, callback, arpVars, lag>>

\* ETH_BSP_Config reprograms SysTick before anything else.
FastTick ==
  /\ Main("fast", "reset")
  /\ period' = FastMs
  /\ hardware /\ UNCHANGED <<delayVars, left, exti, callback, arpVars, lag>>

\* ETH_Init resets the PHY and then sets up the MAC.  If the PHY does not take
\* the reset, or has no link, it goes on with the default configuration.
ResetPhy ==
  /\ Main("reset", "init")
  /\ \/ StartDelay("main", ResetDelay)
     \/ UNCHANGED delayVars
  /\ left' \in 0 .. RegDelays
  /\ hardware /\ UNCHANGED <<period, exti, callback, arpVars, lag>>

\* One register write of ETH_Init or ETH_Start with its delay.
RegisterDelay ==
  /\ pc \in {"init", "start"} /\ left > 0
  /\ Main(pc, pc)
  /\ StartDelay("main", 1)
  /\ left' = left - 1
  /\ hardware /\ UNCHANGED <<period, exti, callback, arpVars, lag>>

\* Eth_Link_EXTIConfig; from here to ETH_Start nothing waits.
EnableExti ==
  /\ Main("init", "start") /\ left = 0
  /\ exti' = TRUE
  /\ left' \in 0 .. RegDelays
  /\ hardware /\ UNCHANGED <<period, delayVars, callback, arpVars, lag>>

\* The end of LwIP_Init, after ETH_Start.
RegisterCallback ==
  /\ Main("start", "read") /\ left = 0
  /\ callback' = TRUE
  /\ lag' = 0
  /\ hardware /\ UNCHANGED <<period, delayVars, left, exti, arpVars>>

\* runReceivers: LocalTime is passed to LwIP_Periodic_Handle by value.
ReadTime ==
  /\ Main("read", "check")
  /\ localtime' = LocalTime
  /\ lag' = 0
  /\ hardware /\ UNCHANGED <<period, delayVars, left, exti, callback, ARPTimer, sinceArp>>

PeriodicHandle ==
  /\ Main("check", "read")
  /\ IF Minus(localtime, ARPTimer) >= Interval
       THEN ARPTimer' = localtime /\ sinceArp' = lag
       ELSE UNCHANGED <<ARPTimer, sinceArp>>
  /\ hardware /\ UNCHANGED <<period, delayVars, left, exti, callback, localtime, lag>>

MainStep == \/ EndDelay("main") \/ PowerPhy \/ FastTick \/ ResetPhy \/ RegisterDelay
            \/ EnableExti \/ RegisterCallback \/ ReadTime \/ PeriodicHandle

-----------------------------------------------------------------------------
(* The link interrupt.  Without a callback it sets a flag and returns.     *)

LinkInterrupt ==
  /\ exti /\ ~isr /\ irqs < MaxIrqs
  /\ isr' = TRUE /\ irqs' = irqs + 1
  /\ isrLeft' \in (IF callback THEN 0 .. RegDelays ELSE {0})
  /\ UNCHANGED <<LocalTime, period, delayVars, pc, left, exti, callback, arpVars, lag>>

CallbackDelay ==
  /\ isr /\ ~Waits("isr") /\ isrLeft > 0
  /\ StartDelay("isr", 1)
  /\ isrLeft' = isrLeft - 1
  /\ UNCHANGED <<LocalTime, period, pc, left, exti, callback, isr, irqs, arpVars, lag>>

LeaveInterrupt ==
  /\ isr /\ ~Waits("isr") /\ isrLeft = 0
  /\ isr' = FALSE
  /\ UNCHANGED <<LocalTime, period, delayVars, pc, left, exti, callback, isrLeft, irqs,
                 arpVars, lag>>

IsrStep == EndDelay("isr") \/ CallbackDelay \/ LeaveInterrupt

Next == Tick \/ MainStep \/ LinkInterrupt \/ IsrStep

Spec == Init /\ [][Next]_vars

\* SysTick keeps counting, and the processor executes whoever has it.
FairSpec == Spec /\ WF_vars(Tick) /\ WF_vars(MainStep) /\ WF_vars(IsrStep)

-----------------------------------------------------------------------------
TypeOK ==
  /\ LocalTime \in 0 .. W - 1 /\ timingdelay \in 0 .. W - 1
  /\ localtime \in 0 .. W - 1 /\ ARPTimer \in 0 .. W - 1
  /\ period \in {SlowMs, FastMs}
  /\ waiting \in [Who -> Nat] /\ waited \in [Who -> Int]
  /\ pc \in {"power", "fast", "reset", "init", "start", "read", "check"}
  /\ left \in 0 .. RegDelays /\ isrLeft \in 0 .. RegDelays /\ irqs \in 0 .. MaxIrqs
  /\ exti \in BOOLEAN /\ callback \in BOOLEAN /\ isr \in BOOLEAN
  /\ lag \in Nat /\ sinceArp \in Nat

(***************************************************************************)
(* Delay keeps its deadline in one global.  It is safe because nobody      *)
(* starts to wait while the other does: the interrupt may come inside a    *)
(* Delay of the boot, but its callback is registered only after the last.  *)
(***************************************************************************)
DelaysDoNotOverlap == ~(Waits("main") /\ Waits("isr"))

(***************************************************************************)
(* Delay(n) lasts n ticks, and so more than n - 1 whole periods of the     *)
(* length SysTick has when it begins: the first tick may come at once.     *)
(* This holds although interrupts that wait come before and after it and   *)
(* the tick changes during the boot.  The exception is a Delay whose       *)
(* deadline wraps, which returns at once: only the interrupt can meet it,  *)
(* when LocalTime is about to wrap.                                        *)
(***************************************************************************)
DelayNotCutShort ==
  [][ \A w \in Who : Waits(w) /\ waiting'[w] = 0 =>
        \/ waited[w] >= (waiting[w] - 1) * period
        \/ w = "isr" /\ timingdelay < waiting[w] ]_vars

(***************************************************************************)
(* Each time the loop looks, the ARP timer runs exactly if ARP_TMR_INTERVAL*)
(* has passed between the time it last ran for and the time just read, by  *)
(* a clock that never wraps; across every wrap of LocalTime and however    *)
(* late the loop comes, after a boot or a pass longer than the interval.   *)
(* How late it comes is the length of a pass, which the code does not      *)
(* bound.                                                                  *)
(***************************************************************************)
ArpInTime ==
  [][ pc = "check" /\ pc' = "read" =>
        (ARPTimer' # ARPTimer <=> sinceArp - lag >= Interval) ]_vars

(***************************************************************************)
(* The ARP timer runs for ever: no Delay, of the boot or of the interrupt, *)
(* waits for a tick that cannot come.                                      *)
(***************************************************************************)
ArpKeepsRunning == []<><<ARPTimer' # ARPTimer>>_vars
=============================================================================
