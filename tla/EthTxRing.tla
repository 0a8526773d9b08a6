----------------------------- MODULE EthTxRing ------------------------------
(***************************************************************************)
(* The Ethernet transmit path: low_level_output copies a frame into the    *)
(* buffers of a ring of DMA descriptors, ETH_Prepare_Transmit_Descriptors  *)
(* gives these to the transmit DMA, and DMATxDescToSet remembers where the *)
(* next frame goes.                                                        *)
(*                                                                         *)
(* The main loop sends (ARP and ICMP replies), and so does the link        *)
(* interrupt: netif_set_link_up and netif_set_up send a gratuitous ARP     *)
(* from EXTI15_10_IRQHandler.  The handler runs to its end before the main *)
(* loop goes on, and it may come between any two accesses of the main loop *)
(* to the ring; the constant Windows says when it comes.                   *)
(*                                                                         *)
(* A frame is a number and a length in buffers; a buffer holds the pair    *)
(* <<frame, segment>> last copied to it.  The DMA is hardware: it reads    *)
(* OWN and raises TBUS in one step.  With transmit store-and-forward it    *)
(* never underruns, so the TUS branch of low_level_output is left out.     *)
(***************************************************************************)
EXTENDS Naturals, Sequences

CONSTANTS N,         \* descriptors in the ring (ETH_TXBUFNB)
          MaxSegs,   \* buffers of ETH_TX_BUF_SIZE the longest frame takes
          Windows,   \* when the handler may send: "between" or "during" sends
          MaxFrames  \* bound: frames sent in one behaviour

ASSUME RingAssumption ==
  /\ N \in Nat \ {0, 1}
  /\ MaxSegs \in Nat \ {0} /\ MaxSegs <= N
  /\ Windows \subseteq {"between", "during"}
  /\ MaxFrames \in Nat

Desc == 0 .. N - 1
Context == {"main", "isr"}

\* Buffer2NextDescAddr: the descriptor chained after d.
NextDesc(d) == IF d = N - 1 THEN 0 ELSE d + 1

VARIABLES
  own,        \* own[d]: who owns descriptor d, "dma" or "cpu" (Status.OWN)
  ls,         \* ls[d]: Status.LS, the buffer ends a frame
  buf,        \* buf[d]: the segment the buffer of d holds
  tbus,       \* ETH->DMASR.TBUS, transmit buffer unavailable
  toSet,      \* DMATxDescToSet
  dmaState,   \* what the DMA engine is doing
  dmaDesc,    \* the descriptor the engine looks at next
  fetched,    \* the segments of the frame the engine has read so far
  wire,       \* the segments of the last frame on the wire
  pc,         \* pc[c]: where context c is in low_level_output
  frame,      \* frame[c]: the packet it was given
  at,         \* at[c]: the descriptor whose buffer the local buffer points to
  cursor,     \* cursor[c]: the local DmaTxDesc, then DMATxDesc
  copied,     \* copied[c]: buffers filled so far
  given,      \* given[c]: the local i, descriptors given to the engine
  queued,     \* history: queued[c], the frame is with the engine
  queue,      \* history: the frames with the engine, oldest first
  sent        \* how many frames have been handed to low_level_output

ringVars  == <<own, ls, buf, tbus>>
dmaVars   == <<dmaState, dmaDesc, fetched, wire>>
localVars == <<frame, at, cursor, copied, given, queued>>
vars == <<ringVars, dmaVars, toSet, pc, localVars, queue, sent>>

Segment == (0 .. MaxFrames) \X (0 .. MaxSegs)
Frame   == [id : 0 .. MaxFrames, segs : 1 .. MaxSegs]
NoFrame == [id |-> 0, segs |-> 1]

(* ETH_DMATxDescChainInit, then ETH_Start.                                 *)
Init ==
  /\ own = [d \in Desc |-> "cpu"] /\ ls = [d \in Desc |-> FALSE]
  /\ buf = [d \in Desc |-> <<0, 0>>] /\ tbus = FALSE
  /\ toSet = 0
  /\ dmaState = "run" /\ dmaDesc = 0 /\ fetched = << >> /\ wire = << >>
  /\ pc = [c \in Context |-> "idle"] /\ frame = [c \in Context |-> NoFrame]
  /\ at = [c \in Context |-> 0] /\ cursor = [c \in Context |-> 0]
  /\ copied = [c \in Context |-> 0] /\ given = [c \in Context |-> 0]
  /\ queued = [c \in Context |-> FALSE]
  /\ queue = << >> /\ sent = 0

-----------------------------------------------------------------------------
(* The DMA engine (hardware).                                              *)

\* It finds a descriptor of the CPU's, raises TBUS and stops.
DmaSuspend ==
  /\ dmaState = "run" /\ own[dmaDesc] = "cpu"
  /\ dmaState' = "suspended" /\ tbus' = TRUE
  /\ UNCHANGED <<own, ls, buf, dmaDesc, fetched, wire, toSet, pc, localVars, queue, sent>>

DmaRead ==
  /\ dmaState = "run" /\ own[dmaDesc] = "dma"
  /\ dmaState' = "close"
  /\ fetched' = Append(fetched, buf[dmaDesc])
  /\ UNCHANGED <<ringVars, dmaDesc, wire, toSet, pc, localVars, queue, sent>>

\* It clears OWN and moves on; with the last segment the frame goes out.
DmaClose ==
  /\ dmaState = "close"
  /\ dmaState' = "run"
  /\ own' = [own EXCEPT ![dmaDesc] = "cpu"]
  /\ dmaDesc' = NextDesc(dmaDesc)
  /\ IF ls[dmaDesc]
       THEN /\ wire' = fetched /\ fetched' = << >>
            /\ queue' = IF queue = << >> THEN queue ELSE Tail(queue)
       ELSE UNCHANGED <<wire, fetched, queue>>
  /\ UNCHANGED <<ls, buf, tbus, toSet, pc, localVars, sent>>

Dma == DmaSuspend \/ DmaRead \/ DmaClose

-----------------------------------------------------------------------------
(* Control of the two contexts.                                            *)

\* The handler runs to its end.
Runs(c) == c = "isr" \/ pc["isr"] = "idle"

Goto(c, from, to) == Runs(c) /\ pc[c] = from /\ pc' = [pc EXCEPT ![c] = to]

MayInterrupt ==
  IF pc["main"] = "idle" THEN "between" \in Windows ELSE "during" \in Windows

-----------------------------------------------------------------------------
(* Plausible mistakes in the code; each breaks one property below.         *)

ChecksFirstOnly(c) ==
  /\ IF own[cursor[c]] = "dma" /\ copied[c] = 0
       THEN Goto(c, "check", "error") /\ UNCHANGED at
       ELSE /\ Goto(c, "check", "copy")
            /\ at' = [at EXCEPT ![c] = IF copied[c] = 0 THEN @ ELSE cursor[c]]
  /\ UNCHANGED <<ringVars, dmaVars, toSet, frame, cursor, copied, given, queued, queue, sent>>

NeverChecks(c) ==
  /\ Goto(c, "check", "copy")
  /\ at' = [at EXCEPT ![c] = IF copied[c] = 0 THEN @ ELSE cursor[c]]
  /\ UNCHANGED <<ringVars, dmaVars, toSet, frame, cursor, copied, given, queued, queue, sent>>

MarksEveryLast(c) ==
  LET d == cursor[c]
      last == given[c] + 1 = frame[c].segs
  IN /\ Goto(c, "give", IF last THEN "advance" ELSE "give")
     /\ ls' = [ls EXCEPT ![d] = TRUE]
     /\ own' = [own EXCEPT ![d] = "dma"]
     /\ cursor' = [cursor EXCEPT ![c] = NextDesc(d)]
     /\ given' = [given EXCEPT ![c] = @ + 1]
     /\ queued' = [queued EXCEPT ![c] = last]
     /\ queue' = IF last THEN Append(queue, frame[c]) ELSE queue
     /\ UNCHANGED <<buf, tbus, dmaVars, toSet, frame, at, copied, sent>>

AdvancesByOne(c) ==
  /\ Goto(c, "advance", "resume")
  /\ toSet' = NextDesc(toSet)
  /\ UNCHANGED <<ringVars, dmaVars, localVars, queue, sent>>

ClearsWithoutDemand(c) ==
  /\ Goto(c, "clear", "ok")
  /\ tbus' = FALSE
  /\ UNCHANGED <<own, ls, buf, dmaVars, toSet, localVars, queue, sent>>

-----------------------------------------------------------------------------
(* low_level_output.                                                       *)

\* The call, with its first reading of DMATxDescToSet.
Call(c, n) ==
  /\ sent < MaxFrames
  /\ c = "isr" => MayInterrupt
  /\ Goto(c, "idle", "take")
  /\ sent' = sent + 1
  /\ frame' = [frame EXCEPT ![c] = [id |-> sent + 1, segs |-> n]]
  /\ at' = [at EXCEPT ![c] = toSet]
  /\ UNCHANGED <<ringVars, dmaVars, toSet, cursor, copied, given, queued, queue>>

TakeDescriptor(c) ==
  /\ Goto(c, "take", "check")
  /\ cursor' = [cursor EXCEPT ![c] = toSet]
  /\ UNCHANGED <<ringVars, dmaVars, toSet, frame, at, copied, given, queued, queue, sent>>

\* Is this buffer available?
CheckOwn(c) ==
  /\ IF own[cursor[c]] = "dma"
       THEN Goto(c, "check", "error") /\ UNCHANGED at
       ELSE /\ Goto(c, "check", "copy")
            /\ at' = [at EXCEPT ![c] = IF copied[c] = 0 THEN @ ELSE cursor[c]]
  /\ UNCHANGED <<ringVars, dmaVars, toSet, frame, cursor, copied, given, queued, queue, sent>>

Copy(c) ==
  LET last == copied[c] + 1 = frame[c].segs
  IN /\ Goto(c, "copy", IF last THEN "prepare" ELSE "check")
     /\ buf' = [buf EXCEPT ![at[c]] = <<frame[c].id, copied[c] + 1>>]
     /\ copied' = [copied EXCEPT ![c] = @ + 1]
     /\ cursor' = [cursor EXCEPT ![c] = IF last THEN @ ELSE NextDesc(@)]
     /\ UNCHANGED <<own, ls, tbus, dmaVars, toSet, frame, at, given, queued, queue, sent>>

Return(c) ==
  /\ \/ Goto(c, "ok", "idle")
     \/ Goto(c, "error", "idle")
  /\ frame' = [frame EXCEPT ![c] = NoFrame]
  /\ at' = [at EXCEPT ![c] = 0] /\ cursor' = [cursor EXCEPT ![c] = 0]
  /\ copied' = [copied EXCEPT ![c] = 0] /\ given' = [given EXCEPT ![c] = 0]
  /\ queued' = [queued EXCEPT ![c] = FALSE]
  /\ UNCHANGED <<ringVars, dmaVars, toSet, queue, sent>>

-----------------------------------------------------------------------------
(* ETH_Prepare_Transmit_Descriptors.                                       *)

\* An ETH_ERROR is not looked at by low_level_output, which returns ERR_OK.
PrepareCheck(c) ==
  /\ Goto(c, "prepare", IF own[toSet] = "dma" THEN "ok" ELSE "first")
  /\ UNCHANGED <<ringVars, dmaVars, toSet, localVars, queue, sent>>

PrepareFirst(c) ==
  /\ Goto(c, "first", "give")
  /\ cursor' = [cursor EXCEPT ![c] = toSet]
  /\ UNCHANGED <<ringVars, dmaVars, toSet, frame, at, copied, given, queued, queue, sent>>

GiveDescriptor(c) ==
  LET d == cursor[c]
      last == given[c] + 1 = frame[c].segs
  IN /\ Goto(c, "give", IF last THEN "advance" ELSE "give")
     /\ ls' = [ls EXCEPT ![d] = last]
     /\ own' = [own EXCEPT ![d] = "dma"]
     /\ cursor' = [cursor EXCEPT ![c] = NextDesc(d)]
     /\ given' = [given EXCEPT ![c] = @ + 1]
     /\ queued' = [queued EXCEPT ![c] = last]
     /\ queue' = IF last THEN Append(queue, frame[c]) ELSE queue
     /\ UNCHANGED <<buf, tbus, dmaVars, toSet, frame, at, copied, sent>>

AdvanceToSet(c) ==
  /\ Goto(c, "advance", "resume")
  /\ toSet' = cursor[c]
  /\ UNCHANGED <<ringVars, dmaVars, localVars, queue, sent>>

TestTbus(c) ==
  /\ Goto(c, "resume", IF tbus THEN "clear" ELSE "ok")
  /\ UNCHANGED <<ringVars, dmaVars, toSet, localVars, queue, sent>>

ClearTbus(c) ==
  /\ Goto(c, "clear", "demand")
  /\ tbus' = FALSE
  /\ UNCHANGED <<own, ls, buf, dmaVars, toSet, localVars, queue, sent>>

\* A write to DMATPDR; it matters to a suspended engine only.
PollDemand(c) ==
  /\ Goto(c, "demand", "ok")
  /\ dmaState' = IF dmaState = "suspended" THEN "run" ELSE dmaState
  /\ UNCHANGED <<ringVars, dmaDesc, fetched, wire, toSet, localVars, queue, sent>>

-----------------------------------------------------------------------------
Output(c) ==
  \/ TakeDescriptor(c) \/ CheckOwn(c) \/ Copy(c) \/ Return(c)
  \/ PrepareCheck(c) \/ PrepareFirst(c) \/ GiveDescriptor(c) \/ AdvanceToSet(c)
  \/ TestTbus(c) \/ ClearTbus(c) \/ PollDemand(c)

\* The handler sends ARP packets, which fit one buffer.
Next ==
  \/ \E n \in 1 .. MaxSegs : Call("main", n)
  \/ Call("isr", 1)
  \/ \E c \in Context : Output(c)
  \/ Dma

Spec == Init /\ [][Next]_vars

\* A call runs on until it returns, and the engine runs by itself; nothing
\* obliges anybody to send.
FairSpec == Spec /\ WF_vars(Dma) /\ \A c \in Context : WF_vars(Output(c))

-----------------------------------------------------------------------------
RingType ==
  /\ own \in [Desc -> {"dma", "cpu"}] /\ ls \in [Desc -> BOOLEAN]
  /\ buf \in [Desc -> Segment] /\ tbus \in BOOLEAN /\ toSet \in Desc

EngineType ==
  /\ dmaState \in {"run", "close", "suspended"} /\ dmaDesc \in Desc
  /\ fetched \in Seq(Segment) /\ wire \in Seq(Segment)

CallType ==
  /\ pc \in [Context -> {"idle", "take", "check", "copy", "prepare", "first", "give",
                         "advance", "resume", "clear", "demand", "ok", "error"}]
  /\ frame \in [Context -> Frame]
  /\ at \in [Context -> Desc] /\ cursor \in [Context -> Desc]
  /\ copied \in [Context -> 0 .. MaxSegs] /\ given \in [Context -> 0 .. MaxSegs]
  /\ queued \in [Context -> BOOLEAN]

TypeOK ==
  /\ RingType /\ EngineType /\ CallType
  /\ queue \in Seq(Frame) /\ sent \in 0 .. MaxFrames

(***************************************************************************)
(* low_level_output never copies into a buffer the engine may be reading,  *)
(* although it looked at OWN some steps before.                            *)
(***************************************************************************)
CopiesIntoOwnBuffers == \A c \in Context : pc[c] = "copy" => own[at[c]] = "cpu"

(***************************************************************************)
(* Between calls DMATxDescToSet and the engine agree: when the descriptor  *)
(* the engine looks at is not its own, the next frame starts right there.  *)
(***************************************************************************)
ToSetInStep ==
  pc = [c \in Context |-> "idle"] /\ own[dmaDesc] = "cpu" => toSet = dmaDesc

(***************************************************************************)
(* The engine never sleeps over a descriptor given to it: while it is      *)
(* suspended on one, a call is on its way to the poll demand.              *)
(***************************************************************************)
NoLostDemand ==
  dmaState = "suspended" /\ own[dmaDesc] = "dma" =>
    \E c \in Context : \/ pc[c] \in {"give", "advance", "resume", "clear"} /\ tbus
                       \/ pc[c] = "demand"

(***************************************************************************)
(* "ERR_OK if the packet could be sent" (low_level_output).                *)
(***************************************************************************)
OkMeansQueued == \A c \in Context : pc[c] = "ok" => queued[c]

(***************************************************************************)
(* "The packet is contained in the pbuf that is passed to the function"    *)
(* (low_level_output): what goes on the wire is such a packet, whole.      *)
(***************************************************************************)
WireIntact == \E f \in 0 .. MaxFrames : wire = [s \in 1 .. Len(wire) |-> <<f, s>>]

\* Against EthTxService: accepted frames go out whole, once, in order.
InHand == {frame[c] : c \in {d \in Context :
             pc[d] \in {"take", "check", "copy", "prepare", "first", "give"}}}

Service == INSTANCE EthTxService WITH Frames <- 1 .. MaxFrames, inHand <- InHand

ImplementsService == Service!Spec

(***************************************************************************)
(* An accepted frame does not stay in the ring for ever.                   *)
(***************************************************************************)
AcceptedAreSent ==
  \A f \in 1 .. MaxFrames :
    (queue # << >> /\ Head(queue).id = f) ~> ~(queue # << >> /\ Head(queue).id = f)
=============================================================================
