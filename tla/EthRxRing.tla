----------------------------- MODULE EthRxRing ------------------------------
(***************************************************************************)
(* The Ethernet receive path of the firmware: a ring of DMA descriptors    *)
(* filled by the STM32F407 Ethernet DMA and emptied by the main loop       *)
(* through ETH_CheckFrameReceived, ETH_Get_Received_Frame and              *)
(* low_level_input.  The two sides share nothing but the OWN bit of each   *)
(* descriptor, the RBUS flag of the DMA status register and the receive    *)
(* poll demand register, and no access of the main loop is atomic with     *)
(* another one, so each is an action of its own here.                      *)
(*                                                                         *)
(* A frame is a number and a length in receive buffers; what a buffer      *)
(* holds is the pair <<frame, segment>> last written to it.  The DMA       *)
(* engine is hardware: its actions are modelled from the way the driver    *)
(* programs it (chained descriptors, receive store-and-forward, flushing   *)
(* of frames enabled).                                                     *)
(***************************************************************************)
EXTENDS Naturals, Sequences

CONSTANTS N,             \* descriptors in the ring (ETH_RXBUFNB)
          MaxSegs,       \* receive buffers the longest frame takes
          FifoDepth,     \* frames the MAC's receive FIFO can hold
          MaxFrames      \* bound: frames the wire offers in one behaviour

ASSUME RingAssumption ==
  /\ N \in Nat \ {0, 1}
  /\ MaxSegs \in Nat \ {0} /\ MaxSegs < N
  /\ FifoDepth \in Nat \ {0}
  /\ MaxFrames \in Nat

Desc == 0 .. N - 1

\* Buffer2NextDescAddr: the descriptor chained after d.
NextDesc(d) == IF d = N - 1 THEN 0 ELSE d + 1

VARIABLES
  own,          \* own[d]: who owns descriptor d, "dma" or "cpu" (Status.OWN)
  status,       \* status[d]: the FS and LS bits and the frame length of Status
  buf,          \* buf[d]: the segment the buffer of d holds
  dmaState,     \* what the DMA engine is doing
  dmaDesc,      \* the descriptor the DMA engine will fill next
  dmaSeg,       \* segments of the frame at the FIFO's head already stored
  fifo,         \* the frames in the MAC's FIFO
  offered,      \* frames the wire has offered so far
  rbus,         \* ETH->DMASR.RBUS, receive buffer unavailable
  pc,           \* where the main loop is in the receive path
  toGet,        \* DMARxDescToGet
  fsDesc,       \* DMA_RX_FRAME_infos->FS_Rx_Desc
  segCount,     \* DMA_RX_FRAME_infos->Seg_Count
  len,          \* frame.length, in buffers
  cursor,       \* the local DMARxDesc of low_level_input
  released,     \* the local i: descriptors given back so far
  pbuf,         \* the segments copied to the pbuf chain; << >> is NULL
  out           \* the segments of the last frame given to netif->input()

dmaVars == <<dmaState, dmaDesc, dmaSeg, fifo, offered>>
cpuVars == <<pc, toGet, fsDesc, segCount, len, cursor, released, pbuf, out>>
vars    == <<own, status, buf, rbus, dmaVars, cpuVars>>

Frame == [id : Nat, segs : 1 .. MaxSegs]
Segment == Nat \X (0 .. MaxSegs)

Cleared == [fs |-> FALSE, ls |-> FALSE, len |-> 0]

(* ETH_DMARxDescChainInit, then ETH_Start. *)
Init ==
  /\ own = [d \in Desc |-> "dma"]
  /\ status = [d \in Desc |-> Cleared]
  /\ buf = [d \in Desc |-> <<0, 0>>]
  /\ dmaState = "idle" /\ dmaDesc = 0 /\ dmaSeg = 0
  /\ fifo = << >> /\ offered = 0 /\ rbus = FALSE
  /\ pc = "poll" /\ toGet = 0 /\ fsDesc = 0 /\ segCount = 0
  /\ len = 0 /\ cursor = 0 /\ released = 0
  /\ pbuf = << >> /\ out = << >>

-----------------------------------------------------------------------------
(* The DMA engine (hardware).                                              *)

\* A frame of n buffers arrives; the FIFO may have no room for it.  A
\* suspended engine looks at its descriptor again when a frame is recognised.
FrameArrives(n) ==
  /\ offered < MaxFrames
  /\ offered' = offered + 1
  /\ fifo' = IF Len(fifo) < FifoDepth
             THEN Append(fifo, [id |-> offered + 1, segs |-> n]) ELSE fifo
  /\ dmaState' = IF dmaState = "suspended" THEN "retry" ELSE dmaState
  /\ UNCHANGED <<own, status, buf, rbus, dmaDesc, dmaSeg, cpuVars>>

\* The engine reads the OWN bit of the next descriptor for the head frame.
DmaFetch ==
  /\ dmaState = "idle" /\ fifo # << >>
  /\ dmaState' = IF own[dmaDesc] = "dma" THEN "write" ELSE "full"
  /\ UNCHANGED <<own, status, buf, rbus, dmaDesc, dmaSeg, fifo, offered, cpuVars>>

\* It found a descriptor of the CPU's: it raises RBUS and suspends.
DmaSuspend ==
  /\ dmaState = "full"
  /\ dmaState' = "suspended" /\ rbus' = TRUE
  /\ UNCHANGED <<own, status, buf, dmaDesc, dmaSeg, fifo, offered, cpuVars>>

\* A suspended engine woken by a new frame drops the frames in the FIFO, one
\* look at the descriptor each, while the CPU has not given it back.
DmaRetry ==
  /\ dmaState = "retry"
  /\ \/ /\ own[dmaDesc] = "dma"
        /\ dmaState' = "idle" /\ UNCHANGED fifo
     \/ /\ own[dmaDesc] = "cpu"
        /\ dmaState' = IF Len(fifo) = 1 THEN "suspended" ELSE "retry"
        /\ fifo' = Tail(fifo)
  /\ UNCHANGED <<own, status, buf, rbus, dmaDesc, dmaSeg, offered, cpuVars>>

DmaWrite ==
  /\ dmaState = "write"
  /\ dmaState' = "close"
  /\ buf' = [buf EXCEPT ![dmaDesc] = <<Head(fifo).id, dmaSeg + 1>>]
  /\ UNCHANGED <<own, status, rbus, dmaDesc, dmaSeg, fifo, offered, cpuVars>>

\* The length the driver computes leaves the 4 bytes of the CRC out, which
\* may be all that the last buffer of a long frame holds.
Lengths(segs) == IF segs > 1 THEN {segs - 1, segs} ELSE {segs}

\* The engine writes the status word, which clears OWN, and moves on.  With no
\* descriptor left in the middle of a frame it closes the frame here (LS set,
\* descriptor error, the rest flushed) and suspends.
DmaClose ==
  LET stored == dmaSeg + 1
      whole  == stored = Head(fifo).segs
      cut    == ~whole /\ own[NextDesc(dmaDesc)] = "cpu"
  IN /\ dmaState = "close"
     /\ \E l \in Lengths(stored) :
          status' = [status EXCEPT ![dmaDesc] =
                       [fs |-> dmaSeg = 0, ls |-> whole \/ cut, len |-> l]]
     /\ own' = [own EXCEPT ![dmaDesc] = "cpu"]
     /\ dmaDesc' = NextDesc(dmaDesc)
     /\ dmaSeg' = IF whole \/ cut THEN 0 ELSE stored
     /\ fifo' = IF whole \/ cut THEN Tail(fifo) ELSE fifo
     /\ dmaState' = IF cut THEN "full" ELSE "idle"
     /\ UNCHANGED <<buf, rbus, offered, cpuVars>>

Dma == DmaFetch \/ DmaSuspend \/ DmaRetry \/ DmaWrite \/ DmaClose

-----------------------------------------------------------------------------
(* Bugs a change to the driver could bring, one for each property.         *)

\* The release loop runs before the copy has reached the last buffer.
EarlyCopyBuffer ==
  /\ pc = "copy"
  /\ pbuf' = Append(pbuf, buf[cursor])
  /\ IF Len(pbuf) + 1 < len
     THEN cursor' = NextDesc(cursor) /\ pc' = pc /\ UNCHANGED own
     ELSE cursor' = fsDesc /\ pc' = "release" /\ own' = [own EXCEPT ![fsDesc] = "dma"]
  /\ UNCHANGED <<status, buf, rbus, dmaVars, toGet, fsDesc, segCount, len, released, out>>

\* DMARxDescToGet is not advanced past the last segment.
StaysOnLastSegment ==
  /\ pc = "get"
  /\ len' = status[toGet].len
  /\ cursor' = fsDesc
  /\ pc' = "alloc"
  /\ UNCHANGED <<own, status, buf, rbus, dmaVars, toGet, fsDesc, segCount, released, pbuf, out>>

\* RBUS is cleared and the poll demand forgotten.
ClearsWithoutDemand ==
  /\ pc = "clear"
  /\ rbus' = FALSE /\ pc' = "input"
  /\ UNCHANGED <<own, status, buf, dmaVars, toGet, fsDesc, segCount, len, cursor, released, pbuf, out>>

\* The copy restarts from the first buffer for every pbuf of the chain.
CopiesFirstBufferAgain ==
  /\ pc = "copy"
  /\ pbuf' = Append(pbuf, buf[fsDesc])
  /\ IF Len(pbuf) + 1 < len
     THEN cursor' = NextDesc(cursor) /\ pc' = pc
     ELSE cursor' = fsDesc /\ pc' = "release"
  /\ UNCHANGED <<own, status, buf, rbus, dmaVars, toGet, fsDesc, segCount, len, released, out>>

\* Without a pbuf low_level_input returns at once and releases nothing.
ReturnsWithoutPbuf ==
  /\ pc = "alloc"
  /\ pc' \in {"copy", "input"}
  /\ UNCHANGED <<own, status, buf, rbus, dmaVars, toGet, fsDesc, segCount, len, cursor, released, pbuf, out>>

-----------------------------------------------------------------------------
(* The main loop.                                                          *)

\* ETH_CheckFrameReceived.  Its three conditions read the status word one
\* after the other, but nothing changes it once OWN is clear; a call that
\* finds OWN set changes nothing.
PollLast ==
  /\ pc = "poll" /\ own[toGet] = "cpu" /\ status[toGet].ls
  /\ segCount' = segCount + 1
  /\ fsDesc' = IF segCount = 0 THEN toGet ELSE fsDesc
  /\ pc' = "get"
  /\ UNCHANGED <<own, status, buf, rbus, dmaVars, toGet, len, cursor, released, pbuf, out>>

PollFirst ==
  /\ pc = "poll" /\ own[toGet] = "cpu" /\ status[toGet].fs /\ ~status[toGet].ls
  /\ segCount' = 1
  /\ fsDesc' = toGet
  /\ toGet' = NextDesc(toGet)
  /\ UNCHANGED <<own, status, buf, rbus, dmaVars, pc, len, cursor, released, pbuf, out>>

PollMiddle ==
  /\ pc = "poll" /\ own[toGet] = "cpu" /\ ~status[toGet].fs /\ ~status[toGet].ls
  /\ segCount' = segCount + 1
  /\ toGet' = NextDesc(toGet)
  /\ UNCHANGED <<own, status, buf, rbus, dmaVars, pc, fsDesc, len, cursor, released, pbuf, out>>

\* ETH_Get_Received_Frame
GetReceivedFrame ==
  /\ pc = "get"
  /\ len' = status[toGet].len
  /\ cursor' = fsDesc
  /\ toGet' = NextDesc(toGet)
  /\ pc' = "alloc"
  /\ UNCHANGED <<own, status, buf, rbus, dmaVars, fsDesc, segCount, released, pbuf, out>>

\* pbuf_alloc(PBUF_RAW, len, PBUF_POOL): a pool of pbufs that may be empty.
PbufAlloc ==
  /\ pc = "alloc"
  /\ pc' \in {"copy", "release"}
  /\ UNCHANGED <<own, status, buf, rbus, dmaVars, toGet, fsDesc, segCount, len, cursor, released, pbuf, out>>

\* One memcpy of the copy loop: the buffer of one descriptor.
CopyBuffer ==
  /\ pc = "copy"
  /\ pbuf' = Append(pbuf, buf[cursor])
  /\ IF Len(pbuf) + 1 < len
     THEN cursor' = NextDesc(cursor) /\ pc' = pc
     ELSE cursor' = fsDesc /\ pc' = "release"   \* DMARxDesc = frame.descriptor
  /\ UNCHANGED <<own, status, buf, rbus, dmaVars, toGet, fsDesc, segCount, len, released, out>>

\* One round of the release loop: Status = ETH_DMARxDesc_OWN.
ReleaseDescriptor ==
  /\ pc = "release" /\ released < segCount
  /\ own' = [own EXCEPT ![cursor] = "dma"]
  /\ status' = [status EXCEPT ![cursor] = Cleared]
  /\ cursor' = NextDesc(cursor)
  /\ released' = released + 1
  /\ UNCHANGED <<buf, rbus, dmaVars, pc, toGet, fsDesc, segCount, len, pbuf, out>>

\* The end of the loop: Seg_Count = 0, and RBUS is read.
ReleaseDone ==
  /\ pc = "release" /\ released = segCount
  /\ segCount' = 0 /\ released' = 0
  /\ pc' = IF rbus THEN "clear" ELSE "input"
  /\ UNCHANGED <<own, status, buf, rbus, dmaVars, toGet, fsDesc, len, cursor, pbuf, out>>

\* ETH->DMASR = ETH_DMASR_RBUS
ClearRbus ==
  /\ pc = "clear"
  /\ rbus' = FALSE /\ pc' = "resume"
  /\ UNCHANGED <<own, status, buf, dmaVars, toGet, fsDesc, segCount, len, cursor, released, pbuf, out>>

\* ETH->DMARPDR = 0: the engine, if suspended, fetches its descriptor again.
PollDemand ==
  /\ pc = "resume"
  /\ dmaState' = IF dmaState = "suspended" THEN "idle" ELSE dmaState
  /\ pc' = "input"
  /\ UNCHANGED <<own, status, buf, rbus, dmaDesc, dmaSeg, fifo, offered,
                 toGet, fsDesc, segCount, len, cursor, released, pbuf, out>>

\* ethernetif_input: netif->input(p, netif), or ERR_MEM when p is NULL.
Input ==
  /\ pc = "input"
  /\ out' = IF pbuf = << >> THEN out ELSE pbuf
  /\ pbuf' = << >>
  /\ pc' = "poll"
  /\ UNCHANGED <<own, status, buf, rbus, dmaVars, toGet, fsDesc, segCount, len, cursor, released>>

\* The one assumption on relative speed: between reading an OWN bit that stops
\* it and raising RBUS the engine takes a few bus cycles, less than the main
\* loop takes to go through the IP stack and poll again.
Poll == dmaState # "full" /\ (PollLast \/ PollFirst \/ PollMiddle)

LowLevelInput == \/ GetReceivedFrame \/ PbufAlloc \/ CopyBuffer
                 \/ ReleaseDescriptor \/ ReleaseDone \/ ClearRbus \/ PollDemand

Cpu == Poll \/ LowLevelInput \/ Input

Next == (\E n \in 1 .. MaxSegs : FrameArrives(n)) \/ Dma \/ Cpu

\* The main loop calls runReceivers for ever and the engine runs by itself;
\* nothing obliges a frame to arrive.
Fairness == WF_vars(Dma) /\ WF_vars(Cpu)

Spec == Init /\ [][Next]_vars

FairSpec == Spec /\ Fairness
-----------------------------------------------------------------------------
(* Properties.                                                             *)

\* Every variable holds a value the driver's types and the hardware allow;
\* Seg_Count never exceeds the ring and the copy never outgrows the frame.
RingType ==
  /\ own \in [Desc -> {"dma", "cpu"}]
  /\ status \in [Desc -> [fs : BOOLEAN, ls : BOOLEAN, len : 0 .. MaxSegs]]
  /\ buf \in [Desc -> Segment]

EngineType ==
  /\ dmaState \in {"idle", "write", "close", "full", "suspended", "retry"}
  /\ dmaDesc \in Desc /\ dmaSeg \in 0 .. MaxSegs
  /\ offered \in 0 .. MaxFrames /\ rbus \in BOOLEAN

FifoType == fifo \in Seq(Frame) /\ Len(fifo) <= FifoDepth

LoopType ==
  /\ pc \in {"poll", "get", "alloc", "copy", "release", "clear", "resume", "input"}
  /\ toGet \in Desc /\ fsDesc \in Desc /\ cursor \in Desc
  /\ segCount \in 0 .. MaxSegs /\ released \in 0 .. segCount
  /\ len \in 0 .. MaxSegs

PbufType == /\ pbuf \in Seq(Segment) /\ Len(pbuf) <= MaxSegs
            /\ out \in Seq(Segment) /\ Len(out) <= MaxSegs

TypeOK == RingType /\ EngineType /\ FifoType /\ LoopType /\ PbufType

\* low_level_input reads buffers and hands back descriptors by walking the
\* chain from FS_Rx_Desc by a count, never looking at OWN again: every
\* descriptor it touches is nevertheless still the CPU's.
CpuTouchesOwnDescriptors ==
  \/ pc = "copy"
  \/ pc = "release" /\ released < segCount
  => own[cursor] = "cpu"

\* ETH_CheckFrameReceived waits on one descriptor and the DMA fills one: when
\* the loop waits on a descriptor the DMA owns, it is the very one the DMA
\* will fill next, however the ring has wrapped, overrun or been cut short.
PollInStepWithDma ==
  pc = "poll" /\ own[toGet] = "dma" => toGet = dmaDesc

\* Against EthRxService: what reaches netif->input() is the oldest frame not
\* lost, once, as an unbroken run of its own segments from the first one.
Pending == {fifo[i].id : i \in 1 .. Len(fifo)}
             \cup {buf[d][1] : d \in {e \in Desc : own[e] = "cpu"}}
             \cup {pbuf[i][1] : i \in 1 .. Len(pbuf)}

Service == INSTANCE EthRxService WITH pending <- Pending

ImplementsService == Service!Spec

\* A descriptor the DMA has filled is given back by the loop, whatever the
\* frame it belongs to and whether or not there was a pbuf for it.
DescriptorsReturn ==
  \A d \in Desc : own[d] = "cpu" ~> own[d] = "dma"

\* A frame does not sit at the head of the MAC's FIFO for ever: an engine
\* suspended for want of a descriptor is resumed by RBUS and the poll demand.
FifoDrains ==
  \A f \in 1 .. MaxFrames :
    (fifo # << >> /\ Head(fifo).id = f) ~> ~(fifo # << >> /\ Head(fifo).id = f)

=============================================================================
