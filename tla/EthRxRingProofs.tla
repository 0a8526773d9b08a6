-------------------------- MODULE EthRxRingProofs ---------------------------
(***************************************************************************)
(* Proofs about EthRxRing, for every ring size, longest frame and FIFO     *)
(* depth that RingAssumption allows.                                       *)
(*                                                                         *)
(* The inductive invariant says where everything is relative to the oldest *)
(* descriptor the main loop has not given back: Off counts descriptors     *)
(* from it along the chain, Kept of them lie before DMARxDescToGet, Filled *)
(* of them are the CPU's, and the segments stored in those follow each     *)
(* other as the wire sent them.  The order of the frames in the ring is    *)
(* then enough for the refinement of EthRxService.                         *)
(***************************************************************************)
EXTENDS EthRxRing, SequenceTheorems, TLAPS

\* The oldest descriptor the loop holds, or the next it waits for.
Oldest == IF pc = "release" THEN cursor
          ELSE IF segCount = 0 THEN toGet ELSE fsDesc

\* How many links of the chain lead from descriptor o to descriptor d.
Off(o, d) == IF d < o THEN d - o + N ELSE d - o

\* Descriptors from Oldest up to DMARxDescToGet, that one left out.
Kept == IF pc = "get" THEN segCount - 1
        ELSE IF pc = "release" THEN segCount - released
        ELSE segCount

\* Descriptors from Oldest up to the one the DMA will fill next.
Filled == IF own[dmaDesc] = "cpu" THEN N ELSE Off(Oldest, dmaDesc)

OwnInv ==
  /\ own[dmaDesc] = "cpu" => dmaDesc = Oldest
  /\ \A d \in Desc : own[d] = "cpu" <=> Off(Oldest, d) < Filled

PositionInv ==
  /\ Off(Oldest, toGet) = Kept /\ Kept <= Filled
  /\ pc = "get" => own[toGet] = "cpu" /\ status[toGet].ls /\ segCount > 0
  /\ pc \in {"alloc", "copy", "release"} => segCount > 0
  /\ pc \in {"alloc", "copy"} => len \in Lengths(segCount)
  /\ pc \in {"clear", "resume", "input"} => segCount = 0
  /\ pc # "release" => released = 0
  /\ pc = "copy" => Len(pbuf) < len /\ Off(Oldest, cursor) = Len(pbuf)
  /\ pc = "alloc" => cursor = fsDesc
  /\ pc \in {"poll", "get", "alloc"} => pbuf = << >>

EngineInv ==
  /\ dmaState \in {"write", "close", "retry"} => fifo # << >>
  /\ dmaState \in {"write", "close"} => own[dmaDesc] = "dma"
  /\ dmaState \in {"full", "suspended", "retry"} => dmaSeg = 0
  /\ dmaSeg > 0 => /\ fifo # << >> /\ dmaSeg < Head(fifo).segs
                   /\ own[dmaDesc] = "dma"
  /\ dmaState = "close" => buf[dmaDesc] = <<Head(fifo).id, dmaSeg + 1>>

\* What descriptor d of the CPU's holds, and how the next one goes on from it.
SegmentOK(d) ==
  LET last == Off(Oldest, d) + 1 = Filled
  IN /\ buf[d][2] >= 1
     /\ status[d].fs <=> buf[d][2] = 1
     /\ status[d].ls => status[d].len \in Lengths(buf[d][2])
     /\ ~status[d].ls => buf[d][2] < MaxSegs
     /\ ~last => buf[NextDesc(d)][2] = IF status[d].ls THEN 1 ELSE buf[d][2] + 1
     /\ ~last /\ ~status[d].ls => buf[NextDesc(d)][1] = buf[d][1]
     /\ last => dmaSeg = IF status[d].ls THEN 0 ELSE buf[d][2]
     /\ last /\ ~status[d].ls => buf[d][1] = Head(fifo).id

SegmentInv == \A d \in Desc : own[d] = "cpu" => SegmentOK(d)

ScanInv ==
  /\ pc = "poll" => \A d \in Desc : Off(Oldest, d) < Kept => ~status[d].ls
  /\ pc \in {"poll", "get", "alloc", "copy"} =>
       \A d \in Desc : Off(Oldest, d) < segCount =>
          /\ buf[d] = <<buf[fsDesc][1], Off(Oldest, d) + 1>>
          /\ Off(Oldest, d) + 1 < segCount => ~status[d].ls

\* What the loop will find, or the engine will store, at DMARxDescToGet.
NextInv ==
  LET before == IF pc \in {"poll", "get"} THEN Kept ELSE 0
  IN /\ Kept < Filled => buf[toGet][2] = before + 1
     /\ Kept = Filled => dmaSeg = before
     /\ before > 0 /\ Kept < Filled => buf[toGet][1] = buf[fsDesc][1]
     /\ before > 0 /\ Kept = Filled => Head(fifo).id = buf[fsDesc][1]

IInv == /\ TypeOK /\ OwnInv /\ PositionInv /\ EngineInv
        /\ SegmentInv /\ ScanInv /\ NextInv

-----------------------------------------------------------------------------
(* The arithmetic of the chain.                                            *)

\* Off is a distance in 0 .. N - 1 that tells descriptors apart.
LEMMA OffType ==
  ASSUME NEW o \in Desc, NEW d \in Desc
  PROVE  /\ Off(o, d) \in 0 .. N - 1
         /\ Off(o, d) = 0 <=> d = o
         /\ NextDesc(d) \in Desc
         /\ \A e \in Desc : Off(o, d) = Off(o, e) => d = e
BY RingAssumption DEF Off, Desc, NextDesc

\* Following one more link adds one, and wraps at the oldest descriptor.
LEMMA OffNext ==
  ASSUME NEW o \in Desc, NEW d \in Desc
  PROVE  Off(o, NextDesc(d)) = IF Off(o, d) = N - 1 THEN 0 ELSE Off(o, d) + 1
BY RingAssumption DEF Off, Desc, NextDesc

\* Giving the oldest descriptor back brings the others one link nearer.
LEMMA OffShift ==
  ASSUME NEW o \in Desc, NEW d \in Desc
  PROVE  Off(NextDesc(o), d) = IF d = o THEN N - 1 ELSE Off(o, d) - 1
BY RingAssumption DEF Off, Desc, NextDesc

\* The ranges of the derived positions.
LEMMA Positions ==
  ASSUME IInv
  PROVE  /\ Oldest \in Desc /\ dmaDesc \in Desc /\ toGet \in Desc
         /\ fsDesc \in Desc /\ cursor \in Desc
         /\ Kept \in 0 .. MaxSegs
         /\ Filled \in 0 .. N
         /\ N \in Nat /\ MaxSegs \in Nat /\ MaxSegs < N /\ MaxSegs >= 1
<1>1. /\ Oldest \in Desc /\ dmaDesc \in Desc /\ toGet \in Desc
      /\ fsDesc \in Desc /\ cursor \in Desc
  BY DEF IInv, TypeOK, LoopType, EngineType, Oldest
<1>2. Kept \in 0 .. MaxSegs
  BY RingAssumption DEF IInv, TypeOK, LoopType, PositionInv, Kept
<1>3. Off(Oldest, dmaDesc) \in 0 .. N - 1
  BY <1>1, OffType
<1>4. Filled \in 0 .. N
  BY <1>3, RingAssumption DEF Filled
<1> QED
  BY <1>1, <1>2, <1>4, RingAssumption

\* The head of a FIFO that is not empty is a frame, and the rest is a FIFO.
LEMMA HeadType ==
  ASSUME FifoType, fifo # << >>
  PROVE  /\ Head(fifo) \in Frame
         /\ Tail(fifo) \in Seq(Frame) /\ Len(Tail(fifo)) <= FifoDepth
         /\ Len(fifo) # 1 => Tail(fifo) # << >>
<1>1. /\ Head(fifo) \in Frame
      /\ Tail(fifo) \in Seq(Frame)
      /\ Len(Tail(fifo)) = Len(fifo) - 1
  BY HeadTailProperties DEF FifoType
<1>2. Len(fifo) \in Nat /\ FifoDepth \in Nat /\ Len(fifo) <= FifoDepth
  BY LenProperties, RingAssumption DEF FifoType
<1>3. Len(fifo) - 1 <= FifoDepth
  BY <1>2
<1>4. Len(fifo) # 1 => Len(Tail(fifo)) # 0
  BY <1>1, <1>2
<1>5. Len(<< >>) = 0
  BY EmptySeq
<1>6. Len(fifo) # 1 => Tail(fifo) # << >>
  BY <1>4, <1>5
<1> QED
  BY <1>1, <1>3, <1>6

\* A frame that arrives goes behind the head.
LEMMA AppendType ==
  ASSUME FifoType, NEW f \in Frame
  PROVE  /\ Append(fifo, f) \in Seq(Frame)
         /\ Append(fifo, f) # << >>
         /\ Len(fifo) < FifoDepth => Len(Append(fifo, f)) <= FifoDepth
         /\ fifo # << >> => Head(Append(fifo, f)) = Head(fifo)
<1>1. /\ Append(fifo, f) \in Seq(Frame)
      /\ Append(fifo, f) # << >>
      /\ Len(Append(fifo, f)) = Len(fifo) + 1
      /\ \A i \in 1 .. Len(fifo) : Append(fifo, f)[i] = fifo[i]
  BY AppendProperties DEF FifoType
<1>2. Len(fifo) \in Nat /\ FifoDepth \in Nat
  BY LenProperties, RingAssumption DEF FifoType
<1>3. ASSUME fifo # << >> PROVE Head(Append(fifo, f)) = Head(fifo)
  <2>1. Len(fifo) >= 1
    BY <1>2, <1>3, EmptySeq DEF FifoType
  <2>2. Append(fifo, f)[1] = fifo[1]
    BY <1>1, <1>2, <2>1
  <2> QED
    BY <2>2
<1> QED
  BY <1>1, <1>2, <1>3

LEMMA InitIInv == Init => IInv
<1> SUFFICES ASSUME Init PROVE IInv
  OBVIOUS
<1>1. TypeOK
  <2>1. 0 \in Desc /\ 0 \in 0 .. MaxSegs /\ 0 \in 0 .. MaxFrames
    BY RingAssumption DEF Desc
  <2>2. RingType
    BY <2>1 DEF Init, RingType, Cleared, Segment
  <2>3. EngineType /\ LoopType
    BY <2>1 DEF Init, EngineType, LoopType
  <2>4. FifoType /\ PbufType
    BY EmptySeq, RingAssumption DEF Init, FifoType, PbufType
  <2> QED
    BY <2>2, <2>3, <2>4 DEF TypeOK
<1>2. Oldest = 0 /\ Kept = 0 /\ Filled = 0 /\ 0 \in Desc
  BY RingAssumption, OffType DEF Init, Oldest, Kept, Filled, Desc, Off
<1>3. OwnInv
  BY <1>2, OffType DEF Init, OwnInv
<1>4. PositionInv
  BY <1>2, OffType DEF Init, PositionInv
<1>5. EngineInv
  BY DEF Init, EngineInv
<1>6. SegmentInv
  BY DEF Init, SegmentInv
<1>7. ScanInv
  BY <1>2, OffType DEF Init, ScanInv
<1>8. NextInv
  BY <1>2 DEF Init, NextInv
<1> QED
  BY <1>1, <1>3, <1>4, <1>5, <1>6, <1>7, <1>8 DEF IInv

\* A frame on the wire keeps the invariant.
LEMMA ArrivesStep ==
  ASSUME IInv, NEW n \in 1 .. MaxSegs, FrameArrives(n)
  PROVE  IInv'
<1>0. /\ Oldest' = Oldest /\ Kept' = Kept /\ Filled' = Filled
      /\ UNCHANGED <<own, status, dmaDesc, dmaSeg>>
      /\ UNCHANGED <<pc, toGet, fsDesc, segCount, len, cursor, released, pbuf, out>>
  BY DEF FrameArrives, Oldest, Kept, Filled, cpuVars
<1>1. TypeOK'
  <2>1. RingType'
    BY <1>0, Positions DEF IInv, TypeOK, RingType, EngineType, FrameArrives, Segment, EngineInv
  <2>2. EngineType'
    BY <1>0, RingAssumption DEF IInv, TypeOK, EngineType, FrameArrives
  <2>3. FifoType'
    <3>1. [id |-> offered + 1, segs |-> n] \in Frame
      BY RingAssumption DEF Frame, IInv, TypeOK, EngineType
    <3> QED
      BY <3>1, AppendType DEF IInv, TypeOK, FifoType, FrameArrives
  <2>4. LoopType' /\ PbufType'
    BY <1>0 DEF IInv, TypeOK, LoopType, PbufType
  <2> QED
    BY <2>1, <2>2, <2>3, <2>4 DEF TypeOK
<1>2. OwnInv'
  BY <1>0 DEF IInv, OwnInv
<1>3. PositionInv'
  BY <1>0 DEF IInv, PositionInv
<1>h. fifo # << >> => fifo' # << >> /\ Head(fifo)' = Head(fifo)
  <2>1. [id |-> offered + 1, segs |-> n] \in Frame
    BY RingAssumption DEF Frame, IInv, TypeOK, EngineType
  <2> QED
    BY <2>1, AppendType DEF IInv, TypeOK, FrameArrives
<1>i. fifo' # << >>
  <2>1. [id |-> offered + 1, segs |-> n] \in Frame
    BY RingAssumption DEF Frame, IInv, TypeOK, EngineType
  <2>2. Len(fifo) < FifoDepth \/ fifo # << >>
    BY RingAssumption
  <2> QED
    BY <2>1, <2>2, <1>h, AppendType DEF IInv, TypeOK, FrameArrives
<1>4. EngineInv'
  BY <1>0, <1>h, <1>i DEF IInv, EngineInv, FrameArrives
<1>5. SegmentInv'
  <2> SUFFICES ASSUME NEW d \in Desc, own[d] = "cpu"
               PROVE  SegmentOK(d)'
    BY <1>0 DEF SegmentInv
  <2>1. buf' = buf /\ SegmentOK(d)
    BY DEF IInv, SegmentInv, FrameArrives
  <2>2. dmaSeg > 0 => fifo # << >>
    BY DEF IInv, EngineInv
  <2>3. dmaSeg \in Nat /\ buf[d][2] \in Nat
    BY DEF IInv, TypeOK, EngineType, RingType, Segment
  <2> QED
    BY <1>0, <1>h, <2>1, <2>2, <2>3 DEF SegmentOK
<1>6. ScanInv'
  BY <1>0, Positions, OffType DEF IInv, ScanInv, OwnInv, PositionInv, EngineInv, FrameArrives
<1>7. NextInv'
  BY <1>0, <1>h, Positions, OffType DEF IInv, NextInv, EngineInv, OwnInv, PositionInv, FrameArrives
<1> QED
  BY <1>1, <1>2, <1>3, <1>4, <1>5, <1>6, <1>7 DEF IInv

\* Reading an OWN bit keeps it.
LEMMA DmaFetchStep ==
  ASSUME IInv, DmaFetch
  PROVE  IInv'
<1>0. /\ Oldest' = Oldest /\ Kept' = Kept /\ Filled' = Filled
      /\ UNCHANGED <<own, status, dmaDesc, dmaSeg>>
      /\ UNCHANGED <<pc, toGet, fsDesc, segCount, len, cursor, released, pbuf, out>>
  BY DEF DmaFetch, Oldest, Kept, Filled, cpuVars
<1>1. TypeOK'
  <2>1. RingType'
    BY <1>0, Positions DEF IInv, TypeOK, RingType, EngineType, DmaFetch, Segment, EngineInv
  <2>2. EngineType'
    BY <1>0, RingAssumption DEF IInv, TypeOK, EngineType, DmaFetch
  <2>3. FifoType'
    BY DEF IInv, TypeOK, FifoType, DmaFetch
  <2>4. LoopType' /\ PbufType'
    BY <1>0 DEF IInv, TypeOK, LoopType, PbufType
  <2> QED
    BY <2>1, <2>2, <2>3, <2>4 DEF TypeOK
<1>2. OwnInv'
  BY <1>0 DEF IInv, OwnInv
<1>3. PositionInv'
  BY <1>0 DEF IInv, PositionInv
<1>h. fifo # << >> => Head(fifo)' = Head(fifo)
  BY DEF DmaFetch
<1>4. EngineInv'
  BY <1>0 DEF IInv, TypeOK, EngineType, EngineInv, DmaFetch
<1>5. SegmentInv'
  BY <1>0 DEF IInv, SegmentInv, SegmentOK, DmaFetch
<1>6. ScanInv'
  BY <1>0, Positions, OffType DEF IInv, ScanInv, OwnInv, PositionInv, EngineInv, DmaFetch
<1>7. NextInv'
  BY <1>0, <1>h, Positions, OffType DEF IInv, NextInv, EngineInv, OwnInv, PositionInv, DmaFetch
<1> QED
  BY <1>1, <1>2, <1>3, <1>4, <1>5, <1>6, <1>7 DEF IInv

\* Suspending keeps it.
LEMMA DmaSuspendStep ==
  ASSUME IInv, DmaSuspend
  PROVE  IInv'
<1>0. /\ Oldest' = Oldest /\ Kept' = Kept /\ Filled' = Filled
      /\ UNCHANGED <<own, status, dmaDesc, dmaSeg>>
      /\ UNCHANGED <<pc, toGet, fsDesc, segCount, len, cursor, released, pbuf, out>>
  BY DEF DmaSuspend, Oldest, Kept, Filled, cpuVars
<1>1. TypeOK'
  <2>1. RingType'
    BY <1>0, Positions DEF IInv, TypeOK, RingType, EngineType, DmaSuspend, Segment, EngineInv
  <2>2. EngineType'
    BY <1>0, RingAssumption DEF IInv, TypeOK, EngineType, DmaSuspend
  <2>3. FifoType'
    BY DEF IInv, TypeOK, FifoType, DmaSuspend
  <2>4. LoopType' /\ PbufType'
    BY <1>0 DEF IInv, TypeOK, LoopType, PbufType
  <2> QED
    BY <2>1, <2>2, <2>3, <2>4 DEF TypeOK
<1>2. OwnInv'
  BY <1>0 DEF IInv, OwnInv
<1>3. PositionInv'
  BY <1>0 DEF IInv, PositionInv
<1>h. fifo # << >> => Head(fifo)' = Head(fifo)
  BY DEF DmaSuspend
<1>4. EngineInv'
  BY <1>0 DEF IInv, TypeOK, EngineType, EngineInv, DmaSuspend
<1>5. SegmentInv'
  BY <1>0 DEF IInv, SegmentInv, SegmentOK, DmaSuspend
<1>6. ScanInv'
  BY <1>0, Positions, OffType DEF IInv, ScanInv, OwnInv, PositionInv, EngineInv, DmaSuspend
<1>7. NextInv'
  BY <1>0, <1>h, Positions, OffType DEF IInv, NextInv, EngineInv, OwnInv, PositionInv, DmaSuspend
<1> QED
  BY <1>1, <1>2, <1>3, <1>4, <1>5, <1>6, <1>7 DEF IInv

\* Dropping the head of the FIFO keeps it: no segment of it was stored.
LEMMA DmaRetryStep ==
  ASSUME IInv, DmaRetry
  PROVE  IInv'
<1>0. /\ Oldest' = Oldest /\ Kept' = Kept /\ Filled' = Filled
      /\ UNCHANGED <<own, status, dmaDesc, dmaSeg>>
      /\ UNCHANGED <<pc, toGet, fsDesc, segCount, len, cursor, released, pbuf, out>>
  BY DEF DmaRetry, Oldest, Kept, Filled, cpuVars
<1>1. TypeOK'
  <2>1. RingType'
    BY <1>0, Positions DEF IInv, TypeOK, RingType, EngineType, DmaRetry, Segment, EngineInv
  <2>2. EngineType'
    BY <1>0, RingAssumption DEF IInv, TypeOK, EngineType, DmaRetry
  <2>3. FifoType'
    BY HeadType DEF IInv, TypeOK, FifoType, DmaRetry, EngineInv
  <2>4. LoopType' /\ PbufType'
    BY <1>0 DEF IInv, TypeOK, LoopType, PbufType
  <2> QED
    BY <2>1, <2>2, <2>3, <2>4 DEF TypeOK
<1>2. OwnInv'
  BY <1>0 DEF IInv, OwnInv
<1>3. PositionInv'
  BY <1>0 DEF IInv, PositionInv
<1>h. dmaSeg = 0 /\ fifo # << >>
  BY DEF IInv, EngineInv, DmaRetry
<1>4. EngineInv'
  BY <1>0, <1>h, HeadType DEF IInv, TypeOK, EngineInv, DmaRetry
<1>5. SegmentInv'
  BY <1>0, <1>h DEF IInv, SegmentInv, SegmentOK, DmaRetry
<1>6. ScanInv'
  BY <1>0, Positions, OffType DEF IInv, ScanInv, OwnInv, PositionInv, EngineInv, DmaRetry
<1>7. NextInv'
  BY <1>0, <1>h, Positions, OffType DEF IInv, NextInv, EngineInv, OwnInv, PositionInv, DmaRetry
<1> QED
  BY <1>1, <1>2, <1>3, <1>4, <1>5, <1>6, <1>7 DEF IInv

\* Writing a buffer keeps it: the descriptor is the engine's.
LEMMA DmaWriteStep ==
  ASSUME IInv, DmaWrite
  PROVE  IInv'
<1>0. /\ Oldest' = Oldest /\ Kept' = Kept /\ Filled' = Filled
      /\ UNCHANGED <<own, status, dmaDesc, dmaSeg, fifo>>
      /\ UNCHANGED <<pc, toGet, fsDesc, segCount, len, cursor, released, pbuf, out>>
  BY DEF DmaWrite, Oldest, Kept, Filled, cpuVars
<1>h. own[dmaDesc] = "dma" /\ fifo # << >>
  BY DEF IInv, EngineInv, DmaWrite
<1>n. /\ Head(fifo).id \in Nat /\ dmaSeg + 1 \in 1 .. MaxSegs
      /\ Head(fifo) \in Frame
  <2>1. Head(fifo) \in Frame
    BY <1>h, HeadType DEF IInv, TypeOK
  <2> QED
    BY <2>1, Positions DEF Frame, IInv, TypeOK, EngineType, EngineInv
<1>b. /\ \A d \in Desc : own[d] = "cpu" => buf'[d] = buf[d]
      /\ buf'[dmaDesc] = <<Head(fifo).id, dmaSeg + 1>>
      /\ buf' \in [Desc -> Segment]
  <2>1. <<Head(fifo).id, dmaSeg + 1>> \in Segment
    BY <1>n, Positions DEF Segment
  <2>2. buf' = [buf EXCEPT ![dmaDesc] = <<Head(fifo).id, dmaSeg + 1>>]
    BY DEF DmaWrite
  <2>3. buf \in [Desc -> Segment]
    BY DEF IInv, TypeOK, RingType
  <2> QED
    BY <1>h, <2>1, <2>2, <2>3, Positions
<1>o. \A d \in Desc : own[d] = "cpu" <=> Off(Oldest, d) < Filled
  BY DEF IInv, OwnInv
<1>1. TypeOK'
  BY <1>0, <1>b DEF IInv, TypeOK, RingType, EngineType, FifoType, LoopType, PbufType, DmaWrite
<1>2. OwnInv'
  BY <1>0 DEF IInv, OwnInv
<1>3. PositionInv'
  BY <1>0 DEF IInv, PositionInv
<1>4. EngineInv'
  BY <1>0, <1>h, <1>b DEF IInv, EngineInv, DmaWrite
<1>5. SegmentInv'
  <2> SUFFICES ASSUME NEW d \in Desc, own[d] = "cpu"
               PROVE  SegmentOK(d)'
    BY <1>0 DEF SegmentInv
  <2>1. SegmentOK(d) /\ buf'[d] = buf[d]
    BY <1>b DEF IInv, SegmentInv
  <2>2. Off(Oldest, d) \in 0 .. N - 1 /\ Off(Oldest, d) < Filled
        /\ NextDesc(d) \in Desc /\ Filled \in 0 .. N
    BY <1>o, OffType, Positions
  <2>3. ASSUME Off(Oldest, d) + 1 # Filled
        PROVE  buf'[NextDesc(d)] = buf[NextDesc(d)]
    <3>1. Off(Oldest, NextDesc(d)) = Off(Oldest, d) + 1
      BY <2>2, <2>3, OffNext, Positions
    <3> QED
      BY <1>o, <1>b, <2>2, <2>3, <3>1, Positions
  <2> QED
    BY <1>0, <2>1, <2>3 DEF SegmentOK
<1>k. \A d \in Desc : Off(Oldest, d) < Kept => own[d] = "cpu"
  BY <1>o, OffType, Positions DEF IInv, PositionInv
<1>6. ScanInv'
  <2>1. segCount > 0 /\ pc # "release" => Oldest = fsDesc /\ own[fsDesc] = "cpu"
    BY <1>k, OffType, Positions DEF Oldest, Kept, IInv, PositionInv, TypeOK, LoopType
  <2>2. pc = "get" => Off(Oldest, toGet) = segCount - 1 /\ own[toGet] = "cpu"
    BY DEF IInv, PositionInv, Kept
  <2>3. pc # "release" => \A d \in Desc : Off(Oldest, d) < segCount => own[d] = "cpu"
    BY <1>k, <2>2, OffType, Positions DEF Kept, IInv, TypeOK, LoopType
  <2> QED
    BY <1>0, <1>b, <2>1, <2>3, Positions, OffType DEF IInv, ScanInv, TypeOK, LoopType
<1>7. NextInv'
  <2>1. Kept < Filled => own[toGet] = "cpu"
    BY <1>o, Positions DEF IInv, PositionInv
  <2>2. Kept > 0 /\ pc \in {"poll", "get"} => own[fsDesc] = "cpu"
    BY <1>k, OffType, Positions DEF Oldest, Kept, IInv, PositionInv, TypeOK, LoopType
  <2> QED
    BY <1>0, <1>b, <2>1, <2>2, Positions DEF IInv, NextInv
<1> QED
  BY <1>1, <1>2, <1>3, <1>4, <1>5, <1>6, <1>7 DEF IInv

\* Closing a descriptor keeps it: the filled part of the ring grows by one.
LEMMA DmaCloseStep ==
  ASSUME IInv, DmaClose
  PROVE  IInv'
<1> DEFINE stored == dmaSeg + 1
           whole  == stored = Head(fifo).segs
           cut    == ~whole /\ own[NextDesc(dmaDesc)] = "cpu"
<1>a. PICK l \in Lengths(stored) :
        /\ status' = [status EXCEPT ![dmaDesc] =
                       [fs |-> dmaSeg = 0, ls |-> whole \/ cut, len |-> l]]
        /\ own' = [own EXCEPT ![dmaDesc] = "cpu"]
        /\ dmaDesc' = NextDesc(dmaDesc)
        /\ dmaSeg' = IF whole \/ cut THEN 0 ELSE stored
        /\ fifo' = IF whole \/ cut THEN Tail(fifo) ELSE fifo
        /\ dmaState' = IF cut THEN "full" ELSE "idle"
        /\ UNCHANGED <<buf, rbus, offered, pc, toGet, fsDesc, segCount, len,
                       cursor, released, pbuf, out>>
  BY DEF DmaClose, cpuVars
<1>b. /\ own[dmaDesc] = "dma" /\ fifo # << >>
      /\ buf[dmaDesc] = <<Head(fifo).id, stored>>
      /\ dmaSeg > 0 => stored <= Head(fifo).segs
  <2>1. /\ own[dmaDesc] = "dma" /\ fifo # << >>
        /\ buf[dmaDesc] = <<Head(fifo).id, stored>>
        /\ dmaSeg > 0 => dmaSeg < Head(fifo).segs
    BY DEF IInv, EngineInv, DmaClose
  <2>2. Head(fifo) \in Frame
    BY <2>1, HeadType DEF IInv, TypeOK
  <2> QED
    BY <2>1, <2>2 DEF Frame, IInv, TypeOK, EngineType
<1>c. /\ Head(fifo) \in Frame /\ Head(fifo).segs \in 1 .. MaxSegs
      /\ dmaSeg \in 0 .. MaxSegs /\ stored \in 1 .. MaxSegs
      /\ l \in 1 .. stored /\ l \in 0 .. MaxSegs
  <2>1. Head(fifo) \in Frame /\ Head(fifo).segs \in 1 .. MaxSegs
    BY <1>b, HeadType DEF IInv, TypeOK, Frame
  <2>2. dmaSeg \in 0 .. MaxSegs
    BY DEF IInv, TypeOK, EngineType
  <2>3. stored \in 1 .. MaxSegs
    BY <1>b, <2>1, <2>2, Positions
  <2>4. l \in 1 .. stored
    BY <1>a, <2>3, Positions DEF Lengths
  <2> QED
    BY <2>1, <2>2, <2>3, <2>4, Positions
<1>o. \A d \in Desc : own[d] = "cpu" <=> Off(Oldest, d) < Filled
  BY DEF IInv, OwnInv
<1>d. /\ Oldest' = Oldest /\ Kept' = Kept
      /\ NextDesc(dmaDesc) \in Desc /\ NextDesc(dmaDesc) # dmaDesc
  <2>1. Oldest' = Oldest /\ Kept' = Kept
    BY <1>a DEF Oldest, Kept
  <2>2. NextDesc(dmaDesc) \in Desc
    BY OffType, Positions
  <2>3. NextDesc(dmaDesc) # dmaDesc
    BY Positions, RingAssumption DEF NextDesc, Desc
  <2> QED
    BY <2>1, <2>2, <2>3
<1>e. Filled = Off(Oldest, dmaDesc) /\ Filled \in 0 .. N - 1
  BY <1>b, OffType, Positions DEF Filled
<1>f. /\ \A d \in Desc : own'[d] = IF d = dmaDesc THEN "cpu" ELSE own[d]
      /\ \A d \in Desc : d # dmaDesc => status'[d] = status[d]
      /\ status'[dmaDesc] = [fs |-> dmaSeg = 0, ls |-> whole \/ cut, len |-> l]
  BY <1>a, Positions DEF IInv, TypeOK, RingType
<1>g. Filled' = Filled + 1
  <2>1. CASE Filled = N - 1
    <3>1. NextDesc(dmaDesc) = Oldest
      <4>1. Off(Oldest, NextDesc(dmaDesc)) = 0
        BY <1>e, <2>1, OffNext, Positions
      <4> QED
        BY <4>1, <1>d, OffType, Positions
    <3>2. own[Oldest] = "cpu"
      BY <1>o, <2>1, OffType, Positions, RingAssumption
    <3> QED
      BY <1>a, <1>d, <1>f, <2>1, <3>1, <3>2, Positions DEF Filled
  <2>2. CASE Filled # N - 1
    <3>1. Off(Oldest, NextDesc(dmaDesc)) = Filled + 1
      BY <1>e, <2>2, OffNext, Positions
    <3>2. own[NextDesc(dmaDesc)] # "cpu"
      BY <1>o, <1>d, <1>e, <3>1, Positions
    <3> QED
      BY <1>a, <1>d, <1>f, <3>1, <3>2 DEF Filled
  <2> QED
    BY <2>1, <2>2
<1>1. TypeOK'
  <2>1. [fs |-> dmaSeg = 0, ls |-> whole \/ cut, len |-> l]
          \in [fs : BOOLEAN, ls : BOOLEAN, len : 0 .. MaxSegs]
    BY <1>c
  <2>2. RingType'
    BY <1>a, <2>1, Positions DEF IInv, TypeOK, RingType
  <2>3. EngineType'
    BY <1>a, <1>c, <1>d, Positions DEF IInv, TypeOK, EngineType
  <2>4. FifoType'
    BY <1>a, <1>b, HeadType DEF IInv, TypeOK, FifoType
  <2>5. LoopType' /\ PbufType'
    BY <1>a DEF IInv, TypeOK, LoopType, PbufType
  <2> QED
    BY <2>2, <2>3, <2>4, <2>5 DEF TypeOK
<1>2. OwnInv'
  <2>1. own'[dmaDesc'] = "cpu" => dmaDesc' = Oldest'
    <3> SUFFICES ASSUME own[NextDesc(dmaDesc)] = "cpu"
                 PROVE  NextDesc(dmaDesc) = Oldest
      BY <1>a, <1>d, <1>f
    <3>1. Off(Oldest, NextDesc(dmaDesc)) < Filled
      BY <1>o, <1>d
    <3> QED
      BY <1>e, <3>1, OffNext, OffType, Positions
  <2>2. ASSUME NEW d \in Desc
        PROVE  own'[d] = "cpu" <=> Off(Oldest, d) < Filled + 1
    <3>1. CASE d = dmaDesc
      BY <3>1, <1>e, <1>f
    <3>2. CASE d # dmaDesc
      <4>1. Off(Oldest, d) # Filled /\ Off(Oldest, d) \in 0 .. N - 1
        BY <1>e, <3>2, OffType, Positions
      <4> QED
        BY <4>1, <3>2, <1>o, <1>e, <1>f
    <3> QED
      BY <3>1, <3>2
  <2> QED
    BY <2>1, <2>2, <1>d, <1>g DEF OwnInv
<1>3. PositionInv'
  <2>1. pc = "get" => own'[toGet] = "cpu" /\ status'[toGet].ls
    BY <1>b, <1>f, Positions DEF IInv, PositionInv
  <2> QED
    BY <1>a, <1>d, <1>g, <2>1, Positions DEF IInv, PositionInv
<1>4. EngineInv'
  <2>1. CASE whole \/ cut
    BY <1>a, <2>1 DEF EngineInv
  <2>2. CASE ~whole /\ ~cut
    <3>1. own[NextDesc(dmaDesc)] = "dma"
      BY <1>d, <2>2 DEF IInv, TypeOK, RingType
    <3>2. stored < Head(fifo).segs
      BY <1>b, <1>c, <2>2
    <3> QED
      BY <1>a, <1>b, <1>d, <1>f, <2>2, <3>1, <3>2 DEF EngineInv
  <2> QED
    BY <2>1, <2>2
<1>5. SegmentInv'
  <2> SUFFICES ASSUME NEW d \in Desc, own'[d] = "cpu"
               PROVE  SegmentOK(d)'
    BY DEF SegmentInv
  <2>0. /\ Off(Oldest, d) \in 0 .. N - 1
        /\ d # dmaDesc => own[d] = "cpu" /\ Off(Oldest, d) < Filled
    BY <1>f, <1>o, OffType, Positions
  <2>1. CASE d = dmaDesc
    <3>1. Off(Oldest, d) + 1 = Filled'
      BY <1>e, <1>g, <2>1
    <3>2. /\ buf'[d] = <<Head(fifo).id, stored>>
          /\ status'[d] = [fs |-> dmaSeg = 0, ls |-> whole \/ cut, len |-> l]
      BY <1>a, <1>b, <1>f, <2>1
    <3>3. ~(whole \/ cut) => stored < MaxSegs /\ Head(fifo') = Head(fifo)
      BY <1>a, <1>b, <1>c, Positions
    <3>4. (dmaSeg = 0) <=> (stored = 1)
      BY <1>c
    <3>5. /\ buf'[d][1] = Head(fifo).id /\ buf'[d][2] = stored
          /\ status'[d].fs = (dmaSeg = 0) /\ status'[d].len = l
          /\ status'[d].ls = (whole \/ cut)
      BY <3>2
    <3> HIDE DEF stored, whole, cut
    <3>6. /\ dmaSeg' = IF whole \/ cut THEN 0 ELSE stored
          /\ fifo' = IF whole \/ cut THEN Tail(fifo) ELSE fifo
          /\ l \in Lengths(stored) /\ stored >= 1
      BY <1>a, <1>c
    <3> QED
      BY <1>d, <3>1, <3>3, <3>4, <3>5, <3>6 DEF SegmentOK
  <2>2. CASE d # dmaDesc
    <3>1. SegmentOK(d) /\ buf' = buf /\ status'[d] = status[d]
      BY <1>a, <1>f, <2>0, <2>2 DEF IInv, SegmentInv
    <3>2. Off(Oldest, d) + 1 # Filled'
      BY <2>0, <2>2, <1>e, <1>g
    <3>3. CASE Off(Oldest, d) + 1 # Filled
      BY <1>d, <3>1, <3>2, <3>3 DEF SegmentOK
    <3>4. CASE Off(Oldest, d) + 1 = Filled
      <4>1. NextDesc(d) = dmaDesc
        <5>1. Off(Oldest, NextDesc(d)) = Off(Oldest, dmaDesc) /\ NextDesc(d) \in Desc
          BY <2>0, <3>4, <1>e, OffNext, OffType, Positions
        <5> QED
          BY <5>1, OffType, Positions
      <4>2. buf[NextDesc(d)] = <<Head(fifo).id, stored>>
        BY <1>b, <4>1
      <4> QED
        BY <1>c, <1>d, <3>1, <3>2, <3>4, <4>2 DEF SegmentOK
    <3> QED
      BY <3>3, <3>4
  <2> QED
    BY <2>1, <2>2
<1>k. \A d \in Desc : Off(Oldest, d) < Kept => own[d] = "cpu"
  BY <1>o, OffType, Positions DEF IInv, PositionInv
<1>6. ScanInv'
  <2>1. pc # "release" => \A d \in Desc : Off(Oldest, d) < segCount => d # dmaDesc
    <3>1. pc = "get" => Off(Oldest, toGet) = segCount - 1 /\ own[toGet] = "cpu"
      BY DEF IInv, PositionInv, Kept
    <3>2. pc # "release" => \A d \in Desc : Off(Oldest, d) < segCount => own[d] = "cpu"
      <4>1. CASE pc = "get"
        <5> SUFFICES ASSUME NEW d \in Desc, Off(Oldest, d) < segCount
                     PROVE  own[d] = "cpu"
          OBVIOUS
        <5>1. Off(Oldest, d) < segCount - 1 \/ Off(Oldest, d) = segCount - 1
          BY OffType, Positions DEF IInv, TypeOK, LoopType
        <5> QED
          BY <1>k, <3>1, <4>1, <5>1, OffType, Positions DEF Kept
      <4>2. CASE pc \notin {"get", "release"}
        BY <1>k, <4>2 DEF Kept
      <4> QED
        BY <4>1, <4>2
    <3> QED
      BY <1>b, <3>2
  <2>2. \A d \in Desc : Off(Oldest, d) < Kept => d # dmaDesc
    BY <1>b, <1>k
  <2> QED
    BY <1>a, <1>d, <1>f, <2>1, <2>2 DEF IInv, ScanInv
<1>7. NextInv'
  <2>1. CASE Kept < Filled
    BY <1>a, <1>d, <1>g, <2>1, Positions DEF IInv, NextInv
  <2>2. CASE Kept = Filled
    <3>1. toGet = dmaDesc
      BY <1>e, <2>2, OffType, Positions DEF IInv, PositionInv
    <3> QED
      BY <1>a, <1>b, <1>c, <1>d, <1>g, <2>2, <3>1, Positions DEF IInv, NextInv
  <2>3. Kept <= Filled
    BY DEF IInv, PositionInv
  <2> QED
    BY <2>1, <2>2, <2>3, Positions
<1> QED
  BY <1>1, <1>2, <1>3, <1>4, <1>5, <1>6, <1>7 DEF IInv

\* A last segment at DMARxDescToGet completes the frame that was scanned.
LEMMA PollLastStep ==
  ASSUME IInv, PollLast
  PROVE  IInv'
<1>0. /\ UNCHANGED <<own, status, buf, rbus, dmaState, dmaDesc, dmaSeg, fifo, offered>>
      /\ UNCHANGED <<toGet, len, cursor, released, pbuf, out>>
      /\ pc = "poll" /\ pc' = "get" /\ own[toGet] = "cpu" /\ status[toGet].ls
      /\ segCount' = segCount + 1
      /\ fsDesc' = IF segCount = 0 THEN toGet ELSE fsDesc
  BY DEF PollLast, dmaVars
<1>t. segCount \in 0 .. MaxSegs /\ Kept = segCount
  BY <1>0 DEF IInv, TypeOK, LoopType, Kept
<1>1. /\ Oldest' = Oldest /\ Kept' = Kept /\ Filled' = Filled
      /\ Oldest = fsDesc' /\ Off(Oldest, toGet) = Kept
  <2>1. Oldest' = Oldest /\ Oldest = fsDesc'
    BY <1>0, <1>t DEF Oldest
  <2>2. Kept' = Kept
    BY <1>0, <1>t DEF Kept
  <2>3. Filled' = Filled
    BY <1>0, <2>1 DEF Filled
  <2> QED
    BY <2>1, <2>2, <2>3 DEF IInv, PositionInv
<1>2. Kept < Filled /\ SegmentOK(toGet)
  BY <1>0, <1>1, Positions DEF IInv, OwnInv, SegmentInv
<1>3. /\ buf[toGet][2] = segCount + 1
      /\ segCount > 0 => buf[toGet][1] = buf[fsDesc][1]
      /\ buf \in [Desc -> Segment]
  BY <1>0, <1>2, <1>t DEF IInv, NextInv, TypeOK, RingType
<1>4. segCount + 1 <= MaxSegs
  BY <1>3, Positions DEF Segment
<1>5. TypeOK'
  BY <1>0, <1>4, <1>t, Positions
     DEF IInv, TypeOK, RingType, EngineType, FifoType, LoopType, PbufType, PositionInv
<1>6. OwnInv'
  BY <1>0, <1>1 DEF IInv, OwnInv
<1>7. PositionInv'
  BY <1>0, <1>1, <1>t DEF IInv, PositionInv
<1>8. EngineInv'
  BY <1>0 DEF IInv, EngineInv
<1>9. SegmentInv'
  BY <1>0, <1>1 DEF IInv, SegmentInv, SegmentOK
<1>10. ScanInv'
  <2> SUFFICES ASSUME NEW d \in Desc, Off(Oldest, d) < segCount + 1
               PROVE  /\ buf[d] = <<buf[fsDesc'][1], Off(Oldest, d) + 1>>
                      /\ Off(Oldest, d) + 1 < segCount + 1 => ~status[d].ls
    BY <1>0, <1>1 DEF ScanInv
  <2>0. Off(Oldest, d) \in 0 .. N - 1
    BY OffType, Positions
  <2>1. CASE Off(Oldest, d) < segCount
    <3>1. segCount > 0
      BY <2>0, <2>1, <1>t, Positions
    <3>2. fsDesc' = fsDesc
      BY <3>1, <1>0, <1>t
    <3> QED
      BY <2>1, <3>2, <1>0, <1>t DEF IInv, ScanInv
  <2>2. CASE Off(Oldest, d) = segCount
    <3>1. d = toGet
      BY <2>2, <1>1, <1>t, OffType, Positions
    <3>2. buf[toGet][1] = buf[fsDesc'][1]
      BY <1>0, <1>3, <1>t
    <3>3. buf[toGet] = <<buf[toGet][1], segCount + 1>>
      BY <1>3, Positions DEF Segment
    <3> QED
      BY <2>2, <3>1, <3>2, <3>3, <1>t
  <2> QED
    BY <2>0, <2>1, <2>2, <1>t, Positions
<1>11. NextInv'
  BY <1>0, <1>1, <1>t, <1>2 DEF IInv, NextInv
<1> QED
  BY <1>5, <1>6, <1>7, <1>8, <1>9, <1>10, <1>11 DEF IInv

\* A first segment with more to come is only met when nothing is scanned yet.
LEMMA PollFirstStep ==
  ASSUME IInv, PollFirst
  PROVE  IInv'
<1>0. /\ UNCHANGED <<own, status, buf, rbus, dmaState, dmaDesc, dmaSeg, fifo, offered>>
      /\ UNCHANGED <<pc, len, cursor, released, pbuf, out>>
      /\ pc = "poll" /\ own[toGet] = "cpu" /\ status[toGet].fs /\ ~status[toGet].ls
      /\ segCount' = 1 /\ fsDesc' = toGet /\ toGet' = NextDesc(toGet)
  BY DEF PollFirst, dmaVars
<1>t. segCount \in 0 .. MaxSegs /\ Kept = segCount /\ Off(Oldest, toGet) = Kept
  BY <1>0 DEF IInv, TypeOK, LoopType, Kept, PositionInv
<1>2. Kept < Filled /\ SegmentOK(toGet)
  BY <1>0, <1>t, Positions DEF IInv, OwnInv, SegmentInv
<1>3. buf[toGet][2] = segCount + 1 /\ buf \in [Desc -> Segment]
  BY <1>0, <1>2, <1>t DEF IInv, NextInv, TypeOK, RingType
<1>4. segCount = 0 /\ Oldest = toGet
  BY <1>0, <1>2, <1>3, <1>t DEF SegmentOK, Oldest
<1>1. Oldest' = Oldest /\ Kept' = 1 /\ Filled' = Filled /\ Kept = 0
  <2>1. Oldest' = Oldest
    BY <1>0, <1>4 DEF Oldest
  <2> QED
    BY <1>0, <1>t, <1>4, <2>1 DEF Filled, Kept
<1>n. NextDesc(toGet) \in Desc /\ Off(Oldest, NextDesc(toGet)) = 1
  BY <1>t, <1>1, OffNext, OffType, Positions
<1>5. TypeOK'
  BY <1>0, <1>n, <1>t, Positions
     DEF IInv, TypeOK, RingType, EngineType, FifoType, LoopType, PbufType, PositionInv
<1>6. OwnInv'
  BY <1>0, <1>1 DEF IInv, OwnInv
<1>7. PositionInv'
  BY <1>0, <1>1, <1>2, <1>n, Positions DEF IInv, PositionInv
<1>8. EngineInv'
  BY <1>0 DEF IInv, EngineInv
<1>9. SegmentInv'
  BY <1>0, <1>1 DEF IInv, SegmentInv, SegmentOK
<1>10. ScanInv'
  <2> SUFFICES ASSUME NEW d \in Desc, Off(Oldest, d) < 1
               PROVE  buf[d] = <<buf[toGet][1], 1>> /\ Off(Oldest, d) = 0 /\ ~status[d].ls
    BY <1>0, <1>1 DEF ScanInv
  <2>1. d = toGet /\ Off(Oldest, d) = 0
    BY <1>4, OffType, Positions
  <2> QED
    BY <2>1, <1>0, <1>3, <1>4, Positions DEF Segment
<1>11. NextInv'
  BY <1>0, <1>1, <1>2, <1>3, <1>4, <1>t, Positions DEF SegmentOK, NextInv
<1> QED
  BY <1>5, <1>6, <1>7, <1>8, <1>9, <1>10, <1>11 DEF IInv

\* An intermediate segment is the next of the frame that is being scanned.
LEMMA PollMiddleStep ==
  ASSUME IInv, PollMiddle
  PROVE  IInv'
<1>0. /\ UNCHANGED <<own, status, buf, rbus, dmaState, dmaDesc, dmaSeg, fifo, offered>>
      /\ UNCHANGED <<pc, fsDesc, len, cursor, released, pbuf, out>>
      /\ pc = "poll" /\ own[toGet] = "cpu" /\ ~status[toGet].fs /\ ~status[toGet].ls
      /\ segCount' = segCount + 1 /\ toGet' = NextDesc(toGet)
  BY DEF PollMiddle, dmaVars
<1>t. segCount \in 0 .. MaxSegs /\ Kept = segCount /\ Off(Oldest, toGet) = Kept
  BY <1>0 DEF IInv, TypeOK, LoopType, Kept, PositionInv
<1>2. Kept < Filled /\ SegmentOK(toGet)
  BY <1>0, <1>t, Positions DEF IInv, OwnInv, SegmentInv
<1>3. /\ buf[toGet][2] = segCount + 1
      /\ segCount > 0 => buf[toGet][1] = buf[fsDesc][1]
      /\ buf \in [Desc -> Segment]
  BY <1>0, <1>2, <1>t DEF IInv, NextInv, TypeOK, RingType
<1>4. segCount > 0 /\ Oldest = fsDesc /\ segCount + 1 < N /\ segCount + 1 <= MaxSegs
  BY <1>0, <1>2, <1>3, <1>t, Positions DEF SegmentOK, Oldest
<1>1. Oldest' = Oldest /\ Kept' = Kept + 1 /\ Filled' = Filled
  <2>1. Oldest' = Oldest
    BY <1>0, <1>4, <1>t DEF Oldest
  <2> QED
    BY <1>0, <1>t, <1>4, <2>1 DEF Filled, Kept
<1>n. NextDesc(toGet) \in Desc /\ Off(Oldest, NextDesc(toGet)) = Kept + 1
  BY <1>t, <1>4, OffNext, OffType, Positions
<1>5. TypeOK'
  BY <1>0, <1>n, <1>t, <1>4, Positions
     DEF IInv, TypeOK, RingType, EngineType, FifoType, LoopType, PbufType, PositionInv
<1>6. OwnInv'
  BY <1>0, <1>1 DEF IInv, OwnInv
<1>7. PositionInv'
  BY <1>0, <1>1, <1>2, <1>n, Positions DEF IInv, PositionInv
<1>8. EngineInv'
  BY <1>0 DEF IInv, EngineInv
<1>9. SegmentInv'
  BY <1>0, <1>1 DEF IInv, SegmentInv, SegmentOK
<1>10. ScanInv'
  <2> SUFFICES ASSUME NEW d \in Desc, Off(Oldest, d) < segCount + 1
               PROVE  /\ buf[d] = <<buf[fsDesc][1], Off(Oldest, d) + 1>>
                      /\ ~status[d].ls
    BY <1>0, <1>1, <1>t DEF ScanInv
  <2>1. CASE Off(Oldest, d) < segCount
    BY <2>1, <1>0, <1>t DEF IInv, ScanInv
  <2>2. CASE Off(Oldest, d) = segCount
    <3>1. d = toGet
      BY <2>2, <1>t, OffType, Positions
    <3>2. buf[toGet] = <<buf[fsDesc][1], segCount + 1>>
      BY <1>3, <1>4, Positions DEF Segment
    <3> QED
      BY <1>0, <2>2, <3>1, <3>2
  <2>3. Off(Oldest, d) \in 0 .. N - 1
    BY OffType, Positions
  <2> QED
    BY <2>1, <2>2, <2>3, <1>t, Positions
<1>11. NextInv'
  BY <1>0, <1>1, <1>2, <1>3, <1>4, <1>t, Positions DEF SegmentOK, NextInv
<1> QED
  BY <1>5, <1>6, <1>7, <1>8, <1>9, <1>10, <1>11 DEF IInv

\* The length taken from the last segment is that of the scanned frame.
LEMMA GetReceivedFrameStep ==
  ASSUME IInv, GetReceivedFrame
  PROVE  IInv'
<1>0. /\ UNCHANGED <<own, status, buf, rbus, dmaState, dmaDesc, dmaSeg, fifo, offered>>
      /\ UNCHANGED <<fsDesc, segCount, released, pbuf, out>>
      /\ pc = "get" /\ pc' = "alloc" /\ len' = status[toGet].len
      /\ cursor' = fsDesc /\ toGet' = NextDesc(toGet)
  BY DEF GetReceivedFrame, dmaVars
<1>t. /\ segCount \in 1 .. MaxSegs /\ Kept = segCount - 1 /\ Off(Oldest, toGet) = Kept
      /\ own[toGet] = "cpu" /\ status[toGet].ls
  BY <1>0 DEF IInv, TypeOK, LoopType, Kept, PositionInv
<1>2. Kept < Filled /\ SegmentOK(toGet)
  BY <1>0, <1>t, Positions DEF IInv, OwnInv, SegmentInv
<1>3. buf[toGet][2] = segCount
  BY <1>0, <1>2, <1>t DEF IInv, NextInv
<1>1. Oldest' = Oldest /\ Kept' = Kept + 1 /\ Filled' = Filled
  <2>1. Oldest' = Oldest
    BY <1>0, <1>t DEF Oldest
  <2> QED
    BY <1>0, <1>t, <2>1 DEF Filled, Kept
<1>n. NextDesc(toGet) \in Desc /\ Off(Oldest, NextDesc(toGet)) = Kept + 1
  BY <1>t, OffNext, OffType, Positions
<1>l. len' \in Lengths(segCount) /\ len' \in 0 .. MaxSegs
  <2>1. len' \in Lengths(segCount)
    BY <1>0, <1>t, <1>2, <1>3 DEF SegmentOK
  <2> QED
    BY <2>1, <1>t, Positions DEF Lengths
<1>5. TypeOK'
  BY <1>0, <1>n, <1>l, Positions
     DEF IInv, TypeOK, RingType, EngineType, FifoType, LoopType, PbufType
<1>6. OwnInv'
  BY <1>0, <1>1 DEF IInv, OwnInv
<1>7. PositionInv'
  BY <1>0, <1>1, <1>2, <1>n, <1>l, <1>t, Positions DEF IInv, PositionInv
<1>8. EngineInv'
  BY <1>0 DEF IInv, EngineInv
<1>9. SegmentInv'
  BY <1>0, <1>1 DEF IInv, SegmentInv, SegmentOK
<1>10. ScanInv'
  BY <1>0, <1>1 DEF IInv, ScanInv
<1>11. NextInv'
  BY <1>0, <1>1, <1>2, <1>t, Positions DEF SegmentOK, NextInv
<1> QED
  BY <1>5, <1>6, <1>7, <1>8, <1>9, <1>10, <1>11 DEF IInv

\* With a pbuf the copy starts at the first descriptor; without one the
\* descriptors are given back from there.
LEMMA PbufAllocStep ==
  ASSUME IInv, PbufAlloc
  PROVE  IInv'
<1>0. /\ UNCHANGED <<own, status, buf, rbus, dmaState, dmaDesc, dmaSeg, fifo, offered>>
      /\ UNCHANGED <<toGet, fsDesc, segCount, len, cursor, released, pbuf, out>>
      /\ pc = "alloc" /\ pc' \in {"copy", "release"}
  BY DEF PbufAlloc, dmaVars
<1>t. /\ segCount \in 1 .. MaxSegs /\ Kept = segCount /\ released = 0
      /\ Oldest = fsDesc /\ cursor = fsDesc /\ pbuf = << >> /\ len \in Lengths(segCount)
  BY <1>0 DEF IInv, TypeOK, LoopType, Kept, Oldest, PositionInv
<1>1. Oldest' = Oldest /\ Kept' = Kept /\ Filled' = Filled
  <2>1. Oldest' = Oldest /\ Kept' = Kept
    BY <1>0, <1>t DEF Oldest, Kept
  <2> QED
    BY <1>0, <2>1 DEF Filled
<1>2. Off(Oldest, cursor) = 0 /\ Len(pbuf) = 0 /\ len >= 1
  BY <1>t, OffType, Positions DEF Lengths
<1>5. TypeOK'
  BY <1>0 DEF IInv, TypeOK, RingType, EngineType, FifoType, LoopType, PbufType
<1>6. OwnInv'
  BY <1>0, <1>1 DEF IInv, OwnInv
<1>7. PositionInv'
  <2>1. Off(Oldest, toGet) = Kept /\ Kept <= Filled /\ segCount > 0 /\ len > 0
    BY <1>t, <1>2, Positions DEF IInv, PositionInv, Lengths
  <2>2. CASE pc' = "copy"
    BY <1>0, <1>1, <1>2, <1>t, <2>1, <2>2 DEF PositionInv
  <2>3. CASE pc' = "release"
    BY <1>0, <1>1, <1>t, <2>1, <2>3 DEF PositionInv
  <2> QED
    BY <1>0, <2>2, <2>3
<1>8. EngineInv'
  BY <1>0 DEF IInv, EngineInv
<1>9. SegmentInv'
  BY <1>0, <1>1 DEF IInv, SegmentInv, SegmentOK
<1>10. ScanInv'
  BY <1>0, <1>1 DEF IInv, ScanInv
<1>11. NextInv'
  BY <1>0, <1>1 DEF IInv, NextInv
<1> QED
  BY <1>5, <1>6, <1>7, <1>8, <1>9, <1>10, <1>11 DEF IInv

\* The copy stays within the descriptors of its frame.
LEMMA CopyBufferStep ==
  ASSUME IInv, CopyBuffer
  PROVE  IInv'
<1>0. /\ UNCHANGED <<own, status, buf, rbus, dmaState, dmaDesc, dmaSeg, fifo, offered>>
      /\ UNCHANGED <<toGet, fsDesc, segCount, len, released, out>>
      /\ pc = "copy" /\ pbuf' = Append(pbuf, buf[cursor])
      /\ IF Len(pbuf) + 1 < len
         THEN cursor' = NextDesc(cursor) /\ pc' = pc
         ELSE cursor' = fsDesc /\ pc' = "release"
  BY DEF CopyBuffer, dmaVars
<1>t. /\ segCount \in 1 .. MaxSegs /\ Kept = segCount /\ released = 0
      /\ Oldest = fsDesc /\ len \in Lengths(segCount)
      /\ Len(pbuf) < len /\ Off(Oldest, cursor) = Len(pbuf)
  BY <1>0 DEF IInv, TypeOK, LoopType, Kept, Oldest, PositionInv
<1>2. len \in 1 .. MaxSegs
  BY <1>t, Positions DEF Lengths
<1>3. /\ Len(pbuf) \in Nat /\ pbuf' \in Seq(Segment) /\ Len(pbuf') = Len(pbuf) + 1
      /\ pbuf' # << >>
  BY <1>0, Positions, AppendProperties, LenProperties DEF IInv, TypeOK, RingType, PbufType
<1>1. Oldest' = Oldest /\ Kept' = Kept /\ Filled' = Filled
  <2>1. Oldest' = Oldest
    BY <1>0, <1>t DEF Oldest
  <2>2. Kept' = Kept
    BY <1>0, <1>t DEF Kept
  <2> QED
    BY <1>0, <2>1, <2>2 DEF Filled
<1>4. cursor' \in Desc /\ (pc' = "copy" => Off(Oldest, cursor') = Len(pbuf) + 1)
  <2>1. NextDesc(cursor) \in Desc /\ cursor \in Desc /\ fsDesc \in Desc
    BY OffType, Positions
  <2>2. CASE Len(pbuf) + 1 < len
    <3>1. Off(Oldest, cursor) # N - 1
      BY <1>t, <1>2, <1>3, <2>2, Positions
    <3>2. Off(Oldest, NextDesc(cursor)) = Off(Oldest, cursor) + 1
      BY <3>1, OffNext, Positions
    <3> QED
      BY <1>0, <1>t, <2>1, <2>2, <3>2
  <2>3. CASE ~(Len(pbuf) + 1 < len)
    BY <1>0, <2>1, <2>3
  <2> QED
    BY <2>2, <2>3
<1>5. TypeOK'
  <2>1. LoopType'
    BY <1>0, <1>4 DEF IInv, TypeOK, LoopType
  <2>2. PbufType'
    BY <1>0, <1>2, <1>3, <1>t, Positions DEF IInv, TypeOK, PbufType
  <2> QED
    BY <1>0, <2>1, <2>2 DEF IInv, TypeOK, RingType, EngineType, FifoType
<1>6. OwnInv'
  BY <1>0, <1>1 DEF IInv, OwnInv
<1>7. PositionInv'
  BY <1>0, <1>1, <1>3, <1>4, <1>t DEF IInv, PositionInv
<1>8. EngineInv'
  BY <1>0 DEF IInv, EngineInv
<1>9. SegmentInv'
  BY <1>0, <1>1 DEF IInv, SegmentInv, SegmentOK
<1>10. ScanInv'
  BY <1>0, <1>1 DEF IInv, ScanInv
<1>11. NextInv'
  BY <1>0, <1>1 DEF IInv, NextInv
<1> QED
  BY <1>5, <1>6, <1>7, <1>8, <1>9, <1>10, <1>11 DEF IInv

\* Giving the oldest descriptor back brings every other one a link nearer.
LEMMA ReleaseDescriptorStep ==
  ASSUME IInv, ReleaseDescriptor
  PROVE  IInv'
<1>0. /\ UNCHANGED <<buf, rbus, dmaState, dmaDesc, dmaSeg, fifo, offered>>
      /\ UNCHANGED <<pc, toGet, fsDesc, segCount, len, pbuf, out>>
      /\ pc = "release" /\ released < segCount
      /\ own' = [own EXCEPT ![cursor] = "dma"]
      /\ status' = [status EXCEPT ![cursor] = Cleared]
      /\ cursor' = NextDesc(cursor) /\ released' = released + 1
  BY DEF ReleaseDescriptor, dmaVars
<1>t. /\ segCount \in 0 .. MaxSegs /\ released \in 0 .. segCount
      /\ Kept = segCount - released /\ Oldest = cursor /\ Off(Oldest, toGet) = Kept
      /\ Kept <= Filled /\ Kept > 0
  BY <1>0 DEF IInv, TypeOK, LoopType, Kept, Oldest, PositionInv
<1>o. \A d \in Desc : own[d] = "cpu" <=> Off(Oldest, d) < Filled
  BY DEF IInv, OwnInv
<1>e. own[Oldest] = "cpu" /\ (own[dmaDesc] = "cpu" => dmaDesc = Oldest)
  <2>1. Off(Oldest, Oldest) = 0
    BY OffType, Positions
  <2> QED
    BY <2>1, <1>o, <1>t, Positions DEF IInv, OwnInv
<1>f. /\ \A d \in Desc : own'[d] = IF d = Oldest THEN "dma" ELSE own[d]
      /\ \A d \in Desc : d # Oldest => status'[d] = status[d]
      /\ own' \in [Desc -> {"dma", "cpu"}]
      /\ status' \in [Desc -> [fs : BOOLEAN, ls : BOOLEAN, len : 0 .. MaxSegs]]
  <2>1. Cleared \in [fs : BOOLEAN, ls : BOOLEAN, len : 0 .. MaxSegs]
    BY Positions DEF Cleared
  <2> QED
    BY <2>1, <1>0, <1>t, Positions DEF IInv, TypeOK, RingType
<1>1. Oldest' = NextDesc(Oldest) /\ Oldest' \in Desc /\ Kept' = Kept - 1
  BY <1>0, <1>t, OffType, Positions DEF Oldest, Kept
<1>s. \A d \in Desc : Off(Oldest', d) = IF d = Oldest THEN N - 1 ELSE Off(Oldest, d) - 1
  BY <1>1, OffShift, Positions
<1>g. Filled' = Filled - 1
  <2>1. own'[dmaDesc] # "cpu"
    BY <1>e, <1>f, Positions
  <2>2. Filled' = Off(Oldest', dmaDesc)
    BY <1>0, <2>1 DEF Filled
  <2>3. CASE own[dmaDesc] = "cpu"
    BY <2>2, <2>3, <1>e, <1>s, Positions DEF Filled
  <2>4. CASE own[dmaDesc] # "cpu"
    <3>1. dmaDesc # Oldest
      BY <2>4, <1>e
    <3> QED
      BY <2>2, <2>4, <3>1, <1>s, Positions DEF Filled
  <2> QED
    BY <2>3, <2>4
<1>5. TypeOK'
  <2>1. LoopType'
    BY <1>0, <1>t, OffType, Positions DEF IInv, TypeOK, LoopType
  <2> QED
    BY <1>0, <1>f, <2>1 DEF IInv, TypeOK, RingType, EngineType, FifoType, PbufType
<1>6. OwnInv'
  <2>1. own'[dmaDesc] # "cpu"
    BY <1>e, <1>f, Positions
  <2>2. ASSUME NEW d \in Desc
        PROVE  own'[d] = "cpu" <=> Off(Oldest', d) < Filled - 1
    <3>1. Off(Oldest, d) \in 0 .. N - 1
      BY OffType, Positions
    <3>2. CASE d = Oldest
      BY <3>2, <1>f, <1>s, Positions
    <3>3. CASE d # Oldest
      BY <3>1, <3>3, <1>f, <1>o, <1>s, Positions
    <3> QED
      BY <3>2, <3>3
  <2> QED
    BY <2>1, <2>2, <1>0, <1>g DEF OwnInv
<1>7. PositionInv'
  <2>1. Off(Oldest', toGet) = Kept - 1
    <3>1. toGet # Oldest
      BY <1>t, OffType, Positions
    <3> QED
      BY <3>1, <1>s, <1>t, Positions
  <2> QED
    BY <2>1, <1>0, <1>1, <1>g, <1>t, Positions DEF IInv, PositionInv
<1>8. EngineInv'
  <2>1. dmaDesc # Oldest => own'[dmaDesc] = own[dmaDesc]
    BY <1>f, Positions
  <2>2. dmaDesc = Oldest => own[dmaDesc] = "cpu"
    BY <1>e
  <2> QED
    BY <2>1, <2>2, <1>0 DEF IInv, EngineInv
<1>9. SegmentInv'
  <2> SUFFICES ASSUME NEW d \in Desc, own'[d] = "cpu"
               PROVE  SegmentOK(d)'
    BY DEF SegmentInv
  <2>1. d # Oldest /\ own[d] = "cpu" /\ status'[d] = status[d]
    BY <1>f
  <2>2. SegmentOK(d)
    BY <2>1 DEF IInv, SegmentInv
  <2>3. Off(Oldest', d) + 1 = Filled' <=> Off(Oldest, d) + 1 = Filled
    BY <2>1, <1>g, <1>s, OffType, Positions
  <2> QED
    BY <2>1, <2>2, <2>3, <1>0 DEF SegmentOK
<1>10. ScanInv'
  BY <1>0 DEF ScanInv
<1>11. NextInv'
  BY <1>0, <1>1, <1>g, <1>t, Positions DEF IInv, NextInv
<1> QED
  BY <1>5, <1>6, <1>7, <1>8, <1>9, <1>10, <1>11 DEF IInv

\* When the last descriptor is back, the loop waits where it has scanned to.
LEMMA ReleaseDoneStep ==
  ASSUME IInv, ReleaseDone
  PROVE  IInv'
<1>0. /\ UNCHANGED <<own, status, buf, rbus, dmaState, dmaDesc, dmaSeg, fifo, offered>>
      /\ UNCHANGED <<toGet, fsDesc, len, cursor, pbuf, out>>
      /\ pc = "release" /\ released = segCount
      /\ segCount' = 0 /\ released' = 0 /\ pc' \in {"clear", "input"}
  BY DEF ReleaseDone, dmaVars
<1>t. Kept = 0 /\ Oldest = cursor /\ Off(Oldest, toGet) = 0
  BY <1>0 DEF IInv, TypeOK, LoopType, Kept, Oldest, PositionInv
<1>1. Oldest' = Oldest /\ Kept' = Kept /\ Filled' = Filled
  <2>1. Oldest' = toGet /\ toGet = Oldest
    BY <1>0, <1>t, OffType, Positions DEF Oldest
  <2> QED
    BY <1>0, <1>t, <2>1 DEF Filled, Kept
<1>5. TypeOK'
  <2>1. RingType' /\ FifoType' /\ PbufType'
    BY <1>0 DEF IInv, TypeOK, RingType, FifoType, PbufType
  <2>2. EngineType'
    BY <1>0 DEF IInv, TypeOK, EngineType
  <2>3. LoopType'
    <3>1. LoopType /\ MaxSegs \in Nat
      BY Positions DEF IInv, TypeOK
    <3> QED
      BY <1>0, <3>1 DEF LoopType
  <2> QED
    BY <2>1, <2>2, <2>3 DEF TypeOK
<1>6. OwnInv'
  BY <1>0, <1>1 DEF IInv, OwnInv
<1>7. PositionInv'
  BY <1>0, <1>1 DEF IInv, PositionInv
<1>8. EngineInv'
  BY <1>0 DEF IInv, EngineInv
<1>9. SegmentInv'
  BY <1>0, <1>1 DEF IInv, SegmentInv, SegmentOK
<1>10. ScanInv'
  BY <1>0 DEF ScanInv
<1>11. NextInv'
  BY <1>0, <1>1 DEF IInv, NextInv
<1> QED
  BY <1>5, <1>6, <1>7, <1>8, <1>9, <1>10, <1>11 DEF IInv

\* What is left of the call changes no descriptor and no position.
LEMMA LastStep ==
  ASSUME IInv, ClearRbus \/ PollDemand \/ Input
  PROVE  IInv'
<1>0. /\ UNCHANGED <<own, status, buf, dmaDesc, dmaSeg, fifo, offered>>
      /\ UNCHANGED <<toGet, fsDesc, segCount, len, cursor, released>>
      /\ rbus' \in BOOLEAN
      /\ pc \in {"clear", "resume", "input"} /\ pc' \in {"resume", "input", "poll"}
      /\ \/ dmaState' = dmaState
         \/ dmaState' = "idle"
      /\ pc' = "poll" => pbuf' = << >>
      /\ pbuf' \in {pbuf, << >>} /\ out' \in {out, pbuf}
  BY DEF ClearRbus, PollDemand, Input, dmaVars, IInv, TypeOK, EngineType
<1>t. segCount = 0 /\ released = 0
  BY <1>0 DEF IInv, PositionInv
<1>1. Oldest' = Oldest /\ Kept' = Kept /\ Filled' = Filled
  <2>1. Oldest' = Oldest
    BY <1>0, <1>t DEF Oldest
  <2> QED
    BY <1>0, <1>t, <2>1 DEF Filled, Kept
<1>5. TypeOK'
  <2>1. << >> \in Seq(Segment) /\ Len(<< >>) = 0
    OBVIOUS
  <2>2. PbufType'
    <3>1. PbufType /\ 0 <= MaxSegs
      BY Positions DEF IInv, TypeOK
    <3>2. pbuf' \in Seq(Segment) /\ Len(pbuf') <= MaxSegs
      BY <1>0, <2>1, <3>1 DEF PbufType
    <3>3. out' \in Seq(Segment) /\ Len(out') <= MaxSegs
      BY <1>0, <3>1 DEF PbufType
    <3> QED
      BY <3>2, <3>3 DEF PbufType
  <2>3. EngineType'
    BY <1>0 DEF IInv, TypeOK, EngineType
  <2> QED
    BY <1>0, <2>2, <2>3 DEF IInv, TypeOK, RingType, FifoType, LoopType
<1>6. OwnInv'
  BY <1>0, <1>1 DEF IInv, OwnInv
<1>7. PositionInv'
  BY <1>0, <1>1, <1>t DEF IInv, PositionInv
<1>8. EngineInv'
  BY <1>0 DEF IInv, EngineInv
<1>9. SegmentInv'
  BY <1>0, <1>1 DEF IInv, SegmentInv, SegmentOK
<1>10. ScanInv'
  <2>1. \A d \in Desc : ~(Off(Oldest, d) < 0)
    BY OffType, Positions
  <2>2. Kept' = 0 /\ segCount' = 0
    BY <1>0, <1>t, <1>1 DEF Kept
  <2> QED
    BY <1>1, <2>1, <2>2 DEF ScanInv
<1>11. NextInv'
  <2>1. Kept = 0
    BY <1>0, <1>t DEF Kept
  <2> QED
    BY <1>0, <1>1, <2>1 DEF IInv, NextInv
<1> QED
  BY <1>5, <1>6, <1>7, <1>8, <1>9, <1>10, <1>11 DEF IInv

-----------------------------------------------------------------------------
(* The theorems.                                                           *)

\* Every step of the engine and of the loop keeps the invariant.
LEMMA NextIInv == IInv /\ [Next]_vars => IInv'
<1> SUFFICES ASSUME IInv, [Next]_vars PROVE IInv'
  OBVIOUS
<1>1. CASE \E n \in 1 .. MaxSegs : FrameArrives(n)
  BY <1>1, ArrivesStep
<1>2. CASE Dma
  BY <1>2, DmaFetchStep, DmaSuspendStep, DmaRetryStep, DmaWriteStep, DmaCloseStep DEF Dma
<1>3. CASE Poll
  BY <1>3, PollLastStep, PollFirstStep, PollMiddleStep DEF Poll
<1>4. CASE LowLevelInput \/ Input
  BY <1>4, GetReceivedFrameStep, PbufAllocStep, CopyBufferStep,
     ReleaseDescriptorStep, ReleaseDoneStep, LastStep DEF LowLevelInput
<1>5. CASE UNCHANGED vars
  <2>1. /\ Oldest' = Oldest /\ Kept' = Kept /\ Filled' = Filled
        /\ UNCHANGED <<own, status, buf, rbus, dmaState, dmaDesc, dmaSeg, fifo, offered>>
        /\ UNCHANGED <<pc, toGet, fsDesc, segCount, len, cursor, released, pbuf, out>>
    BY <1>5 DEF vars, dmaVars, cpuVars, Oldest, Kept, Filled
  <2>2. TypeOK'
    BY <2>1 DEF IInv, TypeOK, RingType, EngineType, FifoType, LoopType, PbufType
  <2>3. OwnInv' /\ PositionInv' /\ EngineInv'
    BY <2>1 DEF IInv, OwnInv, PositionInv, EngineInv
  <2>4. SegmentInv'
    BY <2>1 DEF IInv, SegmentInv, SegmentOK
  <2>5. ScanInv' /\ NextInv'
    BY <2>1 DEF IInv, ScanInv, NextInv
  <2> QED
    BY <2>2, <2>3, <2>4, <2>5 DEF IInv
<1> QED
  BY <1>1, <1>2, <1>3, <1>4, <1>5 DEF Next, Cpu

\* The invariant holds in every behaviour of the receive path.
THEOREM Invariance == Spec => []IInv
<1>1. Init => IInv
  BY InitIInv
<1>2. IInv /\ [Next]_vars => IInv'
  BY NextIInv
<1> QED
  BY <1>1, <1>2, PTL DEF Spec

\* Type correctness: every variable stays within its type, Seg_Count within
\* the longest frame and the pbuf within the frame that is copied to it.
THEOREM TypeCorrect == Spec => []TypeOK
<1>1. IInv => TypeOK
  BY DEF IInv
<1> QED
  BY <1>1, Invariance, PTL

\* What the loop copies from or gives back lies before DMARxDescToGet.
LEMMA HeldByCpu == IInv => CpuTouchesOwnDescriptors
<1> SUFFICES ASSUME IInv, pc = "copy" \/ (pc = "release" /\ released < segCount)
             PROVE  own[cursor] = "cpu"
  BY DEF CpuTouchesOwnDescriptors
<1>1. Off(Oldest, cursor) < Kept
  <2>1. CASE pc = "copy"
    <3>1. Kept = segCount /\ segCount \in 1 .. MaxSegs /\ len \in Lengths(segCount)
      BY <2>1 DEF IInv, PositionInv, Kept, TypeOK, LoopType
    <3>2. Off(Oldest, cursor) < len
      BY <2>1 DEF IInv, PositionInv
    <3>3. len <= segCount /\ len \in Nat
      BY <3>1, Positions DEF Lengths
    <3> QED
      BY <3>1, <3>2, <3>3, OffType, Positions
  <2>2. CASE pc = "release" /\ released < segCount
    <3>1. Oldest = cursor /\ Kept = segCount - released
      BY <2>2 DEF Oldest, Kept
    <3>2. Off(Oldest, cursor) = 0
      BY <3>1, OffType, Positions
    <3> QED
      BY <2>2, <3>1, <3>2 DEF IInv, TypeOK, LoopType
  <2> QED
    BY <2>1, <2>2
<1>2. Kept <= Filled
  BY DEF IInv, PositionInv
<1>3. Off(Oldest, cursor) < Filled
  BY <1>1, <1>2, OffType, Positions
<1> QED
  BY <1>3, Positions DEF IInv, OwnInv

\* low_level_input copies from, and gives back, descriptors of the CPU's only.
THEOREM OwnershipRespected == Spec => []CpuTouchesOwnDescriptors
BY HeldByCpu, Invariance, PTL

\* A loop that waits on a descriptor of the engine's waits on the next one the
\* engine will fill: the two never lose each other on the ring.
THEOREM PollingInStep == Spec => []PollInStepWithDma
<1>1. IInv => PollInStepWithDma
  <2> SUFFICES ASSUME IInv, own[toGet] = "dma" PROVE toGet = dmaDesc
    BY DEF PollInStepWithDma
  <2>1. Off(Oldest, toGet) = Kept /\ Kept <= Filled
    BY DEF IInv, PositionInv
  <2>2. ~(Off(Oldest, toGet) < Filled)
    BY Positions DEF IInv, OwnInv
  <2>3. Filled = Kept /\ Filled < N
    BY <2>1, <2>2, Positions
  <2>4. Filled = Off(Oldest, dmaDesc)
    BY <2>3, Positions DEF Filled
  <2> QED
    BY <2>1, <2>3, <2>4, OffType, Positions
<1> QED
  BY <1>1, Invariance, PTL

-----------------------------------------------------------------------------
(* The ring implements EthRxService.  What IInv says of positions is joined *)
(* by what the ring says of age: frames stand in the order of their arrival *)
(* in the FIFO and along the chain, and a frame ends where LS is set.       *)

\* No frame is older than its number: the next one offered is a new one.
FreshInv == \A g \in Pending : g <= offered

FifoOrder == \A i, j \in 1 .. Len(fifo) : i < j => fifo[i].id < fifo[j].id

\* Along the chain frames grow younger, strictly so behind a last segment,
\* and none of them is younger than what still waits in the FIFO.
ChainOrder ==
  \A d \in Desc : own[d] = "cpu" =>
    /\ \A e \in Desc : own[e] = "cpu" /\ Off(Oldest, d) < Off(Oldest, e) =>
          /\ buf[d][1] <= buf[e][1]
          /\ status[d].ls => buf[d][1] < buf[e][1]
    /\ \A i \in 1 .. Len(fifo) :
          /\ buf[d][1] <= fifo[i].id
          /\ status[d].ls => buf[d][1] < fifo[i].id

\* The last descriptor the loop counted is the last one of its frame.
LastInv ==
  pc \in {"alloc", "copy"} =>
    \A d \in Desc : Off(Oldest, d) + 1 = segCount => status[d].ls

CopyInv ==
  pc = "copy" => \A s \in 1 .. Len(pbuf) : pbuf[s] = <<buf[fsDesc][1], s>>

\* Everything the loop does not hold for frame f is younger than f.
After(f) ==
  /\ \A d \in Desc : own[d] = "cpu" /\ Off(Oldest, d) >= Kept => f < buf[d][1]
  /\ \A i \in 1 .. Len(fifo) : f < fifo[i].id

DeliverInv ==
  pc \in {"release", "clear", "resume", "input"} /\ pbuf # << >> =>
    /\ \A s \in 1 .. Len(pbuf) : pbuf[s] = <<pbuf[1][1], s>>
    /\ After(pbuf[1][1])

OrderInv == FreshInv /\ FifoOrder /\ ChainOrder /\ LastInv /\ CopyInv /\ DeliverInv

\* What a step may do to what the service sees.
ServiceStep == [Service!Next]_<<offered, Pending, out>>

\* Where the pending frames are.
LEMMA PendingAre ==
  \A g : g \in Pending <=>
           \/ \E i \in 1 .. Len(fifo) : g = fifo[i].id
           \/ \E d \in Desc : own[d] = "cpu" /\ g = buf[d][1]
           \/ \E i \in 1 .. Len(pbuf) : g = pbuf[i][1]
BY DEF Pending

LEMMA PendingAreNext ==
  \A g : g \in Pending' <=>
           \/ \E i \in 1 .. Len(fifo') : g = fifo'[i].id
           \/ \E d \in Desc : own'[d] = "cpu" /\ g = buf'[d][1]
           \/ \E i \in 1 .. Len(pbuf') : g = pbuf'[i][1]
BY DEF Pending

\* The types of what is compared.
LEMMA IdTypes ==
  ASSUME IInv
  PROVE  /\ \A i \in 1 .. Len(fifo) : fifo[i] \in Frame /\ fifo[i].id \in Nat
         /\ \A d \in Desc : buf[d][1] \in Nat
         /\ Len(fifo) \in Nat /\ Len(pbuf) \in Nat /\ offered \in Nat
<1>1. \A i \in 1 .. Len(fifo) : fifo[i] \in Frame
  BY ElementOfSeq DEF IInv, TypeOK, FifoType
<1>2. \A f \in Frame : f.id \in Nat
  BY DEF Frame
<1>3. \A d \in Desc : buf[d][1] \in Nat
  BY DEF IInv, TypeOK, RingType, Segment
<1>4. Len(fifo) \in Nat /\ Len(pbuf) \in Nat /\ offered \in Nat
  BY LenProperties, RingAssumption DEF IInv, TypeOK, FifoType, PbufType, EngineType
<1> QED
  BY <1>1, <1>2, <1>3, <1>4

\* A step that leaves the ring, the FIFO, the pbuf and the output alone is
\* none to the service.
LEMMA Hidden ==
  ASSUME UNCHANGED <<own, buf, fifo, pbuf, offered, out>>
  PROVE  ServiceStep /\ Pending' = Pending
<1>1. Pending' = Pending
  BY DEF Pending
<1> QED
  BY <1>1 DEF ServiceStep

\* Losing at most one frame is a step of the service.
LEMMA Lost ==
  ASSUME UNCHANGED <<offered, out>>, NEW f \in Pending,
         Pending' \in {Pending, Pending \ {f}}
  PROVE  ServiceStep
<1>1. CASE Pending' = Pending
  BY <1>1 DEF ServiceStep
<1>2. CASE Pending' = Pending \ {f}
  BY <1>2 DEF ServiceStep, Service!Next, Service!Lose
<1> QED
  BY <1>1, <1>2

\* With at most one frame offered, what is pending stays fresh.
LEMMA StaysFresh ==
  ASSUME IInv, FreshInv, Pending \subseteq Nat,
         \/ offered' = offered /\ Pending' \subseteq Pending
         \/ offered' = offered + 1 /\ Pending' \subseteq Pending \cup {offered + 1}
  PROVE  FreshInv'
<1>1. offered \in Nat
  BY IdTypes
<1>2. \A g \in Pending : g \in Nat /\ g <= offered
  BY DEF FreshInv
<1>3. ASSUME NEW g \in Pending' PROVE g <= offered'
  <2>1. CASE offered' = offered /\ Pending' \subseteq Pending
    BY <1>2, <2>1
  <2>2. CASE offered' = offered + 1 /\ Pending' \subseteq Pending \cup {offered + 1}
    BY <1>1, <1>2, <2>2
  <2> QED
    BY <2>1, <2>2
<1> QED
  BY <1>3 DEF FreshInv

\* The oldest descriptor moves only when one is given back.
LEMMA OldestStays ==
  ASSUME IInv, [Next]_vars, ~ReleaseDescriptor
  PROVE  Oldest' = Oldest
<1>1. CASE (\E n \in 1 .. MaxSegs : FrameArrives(n)) \/ Dma
  BY <1>1 DEF FrameArrives, Dma, DmaFetch, DmaSuspend, DmaRetry, DmaWrite, DmaClose,
     cpuVars, Oldest
<1>2. CASE PollLast
  BY <1>2 DEF PollLast, Oldest, IInv, TypeOK, LoopType
<1>3. CASE PollFirst
  <2>1. Kept = segCount /\ Off(Oldest, toGet) = Kept
    BY <1>3 DEF PollFirst, IInv, PositionInv, Kept
  <2>2. SegmentOK(toGet) /\ Kept < Filled
    BY <1>3, <2>1, Positions DEF PollFirst, IInv, OwnInv, SegmentInv
  <2>3. segCount = 0
    BY <1>3, <2>1, <2>2 DEF PollFirst, SegmentOK, IInv, NextInv, TypeOK, LoopType
  <2> QED
    BY <1>3, <2>3 DEF PollFirst, Oldest
<1>4. CASE PollMiddle
  <2>1. Kept = segCount /\ Off(Oldest, toGet) = Kept
    BY <1>4 DEF PollMiddle, IInv, PositionInv, Kept
  <2>2. SegmentOK(toGet) /\ Kept < Filled
    BY <1>4, <2>1, Positions DEF PollMiddle, IInv, OwnInv, SegmentInv
  <2>3. segCount > 0 /\ segCount \in Nat
    BY <1>4, <2>1, <2>2 DEF PollMiddle, SegmentOK, IInv, NextInv, TypeOK, LoopType
  <2> QED
    BY <1>4, <2>3 DEF PollMiddle, Oldest
<1>5. CASE GetReceivedFrame \/ PbufAlloc \/ CopyBuffer
  BY <1>5 DEF GetReceivedFrame, PbufAlloc, CopyBuffer, Oldest, IInv, PositionInv
<1>6. CASE ReleaseDone
  <2>1. Off(Oldest, toGet) = 0 /\ pc' # "release" /\ segCount' = 0 /\ toGet' = toGet
    BY <1>6 DEF ReleaseDone, IInv, TypeOK, LoopType, PositionInv, Kept
  <2> QED
    BY <2>1, OffType, Positions DEF Oldest
<1>7. CASE ClearRbus \/ PollDemand \/ Input
  BY <1>7 DEF ClearRbus, PollDemand, Input, Oldest
<1>8. CASE UNCHANGED vars
  BY <1>8 DEF vars, cpuVars, Oldest
<1> QED
  BY <1>1, <1>2, <1>3, <1>4, <1>5, <1>6, <1>7, <1>8
     DEF Next, Cpu, Poll, LowLevelInput

\* The FIFO behind its head.
LEMMA FifoTail ==
  ASSUME IInv, fifo # << >>
  PROVE  /\ Len(fifo) >= 1 /\ Len(Tail(fifo)) = Len(fifo) - 1
         /\ Head(fifo) = fifo[1] /\ Head(fifo).id \in Nat
         /\ \A i \in 1 .. Len(fifo) - 1 : Tail(fifo)[i] = fifo[i + 1]
<1>1. /\ Len(Tail(fifo)) = Len(fifo) - 1
      /\ \A i \in 1 .. Len(Tail(fifo)) : Tail(fifo)[i] = fifo[i + 1]
  BY HeadTailProperties DEF IInv, TypeOK, FifoType
<1>2. Len(fifo) >= 1 /\ Head(fifo) = fifo[1]
  BY EmptySeq, LenProperties DEF IInv, TypeOK, FifoType
<1> QED
  BY <1>1, <1>2, IdTypes

\* A frame offered goes behind the others, or is lost at once.
LEMMA ArrivesInFifo ==
  ASSUME IInv, NEW n \in 1 .. MaxSegs, FrameArrives(n)
  PROVE  \/ fifo' = fifo
         \/ /\ Len(fifo') = Len(fifo) + 1
            /\ \A i \in 1 .. Len(fifo) : fifo'[i] = fifo[i]
            /\ fifo'[Len(fifo) + 1].id = offered + 1
<1>1. [id |-> offered + 1, segs |-> n] \in Frame
  BY IdTypes DEF Frame
<1>2. CASE fifo' = Append(fifo, [id |-> offered + 1, segs |-> n])
  <2>1. /\ Len(fifo') = Len(fifo) + 1
        /\ \A i \in 1 .. Len(fifo) : fifo'[i] = fifo[i]
        /\ fifo'[Len(fifo) + 1] = [id |-> offered + 1, segs |-> n]
    BY <1>1, <1>2, AppendProperties DEF IInv, TypeOK, FifoType
  <2> QED
    BY <2>1
<1> QED
  BY <1>2 DEF FrameArrives

\* An arrival offers a frame to the service.
LEMMA ArrivesServes ==
  ASSUME IInv, NEW n \in 1 .. MaxSegs, FrameArrives(n)
  PROVE  ServiceStep
<1>1. /\ offered' = offered + 1
      /\ UNCHANGED <<own, buf, pbuf, out>>
  BY DEF FrameArrives, cpuVars
<1>2. Pending' = Pending \/ Pending' = Pending \cup {offered + 1}
  <2>1. CASE fifo' = fifo
    BY <1>1, <2>1 DEF Pending
  <2>2. CASE /\ Len(fifo') = Len(fifo) + 1
             /\ \A i \in 1 .. Len(fifo) : fifo'[i] = fifo[i]
             /\ fifo'[Len(fifo) + 1].id = offered + 1
    <3>1. \A g : (\E i \in 1 .. Len(fifo') : g = fifo'[i].id)
                    <=> (\E i \in 1 .. Len(fifo) : g = fifo[i].id) \/ g = offered + 1
      BY <2>2, IdTypes
    <3>2. ASSUME NEW g PROVE g \in Pending' <=> g \in Pending \/ g = offered + 1
      <4>1. /\ (\E d \in Desc : own'[d] = "cpu" /\ g = buf'[d][1])
                 <=> (\E d \in Desc : own[d] = "cpu" /\ g = buf[d][1])
            /\ (\E i \in 1 .. Len(pbuf') : g = pbuf'[i][1])
                 <=> (\E i \in 1 .. Len(pbuf) : g = pbuf[i][1])
        BY <1>1
      <4> QED
        BY <3>1, <4>1, PendingAre, PendingAreNext
    <3> QED
      BY <3>2
  <2> QED
    BY <2>1, <2>2, ArrivesInFifo
<1> QED
  BY <1>1, <1>2 DEF ServiceStep, Service!Next, Service!Offer

\* A frame flushed from the FIFO is lost.
LEMMA DmaRetryServes ==
  ASSUME IInv, DmaRetry
  PROVE  ServiceStep
<1>1. UNCHANGED <<own, buf, pbuf, out, offered>>
  BY DEF DmaRetry, cpuVars
<1>2. CASE fifo' = fifo
  BY <1>1, <1>2, Hidden
<1>3. CASE fifo' = Tail(fifo)
  <2>1. fifo # << >>
    BY DEF DmaRetry, IInv, EngineInv
  <2>2. \A g : (\E i \in 1 .. Len(fifo) : g = fifo[i].id)
                  <=> (\E i \in 1 .. Len(fifo') : g = fifo'[i].id) \/ g = Head(fifo).id
    <3> SUFFICES ASSUME NEW g
                 PROVE  (\E i \in 1 .. Len(fifo) : g = fifo[i].id)
                          <=> (\E i \in 1 .. Len(fifo') : g = fifo'[i].id) \/ g = Head(fifo).id
      OBVIOUS
    <3>1. ASSUME NEW i \in 1 .. Len(fifo), g = fifo[i].id
          PROVE  (\E j \in 1 .. Len(fifo') : g = fifo'[j].id) \/ g = Head(fifo).id
      <4>1. CASE i = 1
        BY <2>1, <3>1, <4>1, FifoTail
      <4>2. CASE i # 1
        <5>1. i - 1 \in 1 .. Len(fifo) - 1 /\ (i - 1) + 1 = i
          BY <4>2, IdTypes
        <5>2. i - 1 \in 1 .. Len(fifo') /\ fifo'[i - 1] = fifo[i]
          BY <1>3, <2>1, <5>1, FifoTail
        <5> QED
          BY <3>1, <5>2
      <4> QED
        BY <4>1, <4>2
    <3>2. ASSUME NEW i \in 1 .. Len(fifo'), g = fifo'[i].id
          PROVE  \E j \in 1 .. Len(fifo) : g = fifo[j].id
      <4>1. i + 1 \in 1 .. Len(fifo) /\ fifo'[i] = fifo[i + 1]
        BY <1>3, <2>1, FifoTail, IdTypes
      <4> QED
        BY <3>2, <4>1
    <3>3. 1 \in 1 .. Len(fifo) /\ Head(fifo).id = fifo[1].id
      BY <2>1, FifoTail, IdTypes
    <3> QED
      BY <3>1, <3>2, <3>3
  <2>3. Head(fifo).id \in Pending
    BY <2>2, PendingAre
  <2>4. \A g : g \in Pending <=> g \in Pending' \/ g = Head(fifo).id
    BY <1>1, <2>2, PendingAre, PendingAreNext
  <2>5. Pending' \in {Pending, Pending \ {Head(fifo).id}}
    BY <2>4
  <2> QED
    BY <1>1, <2>3, <2>5, Lost
<1> QED
  BY <1>2, <1>3 DEF DmaRetry

\* Storing a segment, and closing a descriptor over it, loses nothing.
LEMMA DmaWriteServes ==
  ASSUME IInv, DmaWrite
  PROVE  ServiceStep
<1>1. /\ UNCHANGED <<own, fifo, pbuf, out, offered>> /\ own[dmaDesc] = "dma"
      /\ \A d \in Desc : d # dmaDesc => buf'[d] = buf[d]
  BY DEF DmaWrite, cpuVars, IInv, TypeOK, RingType, EngineInv
<1>2. \A g : g \in Pending' <=> g \in Pending
  BY <1>1, PendingAre, PendingAreNext
<1> QED
  BY <1>1, <1>2 DEF ServiceStep

LEMMA DmaCloseServes ==
  ASSUME IInv, DmaClose
  PROVE  ServiceStep
<1>1. /\ UNCHANGED <<buf, pbuf, out, offered>>
      /\ own[dmaDesc] = "dma" /\ fifo # << >> /\ buf[dmaDesc][1] = Head(fifo).id
      /\ \A d \in Desc : own'[d] = IF d = dmaDesc THEN "cpu" ELSE own[d]
      /\ fifo' \in {fifo, Tail(fifo)}
  BY DEF DmaClose, cpuVars, IInv, TypeOK, RingType, EngineInv
<1>2. dmaDesc \in Desc
  BY Positions
<1>3. Head(fifo) = fifo[1] /\ 1 \in 1 .. Len(fifo)
  BY <1>1, FifoTail, IdTypes
<1>4. \A i \in 1 .. Len(fifo') : \E j \in 1 .. Len(fifo) : fifo'[i] = fifo[j]
  <2>1. CASE fifo' = fifo
    BY <2>1
  <2>2. CASE fifo' = Tail(fifo)
    <3>1. \A i \in 1 .. Len(fifo') : i + 1 \in 1 .. Len(fifo) /\ fifo'[i] = fifo[i + 1]
      BY <1>1, <2>2, FifoTail, IdTypes
    <3> QED
      BY <3>1
  <2> QED
    BY <1>1, <2>1, <2>2
<1>5. \A i \in 1 .. Len(fifo) : i = 1 \/ \E j \in 1 .. Len(fifo') : fifo[i] = fifo'[j]
  <2>1. CASE fifo' = fifo
    BY <2>1
  <2>2. CASE fifo' = Tail(fifo)
    <3>1. \A i \in 1 .. Len(fifo) : i # 1 =>
             i - 1 \in 1 .. Len(fifo') /\ fifo'[i - 1] = fifo[i]
      <4> SUFFICES ASSUME NEW i \in 1 .. Len(fifo), i # 1
                   PROVE  i - 1 \in 1 .. Len(fifo') /\ fifo'[i - 1] = fifo[i]
        OBVIOUS
      <4>1. i - 1 \in 1 .. Len(fifo) - 1 /\ (i - 1) + 1 = i
        BY IdTypes
      <4> QED
        BY <1>1, <2>2, <4>1, FifoTail
    <3> QED
      BY <3>1
  <2> QED
    BY <1>1, <2>1, <2>2
<1>6. ASSUME NEW g PROVE g \in Pending' <=> g \in Pending
  <2>1. (\E i \in 1 .. Len(pbuf') : g = pbuf'[i][1])
           <=> (\E i \in 1 .. Len(pbuf) : g = pbuf[i][1])
    BY <1>1
  <2>2. (\E d \in Desc : own'[d] = "cpu" /\ g = buf'[d][1])
           <=> (\E d \in Desc : own[d] = "cpu" /\ g = buf[d][1]) \/ g = fifo[1].id
    BY <1>1, <1>2, <1>3
  <2>3. (\E i \in 1 .. Len(fifo) : g = fifo[i].id)
           <=> (\E i \in 1 .. Len(fifo') : g = fifo'[i].id) \/ g = fifo[1].id
    BY <1>3, <1>4, <1>5
  <2> QED
    BY <2>1, <2>2, <2>3, PendingAre, PendingAreNext
<1> QED
  BY <1>1, <1>6 DEF ServiceStep

\* The copy reads a buffer of the CPU's, so that its frame is pending already.
LEMMA CopyBufferServes ==
  ASSUME IInv, CopyBuffer
  PROVE  ServiceStep
<1>1. /\ UNCHANGED <<own, buf, fifo, out, offered>>
      /\ pbuf' = Append(pbuf, buf[cursor]) /\ pc = "copy"
  BY DEF CopyBuffer, dmaVars
<1>2. own[cursor] = "cpu" /\ cursor \in Desc
  BY <1>1, HeldByCpu, Positions DEF CpuTouchesOwnDescriptors
<1>3. /\ Len(pbuf') = Len(pbuf) + 1
      /\ \A i \in 1 .. Len(pbuf) : pbuf'[i] = pbuf[i]
      /\ pbuf'[Len(pbuf) + 1] = buf[cursor]
  BY <1>1, <1>2, AppendProperties DEF IInv, TypeOK, RingType, PbufType
<1>4. ASSUME NEW g PROVE g \in Pending' <=> g \in Pending
  <2>1. (\E i \in 1 .. Len(pbuf') : g = pbuf'[i][1])
           <=> (\E i \in 1 .. Len(pbuf) : g = pbuf[i][1]) \/ g = buf[cursor][1]
    BY <1>3, IdTypes
  <2>2. g = buf[cursor][1] => \E d \in Desc : own[d] = "cpu" /\ g = buf[d][1]
    BY <1>2
  <2>3. /\ (\E d \in Desc : own'[d] = "cpu" /\ g = buf'[d][1])
             <=> (\E d \in Desc : own[d] = "cpu" /\ g = buf[d][1])
        /\ (\E i \in 1 .. Len(fifo') : g = fifo'[i].id)
             <=> (\E i \in 1 .. Len(fifo) : g = fifo[i].id)
    BY <1>1
  <2> QED
    BY <2>1, <2>2, <2>3, PendingAre, PendingAreNext
<1> QED
  BY <1>1, <1>4 DEF ServiceStep

\* A descriptor given back loses its frame if nothing else of it is left.
LEMMA ReleaseServes ==
  ASSUME IInv, ReleaseDescriptor
  PROVE  ServiceStep
<1>1. /\ UNCHANGED <<buf, fifo, pbuf, out, offered>>
      /\ pc = "release" /\ released < segCount
      /\ own' = [own EXCEPT ![cursor] = "dma"]
  BY DEF ReleaseDescriptor, dmaVars
<1>2. own[cursor] = "cpu" /\ cursor \in Desc
  BY <1>1, HeldByCpu, Positions DEF CpuTouchesOwnDescriptors
<1>3. \A d \in Desc : own'[d] = IF d = cursor THEN "dma" ELSE own[d]
  BY <1>1, <1>2 DEF IInv, TypeOK, RingType
<1>4. ASSUME NEW g PROVE g \in Pending <=> g \in Pending' \/ g = buf[cursor][1]
  <2>1. (\E d \in Desc : own[d] = "cpu" /\ g = buf[d][1])
          <=> (\E d \in Desc : own'[d] = "cpu" /\ g = buf'[d][1]) \/ g = buf[cursor][1]
    BY <1>1, <1>2, <1>3
  <2>2. /\ (\E i \in 1 .. Len(pbuf') : g = pbuf'[i][1])
             <=> (\E i \in 1 .. Len(pbuf) : g = pbuf[i][1])
        /\ (\E i \in 1 .. Len(fifo') : g = fifo'[i].id)
             <=> (\E i \in 1 .. Len(fifo) : g = fifo[i].id)
    BY <1>1
  <2> QED
    BY <2>1, <2>2, PendingAre, PendingAreNext
<1>5. buf[cursor][1] \in Pending /\ Pending' \in {Pending, Pending \ {buf[cursor][1]}}
  BY <1>4
<1> QED
  BY <1>1, <1>5, Lost

LEMMA PendingNat ==
  ASSUME IInv
  PROVE  Pending \subseteq Nat
<1>1. \A i \in 1 .. Len(pbuf) : pbuf[i][1] \in Nat
  BY ElementOfSeq DEF IInv, TypeOK, PbufType, Segment
<1> QED
  BY <1>1, IdTypes, PendingAre

\* What netif->input() is given is the oldest frame pending, and all of it
\* that is pending.
LEMMA InputServes ==
  ASSUME IInv, OrderInv, Input
  PROVE  ServiceStep
<1>1. /\ UNCHANGED <<own, buf, fifo, offered>> /\ pc = "input"
      /\ pbuf' = << >> /\ out' = IF pbuf = << >> THEN out ELSE pbuf
  BY DEF Input, dmaVars
<1>2. CASE pbuf = << >>
  BY <1>1, <1>2, Hidden
<1>3. CASE pbuf # << >>
  <2> DEFINE f == pbuf[1][1]
  <2>1. /\ pbuf \in Seq(Segment) /\ Len(pbuf) \in 1 .. MaxSegs
        /\ pbuf[1] \in Segment /\ f \in Nat
    <3>1. pbuf \in Seq(Segment) /\ Len(pbuf) <= MaxSegs /\ Len(pbuf) \in Nat
      BY IdTypes DEF IInv, TypeOK, PbufType
    <3>2. Len(pbuf) >= 1
      BY <1>3, <3>1, EmptySeq
    <3>3. pbuf[1] \in Segment
      BY <3>1, <3>2, ElementOfSeq
    <3> QED
      BY <3>1, <3>2, <3>3, Positions DEF Segment
  <2>2. /\ \A s \in 1 .. Len(pbuf) : pbuf[s] = <<f, s>>
        /\ \A d \in Desc : own[d] = "cpu" => f < buf[d][1]
        /\ \A i \in 1 .. Len(fifo) : f < fifo[i].id
    <3>1. Kept = 0
      BY <1>1 DEF IInv, PositionInv, Kept
    <3>2. \A d \in Desc : Off(Oldest, d) >= Kept
      BY <3>1, OffType, Positions
    <3> QED
      BY <1>1, <1>3, <3>2 DEF OrderInv, DeliverInv, After
  <2>3. ASSUME NEW g PROVE g \in Pending <=> g \in Pending' \/ g = f
    <3>1. (\E i \in 1 .. Len(pbuf) : g = pbuf[i][1]) <=> g = f
      BY <2>1, <2>2
    <3>2. ~\E i \in 1 .. Len(pbuf') : g = pbuf'[i][1]
      BY <1>1
    <3>3. /\ (\E d \in Desc : own'[d] = "cpu" /\ g = buf'[d][1])
               <=> (\E d \in Desc : own[d] = "cpu" /\ g = buf[d][1])
          /\ (\E i \in 1 .. Len(fifo') : g = fifo'[i].id)
               <=> (\E i \in 1 .. Len(fifo) : g = fifo[i].id)
      BY <1>1
    <3> QED
      BY <3>1, <3>2, <3>3, PendingAre, PendingAreNext
  <2>4. ASSUME NEW g \in Pending' PROVE f < g
    <3>1. CASE \E i \in 1 .. Len(fifo') : g = fifo'[i].id
      BY <1>1, <2>2, <3>1
    <3>2. CASE \E d \in Desc : own'[d] = "cpu" /\ g = buf'[d][1]
      BY <1>1, <2>2, <3>2
    <3>3. ~\E i \in 1 .. Len(pbuf') : g = pbuf'[i][1]
      BY <1>1
    <3> QED
      BY <3>1, <3>2, <3>3, PendingAreNext
  <2>5. f \in Pending /\ Pending' = Pending \ {f} /\ \A g \in Pending : f <= g
    <3>1. f \in Nat
      BY <2>1
    <3> HIDE DEF f
    <3>2. f \notin Pending'
      BY <2>4, <3>1
    <3>3. \A g \in Pending : f <= g
      BY <2>3, <2>4, <3>1, PendingNat
    <3> QED
      BY <2>3, <3>2, <3>3
  <2>6. pbuf = [s \in 1 .. Len(pbuf) |-> <<f, s>>]
    <3>1. pbuf = [s \in 1 .. Len(pbuf) |-> pbuf[s]]
      BY <2>1
    <3> HIDE DEF f
    <3> QED
      BY <2>2, <3>1
  <2> HIDE DEF f
  <2>7. out' = [s \in 1 .. Len(pbuf) |-> <<f, s>>] /\ offered' = offered
    BY <1>1, <1>3, <2>6
  <2>8. Service!Deliver
    BY <2>1, <2>5, <2>7 DEF Service!Deliver
  <2> QED
    BY <2>8 DEF ServiceStep, Service!Next
<1> QED
  BY <1>2, <1>3

\* Every step of the ring is one of the service, or none.
LEMMA ServiceStepHolds ==
  ASSUME IInv, OrderInv, [Next]_vars
  PROVE  ServiceStep
<1>1. CASE DmaFetch \/ DmaSuspend
  BY <1>1, Hidden DEF DmaFetch, DmaSuspend, cpuVars
<1>2. CASE Poll
  BY <1>2, Hidden DEF Poll, PollLast, PollFirst, PollMiddle, dmaVars
<1>3. CASE \/ GetReceivedFrame \/ PbufAlloc \/ ReleaseDone \/ ClearRbus
           \/ PollDemand \/ UNCHANGED vars
  BY <1>3, Hidden DEF GetReceivedFrame, PbufAlloc, ReleaseDone, ClearRbus, PollDemand,
     vars, dmaVars, cpuVars
<1> QED
  BY <1>1, <1>2, <1>3, ArrivesServes, DmaRetryServes, DmaWriteServes, DmaCloseServes,
     CopyBufferServes, ReleaseServes, InputServes
     DEF Next, Dma, Cpu, LowLevelInput

\* Only an arrival brings a frame, and that one is new.
LEMMA FreshStep ==
  ASSUME IInv, OrderInv, [Next]_vars
  PROVE  FreshInv'
<1>1. Pending \subseteq Nat
  BY PendingNat
<1>2. \/ offered' = offered /\ Pending' \subseteq Pending
      \/ offered' = offered + 1 /\ Pending' \subseteq Pending \cup {offered + 1}
  BY ServiceStepHolds DEF ServiceStep, Service!Next, Service!Offer, Service!Lose, Service!Deliver
<1> QED
  BY <1>1, <1>2, StaysFresh DEF OrderInv

\* A segment the CPU owns after a step was there before, unless the engine
\* has just closed it.
LEMMA OldSegments ==
  ASSUME IInv, [Next]_vars, NEW d \in Desc, own'[d] = "cpu"
  PROVE  \/ own[d] = "cpu" /\ buf'[d] = buf[d] /\ status'[d] = status[d]
         \/ DmaClose /\ d = dmaDesc
<1>0. own \in [Desc -> {"dma", "cpu"}]
  BY DEF IInv, TypeOK, RingType
<1>1. CASE DmaWrite
  <2>1. d # dmaDesc
    BY <1>1 DEF DmaWrite, IInv, EngineInv
  <2> QED
    BY <1>1, <2>1 DEF DmaWrite, IInv, TypeOK, RingType
<1>2. CASE DmaClose
  BY <1>2 DEF DmaClose, IInv, TypeOK, RingType
<1>3. CASE ReleaseDescriptor
  BY <1>3 DEF ReleaseDescriptor, IInv, TypeOK, RingType
<1>4. CASE \/ \E n \in 1 .. MaxSegs : FrameArrives(n)
           \/ DmaFetch \/ DmaSuspend \/ DmaRetry
  BY <1>4 DEF FrameArrives, DmaFetch, DmaSuspend, DmaRetry
<1>5. CASE Poll
  BY <1>5 DEF Poll, PollLast, PollFirst, PollMiddle
<1>6. CASE \/ GetReceivedFrame \/ PbufAlloc \/ CopyBuffer \/ ReleaseDone
           \/ ClearRbus \/ PollDemand \/ Input \/ UNCHANGED vars
  BY <1>6 DEF GetReceivedFrame, PbufAlloc, CopyBuffer, ReleaseDone, ClearRbus,
     PollDemand, Input, vars
<1> QED
  BY <1>1, <1>2, <1>3, <1>4, <1>5, <1>6 DEF Next, Dma, Cpu, LowLevelInput

\* A step turns the ring by one descriptor or not at all.
LEMMA OldPositions ==
  ASSUME IInv, [Next]_vars, NEW d \in Desc, own'[d] = "cpu"
  PROVE  \/ Oldest' = Oldest /\ ~ReleaseDescriptor
         \/ /\ ReleaseDescriptor /\ d # Oldest
            /\ Off(Oldest', d) = Off(Oldest, d) - 1
<1>1. CASE ReleaseDescriptor
  <2>1. Oldest = cursor /\ Oldest' = NextDesc(cursor) /\ cursor \in Desc
    BY <1>1, Positions DEF ReleaseDescriptor, Oldest
  <2>2. own'[cursor] = "dma"
    BY <1>1, <2>1 DEF ReleaseDescriptor, IInv, TypeOK, RingType
  <2>3. d # Oldest
    BY <2>1, <2>2
  <2> QED
    BY <1>1, <2>1, <2>3, OffShift
<1> QED
  BY <1>1, OldestStays

\* What the FIFO holds after a step was there before or has just arrived.
LEMMA OldFrames ==
  ASSUME IInv, [Next]_vars, NEW i \in 1 .. Len(fifo')
  PROVE  \/ \E j \in 1 .. Len(fifo) : fifo'[i] = fifo[j]
         \/ fifo'[i].id = offered + 1
<1>1. CASE \E n \in 1 .. MaxSegs : FrameArrives(n)
  <2>1. PICK n \in 1 .. MaxSegs : FrameArrives(n)
    BY <1>1
  <2>2. CASE fifo' = fifo
    BY <2>2
  <2>3. CASE /\ Len(fifo') = Len(fifo) + 1
             /\ \A k \in 1 .. Len(fifo) : fifo'[k] = fifo[k]
             /\ fifo'[Len(fifo) + 1].id = offered + 1
    <3>1. i \in 1 .. Len(fifo) \/ i = Len(fifo) + 1
      BY <2>3, IdTypes
    <3> QED
      BY <2>3, <3>1
  <2> QED
    BY <2>1, <2>2, <2>3, ArrivesInFifo
<1>2. CASE fifo' = fifo
  BY <1>2
<1>3. CASE fifo' = Tail(fifo) /\ fifo # << >>
  <2>1. i + 1 \in 1 .. Len(fifo) /\ fifo'[i] = fifo[i + 1]
    BY <1>3, FifoTail, IdTypes
  <2> QED
    BY <2>1
<1>4. CASE Dma
  BY <1>2, <1>3, <1>4 DEF Dma, DmaFetch, DmaSuspend, DmaRetry, DmaWrite, DmaClose,
     IInv, EngineInv
<1>5. CASE Cpu \/ UNCHANGED vars
  BY <1>2, <1>5 DEF Cpu, Poll, PollLast, PollFirst, PollMiddle, LowLevelInput,
     GetReceivedFrame, PbufAlloc, CopyBuffer, ReleaseDescriptor, ReleaseDone, ClearRbus,
     PollDemand, Input, vars, dmaVars
<1> QED
  BY <1>1, <1>4, <1>5 DEF Next

\* A frame offered no later than now that is older than the whole FIFO, or no
\* younger, stays so.
LEMMA StaysOlder ==
  ASSUME IInv, [Next]_vars, NEW b \in Nat, b <= offered
  PROVE  /\ (\A i \in 1 .. Len(fifo) : b <= fifo[i].id)
              => \A i \in 1 .. Len(fifo') : b <= fifo'[i].id
         /\ (\A i \in 1 .. Len(fifo) : b < fifo[i].id)
              => \A i \in 1 .. Len(fifo') : b < fifo'[i].id
<1>1. offered \in Nat
  BY IdTypes
<1>2. b <= offered + 1 /\ b < offered + 1
  BY <1>1
<1> QED
  BY <1>2, OldFrames

\* Nothing pending is younger than the last frame offered.
LEMMA Fresh ==
  ASSUME FreshInv
  PROVE  /\ \A i \in 1 .. Len(fifo) : fifo[i].id <= offered
         /\ \A d \in Desc : own[d] = "cpu" => buf[d][1] <= offered
         /\ \A i \in 1 .. Len(pbuf) : pbuf[i][1] <= offered
BY PendingAre DEF FreshInv

LEMMA FifoOrderStep ==
  ASSUME IInv, OrderInv, [Next]_vars
  PROVE  FifoOrder'
<1>1. CASE fifo' = fifo
  BY <1>1 DEF OrderInv, FifoOrder
<1>2. CASE fifo' = Tail(fifo) /\ fifo # << >>
  <2> SUFFICES ASSUME NEW i \in 1 .. Len(fifo'), NEW j \in 1 .. Len(fifo'), i < j
               PROVE  fifo'[i].id < fifo'[j].id
    BY DEF FifoOrder
  <2>1. /\ i + 1 \in 1 .. Len(fifo) /\ fifo'[i] = fifo[i + 1]
        /\ j + 1 \in 1 .. Len(fifo) /\ fifo'[j] = fifo[j + 1]
        /\ i + 1 < j + 1
    BY <1>2, FifoTail, IdTypes
  <2> QED
    BY <2>1 DEF OrderInv, FifoOrder
<1>3. CASE \E n \in 1 .. MaxSegs : FrameArrives(n)
  <2>1. CASE /\ Len(fifo') = Len(fifo) + 1
             /\ \A k \in 1 .. Len(fifo) : fifo'[k] = fifo[k]
             /\ fifo'[Len(fifo) + 1].id = offered + 1
    <3> SUFFICES ASSUME NEW i \in 1 .. Len(fifo'), NEW j \in 1 .. Len(fifo'), i < j
                 PROVE  fifo'[i].id < fifo'[j].id
      BY DEF FifoOrder
    <3>1. i \in 1 .. Len(fifo) /\ fifo'[i] = fifo[i]
      BY <2>1, IdTypes
    <3>2. CASE j \in 1 .. Len(fifo)
      BY <2>1, <3>1, <3>2 DEF OrderInv, FifoOrder
    <3>3. CASE j = Len(fifo) + 1
      BY <2>1, <3>1, <3>3, Fresh, IdTypes DEF OrderInv
    <3> QED
      BY <2>1, <3>2, <3>3, IdTypes
  <2> QED
    BY <1>1, <1>3, <2>1, ArrivesInFifo
<1>4. CASE Dma
  BY <1>1, <1>2, <1>4 DEF Dma, DmaFetch, DmaSuspend, DmaRetry, DmaWrite, DmaClose,
     IInv, EngineInv
<1>5. CASE Cpu \/ UNCHANGED vars
  BY <1>1, <1>5 DEF Cpu, Poll, PollLast, PollFirst, PollMiddle, LowLevelInput,
     GetReceivedFrame, PbufAlloc, CopyBuffer, ReleaseDescriptor, ReleaseDone, ClearRbus,
     PollDemand, Input, vars, dmaVars
<1> QED
  BY <1>3, <1>4, <1>5 DEF Next

\* The step that closes a descriptor puts a segment of the head behind the
\* others, and lets go of the head only with its last one.
LEMMA Closed ==
  ASSUME IInv, DmaClose
  PROVE  /\ Oldest' = Oldest /\ dmaDesc \in Desc /\ own[dmaDesc] = "dma"
         /\ 1 \in 1 .. Len(fifo)
         /\ buf' = buf /\ buf[dmaDesc][1] = fifo[1].id
         /\ \A d \in Desc : own[d] = "cpu" => Off(Oldest, d) < Off(Oldest, dmaDesc)
         /\ \/ ~status'[dmaDesc].ls /\ fifo' = fifo
            \/ fifo' = Tail(fifo) /\ fifo # << >>
<1>1. /\ own[dmaDesc] = "dma" /\ fifo # << >> /\ buf[dmaDesc][1] = Head(fifo).id
      /\ buf' = buf /\ dmaDesc \in Desc
  BY Positions DEF DmaClose, IInv, EngineInv
<1>2. \A d \in Desc : own[d] = "cpu" => Off(Oldest, d) < Off(Oldest, dmaDesc)
  BY <1>1 DEF IInv, OwnInv, Filled
<1>3. 1 \in 1 .. Len(fifo) /\ Head(fifo) = fifo[1]
  BY <1>1, FifoTail, IdTypes
<1>4. (~status'[dmaDesc].ls /\ fifo' = fifo) \/ fifo' = Tail(fifo)
  <2> DEFINE whole == dmaSeg + 1 = Head(fifo).segs
             cut   == ~whole /\ own[NextDesc(dmaDesc)] = "cpu"
  <2>1. PICK l \in Lengths(dmaSeg + 1) :
          status' = [status EXCEPT ![dmaDesc] = [fs |-> dmaSeg = 0, ls |-> whole \/ cut, len |-> l]]
    BY DEF DmaClose
  <2>2. fifo' = IF whole \/ cut THEN Tail(fifo) ELSE fifo
    BY DEF DmaClose
  <2> HIDE DEF whole, cut
  <2>3. status'[dmaDesc].ls <=> whole \/ cut
    BY <1>1, <2>1 DEF IInv, TypeOK, RingType
  <2> QED
    BY <2>2, <2>3
<1>5. Oldest' = Oldest
  BY DEF DmaClose, cpuVars, Oldest
<1> QED
  BY <1>1, <1>2, <1>3, <1>4, <1>5

LEMMA ChainOrderStep ==
  ASSUME IInv, OrderInv, [Next]_vars
  PROVE  ChainOrder'
<1>f. FreshInv /\ FifoOrder /\ ChainOrder
  BY DEF OrderInv
<1> SUFFICES ASSUME NEW d \in Desc, own'[d] = "cpu"
             PROVE  /\ \A e \in Desc : own'[e] = "cpu" /\ Off(Oldest', d) < Off(Oldest', e) =>
                          /\ buf'[d][1] <= buf'[e][1]
                          /\ status'[d].ls => buf'[d][1] < buf'[e][1]
                    /\ \A i \in 1 .. Len(fifo') :
                          /\ buf'[d][1] <= fifo'[i].id
                          /\ status'[d].ls => buf'[d][1] < fifo'[i].id
  BY DEF ChainOrder
<1>1. CASE DmaClose /\ d = dmaDesc
  <2>1. ASSUME NEW e \in Desc, own'[e] = "cpu", Off(Oldest', d) < Off(Oldest', e)
        PROVE  FALSE
    <3>1. e = dmaDesc \/ own[e] = "cpu"
      BY <2>1, OldSegments
    <3>2. Off(Oldest, d) < Off(Oldest, e)
      BY <1>1, <2>1, Closed
    <3>3. e = d \/ Off(Oldest, e) < Off(Oldest, d)
      BY <1>1, <3>1, Closed
    <3>4. Off(Oldest, d) \in Int /\ Off(Oldest, e) \in Int
      BY OffType, Positions
    <3> QED
      BY <3>2, <3>3, <3>4
  <2>2. ASSUME NEW i \in 1 .. Len(fifo')
        PROVE  /\ buf'[d][1] <= fifo'[i].id
               /\ status'[d].ls => buf'[d][1] < fifo'[i].id
    <3>1. buf'[d][1] = fifo[1].id /\ 1 \in 1 .. Len(fifo)
      BY <1>1, Closed
    <3>2. CASE fifo' = fifo /\ ~status'[d].ls
      <4>1. i = 1 \/ fifo[1].id < fifo[i].id
        BY <1>f, <3>1, <3>2 DEF FifoOrder
      <4> QED
        BY <3>1, <3>2, <4>1, IdTypes
    <3>3. CASE fifo' = Tail(fifo) /\ fifo # << >>
      <4>1. i + 1 \in 1 .. Len(fifo) /\ fifo'[i] = fifo[i + 1] /\ 1 < i + 1
        BY <3>3, FifoTail, IdTypes
      <4>2. fifo[1].id < fifo[i + 1].id
        BY <1>f, <3>1, <4>1 DEF FifoOrder
      <4> QED
        BY <3>1, <4>1, <4>2, IdTypes
    <3> QED
      BY <1>1, <3>2, <3>3, Closed
  <2> QED
    BY <2>1, <2>2
<1>2. CASE own[d] = "cpu" /\ buf'[d] = buf[d] /\ status'[d] = status[d]
  <2>1. ASSUME NEW e \in Desc, own'[e] = "cpu", Off(Oldest', d) < Off(Oldest', e)
        PROVE  /\ buf'[d][1] <= buf'[e][1]
               /\ status'[d].ls => buf'[d][1] < buf'[e][1]
    <3>1. CASE DmaClose /\ e = dmaDesc
      BY <1>2, <1>f, <3>1, Closed DEF ChainOrder
    <3>2. CASE own[e] = "cpu" /\ buf'[e] = buf[e]
      <4>1. Off(Oldest, d) < Off(Oldest, e)
        BY <2>1, OldPositions, OffType, Positions
      <4> QED
        BY <1>2, <1>f, <3>2, <4>1 DEF ChainOrder
    <3> QED
      BY <2>1, <3>1, <3>2, OldSegments
  <2>2. buf[d][1] \in Nat /\ buf[d][1] <= offered
    BY <1>2, <1>f, Fresh, IdTypes
  <2>3. /\ \A i \in 1 .. Len(fifo) : buf[d][1] <= fifo[i].id
        /\ status[d].ls => \A i \in 1 .. Len(fifo) : buf[d][1] < fifo[i].id
    BY <1>2, <1>f DEF ChainOrder
  <2>4. /\ \A i \in 1 .. Len(fifo') : buf[d][1] <= fifo'[i].id
        /\ status[d].ls => \A i \in 1 .. Len(fifo') : buf[d][1] < fifo'[i].id
    BY <2>2, <2>3, StaysOlder
  <2> QED
    BY <1>2, <2>1, <2>4
<1> QED
  BY <1>1, <1>2, OldSegments

\* ETH_Get_Received_Frame is only called on a last segment, and what the loop
\* has counted stays the CPU's until the loop gives it back.
LEMMA LastInvStep ==
  ASSUME IInv, OrderInv, [Next]_vars
  PROVE  LastInv'
<1> SUFFICES ASSUME pc' \in {"alloc", "copy"},
                    NEW d \in Desc, Off(Oldest', d) + 1 = segCount'
             PROVE  status'[d].ls
  BY DEF LastInv
<1>1. CASE GetReceivedFrame
  <2>1. /\ UNCHANGED <<status, segCount>> /\ Oldest' = Oldest
        /\ Off(Oldest, toGet) = segCount - 1 /\ status[toGet].ls
    BY <1>1, OldestStays DEF GetReceivedFrame, ReleaseDescriptor, IInv, PositionInv, Kept
  <2>2. Off(Oldest, d) = segCount - 1
    BY <2>1, OffType, Positions
  <2>3. d = toGet
    BY <2>1, <2>2, OffType, Positions
  <2> QED
    BY <2>1, <2>3
<1>2. CASE pc \in {"alloc", "copy"}
  <2>1. segCount' = segCount /\ ~ReleaseDescriptor /\ (DmaClose \/ UNCHANGED status)
    BY <1>2 DEF Next, FrameArrives, Dma, DmaFetch, DmaSuspend, DmaRetry, DmaWrite, DmaClose,
       Cpu, Poll, PollLast, PollFirst, PollMiddle, LowLevelInput, GetReceivedFrame,
       PbufAlloc, CopyBuffer, ReleaseDescriptor, ReleaseDone, ClearRbus, PollDemand, Input,
       vars, dmaVars, cpuVars
  <2>2. Oldest' = Oldest
    BY <2>1, OldestStays
  <2>3. status[d].ls
    BY <1>2, <2>1, <2>2 DEF OrderInv, LastInv
  <2>4. CASE DmaClose
    <3>1. Kept = segCount /\ Kept <= Filled
      BY <1>2 DEF IInv, PositionInv, Kept
    <3>2. own[d] = "cpu"
      <4>1. Off(Oldest, d) < Filled
        BY <2>1, <2>2, <3>1, OffType, Positions
      <4> QED
        BY <4>1 DEF IInv, OwnInv
    <3>3. d # dmaDesc /\ own'[d] = "cpu"
      BY <2>4, <3>2, Closed DEF DmaClose, IInv, TypeOK, RingType
    <3> QED
      BY <2>3, <3>3, OldSegments
  <2> QED
    BY <2>1, <2>3, <2>4
<1>3. CASE pc \notin {"alloc", "copy"} /\ ~GetReceivedFrame
  BY <1>3 DEF Next, FrameArrives, Dma, DmaFetch, DmaSuspend, DmaRetry, DmaWrite, DmaClose,
       Cpu, Poll, PollLast, PollFirst, PollMiddle, LowLevelInput,
       PbufAlloc, CopyBuffer, ReleaseDescriptor, ReleaseDone, ClearRbus, PollDemand, Input,
       vars, dmaVars, cpuVars
<1> QED
  BY <1>1, <1>2, <1>3

\* A copied buffer continues the segments copied so far.
LEMMA CopiedInOrder ==
  ASSUME IInv, OrderInv, CopyBuffer
  PROVE  /\ \A s \in 1 .. Len(pbuf') : pbuf'[s] = <<buf[fsDesc][1], s>>
         /\ Len(pbuf') >= 1
<1>1. /\ pc = "copy" /\ pbuf' = Append(pbuf, buf[cursor])
      /\ \A s \in 1 .. Len(pbuf) : pbuf[s] = <<buf[fsDesc][1], s>>
  BY DEF CopyBuffer, OrderInv, CopyInv
<1>2. /\ Len(pbuf') = Len(pbuf) + 1
      /\ \A i \in 1 .. Len(pbuf) : pbuf'[i] = pbuf[i]
      /\ pbuf'[Len(pbuf) + 1] = buf[cursor]
  BY <1>1, AppendProperties, Positions DEF IInv, TypeOK, RingType, PbufType
<1>3. buf[cursor] = <<buf[fsDesc][1], Len(pbuf) + 1>>
  <2>1. Off(Oldest, cursor) = Len(pbuf) /\ Len(pbuf) < len /\ len \in Lengths(segCount)
        /\ segCount \in 1 .. MaxSegs
    BY <1>1, Positions DEF IInv, PositionInv, TypeOK, LoopType
  <2>2. len \in Nat /\ len <= segCount
    BY <2>1, Positions DEF Lengths
  <2>3. Off(Oldest, cursor) < segCount
    BY <2>1, <2>2, IdTypes
  <2> QED
    BY <1>1, <2>1, <2>3, Positions DEF IInv, ScanInv
<1> QED
  BY <1>1, <1>2, <1>3, IdTypes

\* The frame that is copied is older than everything behind its last segment.
LEMMA CopiedIsOldest ==
  ASSUME IInv, OrderInv, CopyBuffer, [Next]_vars, NEW f, f = buf[fsDesc][1]
  PROVE  After(f)'
<1>1. /\ pc = "copy" /\ UNCHANGED <<own, buf, fifo, fsDesc, segCount, released>>
      /\ pc' \in {"copy", "release"} /\ Oldest' = Oldest
  BY OldestStays DEF CopyBuffer, ReleaseDescriptor, dmaVars
<1>2. /\ segCount \in 1 .. MaxSegs /\ Kept = segCount /\ Kept' = segCount
      /\ Kept <= Filled /\ Oldest = fsDesc
  BY <1>1 DEF IInv, TypeOK, LoopType, PositionInv, Kept, Oldest
<1>3. PICK d \in Desc : Off(Oldest, d) + 1 = segCount
  <2>1. \E d \in Desc : Off(fsDesc, d) + 1 = segCount
    <3> DEFINE d == IF fsDesc + segCount - 1 < N THEN fsDesc + segCount - 1
                    ELSE fsDesc + segCount - 1 - N
    <3>1. d \in Desc /\ Off(fsDesc, d) + 1 = segCount
      BY <1>2, Positions, RingAssumption DEF Desc, Off
    <3> QED
      BY <3>1
  <2> QED
    BY <1>2, <2>1
<1>4. own[d] = "cpu" /\ status[d].ls /\ buf[d][1] = buf[fsDesc][1]
  <2>1. Off(Oldest, d) < segCount /\ Off(Oldest, d) < Filled
    BY <1>2, <1>3, OffType, Positions
  <2>2. buf[d] = <<buf[fsDesc][1], Off(Oldest, d) + 1>>
    BY <1>1, <2>1 DEF IInv, ScanInv
  <2>3. own[d] = "cpu" /\ status[d].ls
    BY <1>1, <1>3, <2>1 DEF IInv, OwnInv, OrderInv, LastInv
  <2> QED
    BY <2>2, <2>3
<1>5. \A e \in Desc : own[e] = "cpu" /\ Off(Oldest, e) >= segCount => buf[d][1] < buf[e][1]
  <2>1. \A e \in Desc : Off(Oldest, e) >= segCount => Off(Oldest, d) < Off(Oldest, e)
    BY <1>2, <1>3, OffType, Positions
  <2> QED
    BY <1>4, <2>1 DEF OrderInv, ChainOrder
<1>6. \A i \in 1 .. Len(fifo) : buf[d][1] < fifo[i].id
  BY <1>4 DEF OrderInv, ChainOrder
<1> QED
  BY <1>1, <1>2, <1>4, <1>5, <1>6 DEF After

\* While the loop gives descriptors back it holds one less with each.
LEMMA KeptStays ==
  ASSUME IInv, [Next]_vars, pc \in {"release", "clear", "resume", "input"}
  PROVE  Kept \in Nat /\ (Kept' = Kept \/ (ReleaseDescriptor /\ Kept' = Kept - 1))
<1>1. Kept \in Nat
  BY Positions
<1>2. ReleaseDescriptor => Kept' = Kept - 1
  BY DEF ReleaseDescriptor, Kept, IInv, TypeOK, LoopType
<1>3. ASSUME ReleaseDone PROVE Kept' = Kept
  BY <1>3 DEF ReleaseDone, Kept, IInv, TypeOK, LoopType
<1>4. ClearRbus \/ PollDemand \/ Input => Kept' = Kept
  BY DEF ClearRbus, PollDemand, Input, Kept
<1>5. (\E n \in 1 .. MaxSegs : FrameArrives(n)) \/ Dma \/ UNCHANGED vars => Kept' = Kept
  BY DEF FrameArrives, Dma, DmaFetch, DmaSuspend, DmaRetry, DmaWrite, DmaClose,
     vars, cpuVars, Kept
<1>6. \/ ReleaseDescriptor \/ ReleaseDone \/ ClearRbus \/ PollDemand \/ Input
      \/ (\E n \in 1 .. MaxSegs : FrameArrives(n)) \/ Dma \/ UNCHANGED vars
  BY DEF Next, Cpu, Poll, PollLast, PollFirst, PollMiddle, LowLevelInput,
     GetReceivedFrame, PbufAlloc, CopyBuffer
<1> QED
  BY <1>1, <1>2, <1>3, <1>4, <1>5, <1>6

\* What is older than everything the loop does not hold stays so.
LEMMA StaysAfter ==
  ASSUME IInv, OrderInv, [Next]_vars, NEW f \in Nat, f <= offered, After(f),
         Kept \in Nat, Kept' = Kept \/ (ReleaseDescriptor /\ Kept' = Kept - 1)
  PROVE  After(f)'
<1>1. \A i \in 1 .. Len(fifo') : f < fifo'[i].id
  BY StaysOlder DEF After
<1>2. ASSUME NEW d \in Desc, own'[d] = "cpu", Off(Oldest', d) >= Kept'
      PROVE  f < buf'[d][1]
  <2>1. CASE DmaClose /\ d = dmaDesc
    BY <2>1, Closed DEF After
  <2>2. CASE own[d] = "cpu" /\ buf'[d] = buf[d]
    <3>1. Off(Oldest, d) \in Int /\ (Off(Oldest', d) = Off(Oldest, d) \/ Off(Oldest', d) = Off(Oldest, d) - 1)
      BY <1>2, OldPositions, OffType, Positions
    <3>2. Off(Oldest, d) >= Kept
      <4>1. CASE Kept' = Kept
        BY <1>2, <3>1, <4>1
      <4>2. CASE ReleaseDescriptor /\ Kept' = Kept - 1
        BY <1>2, <4>2, OldPositions, OffType, Positions
      <4> QED
        BY <4>1, <4>2
    <3> QED
      BY <2>2, <3>2 DEF After
  <2> QED
    BY <1>2, <2>1, <2>2, OldSegments
<1> QED
  BY <1>1, <1>2 DEF After

\* The copy walks the segments of one frame in their order.
LEMMA CopyInvStep ==
  ASSUME IInv, OrderInv, [Next]_vars
  PROVE  CopyInv'
<1> SUFFICES ASSUME pc' = "copy"
             PROVE  \A s \in 1 .. Len(pbuf') : pbuf'[s] = <<buf'[fsDesc'][1], s>>
  BY DEF CopyInv
<1>1. CASE PbufAlloc
  <2>1. pbuf' = << >>
    BY <1>1 DEF PbufAlloc, IInv, PositionInv
  <2> QED
    BY <2>1
<1>2. CASE CopyBuffer
  BY <1>2, CopiedInOrder DEF CopyBuffer
<1>3. CASE pc = "copy" /\ ~CopyBuffer
  <2>1. UNCHANGED <<pbuf, fsDesc>> /\ (DmaWrite \/ UNCHANGED buf)
    BY <1>3 DEF Next, FrameArrives, Dma, DmaFetch, DmaSuspend, DmaRetry, DmaWrite, DmaClose,
       Cpu, Poll, PollLast, PollFirst, PollMiddle, LowLevelInput, GetReceivedFrame,
       PbufAlloc, ReleaseDescriptor, ReleaseDone, ClearRbus, PollDemand, Input,
       vars, dmaVars, cpuVars
  <2>2. \A s \in 1 .. Len(pbuf) : pbuf[s] = <<buf[fsDesc][1], s>>
    BY <1>3 DEF OrderInv, CopyInv
  <2>3. CASE DmaWrite
    <3>1. fsDesc # dmaDesc
      <4>1. Oldest = fsDesc /\ Kept > 0 /\ Kept <= Filled /\ segCount \in Nat
        BY <1>3 DEF IInv, PositionInv, Oldest, Kept, TypeOK, LoopType
      <4>2. own[fsDesc] = "cpu"
        <5>1. Off(Oldest, fsDesc) = 0 /\ 0 < Filled
          BY <4>1, OffType, Positions
        <5> QED
          BY <5>1, Positions DEF IInv, OwnInv
      <4> QED
        BY <2>3, <4>2 DEF DmaWrite, IInv, EngineInv
    <3>2. buf'[fsDesc] = buf[fsDesc]
      BY <2>3, <3>1, Positions DEF DmaWrite, IInv, TypeOK, RingType
    <3> QED
      BY <2>1, <2>2, <3>2
  <2> QED
    BY <2>1, <2>2, <2>3
<1>4. CASE pc # "copy" /\ ~PbufAlloc
  BY <1>4 DEF Next, FrameArrives, Dma, DmaFetch, DmaSuspend, DmaRetry, DmaWrite, DmaClose,
       Cpu, Poll, PollLast, PollFirst, PollMiddle, LowLevelInput, GetReceivedFrame,
       CopyBuffer, ReleaseDescriptor, ReleaseDone, ClearRbus, PollDemand, Input,
       vars, dmaVars, cpuVars
<1> QED
  BY <1>1, <1>2, <1>3, <1>4

\* What the loop will give to netif->input() is older than all it leaves.
LEMMA DeliverInvStep ==
  ASSUME IInv, OrderInv, [Next]_vars
  PROVE  DeliverInv'
<1> DEFINE Giving == {"release", "clear", "resume", "input"}
<1> SUFFICES ASSUME pc' \in Giving, pbuf' # << >>
             PROVE  /\ \A s \in 1 .. Len(pbuf') : pbuf'[s] = <<pbuf'[1][1], s>>
                    /\ After(pbuf[1][1])'
  BY DEF DeliverInv
<1>1. CASE CopyBuffer
  <2>1. PICK f : f = buf[fsDesc][1]
    OBVIOUS
  <2>2. /\ \A s \in 1 .. Len(pbuf') : pbuf'[s] = <<f, s>>
        /\ 1 \in 1 .. Len(pbuf')
    <3>1. Len(pbuf') \in Nat
      <4>1. pbuf' = Append(pbuf, buf[cursor])
        BY <1>1 DEF CopyBuffer
      <4>2. Len(pbuf') = Len(pbuf) + 1
        BY <4>1, AppendProperties, Positions DEF IInv, TypeOK, RingType, PbufType
      <4> QED
        BY <4>2, IdTypes
    <3> QED
      BY <1>1, <2>1, <3>1, CopiedInOrder
  <2>3. pbuf'[1][1] = f
    BY <2>2
  <2>4. After(f)'
    BY <1>1, <2>1, CopiedIsOldest
  <2> QED
    BY <2>2, <2>3, <2>4 DEF After
<1>2. CASE pc \in Giving /\ pbuf' = pbuf
  <2>0. PICK f : f = pbuf[1][1]
    OBVIOUS
  <2>1. After(f) /\ \A s \in 1 .. Len(pbuf) : pbuf[s] = <<f, s>>
    BY <1>2, <2>0 DEF OrderInv, DeliverInv, After
  <2>2. f \in Nat /\ f <= offered
    <3>1. pbuf \in Seq(Segment) /\ 1 \in 1 .. Len(pbuf)
      BY <1>2, EmptySeq, IdTypes DEF IInv, TypeOK, PbufType
    <3>2. pbuf[1] \in Segment
      BY <3>1, ElementOfSeq
    <3> QED
      BY <2>0, <3>1, <3>2, Fresh DEF OrderInv, Segment
  <2>3. Kept \in Nat /\ (Kept' = Kept \/ (ReleaseDescriptor /\ Kept' = Kept - 1))
    BY <1>2, KeptStays
  <2>4. After(f)'
    BY <2>1, <2>2, <2>3, StaysAfter
  <2> QED
    BY <1>2, <2>0, <2>1, <2>4 DEF After
<1>3. CASE PbufAlloc
  BY <1>3 DEF PbufAlloc, IInv, PositionInv
<1>4. CASE pc \notin Giving /\ ~CopyBuffer /\ ~PbufAlloc
  BY <1>4 DEF Next, FrameArrives, Dma, DmaFetch, DmaSuspend, DmaRetry, DmaWrite, DmaClose,
       Cpu, Poll, PollLast, PollFirst, PollMiddle, LowLevelInput, GetReceivedFrame,
       ReleaseDescriptor, ReleaseDone, ClearRbus, PollDemand, Input,
       vars, dmaVars, cpuVars
<1>5. CASE pc \in Giving /\ ~CopyBuffer
  <2>1. pbuf' = pbuf
    BY <1>5 DEF Next, FrameArrives, Dma, DmaFetch, DmaSuspend, DmaRetry, DmaWrite, DmaClose,
       Cpu, Poll, PollLast, PollFirst, PollMiddle, LowLevelInput, GetReceivedFrame,
       PbufAlloc, ReleaseDescriptor, ReleaseDone, ClearRbus, PollDemand, Input,
       vars, dmaVars, cpuVars
  <2> QED
    BY <1>2, <1>5, <2>1
<1> QED
  BY <1>1, <1>3, <1>4, <1>5

\* The order holds in every behaviour.
THEOREM OrderInvariance == Spec => [](IInv /\ OrderInv)
<1>1. Init => OrderInv
  <2> SUFFICES ASSUME Init PROVE OrderInv
    OBVIOUS
  <2>1. Pending = {}
    BY DEF Init, Pending
  <2> QED
    BY <2>1 DEF Init, OrderInv, FreshInv, FifoOrder, ChainOrder, LastInv, CopyInv, DeliverInv
<1>2. IInv /\ OrderInv /\ [Next]_vars => OrderInv'
  BY FreshStep, FifoOrderStep, ChainOrderStep, LastInvStep, CopyInvStep, DeliverInvStep
     DEF OrderInv
<1> QED
  BY <1>1, <1>2, InitIInv, NextIInv, PTL DEF Spec

\* The ring implements the service: netif->input() is given the oldest frame
\* that was not lost, once, as an unbroken run of its own segments from the
\* first, however the ring wraps, overruns or is cut short.
THEOREM RingImplementsService == Spec => ImplementsService
<1>1. Init => Service!Init
  <2> SUFFICES ASSUME Init PROVE Pending = {}
    BY DEF Init, Service!Init
  <2> QED
    BY DEF Init, Pending
<1>2. IInv /\ OrderInv /\ [Next]_vars => [Service!Next]_<<offered, Pending, out>>
  BY ServiceStepHolds DEF ServiceStep
<1> QED
  BY <1>1, <1>2, OrderInvariance, PTL DEF Spec, ImplementsService, Service!Spec, Service!vars

=============================================================================
