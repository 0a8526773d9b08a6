--------------------------- MODULE EthTxRingProofs ---------------------------
(***************************************************************************)
(* Proofs about EthTxRing, for every ring size, frame length and number of *)
(* frames: its type invariant, whenever the link handler sends; and, when  *)
(* it only sends between the calls of the main loop, that copies go to the *)
(* CPU's own buffers, that no poll demand is lost, and that the ring is a  *)
(* queue of frames, EthTxService.                                          *)
(***************************************************************************)
EXTENDS EthTxRing, TLAPS

\* The locals of low_level_output at each of its points.
CallInv ==
  \A c \in Context :
    /\ pc[c] \in {"idle", "take"} => copied[c] = 0
    /\ pc[c] \in {"idle", "take", "check", "copy", "prepare", "first"} => given[c] = 0
    /\ pc[c] \in {"check", "copy"} => copied[c] < frame[c].segs
    /\ pc[c] = "give" => given[c] < frame[c].segs

TypeInv == TypeOK /\ CallInv

LEMMA NextDescType == ASSUME NEW d \in Desc PROVE NextDesc(d) \in Desc
  BY RingAssumption DEF Desc, NextDesc

LEMMA TailType == ASSUME NEW S, NEW s \in Seq(S), s # << >> PROVE Tail(s) \in Seq(S)
  OBVIOUS

LEMMA EmptySeq == \A S : << >> \in Seq(S)
  OBVIOUS

-----------------------------------------------------------------------------
(* Type correctness.                                                       *)

LEMMA TypeInit == ASSUME Init PROVE TypeInv
  <1> USE RingAssumption DEF Init
  <1>1. 0 \in Desc /\ NoFrame \in Frame /\ <<0, 0>> \in Segment
    BY DEF Desc, NoFrame, Frame, Segment
  <1>2. RingType /\ EngineType
    <2>1. own \in [Desc -> {"dma", "cpu"}] /\ buf \in [Desc -> Segment] /\ toSet \in Desc
      BY <1>1
    <2>2. ls \in [Desc -> BOOLEAN] /\ tbus \in BOOLEAN
      BY Zenon
    <2>3. EngineType
      BY <1>1, EmptySeq DEF EngineType
    <2> QED BY <2>1, <2>2, <2>3 DEF RingType
  <1>3. CallType
    BY <1>1 DEF CallType
  <1>4. queue \in Seq(Frame) /\ sent \in 0 .. MaxFrames
    OBVIOUS
  <1>5. ASSUME NEW c \in Context
        PROVE  pc[c] = "idle" /\ copied[c] = 0 /\ given[c] = 0
    BY Zenon
  <1>6. CallInv
    BY <1>5 DEF CallInv
  <1> QED BY <1>2, <1>3, <1>4, <1>6 DEF TypeInv, TypeOK

LEMMA EngineStep == ASSUME TypeInv, Dma PROVE TypeInv'
  <1> USE DEF TypeInv, TypeOK
  <1>1. UNCHANGED <<pc, localVars, toSet, sent>>
    BY DEF Dma, DmaSuspend, DmaRead, DmaClose
  <1>2. CallType' /\ CallInv'
    BY <1>1 DEF CallType, CallInv, localVars
  <1>3. CASE DmaSuspend
    <2>1. RingType' /\ EngineType' /\ queue' = queue
      BY <1>3 DEF DmaSuspend, RingType, EngineType
    <2> QED BY <1>1, <1>2, <2>1
  <1>4. CASE DmaRead
    <2>1. fetched' \in Seq(Segment)
      BY <1>4 DEF DmaRead, RingType, EngineType
    <2>2. RingType' /\ EngineType' /\ queue' = queue
      BY <1>4, <2>1 DEF DmaRead, RingType, EngineType, ringVars
    <2> QED BY <1>1, <1>2, <2>2
  <1>5. CASE DmaClose
    <2>1. dmaDesc' \in Desc
      BY <1>5, NextDescType DEF DmaClose, EngineType
    <2>2. RingType'
      BY <1>5 DEF DmaClose, RingType
    <2>3. dmaState' = "run"
      BY <1>5 DEF DmaClose
    <2>4. CASE ls[dmaDesc]
      <3>1. wire' = fetched /\ fetched' = << >>
        BY <1>5, <2>4 DEF DmaClose
      <3>2. queue' = queue \/ (queue # << >> /\ queue' = Tail(queue))
        BY <1>5, <2>4 DEF DmaClose
      <3>3. fetched' \in Seq(Segment) /\ wire' \in Seq(Segment)
        BY <3>1, EmptySeq DEF EngineType
      <3>4. EngineType'
        BY <2>1, <2>3, <3>3 DEF EngineType
      <3>5. queue' \in Seq(Frame)
        BY <3>2, TailType
      <3> QED BY <1>1, <1>2, <2>2, <3>4, <3>5
    <2>5. CASE ~ls[dmaDesc]
      <3>1. UNCHANGED <<wire, fetched, queue>>
        BY <1>5, <2>5 DEF DmaClose
      <3>2. EngineType'
        BY <2>1, <2>3, <3>1 DEF EngineType
      <3> QED BY <1>1, <1>2, <2>2, <3>1, <3>2
    <2> QED BY <2>4, <2>5
  <1> QED BY <1>3, <1>4, <1>5 DEF Dma

LEMMA CallStep ==
  ASSUME TypeInv, NEW c \in Context, NEW n \in 1 .. MaxSegs, Call(c, n)
  PROVE  TypeInv'
  <1> USE DEF TypeInv, TypeOK
  <1>1. sent' \in 0 .. MaxFrames /\ sent + 1 \in 0 .. MaxFrames
    BY RingAssumption DEF Call
  <1>2. [id |-> sent + 1, segs |-> n] \in Frame
    BY <1>1 DEF Frame
  <1>3. RingType' /\ EngineType' /\ queue' = queue
    BY DEF Call, RingType, EngineType, ringVars, dmaVars
  <1>4. CallType'
    BY <1>2 DEF Call, Goto, CallType, RingType
  <1>5. CallInv'
    BY DEF Call, Goto, CallInv, CallType
  <1> QED BY <1>1, <1>3, <1>4, <1>5

LEMMA OutputStep ==
  ASSUME TypeInv, NEW c \in Context, Output(c)
  PROVE  TypeInv'
  <1> USE RingAssumption DEF TypeInv, TypeOK
  <1> DEFINE Rest == RingType' /\ EngineType' /\ queue' \in Seq(Frame) /\ sent' \in 0 .. MaxFrames
  <1>0. frame[c] \in Frame /\ frame[c].segs \in 1 .. MaxSegs
    BY DEF CallType, Frame
  <1>1. CASE TakeDescriptor(c)
    <2>1. Rest
      BY <1>1 DEF TakeDescriptor, RingType, EngineType, ringVars, dmaVars
    <2>2. CallType'
      BY <1>1 DEF TakeDescriptor, Goto, CallType, RingType
    <2>3. CallInv'
      BY <1>0, <1>1 DEF TakeDescriptor, Goto, CallType, CallInv
    <2> QED BY <2>1, <2>2, <2>3
  <1>2. CASE CheckOwn(c)
    <2>1. Rest
      BY <1>2 DEF CheckOwn, RingType, EngineType, ringVars, dmaVars
    <2>2. CallType'
      BY <1>2 DEF CheckOwn, Goto, CallType
    <2>3. CallInv'
      BY <1>0, <1>2 DEF CheckOwn, Goto, CallType, CallInv
    <2> QED BY <2>1, <2>2, <2>3
  <1>3. CASE Copy(c)
    <2>1. copied[c] < frame[c].segs /\ copied[c] \in Nat
      BY <1>0, <1>3 DEF Copy, Goto, CallType, CallInv
    <2>2. <<frame[c].id, copied[c] + 1>> \in Segment
      BY <1>0, <2>1 DEF Frame, Segment
    <2>3. Rest
      BY <1>3, <2>2 DEF Copy, RingType, EngineType, dmaVars
    <2>4. cursor' \in [Context -> Desc]
      BY <1>3, NextDescType DEF Copy, CallType
    <2>5. CallType'
      BY <1>0, <1>3, <2>1, <2>4 DEF Copy, Goto, CallType
    <2>6. CallInv'
      BY <1>0, <1>3, <2>1 DEF Copy, Goto, CallType, CallInv
    <2> QED BY <2>3, <2>5, <2>6
  <1>4. CASE Return(c)
    <2>1. Rest
      BY <1>4 DEF Return, RingType, EngineType, ringVars, dmaVars
    <2>2. 0 \in Desc /\ NoFrame \in Frame
      BY DEF Desc, NoFrame, Frame
    <2>3. pc' = [pc EXCEPT ![c] = "idle"]
      BY <1>4 DEF Return, Goto
    <2>4. CallType'
      BY <1>4, <2>2, <2>3 DEF Return, CallType
    <2>5. CallInv'
      BY <1>4, <2>3 DEF Return, CallType, CallInv
    <2> QED BY <2>1, <2>4, <2>5
  <1>5. CASE PrepareCheck(c)
    <2>1. Rest
      BY <1>5 DEF PrepareCheck, RingType, EngineType, ringVars, dmaVars
    <2>2. CallType'
      BY <1>5 DEF PrepareCheck, Goto, CallType, localVars
    <2>3. CallInv'
      BY <1>5 DEF PrepareCheck, Goto, CallType, CallInv, localVars
    <2> QED BY <2>1, <2>2, <2>3
  <1>6. CASE PrepareFirst(c)
    <2>1. Rest
      BY <1>6 DEF PrepareFirst, RingType, EngineType, ringVars, dmaVars
    <2>2. CallType'
      BY <1>6 DEF PrepareFirst, Goto, CallType, RingType
    <2>3. CallInv'
      BY <1>0, <1>6 DEF PrepareFirst, Goto, CallType, CallInv
    <2> QED BY <2>1, <2>2, <2>3
  <1>7. CASE GiveDescriptor(c)
    <2>1. given[c] < frame[c].segs /\ given[c] \in Nat
      BY <1>0, <1>7 DEF GiveDescriptor, Goto, CallType, CallInv
    <2>2. queue' \in Seq(Frame)
      BY <1>0, <1>7 DEF GiveDescriptor
    <2>3. RingType' /\ EngineType' /\ sent' = sent
      BY <1>7 DEF GiveDescriptor, RingType, EngineType, dmaVars
    <2>4. cursor' \in [Context -> Desc]
      BY <1>7, NextDescType DEF GiveDescriptor, CallType
    <2>5. CallType'
      BY <1>0, <1>7, <2>1, <2>4 DEF GiveDescriptor, Goto, CallType
    <2>6. CallInv'
      BY <1>0, <1>7, <2>1 DEF GiveDescriptor, Goto, CallType, CallInv
    <2> QED BY <2>2, <2>3, <2>5, <2>6
  <1>8. CASE AdvanceToSet(c)
    <2>1. Rest
      BY <1>8 DEF AdvanceToSet, RingType, EngineType, CallType, ringVars, dmaVars
    <2>2. CallType'
      BY <1>8 DEF AdvanceToSet, Goto, CallType, localVars
    <2>3. CallInv'
      BY <1>8 DEF AdvanceToSet, Goto, CallType, CallInv, localVars
    <2> QED BY <2>1, <2>2, <2>3
  <1>9. CASE TestTbus(c)
    <2>1. Rest
      BY <1>9 DEF TestTbus, RingType, EngineType, ringVars, dmaVars
    <2>2. CallType'
      BY <1>9 DEF TestTbus, Goto, CallType, localVars
    <2>3. CallInv'
      BY <1>9 DEF TestTbus, Goto, CallType, CallInv, localVars
    <2> QED BY <2>1, <2>2, <2>3
  <1>10. CASE ClearTbus(c)
    <2>1. Rest
      BY <1>10 DEF ClearTbus, RingType, EngineType, dmaVars
    <2>2. CallType'
      BY <1>10 DEF ClearTbus, Goto, CallType, localVars
    <2>3. CallInv'
      BY <1>10 DEF ClearTbus, Goto, CallType, CallInv, localVars
    <2> QED BY <2>1, <2>2, <2>3
  <1>11. CASE PollDemand(c)
    <2>1. Rest
      BY <1>11 DEF PollDemand, RingType, EngineType, ringVars
    <2>2. CallType'
      BY <1>11 DEF PollDemand, Goto, CallType, localVars
    <2>3. CallInv'
      BY <1>11 DEF PollDemand, Goto, CallType, CallInv, localVars
    <2> QED BY <2>1, <2>2, <2>3
  <1> QED BY <1>1, <1>2, <1>3, <1>4, <1>5, <1>6, <1>7, <1>8, <1>9, <1>10, <1>11 DEF Output

LEMMA TypeStep == ASSUME TypeInv, [Next]_vars PROVE TypeInv'
  <1>1. CASE \E n \in 1 .. MaxSegs : Call("main", n)
    BY <1>1, CallStep DEF Context
  <1>2. CASE Call("isr", 1)
    <2>1. 1 \in 1 .. MaxSegs /\ "isr" \in Context
      BY RingAssumption DEF Context
    <2> QED BY <1>2, <2>1, CallStep
  <1>3. CASE \E c \in Context : Output(c)
    BY <1>3, OutputStep
  <1>4. CASE Dma
    BY <1>4, EngineStep
  <1>5. CASE UNCHANGED vars
    BY <1>5 DEF vars, ringVars, dmaVars, localVars, TypeInv, TypeOK, RingType, EngineType,
                CallType, CallInv
  <1> QED BY <1>1, <1>2, <1>3, <1>4, <1>5 DEF Next

(* The types of the ring, the engine and the calls under way.              *)
THEOREM TypeInvariance == Spec => []TypeInv
  BY TypeInit, TypeStep, PTL DEF Spec

(* Every variable keeps its type, whenever the link handler sends.         *)
THEOREM TypeCorrect == Spec => []TypeOK
  BY TypeInvariance, PTL DEF TypeInv
-----------------------------------------------------------------------------
(* Safety, when the handler only sends between the calls of the main loop. *)

\* One call at a time.
Alone == \A c, d \in Context : c # d => pc[c] = "idle" \/ pc[d] = "idle"

\* A call starts where DMATxDescToSet points and stays on the CPU's descriptors.
CopyInv ==
  /\ \A c \in Context : pc[c] = "take" => at[c] = toSet
  /\ \A c \in Context : pc[c] = "check" /\ copied[c] = 0 => at[c] = cursor[c]
  /\ CopiesIntoOwnBuffers

\* A suspended engine has said so, or is about to be resumed.
SuspendInv ==
  dmaState = "suspended" => tbus \/ \E c \in Context : pc[c] = "demand"

SendInv == TypeInv /\ Alone /\ CopyInv /\ SuspendInv /\ NoLostDemand

LEMMA SendInit == ASSUME Init PROVE SendInv
  <1>1. TypeInv
    BY TypeInit
  <1>2. \A c \in Context : pc[c] = "idle"
    BY DEF Init
  <1>3. dmaState = "run"
    BY DEF Init
  <1> QED BY <1>1, <1>2, <1>3 DEF SendInv, Alone, CopyInv, CopiesIntoOwnBuffers, SuspendInv,
                                  NoLostDemand

LEMMA SendCall ==
  ASSUME SendInv, "during" \notin Windows,
         NEW c \in Context, NEW n, Call(c, n), c = "isr" \/ c = "main"
  PROVE  Alone' /\ CopyInv' /\ SuspendInv' /\ NoLostDemand'
  <1> USE DEF SendInv, TypeInv, TypeOK, CallType
  <1>1. pc[c] = "idle" /\ pc' = [pc EXCEPT ![c] = "take"]
    BY DEF Call, Goto
  <1>2. \A d \in Context : d # c => pc[d] = "idle"
    BY DEF Call, Goto, Runs, MayInterrupt, Context
  <1>3. Alone'
    BY <1>1, <1>2 DEF Alone
  <1>4. CopyInv'
    BY <1>1, <1>2 DEF Call, CopyInv, CopiesIntoOwnBuffers, ringVars
  <1>5. SuspendInv' /\ NoLostDemand'
    BY <1>1, <1>2 DEF Call, SuspendInv, NoLostDemand, ringVars, dmaVars
  <1> QED BY <1>3, <1>4, <1>5

LEMMA SendEngine ==
  ASSUME SendInv, Dma
  PROVE  Alone' /\ CopyInv' /\ SuspendInv' /\ NoLostDemand'
  <1> USE DEF SendInv, TypeInv, TypeOK, RingType
  <1>1. UNCHANGED <<pc, frame, at, cursor, copied, toSet>>
    BY DEF Dma, DmaSuspend, DmaRead, DmaClose, localVars
  <1>2. \A d \in Desc : own[d] = "cpu" => own'[d] = "cpu"
    BY DEF Dma, DmaSuspend, DmaRead, DmaClose, ringVars, EngineType
  <1>3. Alone' /\ CopyInv'
    BY <1>1, <1>2 DEF Alone, CopyInv, CopiesIntoOwnBuffers, CallType
  <1>4. CASE DmaSuspend
    BY <1>1, <1>3, <1>4 DEF DmaSuspend, SuspendInv, NoLostDemand
  <1>5. CASE DmaRead
    BY <1>1, <1>3, <1>5 DEF DmaRead, SuspendInv, NoLostDemand
  <1>6. CASE DmaClose
    BY <1>1, <1>3, <1>6 DEF DmaClose, SuspendInv, NoLostDemand
  <1> QED BY <1>4, <1>5, <1>6 DEF Dma

LEMMA SendOutput ==
  ASSUME SendInv, NEW c \in Context, Output(c)
  PROVE  Alone' /\ CopyInv' /\ SuspendInv' /\ NoLostDemand'
  <1> USE DEF SendInv, TypeInv, TypeOK
  <1>1. pc[c] # "idle" /\ \A d \in Context : d # c => pc'[d] = pc[d]
    <2>1. \E from, to : from # "idle" /\ Goto(c, from, to)
      BY Zenon DEF Output, TakeDescriptor, CheckOwn, Copy, Return, PrepareCheck, PrepareFirst,
                   GiveDescriptor, AdvanceToSet, TestTbus, ClearTbus, PollDemand
    <2> QED BY <2>1 DEF Goto, CallType
  <1>2. \A d \in Context : d # c => pc[d] = "idle" /\ pc'[d] = "idle"
    BY <1>1 DEF Alone, CallType
  <1>3. Alone'
    BY <1>2 DEF Alone
  <1>4. CASE TakeDescriptor(c)
    <2>1. CopyInv'
      BY <1>2, <1>4 DEF TakeDescriptor, Goto, CopyInv, CopiesIntoOwnBuffers, CallType
    <2>2. SuspendInv' /\ NoLostDemand'
      BY <1>2, <1>4 DEF TakeDescriptor, Goto, SuspendInv, NoLostDemand, CallType, ringVars, dmaVars
    <2> QED BY <1>3, <2>1, <2>2
  <1>5. CASE CheckOwn(c)
    <2>1. CopyInv'
      <3>1. UNCHANGED <<own, cursor, copied, toSet>> /\ pc'[c] \in {"copy", "error"}
        BY <1>5 DEF CheckOwn, Goto, CallType, ringVars
      <3>2. \A d \in Context : d # c => at'[d] = at[d]
        BY <1>5 DEF CheckOwn, CallType
      <3>3. pc'[c] = "copy" => own[at'[c]] = "cpu"
        <4>1. CASE own[cursor[c]] = "dma"
          BY <1>5, <4>1 DEF CheckOwn, Goto, CallType
        <4>2. CASE own[cursor[c]] # "dma"
          <5>1. own[cursor[c]] = "cpu"
            BY <4>2 DEF RingType, CallType
          <5>2. at'[c] = IF copied[c] = 0 THEN at[c] ELSE cursor[c]
            BY <1>5, <4>2 DEF CheckOwn, CallType
          <5>3. copied[c] = 0 => at[c] = cursor[c]
            BY <1>5 DEF CheckOwn, Goto, CopyInv
          <5> QED BY <5>1, <5>2, <5>3
        <4> QED BY <4>1, <4>2
      <3> QED BY <1>2, <3>1, <3>2, <3>3 DEF CopyInv, CopiesIntoOwnBuffers
    <2>2. SuspendInv' /\ NoLostDemand'
      BY <1>2, <1>5 DEF CheckOwn, Goto, SuspendInv, NoLostDemand, CallType, ringVars, dmaVars
    <2> QED BY <1>3, <2>1, <2>2
  <1>6. CASE Copy(c)
    <2>1. CopyInv'
      BY <1>2, <1>6 DEF Copy, Goto, CopyInv, CopiesIntoOwnBuffers, CallType
    <2>2. SuspendInv' /\ NoLostDemand'
      BY <1>2, <1>6 DEF Copy, Goto, SuspendInv, NoLostDemand, CallType, dmaVars
    <2> QED BY <1>3, <2>1, <2>2
  <1>7. CASE Return(c)
    <2>1. pc[c] \in {"ok", "error"} /\ pc' = [pc EXCEPT ![c] = "idle"]
      BY <1>7 DEF Return, Goto
    <2>2. CopyInv'
      BY <1>2, <1>7, <2>1 DEF Return, CopyInv, CopiesIntoOwnBuffers, CallType
    <2>3. SuspendInv' /\ NoLostDemand'
      BY <1>2, <1>7, <2>1 DEF Return, SuspendInv, NoLostDemand, CallType, ringVars, dmaVars
    <2> QED BY <1>3, <2>2, <2>3
  <1>8. CASE PrepareCheck(c)
    <2>1. CopyInv'
      BY <1>2, <1>8 DEF PrepareCheck, Goto, CopyInv, CopiesIntoOwnBuffers, CallType, ringVars
    <2>2. SuspendInv' /\ NoLostDemand'
      BY <1>2, <1>8 DEF PrepareCheck, Goto, SuspendInv, NoLostDemand, CallType, ringVars, dmaVars
    <2> QED BY <1>3, <2>1, <2>2
  <1>9. CASE PrepareFirst(c)
    <2>1. CopyInv'
      BY <1>2, <1>9 DEF PrepareFirst, Goto, CopyInv, CopiesIntoOwnBuffers, CallType, ringVars
    <2>2. SuspendInv' /\ NoLostDemand'
      BY <1>2, <1>9 DEF PrepareFirst, Goto, SuspendInv, NoLostDemand, CallType, ringVars, dmaVars
    <2> QED BY <1>3, <2>1, <2>2
  <1>10. CASE GiveDescriptor(c)
    <2>1. CopyInv'
      BY <1>2, <1>10 DEF GiveDescriptor, Goto, CopyInv, CopiesIntoOwnBuffers, CallType
    <2>2. dmaState' = "suspended" => tbus /\ tbus'
      BY <1>2, <1>10 DEF GiveDescriptor, Goto, SuspendInv, dmaVars
    <2>3. pc'[c] \in {"give", "advance"}
      BY <1>10 DEF GiveDescriptor, Goto, CallType
    <2>4. SuspendInv' /\ NoLostDemand'
      BY <2>2, <2>3 DEF SuspendInv, NoLostDemand
    <2> QED BY <1>3, <2>1, <2>4
  <1>11. CASE AdvanceToSet(c)
    <2>1. CopyInv'
      BY <1>2, <1>11 DEF AdvanceToSet, Goto, CopyInv, CopiesIntoOwnBuffers, CallType, ringVars, localVars
    <2>2. SuspendInv' /\ NoLostDemand'
      BY <1>2, <1>11 DEF AdvanceToSet, Goto, SuspendInv, NoLostDemand, CallType, ringVars, dmaVars
    <2> QED BY <1>3, <2>1, <2>2
  <1>12. CASE TestTbus(c)
    <2>1. CopyInv'
      BY <1>2, <1>12 DEF TestTbus, Goto, CopyInv, CopiesIntoOwnBuffers, CallType, ringVars, localVars
    <2>2. SuspendInv' /\ NoLostDemand'
      BY <1>2, <1>12 DEF TestTbus, Goto, SuspendInv, NoLostDemand, CallType, ringVars, dmaVars
    <2> QED BY <1>3, <2>1, <2>2
  <1>13. CASE ClearTbus(c)
    <2>1. CopyInv'
      BY <1>2, <1>13 DEF ClearTbus, Goto, CopyInv, CopiesIntoOwnBuffers, CallType, localVars
    <2>2. pc'[c] = "demand"
      BY <1>13 DEF ClearTbus, Goto, CallType
    <2> QED BY <1>3, <2>1, <2>2 DEF SuspendInv, NoLostDemand
  <1>14. CASE PollDemand(c)
    <2>1. CopyInv'
      BY <1>2, <1>14 DEF PollDemand, Goto, CopyInv, CopiesIntoOwnBuffers, CallType, ringVars, localVars
    <2>2. dmaState' # "suspended"
      BY <1>14 DEF PollDemand
    <2> QED BY <1>3, <2>1, <2>2 DEF SuspendInv, NoLostDemand
  <1> QED BY <1>4, <1>5, <1>6, <1>7, <1>8, <1>9, <1>10, <1>11, <1>12, <1>13, <1>14 DEF Output

LEMMA SendStep ==
  ASSUME "during" \notin Windows, SendInv, [Next]_vars
  PROVE  SendInv'
  <1>1. TypeInv'
    BY TypeStep DEF SendInv
  <1>2. CASE \E n \in 1 .. MaxSegs : Call("main", n)
    BY <1>1, <1>2, SendCall DEF SendInv, Context
  <1>3. CASE Call("isr", 1)
    BY <1>1, <1>3, SendCall DEF SendInv, Context
  <1>4. CASE \E c \in Context : Output(c)
    BY <1>1, <1>4, SendOutput DEF SendInv
  <1>5. CASE Dma
    BY <1>1, <1>5, SendEngine DEF SendInv
  <1>6. CASE UNCHANGED vars
    BY <1>1, <1>6 DEF vars, ringVars, dmaVars, localVars, SendInv, Alone, CopyInv,
                      CopiesIntoOwnBuffers, SuspendInv, NoLostDemand
  <1> QED BY <1>2, <1>3, <1>4, <1>5, <1>6 DEF Next

(* What low_level_output relies on, when no interrupt sends in its middle. *)
THEOREM SendInvariance ==
  ASSUME "during" \notin Windows
  PROVE  Spec => []SendInv
  BY SendInit, SendStep, PTL DEF Spec

(* low_level_output copies into buffers of the CPU only.                   *)
THEOREM CopiesStayOut ==
  ASSUME "during" \notin Windows
  PROVE  Spec => []CopiesIntoOwnBuffers
  <1>1. SendInv => CopiesIntoOwnBuffers
    BY DEF SendInv, CopyInv
  <1> QED BY <1>1, SendInvariance, PTL

(* The engine is never left suspended on a frame it was given.             *)
THEOREM DemandsArrive ==
  ASSUME "during" \notin Windows
  PROVE  Spec => []NoLostDemand
  <1>1. SendInv => NoLostDemand
    BY DEF SendInv
  <1> QED BY <1>1, SendInvariance, PTL
-----------------------------------------------------------------------------
(***************************************************************************)
(* The ring as a line of frames.  The descriptors the engine owns are the  *)
(* ones from its own up to the one given next, and they hold, in ring      *)
(* order, what is left of the frames in Line: the queue, followed by the   *)
(* frame of which some descriptors but not the last have been given.       *)
(***************************************************************************)

\* How many descriptors after a the descriptor b comes.
Off(a, b) == IF a <= b THEN b - a ELSE b + N - a

\* The descriptor that is given next.
End ==
  IF pc["main"] \in {"give", "advance"} THEN cursor["main"]
  ELSE IF pc["isr"] \in {"give", "advance"} THEN cursor["isr"] ELSE toSet

\* How many descriptors of an unfinished frame have been given.
Part ==
  IF pc["main"] = "give" THEN given["main"]
  ELSE IF pc["isr"] = "give" THEN given["isr"] ELSE 0

Line ==
  IF Part = 0 THEN queue
  ELSE Append(queue, IF pc["main"] = "give" THEN frame["main"] ELSE frame["isr"])

Flying(d) == own[d] = "dma"

Shape ==
  /\ own[dmaDesc] = "cpu" => End = dmaDesc /\ \A d \in Desc : own[d] = "cpu"
  /\ own[dmaDesc] = "dma" =>
       \A d \in Desc : Flying(d) <=> End = dmaDesc \/ Off(dmaDesc, d) < Off(dmaDesc, End)
  /\ dmaState = "close" => own[dmaDesc] = "dma"

\* Nothing is left to read: the engine has all that was given.
Drained ==
  own[dmaDesc] = "cpu" =>
    IF Part > 0 THEN Len(Line) = 1 /\ Len(fetched) = Part ELSE Len(Line) = 0 /\ Len(fetched) = 0

\* The engine is in the first frame of the line.
HasRead ==
  /\ Len(fetched) > 0 => Len(Line) > 0
  /\ \A s \in 1 .. Len(fetched) : fetched[s] = <<Line[1].id, s>>

\* The descriptor d holds segment sg[d] of the frame idx[d] in the line.
Content(idx, sg) ==
  \A d \in Desc : Flying(d) =>
    /\ idx[d] \in 1 .. Len(Line) /\ sg[d] \in 1 .. Line[idx[d]].segs
    /\ buf[d] = <<Line[idx[d]].id, sg[d]>>
    /\ ls[d] <=> sg[d] = Line[idx[d]].segs
    /\ Part > 0 /\ idx[d] = Len(Line) => sg[d] <= Part

Order(idx) ==
  \A d, e \in Desc : Flying(d) /\ Flying(e) /\ Off(dmaDesc, d) < Off(dmaDesc, e) =>
    idx[d] <= idx[e] /\ (ls[d] => idx[d] < idx[e])

\* The next descriptor holds the next segment, or the first of the next frame.
Chain(idx, sg) ==
  \A d \in Desc : Flying(d) /\ Flying(NextDesc(d)) /\ NextDesc(d) # dmaDesc =>
    IF ls[d] THEN idx[NextDesc(d)] = idx[d] + 1 /\ sg[NextDesc(d)] = 1
             ELSE idx[NextDesc(d)] = idx[d] /\ sg[NextDesc(d)] = sg[d] + 1

First(idx, sg) ==
  Flying(dmaDesc) =>
    /\ idx[dmaDesc] = 1
    /\ sg[dmaDesc] = IF dmaState = "close" THEN Len(fetched) ELSE Len(fetched) + 1

Last(idx, sg) ==
  \A d \in Desc : Flying(d) /\ NextDesc(d) = End =>
    idx[d] = Len(Line) /\ IF Part > 0 THEN sg[d] = Part ELSE ls[d]

Flight(idx, sg) ==
  Content(idx, sg) /\ Order(idx) /\ Chain(idx, sg) /\ First(idx, sg) /\ Last(idx, sg)

FlightInv ==
  Shape /\ Drained /\ HasRead /\ \E idx, sg \in [Desc -> Nat] : Flight(idx, sg)

LEMMA OffType == ASSUME NEW a \in Desc, NEW b \in Desc PROVE Off(a, b) \in 0 .. N - 1
  BY RingAssumption DEF Desc, Off

LEMMA OffZero == ASSUME NEW a \in Desc, NEW b \in Desc PROVE Off(a, b) = 0 <=> a = b
  BY RingAssumption DEF Desc, Off

LEMMA OffEqual ==
  ASSUME NEW a \in Desc, NEW b \in Desc, NEW d \in Desc PROVE Off(a, b) = Off(a, d) <=> b = d
  BY RingAssumption DEF Desc, Off

LEMMA OffFromNext ==
  ASSUME NEW a \in Desc, NEW b \in Desc
  PROVE  Off(NextDesc(a), b) = IF a = b THEN N - 1 ELSE Off(a, b) - 1
  BY RingAssumption DEF Desc, Off, NextDesc

LEMMA OffToNext ==
  ASSUME NEW a \in Desc, NEW b \in Desc
  PROVE  Off(a, NextDesc(b)) = IF Off(a, b) = N - 1 THEN 0 ELSE Off(a, b) + 1
  BY RingAssumption DEF Desc, Off, NextDesc

LEMMA NextDistinct == ASSUME NEW d \in Desc PROVE NextDesc(d) # d
  BY RingAssumption DEF Desc, NextDesc

LEMMA LineType == ASSUME TypeInv PROVE Line \in Seq(Frame) /\ Len(Line) \in Nat
  <1>1. queue \in Seq(Frame) /\ \A c \in Context : frame[c] \in Frame
    BY DEF TypeInv, TypeOK, CallType
  <1>2. Line \in Seq(Frame)
    BY <1>1 DEF Line, Context
  <1> QED BY <1>2

LEMMA PartType == ASSUME TypeInv PROVE Part \in Nat
  BY RingAssumption DEF TypeInv, TypeOK, CallType, Part, Context

LEMMA EndType == ASSUME TypeInv PROVE End \in Desc
  BY DEF TypeInv, TypeOK, CallType, RingType, End, Context

\* What does not touch the flight leaves it as it is.
LEMMA FlightKept ==
  ASSUME FlightInv, UNCHANGED <<own, ls, dmaDesc, fetched>>,
         End' = End, Line' = Line, Part' = Part,
         \A d \in Desc : Flying(d) => buf'[d] = buf[d],
         dmaState' = "close" <=> dmaState = "close"
  PROVE  FlightInv'
  <1>1. Shape' /\ Drained' /\ HasRead'
    BY DEF FlightInv, Shape, Drained, HasRead, Flying
  <1>2. PICK idx, sg \in [Desc -> Nat] : Flight(idx, sg)
    BY DEF FlightInv
  <1>3. Content(idx, sg)'
    BY <1>2 DEF Flight, Content, Flying
  <1>4. Order(idx)' /\ Chain(idx, sg)'
    BY <1>2 DEF Flight, Order, Chain, Flying
  <1>5. First(idx, sg)' /\ Last(idx, sg)'
    BY <1>2 DEF Flight, First, Last, Flying
  <1> QED BY <1>1, <1>3, <1>4, <1>5 DEF FlightInv, Flight

\* The engine reads the descriptor it looks at.
LEMMA FlightRead ==
  ASSUME TypeInv, FlightInv, DmaRead
  PROVE  FlightInv'
  <1>0. UNCHANGED <<own, ls, buf, dmaDesc>> /\ own[dmaDesc] = "dma" /\ dmaDesc \in Desc
        /\ dmaState # "close" /\ dmaState' = "close" /\ fetched \in Seq(Segment)
        /\ UNCHANGED <<pc, frame, given, cursor, toSet, queue>>
    BY DEF DmaRead, ringVars, localVars, TypeInv, TypeOK, EngineType
  <1>1. fetched' = Append(fetched, buf[dmaDesc]) /\ buf[dmaDesc] \in Segment
    BY DEF DmaRead, TypeInv, TypeOK, RingType, EngineType
  <1>2. /\ Len(fetched') = Len(fetched) + 1
        /\ fetched'[Len(fetched) + 1] = buf[dmaDesc]
        /\ \A s \in 1 .. Len(fetched) : fetched'[s] = fetched[s]
    BY <1>0, <1>1
  <1>3. Len(fetched) \in Nat /\ End' = End /\ Part' = Part /\ Line' = Line
    BY <1>0 DEF End, Part, Line
  <1>4. PICK idx, sg \in [Desc -> Nat] : Flight(idx, sg)
    BY DEF FlightInv
  <1>5. /\ idx[dmaDesc] = 1 /\ sg[dmaDesc] = Len(fetched) + 1
        /\ Len(Line) > 0 /\ buf[dmaDesc] = <<Line[1].id, Len(fetched) + 1>>
    BY <1>0, <1>4, LineType DEF Flight, First, Content, Flying
  <1>6. Shape' /\ Drained'
    BY <1>0, <1>3 DEF FlightInv, Shape, Drained, Flying
  <1>7. HasRead'
    <2>1. \A s \in 1 .. Len(fetched) : fetched[s] = <<Line[1].id, s>>
      BY DEF FlightInv, HasRead
    <2>2. ASSUME NEW s \in 1 .. Len(fetched) + 1 PROVE fetched'[s] = <<Line[1].id, s>>
      <3>1. CASE s \in 1 .. Len(fetched)
        BY <1>2, <2>1, <3>1
      <3>2. CASE s = Len(fetched) + 1
        BY <1>0, <1>2, <1>5, <3>2 DEF DmaRead
      <3> QED BY <1>3, <3>1, <3>2
    <2> QED BY <1>2, <1>3, <1>5, <2>2 DEF HasRead
  <1>8. Content(idx, sg)' /\ Order(idx)' /\ Chain(idx, sg)' /\ Last(idx, sg)'
    BY <1>0, <1>3, <1>4 DEF Flight, Content, Order, Chain, Last, Flying
  <1>9. First(idx, sg)'
    BY <1>0, <1>2, <1>5 DEF First
  <1> QED BY <1>6, <1>7, <1>8, <1>9 DEF FlightInv, Flight

\* The engine clears OWN in the middle of a frame.
LEMMA FlightCloses ==
  ASSUME TypeInv, FlightInv, DmaClose, ~ls[dmaDesc]
  PROVE  FlightInv'
  <1> DEFINE n == NextDesc(dmaDesc)
  <1>0. /\ own[dmaDesc] = "dma" /\ dmaDesc \in Desc /\ dmaState = "close" /\ dmaState' = "run"
        /\ UNCHANGED <<ls, buf, fetched>> /\ dmaDesc' = n /\ n \in Desc /\ n # dmaDesc
        /\ End \in Desc /\ N \in Nat /\ N > 1
        /\ UNCHANGED <<pc, frame, given, cursor, toSet, queue>>
    BY RingAssumption, EndType, NextDescType, NextDistinct
       DEF DmaClose, TypeInv, TypeOK, EngineType, FlightInv, Shape, localVars
  <1>1. \A d \in Desc : own'[d] = IF d = dmaDesc THEN "cpu" ELSE own[d]
    BY DEF DmaClose, TypeInv, TypeOK, RingType
  <1>2. \A d \in Desc : Flying(d)' <=> Flying(d) /\ d # dmaDesc
    BY <1>1 DEF Flying
  <1>3. PICK idx, sg \in [Desc -> Nat] : Flight(idx, sg)
    BY DEF FlightInv
  <1>4. /\ \A d \in Desc : Flying(d) <=> End = dmaDesc \/ Off(dmaDesc, d) < Off(dmaDesc, End)
        /\ End' = End /\ Part' = Part /\ Line' = Line
    BY <1>0 DEF FlightInv, Shape, End, Part, Line
  <1>5. \A d \in Desc : Off(n, d) = IF d = dmaDesc THEN N - 1 ELSE Off(dmaDesc, d) - 1
    BY <1>0, OffFromNext
  <1>6. \A d \in Desc : Off(dmaDesc, d) \in 0 .. N - 1 /\ (Off(dmaDesc, d) = 0 <=> d = dmaDesc)
    BY <1>0, OffType, OffZero
  <1>7. Off(dmaDesc, n) = 1
    BY <1>0, <1>5, <1>6, OffZero
  <1>8. \A d \in Desc : Off(dmaDesc, d) = 1 <=> d = n
    BY <1>0, <1>7, OffEqual
  <1> HIDE DEF n
  <1>9. Shape'
    <2>1. CASE own'[n] = "cpu"
      <3>1. own[n] # "dma"
        BY <1>0, <1>1, <2>1
      <3>2. End = n /\ \A d \in Desc : own'[d] = "cpu"
        <4>1. End = n
          BY <1>0, <1>4, <1>6, <1>7, <1>8, <3>1 DEF Flying
        <4>2. ASSUME NEW d \in Desc PROVE own'[d] = "cpu"
          <5>1. ~Flying(d)'
            BY <1>0, <1>2, <1>4, <1>6, <1>7, <1>8, <4>1
          <5> QED BY <1>1, <5>1 DEF Flying, TypeInv, TypeOK, RingType
        <4> QED BY <4>1, <4>2
      <3> QED BY <1>0, <1>4, <2>1, <3>2 DEF Shape
    <2>2. CASE own'[n] = "dma"
      <3>1. \A d \in Desc : Flying(d)' <=> End = n \/ Off(n, d) < Off(n, End)
        BY <1>0, <1>1, <1>2, <1>4, <1>5, <1>6, <1>7, <1>8, <2>2 DEF Flying
      <3> QED BY <1>0, <1>4, <2>2, <3>1 DEF Shape
    <2> QED BY <1>0, <1>1, <2>1, <2>2 DEF TypeInv, TypeOK, RingType
  <1>10. Content(idx, sg)'
    BY <1>0, <1>2, <1>3, <1>4 DEF Flight, Content
  <1>11. Order(idx)'
    BY <1>0, <1>2, <1>3, <1>5, <1>6 DEF Flight, Order
  <1>12. Chain(idx, sg)'
    BY <1>0, <1>2, <1>3, NextDescType DEF Flight, Chain
  <1>13. idx[dmaDesc] = 1 /\ sg[dmaDesc] = Len(fetched)
    BY <1>0, <1>3 DEF Flight, First, Flying
  <1>14. First(idx, sg)'
    BY <1>0, <1>2, <1>3, <1>13 DEF Flight, First, Chain, n, Flying
  <1>15. Last(idx, sg)'
    BY <1>0, <1>2, <1>3, <1>4 DEF Flight, Last
  <1>16. Drained'
    <2>1. SUFFICES ASSUME own'[n] = "cpu"
                   PROVE  Len(Line) = 1 /\ Part > 0 /\ Len(fetched) = Part
      BY <1>0, <1>4, PartType DEF Drained
    <2>2. End = n
      BY <1>0, <1>4, <1>9, <2>1 DEF Shape
    <2>3. idx[dmaDesc] = Len(Line) /\ IF Part > 0 THEN sg[dmaDesc] = Part ELSE ls[dmaDesc]
      BY <1>0, <1>3, <2>2 DEF Flight, Last, n, Flying
    <2> QED BY <1>13, <2>3
  <1>17. HasRead'
    BY <1>0, <1>4 DEF FlightInv, HasRead
  <1> QED BY <1>9, <1>10, <1>11, <1>12, <1>14, <1>15, <1>16, <1>17 DEF FlightInv, Flight

\* The engine clears OWN at the end of a frame, the first of the queue.
LEMMA FlightLeaves ==
  ASSUME TypeInv, FlightInv, DmaClose, ls[dmaDesc]
  PROVE  /\ FlightInv'
         /\ queue # << >>
         /\ wire' = [s \in 1 .. Head(queue).segs |-> <<Head(queue).id, s>>]
  <1> DEFINE n == NextDesc(dmaDesc)
  <1>0. /\ own[dmaDesc] = "dma" /\ dmaDesc \in Desc /\ dmaState = "close" /\ dmaState' = "run"
        /\ UNCHANGED <<ls, buf>> /\ dmaDesc' = n /\ n \in Desc /\ n # dmaDesc
        /\ End \in Desc /\ N \in Nat /\ N > 1 /\ wire' = fetched /\ fetched' = << >>
        /\ UNCHANGED <<pc, frame, given, cursor, toSet>>
    BY RingAssumption, EndType, NextDescType, NextDistinct
       DEF DmaClose, TypeInv, TypeOK, EngineType, FlightInv, Shape, localVars
  <1>1. \A d \in Desc : own'[d] = IF d = dmaDesc THEN "cpu" ELSE own[d]
    BY DEF DmaClose, TypeInv, TypeOK, RingType
  <1>2. \A d \in Desc : Flying(d)' <=> Flying(d) /\ d # dmaDesc
    BY <1>1 DEF Flying
  <1>3. PICK idx, sg \in [Desc -> Nat] : Flight(idx, sg)
    BY DEF FlightInv
  <1>4. /\ \A d \in Desc : Flying(d) <=> End = dmaDesc \/ Off(dmaDesc, d) < Off(dmaDesc, End)
        /\ End' = End /\ Part' = Part
    BY <1>0 DEF FlightInv, Shape, End, Part
  <1>5. \A d \in Desc : Off(n, d) = IF d = dmaDesc THEN N - 1 ELSE Off(dmaDesc, d) - 1
    BY <1>0, OffFromNext
  <1>6. \A d \in Desc : Off(dmaDesc, d) \in 0 .. N - 1 /\ (Off(dmaDesc, d) = 0 <=> d = dmaDesc)
    BY <1>0, OffType, OffZero
  <1>7. Off(dmaDesc, n) = 1
    BY <1>0, <1>5, <1>6, OffZero
  <1>8. \A d \in Desc : Off(dmaDesc, d) = 1 <=> d = n
    BY <1>0, <1>7, OffEqual
  <1> HIDE DEF n
  <1>9. Shape'
    <2>1. CASE own'[n] = "cpu"
      <3>1. own[n] # "dma"
        BY <1>0, <1>1, <2>1
      <3>2. End = n
        BY <1>0, <1>4, <1>6, <1>7, <1>8, <3>1 DEF Flying
      <3>3. ASSUME NEW d \in Desc PROVE own'[d] = "cpu"
        <4>1. ~Flying(d)'
          BY <1>0, <1>2, <1>4, <1>6, <1>7, <1>8, <3>2
        <4> QED BY <1>1, <4>1 DEF Flying, TypeInv, TypeOK, RingType
      <3> QED BY <1>0, <1>4, <2>1, <3>2, <3>3 DEF Shape
    <2>2. CASE own'[n] = "dma"
      <3>1. \A d \in Desc : Flying(d)' <=> End = n \/ Off(n, d) < Off(n, End)
        BY <1>0, <1>1, <1>2, <1>4, <1>5, <1>6, <1>7, <1>8, <2>2 DEF Flying
      <3> QED BY <1>0, <1>4, <2>2, <3>1 DEF Shape
    <2> QED BY <1>0, <1>1, <2>1, <2>2 DEF TypeInv, TypeOK, RingType
  <1>10. /\ idx[dmaDesc] = 1 /\ sg[dmaDesc] = Len(fetched)
         /\ 1 \in 1 .. Len(Line) /\ sg[dmaDesc] = Line[1].segs
         /\ Part > 0 /\ 1 = Len(Line) => sg[dmaDesc] <= Part
    BY <1>0, <1>3 DEF Flight, First, Content, Flying
  \* The frame that ends is not the one a call is still giving.
  <1>11. queue # << >> /\ queue \in Seq(Frame)
    <2>1. queue \in Seq(Frame) /\ \A c \in Context : frame[c] \in Frame
      BY DEF TypeInv, TypeOK, CallType
    <2>2. SUFFICES ASSUME queue = << >> PROVE FALSE
      BY <2>1
    <2>3. Part > 0
      BY <1>10, <2>2, PartType DEF Line
    <2>4. PICK c \in Context : /\ pc[c] = "give" /\ Part = given[c] /\ given[c] < frame[c].segs
                               /\ Line = Append(queue, frame[c])
      BY <2>3 DEF Line, Part, Context, TypeInv, CallInv
    <2>5. Len(Line) = 1 /\ Line[1] = frame[c]
      BY <2>1, <2>2, <2>4
    <2>6. frame[c].segs \in Nat /\ given[c] \in Nat
      BY <2>1, RingAssumption DEF Frame, TypeInv, TypeOK, CallType
    <2> QED BY <1>10, <2>3, <2>4, <2>5, <2>6
  <1>12. queue' = Tail(queue) /\ Line \in Seq(Frame)
    BY <1>11, LineType DEF DmaClose
  <1>13. /\ Len(Line') = Len(Line) - 1 /\ Len(Line) \in Nat
         /\ \A i \in 1 .. Len(Line) - 1 : Line'[i] = Line[i + 1]
         /\ Line[1] = Head(queue)
    <2>1. CASE Part = 0
      <3>1. Line = queue /\ Line' = Tail(queue)
        BY <1>4, <1>12, <2>1 DEF Line
      <3> QED BY <1>11, <3>1
    <2>2. CASE Part > 0
      <3>1. PICK f \in Frame : Line = Append(queue, f) /\ Line' = Append(Tail(queue), f)
        <4> DEFINE f == IF pc["main"] = "give" THEN frame["main"] ELSE frame["isr"]
        <4>1. f \in Frame
          BY DEF TypeInv, TypeOK, CallType, Context
        <4>2. Line = Append(queue, f) /\ Line' = Append(Tail(queue), f)
          BY <1>0, <1>4, <1>12, <2>2 DEF Line
        <4> QED BY <4>1, <4>2
      <3> QED BY <1>11, <3>1
    <2> QED BY <2>1, <2>2, PartType
  <1>14. wire' = [s \in 1 .. Head(queue).segs |-> <<Head(queue).id, s>>]
    <2>1. fetched \in Seq(Segment)
      BY DEF TypeInv, TypeOK, EngineType
    <2>2. \A s \in 1 .. Len(fetched) : fetched[s] = <<Line[1].id, s>>
      BY DEF FlightInv, HasRead
    <2>3. fetched = [s \in 1 .. Len(fetched) |-> <<Line[1].id, s>>]
      <3>1. DOMAIN fetched = 1 .. Len(fetched) /\ fetched = [s \in DOMAIN fetched |-> fetched[s]]
        BY <2>1
      <3> QED BY <2>2, <3>1, Zenon
    <2>4. Len(fetched) = Head(queue).segs /\ Line[1].id = Head(queue).id
      BY <1>10, <1>13
    <2> QED BY <1>0, <2>3, <2>4
  <1> DEFINE idx1 == [d \in Desc |-> IF idx[d] > 0 THEN idx[d] - 1 ELSE 0]
  <1>15. idx1 \in [Desc -> Nat] /\ \A d \in Desc : idx[d] > 0 => idx1[d] = idx[d] - 1
    OBVIOUS
  <1> HIDE DEF idx1
  \* Everything else in the flight belongs to later frames.
  <1>16. \A d \in Desc : Flying(d)' => idx[d] > 1 /\ idx[d] \in 1 .. Len(Line)
    <2>1. \A d \in Desc : Flying(d)' => Off(dmaDesc, dmaDesc) < Off(dmaDesc, d)
      BY <1>0, <1>2, <1>6
    <2> QED BY <1>0, <1>2, <1>3, <1>10, <2>1 DEF Flight, Order, Content, Flying
  <1>24. \A d \in Desc : Flying(d)' => /\ idx1[d] \in 1 .. Len(Line') /\ idx1[d] = idx[d] - 1
                                       /\ Line'[idx1[d]] = Line[idx[d]]
                                       /\ idx1[d] = Len(Line') => idx[d] = Len(Line)
    <2>1. SUFFICES ASSUME NEW d \in Desc, Flying(d)'
                   PROVE  /\ idx1[d] \in 1 .. Len(Line') /\ idx1[d] = idx[d] - 1
                          /\ Line'[idx1[d]] = Line[idx[d]]
                          /\ idx1[d] = Len(Line') => idx[d] = Len(Line)
      OBVIOUS
    <2>2. PICK i \in Nat : i = idx1[d]
      BY <1>15
    <2>3. i \in 1 .. Len(Line) - 1 /\ idx[d] = i + 1
      BY <1>13, <1>15, <1>16, <2>1, <2>2
    <2> QED BY <1>13, <2>2, <2>3
  <1>17. Content(idx1, sg)'
    BY <1>0, <1>2, <1>3, <1>4, <1>24 DEF Flight, Content
  <1>18. Order(idx1)'
    <2>1. ASSUME NEW d \in Desc, NEW e \in Desc, Flying(d)', Flying(e)', Off(n, d) < Off(n, e)
          PROVE  idx1[d] <= idx1[e] /\ (ls[d] => idx1[d] < idx1[e])
      <3>1. Off(dmaDesc, d) < Off(dmaDesc, e) /\ Flying(d) /\ Flying(e)
        BY <1>2, <1>5, <1>6, <2>1
      <3>2. idx[d] <= idx[e] /\ (ls[d] => idx[d] < idx[e])
        BY <1>3, <3>1 DEF Flight, Order
      <3>3. idx1[d] = idx[d] - 1 /\ idx1[e] = idx[e] - 1 /\ idx[d] \in Nat /\ idx[e] \in Nat
        BY <1>24, <2>1
      <3> QED BY <3>2, <3>3
    <2> QED BY <1>0, <2>1 DEF Order
  <1>19. Chain(idx1, sg)'
    BY <1>0, <1>2, <1>3, <1>16, <1>24, NextDescType DEF Flight, Chain
  <1>20. First(idx1, sg)'
    <2>1. Len(fetched') = 0
      BY <1>0
    <2>2. own'[n] = "dma" => idx[n] = 2 /\ sg[n] = 1
      BY <1>0, <1>1, <1>3, <1>10 DEF Flight, Chain, n, Flying
    <2>3. own'[n] = "dma" => idx1[n] = 1
      <3>1. idx[n] > 0 => idx1[n] = idx[n] - 1
        BY <1>0, <1>15
      <3> QED BY <2>2, <3>1
    <2> QED BY <1>0, <2>1, <2>2, <2>3 DEF First, Flying
  <1>21. Last(idx1, sg)'
    <2>1. ASSUME NEW d \in Desc, Flying(d)', NextDesc(d) = End
          PROVE  idx1[d] = Len(Line') /\ IF Part > 0 THEN sg[d] = Part ELSE ls[d]
      BY <1>2, <1>3, <1>13, <1>24, <2>1 DEF Flight, Last
    <2> QED BY <1>0, <1>4, <2>1 DEF Last
  <1>22. Drained'
    <2>1. SUFFICES ASSUME own'[n] = "cpu"
                   PROVE  Len(Line') = 0 /\ Part = 0
      BY <1>0, <1>4, PartType DEF Drained
    <2>2. End = n
      BY <1>0, <1>4, <1>9, <2>1 DEF Shape
    <2>3. idx[dmaDesc] = Len(Line) /\ IF Part > 0 THEN sg[dmaDesc] = Part ELSE ls[dmaDesc]
      BY <1>0, <1>3, <2>2 DEF Flight, Last, n, Flying
    <2>4. Len(Line) = 1
      BY <1>10, <2>3
    <2>5. ~(Part > 0)
      BY <1>11, <2>4, PartType DEF Line, TypeInv, TypeOK, CallType, Context
    <2> QED BY <1>13, <2>4, <2>5, PartType
  <1>23. HasRead'
    BY <1>0 DEF HasRead
  <1> QED BY <1>9, <1>11, <1>14, <1>15, <1>17, <1>18, <1>19, <1>20, <1>21, <1>22, <1>23
          DEF FlightInv, Flight

OthersIdle(c) == \A d \in Context : d # c => pc[d] = "idle"

\* The descriptor to be given is the CPU's and holds the segment it should.
ReadyToGive(c) ==
  own[cursor[c]] = "cpu" /\ buf[cursor[c]] = <<frame[c].id, given[c] + 1>>

\* A descriptor is given: one more segment at the end of the line.
LEMMA FlightGrows ==
  ASSUME TypeInv, FlightInv, NEW c \in Context, GiveDescriptor(c),
         OthersIdle(c), ReadyToGive(c)
  PROVE  FlightInv'
  <1>0. PICK e \in Desc, m \in Desc, f \in Frame, g \in Nat :
               e = cursor[c] /\ m = dmaDesc /\ f = frame[c] /\ g = given[c]
    BY DEF TypeInv, TypeOK, CallType, EngineType
  <1>1. /\ e \in Desc /\ m \in Desc /\ f \in Frame /\ g \in Nat
        /\ f.segs \in Nat /\ f.segs > 0 /\ g < f.segs
        /\ N \in Nat /\ N > 1 /\ NextDesc(e) \in Desc /\ fetched \in Seq(Segment)
        /\ queue \in Seq(Frame)
    BY <1>0, RingAssumption, NextDescType
       DEF GiveDescriptor, Goto, TypeInv, TypeOK, CallType, EngineType, CallInv, Frame
  <1>2. /\ UNCHANGED <<buf, dmaState, fetched, frame, toSet>> /\ dmaDesc' = m
        /\ ls'[e] <=> g + 1 = f.segs
        /\ \A d \in Desc : d # e => (ls'[d] <=> ls[d])
        /\ \A d \in Desc : own'[d] = IF d = e THEN "dma" ELSE own[d]
        /\ pc[c] = "give" /\ queue' = IF g + 1 = f.segs THEN Append(queue, f) ELSE queue
    BY <1>0 DEF GiveDescriptor, Goto, TypeInv, TypeOK, RingType, dmaVars
  <1>3. /\ pc'[c] = IF g + 1 = f.segs THEN "advance" ELSE "give"
        /\ given'[c] = g + 1 /\ cursor'[c] = NextDesc(e)
        /\ \A d \in Context : d # c => pc'[d] = "idle"
    BY <1>0 DEF GiveDescriptor, Goto, TypeInv, TypeOK, CallType, OthersIdle
  <1>4. End = e /\ End' = NextDesc(e)
    <2>1. CASE c = "main"
      BY <1>0, <1>2, <1>3, <2>1 DEF End
    <2>2. CASE c = "isr"
      <3>1. pc["main"] = "idle" /\ pc'["main"] = "idle"
        BY <1>3, <2>2 DEF Context, OthersIdle
      <3> QED BY <1>0, <1>2, <1>3, <2>2, <3>1 DEF End
    <2> QED BY <2>1, <2>2 DEF Context
  <1>5. Part = g /\ Part' = IF g + 1 = f.segs THEN 0 ELSE g + 1
    <2>1. CASE c = "main"
      BY <1>0, <1>2, <1>3, <2>1 DEF Part, Context
    <2>2. CASE c = "isr"
      <3>1. pc["main"] = "idle" /\ pc'["main"] = "idle"
        BY <1>3, <2>2 DEF Context, OthersIdle
      <3> QED BY <1>0, <1>2, <1>3, <2>2, <3>1 DEF Part
    <2> QED BY <2>1, <2>2 DEF Context
  <1>6. Line = (IF g = 0 THEN queue ELSE Append(queue, f)) /\ Line' = Append(queue, f)
    <2>1. f = IF pc["main"] = "give" THEN frame["main"] ELSE frame["isr"]
      BY <1>0, <1>2 DEF Context, OthersIdle
    <2>2. CASE g + 1 = f.segs
      BY <1>1, <1>2, <1>5, <2>1, <2>2 DEF Line
    <2>3. CASE g + 1 # f.segs
      <3>1. f = IF pc'["main"] = "give" THEN frame'["main"] ELSE frame'["isr"]
        BY <1>0, <1>2, <1>3, <2>3 DEF Context, OthersIdle
      <3> QED BY <1>1, <1>2, <1>5, <2>1, <2>3, <3>1 DEF Line
    <2> QED BY <2>2, <2>3
  <1>7. /\ \A i \in 1 .. Len(Line) : i \in 1 .. Len(Line') /\ Line'[i] = Line[i]
        /\ Len(Line) \in Nat /\ Line'[Len(Line')] = f
        /\ Len(Line') = IF g = 0 THEN Len(Line) + 1 ELSE Len(Line)
        /\ Len(Line') > 0 /\ (g > 0 => Len(Line) > 0 /\ Line[Len(Line)] = f)
    BY <1>1, <1>6
  <1>8. PICK idx, sg \in [Desc -> Nat] : Flight(idx, sg)
    BY DEF FlightInv
  <1>25. PICK k \in Nat : k = Len(Line')
    BY <1>7
  <1> DEFINE idx1 == [idx EXCEPT ![e] = k]
             sg1  == [sg EXCEPT ![e] = g + 1]
  <1>9. /\ idx1 \in [Desc -> Nat] /\ sg1 \in [Desc -> Nat]
        /\ idx1[e] = Len(Line') /\ sg1[e] = g + 1
        /\ \A d \in Desc : d # e => idx1[d] = idx[d] /\ sg1[d] = sg[d]
    BY <1>1, <1>25
  <1> HIDE DEF idx1, sg1
  <1>10. own[e] = "cpu" /\ buf[e] = <<f.id, g + 1>>
    BY <1>0 DEF ReadyToGive
  <1>11. \A d \in Desc : Flying(d)' <=> Flying(d) \/ d = e
    BY <1>2 DEF Flying
  <1>12. ~Flying(e)
    BY <1>10 DEF Flying
  <1>13. \A d \in Desc : /\ Off(m, d) \in 0 .. N - 1 /\ (Off(m, d) = 0 <=> d = m)
                         /\ Off(m, d) = Off(m, e) <=> d = e
    <2>1. ASSUME NEW d \in Desc
          PROVE  Off(m, d) \in 0 .. N - 1 /\ (Off(m, d) = 0 <=> d = m)
      BY <1>1, OffType, OffZero
    <2>2. ASSUME NEW d \in Desc
          PROVE  Off(m, d) = Off(m, e) <=> d = e
      BY <1>1, OffEqual
    <2> QED BY <2>1, <2>2
  <1>14. Off(m, NextDesc(e)) = IF Off(m, e) = N - 1 THEN 0 ELSE Off(m, e) + 1
    BY <1>1, OffToNext
  <1>15. \A d \in Desc : Flying(d) => Off(m, d) < Off(m, e)
    <2>1. CASE own[m] = "cpu"
      BY <1>0, <2>1 DEF FlightInv, Shape, Flying
    <2>2. CASE own[m] = "dma"
      <3>1. e # m
        BY <1>10, <2>2
      <3> QED BY <1>0, <1>4, <2>2, <3>1 DEF FlightInv, Shape
    <2> QED BY <1>1, <2>1, <2>2 DEF TypeInv, TypeOK, RingType
  <1>16. Shape'
    <2>1. own'[m] = "dma"
      <3>1. CASE own[m] = "cpu"
        BY <1>0, <1>1, <1>2, <1>4, <3>1 DEF FlightInv, Shape
      <3>2. CASE own[m] = "dma"
        BY <1>1, <1>2, <3>2
      <3> QED BY <1>1, <3>1, <3>2 DEF TypeInv, TypeOK, RingType
    <2>2. ASSUME NEW d \in Desc
          PROVE  Flying(d)' <=> NextDesc(e) = m \/ Off(m, d) < Off(m, NextDesc(e))
      <3>1. CASE own[m] = "cpu"
        <4>1. e = m /\ ~Flying(d)
          BY <1>0, <1>4, <3>1 DEF FlightInv, Shape, Flying
        <4>2. Off(m, e) = 0 /\ NextDesc(e) # m
          BY <1>1, <1>13, <4>1, NextDistinct
        <4> QED BY <1>1, <1>11, <1>13, <1>14, <4>1, <4>2
      <3>2. CASE own[m] = "dma"
        <4>1. e # m
          BY <1>10, <3>2
        <4>2. Flying(d) <=> Off(m, d) < Off(m, e)
          BY <1>0, <1>4, <3>2, <4>1 DEF FlightInv, Shape
        <4> QED BY <1>1, <1>11, <1>13, <1>14, <4>1, <4>2
      <3> QED BY <1>1, <3>1, <3>2 DEF TypeInv, TypeOK, RingType
    <2> QED BY <1>0, <1>2, <1>4, <2>1, <2>2 DEF Shape
  <1>17. Drained' /\ (Flying(m) \/ e = m)
    <2>1. own'[m] = "dma" /\ (Flying(m) \/ e = m)
      BY <1>0, <1>1, <1>2, <1>4 DEF FlightInv, Shape, Flying, TypeInv, TypeOK, RingType
    <2> QED BY <1>0, <1>2, <2>1 DEF Drained
  <1>18. HasRead'
    <2>1. ASSUME Len(fetched) > 0 PROVE Len(Line) > 0 /\ Line'[1] = Line[1]
      <3>1. Len(Line) > 0
        BY <2>1 DEF FlightInv, HasRead
      <3>2. 1 \in 1 .. Len(Line)
        BY <1>7, <3>1
      <3> QED BY <1>7, <3>1, <3>2
    <2>2. \A s \in 1 .. Len(fetched) : fetched[s] = <<Line[1].id, s>>
      BY DEF FlightInv, HasRead
    <2>3. \A s \in 1 .. Len(fetched) : Len(fetched) > 0
      <3>1. Len(fetched) \in Nat
        BY <1>1
      <3> QED BY <3>1
    <2> QED BY <1>2, <1>7, <2>1, <2>2, <2>3 DEF HasRead
  <1>19. \A d \in Desc : Flying(d) => /\ idx[d] \in 1 .. Len(Line) /\ Line'[idx[d]] = Line[idx[d]]
                                      /\ idx[d] = Len(Line) /\ g > 0 => sg[d] <= g
    BY <1>5, <1>7, <1>8 DEF Flight, Content
  <1>26. \A d \in Desc : Flying(d) /\ idx[d] = Len(Line) /\ g > 0 => ~ls[d]
    <2>1. SUFFICES ASSUME NEW d \in Desc, Flying(d), idx[d] = Len(Line), g > 0 PROVE ~ls[d]
      OBVIOUS
    <2>2. sg[d] # Line[idx[d]].segs
      BY <1>1, <1>7, <1>19, <2>1
    <2> QED BY <1>8, <2>1, <2>2 DEF Flight, Content
  <1>20. Content(idx1, sg1)'
    <2>1. ASSUME NEW d \in Desc, Flying(d)'
          PROVE  /\ idx1[d] \in 1 .. Len(Line') /\ sg1[d] \in 1 .. Line'[idx1[d]].segs
                 /\ buf[d] = <<Line'[idx1[d]].id, sg1[d]>>
                 /\ ls'[d] <=> sg1[d] = Line'[idx1[d]].segs
                 /\ Part' > 0 /\ idx1[d] = Len(Line') => sg1[d] <= Part'
      <3>1. CASE d = e
        <4>1. idx1[d] = Len(Line') /\ Line'[idx1[d]] = f /\ sg1[d] = g + 1
          BY <1>7, <1>9, <3>1
        <4>2. ls'[d] <=> sg1[d] = f.segs
          BY <1>2, <3>1, <4>1
        <4>3. idx1[d] \in 1 .. Len(Line') /\ sg1[d] \in 1 .. f.segs
          <5>1. k \in 1 .. k /\ idx1[d] = k
            BY <1>7, <1>25, <4>1
          <5>2. g \in Nat /\ f.segs \in Nat /\ g < f.segs
            BY <1>1
          <5>3. g + 1 \in 1 .. f.segs
            BY <5>2
          <5> QED BY <1>25, <4>1, <5>1, <5>3
        <4>4. buf[d] = <<f.id, sg1[d]>>
          BY <1>10, <3>1, <4>1
        <4>5. Part' > 0 => sg1[d] <= Part'
          BY <1>1, <1>5, <4>1
        <4> QED BY <4>1, <4>2, <4>3, <4>4, <4>5
      <3>2. CASE d # e
        <4>1. Flying(d)
          BY <1>11, <2>1, <3>2
        <4>2. /\ idx1[d] \in 1 .. Len(Line) /\ sg1[d] \in 1 .. Line[idx1[d]].segs
              /\ buf[d] = <<Line[idx1[d]].id, sg1[d]>>
              /\ ls[d] <=> sg1[d] = Line[idx1[d]].segs
          BY <1>8, <1>9, <3>2, <4>1 DEF Flight, Content
        <4>3. ls'[d] <=> ls[d]
          BY <1>2, <3>2
        <4>4. Part' > 0 /\ idx1[d] = Len(Line') => sg1[d] <= Part'
          <5>1. idx[d] \in 1 .. Len(Line) /\ (idx[d] = Len(Line) /\ g > 0 => sg[d] <= g)
            BY <1>19, <4>1
          <5>2. CASE g = 0
            BY <1>7, <1>9, <3>2, <5>1, <5>2
          <5>3. CASE g > 0
            <6>1. Len(Line') = Len(Line) /\ idx1[d] = idx[d] /\ sg1[d] = sg[d] /\ sg[d] \in Nat
              BY <1>7, <1>9, <3>2, <5>3
            <6>2. Part' > 0 => Part' = g + 1
              BY <1>5
            <6> QED BY <1>1, <5>1, <5>3, <6>1, <6>2
          <5> QED BY <1>1, <5>2, <5>3
        <4> QED BY <1>7, <4>2, <4>3, <4>4
      <3> QED BY <3>1, <3>2
    <2> QED BY <1>2, <2>1 DEF Content
  <1>21. Order(idx1)'
    <2>1. ASSUME NEW a \in Desc, NEW b \in Desc, Flying(a)', Flying(b)', Off(m, a) < Off(m, b)
          PROVE  idx1[a] <= idx1[b] /\ (ls'[a] => idx1[a] < idx1[b])
      <3>1. Flying(a) /\ a # e
        <4>1. a # e
          <5>1. SUFFICES ASSUME a = e PROVE FALSE
            OBVIOUS
          <5>2. Flying(b)
            <6>1. b # e
              BY <1>1, <1>13, <2>1, <5>1
            <6> QED BY <1>11, <2>1, <6>1
          <5>3. Off(m, b) < Off(m, e) /\ Off(m, b) \in 0 .. N - 1 /\ Off(m, e) \in 0 .. N - 1
            BY <1>1, <1>13, <1>15, <5>2
          <5> QED BY <2>1, <5>1, <5>3
        <4> QED BY <1>11, <2>1, <4>1
      <3>2. idx1[a] = idx[a] /\ (ls'[a] <=> ls[a])
        BY <1>2, <1>9, <3>1
      <3>3. CASE b = e
        <4>1. idx[a] \in 1 .. Len(Line) /\ idx1[b] = Len(Line')
          BY <1>9, <1>19, <3>1, <3>3
        <4>2. idx1[a] <= idx1[b] /\ (idx[a] < Len(Line) \/ g = 0 => idx1[a] < idx1[b])
          BY <1>1, <1>7, <3>2, <4>1
        <4>3. ls'[a] => idx[a] < Len(Line) \/ g = 0
          <5>1. ls'[a] => idx[a] # Len(Line) \/ ~(g > 0)
            BY <1>26, <3>1, <3>2
          <5>2. idx[a] # Len(Line) \/ ~(g > 0) => idx[a] < Len(Line) \/ g = 0
            BY <1>1, <1>7, <4>1
          <5> QED BY <5>1, <5>2, Zenon
        <4> QED BY <4>2, <4>3, Zenon
      <3>4. CASE b # e
        BY <1>0, <1>8, <1>9, <1>11, <2>1, <3>1, <3>2, <3>4 DEF Flight, Order
      <3> QED BY <3>3, <3>4
    <2> QED BY <1>0, <1>2, <2>1 DEF Order
  <1>22. Chain(idx1, sg1)'
    <2>1. ASSUME NEW a \in Desc, Flying(a)', Flying(NextDesc(a))', NextDesc(a) # m
          PROVE  IF ls'[a] THEN idx1[NextDesc(a)] = idx1[a] + 1 /\ sg1[NextDesc(a)] = 1
                 ELSE idx1[NextDesc(a)] = idx1[a] /\ sg1[NextDesc(a)] = sg1[a] + 1
      <3> DEFINE b == NextDesc(a)
      <3>0. b \in Desc /\ Off(m, b) = (IF Off(m, a) = N - 1 THEN 0 ELSE Off(m, a) + 1) /\ b # m
        BY <1>1, <2>1, NextDescType, OffToNext
      <3> HIDE DEF b
      <3>1. Flying(a) /\ a # e
        <4>1. a # e
          <5>1. SUFFICES ASSUME a = e PROVE FALSE
            OBVIOUS
          <5>2. Off(m, b) > Off(m, e)
            BY <1>1, <1>13, <3>0, <5>1
          <5>3. b = e \/ Flying(b)
            BY <1>11, <2>1, <3>0 DEF b
          <5>4. CASE b = e
            BY <1>1, <1>13, <5>2, <5>4
          <5>5. CASE Flying(b)
            <6>1. Off(m, b) < Off(m, e) /\ Off(m, b) \in 0 .. N - 1 /\ Off(m, e) \in 0 .. N - 1
              BY <1>1, <1>13, <1>15, <3>0, <5>5
            <6> QED BY <5>2, <6>1
          <5> QED BY <5>3, <5>4, <5>5
        <4> QED BY <1>11, <2>1, <4>1
      <3>2. idx1[a] = idx[a] /\ sg1[a] = sg[a] /\ (ls'[a] <=> ls[a])
        BY <1>2, <1>9, <3>1
      <3>3. CASE b = e
        <4>1. idx[a] = Len(Line) /\ IF g > 0 THEN sg[a] = g ELSE ls[a]
          BY <1>4, <1>5, <1>8, <3>1, <3>3 DEF Flight, Last, b
        <4>2. g > 0 => ~ls[a]
          BY <1>26, <3>1, <4>1
        <4>3. idx1[b] = Len(Line') /\ sg1[b] = g + 1
          BY <1>9, <3>3
        <4>4. CASE g = 0
          <5>1. idx1[b] = idx1[a] + 1 /\ sg1[b] = 1 /\ ls'[a]
            BY <1>7, <3>2, <4>1, <4>3, <4>4
          <5> QED BY <5>1 DEF b
        <4>5. CASE g > 0
          <5>1. idx1[b] = idx1[a] /\ sg1[b] = sg1[a] + 1 /\ ~ls'[a]
            BY <1>7, <3>2, <4>1, <4>2, <4>3, <4>5
          <5> QED BY <5>1 DEF b
        <4> QED BY <1>1, <4>4, <4>5
      <3>4. CASE b # e
        <4>1. Flying(b)
          BY <1>11, <2>1, <3>0, <3>4 DEF b
        <4>2. idx1[b] = idx[b] /\ sg1[b] = sg[b]
          BY <1>9, <3>0, <3>4
        <4> QED BY <1>0, <1>8, <2>1, <3>1, <3>2, <4>1, <4>2 DEF Flight, Chain, b
      <3> QED BY <3>3, <3>4
    <2> QED BY <1>0, <1>2, <2>1 DEF Chain
  <1>23. First(idx1, sg1)'
    <2>1. CASE Flying(m)
      BY <1>0, <1>1, <1>2, <1>8, <1>9, <1>12, <2>1 DEF Flight, First
    <2>2. CASE ~Flying(m)
      <3>1. e = m
        BY <1>17, <2>2
      <3>2. dmaState # "close" /\ own[m] = "cpu"
        BY <1>0, <1>10, <3>1 DEF FlightInv, Shape
      <3>3. IF g > 0 THEN Len(Line) = 1 /\ Len(fetched) = g ELSE Len(Line) = 0 /\ Len(fetched) = 0
        BY <1>0, <1>5, <3>2 DEF FlightInv, Drained
      <3>4. Len(Line') = 1 /\ Len(fetched) = g
        BY <1>1, <1>7, <3>3
      <3>5. idx1[m] = 1 /\ sg1[m] = Len(fetched) + 1
        BY <1>9, <3>1, <3>4
      <3> QED BY <1>0, <1>2, <3>2, <3>5 DEF First
    <2> QED BY <2>1, <2>2
  <1>24. Last(idx1, sg1)'
    <2>1. ASSUME NEW d \in Desc, NextDesc(d) = NextDesc(e) PROVE d = e
      BY <2>1, RingAssumption DEF NextDesc, Desc
    <2>2. IF Part' > 0 THEN sg1[e] = Part' ELSE ls'[e]
      BY <1>1, <1>2, <1>5, <1>9
    <2> QED BY <1>4, <1>9, <2>1, <2>2 DEF Last
  <1> QED BY <1>9, <1>16, <1>17, <1>18, <1>20, <1>21, <1>22, <1>23, <1>24 DEF FlightInv, Flight

-----------------------------------------------------------------------------
(* The calls, and the line they leave.                                     *)

\* The descriptor d waits for the engine with its segment of the frame of c.
Filled(c, d) == own[d] = "cpu" /\ buf[d] = <<frame[c].id, Off(toSet, d) + 1>>

\* Where a call is in the ring.
Position(c) ==
  /\ pc[c] \in {"check", "copy"} => Off(toSet, cursor[c]) = copied[c]
  /\ pc[c] = "copy" => at[c] = cursor[c]
  /\ pc[c] \in {"prepare", "first"} => copied[c] = frame[c].segs
  /\ pc[c] = "give" => Off(toSet, cursor[c]) = given[c]

\* What it has copied and not given yet.
Filling(c) ==
  /\ pc[c] \in {"check", "copy", "prepare", "first"} =>
       \A d \in Desc : Off(toSet, d) < copied[c] => Filled(c, d)
  /\ pc[c] = "give" =>
       \A d \in Desc : given[c] <= Off(toSet, d) /\ Off(toSet, d) < frame[c].segs => Filled(c, d)

Accepted(c) == pc[c] \in {"advance", "resume", "clear", "demand", "ok"} => queued[c]

CallsInv == \A c \in Context : Position(c) /\ Filling(c) /\ Accepted(c)

RingInv == SendInv /\ FlightInv /\ CallsInv

LEMMA IdleCall ==
  ASSUME NEW c \in Context, pc[c] = "idle" PROVE Position(c) /\ Filling(c) /\ Accepted(c)
  BY DEF Position, Filling, Accepted

LEMMA RingInit == ASSUME Init PROVE RingInv
  <1>1. SendInv
    BY SendInit
  <1>2. /\ pc["main"] = "idle" /\ pc["isr"] = "idle" /\ queue = << >> /\ fetched = << >>
        /\ toSet = 0 /\ dmaDesc = 0 /\ \A d \in Desc : own[d] = "cpu"
        /\ dmaState = "run" /\ 0 \in Desc
    BY RingAssumption DEF Init, Context, Desc
  <1>3. End = 0 /\ Part = 0 /\ Line = << >>
    BY <1>2 DEF End, Part, Line
  <1>4. Shape /\ Drained /\ HasRead
    BY <1>2, <1>3 DEF Shape, Drained, HasRead
  <1>5. [d \in Desc |-> 0] \in [Desc -> Nat]
    OBVIOUS
  <1>6. \A idx, sg \in [Desc -> Nat] : Flight(idx, sg)
    BY <1>2 DEF Flight, Content, Order, Chain, First, Last, Flying
  <1>7. FlightInv
    BY <1>4, <1>5, <1>6 DEF FlightInv
  <1>8. CallsInv
    <2>1. \A c \in Context : pc[c] = "idle"
      BY DEF Init
    <2> QED BY <2>1, IdleCall DEF CallsInv
  <1> QED BY <1>1, <1>7, <1>8 DEF RingInv

\* The line does not change while nothing is given.
LEMMA LineKept ==
  ASSUME NEW c \in Context, OthersIdle(c), OthersIdle(c)', UNCHANGED <<toSet, queue>>,
         pc[c] \notin {"give", "advance"}, pc'[c] \notin {"give", "advance"}
  PROVE  End' = End /\ Part' = Part /\ Line' = Line
  <1>1. \A d \in Context : pc[d] \notin {"give", "advance"} /\ pc'[d] \notin {"give", "advance"}
    BY DEF OthersIdle
  <1>2. "main" \in Context /\ "isr" \in Context
    BY DEF Context
  <1>3. End' = End /\ Part = 0 /\ Part' = 0
    BY <1>1, <1>2 DEF End, Part
  <1> QED BY <1>3 DEF Line

LEMMA RingCall ==
  ASSUME RingInv, "during" \notin Windows,
         NEW c \in Context, NEW n, Call(c, n), c = "isr" \/ c = "main"
  PROVE  FlightInv' /\ CallsInv'
  <1> USE DEF RingInv, SendInv
  <1>1. pc[c] = "idle" /\ pc' = [pc EXCEPT ![c] = "take"]
    BY DEF Call, Goto
  <1>2. OthersIdle(c)
    BY DEF Call, Goto, Runs, MayInterrupt, Context, OthersIdle
  <1>3. OthersIdle(c)' /\ pc'[c] = "take"
    BY <1>1, <1>2 DEF OthersIdle, TypeInv, TypeOK, CallType
  <1>4. UNCHANGED <<own, ls, buf, dmaDesc, dmaState, fetched, toSet, queue>>
    BY DEF Call, ringVars, dmaVars
  <1>5. End' = End /\ Part' = Part /\ Line' = Line
    BY <1>1, <1>2, <1>3, <1>4, LineKept
  <1>6. FlightInv'
    BY <1>4, <1>5, FlightKept
  <1>7. CallsInv'
    BY <1>3 DEF CallsInv, OthersIdle, Position, Filling, Accepted
  <1> QED BY <1>6, <1>7

\* The engine changes neither the locals of a call nor what is the CPU's.
LEMMA RingEngine ==
  ASSUME RingInv, Dma
  PROVE  FlightInv' /\ CallsInv'
  <1> USE DEF RingInv, SendInv
  <1>1. UNCHANGED <<pc, frame, at, cursor, copied, given, queued, toSet, buf>>
    BY DEF Dma, DmaSuspend, DmaRead, DmaClose, localVars, ringVars
  <1>2. \A d \in Desc : own[d] = "cpu" => own'[d] = "cpu"
    BY DEF Dma, DmaSuspend, DmaRead, DmaClose, ringVars, EngineType, TypeInv, TypeOK, RingType
  <1>3. ASSUME NEW c \in Context PROVE Position(c)' /\ Filling(c)' /\ Accepted(c)'
    <2>1. Position(c)'
      BY <1>1 DEF CallsInv, Position
    <2>2. \A d \in Desc : Filled(c, d) => Filled(c, d)'
      BY <1>1, <1>2 DEF Filled
    <2>3. Filling(c)'
      BY <1>1, <2>2 DEF CallsInv, Filling
    <2>4. Accepted(c)'
      BY <1>1 DEF CallsInv, Accepted
    <2> QED BY <2>1, <2>3, <2>4
  <1>4. CASE DmaSuspend
    <2>1. UNCHANGED <<own, ls, dmaDesc, fetched, queue>> /\ dmaState # "close" /\ dmaState' # "close"
      BY <1>4 DEF DmaSuspend
    <2>2. End' = End /\ Part' = Part /\ Line' = Line
      BY <1>1, <2>1 DEF End, Part, Line
    <2> QED BY <1>1, <1>3, <2>1, <2>2, FlightKept DEF CallsInv
  <1>5. CASE DmaRead
    BY <1>3, <1>5, FlightRead DEF CallsInv
  <1>6. CASE DmaClose
    BY <1>3, <1>6, FlightCloses, FlightLeaves DEF CallsInv
  <1> QED BY <1>4, <1>5, <1>6 DEF Dma

LEMMA OnlyCaller ==
  ASSUME SendInv, NEW c \in Context, Output(c)
  PROVE  pc[c] # "idle" /\ OthersIdle(c) /\ OthersIdle(c)'
  <1>1. \E from, to : from # "idle" /\ Goto(c, from, to)
    BY Zenon DEF Output, TakeDescriptor, CheckOwn, Copy, Return, PrepareCheck, PrepareFirst,
                 GiveDescriptor, AdvanceToSet, TestTbus, ClearTbus, PollDemand
  <1>2. pc[c] # "idle" /\ \A d \in Context : d # c => pc'[d] = pc[d]
    BY <1>1 DEF Goto, SendInv, TypeInv, TypeOK, CallType
  <1> QED BY <1>2 DEF OthersIdle, SendInv, Alone

\* It is enough to look at the call that takes the step.
LEMMA CallsOf ==
  ASSUME NEW c \in Context, OthersIdle(c)', Position(c)', Filling(c)', Accepted(c)'
  PROVE  CallsInv'
  BY DEF CallsInv, OthersIdle, Position, Filling, Accepted

LEMMA RingOutput ==
  ASSUME RingInv, NEW c \in Context, Output(c)
  PROVE  FlightInv' /\ CallsInv'
  <1> USE DEF RingInv, SendInv
  <1>0. OthersIdle(c) /\ OthersIdle(c)' /\ Position(c) /\ Filling(c) /\ Accepted(c)
    BY OnlyCaller DEF CallsInv
  <1>1. CASE TakeDescriptor(c)
    <2>1. /\ UNCHANGED <<own, ls, buf, dmaDesc, dmaState, fetched, toSet, queue>>
          /\ pc[c] = "take" /\ pc'[c] = "check" /\ cursor'[c] = toSet /\ copied'[c] = copied[c]
      BY <1>1 DEF TakeDescriptor, Goto, ringVars, dmaVars, TypeInv, TypeOK, CallType
    <2>2. copied[c] = 0 /\ Off(toSet, toSet) = 0
      BY <2>1, OffZero DEF TypeInv, TypeOK, CallInv, RingType
    <2>3. FlightInv'
      BY <1>0, <2>1, LineKept, FlightKept
    <2>4. \A d \in Desc : ~(Off(toSet, d) < 0)
      BY OffType, RingAssumption DEF TypeInv, TypeOK, RingType
    <2>5. Position(c)' /\ Filling(c)' /\ Accepted(c)'
      BY <2>1, <2>2, <2>4 DEF Position, Filling, Accepted
    <2> QED BY <1>0, <2>3, <2>5, CallsOf
  <1>2. CASE CheckOwn(c)
    <2>1. /\ UNCHANGED <<own, ls, buf, dmaDesc, dmaState, fetched, toSet, queue, cursor, copied, frame>>
          /\ pc[c] = "check" /\ pc'[c] \in {"copy", "error"}
      BY <1>2 DEF CheckOwn, Goto, ringVars, dmaVars, TypeInv, TypeOK, CallType
    <2>2. FlightInv'
      BY <1>0, <2>1, LineKept, FlightKept
    <2>3. pc'[c] = "copy" => at'[c] = cursor[c]
      <3>1. CASE own[cursor[c]] = "dma"
        BY <1>2, <3>1 DEF CheckOwn, Goto, TypeInv, TypeOK, CallType
      <3>2. CASE own[cursor[c]] # "dma"
        <4>1. at'[c] = IF copied[c] = 0 THEN at[c] ELSE cursor[c]
          BY <1>2, <3>2 DEF CheckOwn, TypeInv, TypeOK, CallType
        <4> QED BY <2>1, <4>1 DEF CopyInv
      <3> QED BY <3>1, <3>2
    <2>4. Position(c)' /\ Filling(c)' /\ Accepted(c)'
      BY <1>0, <2>1, <2>3 DEF Position, Filling, Accepted, Filled
    <2> QED BY <1>0, <2>2, <2>4, CallsOf
  <1>3. CASE Copy(c)
    <2>1. /\ UNCHANGED <<own, ls, dmaDesc, dmaState, fetched, toSet, queue, frame>>
          /\ pc[c] = "copy" /\ copied'[c] = copied[c] + 1
          /\ pc'[c] = IF copied[c] + 1 = frame[c].segs THEN "prepare" ELSE "check"
      BY <1>3 DEF Copy, Goto, dmaVars, TypeInv, TypeOK, CallType
    <2>2. PICK e \in Desc : e = at[c] /\ e = cursor[c]
      BY <1>0, <2>1 DEF Position, TypeInv, TypeOK, CallType
    <2>3. \A d \in Desc : buf'[d] = IF d = e THEN <<frame[c].id, copied[c] + 1>> ELSE buf[d]
      BY <1>3, <2>2 DEF Copy, TypeInv, TypeOK, RingType
    <2>4. /\ own[e] = "cpu" /\ Off(toSet, e) = copied[c] /\ copied[c] \in Nat
          /\ copied[c] < frame[c].segs /\ frame[c].segs \in 1 .. MaxSegs
          /\ toSet \in Desc /\ MaxSegs \in Nat /\ MaxSegs <= N /\ N \in Nat
      <3>1. own[e] = "cpu"
        BY <2>1, <2>2 DEF CopyInv, CopiesIntoOwnBuffers
      <3>2. Off(toSet, e) = copied[c]
        BY <1>0, <2>1, <2>2 DEF Position
      <3>3. copied[c] < frame[c].segs /\ copied[c] \in 0 .. MaxSegs
        BY <2>1 DEF TypeInv, TypeOK, CallType, CallInv
      <3>4. frame[c].segs \in 1 .. MaxSegs /\ toSet \in Desc
        BY DEF TypeInv, TypeOK, CallType, RingType, Frame
      <3> QED BY <3>1, <3>2, <3>3, <3>4, RingAssumption
    <2>5. FlightInv'
      <3>1. \A d \in Desc : Flying(d) => buf'[d] = buf[d]
        BY <2>3, <2>4 DEF Flying
      <3> QED BY <1>0, <2>1, <3>1, LineKept, FlightKept
    <2>6. ASSUME NEW d \in Desc, Off(toSet, d) < copied[c] + 1
          PROVE  Filled(c, d)'
      <3>1. CASE d = e
        BY <2>1, <2>3, <2>4, <3>1 DEF Filled
      <3>2. CASE d # e
        <4>1. Off(toSet, d) < copied[c]
          BY <2>2, <2>4, <2>6, <3>2, OffType, OffEqual
        <4>2. Filled(c, d)
          BY <1>0, <2>1, <4>1 DEF Filling
        <4> QED BY <2>1, <2>3, <3>2, <4>2 DEF Filled
      <3> QED BY <3>1, <3>2
    <2>7. pc'[c] = "check" => Off(toSet, cursor'[c]) = copied[c] + 1
      <3>1. SUFFICES ASSUME copied[c] + 1 # frame[c].segs
                     PROVE  Off(toSet, cursor'[c]) = copied[c] + 1
        BY <2>1
      <3>2. cursor'[c] = NextDesc(e)
        BY <1>3, <2>2, <3>1 DEF Copy, TypeInv, TypeOK, CallType
      <3>3. Off(toSet, e) # N - 1
        BY <2>4, <3>1
      <3> QED BY <2>2, <2>4, <3>2, <3>3, OffToNext
    <2>8. Position(c)'
      BY <2>1, <2>7 DEF Position
    <2>9. Filling(c)' /\ Accepted(c)'
      BY <2>1, <2>6 DEF Filling, Accepted
    <2> QED BY <1>0, <2>5, <2>8, <2>9, CallsOf
  <1>4. CASE Return(c)
    <2>1. /\ UNCHANGED <<own, ls, buf, dmaDesc, dmaState, fetched, toSet, queue>>
          /\ pc[c] \in {"ok", "error"} /\ pc'[c] = "idle"
      BY <1>4 DEF Return, Goto, ringVars, dmaVars, TypeInv, TypeOK, CallType
    <2>2. FlightInv'
      BY <1>0, <2>1, LineKept, FlightKept
    <2> QED BY <1>0, <2>1, <2>2, CallsOf DEF Position, Filling, Accepted
  <1>5. CASE PrepareCheck(c)
    <2>1. /\ UNCHANGED <<own, ls, buf, dmaDesc, dmaState, fetched, toSet, queue, copied, frame>>
          /\ pc[c] = "prepare" /\ pc'[c] = IF own[toSet] = "dma" THEN "ok" ELSE "first"
      BY <1>5 DEF PrepareCheck, Goto, ringVars, dmaVars, localVars, TypeInv, TypeOK, CallType
    <2>2. FlightInv'
      BY <1>0, <2>1, LineKept, FlightKept
    \* The first buffer has been copied to, so it is still the CPU's.
    <2>3. own[toSet] = "cpu"
      <3>1. toSet \in Desc /\ Off(toSet, toSet) = 0
        BY OffZero DEF TypeInv, TypeOK, RingType
      <3>2. copied[c] = frame[c].segs /\ frame[c].segs \in 1 .. MaxSegs /\ MaxSegs \in Nat
        BY <1>0, <2>1, RingAssumption DEF Position, TypeInv, TypeOK, CallType, Frame
      <3>3. Off(toSet, toSet) < copied[c]
        BY <3>1, <3>2
      <3> QED BY <1>0, <2>1, <3>1, <3>3 DEF Filling, Filled
    <2>4. Position(c)' /\ Filling(c)' /\ Accepted(c)'
      BY <1>0, <2>1, <2>3 DEF Position, Filling, Accepted, Filled
    <2> QED BY <1>0, <2>2, <2>4, CallsOf
  <1>6. CASE PrepareFirst(c)
    <2>1. /\ UNCHANGED <<own, ls, buf, dmaDesc, dmaState, fetched, toSet, queue, copied, frame, given>>
          /\ pc[c] = "first" /\ pc'[c] = "give" /\ cursor'[c] = toSet
      BY <1>6 DEF PrepareFirst, Goto, ringVars, dmaVars, TypeInv, TypeOK, CallType
    <2>2. given[c] = 0 /\ given'[c] = 0 /\ toSet \in Desc /\ Off(toSet, toSet) = 0
      BY <2>1, OffZero DEF TypeInv, TypeOK, CallInv, RingType
    <2>3. End' = End /\ Part' = Part /\ Line' = Line
      <3>1. CASE c = "main"
        <4>1. pc["isr"] = "idle" /\ pc'["isr"] = "idle"
          BY <1>0, <3>1 DEF OthersIdle, Context
        <4> QED BY <2>1, <2>2, <3>1, <4>1 DEF End, Part, Line
      <3>2. CASE c = "isr"
        <4>1. pc["main"] = "idle" /\ pc'["main"] = "idle"
          BY <1>0, <3>2 DEF OthersIdle, Context
        <4> QED BY <2>1, <2>2, <3>2, <4>1 DEF End, Part, Line
      <3> QED BY <3>1, <3>2 DEF Context
    <2>4. FlightInv'
      BY <2>1, <2>3, FlightKept
    <2>5. Position(c)' /\ Filling(c)' /\ Accepted(c)'
      BY <1>0, <2>1, <2>2 DEF Position, Filling, Accepted, Filled
    <2> QED BY <1>0, <2>4, <2>5, CallsOf
  <1>7. CASE GiveDescriptor(c)
    <2>1. /\ pc[c] = "give" /\ UNCHANGED <<toSet, frame, buf>> /\ given'[c] = given[c] + 1
          /\ pc'[c] = IF given[c] + 1 = frame[c].segs THEN "advance" ELSE "give"
          /\ cursor'[c] = NextDesc(cursor[c])
      BY <1>7 DEF GiveDescriptor, Goto, TypeInv, TypeOK, CallType
    <2>2. PICK e \in Desc : e = cursor[c]
      BY DEF TypeInv, TypeOK, CallType
    <2>3. /\ Off(toSet, e) = given[c] /\ given[c] \in Nat /\ given[c] < frame[c].segs
          /\ frame[c].segs \in 1 .. MaxSegs /\ MaxSegs \in Nat /\ MaxSegs <= N /\ N \in Nat
          /\ toSet \in Desc
      BY <1>0, <2>1, <2>2, RingAssumption
         DEF Position, TypeInv, TypeOK, CallType, CallInv, RingType, Frame
    <2>4. Filled(c, e)
      BY <1>0, <2>1, <2>2, <2>3 DEF Filling
    <2>5. FlightInv'
      BY <1>0, <1>7, <2>2, <2>3, <2>4, FlightGrows DEF Filled, ReadyToGive
    <2>6. \A d \in Desc : own'[d] = IF d = e THEN "dma" ELSE own[d]
      BY <1>7, <2>2 DEF GiveDescriptor, TypeInv, TypeOK, RingType
    <2>7. pc'[c] = "give" => Position(c)' /\ Filling(c)'
      <3>1. SUFFICES ASSUME pc'[c] = "give" PROVE Position(c)' /\ Filling(c)'
        OBVIOUS
      <3>2. given[c] + 1 # frame[c].segs
        BY <2>1, <3>1
      <3>3. Off(toSet, NextDesc(e)) = given[c] + 1
        BY <2>2, <2>3, <3>2, OffToNext
      <3>4. ASSUME NEW d \in Desc, given[c] + 1 <= Off(toSet, d), Off(toSet, d) < frame[c].segs
            PROVE  Filled(c, d)'
        <4>1. d # e /\ given[c] <= Off(toSet, d)
          BY <2>3, <3>4, OffType
        <4>2. Filled(c, d)
          BY <1>0, <2>1, <3>4, <4>1 DEF Filling
        <4> QED BY <2>1, <2>6, <4>1, <4>2 DEF Filled
      <3> QED BY <2>1, <2>2, <3>1, <3>3, <3>4 DEF Position, Filling
    <2>8. pc'[c] = "advance" => Position(c)' /\ Filling(c)'
      BY DEF Position, Filling
    <2>9. Accepted(c)'
      <3>1. queued'[c] <=> given[c] + 1 = frame[c].segs
        BY <1>7, Zenon DEF GiveDescriptor, TypeInv, TypeOK, CallType
      <3> QED BY <2>1, <3>1 DEF Accepted
    <2>10. pc'[c] \in {"give", "advance"}
      BY <2>1
    <2> QED BY <1>0, <2>5, <2>7, <2>8, <2>9, <2>10, CallsOf
  <1>8. CASE AdvanceToSet(c)
    <2>1. /\ UNCHANGED <<own, ls, buf, dmaDesc, dmaState, fetched, queue, cursor, queued>>
          /\ pc[c] = "advance" /\ pc'[c] = "resume" /\ toSet' = cursor[c]
      BY <1>8 DEF AdvanceToSet, Goto, ringVars, dmaVars, localVars, TypeInv, TypeOK, CallType
    <2>2. End' = End /\ Part' = Part /\ Line' = Line
      <3>1. CASE c = "main"
        <4>1. pc["isr"] = "idle" /\ pc'["isr"] = "idle"
          BY <1>0, <3>1 DEF OthersIdle, Context
        <4> QED BY <2>1, <3>1, <4>1 DEF End, Part, Line
      <3>2. CASE c = "isr"
        <4>1. pc["main"] = "idle" /\ pc'["main"] = "idle"
          BY <1>0, <3>2 DEF OthersIdle, Context
        <4> QED BY <2>1, <3>2, <4>1 DEF End, Part, Line
      <3> QED BY <3>1, <3>2 DEF Context
    <2>3. FlightInv'
      BY <2>1, <2>2, FlightKept
    <2>4. Position(c)' /\ Filling(c)' /\ Accepted(c)'
      BY <1>0, <2>1 DEF Position, Filling, Accepted
    <2> QED BY <1>0, <2>3, <2>4, CallsOf
  <1>9. CASE TestTbus(c) \/ ClearTbus(c) \/ PollDemand(c)
    <2>1. /\ UNCHANGED <<own, ls, buf, dmaDesc, fetched, toSet, queue, queued>>
          /\ dmaState' = "close" <=> dmaState = "close"
          /\ pc[c] \in {"resume", "clear", "demand"} /\ pc'[c] \in {"clear", "demand", "ok"}
      BY <1>9 DEF TestTbus, ClearTbus, PollDemand, Goto, ringVars, dmaVars, localVars,
                  TypeInv, TypeOK, CallType
    <2>2. FlightInv'
      BY <1>0, <2>1, LineKept, FlightKept
    <2>3. Position(c)' /\ Filling(c)' /\ Accepted(c)'
      BY <1>0, <2>1 DEF Position, Filling, Accepted
    <2> QED BY <1>0, <2>2, <2>3, CallsOf
  <1> QED BY <1>1, <1>2, <1>3, <1>4, <1>5, <1>6, <1>7, <1>8, <1>9 DEF Output

LEMMA RingStep ==
  ASSUME "during" \notin Windows, RingInv, [Next]_vars
  PROVE  RingInv'
  <1>1. SendInv'
    BY SendStep DEF RingInv
  <1>2. CASE \E n \in 1 .. MaxSegs : Call("main", n)
    BY <1>1, <1>2, RingCall DEF RingInv, Context
  <1>3. CASE Call("isr", 1)
    BY <1>1, <1>3, RingCall DEF RingInv, Context
  <1>4. CASE \E c \in Context : Output(c)
    BY <1>1, <1>4, RingOutput DEF RingInv
  <1>5. CASE Dma
    BY <1>1, <1>5, RingEngine DEF RingInv
  <1>6. CASE UNCHANGED vars
    <2>1. End' = End /\ Part' = Part /\ Line' = Line
      BY <1>6 DEF vars, localVars, End, Part, Line
    <2>2. FlightInv'
      BY <1>6, <2>1, FlightKept DEF vars, ringVars, dmaVars, RingInv
    <2>3. CallsInv'
      BY <1>6 DEF vars, ringVars, localVars, RingInv, CallsInv, Position, Filling, Filled, Accepted
    <2> QED BY <1>1, <2>2, <2>3 DEF RingInv
  <1> QED BY <1>2, <1>3, <1>4, <1>5, <1>6 DEF Next

(* The frames in the ring stay in line, and DMATxDescToSet at its end.     *)
THEOREM RingInvariance ==
  ASSUME "during" \notin Windows
  PROVE  Spec => []RingInv
  BY RingInit, RingStep, PTL DEF Spec

(* When the engine has drained the ring and nobody sends, DMATxDescToSet   *)
(* points at the descriptor the engine waits for.                          *)
THEOREM ToSetStaysInStep ==
  ASSUME "during" \notin Windows
  PROVE  Spec => []ToSetInStep
  <1>1. RingInv => ToSetInStep
    <2>1. SUFFICES ASSUME RingInv, pc = [c \in Context |-> "idle"], own[dmaDesc] = "cpu"
                   PROVE  toSet = dmaDesc
      BY DEF ToSetInStep
    <2>2. pc["main"] = "idle" /\ pc["isr"] = "idle"
      BY <2>1 DEF Context
    <2>3. End = toSet
      BY <2>2 DEF End
    <2> QED BY <2>1, <2>3 DEF RingInv, FlightInv, Shape
  <1> QED BY <1>1, RingInvariance, PTL

(* low_level_output only answers ERR_OK for a frame the engine has, though *)
(* it does not look at what ETH_Prepare_Transmit_Descriptors returns.      *)
THEOREM OkIsQueued ==
  ASSUME "during" \notin Windows
  PROVE  Spec => []OkMeansQueued
  <1>1. RingInv => OkMeansQueued
    BY Zenon DEF RingInv, CallsInv, Accepted, OkMeansQueued
  <1> QED BY <1>1, RingInvariance, PTL

-----------------------------------------------------------------------------
(* The ring implements the service.                                        *)

InHandPc == {"take", "check", "copy", "prepare", "first", "give"}

\* With the others idle, at most the frame of c is in hand.
LEMMA InHandOf ==
  ASSUME NEW c \in Context, OthersIdle(c)
  PROVE  InHand = IF pc[c] \in InHandPc THEN {frame[c]} ELSE {}
  BY DEF OthersIdle, InHand, InHandPc

LEMMA InHandAfter ==
  ASSUME NEW c \in Context, OthersIdle(c)'
  PROVE  InHand' = IF pc'[c] \in InHandPc THEN {frame'[c]} ELSE {}
  BY DEF OthersIdle, InHand, InHandPc

\* A step after which the same frames are in hand, queued and on the wire.
LEMMA ServiceStutter ==
  ASSUME InHand' = InHand, UNCHANGED <<queue, wire>> PROVE [Service!Next]_Service!vars
  BY DEF Service!vars

\* A call hands its frame over.
LEMMA CallHandsOver ==
  ASSUME RingInv, "during" \notin Windows,
         NEW c \in Context, NEW n \in 1 .. MaxSegs, Call(c, n), c = "isr" \/ c = "main"
  PROVE  Service!HandOver
  <1> DEFINE f == [id |-> sent + 1, segs |-> n]
  <1> USE DEF RingInv, SendInv
  <1>1. pc[c] = "idle" /\ pc' = [pc EXCEPT ![c] = "take"] /\ frame' = [frame EXCEPT ![c] = f]
    BY DEF Call, Goto
  <1>2. OthersIdle(c)
    BY DEF Call, Goto, Runs, MayInterrupt, Context, OthersIdle
  <1>3. OthersIdle(c)' /\ pc'[c] = "take" /\ frame'[c] = f
    BY <1>1, <1>2 DEF OthersIdle, TypeInv, TypeOK, CallType
  <1>4. InHand = {} /\ InHand' = {f}
    BY <1>1, <1>2, <1>3, InHandOf, InHandAfter DEF InHandPc
  <1>5. f \in Service!Frame
    BY RingAssumption DEF Call, Service!Frame, TypeInv, TypeOK
  <1>6. UNCHANGED <<queue, wire>>
    BY DEF Call, dmaVars
  <1> QED BY <1>4, <1>5, <1>6 DEF Service!HandOver

\* A call accepts its frame, refuses it, or leaves it where it is.
LEMMA OutputServes ==
  ASSUME RingInv, NEW c \in Context, Output(c)
  PROVE  [Service!Next]_Service!vars
  <1> USE DEF RingInv, SendInv
  <1>0. OthersIdle(c) /\ OthersIdle(c)'
    BY OnlyCaller
  <1>1. /\ InHand = IF pc[c] \in InHandPc THEN {frame[c]} ELSE {}
        /\ InHand' = IF pc'[c] \in InHandPc THEN {frame'[c]} ELSE {}
    BY <1>0, InHandOf, InHandAfter
  <1>2. CASE TakeDescriptor(c) \/ Copy(c) \/ PrepareFirst(c)
    BY <1>1, <1>2, ServiceStutter
       DEF TakeDescriptor, Copy, PrepareFirst, Goto, dmaVars, InHandPc, TypeInv, TypeOK, CallType
  <1>3. CASE CheckOwn(c)
    <2>1. /\ pc[c] = "check" /\ pc'[c] \in {"copy", "error"} /\ UNCHANGED <<frame, queue, wire>>
      BY <1>3 DEF CheckOwn, Goto, dmaVars, TypeInv, TypeOK, CallType
    <2>2. CASE pc'[c] = "copy"
      BY <1>1, <2>1, <2>2, ServiceStutter DEF InHandPc
    <2>3. CASE pc'[c] = "error"
      <3>1. InHand = {frame[c]} /\ InHand' = {}
        BY <1>1, <2>1, <2>3 DEF InHandPc
      <3>2. Service!Refuse
        BY <2>1, <3>1 DEF Service!Refuse
      <3> QED BY <3>2 DEF Service!Next
    <2> QED BY <2>1, <2>2, <2>3
  <1>4. CASE PrepareCheck(c)
    <2>1. /\ pc[c] = "prepare" /\ UNCHANGED <<frame, queue, wire>>
          /\ pc'[c] = "first"
      <3>1. toSet \in Desc /\ Off(toSet, toSet) = 0
        BY OffZero DEF TypeInv, TypeOK, RingType
      <3>2. pc[c] = "prepare" /\ UNCHANGED <<frame, queue, wire>>
            /\ pc'[c] = IF own[toSet] = "dma" THEN "ok" ELSE "first"
        BY <1>4 DEF PrepareCheck, Goto, dmaVars, localVars, TypeInv, TypeOK, CallType
      <3>3. copied[c] = frame[c].segs /\ frame[c].segs \in 1 .. MaxSegs /\ MaxSegs \in Nat
        BY <3>2, RingAssumption DEF CallsInv, Position, TypeInv, TypeOK, CallType, Frame
      <3>4. Off(toSet, toSet) < copied[c]
        BY <3>1, <3>3
      <3> QED BY <3>1, <3>2, <3>4 DEF CallsInv, Filling, Filled
    <2> QED BY <1>1, <2>1, ServiceStutter DEF InHandPc
  <1>5. CASE GiveDescriptor(c)
    <2>1. /\ pc[c] = "give" /\ UNCHANGED <<frame, wire>>
          /\ pc'[c] = IF given[c] + 1 = frame[c].segs THEN "advance" ELSE "give"
          /\ queue' = IF given[c] + 1 = frame[c].segs THEN Append(queue, frame[c]) ELSE queue
      BY <1>5 DEF GiveDescriptor, Goto, dmaVars, TypeInv, TypeOK, CallType
    <2>2. CASE given[c] + 1 # frame[c].segs
      BY <1>1, <2>1, <2>2, ServiceStutter DEF InHandPc
    <2>3. CASE given[c] + 1 = frame[c].segs
      <3>1. InHand = {frame[c]} /\ InHand' = {} /\ queue' = Append(queue, frame[c])
        BY <1>1, <2>1, <2>3 DEF InHandPc
      <3>2. Service!Accept
        BY <2>1, <3>1 DEF Service!Accept
      <3> QED BY <3>2 DEF Service!Next
    <2> QED BY <2>2, <2>3
  <1>6. CASE Return(c) \/ AdvanceToSet(c) \/ TestTbus(c) \/ ClearTbus(c) \/ PollDemand(c)
    <2>1. pc[c] \notin InHandPc /\ pc'[c] \notin InHandPc /\ UNCHANGED <<queue, wire>>
      BY <1>6 DEF Return, AdvanceToSet, TestTbus, ClearTbus, PollDemand, Goto, dmaVars,
                  InHandPc, TypeInv, TypeOK, CallType
    <2> QED BY <1>1, <2>1, ServiceStutter
  <1> QED BY <1>2, <1>3, <1>4, <1>5, <1>6 DEF Output

\* The engine transmits the first frame of the queue when it closes its last descriptor.
LEMMA EngineServes ==
  ASSUME RingInv, Dma
  PROVE  [Service!Next]_Service!vars
  <1> USE DEF RingInv, SendInv
  <1>1. UNCHANGED <<pc, frame>>
    BY DEF Dma, DmaSuspend, DmaRead, DmaClose, localVars
  <1>2. InHand' = InHand
    BY <1>1 DEF InHand
  <1>3. CASE DmaSuspend \/ DmaRead \/ (DmaClose /\ ~ls[dmaDesc])
    BY <1>2, <1>3, ServiceStutter DEF DmaSuspend, DmaRead, DmaClose
  <1>4. CASE DmaClose /\ ls[dmaDesc]
    <2>1. queue # << >> /\ wire' = [s \in 1 .. Head(queue).segs |-> <<Head(queue).id, s>>]
      BY <1>4, FlightLeaves
    <2>2. queue' = Tail(queue)
      BY <1>4, <2>1 DEF DmaClose
    <2>3. Service!Transmit
      BY <1>2, <2>1, <2>2 DEF Service!Transmit
    <2> QED BY <2>3 DEF Service!Next
  <1> QED BY <1>3, <1>4 DEF Dma

(* Accepted frames go out whole, each once and in order, for every ring    *)
(* and every frame length: the steps of the ring are steps of the service. *)
THEOREM RingImplementsService ==
  ASSUME "during" \notin Windows
  PROVE  Spec => ImplementsService
  <1>1. Init => Service!Init
    <2>1. ASSUME Init PROVE InHand = {} /\ queue = << >> /\ wire = << >>
      BY <2>1 DEF Init, InHand
    <2> QED BY <2>1 DEF Service!Init
  <1>2. ASSUME RingInv, [Next]_vars PROVE [Service!Next]_Service!vars
    <2>1. CASE \E n \in 1 .. MaxSegs : Call("main", n)
      BY <1>2, <2>1, CallHandsOver DEF Context, Service!Next
    <2>2. CASE Call("isr", 1)
      <3>1. 1 \in 1 .. MaxSegs /\ "isr" \in Context
        BY RingAssumption DEF Context
      <3> QED BY <1>2, <2>2, <3>1, CallHandsOver DEF Service!Next
    <2>3. CASE \E c \in Context : Output(c)
      BY <1>2, <2>3, OutputServes
    <2>4. CASE Dma
      BY <1>2, <2>4, EngineServes
    <2>5. CASE UNCHANGED vars
      <3>1. InHand' = InHand
        BY <2>5 DEF vars, localVars, InHand
      <3> QED BY <2>5, <3>1, ServiceStutter DEF vars, dmaVars
    <2> QED BY <1>2, <2>1, <2>2, <2>3, <2>4, <2>5 DEF Next
  <1> QED BY <1>1, <1>2, RingInvariance, PTL DEF Spec, ImplementsService, Service!Spec

(* What goes on the wire is one packet, whole: the frames that mix two     *)
(* packets need a handler that sends in the middle of a call.              *)
THEOREM WireStaysIntact ==
  ASSUME "during" \notin Windows
  PROVE  Spec => []WireIntact
  <1>1. Init => WireIntact
    <2>1. ASSUME Init PROVE wire = [s \in 1 .. Len(wire) |-> <<0, s>>] /\ 0 \in 0 .. MaxFrames
      <3>1. wire = << >> /\ Len(wire) = 0
        BY <2>1 DEF Init
      <3> QED BY <3>1, RingAssumption
    <2> QED BY <2>1 DEF WireIntact
  <1>2. ASSUME RingInv, WireIntact, [Next]_vars PROVE WireIntact'
    <2>1. CASE DmaClose /\ ls[dmaDesc]
      <3>1. queue # << >> /\ wire' = [s \in 1 .. Head(queue).segs |-> <<Head(queue).id, s>>]
        BY <1>2, <2>1, FlightLeaves DEF RingInv, SendInv
      <3>2. Head(queue) \in Frame
        BY <1>2, <3>1 DEF RingInv, SendInv, TypeInv, TypeOK
      <3>3. Head(queue).id \in 0 .. MaxFrames /\ Head(queue).segs \in Nat
        BY <3>2, RingAssumption DEF Frame
      <3>4. Len(wire') = Head(queue).segs
        BY <3>1, <3>3
      <3> QED BY <3>1, <3>3, <3>4 DEF WireIntact
    <2>2. CASE ~(DmaClose /\ ls[dmaDesc])
      <3>1. wire' = wire
        <4>1. ASSUME NEW c \in Context, NEW n, Call(c, n) PROVE wire' = wire
          BY <4>1 DEF Call, dmaVars
        <4>2. ASSUME NEW c \in Context, Output(c) PROVE wire' = wire
          BY <4>2, Zenon DEF Output, TakeDescriptor, CheckOwn, Copy, Return, PrepareCheck, PrepareFirst,
             GiveDescriptor, AdvanceToSet, TestTbus, ClearTbus, PollDemand, dmaVars
        <4>3. ASSUME Dma PROVE wire' = wire
          BY <2>2, <4>3 DEF Dma, DmaSuspend, DmaRead, DmaClose
        <4> QED BY <1>2, <4>1, <4>2, <4>3 DEF Next, vars, dmaVars, Context
      <3> QED BY <1>2, <3>1 DEF WireIntact
    <2> QED BY <2>1, <2>2
  <1> QED BY <1>1, <1>2, RingInvariance, PTL DEF Spec
=============================================================================
