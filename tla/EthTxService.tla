---------------------------- MODULE EthTxService ----------------------------
(***************************************************************************)
(* What the transmit path of the Ethernet driver promises, with no ring    *)
(* and no ownership bits: a frame handed to linkoutput() is accepted or    *)
(* refused once, and the accepted frames go on the wire whole, each once,  *)
(* in the order in which they were accepted.                               *)
(***************************************************************************)
EXTENDS Naturals, Sequences

CONSTANTS Frames,   \* the numbers a frame may have
          MaxSegs   \* the longest frame, in transmit buffers

VARIABLES inHand,   \* frames handed over and neither accepted nor refused
          queue,    \* accepted frames that are not on the wire yet
          wire      \* the segments of the last frame on the wire

vars == <<inHand, queue, wire>>

Frame == [id : Frames, segs : 1 .. MaxSegs]

Init == inHand = {} /\ queue = << >> /\ wire = << >>

HandOver == \E f \in Frame \ inHand :
              /\ inHand' = inHand \union {f}
              /\ UNCHANGED <<queue, wire>>

Refuse == \E f \in inHand : /\ inHand' = inHand \ {f}
                            /\ UNCHANGED <<queue, wire>>

Accept == \E f \in inHand : /\ inHand' = inHand \ {f}
                            /\ queue' = Append(queue, f)
                            /\ UNCHANGED wire

Transmit == /\ queue # << >>
            /\ wire' = [s \in 1 .. Head(queue).segs |-> <<Head(queue).id, s>>]
            /\ queue' = Tail(queue)
            /\ UNCHANGED inHand

Next == HandOver \/ Refuse \/ Accept \/ Transmit

Spec == Init /\ [][Next]_vars
=============================================================================
