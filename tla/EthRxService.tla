---------------------------- MODULE EthRxService ----------------------------
(***************************************************************************)
(* What the receive path of the Ethernet driver promises to the IP stack,  *)
(* with no descriptors, no ownership bits and no polling: frames are       *)
(* offered by the wire under increasing numbers, any frame may be lost,    *)
(* and what netif->input() is given is always the oldest pending frame,    *)
(* once, as an unbroken run of that frame's own segments from the first.   *)
(***************************************************************************)
EXTENDS Naturals, Sequences

CONSTANT MaxSegs          \* the longest frame, in receive buffers

VARIABLES offered,        \* how many frames the wire has offered so far
          pending,        \* the numbers of the frames not yet lost or delivered
          out             \* the segments of the last frame delivered

vars == <<offered, pending, out>>

Init == offered = 0 /\ pending = {} /\ out = << >>

Offer == /\ offered' = offered + 1
         /\ pending' \in {pending, pending \cup {offered + 1}}
         /\ UNCHANGED out

Lose == \E f \in pending : /\ pending' = pending \ {f}
                           /\ UNCHANGED <<offered, out>>

Deliver == \E f \in pending, k \in 1 .. MaxSegs :
              /\ \A g \in pending : f <= g
              /\ pending' = pending \ {f}
              /\ out' = [s \in 1 .. k |-> <<f, s>>]
              /\ UNCHANGED offered

Next == Offer \/ Lose \/ Deliver

Spec == Init /\ [][Next]_vars
=============================================================================
