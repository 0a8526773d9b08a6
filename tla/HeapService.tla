---------------------------- MODULE HeapService ------------------------------
(***************************************************************************)
(* What an allocator promises: a block it hands out overlaps no block that *)
(* is in use, a block in use stays where it is and keeps its room until    *)
(* its owner gives up some or all of it, and an allocation fails only when *)
(* no gap between the blocks in use has room for it and its header.        *)
(***************************************************************************)
EXTENDS Integers

CONSTANTS Size,   \* the size of the heap
          Hdr,    \* the room the header before a block takes
          Sizes   \* the sizes asked for

Null == -1

VARIABLES live,   \* the blocks in use: a function from headers to room
          got     \* what the last allocation returned: a header, or Null

Init == live = [b \in {} |-> 0] /\ got = Null

\* The cells of the block whose header is at b.
Cells(b, room) == b .. b + Hdr + room - 1
Taken == UNION {Cells(b, live[b]) : b \in DOMAIN live}

Alloc(n) ==
  \E b \in 0 .. Size - 1, room \in n .. Size :
    /\ got' = b
    /\ live' = [c \in DOMAIN live \union {b} |-> IF c = b THEN room ELSE live[c]]
    /\ Cells(b, room) \subseteq 0 .. Size - 1
    /\ Cells(b, room) \intersect Taken = {}

Fail(n) ==
  /\ got' = Null /\ UNCHANGED live
  /\ ~\E b \in 0 .. Size - n - Hdr : Cells(b, n) \intersect Taken = {}

Free(b) ==
  /\ live' = [c \in DOMAIN live \ {b} |-> live[c]]
  /\ UNCHANGED got

\* A block never gets more room than it had.
Trim(b, n) ==
  /\ \E room \in n .. live[b] : live' = [live EXCEPT ![b] = room]
  /\ UNCHANGED got

Next == \/ \E n \in Sizes : Alloc(n) \/ Fail(n)
        \/ \E b \in DOMAIN live : Free(b) \/ \E n \in Sizes : n <= live[b] /\ Trim(b, n)

Spec == Init /\ [][Next]_<<live, got>>
=============================================================================
