--------------------------- MODULE MC_ColorServer ---------------------------
(* Instances of ColorServer for TLC. *)
EXTENDS ColorServer, TLC

CONSTANTS p1, p2, p3, c1, c2

SomePbufs    == {p1, p2, p3}
SomeChannels == {c1, c2}

SomeItems == {[type |-> "argb", ch |-> c1], [type |-> "argb", ch |-> c2],
              [type |-> "other", ch |-> c1]}

\* Up to two channels, repeated ones included; an empty sequence stands for a
\* datagram with another address pattern as well.
SomeDatagrams == UNION {[1 .. n -> SomeItems] : n \in 0 .. 2}
Symmetry == Permutations(SomePbufs)
=============================================================================
