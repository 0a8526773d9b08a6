----------------------------- MODULE MC_IpReass ------------------------------
(* Fragments as a router cuts them: all of one size but the last.          *)
EXTENDS IpReass

Cut(id, size, len) ==
  {[id |-> id, start |-> s, end |-> IF s + size < len THEN s + size ELSE len, more |-> s + size < len] :
     s \in {size * k : k \in 0 .. (len - 1) \div size}}

\* Three datagrams of two or three fragments, the first cut on two routes, and
\* a datagram of more fragments than may wait, the last of which is lost.
FewFrags == Cut(1, 1, 3) \union Cut(1, 2, 3) \union Cut(2, 1, 3) \union Cut(3, 1, 2)
              \union {f \in Cut(4, 1, 7) : f.more}

\* A datagram of four fragments.
FourFrags == Cut(1, 1, 4)

\* A datagram of seven units cut in four and in two.
TwoCuts == Cut(1, 2, 7) \union Cut(1, 4, 7)

\* Three datagrams, one of them of four fragments.
ThreeDatagrams == Cut(1, 1, 4) \union Cut(2, 1, 2) \union Cut(3, 1, 2)
=============================================================================
