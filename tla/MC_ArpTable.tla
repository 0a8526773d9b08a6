---------------------------- MODULE MC_ArpTable -----------------------------
(* Instances of ArpTable for TLC. *)
EXTENDS ArpTable, TLC

Between  == {"between"}
Anywhere == {"between", "during"}

\* Hosts are interchangeable, and so are addresses.
CONSTANTS a, b, c, m1, m2
Symmetric == Permutations({a, b, c}) \union Permutations({m1, m2})
=============================================================================
