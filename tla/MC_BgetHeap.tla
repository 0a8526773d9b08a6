---------------------------- MODULE MC_BgetHeap ------------------------------
(* A pool of 24 units, with headers and smallest blocks of 2, as in the    *)
(* build (8 and 8 bytes, SizeQuant 4): up to six blocks.                   *)
EXTENDS BgetHeap

MCSizes == {2, 3, 5, 8}
=============================================================================
