---------------------------- MODULE MC_LwipHeap ------------------------------
(* A heap of 21 units, with headers of 2 and blocks of at least 3, as in   *)
(* the build (8 and 12 bytes, MEM_ALIGNMENT 4).  It holds four smallest    *)
(* blocks and a remainder too small to split off.                          *)
EXTENDS LwipHeap

MCSizes   == {3, 4, 7}
Idle         == {"idle"}
AnyWindow    == {"idle", "scan", "sweep"}
SplitWindow  == {"link"}
SearchWindow == {"scan", "sweep"}
NoWindow     == {}
=============================================================================
