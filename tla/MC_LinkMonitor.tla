--------------------------- MODULE MC_LinkMonitor ---------------------------
(* Instances of LinkMonitor for TLC. *)
EXTENDS LinkMonitor

\* 10 Mbit/s half duplex, 100 Mbit/s half and full duplex.
SomeModes == {{}, {"FES"}, {"FES", "DM"}}
NoWindows == {}
Anywhere  == {"boot", "handler"}
InHandler == {"handler"}
=============================================================================
