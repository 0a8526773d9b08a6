----------------------------- MODULE MC_SysTime ------------------------------
(* An instance of SysTime for TLC, in which LocalTime wraps every few runs *)
(* of the ARP timer, and the boot and a pass of the loop may take longer   *)
(* than its interval.                                                      *)
EXTENDS SysTime
=============================================================================
