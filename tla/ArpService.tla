----------------------------- MODULE ArpService -----------------------------
(***************************************************************************)
(* What the ARP table promises to whoever sends IP packets: a packet is    *)
(* sent at most once, to the Ethernet address the table then knows for its *)
(* next hop; while none is known the newest packet for each hop waits; and *)
(* learning an address sends the packet that waits for it.  What is known  *)
(* and what waits may be forgotten at any time (age, a full table, a lost  *)
(* link).                                                                  *)
(***************************************************************************)
CONSTANTS Hosts, Macs, NoMac, Packets, NoPacket,
          Dst(_)  \* the next hop of a packet

VARIABLES
  inHand,   \* the packet being sent, or NoPacket
  known,    \* known[h]: the Ethernet address of host h, or NoMac
  waiting,  \* waiting[h]: the packet waiting for it, or NoPacket
  sent      \* the last packet sent, and the address it was sent to

vars == <<inHand, known, waiting, sent>>

Init ==
  /\ inHand = NoPacket
  /\ known = [h \in Hosts |-> NoMac]
  /\ waiting = [h \in Hosts |-> NoPacket]
  /\ sent = [pkt |-> NoPacket, mac |-> NoMac]

Send ==
  /\ inHand # NoPacket /\ known[Dst(inHand)] # NoMac
  /\ sent' = [pkt |-> inHand, mac |-> known[Dst(inHand)]]
  /\ inHand' = NoPacket
  /\ UNCHANGED <<known, waiting>>

Hold ==
  /\ inHand # NoPacket /\ known[Dst(inHand)] = NoMac
  /\ waiting' = [waiting EXCEPT ![Dst(inHand)] = inHand]
  /\ inHand' = NoPacket
  /\ UNCHANGED <<known, sent>>

Drop ==
  /\ inHand' = NoPacket
  /\ UNCHANGED <<known, waiting, sent>>

\* Learning may push out other hosts.
Learn(h, m, lost) ==
  /\ known' = [k \in Hosts |-> IF k = h THEN m ELSE IF k \in lost THEN NoMac ELSE known[k]]
  /\ waiting' = [k \in Hosts |-> IF k \in lost \union {h} THEN NoPacket ELSE waiting[k]]
  /\ sent' = IF waiting[h] = NoPacket THEN sent ELSE [pkt |-> waiting[h], mac |-> m]
  /\ UNCHANGED inHand

Lose(lost) ==
  /\ known' = [k \in Hosts |-> IF k \in lost THEN NoMac ELSE known[k]]
  /\ waiting' = [k \in Hosts |-> IF k \in lost THEN NoPacket ELSE waiting[k]]

Forget(lost) == Lose(lost) /\ UNCHANGED <<inHand, sent>>

\* Making room for its next hop may push out another host.
Take(lost) ==
  /\ inHand = NoPacket
  /\ inHand' \in Packets
  /\ Lose(lost)
  /\ UNCHANGED sent

Next ==
  \/ Send \/ Hold \/ Drop
  \/ \E lost \in SUBSET Hosts :
       \/ Forget(lost) \/ Take(lost)
       \/ \E h \in Hosts \ lost, m \in Macs : Learn(h, m, lost)

Spec == Init /\ [][Next]_vars
=============================================================================
