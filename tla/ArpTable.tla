------------------------------ MODULE ArpTable ------------------------------
(***************************************************************************)
(* lwIP's ARP table as this firmware drives it.  The main loop resolves    *)
(* the next hop of the IP packets it sends (ICMP answers), learns from the *)
(* ARP packets it receives, and ages the table every five seconds.  The    *)
(* link interrupt takes the interface down, and with it the entries of the *)
(* table (etharp_cleanup_netif), while the main loop may be in the middle  *)
(* of any of this: lwIP runs without an operating system and with no lock. *)
(*                                                                         *)
(* Sending is split where it calls out and takes long: in low_level_output *)
(* for an ARP request, and in pbuf_alloc and pbuf_copy; Windows says       *)
(* whether the interrupt may come there.  The other functions are one step *)
(* each.  With one interface, gnetif, entry.netif is a Boolean.            *)
(***************************************************************************)
EXTENDS Naturals

CONSTANTS
  N,           \* entries (ARP_TABLE_SIZE)
  Hosts,       \* next hops on the local network, the gateway among them
  NoHost,      \* 0.0.0.0, the address of an entry never used
  Macs, NoMac, \* Ethernet addresses
  MaxAge,      \* ARP_MAXAGE
  Rerequest,   \* ARP_AGE_REREQUEST_USED
  MaxPending,  \* ARP_MAXPENDING
  Windows,     \* when the link may go down: "between" or "during" calls
  MaxPackets   \* bound: IP packets sent in one behaviour

ASSUME ArpAssumption ==
  /\ N \in Nat \ {0}
  /\ NoHost \notin Hosts /\ NoMac \notin Macs
  /\ MaxAge \in Nat /\ MaxPending \in Nat \ {0} /\ MaxPending <= MaxAge /\ MaxAge < 256
  /\ Rerequest \in Nat
  /\ Windows \subseteq {"between", "during"}
  /\ MaxPackets \in Nat

Slot     == 0 .. N - 1
Packet   == [id : 1 .. MaxPackets, dst : Hosts]
NoPacket == [id |-> 0, dst |-> NoHost]

VARIABLES
  table,   \* arp_table
  cached,  \* etharp_cached_entry
  pc,      \* where etharp_output or etharp_query is
  pkt,     \* the packet it was given
  slot,    \* its local i
  sent,    \* the last IP packet given to low_level_output, and its address
  heard,   \* history: the address last announced for a host
  made     \* how many packets have been sent

vars == <<table, cached, pc, pkt, slot, sent, heard, made>>

Entry == [state : {"empty", "pending", "stable", "rerequesting"},
          ip : Hosts \union {NoHost}, eth : Macs \union {NoMac}, netif : BOOLEAN,
          q : Packet \union {NoPacket}, ctime : 0 .. MaxAge]

Init ==
  /\ table = [i \in Slot |-> [state |-> "empty", ip |-> NoHost, eth |-> NoMac,
                              netif |-> FALSE, q |-> NoPacket, ctime |-> 0]]
  /\ cached = 0
  /\ pc = "idle" /\ pkt = NoPacket /\ slot = 0
  /\ sent = [pkt |-> NoPacket, mac |-> NoMac]
  /\ heard = [h \in Hosts |-> NoMac]
  /\ made = 0

\* ETHARP_STATE_STABLE and above.
Stable(e) == e.state \in {"stable", "rerequesting"}

-----------------------------------------------------------------------------
(* Plausible mistakes in the code; each breaks one property below.         *)

MatchesStableOnly(h) == {i \in Slot : Stable(table[i]) /\ table[i].ip = h}

KeepsQueue(e) == [e EXCEPT !.state = "empty"]

SilentRefresh(e, m) ==
  [e EXCEPT !.state = "stable", !.netif = TRUE, !.ctime = 0, !.q = NoPacket,
            !.eth = IF Stable(e) THEN @ ELSE m]

KeepsSentPacket(e, m) ==
  [e EXCEPT !.state = "stable", !.netif = TRUE, !.eth = m, !.ctime = 0]

RestartsMatch(h, i) ==
  IF table[i].state # "empty" /\ table[i].ip = h THEN [table[i] EXCEPT !.ctime = 0]
  ELSE [table[i] EXCEPT !.state = "empty", !.q = NoPacket, !.ip = h, !.ctime = 0]

TrustsHint(h) ==
  IF Stable(table[cached]) THEN {cached}
  ELSE {i \in Slot : Stable(table[i]) /\ table[i].ip = h}

-----------------------------------------------------------------------------
(* etharp_find_entry and etharp_free_entry.                                *)

InState(S)     == {i \in Slot : table[i].state \in S}
Match(h)       == {i \in Slot : table[i].state # "empty" /\ table[i].ip = h}
StableMatch(h) == {i \in Match(h) : Stable(table[i])}

First(S)  == {i \in S : \A j \in S : i <= j}
\* A sweep with >= keeps the last of the oldest entries.
Oldest(S) == {i \in S : \A j \in S : \/ table[j].ctime < table[i].ctime
                                     \/ table[j].ctime = table[i].ctime /\ j <= i}

\* With nothing free: a stable entry, then one with no packet, then any.
Recycled ==
  LET unqueued == {i \in InState({"pending"}) : table[i].q = NoPacket} IN
  CASE InState({"stable", "rerequesting"}) # {} -> Oldest(InState({"stable", "rerequesting"}))
    [] InState({"stable", "rerequesting"}) = {} /\ unqueued # {} -> Oldest(unqueued)
    [] OTHER -> Oldest(InState({"pending"}))

FreeEntry(e) == [e EXCEPT !.state = "empty", !.q = NoPacket]

\* The entry ETHARP_FLAG_TRY_HARD finds for h, as a set with one slot.
FindEntry(h) ==
  CASE Match(h) # {} -> First(Match(h))
    [] Match(h) = {} /\ InState({"empty"}) # {} -> First(InState({"empty"}))
    [] OTHER -> Recycled

Renewed(e, h) ==
  [state |-> "empty", ip |-> h, eth |-> e.eth, netif |-> e.netif,
   q |-> IF e.state = "empty" THEN e.q ELSE FreeEntry(e).q, ctime |-> 0]

\* What it leaves in that slot: a match as it is, or a new entry, freed if it
\* was in use.
Found(h, i) == IF i \in Match(h) THEN table[i] ELSE Renewed(table[i], h)

-----------------------------------------------------------------------------
(* etharp_arp_input and etharp_update_arp_entry.                           *)

Updated(e, m) ==
  [state |-> "stable", ip |-> e.ip, eth |-> m, netif |-> TRUE, q |-> NoPacket, ctime |-> 0]

\* An ARP packet, a request or a reply, announces address m for host h.  One
\* that is not for us only refreshes an entry there is.
ArpInput(h, m, forUs) ==
  /\ pc = "idle"
  /\ heard' = [heard EXCEPT ![h] = m]
  /\ \/ /\ forUs \/ Match(h) # {}
        /\ \E i \in FindEntry(h) :
             LET e == Found(h, i) IN
             /\ table' = [table EXCEPT ![i] = Updated(e, m)]
             /\ sent' = IF e.q = NoPacket THEN sent ELSE [pkt |-> e.q, mac |-> m]
     \/ /\ ~forUs /\ Match(h) = {}
        /\ UNCHANGED <<table, sent>>
  /\ UNCHANGED <<cached, pc, pkt, slot, made>>

-----------------------------------------------------------------------------
(* etharp_output, etharp_output_to_arp_index and etharp_query.             *)

\* The stable entry for h: the one cached if it is right, else the first.
Lookup(h) ==
  IF Stable(table[cached]) /\ table[cached].ip = h THEN {cached}
  ELSE First(StableMatch(h))

\* A packet for h: an entry about to expire is requested again first.
OutputKnown(h) ==
  /\ pc = "idle" /\ made < MaxPackets
  /\ \E i \in Lookup(h) :
       /\ slot' = i /\ cached' = i
       /\ pc' = IF table[i].state = "stable" /\ table[i].ctime >= Rerequest
                  THEN "rerequest" ELSE "send"
  /\ pkt' = [id |-> made + 1, dst |-> h]
  /\ made' = made + 1
  /\ UNCHANGED <<table, sent, heard>>

\* A packet for h with no stable entry: etharp_query finds it one.
OutputUnknown(h) ==
  /\ pc = "idle" /\ made < MaxPackets
  /\ Lookup(h) = {}
  /\ \E i \in FindEntry(h) :
       LET e == Found(h, i) IN
       /\ slot' = i
       /\ table' = [table EXCEPT ![i] =
                      IF e.state = "empty" THEN [e EXCEPT !.state = "pending"] ELSE e]
  /\ pc' = "request"
  /\ pkt' = [id |-> made + 1, dst |-> h]
  /\ made' = made + 1
  /\ UNCHANGED <<cached, sent, heard>>

\* etharp_request may fail, for want of memory or of a descriptor.
RequestAgain ==
  /\ pc = "rerequest" /\ pc' = "send"
  /\ \/ table' = [table EXCEPT ![slot].state = "rerequesting"]
     \/ UNCHANGED table
  /\ UNCHANGED <<cached, pkt, slot, sent, heard, made>>

SendPacket ==
  /\ pc = "send" /\ pc' = "idle"
  /\ sent' = [pkt |-> pkt, mac |-> table[slot].eth]
  /\ pkt' = NoPacket
  /\ UNCHANGED <<table, cached, slot, heard, made>>

\* The state of the entry after the request decides what becomes of the packet;
\* for an empty one there is no branch, and the packet is dropped.
Requested ==
  /\ pc = "request"
  /\ pc' = CASE Stable(table[slot])             -> "send"
             [] table[slot].state = "pending"   -> "queue"
             [] table[slot].state = "empty"     -> "idle"
  /\ cached' = IF Stable(table[slot]) THEN slot ELSE cached
  /\ pkt' = IF table[slot].state = "empty" THEN NoPacket ELSE pkt
  /\ UNCHANGED <<table, slot, sent, heard, made>>

\* The packet has been copied, if memory sufficed; the one queued before it goes.
QueuePacket ==
  /\ pc = "queue" /\ pc' = "idle"
  /\ \/ table' = [table EXCEPT ![slot].q = pkt]
     \/ UNCHANGED table
  /\ pkt' = NoPacket
  /\ UNCHANGED <<cached, slot, sent, heard, made>>

-----------------------------------------------------------------------------
(* etharp_tmr.                                                             *)

\* e has just been aged.
Expired(e) == e.ctime >= MaxAge \/ (e.state = "pending" /\ e.ctime >= MaxPending)

Aged(e) ==
  LET f == [e EXCEPT !.ctime = @ + 1] IN
  IF e.state = "empty" THEN e
  ELSE IF Expired(f) THEN FreeEntry(f)
  ELSE [f EXCEPT !.state = IF @ = "rerequesting" THEN "stable" ELSE @]

Tmr ==
  /\ pc = "idle"
  /\ table' = [i \in Slot |-> Aged(table[i])]
  /\ UNCHANGED <<cached, pc, pkt, slot, sent, heard, made>>

-----------------------------------------------------------------------------
(* netif_set_down, from the link interrupt: etharp_cleanup_netif.          *)

LinkDown ==
  /\ IF pc = "idle" THEN "between" \in Windows ELSE "during" \in Windows
  /\ table' = [i \in Slot |-> IF table[i].state # "empty" /\ table[i].netif
                                THEN FreeEntry(table[i]) ELSE table[i]]
  /\ UNCHANGED <<cached, pc, pkt, slot, sent, heard, made>>

-----------------------------------------------------------------------------
Sending == RequestAgain \/ SendPacket \/ Requested \/ QueuePacket

Next ==
  \/ \E h \in Hosts : \/ OutputKnown(h) \/ OutputUnknown(h)
                      \/ \E m \in Macs, forUs \in BOOLEAN : ArpInput(h, m, forUs)
  \/ Sending \/ Tmr \/ LinkDown

Spec == Init /\ [][Next]_vars

-----------------------------------------------------------------------------
TypeOK ==
  /\ table \in [Slot -> Entry] /\ cached \in Slot
  /\ pc \in {"idle", "rerequest", "send", "request", "queue"}
  /\ pkt \in Packet \union {NoPacket} /\ slot \in Slot
  /\ sent \in [pkt : Packet \union {NoPacket}, mac : Macs \union {NoMac}]
  /\ heard \in [Hosts -> Macs \union {NoMac}]
  /\ made \in 0 .. MaxPackets

(***************************************************************************)
(* A host has at most one entry: the sweep that makes a new entry finds    *)
(* the one it has, stable or pending.                                      *)
(***************************************************************************)
OneEntryPerHost ==
  \A i, j \in Slot : table[i].state # "empty" /\ table[j].state # "empty"
                       /\ table[i].ip = table[j].ip => i = j

(***************************************************************************)
(* "No queued packets should exist on stable entries" (etharp_find_entry), *)
(* nor on empty ones, where the next host would inherit them; and a packet *)
(* is queued on the entry of its own next hop.                             *)
(***************************************************************************)
QueuedForItsHost ==
  \A i \in Slot : table[i].q # NoPacket =>
                    table[i].state = "pending" /\ table[i].q.dst = table[i].ip

(***************************************************************************)
(* A stable entry holds the address its host announced last, and belongs   *)
(* to the interface, so that taking the interface down removes it.         *)
(***************************************************************************)
FreshMapping ==
  \A i \in Slot : Stable(table[i]) =>
                    table[i].netif /\ table[i].eth = heard[table[i].ip]

(***************************************************************************)
(* "A pbuf that must be delivered to the IP address" (etharp_query): an IP *)
(* packet goes to the Ethernet address its next hop announced last.        *)
(***************************************************************************)
DeliveredToOwnHost ==
  [][ sent' # sent => sent'.mac = heard'[sent'.pkt.dst] ]_vars

(***************************************************************************)
(* "The time an ARP entry stays pending" is bounded, however often its     *)
(* host is asked for again: the age of a pending entry never goes back,    *)
(* every timer run adds to it, and at ARP_MAXPENDING the entry goes, with  *)
(* the packet that waits on it.                                            *)
(***************************************************************************)
PendingAges ==
  [][ \A i \in Slot :
        /\ table[i].state = "pending" /\ table'[i].state = "pending"
        /\ table'[i].ip = table[i].ip
        => /\ table'[i].ctime >= table[i].ctime /\ table'[i].ctime < MaxPending
           /\ Tmr => table'[i].ctime > table[i].ctime ]_vars

\* Against ArpService.
Known == [h \in Hosts |-> IF StableMatch(h) = {} THEN NoMac
                          ELSE table[CHOOSE i \in StableMatch(h) : TRUE].eth]
Waiting == [h \in Hosts |->
              IF \E i \in Match(h) : table[i].q # NoPacket
                THEN table[CHOOSE i \in Match(h) : table[i].q # NoPacket].q
                ELSE NoPacket]
NextHop(p) == p.dst

Service == INSTANCE ArpService WITH Packets <- Packet, Dst <- NextHop, inHand <- pkt,
                                    known <- Known, waiting <- Waiting

ImplementsService == Service!Spec
=============================================================================
