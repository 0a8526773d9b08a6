--------------------------- MODULE ArpTableProofs ---------------------------
(***************************************************************************)
(* Proofs about ArpTable, for every table size, set of hosts and ages.     *)
(* Types hold wherever the link goes down; the rest, and with it the       *)
(* refinement of ArpService, needs "during" to be outside Windows: inside  *)
(* a call the interrupt breaks it.                                         *)
(***************************************************************************)
EXTENDS ArpTable, TLAPS

USE ArpAssumption

\* Live entries have a host and are not over age; so has and is the entry about
\* to be marked as requested again, even when the interrupt has emptied it.
Live(e) == /\ e.ip \in Hosts /\ e.ctime < MaxAge
           /\ e.state = "pending" => e.ctime < MaxPending

LiveEntries == \A i \in Slot : table[i].state # "empty" => Live(table[i])

TypeInv ==
  /\ TypeOK /\ LiveEntries
  /\ pc = "rerequest" => table[slot].ip \in Hosts /\ table[slot].ctime < MaxAge

-----------------------------------------------------------------------------
(* What etharp_find_entry returns: a slot; the host's entry if it has one, *)
(* and else an empty entry for the host.                                   *)
LEMMA FindReturnsSlot ==
  ASSUME table \in [Slot -> Entry], NEW h \in Hosts, NEW i \in FindEntry(h)
  PROVE  /\ i \in Slot
         /\ Match(h) # {} => i \in Match(h)
<1>1. CASE Match(h) # {}
  BY <1>1 DEF FindEntry, First, Match
<1>2. CASE Match(h) = {} /\ InState({"empty"}) # {}
  BY <1>2 DEF FindEntry, First, InState
<1>3. CASE Match(h) = {} /\ InState({"empty"}) = {}
  <2>1. i \in Recycled  BY <1>3 DEF FindEntry
  <2> QED  BY <1>3, <2>1 DEF Recycled, Oldest, InState
<1> QED  BY <1>1, <1>2, <1>3

LEMMA FreeEntryIsEmpty ==
  ASSUME NEW e \in Entry
  PROVE  /\ FreeEntry(e) \in Entry
         /\ FreeEntry(e).state = "empty" /\ FreeEntry(e).q = NoPacket
         /\ FreeEntry(e).ctime = e.ctime /\ FreeEntry(e).ip = e.ip
  BY DEF FreeEntry, Entry

LEMMA FoundIsEntry ==
  ASSUME table \in [Slot -> Entry], NEW h \in Hosts, NEW i \in Slot
  PROVE  /\ Found(h, i) \in Entry /\ Found(h, i).ip = h
         /\ i \in Match(h) => Found(h, i) = table[i]
         /\ i \notin Match(h) => /\ Found(h, i).state = "empty" /\ Found(h, i).ctime = 0
                                 /\ Found(h, i).q \in {table[i].q, NoPacket}
                                 /\ table[i].state # "empty" => Found(h, i).q = NoPacket
<1>1. table[i] \in Entry  OBVIOUS
<1>2. CASE i \in Match(h)
  BY <1>1, <1>2 DEF Found, Match
<1>3. CASE i \notin Match(h)
  <2>1. Found(h, i) = Renewed(table[i], h)  BY <1>3 DEF Found
  <2>2. table[i].state # "empty" => FreeEntry(table[i]).q = NoPacket
    BY <1>1, FreeEntryIsEmpty
  <2> QED  BY <1>1, <1>3, <2>1, <2>2 DEF Renewed, Entry
<1> QED  BY <1>2, <1>3

LEMMA UpdatedIsEntry ==
  ASSUME NEW e \in Entry, NEW m \in Macs
  PROVE  /\ Updated(e, m) \in Entry
         /\ Updated(e, m).state = "stable"
         /\ Updated(e, m).ip = e.ip /\ Updated(e, m).eth = m
         /\ Updated(e, m).ctime = 0 /\ Updated(e, m).q = NoPacket
  BY DEF Updated, Entry

\* What one timer run makes of an entry.
LEMMA AgedIsEntry ==
  ASSUME NEW e \in Entry, e.state # "empty" => Live(e)
  PROVE  /\ Aged(e) \in Entry
         /\ e.state = "empty" => Aged(e) = e
         /\ Aged(e).state # "empty" =>
              /\ e.state # "empty" /\ Live(Aged(e))
              /\ Aged(e).ctime = e.ctime + 1 /\ (Stable(Aged(e)) <=> Stable(e))
              /\ e.state = "pending" <=> Aged(e).state = "pending"
              /\ Aged(e).ip = e.ip /\ Aged(e).eth = e.eth
              /\ Aged(e).netif = e.netif /\ Aged(e).q = e.q
         /\ Aged(e).state = "empty" /\ e.state # "empty" => Aged(e).q = NoPacket
<1> DEFINE f == [e EXCEPT !.ctime = @ + 1]
<1>1. CASE e.state = "empty"
  BY <1>1 DEF Aged
<1>2. CASE e.state # "empty"
  <2>1. /\ f \in Entry /\ f.ctime = e.ctime + 1
        /\ f.state = e.state /\ f.ip = e.ip /\ f.eth = e.eth /\ f.netif = e.netif
        /\ f.q = e.q
    BY <1>2 DEF Entry, Live
  <2>2. Aged(e) = IF Expired(f) THEN FreeEntry(f)
                  ELSE [f EXCEPT !.state = IF @ = "rerequesting" THEN "stable" ELSE @]
    BY <1>2 DEF Aged
  <2> HIDE DEF f
  <2>3. CASE Expired(f)
    <3>1. Aged(e) = FreeEntry(f)
      BY <2>2, <2>3
    <3> QED  BY <1>2, <2>1, <3>1, FreeEntryIsEmpty
  <2>4. CASE ~Expired(f)
    <3>1. Aged(e) = [f EXCEPT !.state = IF @ = "rerequesting" THEN "stable" ELSE @]
      BY <2>2, <2>4
    <3>3. f.ctime < MaxAge /\ (f.state = "pending" => f.ctime < MaxPending)
      BY <2>1, <2>4 DEF Expired, Entry
    <3>4. Aged(e) \in Entry /\ Aged(e).ctime = f.ctime
          /\ Aged(e).state = (IF f.state = "rerequesting" THEN "stable" ELSE f.state)
          /\ Aged(e).ip = f.ip /\ Aged(e).eth = f.eth /\ Aged(e).netif = f.netif
          /\ Aged(e).q = f.q
      <4>1. CASE f.state = "rerequesting"
        <5>1. Aged(e) = [f EXCEPT !.state = "stable"]  BY <3>1, <4>1
        <5> QED  BY <2>1, <4>1, <5>1 DEF Entry
      <4>2. CASE f.state # "rerequesting"
        <5>1. Aged(e) = [f EXCEPT !.state = f.state]  BY <3>1, <4>2
        <5>2. Aged(e) = f  BY <2>1, <5>1 DEF Entry
        <5> QED  BY <2>1, <4>2, <5>2
      <4> QED  BY <4>1, <4>2
    <3>5. Aged(e).state # "empty" /\ (e.state = "pending" <=> Aged(e).state = "pending")
          /\ (Stable(Aged(e)) <=> Stable(e))
      BY <1>2, <2>1, <3>4 DEF Stable, Entry
    <3>6. Live(Aged(e))
      BY <1>2, <2>1, <3>3, <3>4, <3>5 DEF Live
    <3> QED  BY <1>2, <2>1, <3>4, <3>5, <3>6
  <2> QED  BY <2>3, <2>4
<1> QED  BY <1>1, <1>2

-----------------------------------------------------------------------------
LEMMA TypeInit == Init => TypeInv
BY DEF Init, TypeInv, TypeOK, LiveEntries, Slot, Entry, Packet, NoPacket

LEMMA TypeStep == TypeInv /\ [Next]_vars => TypeInv'
<1> SUFFICES ASSUME TypeInv, [Next]_vars
             PROVE  TypeInv'
  OBVIOUS
<1> USE DEF TypeInv, TypeOK
<1>1. CASE UNCHANGED vars
  BY <1>1 DEF vars, LiveEntries
<1>2. ASSUME NEW h \in Hosts, NEW m \in Macs, NEW forUs \in BOOLEAN, ArpInput(h, m, forUs)
      PROVE  TypeInv'
  <2>1. heard' \in [Hosts -> Macs \union {NoMac}]
    BY <1>2 DEF ArpInput
  <2>2. ASSUME NEW i \in FindEntry(h),
               table' = [table EXCEPT ![i] = Updated(Found(h, i), m)]
        PROVE  table' \in [Slot -> Entry] /\ LiveEntries'
    <3>1. i \in Slot  BY FindReturnsSlot
    <3>2. Found(h, i) \in Entry /\ Found(h, i).ip = h  BY <3>1, FoundIsEntry
    <3>3. ASSUME NEW e \in Entry, e.ip = h
          PROVE  Updated(e, m) \in Entry /\ Live(Updated(e, m))
      <4>1. /\ Updated(e, m) \in Entry
            /\ Updated(e, m).ip = h /\ Updated(e, m).state = "stable"
            /\ Updated(e, m).ctime = 0
        BY <3>3, UpdatedIsEntry
      <4> QED  BY <4>1 DEF Live
    <3>4. Updated(Found(h, i), m) \in Entry /\ Live(Updated(Found(h, i), m))
      BY <3>2, <3>3
    <3> QED  BY <2>2, <3>1, <3>4 DEF LiveEntries
  <2>3. table' \in [Slot -> Entry] /\ LiveEntries'
    BY <1>2, <2>2 DEF ArpInput, LiveEntries
  <2>4. sent' \in [pkt : Packet \union {NoPacket}, mac : Macs \union {NoMac}]
    <3>1. ASSUME NEW i \in FindEntry(h)
          PROVE  Found(h, i).q \in Packet \union {NoPacket}
      BY FindReturnsSlot, FoundIsEntry DEF Entry
    <3> QED  BY <1>2, <3>1 DEF ArpInput
  <2> QED  BY <1>2, <2>1, <2>3, <2>4 DEF ArpInput
<1>3. ASSUME NEW h \in Hosts, OutputKnown(h)
      PROVE  TypeInv'
  <2>1. ASSUME NEW i \in Lookup(h)
        PROVE  i \in Slot /\ table[i].state # "empty" /\ table[i].ip = h
    BY DEF Lookup, First, StableMatch, Match, Stable
  <2>2. pkt' \in Packet /\ made' \in 0 .. MaxPackets
    BY <1>3 DEF OutputKnown, Packet
  <2> QED  BY <1>3, <2>1, <2>2 DEF OutputKnown, LiveEntries, Live
<1>4. ASSUME NEW h \in Hosts, OutputUnknown(h)
      PROVE  TypeInv'
  <2>1. pkt' \in Packet /\ made' \in 0 .. MaxPackets
    BY <1>4 DEF OutputUnknown, Packet
  <2>2. PICK i \in FindEntry(h) :
          /\ slot' = i
          /\ table' = [table EXCEPT ![i] =
               IF Found(h, i).state = "empty" THEN [Found(h, i) EXCEPT !.state = "pending"]
               ELSE Found(h, i)]
    BY <1>4 DEF OutputUnknown
  <2>3. i \in Slot  BY FindReturnsSlot
  <2>4. /\ Found(h, i) \in Entry /\ Found(h, i).ip = h
        /\ Found(h, i).state = "empty" => Found(h, i).ctime = 0
        /\ Found(h, i).state # "empty" => Found(h, i) = table[i]
    BY <2>3, FoundIsEntry DEF Match
  <2>5. table' \in [Slot -> Entry] /\ LiveEntries'
    BY <2>2, <2>3, <2>4 DEF LiveEntries, Live, Entry
  <2> QED  BY <1>4, <2>1, <2>2, <2>3, <2>5 DEF OutputUnknown
<1>5. CASE RequestAgain
  BY <1>5 DEF RequestAgain, LiveEntries, Live, Entry
<1>6. CASE SendPacket
  BY <1>6 DEF SendPacket, LiveEntries, Entry
<1>7. CASE Requested
  <2>1. table[slot].state \in {"empty", "pending", "stable", "rerequesting"}
    BY DEF Entry
  <2>2. pc' \in {"send", "queue", "idle"} /\ cached' \in Slot
        /\ pkt' \in Packet \union {NoPacket}
    BY <1>7, <2>1 DEF Requested, Stable
  <2> QED  BY <1>7, <2>2 DEF Requested, LiveEntries
<1>8. CASE QueuePacket
  BY <1>8 DEF QueuePacket, LiveEntries, Live, Entry
<1>9. CASE Tmr
  <2>1. \A i \in Slot : table'[i] = Aged(table[i])
    BY <1>9 DEF Tmr
  <2>2. \A i \in Slot : /\ Aged(table[i]) \in Entry
                        /\ Aged(table[i]).state # "empty" => Live(Aged(table[i]))
    BY AgedIsEntry DEF LiveEntries
  <2> QED  BY <1>9, <2>1, <2>2 DEF Tmr, LiveEntries
<1>10. CASE LinkDown
  <2>1. \A i \in Slot : \/ table'[i] = table[i]
                        \/ table'[i] = FreeEntry(table[i])
    BY <1>10 DEF LinkDown
  <2>2. table' \in [Slot -> Entry] /\ LiveEntries'
    BY <1>10, <2>1, FreeEntryIsEmpty DEF LinkDown, LiveEntries
  <2>3. \A i \in Slot : table'[i].ip = table[i].ip /\ table'[i].ctime = table[i].ctime
    BY <2>1, FreeEntryIsEmpty
  <2> QED  BY <1>10, <2>2, <2>3 DEF LinkDown
<1> QED
  BY <1>1, <1>2, <1>3, <1>4, <1>5, <1>6, <1>7, <1>8, <1>9, <1>10 DEF Next, Sending

(***************************************************************************)
(* Type correctness: ages stay below ARP_MAXAGE (and so in a u8_t), in     *)
(* every interleaving of the loop and the link interrupt.                  *)
(***************************************************************************)
THEOREM TypeCorrect == Spec => []TypeOK
<1>1. TypeInv => TypeOK  BY DEF TypeInv
<1> QED  BY <1>1, TypeInit, TypeStep, PTL DEF Spec

-----------------------------------------------------------------------------
(* Safety, when the link goes down between the calls of the main loop.     *)

\* The entry a call in progress works on is still the one of its packet.
CallInv ==
  /\ pc # "idle" => /\ pkt \in Packet /\ table[slot].ip = pkt.dst
                    /\ table[slot].state # "empty"
  /\ pc \in {"rerequest", "send"} => Stable(table[slot])
  /\ pc = "queue" => table[slot].state = "pending"

SafeInv == /\ TypeInv /\ OneEntryPerHost /\ QueuedForItsHost /\ FreshMapping
           /\ CallInv

(* A new or renewed entry for h does not double one there is.              *)
LEMMA OnlyEntryForHost ==
  ASSUME table \in [Slot -> Entry], OneEntryPerHost, NEW h \in Hosts,
         NEW i \in FindEntry(h), NEW e \in Entry, e.ip = h,
         table' = [table EXCEPT ![i] = e]
  PROVE  /\ OneEntryPerHost'
         /\ \A j \in Slot \ {i} : /\ table'[j] = table[j]
                                  /\ table[j].state # "empty" => table[j].ip # h
<1>1. i \in Slot  BY FindReturnsSlot
<1>2. \A j \in Slot \ {i} : table[j].state # "empty" => table[j].ip # h
  <2>1. CASE Match(h) = {}  BY <2>1 DEF Match
  <2>2. CASE Match(h) # {}
    <3>1. i \in Match(h)  BY <2>2, FindReturnsSlot
    <3> QED  BY <3>1 DEF Match, OneEntryPerHost
  <2> QED  BY <2>1, <2>2
<1>3. table'[i] = e /\ \A j \in Slot \ {i} : table'[j] = table[j]  BY <1>1
<1> QED  BY <1>1, <1>2, <1>3 DEF OneEntryPerHost

(* What etharp_find_entry leaves holds a packet only if it is h's.         *)
LEMMA FoundQueue ==
  ASSUME table \in [Slot -> Entry], QueuedForItsHost, NEW h \in Hosts,
         NEW i \in FindEntry(h), Found(h, i).q # NoPacket
  PROVE  Found(h, i).state = "pending" /\ Found(h, i).q.dst = h
<1>1. i \in Slot  BY FindReturnsSlot
<1>2. CASE i \in Match(h)
  BY <1>1, <1>2, FoundIsEntry DEF QueuedForItsHost, Match
<1>3. CASE i \notin Match(h)
  BY <1>1, <1>3, FoundIsEntry DEF QueuedForItsHost
<1> QED  BY <1>2, <1>3

LEMMA UpdatedBelongs == ASSUME NEW e, NEW m PROVE Updated(e, m).netif
BY DEF Updated

LEMMA SafeInit == Init => SafeInv
<1> SUFFICES ASSUME Init PROVE SafeInv
  OBVIOUS
<1>1. \A i \in Slot : table[i].state = "empty" /\ table[i].q = NoPacket
  BY DEF Init
<1> QED
  BY <1>1, TypeInit DEF Init, SafeInv, OneEntryPerHost, QueuedForItsHost, FreshMapping,
                        Stable, CallInv

LEMMA SafeStep ==
  ASSUME "during" \notin Windows, SafeInv, [Next]_vars
  PROVE  SafeInv'
<1>1. TypeInv'  BY TypeStep DEF SafeInv
<1> USE DEF SafeInv
<1>2. table \in [Slot -> Entry] /\ slot \in Slot /\ cached \in Slot
  BY DEF TypeInv, TypeOK
<1>3. CASE UNCHANGED vars
  BY <1>1, <1>3 DEF vars, OneEntryPerHost, QueuedForItsHost, FreshMapping, CallInv
<1>4. ASSUME NEW h \in Hosts, NEW m \in Macs, NEW forUs \in BOOLEAN, ArpInput(h, m, forUs)
      PROVE  SafeInv'
  <2>1. pc = "idle" /\ pc' = "idle" /\ heard' = [heard EXCEPT ![h] = m]
        /\ heard \in [Hosts -> Macs \union {NoMac}]
    BY <1>4 DEF ArpInput, TypeInv, TypeOK
  <2>2. CallInv'  BY <2>1 DEF CallInv
  <2>3. CASE Match(h) = {} /\ table' = table
    <3>1. \A i \in Slot : Stable(table[i]) => table[i].ip # h
      BY <2>3 DEF Match, Stable
    <3>2. \A i \in Slot : Stable(table[i]) => table[i].ip \in Hosts
      BY DEF TypeInv, LiveEntries, Live, Stable
    <3>3. FreshMapping'
      BY <2>1, <2>3, <3>1, <3>2 DEF FreshMapping
    <3> QED  BY <1>1, <2>2, <2>3, <3>3 DEF OneEntryPerHost, QueuedForItsHost
  <2>4. ASSUME NEW i \in FindEntry(h),
               table' = [table EXCEPT ![i] = Updated(Found(h, i), m)]
        PROVE  SafeInv'
    <3>1. i \in Slot  BY <1>2, FindReturnsSlot
    <3>2. Found(h, i) \in Entry /\ Found(h, i).ip = h  BY <1>2, <3>1, FoundIsEntry
    <3> DEFINE u == Updated(Found(h, i), m)
    <3>3. /\ u \in Entry /\ u.ip = h /\ u.eth = m /\ u.q = NoPacket
          /\ u.state = "stable" /\ table' = [table EXCEPT ![i] = u]
      BY <2>4, <3>2, UpdatedIsEntry
    <3>8. u.netif  BY UpdatedBelongs
    <3> HIDE DEF u
    <3>4. /\ OneEntryPerHost'
          /\ \A j \in Slot \ {i} : /\ table'[j] = table[j]
                                   /\ table[j].state # "empty" => table[j].ip # h
      BY <1>2, <3>3, OnlyEntryForHost
    <3>5. table'[i] = u  BY <1>2, <3>1, <3>3
    <3>6. QueuedForItsHost'
      BY <3>3, <3>4, <3>5 DEF QueuedForItsHost
    <3>7. FreshMapping'
      <4>1. heard'[h] = m /\ \A k \in Hosts \ {h} : heard'[k] = heard[k]  BY <2>1
      <4>2. ASSUME NEW j \in Slot \ {i}, Stable(table[j])
            PROVE  table[j].ip \in Hosts \ {h}
        <5>1. table[j].state # "empty"  BY <4>2 DEF Stable
        <5>2. LiveEntries  BY DEF TypeInv
        <5>3. table[j].ip \in Hosts  BY <5>1, <5>2 DEF LiveEntries, Live
        <5> QED  BY <3>4, <5>1, <5>3
      <4>3. ASSUME NEW j \in Slot, Stable(table'[j])
            PROVE  table'[j].netif /\ table'[j].eth = heard'[table'[j].ip]
        <5>1. CASE j = i
          <6>1. table'[j].eth = heard'[table'[j].ip]  BY <3>3, <3>5, <4>1, <5>1
          <6> QED  BY <3>5, <3>8, <5>1, <6>1
        <5>2. CASE j # i
          <6>3. table'[j] = table[j]  BY <3>4, <5>2
          <6>1. table'[j] = table[j] /\ Stable(table[j])  BY <4>3, <6>3
          <6>2. heard'[table[j].ip] = heard[table[j].ip]  BY <4>1, <4>2, <5>2, <6>1
          <6> QED  BY <6>1, <6>2 DEF FreshMapping
        <5> QED  BY <5>1, <5>2
      <4> QED  BY <4>3 DEF FreshMapping, Stable
    <3> QED  BY <1>1, <2>2, <3>4, <3>6, <3>7
  <2> QED  BY <1>4, <2>3, <2>4 DEF ArpInput
<1>5. ASSUME NEW h \in Hosts, OutputKnown(h)
      PROVE  SafeInv'
  <2>1. PICK i \in Lookup(h) : slot' = i /\ pc' \in {"rerequest", "send"}
    BY <1>5 DEF OutputKnown
  <2>2. i \in Slot /\ Stable(table[i]) /\ table[i].ip = h
    BY <1>2 DEF Lookup, First, StableMatch, Match
  <2>3. pkt' \in Packet /\ pkt'.dst = h /\ table' = table /\ heard' = heard
    BY <1>5 DEF OutputKnown, Packet, TypeInv, TypeOK
  <2>4. CallInv'  BY <2>1, <2>2, <2>3 DEF CallInv, Stable
  <2> QED  BY <1>1, <2>3, <2>4 DEF OneEntryPerHost, QueuedForItsHost, FreshMapping
<1>6. ASSUME NEW h \in Hosts, OutputUnknown(h)
      PROVE  SafeInv'
  <2>1. PICK i \in FindEntry(h) :
          /\ slot' = i
          /\ table' = [table EXCEPT ![i] =
               IF Found(h, i).state = "empty" THEN [Found(h, i) EXCEPT !.state = "pending"]
               ELSE Found(h, i)]
    BY <1>6 DEF OutputUnknown
  <2>2. i \in Slot  BY <1>2, FindReturnsSlot
  <2>3. Found(h, i) \in Entry /\ Found(h, i).ip = h
        /\ (Found(h, i).state # "empty" => Found(h, i) = table[i])
        /\ (Found(h, i).q # NoPacket =>
              Found(h, i).state = "pending" /\ Found(h, i).q.dst = h)
    BY <1>2, <2>2, FoundIsEntry, FoundQueue
  <2>4. PICK e \in Entry : /\ table' = [table EXCEPT ![i] = e]
                           /\ e.ip = h /\ e.state # "empty"
                           /\ e.q # NoPacket => e.state = "pending" /\ e.q.dst = h
                           /\ Stable(e) => e = table[i]
    <3>1. CASE Found(h, i).state = "empty"
      <4>1. [Found(h, i) EXCEPT !.state = "pending"] \in Entry  BY <2>3 DEF Entry
      <4>2. /\ [Found(h, i) EXCEPT !.state = "pending"].state = "pending"
            /\ [Found(h, i) EXCEPT !.state = "pending"].ip = h
            /\ [Found(h, i) EXCEPT !.state = "pending"].q = Found(h, i).q
        BY <2>3 DEF Entry
      <4> QED  BY <2>1, <2>3, <3>1, <4>1, <4>2 DEF Stable
    <3>2. CASE Found(h, i).state # "empty"
      BY <2>1, <2>3, <3>2
    <3> QED  BY <3>1, <3>2
  <2>5. /\ OneEntryPerHost'
        /\ \A j \in Slot \ {i} : table'[j] = table[j]
    BY <1>2, <2>4, OnlyEntryForHost
  <2>6. table'[i] = e  BY <1>2, <2>2, <2>4
  <2>7. QueuedForItsHost'  BY <2>4, <2>5, <2>6 DEF QueuedForItsHost
  <2>8. heard' = heard /\ pc' = "request" /\ pkt' \in Packet /\ pkt'.dst = h
    BY <1>6 DEF OutputUnknown, Packet, TypeInv, TypeOK
  <2>9. FreshMapping'  BY <2>2, <2>4, <2>5, <2>6, <2>8 DEF FreshMapping
  <2>10. CallInv'  BY <2>1, <2>4, <2>6, <2>8 DEF CallInv
  <2> QED  BY <1>1, <2>5, <2>7, <2>9, <2>10
<1>7. CASE RequestAgain
  <2>1. /\ pc = "rerequest" /\ pc' = "send"
        /\ UNCHANGED <<pkt, slot, heard>>
    BY <1>7 DEF RequestAgain
  <2>2. /\ Stable(table[slot]) /\ Stable(table'[slot])
        /\ table'[slot].ip = table[slot].ip /\ table'[slot].q = table[slot].q
        /\ table'[slot].eth = table[slot].eth
        /\ (table'[slot].netif <=> table[slot].netif)
    BY <1>2, <1>7, <2>1 DEF RequestAgain, CallInv, Stable, Entry
  <2>3. \A j \in Slot \ {slot} : table'[j] = table[j]
    BY <1>2, <1>7 DEF RequestAgain
  <2>4. table[slot].q = NoPacket
    BY <1>2, <2>2 DEF QueuedForItsHost, Stable
  <2>5. OneEntryPerHost'
    BY <1>2, <2>2, <2>3 DEF OneEntryPerHost, Stable
  <2>6. QueuedForItsHost'
    BY <2>2, <2>3, <2>4 DEF QueuedForItsHost
  <2>7. FreshMapping'
    BY <1>2, <2>1, <2>2, <2>3 DEF FreshMapping
  <2>8. CallInv'
    BY <2>1, <2>2 DEF CallInv, Stable
  <2> QED  BY <1>1, <2>5, <2>6, <2>7, <2>8
<1>8. CASE SendPacket
  BY <1>1, <1>8 DEF SendPacket, OneEntryPerHost, QueuedForItsHost, FreshMapping, CallInv
<1>9. CASE Requested
  <2>1. UNCHANGED <<table, slot, heard>> /\ pc = "request"
    BY <1>9 DEF Requested
  <2>2. table[slot].state \in {"empty", "pending", "stable", "rerequesting"}
    BY <1>2 DEF Entry
  <2>3. table[slot].state # "empty" /\ table[slot].ip = pkt.dst /\ pkt \in Packet
    BY <2>1 DEF CallInv
  <2>4. /\ pkt' = pkt
        /\ \/ pc' = "send" /\ Stable(table[slot])
           \/ pc' = "queue" /\ table[slot].state = "pending"
    <3>1. CASE Stable(table[slot])
      <4>1. table[slot].state # "pending"  BY <3>1 DEF Stable
      <4> QED  BY <1>9, <2>3, <3>1, <4>1 DEF Requested
    <3>2. CASE table[slot].state = "pending"
      <4>1. ~Stable(table[slot])  BY <3>2 DEF Stable
      <4> QED  BY <1>9, <2>3, <3>2, <4>1 DEF Requested
    <3> QED  BY <2>2, <2>3, <3>1, <3>2 DEF Stable
  <2>5. CallInv'
    <3>1. CASE pc' = "send" /\ Stable(table[slot])
      BY <2>1, <2>3, <2>4, <3>1 DEF CallInv, Stable
    <3>2. CASE pc' = "queue" /\ table[slot].state = "pending"
      BY <2>1, <2>3, <2>4, <3>2 DEF CallInv, Stable
    <3> QED  BY <2>4, <3>1, <3>2
  <2> QED  BY <1>1, <2>1, <2>5 DEF OneEntryPerHost, QueuedForItsHost, FreshMapping
<1>10. CASE QueuePacket
  <2>1. pc = "queue" /\ pc' = "idle" /\ heard' = heard
    BY <1>10 DEF QueuePacket
  <2>2. table[slot].state = "pending" /\ table[slot].ip = pkt.dst
    BY <2>1 DEF CallInv
  <2>3. /\ table'[slot].ip = table[slot].ip /\ table'[slot].state = table[slot].state
        /\ table'[slot].q \in {table[slot].q, pkt}
    BY <1>2, <1>10 DEF QueuePacket, Entry
  <2>4. \A j \in Slot \ {slot} : table'[j] = table[j]
    BY <1>2, <1>10 DEF QueuePacket
  <2>5. OneEntryPerHost'
    BY <1>2, <2>3, <2>4 DEF OneEntryPerHost
  <2>6. QueuedForItsHost'
    BY <1>2, <2>2, <2>3, <2>4 DEF QueuedForItsHost
  <2>7. FreshMapping'
    BY <1>2, <2>1, <2>2, <2>3, <2>4 DEF FreshMapping, Stable
  <2> QED  BY <1>1, <2>1, <2>5, <2>6, <2>7 DEF CallInv
<1>11. CASE Tmr
  <2>1. \A i \in Slot : table'[i] = Aged(table[i])
    BY <1>11 DEF Tmr
  <2>2. pc' = "idle" /\ heard' = heard
    BY <1>11 DEF Tmr
  <2>3. \A i \in Slot :
          /\ table[i].state = "empty" => table'[i] = table[i]
          /\ table'[i].state # "empty" =>
               /\ table[i].state # "empty" /\ (Stable(table'[i]) <=> Stable(table[i]))
               /\ table[i].state = "pending" <=> table'[i].state = "pending"
               /\ table'[i].ip = table[i].ip /\ table'[i].eth = table[i].eth
               /\ table'[i].netif = table[i].netif /\ table'[i].q = table[i].q
          /\ table'[i].state = "empty" /\ table[i].state # "empty" => table'[i].q = NoPacket
    BY <1>2, <2>1, AgedIsEntry DEF TypeInv, LiveEntries
  <2>4. OneEntryPerHost'
    BY <2>3 DEF OneEntryPerHost
  <2>5. QueuedForItsHost'
    BY <2>3 DEF QueuedForItsHost
  <2>6. FreshMapping'
    BY <2>2, <2>3 DEF FreshMapping, Stable
  <2> QED  BY <1>1, <2>2, <2>4, <2>5, <2>6 DEF CallInv
<1>12. CASE LinkDown
  <2>1. pc = "idle" /\ pc' = "idle" /\ heard' = heard
    BY <1>12 DEF LinkDown
  <2>2. \A i \in Slot : \/ table'[i] = table[i]
                        \/ table'[i].state = "empty" /\ table'[i].q = NoPacket
    BY <1>2, <1>12, FreeEntryIsEmpty DEF LinkDown
  <2>3. OneEntryPerHost'
    BY <2>2 DEF OneEntryPerHost
  <2>4. QueuedForItsHost'
    BY <2>2 DEF QueuedForItsHost
  <2>5. FreshMapping'
    BY <2>1, <2>2 DEF FreshMapping, Stable
  <2> QED  BY <1>1, <2>1, <2>3, <2>4, <2>5 DEF CallInv
<1> QED
  BY <1>3, <1>4, <1>5, <1>6, <1>7, <1>8, <1>9, <1>10, <1>11, <1>12 DEF Next, Sending

LEMMA SafeInvariance ==
  ASSUME "during" \notin Windows
  PROVE  Spec => []SafeInv
BY SafeInit, SafeStep, PTL DEF Spec

(* No host has two entries in the table.                                   *)
THEOREM NoDoubleEntry ==
  ASSUME "during" \notin Windows
  PROVE  Spec => []OneEntryPerHost
<1>1. SafeInv => OneEntryPerHost  BY DEF SafeInv
<1> QED  BY <1>1, SafeInvariance, PTL

(* A packet is queued on the pending entry of its own next hop only.       *)
THEOREM QueuesKeepTheirHost ==
  ASSUME "during" \notin Windows
  PROVE  Spec => []QueuedForItsHost
<1>1. SafeInv => QueuedForItsHost  BY DEF SafeInv
<1> QED  BY <1>1, SafeInvariance, PTL

(* A stable entry holds what its host announced last.                      *)
THEOREM MappingsStayFresh ==
  ASSUME "during" \notin Windows
  PROVE  Spec => []FreshMapping
<1>1. SafeInv => FreshMapping  BY DEF SafeInv
<1> QED  BY <1>1, SafeInvariance, PTL

(***************************************************************************)
(* Every IP packet goes to the address its next hop announced last.        *)
(***************************************************************************)
THEOREM PacketsReachTheirHost ==
  ASSUME "during" \notin Windows
  PROVE  Spec => DeliveredToOwnHost
<1>1. ASSUME SafeInv, [Next]_vars
      PROVE  [sent' # sent => sent'.mac = heard'[sent'.pkt.dst]]_vars
  <2> SUFFICES ASSUME sent' # sent
               PROVE  sent'.mac = heard'[sent'.pkt.dst]
    OBVIOUS
  <2>1. table \in [Slot -> Entry] /\ slot \in Slot
        /\ heard \in [Hosts -> Macs \union {NoMac}]
    BY <1>1 DEF SafeInv, TypeInv, TypeOK
  <2>2. ASSUME NEW h \in Hosts, NEW m \in Macs, NEW forUs \in BOOLEAN, ArpInput(h, m, forUs)
        PROVE  sent'.mac = heard'[sent'.pkt.dst]
    <3>1. PICK i \in FindEntry(h) : Found(h, i).q # NoPacket
                                   /\ sent' = [pkt |-> Found(h, i).q, mac |-> m]
      BY <2>2 DEF ArpInput
    <3>2. Found(h, i).q.dst = h
      BY <1>1, <2>1, <3>1, FoundQueue DEF SafeInv
    <3>3. heard'[h] = m  BY <2>1, <2>2 DEF ArpInput
    <3> QED  BY <3>1, <3>2, <3>3
  <2>3. CASE SendPacket
    BY <1>1, <2>1, <2>3 DEF SendPacket, SafeInv, CallInv, FreshMapping
  <2> QED
    BY <1>1, <2>2, <2>3 DEF Next, Sending, vars, OutputKnown, OutputUnknown, RequestAgain,
                            Requested, QueuePacket, Tmr, LinkDown
<1> QED  BY <1>1, SafeInvariance, PTL DEF Spec, DeliveredToOwnHost

(***************************************************************************)
(* A pending entry is never made younger, whichever host asks for it and   *)
(* wherever the link goes down: no renewal restarts its time.              *)
(***************************************************************************)
THEOREM PendingTimeRuns == Spec => PendingAges
<1> DEFINE Waits(i) == /\ table[i].state = "pending" /\ table'[i].state = "pending"
                       /\ table'[i].ip = table[i].ip
           Older(i) == /\ table'[i].ctime >= table[i].ctime
                       /\ table'[i].ctime < MaxPending
                       /\ Tmr => table'[i].ctime > table[i].ctime
<1>1. ASSUME TypeInv, TypeInv', [Next]_vars
      PROVE  [ \A i \in Slot :
                 /\ table[i].state = "pending" /\ table'[i].state = "pending"
                 /\ table'[i].ip = table[i].ip
                 => /\ table'[i].ctime >= table[i].ctime /\ table'[i].ctime < MaxPending
                    /\ Tmr => table'[i].ctime > table[i].ctime ]_vars
  <2> SUFFICES ASSUME Next, NEW i \in Slot, Waits(i)
               PROVE  Older(i)
    BY <1>1
  <2>1. table \in [Slot -> Entry] /\ table' \in [Slot -> Entry] /\ slot \in Slot
    BY <1>1 DEF TypeInv, TypeOK
  <2>2. table[i].ctime \in Nat /\ table'[i].ctime \in Nat
    BY <2>1 DEF Entry
  <2>3. table'[i].ctime < MaxPending
    BY <1>1 DEF TypeInv, LiveEntries, Live
  <2>4. Tmr => table'[i].ctime = table[i].ctime + 1
    <3> SUFFICES ASSUME Tmr PROVE table'[i].ctime = table[i].ctime + 1
      OBVIOUS
    <3>1. table[i] \in Entry /\ table[i].state # "empty" /\ Live(table[i])
      BY <1>1, <2>1 DEF TypeInv, LiveEntries
    <3>2. table'[i] = Aged(table[i])  BY DEF Tmr
    <3>3. Aged(table[i]).state # "empty"  BY <3>2
    <3>4. Aged(table[i]).ctime = table[i].ctime + 1  BY <3>1, <3>3, AgedIsEntry
    <3> QED  BY <3>2, <3>4
  <2>5. CASE ~Tmr
    <3> SUFFICES table'[i] = table[i] \/ table'[i].ctime = table[i].ctime
      BY <2>2, <2>3, <2>5
    <3>1. ASSUME NEW h \in Hosts, NEW m \in Macs, NEW forUs \in BOOLEAN,
                 ArpInput(h, m, forUs)
          PROVE  table'[i] = table[i]
      <4>1. CASE table' = table  BY <4>1
      <4>2. ASSUME NEW j \in FindEntry(h),
                   table' = [table EXCEPT ![j] = Updated(Found(h, j), m)]
            PROVE  table'[i] = table[i]
        <5>1. j \in Slot  BY <2>1, FindReturnsSlot
        <5>2. Updated(Found(h, j), m).state = "stable"
          BY <2>1, <5>1, FoundIsEntry, UpdatedIsEntry
        <5>3. table'[j].state = "stable"  BY <2>1, <4>2, <5>1, <5>2
        <5> QED  BY <2>1, <4>2, <5>1, <5>3
      <4> QED  BY <3>1, <4>1, <4>2 DEF ArpInput
    <3>2. ASSUME NEW h \in Hosts, OutputUnknown(h)
          PROVE  table'[i] = table[i]
      <4>0. PICK j \in FindEntry(h) :
              table' = [table EXCEPT ![j] =
                IF Found(h, j).state = "empty" THEN [Found(h, j) EXCEPT !.state = "pending"]
                ELSE Found(h, j)]
        BY <3>2 DEF OutputUnknown
      <4>1. PICK e \in {Found(h, j), [Found(h, j) EXCEPT !.state = "pending"]} :
              /\ table' = [table EXCEPT ![j] = e]
              /\ Found(h, j).state # "empty" => e = Found(h, j)
        BY <4>0
      <4>2. j \in Slot  BY <2>1, FindReturnsSlot
      <4>3. Found(h, j) \in Entry /\ Found(h, j).ip = h
            /\ (j \in Match(h) => Found(h, j) = table[j])
        BY <2>1, <4>2, FoundIsEntry
      <4>4. e.ip = h  BY <4>1, <4>3 DEF Entry
      <4>5. CASE j = i
        <5>1. table'[i] = e  BY <2>1, <4>1, <4>5
        <5>2. i \in Match(h)  BY <4>4, <5>1 DEF Match
        <5>3. Found(h, j) = table[i]  BY <4>3, <4>5, <5>2
        <5>4. e = Found(h, j)  BY <4>1, <5>3
        <5> QED  BY <5>1, <5>3, <5>4
      <4> QED  BY <2>1, <4>1, <4>2, <4>5
    <3>3. ASSUME NEW h \in Hosts, OutputKnown(h)
          PROVE  table'[i] = table[i]
      BY <3>3 DEF OutputKnown
    <3>4. CASE RequestAgain
      <4>1. i # slot \/ table'[i] = table[i]
        BY <2>1, <3>4 DEF RequestAgain, Entry
      <4> QED  BY <2>1, <3>4, <4>1 DEF RequestAgain
    <3>5. CASE SendPacket \/ Requested  BY <3>5 DEF SendPacket, Requested
    <3>6. CASE QueuePacket  BY <2>1, <3>6 DEF QueuePacket, Entry
    <3>7. CASE LinkDown
      BY <2>1, <3>7, FreeEntryIsEmpty DEF LinkDown
    <3> QED
      BY <2>5, <3>1, <3>2, <3>3, <3>4, <3>5, <3>6, <3>7 DEF Next, Sending
  <2> QED  BY <2>2, <2>3, <2>4, <2>5
<1> QED  BY <1>1, TypeInit, TypeStep, PTL DEF Spec, PendingAges

-----------------------------------------------------------------------------
(* The table implements ArpService, under the same condition.              *)

\* Outside a call no packet is in hand, and a stable entry has an address.
HandInv == pc = "idle" => pkt = NoPacket
AddressInv == \A i \in Slot : Stable(table[i]) => table[i].eth # NoMac

RefInv == SafeInv /\ HandInv /\ AddressInv

LEMMA RefInit == Init => RefInv
<1> SUFFICES ASSUME Init PROVE RefInv
  OBVIOUS
<1>1. HandInv  BY DEF Init, HandInv
<1>2. AddressInv  BY DEF Init, AddressInv, Stable
<1> QED  BY <1>1, <1>2, SafeInit DEF RefInv

LEMMA HandStep == ASSUME RefInv, [Next]_vars PROVE HandInv'
<1> USE DEF RefInv, HandInv
<1>1. ASSUME NEW h \in Hosts, NEW m \in Macs, NEW forUs \in BOOLEAN, ArpInput(h, m, forUs)
      PROVE  HandInv'
  BY <1>1 DEF ArpInput
<1>2. ASSUME NEW h \in Hosts, OutputKnown(h) PROVE HandInv'
  BY <1>2 DEF OutputKnown
<1>3. ASSUME NEW h \in Hosts, OutputUnknown(h) PROVE HandInv'
  BY <1>3 DEF OutputUnknown
<1>4. CASE RequestAgain \/ SendPacket \/ QueuePacket
  BY <1>4 DEF RequestAgain, SendPacket, QueuePacket
<1>5. CASE Requested
  <2>1. table[slot].state \in {"empty", "pending", "stable", "rerequesting"}
    BY DEF SafeInv, TypeInv, TypeOK, Entry
  <2> QED  BY <1>5, <2>1 DEF Requested, Stable
<1>6. CASE Tmr \/ LinkDown \/ UNCHANGED vars
  BY <1>6 DEF Tmr, LinkDown, vars
<1> QED  BY <1>1, <1>2, <1>3, <1>4, <1>5, <1>6 DEF Next, Sending

LEMMA AddressStep == ASSUME RefInv, [Next]_vars PROVE AddressInv'
<1> USE DEF RefInv
<1>1. table \in [Slot -> Entry] /\ slot \in Slot
  BY DEF SafeInv, TypeInv, TypeOK
<1>2. ASSUME NEW h \in Hosts, NEW m \in Macs, NEW forUs \in BOOLEAN, ArpInput(h, m, forUs)
      PROVE  AddressInv'
  <2>1. CASE table' = table  BY <2>1 DEF AddressInv
  <2>2. ASSUME NEW i \in FindEntry(h), table' = [table EXCEPT ![i] = Updated(Found(h, i), m)]
        PROVE  AddressInv'
    <3>1. i \in Slot  BY <1>1, FindReturnsSlot
    <3>2. Updated(Found(h, i), m).eth = m  BY <1>1, <3>1, FoundIsEntry, UpdatedIsEntry
    <3> QED  BY <1>1, <2>2, <3>1, <3>2 DEF AddressInv
  <2> QED  BY <1>2, <2>1, <2>2 DEF ArpInput
<1>3. ASSUME NEW h \in Hosts, OutputKnown(h) PROVE AddressInv'
  BY <1>3 DEF OutputKnown, AddressInv
<1>4. ASSUME NEW h \in Hosts, OutputUnknown(h) PROVE AddressInv'
  <2>1. PICK i \in FindEntry(h) :
          table' = [table EXCEPT ![i] =
            IF Found(h, i).state = "empty" THEN [Found(h, i) EXCEPT !.state = "pending"]
            ELSE Found(h, i)]
    BY <1>4 DEF OutputUnknown
  <2>2. i \in Slot  BY <1>1, FindReturnsSlot
  <2>3. Found(h, i) \in Entry /\ (Found(h, i).state # "empty" => Found(h, i) = table[i])
    BY <1>1, <2>2, FoundIsEntry
  <2>4. table'[i] = table[i] \/ table'[i].state = "pending"
    BY <1>1, <2>1, <2>2, <2>3 DEF Entry
  <2>5. \A j \in Slot \ {i} : table'[j] = table[j]
    BY <1>1, <2>1, <2>2
  <2> QED  BY <2>4, <2>5 DEF AddressInv, Stable
<1>5. CASE RequestAgain
  <2>1. \A j \in Slot : /\ table'[j].eth = table[j].eth
                        /\ j # slot => table'[j] = table[j]
    BY <1>1, <1>5 DEF RequestAgain, Entry
  <2>2. Stable(table[slot])
    BY <1>5 DEF RequestAgain, SafeInv, CallInv
  <2> QED  BY <1>1, <2>1, <2>2 DEF AddressInv
<1>6. CASE SendPacket \/ Requested \/ UNCHANGED vars
  BY <1>6 DEF SendPacket, Requested, vars, AddressInv
<1>7. CASE QueuePacket
  <2>1. \A j \in Slot : table'[j].eth = table[j].eth /\ table'[j].state = table[j].state
    BY <1>1, <1>7 DEF QueuePacket, Entry
  <2> QED  BY <2>1 DEF AddressInv, Stable
<1>8. CASE Tmr
  <2>1. ASSUME NEW j \in Slot, Stable(table'[j])
        PROVE  Stable(table[j]) /\ table'[j].eth = table[j].eth
    <3>1. table[j] \in Entry /\ (table[j].state # "empty" => Live(table[j]))
      BY <1>1 DEF SafeInv, TypeInv, LiveEntries
    <3>2. table'[j] = Aged(table[j])  BY <1>8 DEF Tmr
    <3>3. Aged(table[j]).state # "empty"  BY <2>1, <3>2 DEF Stable
    <3> QED  BY <2>1, <3>1, <3>2, <3>3, AgedIsEntry
  <2> QED  BY <2>1 DEF AddressInv
<1>9. CASE LinkDown
  <2>1. \A j \in Slot : table'[j] = table[j] \/ table'[j].state = "empty"
    BY <1>1, <1>9, FreeEntryIsEmpty DEF LinkDown
  <2> QED  BY <2>1 DEF AddressInv, Stable
<1> QED
  BY <1>2, <1>3, <1>4, <1>5, <1>6, <1>7, <1>8, <1>9 DEF Next, Sending

(* What the service sees of a host is what the table has in its one entry. *)
View ==
  /\ Known = [h \in Hosts |-> Known[h]] /\ Waiting = [h \in Hosts |-> Waiting[h]]
  /\ \A h \in Hosts : Match(h) = {} => Known[h] = NoMac /\ Waiting[h] = NoPacket
  /\ \A i \in Slot : table[i].state # "empty" =>
       /\ table[i].ip \in Hosts
       /\ Known[table[i].ip] = IF Stable(table[i]) THEN table[i].eth ELSE NoMac
       /\ Waiting[table[i].ip] = table[i].q

LEMMA ViewOfTable == SafeInv => View
<1> SUFFICES ASSUME SafeInv PROVE View
  OBVIOUS
<1>1. Known = [h \in Hosts |-> Known[h]] /\ Waiting = [h \in Hosts |-> Waiting[h]]
  BY DEF Known, Waiting
<1>2. ASSUME NEW h \in Hosts, Match(h) = {}
      PROVE  Known[h] = NoMac /\ Waiting[h] = NoPacket
  BY <1>2 DEF Known, Waiting, StableMatch
<1>3. ASSUME NEW i \in Slot, table[i].state # "empty"
      PROVE  /\ table[i].ip \in Hosts
             /\ Known[table[i].ip] = IF Stable(table[i]) THEN table[i].eth ELSE NoMac
             /\ Waiting[table[i].ip] = table[i].q
  <2>1. table[i].ip \in Hosts
    BY <1>3 DEF SafeInv, TypeInv, LiveEntries, Live
  <2>2. Match(table[i].ip) = {i}
    BY <1>3 DEF SafeInv, OneEntryPerHost, Match
  <2>3. StableMatch(table[i].ip) = IF Stable(table[i]) THEN {i} ELSE {}
    BY <2>2 DEF StableMatch
  <2>4. Known[table[i].ip] = IF Stable(table[i]) THEN table[i].eth ELSE NoMac
    BY <2>1, <2>3 DEF Known
  <2>5. Waiting[table[i].ip] = table[i].q
    <3>1. CASE table[i].q = NoPacket
      BY <2>1, <2>2, <3>1 DEF Waiting
    <3>2. CASE table[i].q # NoPacket
      <4>1. {j \in Match(table[i].ip) : table[j].q # NoPacket} = {i}
        BY <2>2, <3>2
      <4>2. (CHOOSE j \in Match(table[i].ip) : table[j].q # NoPacket) = i
        BY <2>2, <3>2
      <4> QED  BY <2>1, <2>2, <3>2, <4>2 DEF Waiting
    <3> QED  BY <3>1, <3>2
  <2> QED  BY <2>1, <2>4, <2>5
<1> QED  BY <1>1, <1>2, <1>3 DEF View

LEMMA ViewOfNext == SafeInv' => View'
BY ViewOfTable, PTL

\* A step after which some hosts other than h are known no more.
LosesOthers(h) ==
  \E lost \in SUBSET (Hosts \ {h}) : \A k \in Hosts \ {h} :
    /\ Known'[k] = IF k \in lost THEN NoMac ELSE Known[k]
    /\ Waiting'[k] = IF k \in lost THEN NoPacket ELSE Waiting[k]

(* A step that turns one entry i into h's and leaves the others loses the  *)
(* host that i belonged to and no other.                                   *)
LEMMA OthersLost ==
  ASSUME SafeInv, SafeInv', NEW h \in Hosts, NEW i \in Slot, table'[i].ip = h,
         \A j \in Slot \ {i} : table'[j] = table[j]
  PROVE  LosesOthers(h)
<1>1. View /\ View'  BY ViewOfTable, ViewOfNext
<1>2. PICK lost \in SUBSET (Hosts \ {h}) : \A k \in Hosts \ {h} : k \in lost <=> Match(k)' = {}
  <2>1. {k \in Hosts \ {h} : Match(k)' = {}} \in SUBSET (Hosts \ {h})  OBVIOUS
  <2> QED  BY <2>1
<1>3. ASSUME NEW k \in Hosts \ {h}
      PROVE  /\ Known'[k] = IF k \in lost THEN NoMac ELSE Known[k]
             /\ Waiting'[k] = IF k \in lost THEN NoPacket ELSE Waiting[k]
  <2>1. CASE k \in lost
    BY <1>1, <1>2, <2>1 DEF View
  <2>2. CASE k \notin lost
    <3>1. PICK j \in Slot : table'[j].state # "empty" /\ table'[j].ip = k
      BY <1>2, <2>2 DEF Match
    <3>2. table'[j] = table[j]  BY <3>1
    <3>3. Known'[k] = (IF Stable(table'[j]) THEN table'[j].eth ELSE NoMac)
          /\ Waiting'[k] = table'[j].q
      BY <1>1, <3>1 DEF View
    <3>4. Known[k] = (IF Stable(table[j]) THEN table[j].eth ELSE NoMac)
          /\ Waiting[k] = table[j].q
      BY <1>1, <3>1, <3>2 DEF View
    <3> QED  BY <2>2, <3>2, <3>3, <3>4
  <2> QED  BY <2>1, <2>2
<1> QED  BY <1>2, <1>3 DEF LosesOthers

(* A step that only frees entries.                                         *)
LEMMA EntriesFreed ==
  ASSUME SafeInv, SafeInv',
         \A j \in Slot : table'[j].state # "empty" =>
            /\ table[j].state # "empty" /\ (Stable(table'[j]) <=> Stable(table[j]))
            /\ table'[j].ip = table[j].ip /\ table'[j].eth = table[j].eth
            /\ table'[j].q = table[j].q
  PROVE  \E lost \in SUBSET Hosts : Service!Lose(lost)
<1>1. View /\ View'  BY ViewOfTable, ViewOfNext
<1>2. PICK lost \in SUBSET Hosts : \A k \in Hosts : k \in lost <=> Match(k)' = {}
  <2>1. {k \in Hosts : Match(k)' = {}} \in SUBSET Hosts  OBVIOUS
  <2> QED  BY <2>1
<1>3. ASSUME NEW k \in Hosts
      PROVE  /\ Known'[k] = IF k \in lost THEN NoMac ELSE Known[k]
             /\ Waiting'[k] = IF k \in lost THEN NoPacket ELSE Waiting[k]
  <2>1. CASE k \in lost
    BY <1>1, <1>2, <2>1 DEF View
  <2>2. CASE k \notin lost
    <3>1. PICK j \in Slot : table'[j].state # "empty" /\ table'[j].ip = k
      BY <1>2, <2>2 DEF Match
    <3>2. /\ table[j].state # "empty" /\ (Stable(table'[j]) <=> Stable(table[j]))
          /\ table[j].ip = k /\ table'[j].eth = table[j].eth /\ table'[j].q = table[j].q
      BY <3>1
    <3>3. Known'[k] = (IF Stable(table'[j]) THEN table'[j].eth ELSE NoMac)
          /\ Waiting'[k] = table'[j].q
      BY <1>1, <3>1 DEF View
    <3>4. Known[k] = (IF Stable(table[j]) THEN table[j].eth ELSE NoMac)
          /\ Waiting[k] = table[j].q
      BY <1>1, <3>1, <3>2 DEF View
    <3> QED  BY <2>2, <3>2, <3>3, <3>4
  <2> QED  BY <2>1, <2>2
<1>4. /\ Known' = [k \in Hosts |-> IF k \in lost THEN NoMac ELSE Known[k]]
      /\ Waiting' = [k \in Hosts |-> IF k \in lost THEN NoPacket ELSE Waiting[k]]
  <2>1. Known' = [k \in Hosts |-> Known'[k]] /\ Waiting' = [k \in Hosts |-> Waiting'[k]]
    BY <1>1 DEF View
  <2> QED  BY <1>3, <2>1, Zenon
<1> QED  BY <1>4 DEF Service!Lose

\* An address learnt: what waits for the host is sent to it.
LEMMA LearnStep ==
  ASSUME RefInv, SafeInv', NEW h \in Hosts, NEW m \in Macs, NEW forUs \in BOOLEAN,
         ArpInput(h, m, forUs)
  PROVE  [Service!Next]_Service!vars
<1>0. table \in [Slot -> Entry] /\ SafeInv /\ View /\ View'
  BY ViewOfTable, ViewOfNext DEF RefInv, SafeInv, TypeInv, TypeOK
<1>1. CASE table' = table /\ sent' = sent
  <2>1. Known' = Known /\ Waiting' = Waiting
    BY <1>1 DEF Known, Waiting, StableMatch, Match
  <2> QED  BY <1>1, <2>1 DEF ArpInput, Service!vars
<1>2. ASSUME NEW i \in FindEntry(h), table' = [table EXCEPT ![i] = Updated(Found(h, i), m)],
             sent' = IF Found(h, i).q = NoPacket THEN sent ELSE [pkt |-> Found(h, i).q, mac |-> m]
      PROVE  [Service!Next]_Service!vars
  <2>1. i \in Slot /\ (Match(h) # {} => i \in Match(h))  BY <1>0, FindReturnsSlot
  <2>2. /\ table'[i].state = "stable" /\ table'[i].ip = h /\ table'[i].eth = m
        /\ table'[i].q = NoPacket
        /\ \A j \in Slot \ {i} : table'[j] = table[j]
    BY <1>0, <1>2, <2>1, FoundIsEntry, UpdatedIsEntry
  <2>3. Known'[h] = m /\ Waiting'[h] = NoPacket
    <3>1. Stable(table'[i]) /\ table'[i].state # "empty"  BY <2>2 DEF Stable
    <3> QED  BY <1>0, <2>1, <2>2, <3>1 DEF View
  <2>4. PICK lost \in SUBSET (Hosts \ {h}) : \A k \in Hosts \ {h} :
           /\ Known'[k] = IF k \in lost THEN NoMac ELSE Known[k]
           /\ Waiting'[k] = IF k \in lost THEN NoPacket ELSE Waiting[k]
    BY <1>0, <2>1, <2>2, OthersLost DEF LosesOthers
  <2>5. Waiting[h] = Found(h, i).q
    <3>1. CASE Match(h) = {}
      <4>1. Found(h, i).q = NoPacket
        <5>1. i \notin Match(h)  BY <3>1
        <5>2. Found(h, i).state = "empty"  BY <1>0, <2>1, <5>1, FoundIsEntry
        <5>3. Found(h, i).state # "pending"  BY <5>2
        <5> QED  BY <1>0, <5>3, FoundQueue DEF SafeInv
      <4> QED  BY <1>0, <3>1, <4>1 DEF View
    <3>2. CASE Match(h) # {}
      <4>1. i \in Match(h) /\ Found(h, i) = table[i]
        BY <1>0, <2>1, <3>2, FoundIsEntry
      <4>2. table[i].state # "empty" /\ table[i].ip = h  BY <4>1 DEF Match
      <4> QED  BY <1>0, <2>1, <4>1, <4>2 DEF View
    <3> QED  BY <3>1, <3>2
  <2>6. /\ Known' = [k \in Hosts |-> IF k = h THEN m ELSE IF k \in lost THEN NoMac ELSE Known[k]]
        /\ Waiting' = [k \in Hosts |-> IF k \in lost \union {h} THEN NoPacket ELSE Waiting[k]]
    <3>1. Known' = [k \in Hosts |-> Known'[k]] /\ Waiting' = [k \in Hosts |-> Waiting'[k]]
      BY <1>0 DEF View
    <3>2. \A k \in Hosts :
            Known'[k] = IF k = h THEN m ELSE IF k \in lost THEN NoMac ELSE Known[k]
      BY <2>3, <2>4
    <3>3. \A k \in Hosts :
            Waiting'[k] = IF k \in lost \union {h} THEN NoPacket ELSE Waiting[k]
      BY <2>3, <2>4
    <3> QED  BY <3>1, <3>2, <3>3, Zenon
  <2>7. Service!Learn(h, m, lost)
    BY <1>2, <2>5, <2>6 DEF Service!Learn, ArpInput
  <2>8. lost \in SUBSET Hosts /\ h \in Hosts \ lost  OBVIOUS
  <2> QED  BY <2>7, <2>8 DEF Service!Next
<1> QED  BY <1>1, <1>2 DEF ArpInput

\* A packet taken: for a host with no entry one is made, and waits for nothing yet.
LEMMA TakeStep ==
  ASSUME RefInv, SafeInv', NEW h \in Hosts, OutputUnknown(h)
  PROVE  Service!Next
<1>0. /\ table \in [Slot -> Entry] /\ cached \in Slot /\ SafeInv /\ View /\ View'
      /\ pkt = NoPacket /\ sent' = sent
  BY ViewOfTable, ViewOfNext DEF RefInv, HandInv, SafeInv, TypeInv, TypeOK, OutputUnknown
<1>1. pkt' \in Packet
  BY <1>0 DEF OutputUnknown, Packet, SafeInv, TypeInv, TypeOK
<1>2. PICK i \in FindEntry(h) :
        table' = [table EXCEPT ![i] =
          IF Found(h, i).state = "empty" THEN [Found(h, i) EXCEPT !.state = "pending"]
          ELSE Found(h, i)]
  BY DEF OutputUnknown
<1>3. i \in Slot /\ (Match(h) # {} => i \in Match(h))  BY <1>0, <1>2, FindReturnsSlot
<1>4. \A j \in Slot \ {i} : table'[j] = table[j]
  BY <1>0, <1>2, <1>3
<1>5. Found(h, i) \in Entry /\ Found(h, i).ip = h
  BY <1>0, <1>3, FoundIsEntry
<1>6. table'[i].ip = h /\ table'[i].state # "empty" /\ table'[i].q = Found(h, i).q
  <2>1. table'[i] = IF Found(h, i).state = "empty" THEN [Found(h, i) EXCEPT !.state = "pending"]
                    ELSE Found(h, i)
    BY <1>0, <1>2, <1>3
  <2> QED  BY <1>5, <2>1 DEF Entry
<1>7. Known'[h] = Known[h] /\ Waiting'[h] = Waiting[h]
  <2>1. CASE i \in Match(h)
    <3>1. Found(h, i) = table[i] /\ table[i].state # "empty" /\ table[i].ip = h
      BY <1>0, <1>3, <2>1, FoundIsEntry DEF Match
    <3>2. table'[i] = table[i]
      BY <1>0, <1>2, <1>3, <3>1
    <3> QED  BY <1>0, <1>3, <3>1, <3>2 DEF View
  <2>2. CASE i \notin Match(h)
    <3>1. Match(h) = {} /\ Found(h, i).state = "empty"
      BY <1>0, <1>3, <2>2, FoundIsEntry
    <3>2. Found(h, i).state # "pending"  BY <3>1
    <3>3. Found(h, i).q = NoPacket
      BY <1>0, <1>2, <3>2, FoundQueue DEF SafeInv
    <3>4. table'[i].state = "pending"
      BY <1>0, <1>2, <1>3, <1>5, <3>1 DEF Entry
    <3>5. ~Stable(table'[i])  BY <3>4 DEF Stable
    <3> QED  BY <1>0, <1>3, <1>6, <3>1, <3>3, <3>5 DEF View
  <2> QED  BY <2>1, <2>2
<1>8. PICK lost \in SUBSET (Hosts \ {h}) : \A k \in Hosts \ {h} :
         /\ Known'[k] = IF k \in lost THEN NoMac ELSE Known[k]
         /\ Waiting'[k] = IF k \in lost THEN NoPacket ELSE Waiting[k]
  <2>1. SafeInv /\ i \in Slot /\ table'[i].ip = h
    BY <1>0, <1>3, <1>6
  <2>2. LosesOthers(h)
    BY <1>4, <2>1, OthersLost
  <2> QED  BY <2>2 DEF LosesOthers
<1>9. Service!Lose(lost)
  <2>1. Known' = [k \in Hosts |-> Known'[k]] /\ Waiting' = [k \in Hosts |-> Waiting'[k]]
    BY <1>0 DEF View
  <2>2. \A k \in Hosts : /\ Known'[k] = IF k \in lost THEN NoMac ELSE Known[k]
                         /\ Waiting'[k] = IF k \in lost THEN NoPacket ELSE Waiting[k]
    BY <1>7, <1>8
  <2>3. /\ Known' = [k \in Hosts |-> IF k \in lost THEN NoMac ELSE Known[k]]
        /\ Waiting' = [k \in Hosts |-> IF k \in lost THEN NoPacket ELSE Waiting[k]]
    BY <2>1, <2>2, Zenon
  <2> QED  BY <2>3 DEF Service!Lose
<1>10. Service!Take(lost)
  BY <1>0, <1>1, <1>9 DEF Service!Take
<1>11. lost \in SUBSET Hosts  OBVIOUS
<1> QED  BY <1>10, <1>11 DEF Service!Next

LEMMA TakeKnownStep ==
  ASSUME RefInv, NEW h \in Hosts, OutputKnown(h)
  PROVE  Service!Next
<1>1. View /\ pkt = NoPacket /\ pkt' \in Packet /\ table' = table /\ sent' = sent
  BY ViewOfTable DEF RefInv, HandInv, SafeInv, TypeInv, TypeOK, OutputKnown, Packet
<1>2. Known' = Known /\ Waiting' = Waiting
  BY <1>1 DEF Known, Waiting, StableMatch, Match
<1>3. Service!Lose({})
  BY <1>1, <1>2 DEF Service!Lose, View
<1>4. Service!Take({})
  BY <1>1, <1>3 DEF Service!Take
<1> QED  BY <1>4 DEF Service!Next

\* The packet in hand is sent to the address known, or waits if there is none.
LEMMA SendStep ==
  ASSUME RefInv, SendPacket
  PROVE  Service!Next
<1>1. /\ pc = "send" /\ table' = table /\ slot \in Slot /\ pkt' = NoPacket /\ View
      /\ sent' = [pkt |-> pkt, mac |-> table[slot].eth]
  BY ViewOfTable DEF SendPacket, RefInv, SafeInv, TypeInv, TypeOK
<1>2. /\ pkt \in Packet /\ table[slot].ip = pkt.dst /\ table[slot].state # "empty"
      /\ Stable(table[slot]) /\ table[slot].eth # NoMac
  BY <1>1 DEF RefInv, SafeInv, CallInv, AddressInv
<1>3. Known[pkt.dst] = table[slot].eth
  BY <1>1, <1>2 DEF View
<1>4. Known' = Known /\ Waiting' = Waiting /\ pkt # NoPacket
  BY <1>1, <1>2 DEF Known, Waiting, StableMatch, Match, Packet, NoPacket
<1>5. Service!Send
  BY <1>1, <1>2, <1>3, <1>4 DEF Service!Send, NextHop
<1> QED  BY <1>5 DEF Service!Next

LEMMA HoldStep ==
  ASSUME RefInv, SafeInv', QueuePacket
  PROVE  Service!Next
<1>1. /\ pc = "queue" /\ slot \in Slot /\ pkt' = NoPacket /\ View /\ View' /\ sent' = sent
      /\ table \in [Slot -> Entry]
  BY ViewOfTable, ViewOfNext DEF QueuePacket, RefInv, SafeInv, TypeInv, TypeOK
<1>2. /\ pkt \in Packet /\ table[slot].ip = pkt.dst /\ table[slot].state = "pending"
      /\ ~Stable(table[slot])
  BY <1>1 DEF RefInv, SafeInv, CallInv, Stable
<1>3. Known[pkt.dst] = NoMac /\ pkt.dst \in Hosts /\ pkt # NoPacket
  BY <1>1, <1>2 DEF View, Packet, NoPacket
<1>4. CASE table' = table
  <2>1. Known' = Known /\ Waiting' = Waiting
    BY <1>4 DEF Known, Waiting, StableMatch, Match
  <2>2. Service!Drop
    BY <1>1, <2>1 DEF Service!Drop
  <2> QED  BY <2>2 DEF Service!Next
<1>5. CASE table' = [table EXCEPT ![slot].q = pkt]
  <2>1. /\ table'[slot].q = pkt
        /\ \A j \in Slot : /\ table'[j].state = table[j].state /\ table'[j].ip = table[j].ip
                           /\ table'[j].eth = table[j].eth
                           /\ j # slot => table'[j] = table[j]
    BY <1>1, <1>5 DEF Entry
  <2>2. \A j \in Slot : Stable(table'[j]) <=> Stable(table[j])
    BY <2>1 DEF Stable
  <2>3. ASSUME NEW k \in Hosts
        PROVE  /\ Known'[k] = Known[k]
               /\ Waiting'[k] = IF k = pkt.dst THEN pkt ELSE Waiting[k]
    <3>1. CASE k = pkt.dst
      <4>1. /\ table'[slot].state # "empty" /\ table'[slot].ip = k /\ ~Stable(table'[slot])
            /\ table'[slot].q = pkt
        BY <1>1, <1>2, <2>1, <2>2, <3>1
      <4>2. Known'[k] = NoMac /\ Waiting'[k] = pkt
        BY <1>1, <4>1 DEF View
      <4> QED  BY <1>3, <3>1, <4>2
    <3>2. CASE k # pkt.dst /\ Match(k) = {}
      <4>1. Match(k)' = {}  BY <2>1, <3>2 DEF Match
      <4> QED  BY <1>1, <3>2, <4>1 DEF View
    <3>3. CASE k # pkt.dst /\ Match(k) # {}
      <4>1. PICK j \in Slot : table[j].state # "empty" /\ table[j].ip = k
        BY <3>3 DEF Match
      <4>2. j # slot /\ table'[j] = table[j]
        BY <1>2, <2>1, <3>3, <4>1
      <4>3. Known[k] = (IF Stable(table[j]) THEN table[j].eth ELSE NoMac)
            /\ Waiting[k] = table[j].q
        BY <1>1, <4>1 DEF View
      <4>4. Known'[k] = (IF Stable(table'[j]) THEN table'[j].eth ELSE NoMac)
            /\ Waiting'[k] = table'[j].q
        BY <1>1, <4>1, <4>2 DEF View
      <4> QED  BY <3>3, <4>2, <4>3, <4>4
    <3> QED  BY <3>1, <3>2, <3>3
  <2>4. Known' = Known /\ Waiting' = [Waiting EXCEPT ![pkt.dst] = pkt]
    <3>1. /\ Known = [k \in Hosts |-> Known[k]] /\ Known' = [k \in Hosts |-> Known'[k]]
          /\ Waiting = [k \in Hosts |-> Waiting[k]] /\ Waiting' = [k \in Hosts |-> Waiting'[k]]
      BY <1>1 DEF View
    <3>2. Known' = [k \in Hosts |-> Known[k]]
      BY <2>3, <3>1, Zenon
    <3>3. Waiting' = [k \in Hosts |-> IF k = pkt.dst THEN pkt ELSE Waiting[k]]
      BY <2>3, <3>1, Zenon
    <3>4. [Waiting EXCEPT ![pkt.dst] = pkt]
            = [k \in Hosts |-> IF k = pkt.dst THEN pkt ELSE Waiting[k]]
      BY <1>3, <3>1
    <3> QED  BY <3>1, <3>2, <3>3, <3>4
  <2>5. Service!Hold
    BY <1>1, <1>3, <2>4 DEF Service!Hold, NextHop
  <2> QED  BY <2>5 DEF Service!Next
<1> QED  BY <1>4, <1>5 DEF QueuePacket

\* The rest is hidden from the sender: a request, its outcome, age, a lost link.
LEMMA HiddenStep ==
  ASSUME RefInv, SafeInv', RequestAgain \/ Requested \/ Tmr \/ LinkDown \/ UNCHANGED vars
  PROVE  [Service!Next]_Service!vars
<1>0. table \in [Slot -> Entry] /\ slot \in Slot /\ SafeInv
  BY DEF RefInv, SafeInv, TypeInv, TypeOK
<1>1. ASSUME table' = table, pkt' = pkt, sent' = sent
      PROVE  [Service!Next]_Service!vars
  BY <1>1 DEF Service!vars, Known, Waiting, StableMatch, Match
<1>2. ASSUME pkt' = pkt, sent' = sent,
             \A j \in Slot : table'[j].state # "empty" =>
                /\ table[j].state # "empty" /\ (Stable(table'[j]) <=> Stable(table[j]))
                /\ table'[j].ip = table[j].ip /\ table'[j].eth = table[j].eth
                /\ table'[j].q = table[j].q
      PROVE  [Service!Next]_Service!vars
  <2>1. PICK lost \in SUBSET Hosts : Service!Lose(lost)
    BY <1>0, <1>2, EntriesFreed
  <2>2. Service!Forget(lost)
    BY <1>2, <2>1 DEF Service!Forget
  <2> QED  BY <2>2 DEF Service!Next
<1>3. CASE RequestAgain
  <2>1. Stable(table[slot]) /\ table[slot].state # "empty"
    BY <1>0, <1>3 DEF RequestAgain, SafeInv, CallInv, Stable
  <2>2. /\ Stable(table'[slot])
        /\ table'[slot].ip = table[slot].ip /\ table'[slot].eth = table[slot].eth
        /\ table'[slot].q = table[slot].q
        /\ \A j \in Slot \ {slot} : table'[j] = table[j]
    BY <1>0, <1>3, <2>1 DEF RequestAgain, Entry, Stable
  <2>3. pkt' = pkt /\ sent' = sent
    BY <1>3 DEF RequestAgain
  <2> QED  BY <1>2, <2>1, <2>2, <2>3
<1>4. CASE Requested
  <2>1. table[slot].state # "empty" /\ table' = table /\ sent' = sent
    BY <1>4 DEF Requested, RefInv, SafeInv, CallInv
  <2>2. pkt' = pkt
    BY <1>4, <2>1 DEF Requested
  <2> QED  BY <1>1, <2>1, <2>2
<1>5. CASE Tmr
  <2>1. ASSUME NEW j \in Slot, table'[j].state # "empty"
        PROVE  /\ table[j].state # "empty" /\ (Stable(table'[j]) <=> Stable(table[j]))
               /\ table'[j].ip = table[j].ip /\ table'[j].eth = table[j].eth
               /\ table'[j].q = table[j].q
    <3>1. table[j] \in Entry /\ (table[j].state # "empty" => Live(table[j]))
      BY <1>0 DEF SafeInv, TypeInv, LiveEntries
    <3>2. table'[j] = Aged(table[j])  BY <1>5 DEF Tmr
    <3> QED  BY <2>1, <3>1, <3>2, AgedIsEntry
  <2>2. pkt' = pkt /\ sent' = sent
    BY <1>5 DEF Tmr
  <2> QED  BY <1>2, <2>1, <2>2
<1>6. CASE LinkDown
  <2>1. \A j \in Slot : table'[j] = table[j] \/ table'[j].state = "empty"
    BY <1>0, <1>6, FreeEntryIsEmpty DEF LinkDown
  <2>2. pkt' = pkt /\ sent' = sent
    BY <1>6 DEF LinkDown
  <2> QED  BY <1>2, <2>1, <2>2
<1>7. CASE UNCHANGED vars
  BY <1>1, <1>7 DEF vars
<1> QED  BY <1>3, <1>4, <1>5, <1>6, <1>7

LEMMA RefStep ==
  ASSUME "during" \notin Windows, RefInv, [Next]_vars
  PROVE  RefInv' /\ [Service!Next]_Service!vars
<1>1. SafeInv'  BY SafeStep DEF RefInv
<1>2. RefInv'  BY <1>1, HandStep, AddressStep DEF RefInv
<1>3. ASSUME NEW h \in Hosts, NEW m \in Macs, NEW forUs \in BOOLEAN, ArpInput(h, m, forUs)
      PROVE  [Service!Next]_Service!vars
  BY <1>1, <1>3, LearnStep
<1>4. ASSUME NEW h \in Hosts, OutputKnown(h) \/ OutputUnknown(h)
      PROVE  Service!Next
  BY <1>1, <1>4, TakeStep, TakeKnownStep
<1>5. CASE SendPacket  BY <1>2, <1>5, SendStep
<1>6. CASE QueuePacket  BY <1>1, <1>2, <1>6, HoldStep
<1>7. CASE RequestAgain \/ Requested \/ Tmr \/ LinkDown \/ UNCHANGED vars
  BY <1>1, <1>2, <1>7, HiddenStep
<1> QED
  BY <1>2, <1>3, <1>4, <1>5, <1>6, <1>7 DEF Next, Sending

(***************************************************************************)
(* The table with its entries, ages and hints keeps the promise made to    *)
(* whoever sends: each packet goes once, to the address then known for its *)
(* next hop, or waits as the newest for it, or is lost.                    *)
(***************************************************************************)
THEOREM TableImplementsService ==
  ASSUME "during" \notin Windows
  PROVE  Spec => ImplementsService
<1>1. Init => Service!Init
  <2> SUFFICES ASSUME Init PROVE Service!Init
    OBVIOUS
  <2>1. \A h \in Hosts : Match(h) = {}
    BY DEF Init, Match
  <2>2. Known = [h \in Hosts |-> NoMac] /\ Waiting = [h \in Hosts |-> NoPacket]
    BY <2>1 DEF Known, Waiting, StableMatch
  <2> QED  BY <2>2 DEF Init, Service!Init
<1>2. RefInv /\ [Next]_vars => RefInv' /\ [Service!Next]_Service!vars
  BY RefStep
<1> QED  BY <1>1, <1>2, RefInit, PTL DEF Spec, ImplementsService, Service!Spec
=============================================================================
