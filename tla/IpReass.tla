------------------------------ MODULE IpReass --------------------------------
(***************************************************************************)
(* The reassembly of IP datagrams, ip_frag.c: ip_reass is called for every *)
(* fragment received and returns the datagram when it is complete.  The    *)
(* network loses, repeats and reorders fragments, and may have cut one     *)
(* datagram in two ways on two routes.  Each fragment is one pbuf of the   *)
(* pool, PBUF_POOL_BUFSIZE being longer than a frame.  Offsets and lengths *)
(* are in units of the smallest fragment.                                  *)
(*                                                                         *)
(* Nothing in the program calls ip_reass_tmr: every timer stays at         *)
(* IP_REASS_MAXAGE, and the oldest datagram is the last one in the list.   *)
(***************************************************************************)
EXTENDS Integers, Sequences, SequencesExt, FiniteSetsExt

CONSTANTS
  Frags,               \* the fragments on the network
  IP_REASS_MAX_PBUFS,  \* how many pbufs may wait
  MEMP_NUM_REASSDATA   \* how many datagrams may wait

\* A fragment is bytes start .. end - 1 of datagram id; more is the MF flag.
WellCut ==
  /\ Frags \subseteq [id : Nat, start : Nat, end : Nat \ {0}, more : BOOLEAN]
  /\ \A f \in Frags : f.start < f.end /\ (f.start = 0 => f.more)
  /\ \A f, g \in Frags : f.id = g.id /\ ~f.more => (IF g.more THEN g.end < f.end ELSE g.end = f.end)
  /\ IP_REASS_MAX_PBUFS \in Nat \ {0} /\ MEMP_NUM_REASSDATA \in Nat \ {0}

ASSUME ReassAssumption == WellCut

VARIABLES
  reassdatagrams,      \* the datagrams that wait, the last one begun first: id,
                       \* whether the last fragment has come, the chain p
  ip_reass_pbufcount,  \* how many pbufs wait
  out,                 \* what ip_reass returned last: a datagram or nothing
  intact               \* the list has never been damaged

reassVars == <<reassdatagrams, ip_reass_pbufcount, out, intact>>

Nothing == [id |-> -1, p |-> <<>>]

ReassInit == /\ reassdatagrams = <<>> /\ ip_reass_pbufcount = 0
             /\ out = Nothing /\ intact = TRUE

-----------------------------------------------------------------------------
(* The chain of a datagram.                                                *)

\* Where the walk along chain p stops: how many fragments begin before f.
Place(p, f) == Cardinality({i \in DOMAIN p : p[i].start < f.start})

\* f overlaps what is there.  In front of the whole chain, only a fragment
\* that begins at the same offset is noticed.
Overlaps(p, f) ==
  LET at == Place(p, f)
  IN  \/ \E i \in DOMAIN p : p[i].start <= f.start /\ (f.start < p[i].end \/ f.start = p[i].start)
      \/ at \in 1 .. Len(p) - 1 /\ f.end > p[at + 1].start

Piece(f) == [start |-> f.start, end |-> f.end]

\* Plausible mistakes, each of which breaks a property below: the tail behind
\* the new piece is not looked at; a fragment thrown away is still counted;
\* the flag of the last fragment is that of the newest.
TailUnchecked(p, at) ==
  p[1].start = 0 /\ \A i \in 1 .. at - 2 : p[i].end = p[i + 1].start

\* valid, after the piece at place "at" was chained: the chain starts at 0, and
\* ends meet.  The piece before the new one is compared with it only when the
\* new one is the last.
Complete(p, at) ==
  /\ p[1].start = 0
  /\ \A i \in 1 .. Len(p) - 1 : i + 1 # at \/ at = Len(p) => p[i].end = p[i + 1].start

-----------------------------------------------------------------------------
(* The list of datagrams.  A state of it is a record with the pbufs        *)
(* counted and whether it is intact; the functions of ip_frag.c map states. *)

State == [list |-> reassdatagrams, count |-> ip_reass_pbufcount, ok |-> intact]

Mine(list, id) == {i \in DOMAIN list : list[i].id = id}

\* "Can't we simply remove the last datagram in the linked list".
LastInList(list, id) == Len(list)

\* The oldest datagram that id is not, 0 if there is none.
Oldest(list, id) == Max({0} \union (DOMAIN list \ Mine(list, id)))

\* prev, the last element with a successor, is the one before element i, or i
\* is the first.  Otherwise i is the last but one, and prev is i itself.
Unlinks(list, i) == i = 1 \/ i = Len(list)

\* What is left of the list when element i is freed and stays in it: memp_free
\* writes over its next, and what lay behind it is no longer reached.
Damaged(list, i) == Append(SubSeq(list, 1, i - 1), [list[i] EXCEPT !.p = <<>>])

\* ip_reass_remove_oldest_datagram, of a datagram that is there: its pbufs are
\* freed and no longer counted in either case.
RemoveOldest(s, i) ==
  IF Unlinks(s.list, i)
    THEN [s EXCEPT !.list = RemoveAt(@, i), !.count = @ - Len(s.list[i].p)]
    ELSE [s EXCEPT !.list = Damaged(@, i), !.count = @ - Len(s.list[i].p), !.ok = FALSE]

\* ip_reass_enqueue_new_datagram.
EnqueueNew(s, id) ==
  LET room == IF Len(s.list) < MEMP_NUM_REASSDATA THEN s ELSE RemoveOldest(s, Len(s.list))
  IN  [room EXCEPT !.list = <<[id |-> id, last |-> FALSE, p |-> <<>>]>> \o @]

CountsThrownAway(s, i, f) ==
  LET p == s.list[i].p
  IN  [s EXCEPT !.list[i].last = @ \/ ~f.more, !.count = @ + 1,
                !.list[i].p = IF Overlaps(p, f) THEN p ELSE InsertAt(p, Place(p, f) + 1, Piece(f))]

NewestFlag(s, i, f) ==
  LET p == s.list[i].p
  IN  IF Overlaps(p, f) THEN s
      ELSE [s EXCEPT !.list[i].last = ~f.more, !.count = @ + 1,
                     !.list[i].p = InsertAt(p, Place(p, f) + 1, Piece(f))]

\* ip_reass_chain_frag_into_datagram_and_validate: the pbuf is chained, or freed.
Chain(s, i, f) ==
  LET seen == [s EXCEPT !.list[i].last = @ \/ ~f.more]
      p    == s.list[i].p
  IN  IF Overlaps(p, f) THEN seen
      ELSE [seen EXCEPT !.list[i].p = InsertAt(p, Place(p, f) + 1, Piece(f)), !.count = @ + 1]

\* The datagram is complete and leaves the list.
Finished(s, i, f) ==
  /\ ~Overlaps(s.list[i].p, f)
  /\ Chain(s, i, f).list[i].last
  /\ Complete(Chain(s, i, f).list[i].p, Place(s.list[i].p, f) + 1)

TakeOut(s, i) == [s EXCEPT !.list = RemoveAt(@, i), !.count = @ - Len(s.list[i].p)]

-----------------------------------------------------------------------------
Set(s) == reassdatagrams' = s.list /\ ip_reass_pbufcount' = s.count /\ intact' = s.ok

\* Room for the pbuf of fragment f was found or made in s.
Admit(s, f) ==
  LET t == IF Mine(s.list, f.id) = {} THEN EnqueueNew(s, f.id) ELSE s
      i == CHOOSE j \in Mine(t.list, f.id) : TRUE
      u == Chain(t, i, f)
  IN  IF t.ok /\ Finished(t, i, f)
        THEN Set(TakeOut(u, i)) /\ out' = [id |-> f.id, p |-> u.list[i].p]
        ELSE Set(u) /\ out' = Nothing

\* Too many pbufs wait.
Overflow == ip_reass_pbufcount + 1 > IP_REASS_MAX_PBUFS

ReceiveFrag(f) == intact /\ ~Overflow /\ Admit(State, f)

\* One datagram makes room enough.  Once the list is damaged, the pool it shares
\* its elements with is too, and the model stops.
ReceiveInstead(f) ==
  LET i == Oldest(reassdatagrams, f.id)
      s == RemoveOldest(State, i)
  IN  /\ intact /\ Overflow /\ i # 0
      /\ IF s.ok THEN Admit(s, f) ELSE Set(s) /\ out' = Nothing

\* All that waits belongs to the datagram itself.
Refuse(f) ==
  /\ intact /\ Overflow /\ Oldest(reassdatagrams, f.id) = 0
  /\ out' = Nothing
  /\ UNCHANGED <<reassdatagrams, ip_reass_pbufcount, intact>>

ip_reass(f) == ReceiveFrag(f) \/ ReceiveInstead(f) \/ Refuse(f)

ReassNext == \E f \in Frags : ip_reass(f)

ReassSpec == ReassInit /\ [][ReassNext]_reassVars

-----------------------------------------------------------------------------
(* Properties.                                                             *)

\* The pbufs that wait, each a piece of a datagram.
Waiting(list) == UNION {{d.id} \X ToSet(d.p) : d \in ToSet(list)}

(***************************************************************************)
(* While the list is intact, the books of ip_frag.c agree with what waits: *)
(* pbufcount counts the chained pbufs and stays within its limit, no       *)
(* datagram is begun twice or waits without a pbuf, and each chain is in   *)
(* the order of the offsets.                                               *)
(***************************************************************************)
Accounts ==
  intact =>
    /\ ip_reass_pbufcount = Cardinality(Waiting(reassdatagrams)) /\ ip_reass_pbufcount <= IP_REASS_MAX_PBUFS
    /\ Len(reassdatagrams) <= MEMP_NUM_REASSDATA
    /\ \A i \in DOMAIN reassdatagrams :
         /\ Mine(reassdatagrams, reassdatagrams[i].id) = {i}
         /\ LET p == reassdatagrams[i].p
            IN p # <<>> /\ \A j \in 1 .. Len(p) - 1 : p[j].start < p[j + 1].start

\* The pieces in p meet and are all of datagram id.
Covered(p)   == UNION {p[i].start .. p[i].end - 1 : i \in DOMAIN p}
Whole(id, p) == /\ \E f \in Frags : f.id = id /\ ~f.more /\ Covered(p) = 0 .. f.end - 1
                /\ \A j \in 1 .. Len(p) - 1 : p[j].end = p[j + 1].start

(***************************************************************************)
(* What ip_reass returns is a datagram that was sent: every byte of it,    *)
(* each once ("all fragments are received").                               *)
(***************************************************************************)
ReassembledWhole == out # Nothing => Whole(out.id, out.p)

(***************************************************************************)
(* A datagram whose chain is whole, its kept pieces meeting from the first *)
(* byte to the last, is not left in the list, where no later fragment      *)
(* could complete it and no timer would find it.  That all its pieces have *)
(* come is not enough: a piece that begins where another one is chained is *)
(* thrown away.  Of [1,2), [2,3), [0,2) and [0,1), in that order, [0,1) is *)
(* lost for the longer [0,2), and the datagram waits for ever.             *)
(***************************************************************************)
NothingCompleteWaits ==
  intact => \A i \in DOMAIN reassdatagrams : ~Whole(reassdatagrams[i].id, reassdatagrams[i].p)

(***************************************************************************)
(* Room is made at the cost of one datagram at most for a fragment, and    *)
(* never of the one the fragment belongs to ("The datagram 'fraghdr'       *)
(* belongs to is not freed!"): that one keeps what it had, or is returned  *)
(* with it.  The step that damages the list is excepted: the datagram      *)
(* behind the one it frees is the fragment's own, and is lost.             *)
(***************************************************************************)
Chains(list) == {<<list[i].id, list[i].p>> : i \in DOMAIN list}

Kept(id, p) == \/ out'.id = id /\ ToSet(p) \subseteq ToSet(out'.p)
               \/ \E d \in ToSet(reassdatagrams') : d.id = id /\ ToSet(p) \subseteq ToSet(d.p)

Lost == {c \in Chains(reassdatagrams) : ~Kept(c[1], c[2])}

NeverAtItsOwnCost ==
  [][\A f \in Frags : ip_reass(f) /\ intact'
       => Cardinality(Lost) <= 1 /\ \A c \in Lost : c[1] # f.id]_reassVars

(***************************************************************************)
(* An element of the list that is freed is unlinked: the assertion         *)
(* "prev->next == ipr" of ip_reass_free_complete_datagram, but for the     *)
(* first element, which needs no prev.                                     *)
(***************************************************************************)
ListIntact == intact

=============================================================================
