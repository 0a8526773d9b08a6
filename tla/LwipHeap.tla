------------------------------ MODULE LwipHeap -------------------------------
(***************************************************************************)
(* The heap of lwIP, mem.c: one array in which every block begins with a   *)
(* header (next, prev, used), the headers chained in address order.  A     *)
(* free block is one that is not used; lfree is the lowest of them, or the *)
(* end of the heap.  Addresses and sizes are in units of MEM_ALIGNMENT.    *)
(*                                                                         *)
(* The main loop allocates, trims and frees pbufs.  The handler of the     *)
(* link interrupt uses the heap too.  When the link comes up it sends a    *)
(* gratuitous ARP: it allocates a pbuf and frees it before it returns.     *)
(* When the link goes down it empties the ARP table, and frees the packets *)
(* that the main loop has queued there.  Nothing keeps the handler out of  *)
(* the heap functions: SYS_LIGHTWEIGHT_PROT is 0 and the mutex of mem.c is *)
(* empty without an operating system.  mem_malloc is therefore split where *)
(* an interrupt could tell; UpWindows and DownWindows say at which points  *)
(* of it a link coming up, and one going down, is considered.  mem_free    *)
(* and mem_trim are one step each: an interrupt inside them is not         *)
(* modelled.                                                               *)
(***************************************************************************)
EXTENDS Integers

CONSTANTS Size,        \* MEM_SIZE_ALIGNED
          Hdr,         \* SIZEOF_STRUCT_MEM
          MinSize,     \* MIN_SIZE_ALIGNED
          Sizes,       \* the sizes asked for, aligned and at least MinSize
          UpWindows,   \* where the main loop may be when the link comes up
          DownWindows  \* and when it goes down

ASSUME HeapAssumption ==
  /\ Size \in Nat /\ Hdr \in Nat \ {0} /\ MinSize \in Nat \ {0}
  /\ Hdr + MinSize <= Size
  /\ Sizes \subseteq MinSize .. Size
  /\ UpWindows \union DownWindows \subseteq {"idle", "scan", "link", "sweep"}

Null == -1

VARIABLES
  heap,   \* next and prev of every header, the set of headers in use, lfree
  pc,     \* where the main loop is in mem_malloc
  size,   \* the size it asks for
  ptr,    \* the header it looks at or allocates
  after,  \* mem2->next of the remainder it splits off
  cur,    \* where it has looked for the next free block
  got     \* what mem_malloc returned last

vars == <<heap, pc, size, ptr, after, cur, got>>

\* mem_init: one free block, and the header of the end, which is in use.
Init ==
  /\ heap = [next |-> [b \in {0, Size} |-> Size],
             prev |-> [b \in {0, Size} |-> b],
             used |-> {Size}, lfree |-> 0]
  /\ pc = "idle" /\ size = 0 /\ ptr = 0 /\ after = 0 /\ cur = 0
  /\ got = Null

Heads(h)   == DOMAIN h.next
Room(h, b) == h.next[b] - (b + Hdr)

Put(f, a, v) == [x \in DOMAIN f \union {a} |-> IF x = a THEN v ELSE f[x]]
Drop(f, a)   == [x \in DOMAIN f \ {a} |-> f[x]]

-----------------------------------------------------------------------------
(* The writes the heap functions are made of.                              *)

\* ram[next].prev = b, but not for the end.
BackLink(h, next, b) == IF next = Size THEN h ELSE [h EXCEPT !.prev = Put(@, next, b)]

\* A free block behind the first n units of b; its successor is not told yet.
Split(h, b, n) ==
  LET rest == b + Hdr + n
  IN  [h EXCEPT !.next = Put(Put(@, rest, h.next[b]), b, rest),
                !.prev = Put(@, rest, b)]

Use(h, b) == [h EXCEPT !.used = @ \union {b}]

\* Block b, which follows a, becomes part of a.
Merge(h, a, b) ==
  [next  |-> Put(Drop(h.next, b), a, h.next[b]),
   prev  |-> Put(Drop(h.prev, b), h.next[b], a),
   used  |-> h.used,
   lfree |-> IF h.lfree = b THEN a ELSE h.lfree]

PlugForward(h, b)  == IF h.next[b] \in h.used THEN h ELSE Merge(h, b, h.next[b])
PlugBackward(h, b) == IF h.prev[b] = b \/ h.prev[b] \in h.used THEN h ELSE Merge(h, h.prev[b], b)
\* Plausible mistakes: the hole before b stays, and a freed block leaves lfree.
PlugAheadOnly(h, b)   == PlugForward(h, b)
UnuseKeepsLfree(h, b) == [h EXCEPT !.used = @ \ {b}]

plug_holes(h, b)   == PlugBackward(PlugForward(h, b), b)

Unuse(h, b) == [h EXCEPT !.used = @ \ {b}, !.lfree = IF b < @ THEN b ELSE @]

\* The tests of the scan.
Fits(h, b, n)   == b \notin h.used /\ Room(h, b) >= n
Splits(h, b, n) == Room(h, b) >= n + Hdr + MinSize

-----------------------------------------------------------------------------
(* What the interrupt handler does in one go: when the link comes up       *)
(* mem_malloc, then mem_free; when it goes down mem_free, of a block handed*)
(* out to the main loop before.                                            *)

Lowest(S) == CHOOSE b \in S : \A c \in S : b <= c

\* The first block from lfree on that is big enough.
Candidates(h, n) == {b \in Heads(h) : h.lfree <= b /\ b < Size - n /\ Fits(h, b, n)}

Allocate(h, b, n) ==
  LET g == IF Splits(h, b, n) THEN BackLink(Use(Split(h, b, n), b), h.next[b], b + Hdr + n)
                              ELSE Use(h, b)
  IN  IF b # h.lfree THEN g
      ELSE [g EXCEPT !.lfree = Lowest({c \in Heads(g) : c >= b /\ (c \notin g.used \/ c = Size)})]

mem_free(h, b) == plug_holes(Unuse(h, b), b)

GratuitousArp(n) ==
  /\ pc \in UpWindows
  /\ Candidates(heap, n) # {}
  /\ LET b == Lowest(Candidates(heap, n)) IN heap' = mem_free(Allocate(heap, b, n), b)
  /\ UNCHANGED <<pc, size, ptr, after, cur, got>>

InUse == heap.used \ {Size}

\* Not the block that mem_malloc is about to return: its caller has yet to queue it.
HandedOut == InUse \ (IF pc = "sweep" THEN {ptr} ELSE {})

\* netif_set_down: etharp_cleanup_netif drops a queued packet.
DropQueued(b) ==
  /\ pc \in DownWindows
  /\ heap' = mem_free(heap, b)
  /\ UNCHANGED <<pc, size, ptr, after, cur, got>>

-----------------------------------------------------------------------------
(* mem_malloc in the main loop.                                            *)

Malloc(n) ==
  /\ pc = "idle"
  /\ pc' = "scan" /\ size' = n /\ ptr' = heap.lfree
  /\ UNCHANGED <<heap, after, cur, got>>

\* mem_malloc returns r, and its locals are gone.
Return(r) == pc' = "idle" /\ got' = r /\ size' = 0 /\ ptr' = 0 /\ after' = 0 /\ cur' = 0

\* The loop has come to where no block can be big enough.
GiveUp ==
  /\ pc = "scan" /\ ptr >= Size - size
  /\ Return(Null)
  /\ UNCHANGED heap

LookFurther ==
  /\ pc = "scan" /\ ptr < Size - size /\ ~Fits(heap, ptr, size)
  /\ ptr' = heap.next[ptr]
  /\ UNCHANGED <<heap, pc, size, after, cur, got>>

\* Block ptr is allocated.  If it was the lowest free one, look for the next.
Finish ==
  IF ptr = heap.lfree THEN pc' = "sweep" /\ cur' = ptr /\ UNCHANGED <<size, ptr, after, got>>
                      ELSE Return(ptr)

TakeAll ==
  /\ pc = "scan" /\ ptr < Size - size
  /\ Fits(heap, ptr, size) /\ ~Splits(heap, ptr, size)
  /\ heap' = Use(heap, ptr)
  /\ Finish

SplitOff ==
  /\ pc = "scan" /\ ptr < Size - size
  /\ Fits(heap, ptr, size) /\ Splits(heap, ptr, size)
  /\ heap' = Split(heap, ptr, size)
  /\ after' = heap.next[ptr]
  /\ pc' = "link"
  /\ UNCHANGED <<size, ptr, cur, got>>

Link ==
  /\ pc = "link"
  /\ heap' = BackLink(Use(heap, ptr), after, ptr + Hdr + size)
  /\ Finish

\* while (cur->used), which the end of the heap does not stop.
SweepOn ==
  /\ pc = "sweep"
  /\ IF cur \in heap.used
       THEN cur' = heap.next[cur] /\ UNCHANGED <<heap, pc, size, ptr, after, got>>
       ELSE heap' = [heap EXCEPT !.lfree = cur] /\ Return(ptr)

\* while (cur->used && cur != ram_end)
Sweep ==
  /\ pc = "sweep"
  /\ IF cur \in heap.used /\ cur # Size
       THEN cur' = heap.next[cur] /\ UNCHANGED <<heap, pc, size, ptr, after, got>>
       ELSE heap' = [heap EXCEPT !.lfree = cur] /\ Return(ptr)

-----------------------------------------------------------------------------
(* mem_free and mem_trim in the main loop, of a block in use.              *)

Free(b) ==
  /\ pc = "idle"
  /\ heap' = mem_free(heap, b)
  /\ UNCHANGED <<pc, size, ptr, after, cur, got>>

\* The free block behind b begins earlier, or a new one is made; a remainder
\* too small for a block stays with b.
mem_trim(h, b, n) ==
  LET next == h.next[b]
      rest == b + Hdr + n
      from == IF next \in h.used THEN next ELSE h.next[next]
      cut  == IF next \in h.used THEN h
              ELSE [h EXCEPT !.next = Drop(@, next), !.prev = Drop(@, next)]
      low  == IF h.lfree = next \/ rest < h.lfree THEN rest ELSE h.lfree
  IN  IF n = Room(h, b) \/ (next \in h.used /\ ~Splits(h, b, n)) THEN h
      ELSE BackLink([cut EXCEPT !.next = Put(Put(@, rest, from), b, rest),
                                !.prev = Put(@, rest, b),
                                !.lfree = low],
                    from, rest)

Trim(b, n) ==
  /\ pc = "idle"
  /\ n <= Room(heap, b)
  /\ heap' = mem_trim(heap, b, n)
  /\ UNCHANGED <<pc, size, ptr, after, cur, got>>

-----------------------------------------------------------------------------
Working == GiveUp \/ LookFurther \/ TakeAll \/ SplitOff \/ Link \/ Sweep

Next == \/ Working
        \/ \E n \in Sizes : Malloc(n) \/ GratuitousArp(n)
        \/ \E b \in HandedOut : DropQueued(b)
        \/ \E b \in InUse : Free(b) \/ \E n \in Sizes : Trim(b, n)

Spec == Init /\ [][Next]_vars

\* A function of the heap, once called, runs to its end.
FairSpec == Spec /\ WF_vars(Working)

-----------------------------------------------------------------------------
(* Properties.                                                             *)

Consecutive(h, b) == h.next[b] \in Heads(h) /\ ~\E c \in Heads(h) : b < c /\ c < h.next[b]

(***************************************************************************)
(* The headers the heap functions follow are a chain over the whole array: *)
(* next leads to the next header up, over room for a header and the        *)
(* smallest block, and prev leads back.                                    *)
(***************************************************************************)
Chained(h) ==
  /\ {0, Size} \subseteq Heads(h) /\ DOMAIN h.prev = Heads(h)
  /\ h.used \subseteq Heads(h) /\ Size \in h.used /\ h.next[Size] = Size
  /\ h.prev[0] = 0
  /\ \A b \in Heads(h) \ {Size} :
       /\ Room(h, b) >= MinSize /\ Consecutive(h, b)
       /\ h.next[b] # Size => h.prev[h.next[b]] = b

\* plug_holes: "there should not exist one empty struct mem pointing to another".
Plugged(h) == \A b \in Heads(h) \ h.used : h.next[b] \in h.used

\* No free block is below lfree, where every allocation begins.
LowestFree(h) ==
  /\ h.lfree \in Heads(h) /\ (h.lfree \in h.used => h.lfree = Size)
  /\ \A b \in Heads(h) \ h.used : h.lfree <= b

(***************************************************************************)
(* Between two calls of the heap functions the chain is whole, no room is  *)
(* lost to two free blocks side by side, and lfree is the lowest free      *)
(* block.  In the middle of mem_malloc the chain is followed by an         *)
(* interrupt and has to hold too, but for the writes of a split, and the   *)
(* block the scan has come to must still be one.  A link that goes down    *)
(* inside mem_malloc breaks this: a freed block swallows the one the scan  *)
(* stands on, or is lower than the lfree that the search then writes.      *)
(***************************************************************************)
WellFormed == /\ pc # "link" => Chained(heap) /\ Plugged(heap)
              /\ pc \in {"idle", "scan"} => LowestFree(heap)
              /\ pc = "scan" => ptr \in Heads(heap)

(***************************************************************************)
(* mem_malloc, mem_trim and mem_free are an allocator: a block handed out  *)
(* overlaps no other and keeps its room until it is freed, by the main loop*)
(* or with the ARP table, and mem_malloc returns NULL only when no gap is  *)
(* big enough.  A block counts as handed out when mem_malloc returns it; a *)
(* gratuitous ARP leaves no trace.                                         *)
(***************************************************************************)
Service == INSTANCE HeapService WITH live <- [b \in HandedOut |-> Room(heap, b)]

HeapImplements == Service!Spec

(***************************************************************************)
(* Every call of mem_malloc returns, also from a heap with no free block:  *)
(* the scan and the search for the next free block come to the end.        *)
(***************************************************************************)
MallocEnds == pc # "idle" ~> pc = "idle"
=============================================================================
