------------------------------ MODULE BgetHeap -------------------------------
(***************************************************************************)
(* The heap of the application, bget.c: malloc and free, and with them new *)
(* and delete, of the object store.  The pool is tiled by blocks.  A block *)
(* begins with a header: its size with the header, negative when it is     *)
(* allocated, and the size of the block before it if that one is free.     *)
(* The free blocks are also chained in a list, in the order of release.    *)
(* Sizes are in units of SizeQuant; bectl is not called, so the pool does  *)
(* not grow.  Only the main loop allocates.                                *)
(***************************************************************************)
EXTENDS Integers, Sequences, SequencesExt

CONSTANTS Size,    \* the pool, without the header that marks its end
          Hdr,     \* sizeof(struct bhead)
          SizeQ,   \* the smallest block, room for the links of the free list
          Sizes    \* the sizes asked for, rounded, without the header

WellSized ==
  /\ Size \in Nat /\ Hdr \in Nat \ {0} /\ SizeQ \in Nat \ {0}
  /\ Hdr + SizeQ <= Size
  /\ Sizes \subseteq SizeQ .. Size

ASSUME BgetAssumption == WellSized

Null  == -1
ESent == -(Size + 1)   \* the size of the block that marks the end

VARIABLES bsize,     \* the size of each block, by the place of its header
          prevfree,  \* the size of the free block before it, or 0
          freelist,  \* the free blocks
          got        \* what bget returned last: a header, or Null

bgetVars == <<bsize, prevfree, freelist, got>>

\* bpool: one free block.
BgetInit ==
  /\ bsize = [b \in {0, Size} |-> IF b = 0 THEN Size ELSE ESent]
  /\ prevfree = [b \in {0, Size} |-> b]
  /\ freelist = <<0>>
  /\ got = Null

Put(f, a, v) == [x \in DOMAIN f \union {a} |-> IF x = a THEN v ELSE f[x]]
Drop(f, S)   == [x \in DOMAIN f \ S |-> f[x]]

\* Block b leaves the free list.
Unlink(list, b) == RemoveAt(list, CHOOSE i \in DOMAIN list : list[i] = b)

-----------------------------------------------------------------------------
(* bget.                                                                   *)

\* The first of the smallest free blocks that are big enough.
Fitting(n) == {i \in DOMAIN freelist : bsize[freelist[i]] >= n + Hdr}
Best(n) ==
  LET smaller(i, j) == bsize[freelist[i]] < bsize[freelist[j]]
      i == CHOOSE i \in Fitting(n) : \A j \in Fitting(n) \ {i} : smaller(i, j) \/ (~smaller(j, i) /\ i < j)
  IN  freelist[i]

Splits(b, n) == bsize[b] - (n + Hdr) > SizeQ + Hdr

\* A plausible mistake: the block behind the allocated one keeps its tag.
GetTailKeepsTag(n) ==
  /\ Fitting(n) # {} /\ Splits(Best(n), n)
  /\ LET left == bsize[Best(n)] - (n + Hdr)
         tail == Best(n) + left
     IN  /\ bsize' = Put(Put(bsize, Best(n), left), tail, -(n + Hdr))
         /\ prevfree' = Put(prevfree, tail, left)
         /\ got' = tail
  /\ UNCHANGED freelist

\* The end of the best block is given away ...
GetTail(n) ==
  /\ Fitting(n) # {} /\ Splits(Best(n), n)
  /\ LET b    == Best(n)
         left == bsize[b] - (n + Hdr)
     IN  /\ bsize' = Put(Put(bsize, b, left), b + left, -(n + Hdr))
         /\ prevfree' = Put(Put(prevfree, b + left, left), b + bsize[b], 0)
         /\ got' = b + left
  /\ UNCHANGED freelist

\* ... or all of it, when too little would remain.
GetWhole(n) ==
  /\ Fitting(n) # {} /\ ~Splits(Best(n), n)
  /\ LET b == Best(n)
     IN  /\ bsize' = Put(bsize, b, -bsize[b])
         /\ prevfree' = Put(prevfree, b + bsize[b], 0)
         /\ freelist' = Unlink(freelist, b)
         /\ got' = b

GetNothing(n) ==
  /\ Fitting(n) = {}
  /\ got' = Null
  /\ UNCHANGED <<bsize, prevfree, freelist>>

bget(n) == GetTail(n) \/ GetWhole(n) \/ GetNothing(n)

-----------------------------------------------------------------------------
(* brel, of an allocated block.                                            *)

Allocated == {b \in DOMAIN bsize : bsize[b] < 0} \ {Size}

\* A plausible mistake: a free block behind the released one stays apart.
JoinsBefore(b) ==
  LET next  == b - bsize[b]
      first == b - prevfree[b]
      gone  == (first + 1 .. next - 1) \intersect DOMAIN bsize
  IN  /\ bsize' = Put(Drop(bsize, gone), first, next - first)
      /\ prevfree' = Put(Drop(prevfree, gone), next, next - first)
      /\ freelist' = IF first = b THEN Append(freelist, b) ELSE freelist
      /\ UNCHANGED got

\* The block joins the free ones next to it.  One before it stays where it is
\* in the list; one behind it leaves the list.
brel(b) ==
  LET next  == b - bsize[b]
      first == b - prevfree[b]
      last  == IF bsize[next] > 0 THEN next + bsize[next] ELSE next
      list  == IF first = b THEN Append(freelist, b) ELSE freelist
      gone  == (first + 1 .. last - 1) \intersect DOMAIN bsize
  IN  /\ bsize' = Put(Drop(bsize, gone), first, last - first)
      /\ prevfree' = Put(Drop(prevfree, gone), last, last - first)
      /\ freelist' = IF last = next THEN list ELSE Unlink(list, next)
      /\ UNCHANGED got

-----------------------------------------------------------------------------
BgetNext == \/ \E n \in Sizes : bget(n)
            \/ \E b \in Allocated : brel(b)

BgetSpec == BgetInit /\ [][BgetNext]_bgetVars

-----------------------------------------------------------------------------
(* Properties.                                                             *)

(***************************************************************************)
(* The two descriptions of the free blocks agree.  The blocks tile the     *)
(* pool, the tag in front of a block is the size of the free block before  *)
(* it and 0 behind an allocated one, no two free blocks are neighbours     *)
(* ("two free blocks will never be contiguous in memory"), and the free    *)
(* list holds each free block once.                                        *)
(***************************************************************************)
Free   == {b \in DOMAIN bsize : bsize[b] > 0}
Behind(b) == IF bsize[b] > 0 THEN b + bsize[b] ELSE b - bsize[b]

BoundaryTags ==
  /\ {0, Size} \subseteq DOMAIN bsize /\ DOMAIN prevfree = DOMAIN bsize /\ prevfree[0] = 0
  /\ \A b \in DOMAIN bsize \ {Size} :
       /\ Behind(b) \in DOMAIN bsize /\ (b + 1 .. Behind(b) - 1) \intersect DOMAIN bsize = {}
       /\ Behind(b) - b >= Hdr + SizeQ
       /\ prevfree[Behind(b)] = (IF b \in Free THEN bsize[b] ELSE 0)
       /\ b \in Free => Behind(b) \notin Free
  /\ ToSet(freelist) = Free /\ Len(freelist) = Cardinality(Free)

(***************************************************************************)
(* bget and brel are an allocator: no block handed out overlaps another,   *)
(* each keeps its room until it is released, and bget returns NULL only    *)
(* when no gap between them is big enough.                                 *)
(***************************************************************************)
Service == INSTANCE HeapService WITH live <- [b \in Allocated |-> -bsize[b] - Hdr]

BgetImplements == Service!Spec
=============================================================================
