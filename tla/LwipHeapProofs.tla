--------------------------- MODULE LwipHeapProofs ----------------------------
(***************************************************************************)
(* Proofs about LwipHeap, for heaps of every size.  The chain of headers   *)
(* is treated as two functions, next and prev; the heap functions change   *)
(* it in three ways: a header is put in, taken out, or moved up.  Each way *)
(* has a lemma, and each heap function one built from these.               *)
(***************************************************************************)
EXTENDS LwipHeap, WellFoundedInduction, TLAPS

\* The chain: nx leads to the next header up, pv leads back.
Chain(nx, pv) ==
  /\ DOMAIN nx \subseteq 0 .. Size /\ 0 \in DOMAIN nx /\ Size \in DOMAIN nx
  /\ DOMAIN pv = DOMAIN nx
  /\ nx[Size] = Size /\ pv[0] = 0
  /\ \A b \in DOMAIN nx \ {Size} :
       /\ nx[b] \in DOMAIN nx /\ nx[b] - b >= Hdr + MinSize
       /\ \A c \in DOMAIN nx : c <= b \/ nx[b] <= c
       /\ nx[b] # Size => pv[nx[b]] = b
  /\ \A b \in DOMAIN nx \ {0, Size} : pv[b] \in DOMAIN nx /\ pv[b] # Size /\ nx[pv[b]] = b

LEMMA PutDomain ==
  ASSUME NEW f, NEW a, NEW v
  PROVE  DOMAIN Put(f, a, v) = DOMAIN f \union {a}
BY DEF Put

LEMMA PutAt ==
  ASSUME NEW f, NEW a, NEW v
  PROVE  Put(f, a, v)[a] = v
BY DEF Put

LEMMA PutElse ==
  ASSUME NEW f, NEW a, NEW v, NEW x \in DOMAIN f, x # a
  PROVE  Put(f, a, v)[x] = f[x]
BY DEF Put

LEMMA DropDomain ==
  ASSUME NEW f, NEW a
  PROVE  DOMAIN Drop(f, a) = DOMAIN f \ {a}
BY DEF Drop

LEMMA DropElse ==
  ASSUME NEW f, NEW a, NEW x \in DOMAIN f, x # a
  PROVE  Drop(f, a)[x] = f[x]
BY DEF Drop

LEMMA Widths == Size \in Nat /\ Hdr \in Nat \ {0} /\ MinSize \in Nat \ {0} /\ Hdr + MinSize <= Size
BY HeapAssumption

USE Widths

(***************************************************************************)
(* A header at r, behind b, with room on both sides, and the rest as it    *)
(* was: the chain holds.  What prev says of the end does not matter.       *)
(***************************************************************************)
Inserted(nx, pv, nx2, pv2, b, r) ==
  /\ b \in DOMAIN nx \ {Size} /\ r \in Int
  /\ r - b >= Hdr + MinSize /\ nx[b] - r >= Hdr + MinSize
  /\ DOMAIN nx2 = DOMAIN nx \union {r} /\ nx2[b] = r /\ nx2[r] = nx[b]
  /\ \A c \in DOMAIN nx : c # b => nx2[c] = nx[c]
  /\ DOMAIN pv2 = DOMAIN nx \union {r} /\ pv2[r] = b
  /\ nx[b] # Size => pv2[nx[b]] = r
  /\ \A c \in DOMAIN nx : c # nx[b] /\ c # Size => pv2[c] = pv[c]

LEMMA ChainInsert ==
  ASSUME NEW nx, NEW pv, NEW nx2, NEW pv2, NEW b, NEW r,
         Chain(nx, pv), Inserted(nx, pv, nx2, pv2, b, r)
  PROVE  Chain(nx2, pv2) /\ r \notin DOMAIN nx /\ b < r /\ r < nx[b]
<1> DEFINE D == DOMAIN nx
<1>1. D \subseteq 0 .. Size /\ b \in D /\ nx[b] \in D /\ Size \in D /\ 0 \in D
  BY DEF Chain, Inserted
<1>0. \A c \in D : c \in Int /\ 0 <= c /\ c <= Size
  BY <1>1
<1>2. /\ \A c \in D : c <= b \/ nx[b] <= c
      /\ b # Size /\ r \in Int /\ r - b >= Hdr + MinSize /\ nx[b] - r >= Hdr + MinSize
  BY DEF Chain, Inserted
<1>3. r \in 0 .. Size /\ r \notin D /\ b < r /\ r < nx[b] /\ r # Size /\ r # 0 /\ r # b /\ r # nx[b]
  BY <1>1, <1>2
<1>4. /\ DOMAIN nx2 = D \union {r} /\ nx2[b] = r /\ nx2[r] = nx[b]
      /\ \A c \in D : c # b => nx2[c] = nx[c]
  BY DEF Inserted
<1>5. /\ DOMAIN pv2 = D \union {r} /\ pv2[r] = b
      /\ nx[b] # Size => pv2[nx[b]] = r
      /\ \A c \in D : c # nx[b] /\ c # Size => pv2[c] = pv[c]
  BY DEF Inserted
<1> HIDE DEF D
<1>6. ASSUME NEW c \in DOMAIN nx2 \ {Size}
      PROVE  /\ nx2[c] \in DOMAIN nx2 /\ nx2[c] - c >= Hdr + MinSize
             /\ \A e \in DOMAIN nx2 : e <= c \/ nx2[c] <= e
             /\ nx2[c] # Size => pv2[nx2[c]] = c
  <2>1. CASE c = r
    <3>1. nx2[c] = nx[b] /\ nx[b] \in DOMAIN nx2 /\ nx[b] - r >= Hdr + MinSize
      BY <1>1, <1>2, <1>4, <2>1
    <3>2. \A e \in D \union {r} : e <= r \/ nx[b] <= e  BY <1>1, <1>2, <1>3
    <3> QED  BY <1>4, <1>5, <2>1, <3>1, <3>2
  <2>2. CASE c = b
    <3>1. nx2[c] = r /\ r \in DOMAIN nx2 /\ r - b >= Hdr + MinSize /\ pv2[r] = b
      BY <1>2, <1>4, <1>5, <2>2
    <3>2. \A e \in D \union {r} : e <= b \/ r <= e
      <4>1. ASSUME NEW e \in D PROVE e <= b \/ r <= e
        <5>1. e \in Int /\ b \in Int /\ nx[b] \in Int  BY <1>0, <1>1
        <5>2. e <= b \/ nx[b] <= e  BY <1>2
        <5> QED  BY <1>3, <5>1, <5>2
      <4> QED  BY <1>3, <4>1
    <3> QED  BY <1>4, <2>2, <3>1, <3>2
  <2>3. CASE c # r /\ c # b
    <3>1. /\ c \in D /\ nx2[c] = nx[c] /\ nx[c] \in D /\ nx[c] - c >= Hdr + MinSize
          /\ \A e \in D : e <= c \/ nx[c] <= e
          /\ nx[c] # Size => pv[nx[c]] = c
          /\ nx[b] # Size => pv[nx[b]] = b
      BY <1>1, <1>4, <2>3 DEF Chain, D
    <3>2. r <= c \/ nx[c] <= r
      <4>1. c \in Int /\ b \in Int /\ nx[b] \in Int /\ nx[c] \in Int  BY <1>0, <1>1, <3>1
      <4>2. (c <= b \/ nx[b] <= c) /\ (b <= c \/ nx[c] <= b)  BY <1>1, <1>2, <3>1
      <4> QED  BY <1>3, <2>3, <4>1, <4>2
    <3>3. nx[c] # Size => nx[c] # nx[b]  BY <3>1, <2>3
    <3> QED  BY <1>1, <1>3, <1>4, <1>5, <3>1, <3>2, <3>3
  <2> QED  BY <2>1, <2>2, <2>3
<1>7. ASSUME NEW c \in DOMAIN nx2 \ {0, Size}
      PROVE  pv2[c] \in DOMAIN nx2 /\ pv2[c] # Size /\ nx2[pv2[c]] = c
  <2>1. CASE c = r  BY <1>1, <1>3, <1>4, <1>5, <2>1
  <2>2. CASE c = nx[b]  BY <1>1, <1>3, <1>4, <1>5, <2>2
  <2>3. CASE c # r /\ c # nx[b]
    <3>1. c \in D /\ pv[c] \in D /\ pv[c] # Size /\ nx[pv[c]] = c
      BY <1>4, <2>3 DEF Chain, D
    <3>2. pv[c] # b  BY <3>1, <2>3
    <3> QED  BY <1>4, <1>5, <2>3, <3>1, <3>2
  <2> QED  BY <2>1, <2>2, <2>3
<1>8. nx2[Size] = Size /\ pv2[0] = 0
  <2>1. nx[Size] = Size /\ pv[0] = 0  BY DEF Chain
  <2>2. nx[b] # 0  BY <1>1, <1>3
  <2> QED  BY <1>1, <1>3, <1>4, <1>5, <2>1, <2>2
<1> QED
  BY <1>1, <1>3, <1>4, <1>5, <1>6, <1>7, <1>8 DEF Chain, D

\* g is f with two entries put in, or with c dropped and an entry put in.
TwoPut(g, f, a, v, b, w) ==
  /\ DOMAIN g = DOMAIN f \union {a, b} /\ g[a] = v /\ g[b] = w
  /\ \A x \in DOMAIN f : x # a /\ x # b => g[x] = f[x]

Dropped(g, f, c, b, v) ==
  /\ DOMAIN g = (DOMAIN f \ {c}) \union {b} /\ g[b] = v
  /\ \A x \in DOMAIN f : x # c /\ x # b => g[x] = f[x]

LEMMA PutTwice ==
  ASSUME NEW f, NEW a, NEW v, NEW b, NEW w, a # b
  PROVE  TwoPut(Put(Put(f, a, v), b, w), f, a, v, b, w)
<1> DEFINE e == Put(f, a, v)
<1>1. DOMAIN e = DOMAIN f \union {a}  BY PutDomain
<1>2. e[a] = v  BY PutAt
<1>3. \A x \in DOMAIN f : x # a => e[x] = f[x]  BY PutElse
<1> HIDE DEF e
<1>5. DOMAIN Put(e, b, w) = DOMAIN e \union {b}  BY PutDomain
<1>6. Put(e, b, w)[b] = w  BY PutAt
<1>7. \A x \in DOMAIN e : x # b => Put(e, b, w)[x] = e[x]  BY PutElse
<1>8. TwoPut(Put(e, b, w), f, a, v, b, w)
  BY <1>1, <1>2, <1>3, <1>5, <1>6, <1>7 DEF TwoPut
<1> QED  BY <1>8 DEF e

LEMMA PutDrop ==
  ASSUME NEW f, NEW c, NEW b, NEW v, b # c
  PROVE  Dropped(Put(Drop(f, c), b, v), f, c, b, v)
<1> DEFINE e == Drop(f, c)
<1>1. DOMAIN e = DOMAIN f \ {c}  BY DropDomain
<1>2. \A x \in DOMAIN f : x # c => e[x] = f[x]  BY DropElse
<1> HIDE DEF e
<1>4. DOMAIN Put(e, b, v) = DOMAIN e \union {b}  BY PutDomain
<1>5. Put(e, b, v)[b] = v  BY PutAt
<1>6. \A x \in DOMAIN e : x # b => Put(e, b, v)[x] = e[x]  BY PutElse
<1>7. Dropped(Put(e, b, v), f, c, b, v)
  BY <1>1, <1>2, <1>4, <1>5, <1>6 DEF Dropped
<1> QED  BY <1>7 DEF e

(***************************************************************************)
(* A chain is what its entries are, whatever prev says of the end.         *)
(***************************************************************************)
LEMMA ChainSame ==
  ASSUME NEW nx, NEW pv, Chain(nx, pv),
         NEW nx2, DOMAIN nx2 = DOMAIN nx, \A c \in DOMAIN nx : nx2[c] = nx[c],
         NEW pv2, DOMAIN pv2 = DOMAIN nx, \A c \in DOMAIN nx : c # Size => pv2[c] = pv[c]
  PROVE  Chain(nx2, pv2)
BY DEF Chain

(***************************************************************************)
(* The header c behind b is taken out.                                     *)
(***************************************************************************)
LEMMA ChainMerge ==
  ASSUME NEW nx, NEW pv, Chain(nx, pv), NEW b \in DOMAIN nx \ {Size},
         NEW c, c = nx[b], c # Size,
         NEW nx2, DOMAIN nx2 = DOMAIN nx \ {c}, nx2[b] = nx[c],
         \A x \in DOMAIN nx : x # b /\ x # c => nx2[x] = nx[x],
         NEW pv2, DOMAIN pv2 = DOMAIN nx \ {c}, pv2[nx[c]] = b,
         \A x \in DOMAIN nx : x # c /\ x # nx[c] => pv2[x] = pv[x]
  PROVE  Chain(nx2, pv2) /\ c \in DOMAIN nx /\ b < c /\ c < nx[c]
<1> DEFINE D == DOMAIN nx
<1>1. D \subseteq 0 .. Size /\ b \in D /\ c \in D /\ nx[c] \in D /\ Size \in D /\ 0 \in D
  BY DEF Chain
<1>0. \A x \in D : x \in Int /\ 0 <= x /\ x <= Size
  BY <1>1
<1>2. /\ c - b >= Hdr + MinSize /\ nx[c] - c >= Hdr + MinSize
      /\ (\A x \in D : x <= b \/ c <= x) /\ (\A x \in D : x <= c \/ nx[c] <= x)
      /\ nx[c] # Size => pv[nx[c]] = c
  BY <1>1 DEF Chain
<1>3. b < c /\ c < nx[c] /\ b # c /\ c # nx[c] /\ b # nx[c] /\ c # 0
      /\ nx[c] - b >= Hdr + MinSize /\ nx[c] # 0
  BY <1>0, <1>1, <1>2
<1>4. /\ DOMAIN nx2 = D \ {c} /\ nx2[b] = nx[c]
      /\ \A x \in D : x # b /\ x # c => nx2[x] = nx[x]
  OBVIOUS
<1>5. /\ DOMAIN pv2 = D \ {c} /\ pv2[nx[c]] = b
      /\ \A x \in D : x # c /\ x # nx[c] => pv2[x] = pv[x]
  OBVIOUS
<1> HIDE DEF D
<1>6. ASSUME NEW x \in DOMAIN nx2 \ {Size}
      PROVE  /\ nx2[x] \in DOMAIN nx2 /\ nx2[x] - x >= Hdr + MinSize
             /\ \A e \in DOMAIN nx2 : e <= x \/ nx2[x] <= e
             /\ nx2[x] # Size => pv2[nx2[x]] = x
  <2>1. CASE x = b
    <3>1. \A e \in D : e # c => e <= b \/ nx[c] <= e
      <4>1. ASSUME NEW e \in D, e # c PROVE e <= b \/ nx[c] <= e
        <5>1. e \in Int /\ b \in Int /\ c \in Int /\ nx[c] \in Int  BY <1>0, <1>1
        <5>2. (e <= b \/ c <= e) /\ (e <= c \/ nx[c] <= e)  BY <1>2
        <5> QED  BY <4>1, <5>1, <5>2
      <4> QED  BY <4>1
    <3> QED  BY <1>1, <1>3, <1>4, <1>5, <2>1, <3>1
  <2>2. CASE x # b
    <3>1. /\ x \in D /\ x # c /\ nx2[x] = nx[x] /\ nx[x] \in D /\ nx[x] - x >= Hdr + MinSize
          /\ \A e \in D : e <= x \/ nx[x] <= e
          /\ nx[x] # Size => pv[nx[x]] = x
          /\ pv[c] = b
      BY <1>1, <1>4, <2>2 DEF Chain, D
    <3>2. nx[x] # c  BY <3>1, <2>2
    <3>3. nx[x] # Size => nx[x] # nx[c]  BY <1>2, <3>1
    <3>4. nx[x] = Size => nx[c] # Size \/ pv2[Size] = b  BY <1>5
    <3> QED  BY <1>1, <1>4, <1>5, <3>1, <3>2, <3>3
  <2> QED  BY <2>1, <2>2
<1>7. ASSUME NEW x \in DOMAIN nx2 \ {0, Size}
      PROVE  pv2[x] \in DOMAIN nx2 /\ pv2[x] # Size /\ nx2[pv2[x]] = x
  <2>1. CASE x = nx[c]  BY <1>1, <1>3, <1>4, <1>5, <2>1
  <2>2. CASE x # nx[c]
    <3>1. x \in D /\ x # c /\ pv[x] \in D /\ pv[x] # Size /\ nx[pv[x]] = x
      BY <1>4 DEF Chain, D
    <3>2. pv[x] # c /\ pv[x] # b  BY <2>2, <3>1
    <3> QED  BY <1>4, <1>5, <2>2, <3>1, <3>2
  <2> QED  BY <2>1, <2>2
<1>8. nx2[Size] = Size /\ pv2[0] = 0
  <2>1. nx[Size] = Size /\ pv[0] = 0  BY DEF Chain
  <2> QED  BY <1>1, <1>3, <1>4, <1>5, <2>1
<1>9. DOMAIN nx2 \subseteq 0 .. Size /\ 0 \in DOMAIN nx2 /\ Size \in DOMAIN nx2
  BY <1>1, <1>3, <1>4
<1> QED
  BY <1>1, <1>3, <1>4, <1>5, <1>6, <1>7, <1>8, <1>9 DEF Chain, D

-----------------------------------------------------------------------------
(* Blocks: which headers are of used blocks, and where lfree points.       *)

Well(nx, pv, us) ==
  /\ Chain(nx, pv)
  /\ us \subseteq DOMAIN nx /\ Size \in us
  /\ \A b \in DOMAIN nx \ us : nx[b] \in us

Low(nx, us, lf) ==
  /\ lf \in DOMAIN nx /\ (lf \in us => lf = Size)
  /\ \A b \in DOMAIN nx \ us : lf <= b

\* Free block b may have a free neighbour, before it or behind it.
Hole(nx, pv, us, b) ==
  /\ Chain(nx, pv)
  /\ us \subseteq DOMAIN nx /\ Size \in us /\ b \in DOMAIN nx \ us
  /\ \A x \in DOMAIN nx \ us : x # b => nx[x] \in us \union {b}

\* A header at r, new, behind b.
SplitAt(nx, pv, nx2, pv2, b, r) ==
  /\ r \notin DOMAIN nx /\ b < r /\ r < nx[b]
  /\ DOMAIN nx2 = DOMAIN nx \union {r} /\ nx2[b] = r /\ nx2[r] = nx[b]
  /\ \A c \in DOMAIN nx : c # b => nx2[c] = nx[c]
  /\ DOMAIN pv2 = DOMAIN nx \union {r} /\ pv2[r] = b
  /\ \A c \in DOMAIN nx : c # nx[b] /\ c # Size => pv2[c] = pv[c]

LEMMA HeadsAreInt ==
  ASSUME NEW nx, NEW pv, Chain(nx, pv)
  PROVE  \A x \in DOMAIN nx : x \in Int /\ 0 <= x /\ x <= Size
<1>1. DOMAIN nx \subseteq 0 .. Size  BY DEF Chain
<1> QED  BY <1>1

(***************************************************************************)
(* A block is split and its first part used: there is room for a header    *)
(* and a block on both sides of r, and what follows is used.               *)
(***************************************************************************)
LEMMA WellSplit ==
  ASSUME NEW nx, NEW pv, NEW us, Well(nx, pv, us), NEW b \in DOMAIN nx \ {Size}, nx[b] \in us,
         NEW r \in Int, r - b >= Hdr + MinSize, nx[b] - r >= Hdr + MinSize,
         NEW nx2, nx2 = Put(Put(nx, r, nx[b]), b, r),
         NEW pv2, pv2 = IF nx[b] = Size THEN Put(pv, r, b) ELSE Put(Put(pv, r, b), nx[b], r)
  PROVE  Well(nx2, pv2, us \union {b}) /\ SplitAt(nx, pv, nx2, pv2, b, r)
<1> DEFINE D == DOMAIN nx
<1>1. /\ D \subseteq 0 .. Size /\ b \in D /\ nx[b] \in D /\ Size \in D /\ DOMAIN pv = D
      /\ us \subseteq D /\ Size \in us
      /\ \A c \in D : c <= b \/ nx[b] <= c
  BY DEF Well, Chain
<1>0. \A x \in D : x \in Int /\ 0 <= x /\ x <= Size
  BY <1>1
<1>2. r # b /\ r # nx[b] /\ r \notin D /\ r # Size
  <2>1. b \in Int /\ nx[b] \in Int /\ b < r /\ r < nx[b]  BY <1>0, <1>1
  <2>2. ASSUME r \in D PROVE FALSE  BY <1>1, <2>1, <2>2
  <2> QED  BY <1>1, <2>1, <2>2
<1>3. /\ DOMAIN nx2 = D \union {r} /\ nx2[b] = r /\ nx2[r] = nx[b]
      /\ \A c \in D : c # b => nx2[c] = nx[c]
  <2>1. TwoPut(Put(Put(nx, r, nx[b]), b, r), nx, r, nx[b], b, r)
    BY <1>2, PutTwice
  <2> QED  BY <1>1, <1>2, <2>1 DEF TwoPut
<1>4. /\ DOMAIN pv2 = D \union {r} /\ pv2[r] = b
      /\ nx[b] # Size => pv2[nx[b]] = r
      /\ \A c \in D : c # nx[b] /\ c # Size => pv2[c] = pv[c]
  <2>1. CASE nx[b] = Size
    <3>1. pv2 = Put(pv, r, b)  BY <2>1
    <3>2. DOMAIN Put(pv, r, b) = DOMAIN pv \union {r}  BY PutDomain
    <3>3. Put(pv, r, b)[r] = b  BY PutAt
    <3>4. \A x \in DOMAIN pv : x # r => Put(pv, r, b)[x] = pv[x]  BY PutElse
    <3> QED  BY <1>1, <1>2, <2>1, <3>1, <3>2, <3>3, <3>4
  <2>2. CASE nx[b] # Size
    <3>1. pv2 = Put(Put(pv, r, b), nx[b], r)  BY <2>2
    <3>2. TwoPut(Put(Put(pv, r, b), nx[b], r), pv, r, b, nx[b], r)
      BY <1>2, PutTwice
    <3> QED  BY <1>1, <1>2, <2>2, <3>1, <3>2 DEF TwoPut
  <2> QED  BY <2>1, <2>2
<1>5. Chain(nx2, pv2) /\ b < r /\ r < nx[b]
  <2>1. Inserted(nx, pv, nx2, pv2, b, r)  BY <1>1, <1>3, <1>4 DEF Inserted
  <2> QED  BY <2>1, ChainInsert DEF Well
<1>6. us \union {b} \subseteq DOMAIN nx2 /\ Size \in us \union {b}
  BY <1>1, <1>3
<1>7. ASSUME NEW x \in DOMAIN nx2 \ (us \union {b})
      PROVE  nx2[x] \in us \union {b}
  <2>1. CASE x = r  BY <1>3, <2>1
  <2>2. CASE x # r  BY <1>3, <2>2 DEF Well
  <2> QED  BY <2>1, <2>2
<1>8. Well(nx2, pv2, us \union {b})  BY <1>5, <1>6, <1>7 DEF Well
<1> QED  BY <1>2, <1>3, <1>4, <1>5, <1>8 DEF SplitAt

(***************************************************************************)
(* plug_holes, the block behind: b takes it in if it is free.              *)
(***************************************************************************)
LEMMA HoleBehind ==
  ASSUME NEW nx, NEW pv, NEW us, NEW lf, NEW b, Hole(nx, pv, us, b), Low(nx, us, lf),
         NEW c, c = nx[b], c \notin us,
         NEW nx2, nx2 = Put(Drop(nx, c), b, nx[c]),
         NEW pv2, pv2 = Put(Drop(pv, c), nx[c], b),
         NEW lf2, lf2 = IF lf = c THEN b ELSE lf
  PROVE  Hole(nx2, pv2, us, b) /\ nx2[b] \in us /\ Low(nx2, us, lf2)
<1> DEFINE D == DOMAIN nx
<1>1. /\ b \in D \ {Size} /\ c \in D \ {Size} /\ DOMAIN pv = D /\ nx[c] \in D
      /\ us \subseteq D /\ Size \in us /\ b \notin us
      /\ nx[b] - b >= Hdr + MinSize /\ nx[c] - c >= Hdr + MinSize
  BY DEF Hole, Chain
<1>0. \A x \in D : x \in Int /\ 0 <= x /\ x <= Size
  BY HeadsAreInt DEF Hole
<1>2. b # c /\ c # nx[c] /\ b # nx[c] /\ b < c
  BY <1>0, <1>1
<1>3. /\ DOMAIN nx2 = D \ {c} /\ nx2[b] = nx[c]
      /\ \A x \in D : x # b /\ x # c => nx2[x] = nx[x]
  <2>1. Dropped(Put(Drop(nx, c), b, nx[c]), nx, c, b, nx[c])
    BY <1>2, PutDrop
  <2> QED  BY <1>1, <1>2, <2>1 DEF Dropped
<1>4. /\ DOMAIN pv2 = D \ {c} /\ pv2[nx[c]] = b
      /\ \A x \in D : x # c /\ x # nx[c] => pv2[x] = pv[x]
  <2>1. Dropped(Put(Drop(pv, c), nx[c], b), pv, c, nx[c], b)
    BY <1>2, PutDrop
  <2> QED  BY <1>1, <1>2, <2>1 DEF Dropped
<1>5. Chain(nx2, pv2)
  BY <1>1, <1>3, <1>4, ChainMerge DEF Hole
<1>6. nx2[b] \in us
  BY <1>1, <1>2, <1>3 DEF Hole
<1>7. ASSUME NEW x \in DOMAIN nx2 \ us, x # b
      PROVE  nx2[x] \in us \union {b}
  BY <1>3, <1>7 DEF Hole
<1>8. us \subseteq DOMAIN nx2 /\ b \in DOMAIN nx2 \ us
  BY <1>1, <1>2, <1>3
<1>9. Low(nx2, us, lf2)
  <2>1. lf \in D /\ (lf \in us => lf = Size) /\ \A x \in D \ us : lf <= x
    BY DEF Low
  <2>2. lf <= b /\ lf # c
    BY <1>0, <1>1, <1>2, <2>1
  <2> QED  BY <1>1, <1>3, <2>1, <2>2 DEF Low
<1> QED  BY <1>1, <1>3, <1>5, <1>6, <1>7, <1>8, <1>9 DEF Hole

(***************************************************************************)
(* plug_holes, the block before: it takes b in if it is free.              *)
(***************************************************************************)
LEMMA HoleBefore ==
  ASSUME NEW nx, NEW pv, NEW us, NEW lf, NEW b, Hole(nx, pv, us, b), nx[b] \in us, Low(nx, us, lf),
         NEW p, p = pv[b], p # b, p \notin us,
         NEW nx2, nx2 = Put(Drop(nx, b), p, nx[b]),
         NEW pv2, pv2 = Put(Drop(pv, b), nx[b], p),
         NEW lf2, lf2 = IF lf = b THEN p ELSE lf
  PROVE  Well(nx2, pv2, us) /\ Low(nx2, us, lf2)
<1> DEFINE D == DOMAIN nx
<1>1. /\ b \in D \ {0, Size} /\ p \in D \ {Size} /\ nx[p] = b /\ DOMAIN pv = D /\ nx[b] \in D
      /\ us \subseteq D /\ Size \in us /\ b \notin us
      /\ nx[b] - b >= Hdr + MinSize /\ b - p >= Hdr + MinSize
  <2>1. b # 0  BY DEF Hole, Chain
  <2> QED  BY <2>1 DEF Hole, Chain
<1>0. \A x \in D : x \in Int /\ 0 <= x /\ x <= Size
  BY HeadsAreInt DEF Hole
<1>2. b # nx[b] /\ p # nx[b] /\ p < b
  BY <1>0, <1>1
<1>3. /\ DOMAIN nx2 = D \ {b} /\ nx2[p] = nx[b]
      /\ \A x \in D : x # b /\ x # p => nx2[x] = nx[x]
  <2>1. Dropped(Put(Drop(nx, b), p, nx[b]), nx, b, p, nx[b])
    BY <1>2, PutDrop
  <2> QED  BY <1>1, <1>2, <2>1 DEF Dropped
<1>4. /\ DOMAIN pv2 = D \ {b} /\ pv2[nx[b]] = p
      /\ \A x \in D : x # b /\ x # nx[b] => pv2[x] = pv[x]
  <2>1. Dropped(Put(Drop(pv, b), nx[b], p), pv, b, nx[b], p)
    BY <1>2, PutDrop
  <2> QED  BY <1>1, <1>2, <2>1 DEF Dropped
<1>5. Chain(nx2, pv2)
  BY <1>1, <1>3, <1>4, ChainMerge DEF Hole
<1>6. ASSUME NEW x \in DOMAIN nx2 \ us
      PROVE  nx2[x] \in us
  <2>1. CASE x = p  BY <1>3, <2>1
  <2>2. CASE x # p
    <3>1. x \in D \ us /\ x # b /\ nx2[x] = nx[x]  BY <1>3, <2>2
    <3>2. nx[x] \in us \union {b}  BY <3>1 DEF Hole
    <3>3. nx[x] # b
      <4>1. x # Size /\ (nx[x] # Size => pv[nx[x]] = x)  BY <1>1, <3>1 DEF Hole, Chain
      <4> QED  BY <1>1, <2>2, <4>1
    <3> QED  BY <3>1, <3>2, <3>3
  <2> QED  BY <2>1, <2>2
<1>7. Low(nx2, us, lf2)
  <2>1. lf \in D /\ (lf \in us => lf = Size) /\ \A x \in D \ us : lf <= x
    BY DEF Low
  <2>2. lf <= p /\ lf # b
    BY <1>0, <1>1, <1>2, <2>1
  <2> QED  BY <1>1, <1>3, <2>1, <2>2 DEF Low
<1> QED  BY <1>1, <1>3, <1>5, <1>6, <1>7 DEF Well

\* Nothing to plug.
LEMMA NoHole ==
  ASSUME NEW nx, NEW pv, NEW us, NEW b, Hole(nx, pv, us, b), nx[b] \in us, pv[b] = b \/ pv[b] \in us
  PROVE  Well(nx, pv, us)
<1>0. \A x \in DOMAIN nx : x \in Int /\ 0 <= x /\ x <= Size
  BY HeadsAreInt DEF Hole
<1>1. ASSUME NEW x \in DOMAIN nx \ us
      PROVE  nx[x] \in us
  <2>1. CASE x = b  BY <2>1
  <2>2. CASE x # b
    <3>1. nx[x] \in us \union {b}  BY <2>2 DEF Hole
    <3>2. nx[x] # b
      <4>1. x # Size /\ b # Size /\ (nx[x] # Size => pv[nx[x]] = x)  BY DEF Hole, Chain
      <4> QED  BY <2>2, <4>1
    <3> QED  BY <3>1, <3>2
  <2> QED  BY <2>1, <2>2
<1> QED  BY <1>1 DEF Hole, Well

-----------------------------------------------------------------------------
(* The heap functions, as they act on the parts of the record.             *)

HeapOf(nx, pv, us, lf) == [next |-> nx, prev |-> pv, used |-> us, lfree |-> lf]

IsHeap(h) == h = HeapOf(h.next, h.prev, h.used, h.lfree)

GoodHeap(h) == IsHeap(h) /\ Well(h.next, h.prev, h.used)
LowHeap(h)  == Low(h.next, h.used, h.lfree)

LEMMA Parts ==
  ASSUME NEW nx, NEW pv, NEW us, NEW lf, NEW h, h = HeapOf(nx, pv, us, lf)
  PROVE  h.next = nx /\ h.prev = pv /\ h.used = us /\ h.lfree = lf /\ IsHeap(h)
BY DEF HeapOf, IsHeap

LEMMA UseParts ==
  ASSUME NEW h, IsHeap(h), NEW b
  PROVE  Use(h, b) = HeapOf(h.next, h.prev, h.used \union {b}, h.lfree)
BY DEF HeapOf, IsHeap, Use

LEMMA UnuseParts ==
  ASSUME NEW h, IsHeap(h), NEW b
  PROVE  Unuse(h, b) = HeapOf(h.next, h.prev, h.used \ {b}, IF b < h.lfree THEN b ELSE h.lfree)
<1> DEFINE us == h.used \ {b}
           lf == IF b < h.lfree THEN b ELSE h.lfree
<1>1. Unuse(h, b) = [h EXCEPT !.used = us, !.lfree = lf]  BY Zenon DEF Unuse
<1> HIDE DEF us, lf
<1>2. [h EXCEPT !.used = us, !.lfree = lf] = HeapOf(h.next, h.prev, us, lf)
  <2> DEFINE e == [h EXCEPT !.used = us]
  <2>1. e = HeapOf(h.next, h.prev, us, h.lfree)  BY DEF HeapOf, IsHeap
  <2>2. [h EXCEPT !.used = us, !.lfree = lf] = [e EXCEPT !.lfree = lf]  OBVIOUS
  <2> HIDE DEF e
  <2>3. [e EXCEPT !.lfree = lf] = HeapOf(h.next, h.prev, us, lf)  BY <2>1 DEF HeapOf
  <2> QED  BY <2>2, <2>3
<1> QED  BY <1>1, <1>2 DEF us, lf

LEMMA BackLinkParts ==
  ASSUME NEW h, IsHeap(h), NEW next, NEW b
  PROVE  BackLink(h, next, b) = HeapOf(h.next, IF next = Size THEN h.prev ELSE Put(h.prev, next, b), h.used, h.lfree)
BY DEF HeapOf, IsHeap, BackLink

LEMMA SplitParts ==
  ASSUME NEW h, IsHeap(h), NEW b, NEW n, NEW r, r = b + Hdr + n
  PROVE  Split(h, b, n) = HeapOf(Put(Put(h.next, r, h.next[b]), b, r), Put(h.prev, r, b), h.used, h.lfree)
<1> DEFINE nx == Put(Put(h.next, r, h.next[b]), b, r)
           pv == Put(h.prev, r, b)
<1>1. Split(h, b, n) = [h EXCEPT !.next = nx, !.prev = pv]  BY Zenon DEF Split
<1> HIDE DEF nx, pv
<1>2. [h EXCEPT !.next = nx, !.prev = pv] = HeapOf(nx, pv, h.used, h.lfree)
  <2> DEFINE e == [h EXCEPT !.next = nx]
  <2>1. e = HeapOf(nx, h.prev, h.used, h.lfree)  BY DEF HeapOf, IsHeap
  <2>2. [h EXCEPT !.next = nx, !.prev = pv] = [e EXCEPT !.prev = pv]  OBVIOUS
  <2> HIDE DEF e
  <2>3. [e EXCEPT !.prev = pv] = HeapOf(nx, pv, h.used, h.lfree)  BY <2>1 DEF HeapOf
  <2> QED  BY <2>2, <2>3
<1> QED  BY <1>1, <1>2 DEF nx, pv

LEMMA MergeParts ==
  ASSUME NEW h, NEW a, NEW b
  PROVE  Merge(h, a, b) = HeapOf(Put(Drop(h.next, b), a, h.next[b]), Put(Drop(h.prev, b), h.next[b], a),
                                 h.used, IF h.lfree = b THEN a ELSE h.lfree)
BY DEF HeapOf, Merge

\* What mem_malloc leaves when it has split b and written the last link.
Linked(h, b, n) == BackLink(Use(Split(h, b, n), b), h.next[b], b + Hdr + n)

LEMMA LinkedParts ==
  ASSUME NEW h, IsHeap(h), NEW b, NEW n, NEW r, r = b + Hdr + n
  PROVE  Linked(h, b, n) =
           HeapOf(Put(Put(h.next, r, h.next[b]), b, r),
                  IF h.next[b] = Size THEN Put(h.prev, r, b) ELSE Put(Put(h.prev, r, b), h.next[b], r),
                  h.used \union {b}, h.lfree)
<1> DEFINE nx == Put(Put(h.next, r, h.next[b]), b, r)
           pv == Put(h.prev, r, b)
           s  == Split(h, b, n)
           u  == Use(s, b)
<1>1. s = HeapOf(nx, pv, h.used, h.lfree)  BY SplitParts
<1>2. Linked(h, b, n) = BackLink(u, h.next[b], r)  BY DEF Linked
<1> HIDE DEF nx, pv, s
<1>3. s.next = nx /\ s.prev = pv /\ s.used = h.used /\ s.lfree = h.lfree /\ IsHeap(s)
  BY <1>1, Parts
<1>4. u = HeapOf(nx, pv, h.used \union {b}, h.lfree)  BY <1>3, UseParts
<1> HIDE DEF u
<1>5. u.next = nx /\ u.prev = pv /\ u.used = h.used \union {b} /\ u.lfree = h.lfree /\ IsHeap(u)
  BY <1>4, Parts
<1>6. BackLink(u, h.next[b], r) = HeapOf(u.next, IF h.next[b] = Size THEN u.prev ELSE Put(u.prev, h.next[b], r), u.used, u.lfree)
  BY <1>5, BackLinkParts
<1>7. Linked(h, b, n) = HeapOf(nx, IF h.next[b] = Size THEN pv ELSE Put(pv, h.next[b], r), h.used \union {b}, h.lfree)
  BY <1>2, <1>5, <1>6
<1> QED  BY <1>7 DEF nx, pv

(***************************************************************************)
(* mem_free leaves the chain whole, plugged, and lfree at the lowest block. *)
(***************************************************************************)
LEMMA MemFreeGood ==
  ASSUME NEW h, GoodHeap(h), LowHeap(h), NEW b \in h.used \ {Size}
  PROVE  GoodHeap(mem_free(h, b)) /\ LowHeap(mem_free(h, b))
<1> DEFINE u == Unuse(h, b)
           f == PlugForward(u, b)
           g == PlugBackward(f, b)
           D == DOMAIN h.next
<1>0. mem_free(h, b) = g  BY DEF mem_free, plug_holes
<1>1. /\ b \in D \ {Size} /\ h.used \subseteq D /\ \A x \in D : x \in Int
      /\ Chain(h.next, h.prev) /\ Size \in h.used /\ h.lfree \in D
  BY HeadsAreInt DEF GoodHeap, LowHeap, Well, Low
<1>2. /\ u.next = h.next /\ u.prev = h.prev /\ u.used = h.used \ {b}
      /\ u.lfree = (IF b < h.lfree THEN b ELSE h.lfree) /\ IsHeap(u)
  <2>1. u = HeapOf(h.next, h.prev, h.used \ {b}, IF b < h.lfree THEN b ELSE h.lfree)
    BY UnuseParts DEF GoodHeap
  <2> HIDE DEF u
  <2> QED  BY <2>1, Parts
<1> HIDE DEF u
<1>3. Hole(u.next, u.prev, u.used, b)
  <2>1. \A x \in D \ h.used : h.next[x] \in h.used  BY DEF GoodHeap, Well
  <2>2. \A x \in D \ (h.used \ {b}) : x # b => h.next[x] \in (h.used \ {b}) \union {b}
    BY <2>1
  <2> QED  BY <1>1, <1>2, <2>2 DEF Hole
<1>4. Low(u.next, u.used, u.lfree)
  <2>1. (h.lfree \in h.used => h.lfree = Size) /\ \A x \in D \ h.used : h.lfree <= x
    BY DEF LowHeap, Low
  <2>2. b \in Int /\ h.lfree \in Int /\ Size \in Int  BY <1>1
  <2>3. CASE b < h.lfree
    <3>1. \A x \in D \ (h.used \ {b}) : b <= x  BY <1>1, <2>1, <2>2, <2>3
    <3> QED  BY <1>1, <1>2, <2>3, <3>1 DEF Low
  <2>4. CASE ~(b < h.lfree)
    <3>1. \A x \in D \ (h.used \ {b}) : h.lfree <= x  BY <1>1, <2>1, <2>2, <2>4
    <3> QED  BY <1>1, <1>2, <2>1, <2>4, <3>1 DEF Low
  <2> QED  BY <2>3, <2>4
<1>5. /\ Hole(f.next, f.prev, f.used, b) /\ f.next[b] \in f.used
      /\ Low(f.next, f.used, f.lfree) /\ IsHeap(f)
  <2>1. CASE u.next[b] \in u.used
    <3>1. f = u  BY <2>1 DEF PlugForward
    <3> QED  BY <1>2, <1>3, <1>4, <2>1, <3>1
  <2>2. CASE u.next[b] \notin u.used
    <3> DEFINE c   == u.next[b]
               nx2 == Put(Drop(u.next, c), b, u.next[c])
               pv2 == Put(Drop(u.prev, c), u.next[c], b)
               lf2 == IF u.lfree = c THEN b ELSE u.lfree
    <3>1. f = Merge(u, b, c)  BY <2>2 DEF PlugForward
    <3>2. f = HeapOf(nx2, pv2, u.used, lf2)  BY <3>1, MergeParts
    <3>3. Hole(nx2, pv2, u.used, b) /\ nx2[b] \in u.used /\ Low(nx2, u.used, lf2)
      <4> DEFINE nx == u.next  pv == u.prev  us == u.used  lf == u.lfree
      <4>1. Hole(nx, pv, us, b) /\ Low(nx, us, lf) /\ c = nx[b] /\ c \notin us
        BY <1>3, <1>4, <2>2
      <4>2. /\ nx2 = Put(Drop(nx, c), b, nx[c]) /\ pv2 = Put(Drop(pv, c), nx[c], b)
            /\ lf2 = IF lf = c THEN b ELSE lf
        OBVIOUS
      <4> HIDE DEF c, nx2, pv2, lf2, nx, pv, us, lf
      <4>3. Hole(nx2, pv2, us, b) /\ nx2[b] \in us /\ Low(nx2, us, lf2)
        BY <4>1, <4>2, HoleBehind
      <4> QED  BY <4>3 DEF us
    <3> HIDE DEF nx2, pv2, lf2, f
    <3>4. f.next = nx2 /\ f.prev = pv2 /\ f.used = u.used /\ f.lfree = lf2 /\ IsHeap(f)
      BY <3>2, Parts
    <3> QED  BY <3>3, <3>4
  <2> QED  BY <2>1, <2>2
<1> HIDE DEF f
<1>6. GoodHeap(g) /\ LowHeap(g)
  <2>1. CASE f.prev[b] = b \/ f.prev[b] \in f.used
    <3>1. g = f  BY <2>1 DEF PlugBackward
    <3>2. Well(f.next, f.prev, f.used)  BY <1>5, <2>1, NoHole
    <3> QED  BY <1>5, <3>1, <3>2 DEF GoodHeap, LowHeap
  <2>2. CASE f.prev[b] # b /\ f.prev[b] \notin f.used
    <3> DEFINE p   == f.prev[b]
               nx2 == Put(Drop(f.next, b), p, f.next[b])
               pv2 == Put(Drop(f.prev, b), f.next[b], p)
               lf2 == IF f.lfree = b THEN p ELSE f.lfree
    <3>1. g = Merge(f, p, b)  BY <2>2 DEF PlugBackward
    <3>2. g = HeapOf(nx2, pv2, f.used, lf2)  BY <3>1, MergeParts
    <3>3. Well(nx2, pv2, f.used) /\ Low(nx2, f.used, lf2)
      BY <1>5, <2>2, HoleBefore
    <3> HIDE DEF nx2, pv2, lf2, g
    <3>4. g.next = nx2 /\ g.prev = pv2 /\ g.used = f.used /\ g.lfree = lf2 /\ IsHeap(g)
      BY <3>2, Parts
    <3> QED  BY <3>3, <3>4 DEF GoodHeap, LowHeap
  <2> QED  BY <2>1, <2>2
<1> QED  BY <1>0, <1>6

\* A block more in use.
LEMMA UseGood ==
  ASSUME NEW h, GoodHeap(h), NEW b \in Heads(h)
  PROVE  /\ GoodHeap(Use(h, b))
         /\ Use(h, b).next = h.next /\ Use(h, b).used = h.used \union {b} /\ Use(h, b).lfree = h.lfree
<1> DEFINE u == Use(h, b)
<1>1. u = HeapOf(h.next, h.prev, h.used \union {b}, h.lfree)  BY UseParts DEF GoodHeap
<1> HIDE DEF u
<1>2. u.next = h.next /\ u.prev = h.prev /\ u.used = h.used \union {b} /\ u.lfree = h.lfree /\ IsHeap(u)
  BY <1>1, Parts
<1>3. Well(h.next, h.prev, h.used \union {b})  BY DEF GoodHeap, Well, Heads
<1>4. GoodHeap(u)  BY <1>2, <1>3 DEF GoodHeap
<1> QED  BY <1>2, <1>4 DEF u

\* What there is room for behind a block that splits.
LEMMA SplitRoom ==
  ASSUME NEW h, GoodHeap(h), NEW b \in Heads(h) \ {Size}, NEW n \in Int, n >= MinSize, Splits(h, b, n)
  PROVE  /\ b + Hdr + n \in Int /\ b \in Int /\ h.next[b] \in Heads(h) /\ h.next[b] \in Int
         /\ (b + Hdr + n) - b >= Hdr + MinSize /\ h.next[b] - (b + Hdr + n) >= Hdr + MinSize
<1>1. \A x \in DOMAIN h.next : x \in Int  BY HeadsAreInt DEF GoodHeap, Well
<1>2. b \in DOMAIN h.next /\ h.next[b] \in DOMAIN h.next  BY DEF GoodHeap, Well, Chain, Heads
<1>3. b \in Int /\ h.next[b] \in Int  BY <1>1, <1>2
<1>4. h.next[b] - (b + Hdr) >= n + Hdr + MinSize  BY DEF Splits, Room
<1> QED  BY <1>2, <1>3, <1>4 DEF Heads

(***************************************************************************)
(* A free block split and linked, as mem_malloc leaves it.                 *)
(***************************************************************************)
LEMMA LinkedGood ==
  ASSUME NEW h, GoodHeap(h), NEW b \in Heads(h) \ {Size}, h.next[b] \in h.used,
         NEW n \in Int, n >= MinSize, Splits(h, b, n),
         NEW g, g = Linked(h, b, n), NEW r, r = b + Hdr + n
  PROVE  /\ GoodHeap(g) /\ g.used = h.used \union {b} /\ g.lfree = h.lfree
         /\ SplitAt(h.next, h.prev, g.next, g.prev, b, r)
<1> DEFINE nx == h.next  pv == h.prev  us == h.used
           nx2 == Put(Put(nx, r, nx[b]), b, r)
           pv2 == IF nx[b] = Size THEN Put(pv, r, b) ELSE Put(Put(pv, r, b), nx[b], r)
<1>1. g = HeapOf(nx2, pv2, us \union {b}, h.lfree)
  BY LinkedParts DEF GoodHeap
<1>2. r \in Int /\ r - b >= Hdr + MinSize /\ nx[b] - r >= Hdr + MinSize
  BY SplitRoom
<1>3. Well(nx, pv, us) /\ b \in DOMAIN nx \ {Size} /\ nx[b] \in us
  BY DEF GoodHeap, Heads
<1>4. nx2 = Put(Put(nx, r, nx[b]), b, r)  OBVIOUS
<1>5. pv2 = IF nx[b] = Size THEN Put(pv, r, b) ELSE Put(Put(pv, r, b), nx[b], r)  OBVIOUS
<1>6. h.next = nx /\ h.used = us /\ h.prev = pv  OBVIOUS
<1> HIDE DEF nx2, pv2, nx, pv, us
<1>7. Well(nx2, pv2, us \union {b}) /\ SplitAt(nx, pv, nx2, pv2, b, r)
  BY <1>2, <1>3, <1>4, <1>5, WellSplit
<1>8. g.next = nx2 /\ g.prev = pv2 /\ g.used = us \union {b} /\ g.lfree = h.lfree /\ IsHeap(g)
  BY <1>1, Parts
<1>9. GoodHeap(g)  BY <1>7, <1>8 DEF GoodHeap
<1> QED  BY <1>6, <1>7, <1>8, <1>9

\* The three writes of mem_trim to a heap g, but for the last link.
Trimmed(g, nx, pv, low) == [g EXCEPT !.next = nx, !.prev = pv, !.lfree = low]

LEMMA TrimParts ==
  ASSUME NEW g, IsHeap(g), NEW nx, NEW pv, NEW low
  PROVE  Trimmed(g, nx, pv, low) = HeapOf(nx, pv, g.used, low)
<1> DEFINE e1 == [g EXCEPT !.next = nx]
           e2 == [e1 EXCEPT !.prev = pv]
<1>1. e1 = HeapOf(nx, g.prev, g.used, g.lfree)  BY DEF HeapOf, IsHeap
<1>2. Trimmed(g, nx, pv, low) = [e2 EXCEPT !.lfree = low]  BY DEF Trimmed
<1> HIDE DEF e1
<1>3. e2 = HeapOf(nx, pv, g.used, g.lfree)  BY <1>1 DEF HeapOf
<1> HIDE DEF e2
<1>4. [e2 EXCEPT !.lfree = low] = HeapOf(nx, pv, g.used, low)  BY <1>3 DEF HeapOf
<1> QED  BY <1>2, <1>4

(***************************************************************************)
(* The free block c behind a used block b begins at r instead.             *)
(***************************************************************************)
MovedTo(nx, nx2, us, c, r) == DOMAIN nx2 = (DOMAIN nx \ {c}) \union {r} /\ r \notin us

LEMMA WellMove ==
  ASSUME NEW nx, NEW pv, NEW us, Well(nx, pv, us), NEW b \in us \ {Size},
         NEW c, c = nx[b], c \notin us, NEW r \in Int, r - b >= Hdr + MinSize, r <= c,
         NEW nx2, nx2 = Put(Put(Drop(nx, c), r, nx[c]), b, r),
         NEW pv2, pv2 = IF nx[c] = Size THEN Put(Drop(pv, c), r, b) ELSE Put(Put(Drop(pv, c), r, b), nx[c], r)
  PROVE  Well(nx2, pv2, us) /\ MovedTo(nx, nx2, us, c, r)
<1> DEFINE D  == DOMAIN nx
           nm == Put(Drop(nx, c), b, nx[c])
           pm == Put(Drop(pv, c), nx[c], b)
           dn == Drop(nx, c)
           dp == Drop(pv, c)
<1>1. /\ b \in D \ {Size} /\ c \in D \ {Size} /\ DOMAIN pv = D /\ nx[c] \in D \ {c}
      /\ us \subseteq D /\ Size \in us /\ Chain(nx, pv)
      /\ nx[b] - b >= Hdr + MinSize /\ nx[c] - c >= Hdr + MinSize
  BY DEF Well, Chain
<1>0. \A x \in D : x \in Int /\ 0 <= x /\ x <= Size
  BY HeadsAreInt DEF Well
<1>2. b # c /\ c # nx[c] /\ b # nx[c] /\ b < r /\ r # b /\ r # nx[c] /\ nx[c] - r >= Hdr + MinSize
  BY <1>0, <1>1
<1>3. /\ DOMAIN nm = D \ {c} /\ nm[b] = nx[c]
      /\ \A x \in D : x # b /\ x # c => nm[x] = nx[x]
  <2>1. Dropped(nm, nx, c, b, nx[c])  BY <1>2, PutDrop
  <2> QED  BY <1>1, <1>2, <2>1 DEF Dropped
<1>4. /\ DOMAIN pm = D \ {c} /\ pm[nx[c]] = b
      /\ \A x \in D : x # c /\ x # nx[c] => pm[x] = pv[x]
  <2>1. Dropped(pm, pv, c, nx[c], b)  BY <1>2, PutDrop
  <2> QED  BY <1>1, <1>2, <2>1 DEF Dropped
<1>5. DOMAIN dn = D \ {c} /\ DOMAIN dp = D \ {c}
  BY <1>1, DropDomain
<1>6. \A x \in D : x # c => dn[x] = nx[x]  BY DropElse
<1>7. \A x \in D : x # c => dp[x] = pv[x]  BY <1>1, DropElse
<1>8. nx2 = Put(Put(dn, r, nx[c]), b, r)  OBVIOUS
<1>9. pv2 = IF nx[c] = Size THEN Put(dp, r, b) ELSE Put(Put(dp, r, b), nx[c], r)  OBVIOUS
<1> HIDE DEF nm, pm, dn, dp
<1>10. Chain(nm, pm)
  BY <1>1, <1>3, <1>4, ChainMerge
<1>11. /\ DOMAIN nx2 = DOMAIN nm \union {r} /\ nx2[b] = r /\ nx2[r] = nm[b]
       /\ \A x \in DOMAIN nm : x # b /\ x # r => nx2[x] = nm[x]
  <2>1. TwoPut(Put(Put(dn, r, nx[c]), b, r), dn, r, nx[c], b, r)  BY <1>2, PutTwice
  <2> QED  BY <1>1, <1>2, <1>3, <1>5, <1>6, <1>8, <2>1 DEF TwoPut
<1>12. r \notin DOMAIN nm
  <2>1. \A x \in D : x <= b \/ c <= x  BY <1>1 DEF Chain
  <2>2. \A x \in D : x # c => x <= b \/ c < x  BY <1>0, <1>1, <2>1
  <2>3. b \in Int /\ c \in Int  BY <1>0, <1>1
  <2>4. ASSUME r \in D, r # c PROVE FALSE  BY <1>2, <2>2, <2>3, <2>4
  <2> QED  BY <1>3, <2>4
<1>13. /\ DOMAIN pv2 = DOMAIN nm \union {r} /\ pv2[r] = b
       /\ nm[b] # Size => pv2[nm[b]] = r
       /\ \A x \in DOMAIN nm : x # nm[b] /\ x # Size => pv2[x] = pm[x]
  <2>1. CASE nx[c] = Size
    <3>1. pv2 = Put(dp, r, b)  BY <1>9, <2>1
    <3>2. DOMAIN Put(dp, r, b) = DOMAIN dp \union {r}  BY PutDomain
    <3>3. Put(dp, r, b)[r] = b  BY PutAt
    <3>4. \A x \in DOMAIN dp : x # r => Put(dp, r, b)[x] = dp[x]  BY PutElse
    <3> QED  BY <1>1, <1>2, <1>3, <1>4, <1>5, <1>7, <1>12, <2>1, <3>1, <3>2, <3>3, <3>4
  <2>2. CASE nx[c] # Size
    <3>1. pv2 = Put(Put(dp, r, b), nx[c], r)  BY <1>9, <2>2
    <3>2. TwoPut(Put(Put(dp, r, b), nx[c], r), dp, r, b, nx[c], r)  BY <1>2, PutTwice
    <3> QED  BY <1>1, <1>2, <1>3, <1>4, <1>5, <1>7, <1>12, <2>2, <3>1, <3>2 DEF TwoPut
  <2> QED  BY <2>1, <2>2
<1>14. Chain(nx2, pv2)
  <2>1. b \in DOMAIN nm \ {Size} /\ nm[b] - r >= Hdr + MinSize  BY <1>1, <1>2, <1>3
  <2>2. \A x \in DOMAIN nm : x # b => nx2[x] = nm[x]  BY <1>11, <1>12
  <2>3. Inserted(nm, pm, nx2, pv2, b, r)  BY <1>11, <1>13, <2>1, <2>2 DEF Inserted
  <2> QED  BY <1>10, <2>3, ChainInsert
<1>15. r \notin us /\ us \subseteq DOMAIN nx2
  BY <1>1, <1>3, <1>11, <1>12
<1>16. ASSUME NEW x \in DOMAIN nx2 \ us
       PROVE  nx2[x] \in us
  <2>1. CASE x = r  BY <1>1, <1>3, <1>11, <2>1 DEF Well
  <2>2. CASE x # r
    <3>1. x \in DOMAIN nm /\ x \in D \ us /\ x # b /\ x # c /\ nx2[x] = nx[x]
      BY <1>3, <1>11, <2>2
    <3> QED  BY <3>1 DEF Well
  <2> QED  BY <2>1, <2>2
<1> QED  BY <1>1, <1>3, <1>11, <1>14, <1>15, <1>16 DEF Well, MovedTo

(***************************************************************************)
(* mem_trim leaves the chain whole, plugged, and lfree at the lowest block. *)
(***************************************************************************)
LEMMA MemTrimGood ==
  ASSUME NEW h, GoodHeap(h), LowHeap(h), NEW b \in h.used \ {Size},
         NEW n \in Int, n >= MinSize, n <= Room(h, b)
  PROVE  GoodHeap(mem_trim(h, b, n)) /\ LowHeap(mem_trim(h, b, n))
<1> DEFINE c    == h.next[b]
           r    == b + Hdr + n
           from == IF c \in h.used THEN c ELSE h.next[c]
           dn   == Drop(h.next, c)
           dp   == Drop(h.prev, c)
           cut  == IF c \in h.used THEN h ELSE [h EXCEPT !.next = dn, !.prev = dp]
           low  == IF h.lfree = c \/ r < h.lfree THEN r ELSE h.lfree
           nx2  == Put(Put(cut.next, r, from), b, r)
           pv1  == Put(cut.prev, r, b)
           pv2  == IF from = Size THEN pv1 ELSE Put(pv1, from, r)
           e    == Trimmed(cut, nx2, pv1, low)
           g    == BackLink(e, from, r)
           D    == DOMAIN h.next
<1>1. mem_trim(h, b, n) = IF n = Room(h, b) \/ (c \in h.used /\ ~Splits(h, b, n)) THEN h ELSE g
  BY Zenon DEF mem_trim, Trimmed
<1>2. /\ b \in D \ {Size} /\ c \in D /\ h.used \subseteq D /\ Size \in h.used /\ IsHeap(h)
      /\ Well(h.next, h.prev, h.used)
      /\ \A x \in D : x \in Int
      /\ h.lfree \in D /\ (h.lfree \in h.used => h.lfree = Size) /\ \A x \in D \ h.used : h.lfree <= x
  BY HeadsAreInt DEF GoodHeap, LowHeap, Well, Chain, Low
<1>3. b \in Int /\ c \in Int /\ r \in Int /\ r - b >= Hdr + MinSize /\ r <= c /\ h.lfree \in Int
  <2>1. b \in Int /\ c \in Int /\ h.lfree \in Int  BY <1>2
  <2>2. n <= c - (b + Hdr)  BY DEF Room
  <2> QED  BY <2>1, <2>2
<1>4. ASSUME IsHeap(cut), cut.used = h.used
      PROVE  g = HeapOf(nx2, pv2, h.used, low)
  <2> HIDE DEF cut, nx2, pv1, low, from, r
  <2>0. e = HeapOf(nx2, pv1, cut.used, low)  BY <1>4, TrimParts
  <2>1. e = HeapOf(nx2, pv1, h.used, low)  BY <1>4, <2>0
  <2> HIDE DEF e
  <2>2. e.next = nx2 /\ e.prev = pv1 /\ e.used = h.used /\ e.lfree = low /\ IsHeap(e)
    BY <2>1, Parts
  <2>3. BackLink(e, from, r) = HeapOf(e.next, IF from = Size THEN e.prev ELSE Put(e.prev, from, r), e.used, e.lfree)
    BY <2>2, BackLinkParts
  <2> QED  BY <2>2, <2>3
<1>5. CASE n = Room(h, b) \/ (c \in h.used /\ ~Splits(h, b, n))
  BY <1>1, <1>5
<1>6. ASSUME DOMAIN nx2 \subseteq D \union {r}, r \in DOMAIN nx2, r \notin h.used,
             h.lfree \in DOMAIN nx2 \/ h.lfree = c
      PROVE  Low(nx2, h.used, low)
  <2>1. CASE h.lfree = c \/ r < h.lfree
    <3>1. low = r  BY <2>1
    <3>2. r <= h.lfree  BY <1>3, <2>1
    <3> HIDE DEF low, nx2, r
    <3>3. \A x \in DOMAIN nx2 \ h.used : r <= x  BY <1>2, <1>3, <1>6, <3>2
    <3> QED  BY <1>6, <3>1, <3>3 DEF Low
  <2>2. CASE ~(h.lfree = c \/ r < h.lfree)
    <3>1. low = h.lfree  BY <2>2
    <3>2. h.lfree <= r  BY <1>3, <2>2
    <3> HIDE DEF low, nx2, r
    <3>3. \A x \in DOMAIN nx2 \ h.used : h.lfree <= x  BY <1>2, <1>3, <1>6, <3>2
    <3> QED  BY <1>2, <1>6, <2>2, <3>1, <3>3 DEF Low
  <2> QED  BY <2>1, <2>2
<1>7. CASE c \in h.used /\ Splits(h, b, n) /\ n # Room(h, b)
  <2>1. cut = h /\ from = c  BY <1>7
  <2>2. g = HeapOf(nx2, pv2, h.used, low)  BY <1>2, <1>4, <2>1
  <2>3. c - r >= Hdr + MinSize  BY <1>2, <1>7, SplitRoom DEF Heads
  <2>4. Well(nx2, pv2, h.used) /\ r \notin D /\ DOMAIN nx2 = D \union {r}
    <3> DEFINE nx == h.next  pv == h.prev  us == h.used
    <3>1. /\ Well(nx, pv, us) /\ b \in DOMAIN nx \ {Size} /\ nx[b] \in us
          /\ nx2 = Put(Put(nx, r, nx[b]), b, r)
          /\ pv2 = IF nx[b] = Size THEN Put(pv, r, b) ELSE Put(Put(pv, r, b), nx[b], r)
          /\ nx[b] - r >= Hdr + MinSize /\ DOMAIN nx = D /\ h.used = us
      BY <1>2, <1>7, <2>1, <2>3
    <3> HIDE DEF nx, pv, us, nx2, pv2, r, D
    <3>2. Well(nx2, pv2, us \union {b}) /\ SplitAt(nx, pv, nx2, pv2, b, r)
      BY <1>3, <3>1, WellSplit
    <3>3. us \union {b} = us  BY <3>1
    <3> QED  BY <3>1, <3>2, <3>3 DEF SplitAt
  <2>5. Low(nx2, h.used, low)  BY <1>2, <1>6, <2>4
  <2> HIDE DEF g, nx2, pv2, low
  <2>6. g.next = nx2 /\ g.prev = pv2 /\ g.used = h.used /\ g.lfree = low /\ IsHeap(g)
    BY <2>2, Parts
  <2>7. GoodHeap(g) /\ LowHeap(g)  BY <2>4, <2>5, <2>6 DEF GoodHeap, LowHeap
  <2> QED  BY <1>1, <1>7, <2>7
<1>8. CASE c \notin h.used /\ n # Room(h, b)
  <2>1. cut = HeapOf(dn, dp, h.used, h.lfree)
    <3> DEFINE d == [h EXCEPT !.next = dn]
    <3>1. d = HeapOf(dn, h.prev, h.used, h.lfree)  BY <1>2 DEF HeapOf, IsHeap
    <3>2. cut = [d EXCEPT !.prev = dp]  BY <1>8
    <3> HIDE DEF d, cut
    <3>3. [d EXCEPT !.prev = dp] = HeapOf(dn, dp, h.used, h.lfree)  BY <3>1 DEF HeapOf
    <3> QED  BY <3>2, <3>3
  <2>2. cut.next = dn /\ cut.prev = dp /\ cut.used = h.used /\ IsHeap(cut)
    <3> HIDE DEF cut
    <3> QED  BY <2>1, Parts
  <2>3. from = h.next[c]  BY <1>8
  <2>4. g = HeapOf(nx2, pv2, h.used, low)  BY <1>4, <2>2
  <2>5. Well(nx2, pv2, h.used) /\ DOMAIN nx2 = (D \ {c}) \union {r} /\ r \notin h.used
    <3> DEFINE nx == h.next  pv == h.prev  us == h.used
    <3>1. /\ Well(nx, pv, us) /\ b \in us \ {Size} /\ c = nx[b] /\ c \notin us
          /\ nx2 = Put(Put(Drop(nx, c), r, nx[c]), b, r)
          /\ pv2 = IF nx[c] = Size THEN Put(Drop(pv, c), r, b) ELSE Put(Put(Drop(pv, c), r, b), nx[c], r)
          /\ DOMAIN nx = D /\ h.used = us
      BY <1>2, <1>8, <2>2, <2>3
    <3> HIDE DEF nx, pv, us, nx2, pv2, r, D, c
    <3>2. Well(nx2, pv2, us) /\ MovedTo(nx, nx2, us, c, r)
      BY <1>3, <3>1, WellMove
    <3> QED  BY <3>1, <3>2 DEF MovedTo
  <2>6. Low(nx2, h.used, low)  BY <1>2, <1>6, <2>5
  <2> HIDE DEF g, nx2, pv2, low
  <2>7. g.next = nx2 /\ g.prev = pv2 /\ g.used = h.used /\ g.lfree = low /\ IsHeap(g)
    BY <2>4, Parts
  <2>8. GoodHeap(g) /\ LowHeap(g)  BY <2>5, <2>6, <2>7 DEF GoodHeap, LowHeap
  <2> QED  BY <1>1, <1>8, <2>8
<1> QED  BY <1>5, <1>7, <1>8

-----------------------------------------------------------------------------
(* The gratuitous ARP of the interrupt.                                    *)

LEMMA LowestIs ==
  ASSUME NEW S, S \subseteq Nat, S # {}
  PROVE  Lowest(S) \in S /\ \A c \in S : Lowest(S) <= c
<1>1. PICK b \in S : \A c \in S : ~ (<<c, b>> \in OpToRel(<, Nat))
  BY NatLessThanWellFounded, WFMin
<1>2. \A c \in S : b <= c
  <2>1. ASSUME NEW c \in S PROVE b <= c
    <3>1. c \in Nat /\ b \in Nat  OBVIOUS
    <3>2. ~(c < b)  BY <1>1, <3>1 DEF OpToRel
    <3> QED  BY <3>1, <3>2
  <2> QED  BY <2>1
<1> QED  BY <1>2, Zenon DEF Lowest

\* The same blocks, used or free as before.
SameBlocks(h, g) ==
  /\ DOMAIN g.next = DOMAIN h.next /\ \A c \in DOMAIN h.next : g.next[c] = h.next[c]
  /\ g.used = h.used /\ g.lfree = h.lfree

(***************************************************************************)
(* A free block allocated and freed again, without an allocation between,  *)
(* leaves the blocks as they were, split or not.                           *)
(***************************************************************************)
LEMMA ArpGood ==
  ASSUME NEW h, GoodHeap(h), h.lfree \in Heads(h), NEW n \in Int, n >= MinSize,
         NEW b \in Heads(h) \ {Size}, b \notin h.used, h.lfree <= b,
         NEW g, g = mem_free(Allocate(h, b, n), b)
  PROVE  GoodHeap(g) /\ SameBlocks(h, g)
<1> DEFINE D  == DOMAIN h.next
           k  == IF Splits(h, b, n) THEN Linked(h, b, n) ELSE Use(h, b)
           S  == {c \in Heads(k) : c >= b /\ (c \notin k.used \/ c = Size)}
           L  == Lowest(S)
           a  == Allocate(h, b, n)
           u  == Unuse(a, b)
           r  == b + Hdr + n
           f  == PlugForward(u, b)
<1>1. /\ b \in D \ {Size} /\ h.used \subseteq D /\ Size \in h.used /\ IsHeap(h) /\ h.lfree \in D
      /\ Chain(h.next, h.prev) /\ h.next[b] \in h.used /\ DOMAIN h.prev = D
      /\ \A x \in D : x \in Int
  BY HeadsAreInt DEF GoodHeap, Well, Heads, Chain
<1>2. b \in Int /\ h.next[b] \in Int /\ h.lfree \in Int
  BY <1>1
<1>3. h.prev[b] = b \/ h.prev[b] \in h.used
  <2>1. CASE b = 0  BY <1>1, <2>1 DEF Chain
  <2>2. CASE b # 0
    <3>1. h.prev[b] \in D /\ h.next[h.prev[b]] = b  BY <1>1, <2>2 DEF Chain
    <3>2. ASSUME h.prev[b] \notin h.used PROVE FALSE  BY <3>1, <3>2 DEF GoodHeap, Well
    <3> QED  BY <3>2
  <2> QED  BY <2>1, <2>2
<1>4. GoodHeap(k) /\ k.used = h.used \union {b} /\ k.lfree = h.lfree
  <2>1. CASE Splits(h, b, n)
    <3>1. k = Linked(h, b, n)  BY <2>1
    <3> HIDE DEF k
    <3> QED  BY <1>1, <2>1, <3>1, LinkedGood
  <2>2. CASE ~Splits(h, b, n)
    <3>1. k = Use(h, b)  BY <2>2
    <3> HIDE DEF k
    <3> QED  BY <3>1, UseGood
  <2> QED  BY <2>1, <2>2
<1>5. a = IF b # h.lfree THEN k ELSE [k EXCEPT !.lfree = L]
  BY Zenon DEF Allocate, Linked
<1>6. L \in Int /\ b <= L
  <2>1. S \subseteq Nat
    <3>1. \A x \in DOMAIN k.next : x \in Int /\ 0 <= x  BY <1>4, HeadsAreInt DEF GoodHeap, Well
    <3> HIDE DEF k
    <3> QED  BY <3>1 DEF Heads
  <2>2. Size \in S
    <3>1. Size \in DOMAIN k.next /\ Size >= b
      <4>1. b <= Size  BY <1>1, HeadsAreInt
      <4> HIDE DEF k
      <4>2. Size \in DOMAIN k.next  BY <1>4 DEF GoodHeap, Well, Chain
      <4> QED  BY <1>2, <4>1, <4>2
    <3> QED  BY <3>1 DEF Heads
  <2>3. S # {}  BY <2>2
  <2>4. L \in S
    <3> HIDE DEF S
    <3> QED  BY <2>1, <2>3, LowestIs
  <2>5. L >= b /\ L \in Nat  BY <2>1, <2>4
  <2> HIDE DEF L
  <2> QED  BY <1>2, <2>5
<1>7. u = HeapOf(k.next, k.prev, h.used, h.lfree)
  <2> HIDE DEF k, L, a
  <2>0. IsHeap(k)  BY <1>4 DEF GoodHeap
  <2>1. CASE b # h.lfree
    <3>1. a = k  BY <1>5, <2>1
    <3>2. u = HeapOf(k.next, k.prev, k.used \ {b}, IF b < k.lfree THEN b ELSE k.lfree)
      BY <2>0, <3>1, UnuseParts
    <3>3. k.used \ {b} = h.used /\ ~(b < k.lfree)  BY <1>1, <1>2, <1>4
    <3> QED  BY <1>4, <3>2, <3>3
  <2>2. CASE b = h.lfree
    <3>1. a = HeapOf(k.next, k.prev, k.used, L)  BY <1>5, <2>0, <2>2 DEF HeapOf, IsHeap
    <3>2. a.next = k.next /\ a.prev = k.prev /\ a.used = k.used /\ a.lfree = L /\ IsHeap(a)
      BY <3>1, Parts
    <3>3. u = HeapOf(a.next, a.prev, a.used \ {b}, IF b < a.lfree THEN b ELSE a.lfree)
      BY <3>2, UnuseParts
    <3>4. k.used \ {b} = h.used  BY <1>1, <1>4
    <3>5. (IF b < L THEN b ELSE L) = h.lfree  BY <1>2, <1>6, <2>2
    <3> QED  BY <3>2, <3>3, <3>4, <3>5
  <2> QED  BY <2>1, <2>2
<1>8. g = PlugBackward(f, b)
  BY DEF mem_free, plug_holes
<1>9. CASE ~Splits(h, b, n)
  <2>1. k = Use(h, b)  BY <1>9
  <2> HIDE DEF k, u
  <2>2. k.next = h.next /\ k.prev = h.prev
    <3>1. k = HeapOf(h.next, h.prev, h.used \union {b}, h.lfree)  BY <1>1, <2>1, UseParts
    <3> QED  BY <3>1, Parts
  <2>3. u = h  BY <1>1, <1>7, <2>2 DEF IsHeap
  <2>4. f = h  BY <1>1, <2>3 DEF PlugForward
  <2> HIDE DEF f
  <2>5. g = h  BY <1>3, <1>8, <2>4 DEF PlugBackward
  <2> QED  BY <2>5 DEF SameBlocks
<1>10. CASE Splits(h, b, n)
  <2>1. k = Linked(h, b, n)  BY <1>10
  <2> HIDE DEF k, u, r
  <2>2. SplitAt(h.next, h.prev, k.next, k.prev, b, r)
    <3>1. r = b + Hdr + n  BY DEF r
    <3> QED  BY <1>1, <1>10, <2>1, <3>1, LinkedGood
  <2>3. r \notin D /\ b < r /\ r < h.next[b] /\ r # h.next[b] /\ r # b
    BY <1>1, <1>2, <2>2 DEF SplitAt
  <2>4. u.next = k.next /\ u.prev = k.prev /\ u.used = h.used /\ u.lfree = h.lfree
    BY <1>7, Parts
  <2> DEFINE nx3 == Put(Drop(k.next, r), b, k.next[r])
             pv3 == Put(Drop(k.prev, r), k.next[r], b)
  <2>5. f = HeapOf(nx3, pv3, h.used, h.lfree)
    <3>1. u.next[b] = r /\ r \notin u.used  BY <1>1, <2>2, <2>3, <2>4 DEF SplitAt
    <3>2. f = Merge(u, b, r)  BY <3>1 DEF PlugForward
    <3> HIDE DEF f
    <3>3. f = HeapOf(Put(Drop(u.next, r), b, u.next[r]), Put(Drop(u.prev, r), u.next[r], b),
                     u.used, IF u.lfree = r THEN b ELSE u.lfree)
      BY <3>2, MergeParts
    <3>4. (IF u.lfree = r THEN b ELSE u.lfree) = h.lfree  BY <1>1, <2>3, <2>4
    <3> QED  BY <2>4, <3>3, <3>4
  <2>6. DOMAIN nx3 = D /\ \A c \in D : nx3[c] = h.next[c]
    <3>1. Dropped(nx3, k.next, r, b, k.next[r])  BY <2>3, PutDrop
    <3> HIDE DEF nx3
    <3> QED  BY <1>1, <2>2, <2>3, <3>1 DEF Dropped, SplitAt
  <2>7. DOMAIN pv3 = D /\ \A c \in D : c # Size => pv3[c] = h.prev[c]
    <3>1. k.next[r] = h.next[b]  BY <2>2 DEF SplitAt
    <3>2. Dropped(pv3, k.prev, r, k.next[r], b)  BY <2>3, <3>1, PutDrop
    <3>3. h.next[b] \in D /\ (h.next[b] # Size => h.prev[h.next[b]] = b)  BY <1>1 DEF Chain
    <3> HIDE DEF pv3
    <3> QED  BY <1>1, <2>2, <2>3, <3>1, <3>2, <3>3 DEF Dropped, SplitAt
  <2> HIDE DEF nx3, pv3, f
  <2>8. f.next = nx3 /\ f.prev = pv3 /\ f.used = h.used /\ f.lfree = h.lfree /\ IsHeap(f)
    BY <2>5, Parts
  <2>9. f.prev[b] = h.prev[b]  BY <1>1, <2>7, <2>8
  <2>10. g = f  BY <1>3, <1>8, <2>8, <2>9 DEF PlugBackward
  <2>11. Chain(nx3, pv3)  BY <1>1, <2>6, <2>7, ChainSame
  <2>12. Well(nx3, pv3, h.used)  BY <1>1, <2>6, <2>11 DEF Well, GoodHeap
  <2>13. GoodHeap(f) /\ SameBlocks(h, f)  BY <2>6, <2>8, <2>12 DEF GoodHeap, SameBlocks
  <2> QED  BY <2>10, <2>13
<1> QED  BY <1>9, <1>10

-----------------------------------------------------------------------------
(* The inductive invariant.                                                *)

\* Block p has been taken; lfree is still where it was.
Taken(g, p) ==
  /\ GoodHeap(g) /\ p \in g.used /\ p # Size
  /\ g.lfree \in DOMAIN g.next /\ (g.lfree \in g.used => g.lfree = p \/ g.lfree = Size)
  /\ \A x \in DOMAIN g.next \ g.used : g.lfree <= x

\* The heap as it will be when the split is linked.
Joined == BackLink(Use(heap, ptr), after, ptr + Hdr + size)

(***************************************************************************)
(* What WellFormed leaves open: in the middle of a split it is the heap    *)
(* with the missing writes that is well formed, the scan stands on a       *)
(* header, and the search for the next free block has passed none.         *)
(***************************************************************************)
HeapInv ==
  /\ pc \in {"idle", "scan", "link", "sweep"}
  /\ pc # "idle" => size \in Sizes
  /\ pc # "link" => GoodHeap(heap)
  /\ pc = "idle" \/ pc = "scan" => LowHeap(heap)
  /\ pc = "scan" => ptr \in DOMAIN heap.next
  /\ pc = "link" => Taken(Joined, ptr) /\ Joined.lfree = heap.lfree
  /\ pc = "sweep" => /\ heap.lfree \in DOMAIN heap.next /\ cur \in DOMAIN heap.next
                     /\ \A x \in DOMAIN heap.next \ heap.used : cur <= x

LEMMA SizesAre == \A n \in Sizes : n \in Int /\ n >= MinSize
BY HeapAssumption

LEMMA InitHolds == Init => HeapInv
<1> SUFFICES ASSUME Init PROVE HeapInv
  OBVIOUS
<1> DEFINE nx == [b \in {0, Size} |-> Size]
           pv == [b \in {0, Size} |-> b]
<1>1. heap = HeapOf(nx, pv, {Size}, 0)  BY DEF Init, HeapOf
<1>2. Chain(nx, pv)
  <2>1. DOMAIN nx = {0, Size} /\ DOMAIN pv = {0, Size} /\ 0 # Size  OBVIOUS
  <2>2. nx[0] = Size /\ nx[Size] = Size /\ pv[0] = 0  OBVIOUS
  <2>3. Size - 0 >= Hdr + MinSize  OBVIOUS
  <2> HIDE DEF nx, pv
  <2>4. DOMAIN nx \subseteq 0 .. Size /\ DOMAIN nx \ {Size} = {0} /\ DOMAIN nx \ {0, Size} = {}
    BY <2>1
  <2>5. \A c \in DOMAIN nx : c <= 0 \/ nx[0] <= c  BY <2>1, <2>2
  <2> QED  BY <2>1, <2>2, <2>3, <2>4, <2>5 DEF Chain
<1>3. Well(nx, pv, {Size}) /\ Low(nx, {Size}, 0)  BY <1>2 DEF Well, Low
<1> HIDE DEF nx, pv
<1>4. heap.next = nx /\ heap.prev = pv /\ heap.used = {Size} /\ heap.lfree = 0 /\ IsHeap(heap)
  BY <1>1, Parts
<1>5. GoodHeap(heap) /\ LowHeap(heap)  BY <1>3, <1>4 DEF GoodHeap, LowHeap
<1> QED  BY <1>5 DEF Init, HeapInv

\* A block has been taken: the search begins, or the call returns.
LEMMA FinishKeeps ==
  ASSUME Taken(heap', ptr), heap'.lfree = heap.lfree, Finish, size \in Sizes
  PROVE  HeapInv'
<1>1. \A x \in DOMAIN heap'.next : x \in Int  BY HeadsAreInt DEF Taken, GoodHeap, Well
<1>2. CASE ptr = heap.lfree
  <2>1. pc' = "sweep" /\ cur' = ptr /\ size' = size  BY <1>2 DEF Finish
  <2> QED  BY <1>2, <2>1 DEF HeapInv, Taken
<1>3. CASE ptr # heap.lfree
  <2>1. pc' = "idle"  BY <1>3 DEF Finish, Return
  <2>2. LowHeap(heap')  BY <1>3 DEF Taken, LowHeap, Low
  <2>3. GoodHeap(heap')  BY DEF Taken
  <2> QED  BY <2>1, <2>2, <2>3 DEF HeapInv
<1> QED  BY <1>2, <1>3

LEMMA TakeAllKeeps == ASSUME HeapInv, TakeAll PROVE HeapInv'
<1>1. /\ GoodHeap(heap) /\ LowHeap(heap) /\ ptr \in Heads(heap) /\ size \in Sizes
      /\ heap' = Use(heap, ptr) /\ Finish /\ ptr < Size - size
  BY DEF HeapInv, TakeAll, Heads
<1>2. ptr # Size
  <2>1. size \in Int /\ size >= MinSize  BY <1>1, SizesAre
  <2> QED  BY <1>1, <2>1
<1>3. /\ GoodHeap(heap') /\ heap'.next = heap.next /\ heap'.used = heap.used \union {ptr}
      /\ heap'.lfree = heap.lfree
  BY <1>1, UseGood
<1>4. Taken(heap', ptr)
  BY <1>1, <1>2, <1>3 DEF Taken, LowHeap, Low
<1> QED  BY <1>1, <1>3, <1>4, FinishKeeps

LEMMA SplitOffKeeps == ASSUME HeapInv, SplitOff PROVE HeapInv'
<1> DEFINE g == Linked(heap, ptr, size)
           r == ptr + Hdr + size
<1>1. /\ GoodHeap(heap) /\ LowHeap(heap) /\ ptr \in Heads(heap) /\ size \in Sizes
      /\ heap' = Split(heap, ptr, size) /\ ptr < Size - size /\ Splits(heap, ptr, size)
      /\ ptr \notin heap.used /\ after' = heap.next[ptr] /\ pc' = "link"
      /\ size' = size /\ ptr' = ptr
  BY DEF HeapInv, SplitOff, Heads, Fits
<1>2. size \in Int /\ size >= MinSize  BY <1>1, SizesAre
<1>3. ptr \in Heads(heap) \ {Size} /\ heap.next[ptr] \in heap.used
  BY <1>1, <1>2 DEF GoodHeap, Well, Heads
<1>4. Joined' = g  BY <1>1 DEF Joined, Linked
<1>5. GoodHeap(g) /\ g.used = heap.used \union {ptr} /\ g.lfree = heap.lfree
      /\ SplitAt(heap.next, heap.prev, g.next, g.prev, ptr, r)
  BY <1>1, <1>2, <1>3, LinkedGood
<1>6. heap'.lfree = heap.lfree
  <2>1. heap' = HeapOf(Put(Put(heap.next, r, heap.next[ptr]), ptr, r), Put(heap.prev, r, ptr), heap.used, heap.lfree)
    BY <1>1, SplitParts DEF GoodHeap
  <2> QED  BY <2>1, Parts
<1>7. Taken(g, ptr)
  <2>1. \A x \in Heads(heap) : x \in Int  BY <1>1, HeadsAreInt DEF GoodHeap, Well, Heads
  <2>2. heap.lfree \in Heads(heap) /\ heap.lfree <= ptr /\ (heap.lfree \in heap.used => heap.lfree = Size)
        /\ \A x \in Heads(heap) \ heap.used : heap.lfree <= x
    BY <1>1 DEF LowHeap, Low, Heads
  <2>3. ptr < r /\ r \in Int /\ ptr \in Int /\ DOMAIN g.next = Heads(heap) \union {r}
    BY <1>1, <1>2, <1>5, <2>1 DEF SplitAt, Heads
  <2> HIDE DEF g, r
  <2>4. ASSUME NEW x \in DOMAIN g.next \ g.used PROVE g.lfree <= x
    <3>1. CASE x = r  BY <1>5, <2>1, <2>2, <2>3, <3>1
    <3>2. CASE x # r  BY <1>5, <2>2, <2>3, <3>2
    <3> QED  BY <3>1, <3>2
  <2>5. g.lfree \in DOMAIN g.next /\ (g.lfree \in g.used => g.lfree = ptr \/ g.lfree = Size)
    BY <1>5, <2>2, <2>3
  <2> QED  BY <1>3, <1>5, <2>4, <2>5 DEF Taken
<1> HIDE DEF g
<1> QED  BY <1>1, <1>4, <1>5, <1>6, <1>7 DEF HeapInv

LEMMA LinkKeeps == ASSUME HeapInv, Link PROVE HeapInv'
<1>1. /\ Taken(Joined, ptr) /\ Joined.lfree = heap.lfree /\ size \in Sizes
      /\ heap' = Joined /\ Finish
  BY DEF HeapInv, Link, Joined
<1>2. Taken(heap', ptr) /\ heap'.lfree = heap.lfree  BY <1>1
<1> QED  BY <1>1, <1>2, FinishKeeps

LEMMA SweepKeeps == ASSUME HeapInv, Sweep PROVE HeapInv'
<1>1. /\ GoodHeap(heap) /\ cur \in DOMAIN heap.next /\ pc = "sweep" /\ size \in Sizes
      /\ heap.lfree \in DOMAIN heap.next
      /\ \A x \in DOMAIN heap.next \ heap.used : cur <= x
  BY DEF HeapInv, Sweep
<1>2. CASE cur \in heap.used /\ cur # Size
  <2>1. cur' = heap.next[cur] /\ UNCHANGED <<heap, pc, size, ptr, after, got>>
    BY <1>2 DEF Sweep
  <2>2. heap.next[cur] \in DOMAIN heap.next
        /\ \A x \in DOMAIN heap.next : x <= cur \/ heap.next[cur] <= x
    BY <1>1, <1>2 DEF GoodHeap, Well, Chain
  <2>3. \A x \in DOMAIN heap.next : x \in Int  BY <1>1, HeadsAreInt DEF GoodHeap, Well
  <2>4. \A x \in DOMAIN heap.next \ heap.used : heap.next[cur] <= x
    <3>1. ASSUME NEW x \in DOMAIN heap.next \ heap.used PROVE heap.next[cur] <= x
      <4>1. x \in Int /\ cur \in Int /\ x # cur /\ cur <= x  BY <1>1, <1>2, <2>3
      <4>2. x <= cur \/ heap.next[cur] <= x  BY <2>2
      <4> QED  BY <4>1, <4>2
    <3> QED  BY <3>1
  <2> QED  BY <1>1, <2>1, <2>2, <2>4 DEF HeapInv
<1>3. CASE ~(cur \in heap.used /\ cur # Size)
  <2>1. heap' = [heap EXCEPT !.lfree = cur] /\ pc' = "idle"
    BY <1>3 DEF Sweep, Return
  <2>2. heap' = HeapOf(heap.next, heap.prev, heap.used, cur)
    BY <1>1, <2>1 DEF GoodHeap, HeapOf, IsHeap
  <2>3. heap'.next = heap.next /\ heap'.prev = heap.prev /\ heap'.used = heap.used /\ heap'.lfree = cur
        /\ IsHeap(heap')
    BY <2>2, Parts
  <2>4. GoodHeap(heap')  BY <1>1, <2>3 DEF GoodHeap
  <2>5. LowHeap(heap')  BY <1>1, <1>3, <2>3 DEF LowHeap, Low
  <2> QED  BY <2>1, <2>4, <2>5 DEF HeapInv
<1> QED  BY <1>2, <1>3

LEMMA LookFurtherKeeps == ASSUME HeapInv, LookFurther PROVE HeapInv'
<1>1. /\ GoodHeap(heap) /\ LowHeap(heap) /\ ptr \in DOMAIN heap.next /\ size \in Sizes /\ pc = "scan"
      /\ ptr < Size - size /\ ptr' = heap.next[ptr] /\ heap' = heap /\ pc' = pc /\ size' = size
  BY DEF HeapInv, LookFurther
<1>2. ptr # Size
  <2>1. size \in Int /\ size >= MinSize  BY <1>1, SizesAre
  <2> QED  BY <1>1, <2>1
<1>3. heap.next[ptr] \in DOMAIN heap.next  BY <1>1, <1>2 DEF GoodHeap, Well, Chain
<1> QED  BY <1>1, <1>3 DEF HeapInv

LEMMA ArpUnseen ==
  ASSUME "link" \notin UpWindows, HeapInv, NEW n \in Sizes, GratuitousArp(n)
  PROVE  /\ UNCHANGED <<pc, size, ptr, after, cur, got>> /\ pc # "link" /\ GoodHeap(heap)
         /\ GoodHeap(heap') /\ SameBlocks(heap, heap')
<1> DEFINE C == Candidates(heap, n)
           b == Lowest(C)
<1>1. /\ pc \in UpWindows /\ C # {} /\ heap' = mem_free(Allocate(heap, b, n), b)
      /\ UNCHANGED <<pc, size, ptr, after, cur, got>>
  BY DEF GratuitousArp
<1>2. GoodHeap(heap) /\ heap.lfree \in Heads(heap) /\ pc # "link"
  BY <1>1 DEF HeapInv, LowHeap, Low, Heads
<1>3. n \in Int /\ n >= MinSize  BY SizesAre
<1>4. C \subseteq Nat
  <2>1. \A x \in Heads(heap) : x \in Nat
    BY <1>2, HeadsAreInt DEF GoodHeap, Well, Heads
  <2> QED  BY <2>1 DEF Candidates
<1>5. b \in C
  <2> HIDE DEF C
  <2> QED  BY <1>1, <1>4, LowestIs
<1>6. b \in Heads(heap) \ {Size} /\ b \notin heap.used /\ heap.lfree <= b
  <2>1. b \in Heads(heap) /\ heap.lfree <= b /\ b < Size - n /\ b \notin heap.used
    BY <1>5 DEF Candidates, Fits
  <2> QED  BY <1>3, <2>1
<1> HIDE DEF C, b
<1>7. GoodHeap(heap') /\ SameBlocks(heap, heap')
  BY <1>1, <1>2, <1>3, <1>6, ArpGood
<1> QED  BY <1>1, <1>2, <1>7

LEMMA ArpKeeps ==
  ASSUME "link" \notin UpWindows, HeapInv, NEW n \in Sizes, GratuitousArp(n)
  PROVE  HeapInv'
<1>1. /\ UNCHANGED <<pc, size, ptr, after, cur, got>> /\ pc # "link" /\ GoodHeap(heap)
      /\ GoodHeap(heap') /\ SameBlocks(heap, heap')
  BY ArpUnseen
<1>2. LowHeap(heap) => LowHeap(heap')
  BY <1>1 DEF SameBlocks, LowHeap, Low
<1> QED  BY <1>1, <1>2 DEF HeapInv, SameBlocks

\* Between calls the heap cannot tell who frees a block.
LEMMA DropIsFree ==
  ASSUME DownWindows \subseteq {"idle"}, NEW b \in HandedOut, DropQueued(b)
  PROVE  b \in InUse /\ Free(b)
<1>1. b \in InUse  BY DEF HandedOut
<1>2. pc = "idle" /\ heap' = mem_free(heap, b) /\ UNCHANGED <<pc, size, ptr, after, cur, got>>
  BY DEF DropQueued
<1> QED  BY <1>1, <1>2 DEF Free

LEMMA StepHolds ==
  ASSUME "link" \notin UpWindows, DownWindows \subseteq {"idle"}, HeapInv, [Next]_vars
  PROVE  HeapInv'
<1>1. ASSUME GiveUp PROVE HeapInv'
  BY <1>1 DEF GiveUp, Return, HeapInv
<1>2. ASSUME NEW n \in Sizes, Malloc(n) PROVE HeapInv'
  BY <1>2 DEF Malloc, HeapInv, LowHeap, Low
<1>3. ASSUME NEW b \in InUse, Free(b) PROVE HeapInv'
  <2>1. /\ GoodHeap(heap) /\ LowHeap(heap) /\ b \in heap.used \ {Size}
        /\ heap' = mem_free(heap, b) /\ pc' = "idle"
    BY <1>3 DEF Free, HeapInv, InUse
  <2>2. GoodHeap(heap') /\ LowHeap(heap')  BY <2>1, MemFreeGood
  <2> QED  BY <2>1, <2>2 DEF HeapInv
<1>4. ASSUME NEW b \in InUse, NEW n \in Sizes, Trim(b, n) PROVE HeapInv'
  <2>1. /\ GoodHeap(heap) /\ LowHeap(heap) /\ b \in heap.used \ {Size}
        /\ heap' = mem_trim(heap, b, n) /\ pc' = "idle" /\ n <= Room(heap, b)
    BY <1>4 DEF Trim, HeapInv, InUse
  <2>2. GoodHeap(heap') /\ LowHeap(heap')  BY <2>1, MemTrimGood, SizesAre
  <2> QED  BY <2>1, <2>2 DEF HeapInv
<1>5. CASE UNCHANGED vars
  BY <1>5 DEF HeapInv, vars, Joined
<1>6. ASSUME NEW b \in HandedOut, DropQueued(b) PROVE HeapInv'
  BY <1>3, <1>6, DropIsFree
<1> QED
  BY <1>1, <1>2, <1>3, <1>4, <1>5, <1>6, TakeAllKeeps, SplitOffKeeps, LinkKeeps, SweepKeeps,
     LookFurtherKeeps, ArpKeeps DEF Next, Working

LEMMA HeapInvIsWellFormed == HeapInv => WellFormed
<1> SUFFICES ASSUME HeapInv PROVE WellFormed
  OBVIOUS
<1>1. ASSUME pc # "link" PROVE Chained(heap) /\ Plugged(heap)
  <2>1. Well(heap.next, heap.prev, heap.used)  BY <1>1 DEF HeapInv, GoodHeap
  <2>2. \A x \in DOMAIN heap.next : x \in Int  BY <2>1, HeadsAreInt DEF Well
  <2>3. Plugged(heap)  BY <2>1 DEF Plugged, Well, Heads
  <2>4. ASSUME NEW b \in Heads(heap) \ {Size}
        PROVE  /\ Room(heap, b) >= MinSize /\ Consecutive(heap, b)
               /\ heap.next[b] # Size => heap.prev[heap.next[b]] = b
    <3>1. /\ b \in DOMAIN heap.next /\ heap.next[b] \in DOMAIN heap.next
          /\ heap.next[b] - b >= Hdr + MinSize
          /\ \A c \in DOMAIN heap.next : c <= b \/ heap.next[b] <= c
          /\ heap.next[b] # Size => heap.prev[heap.next[b]] = b
      BY <2>1 DEF Well, Chain, Heads
    <3>2. b \in Int /\ heap.next[b] \in Int  BY <2>2, <3>1
    <3>3. Room(heap, b) >= MinSize  BY <3>1, <3>2 DEF Room
    <3>4. \A c \in DOMAIN heap.next : ~(b < c /\ c < heap.next[b])  BY <2>2, <3>1, <3>2
    <3> QED  BY <3>1, <3>3, <3>4 DEF Consecutive, Heads
  <2>5. /\ {0, Size} \subseteq Heads(heap) /\ DOMAIN heap.prev = Heads(heap)
        /\ heap.used \subseteq Heads(heap) /\ Size \in heap.used /\ heap.next[Size] = Size
        /\ heap.prev[0] = 0
    BY <2>1 DEF Well, Chain, Heads
  <2> QED  BY <2>3, <2>4, <2>5 DEF Chained
<1>2. ASSUME pc \in {"idle", "scan"} PROVE LowestFree(heap)
  BY <1>2 DEF HeapInv, LowHeap, Low, LowestFree, Heads
<1>3. pc = "scan" => ptr \in Heads(heap)
  BY DEF HeapInv, Heads
<1> QED  BY <1>1, <1>2, <1>3 DEF WellFormed

(***************************************************************************)
(* In a heap of any size, with blocks of any sizes, with gratuitous ARPs   *)
(* anywhere but in the middle of a split, and with queued packets dropped  *)
(* by a link that goes down between two calls: whenever the chain can be   *)
(* followed it is whole, no two free blocks lie side by side, no free block*)
(* is below lfree, and the scan stands on a block.                         *)
(***************************************************************************)
THEOREM HeapWellFormed ==
  ASSUME "link" \notin UpWindows, DownWindows \subseteq {"idle"}
  PROVE  Spec => []WellFormed
<1>1. Init => HeapInv  BY InitHolds
<1>2. HeapInv /\ [Next]_vars => HeapInv'  BY StepHolds
<1>3. HeapInv => WellFormed  BY HeapInvIsWellFormed
<1> QED  BY <1>1, <1>2, <1>3, PTL DEF Spec

-----------------------------------------------------------------------------
(* LwipHeap implements HeapService.                                        *)

Live == [b \in HandedOut |-> Room(heap, b)]

\* The block a cell lies in.
LEMMA Covering ==
  ASSUME NEW nx, NEW pv, Chain(nx, pv), NEW a \in 0 .. Size - 1
  PROVE  \E c \in DOMAIN nx \ {Size} : c <= a /\ a < nx[c]
<1> DEFINE S == {Size - x : x \in {y \in DOMAIN nx : y <= a}}
<1>1. \A x \in DOMAIN nx : x \in Int /\ 0 <= x /\ x <= Size  BY HeadsAreInt
<1>2. S \subseteq Nat  BY <1>1
<1>3. S # {}
  <2>1. 0 \in DOMAIN nx /\ 0 <= a  BY DEF Chain
  <2>2. Size - 0 \in S  BY <2>1
  <2> QED  BY <2>2
<1>4. PICK m \in S : \A s \in S : m <= s
  <2> HIDE DEF S
  <2> QED  BY <1>2, <1>3, LowestIs
<1>5. PICK c \in DOMAIN nx : c <= a /\ m = Size - c  BY <1>4
<1>6. c # Size /\ c \in Int  BY <1>1, <1>5
<1>7. nx[c] \in DOMAIN nx /\ nx[c] - c >= Hdr + MinSize  BY <1>6 DEF Chain
<1>8. a < nx[c]
  <2>1. nx[c] \in Int /\ a \in Int  BY <1>1, <1>7
  <2>2. ASSUME nx[c] <= a PROVE FALSE
    <3>1. Size - nx[c] \in S  BY <1>7, <2>2
    <3>2. m <= Size - nx[c]  BY <1>4, <3>1
    <3> QED  BY <1>5, <1>6, <1>7, <2>1, <3>2
  <2> QED  BY <2>1, <2>2
<1> QED  BY <1>5, <1>6, <1>8

\* Nothing the service sees.
LEMMA Unseen ==
  ASSUME HandedOut' = HandedOut, \A c \in HandedOut : Room(heap', c) = Room(heap, c), got' = got
  PROVE  UNCHANGED <<Live, got>>
<1>1. Live' = [b \in HandedOut |-> Room(heap', b)]  BY DEF Live
<1>2. [b \in HandedOut |-> Room(heap', b)] = [b \in HandedOut |-> Room(heap, b)]  OBVIOUS
<1> QED  BY <1>1, <1>2 DEF Live

\* Used blocks lie apart.
LEMMA BlocksApart ==
  ASSUME NEW nx, NEW pv, Chain(nx, pv), NEW b \in DOMAIN nx \ {Size}, NEW c \in DOMAIN nx \ {Size}, b # c
  PROVE  (b .. nx[b] - 1) \intersect (c .. nx[c] - 1) = {}
<1>1. \A x \in DOMAIN nx : x \in Int  BY HeadsAreInt
<1>2. /\ nx[b] \in DOMAIN nx /\ nx[c] \in DOMAIN nx
      /\ c <= b \/ nx[b] <= c
      /\ b <= c \/ nx[c] <= b
  BY DEF Chain
<1>3. b \in Int /\ c \in Int /\ nx[b] \in Int /\ nx[c] \in Int  BY <1>1, <1>2
<1> QED  BY <1>2, <1>3

(***************************************************************************)
(* A block p handed out is Alloc of the service.                           *)
(***************************************************************************)
LEMMA AllocImplements ==
  ASSUME NEW n \in Sizes, NEW p, GoodHeap(heap'), p \in heap'.used \ {Size},
         HandedOut \subseteq heap'.used \ {Size}, p \notin HandedOut,
         HandedOut' = HandedOut \union {p},
         \A c \in HandedOut : Room(heap', c) = Room(heap, c),
         Room(heap', p) >= n, got' = p
  PROVE  Service!Alloc(n)
<1> DEFINE nx == heap'.next
           room == Room(heap', p)
<1>1. /\ Chain(nx, heap'.prev) /\ p \in DOMAIN nx \ {Size} /\ HandedOut \subseteq DOMAIN nx \ {Size}
      /\ \A x \in DOMAIN nx : x \in Int /\ 0 <= x /\ x <= Size
  BY HeadsAreInt DEF GoodHeap, Well
<1>2. \A c \in DOMAIN nx \ {Size} : nx[c] \in DOMAIN nx /\ nx[c] - c >= Hdr + MinSize
  BY <1>1 DEF Chain
<1>3. \A c \in DOMAIN nx \ {Size} : Service!Cells(c, Room(heap', c)) = c .. nx[c] - 1
  <2>1. ASSUME NEW c \in DOMAIN nx \ {Size} PROVE Service!Cells(c, Room(heap', c)) = c .. nx[c] - 1
    <3>1. c \in Int /\ nx[c] \in Int  BY <1>1, <1>2
    <3>2. Room(heap', c) = nx[c] - (c + Hdr)  BY DEF Room
    <3>3. c + Hdr + Room(heap', c) - 1 = nx[c] - 1  BY <3>1, <3>2
    <3> QED  BY <3>3 DEF Service!Cells
  <2> QED  BY <2>1
<1>4. p \in 0 .. Size - 1 /\ room \in n .. Size
  <2>1. p \in Int /\ nx[p] \in Int /\ 0 <= p /\ nx[p] <= Size /\ nx[p] - p >= Hdr + MinSize
    BY <1>1, <1>2
  <2>2. room = nx[p] - (p + Hdr)  BY DEF Room
  <2>3. n \in Int /\ room >= n  BY SizesAre
  <2> HIDE DEF nx, room
  <2> QED  BY <2>1, <2>2, <2>3
<1>5. Service!Cells(p, room) \subseteq 0 .. Size - 1
  <2>1. p \in Int /\ nx[p] \in Int /\ 0 <= p /\ nx[p] <= Size
    BY <1>1, <1>2
  <2>2. Service!Cells(p, room) = p .. nx[p] - 1  BY <1>1, <1>3
  <2> QED  BY <2>1, <2>2
<1>6. Service!Cells(p, room) \intersect Service!Taken = {}
  <2>1. ASSUME NEW c \in HandedOut PROVE Service!Cells(p, room) \intersect Service!Cells(c, Live[c]) = {}
    <3>1. Live[c] = Room(heap', c)  BY DEF Live
    <3>2. Service!Cells(c, Live[c]) = c .. nx[c] - 1 /\ Service!Cells(p, room) = p .. nx[p] - 1
      BY <1>1, <1>3, <3>1
    <3>3. (p .. nx[p] - 1) \intersect (c .. nx[c] - 1) = {}
      <4> HIDE DEF nx
      <4> QED  BY <1>1, BlocksApart
    <3> QED  BY <3>2, <3>3
  <2>2. Service!Taken = UNION {Service!Cells(c, Live[c]) : c \in HandedOut}
    BY DEF Service!Taken, Live
  <2> QED  BY <2>1, <2>2
<1>7. Live' = [c \in DOMAIN Live \union {p} |-> IF c = p THEN room ELSE Live[c]]
  <2>1. Live' = [c \in HandedOut \union {p} |-> Room(heap', c)]  BY DEF Live
  <2>2. \A c \in HandedOut : Live[c] = Room(heap', c)  BY DEF Live
  <2>3. DOMAIN Live = HandedOut  BY DEF Live
  <2> QED  BY <2>1, <2>2, <2>3
<1> QED  BY <1>4, <1>5, <1>6, <1>7 DEF Service!Alloc, Live

(***************************************************************************)
(* When no free block has room for n, there is no gap for n.               *)
(***************************************************************************)
LEMMA FailImplements ==
  ASSUME NEW n \in Sizes, GoodHeap(heap), HandedOut = heap.used \ {Size},
         \A x \in DOMAIN heap.next \ heap.used : Room(heap, x) < n,
         UNCHANGED Live, got' = Null
  PROVE  Service!Fail(n)
<1> DEFINE nx == heap.next
<1>0. n \in Int /\ n >= MinSize  BY SizesAre
<1>1. /\ Chain(nx, heap.prev) /\ heap.used \subseteq DOMAIN nx
      /\ \A x \in DOMAIN nx \ heap.used : nx[x] \in heap.used
      /\ \A x \in DOMAIN nx : x \in Int /\ 0 <= x /\ x <= Size
  BY HeadsAreInt DEF GoodHeap, Well
<1>2. \A c \in DOMAIN nx \ {Size} : nx[c] \in DOMAIN nx /\ nx[c] - c >= Hdr + MinSize
  BY <1>1 DEF Chain
<1>3. ASSUME NEW x \in HandedOut, NEW y \in x .. nx[x] - 1 PROVE y \in Service!Taken
  <2>1. x \in DOMAIN nx \ {Size}  BY <1>1
  <2>2. x \in Int /\ nx[x] \in Int  BY <1>1, <1>2, <2>1
  <2>3. Live[x] = nx[x] - (x + Hdr)  BY DEF Live, Room
  <2>4. x + Hdr + Live[x] - 1 = nx[x] - 1  BY <2>2, <2>3
  <2>5. Service!Cells(x, Live[x]) = x .. nx[x] - 1  BY <2>4 DEF Service!Cells
  <2>6. Service!Taken = UNION {Service!Cells(c, Live[c]) : c \in HandedOut}
    BY DEF Service!Taken, Live
  <2> QED  BY <2>5, <2>6
<1>4. ASSUME NEW b \in 0 .. Size - n - Hdr, Service!Cells(b, n) \intersect Service!Taken = {}
      PROVE  FALSE
  <2>1. b \in 0 .. Size - 1 /\ b \in Int /\ b + Hdr + n <= Size  BY <1>0
  <2>2. PICK c \in DOMAIN nx \ {Size} : c <= b /\ b < nx[c]  BY <1>1, <2>1, Covering
  <2>3. c \in Int /\ nx[c] \in Int /\ nx[c] \in DOMAIN nx  BY <1>1, <1>2
  <2>4. Service!Cells(b, n) = b .. b + Hdr + n - 1  BY DEF Service!Cells
  <2>5. b \in Service!Cells(b, n)  BY <1>0, <2>1, <2>4
  <2>6. c \notin heap.used
    <3>1. b \in c .. nx[c] - 1  BY <2>1, <2>2, <2>3
    <3>2. ASSUME c \in heap.used PROVE FALSE  BY <1>3, <1>4, <2>5, <3>1, <3>2
    <3> QED  BY <3>2
  <2>7. Room(heap, c) < n /\ nx[c] \in heap.used  BY <1>1, <2>6
  <2>8. nx[c] < b + Hdr + n
    <3>1. Room(heap, c) = nx[c] - (c + Hdr)  BY DEF Room
    <3> QED  BY <1>0, <2>1, <2>2, <2>3, <2>7, <3>1
  <2>9. nx[c] # Size  BY <1>0, <2>1, <2>3, <2>8
  <2>10. nx[c] \in HandedOut /\ nx[nx[c]] \in Int /\ nx[nx[c]] > nx[c]
    BY <1>1, <1>2, <2>3, <2>7, <2>9
  <2>11. nx[c] \in Service!Taken
    <3>1. nx[c] \in nx[c] .. nx[nx[c]] - 1  BY <2>3, <2>10
    <3> HIDE DEF nx
    <3> QED  BY <1>3, <2>10, <3>1
  <2>12. nx[c] \in Service!Cells(b, n)  BY <1>0, <2>1, <2>2, <2>3, <2>4, <2>8
  <2> QED  BY <1>4, <2>11, <2>12
<1>5. ~\E b \in 0 .. Size - n - Hdr : Service!Cells(b, n) \intersect Service!Taken = {}
  BY <1>4
<1> QED  BY <1>5 DEF Service!Fail, Service!Null, Null, Live

-----------------------------------------------------------------------------
(* What the heap functions leave alone.                                    *)

\* Blocks other than b keep their room.
RoomKept(h, g, b) == \A x \in h.used : x # b => g.next[x] = h.next[x]

LEMMA MergeKeeps ==
  ASSUME NEW h, h.used \subseteq DOMAIN h.next, NEW a, NEW b, a \notin h.used, b \notin h.used
  PROVE  Merge(h, a, b).used = h.used /\ \A x \in h.used : Merge(h, a, b).next[x] = h.next[x]
<1> DEFINE d == Drop(h.next, b)
           m == Merge(h, a, b)
<1>1. m = HeapOf(Put(d, a, h.next[b]), Put(Drop(h.prev, b), h.next[b], a), h.used, IF h.lfree = b THEN a ELSE h.lfree)
  BY MergeParts
<1>2. DOMAIN d = DOMAIN h.next \ {b}  BY DropDomain
<1>3. \A x \in h.used : d[x] = h.next[x]  BY DropElse
<1> HIDE DEF d, m
<1>4. \A x \in DOMAIN d : x # a => Put(d, a, h.next[b])[x] = d[x]  BY PutElse
<1>5. m.next = Put(d, a, h.next[b]) /\ m.used = h.used  BY <1>1, Parts
<1>6. m.used = h.used /\ \A x \in h.used : m.next[x] = h.next[x]
  BY <1>2, <1>3, <1>4, <1>5
<1> QED  BY <1>6 DEF m

LEMMA MemFreeKeeps ==
  ASSUME NEW h, GoodHeap(h), NEW b \in h.used
  PROVE  mem_free(h, b).used = h.used \ {b} /\ RoomKept(h, mem_free(h, b), b)
<1> DEFINE u == Unuse(h, b)
           f == PlugForward(u, b)
           g == PlugBackward(f, b)
<1>0. mem_free(h, b) = g  BY DEF mem_free, plug_holes
<1>1. u.next = h.next /\ u.prev = h.prev /\ u.used = h.used \ {b}
  <2>1. u = HeapOf(h.next, h.prev, h.used \ {b}, IF b < h.lfree THEN b ELSE h.lfree)
    BY UnuseParts DEF GoodHeap
  <2> HIDE DEF u
  <2> QED  BY <2>1, Parts
<1>2. h.used \subseteq DOMAIN h.next  BY DEF GoodHeap, Well
<1> HIDE DEF u
<1>3. f.used = u.used /\ \A x \in u.used : f.next[x] = u.next[x]
  <2>1. CASE u.next[b] \in u.used
    <3>1. f = u  BY <2>1 DEF PlugForward
    <3> QED  BY <3>1
  <2>2. CASE u.next[b] \notin u.used
    <3> DEFINE c == u.next[b]
    <3>1. f = Merge(u, b, c)  BY <2>2 DEF PlugForward
    <3>2. u.used \subseteq DOMAIN u.next /\ b \notin u.used /\ c \notin u.used  BY <1>1, <1>2, <2>2
    <3> HIDE DEF f, c
    <3> QED  BY <3>1, <3>2, MergeKeeps
  <2> QED  BY <2>1, <2>2
<1>4. u.used \subseteq DOMAIN f.next
  <2>1. CASE u.next[b] \in u.used
    <3>1. f = u  BY <2>1 DEF PlugForward
    <3> QED  BY <1>1, <1>2, <3>1
  <2>2. CASE u.next[b] \notin u.used
    <3> DEFINE c == u.next[b]
    <3>1. f = Merge(u, b, c)  BY <2>2 DEF PlugForward
    <3>2. f = HeapOf(Put(Drop(u.next, c), b, u.next[c]), Put(Drop(u.prev, c), u.next[c], b),
                     u.used, IF u.lfree = c THEN b ELSE u.lfree)
      BY <3>1, MergeParts
    <3> HIDE DEF f, c
    <3>3. f.next = Put(Drop(u.next, c), b, u.next[c])  BY <3>2, Parts
    <3>4. DOMAIN Put(Drop(u.next, c), b, u.next[c]) = DOMAIN Drop(u.next, c) \union {b}  BY PutDomain
    <3>5. DOMAIN Drop(u.next, c) = DOMAIN u.next \ {c}  BY DropDomain
    <3>6. c \notin u.used  BY <2>2 DEF c
    <3> QED  BY <1>1, <1>2, <3>3, <3>4, <3>5, <3>6
  <2> QED  BY <2>1, <2>2
<1> HIDE DEF f
<1>5. g.used = f.used /\ \A x \in f.used : g.next[x] = f.next[x]
  <2>1. CASE f.prev[b] = b \/ f.prev[b] \in f.used
    <3>1. g = f  BY <2>1 DEF PlugBackward
    <3> QED  BY <3>1
  <2>2. CASE f.prev[b] # b /\ f.prev[b] \notin f.used
    <3> DEFINE q == f.prev[b]
    <3>1. g = Merge(f, q, b)  BY <2>2 DEF PlugBackward
    <3>2. f.used \subseteq DOMAIN f.next /\ b \notin f.used /\ q \notin f.used  BY <1>1, <1>3, <1>4, <2>2
    <3> HIDE DEF g, q
    <3> QED  BY <3>1, <3>2, MergeKeeps
  <2> QED  BY <2>1, <2>2
<1> HIDE DEF g
<1>6. g.used = h.used \ {b} /\ \A x \in h.used : x # b => g.next[x] = h.next[x]
  BY <1>1, <1>3, <1>5
<1> QED  BY <1>0, <1>6 DEF RoomKept

LEMMA MemTrimKeeps ==
  ASSUME NEW h, GoodHeap(h), LowHeap(h), NEW b \in h.used \ {Size},
         NEW n \in Int, n >= MinSize, n <= Room(h, b)
  PROVE  /\ mem_trim(h, b, n).used = h.used /\ RoomKept(h, mem_trim(h, b, n), b)
         /\ Room(mem_trim(h, b, n), b) \in n .. Room(h, b)
<1> DEFINE c    == h.next[b]
           r    == b + Hdr + n
           from == IF c \in h.used THEN c ELSE h.next[c]
           dn   == Drop(h.next, c)
           dp   == Drop(h.prev, c)
           cut  == IF c \in h.used THEN h ELSE [h EXCEPT !.next = dn, !.prev = dp]
           low  == IF h.lfree = c \/ r < h.lfree THEN r ELSE h.lfree
           nx1  == Put(cut.next, r, from)
           nx2  == Put(nx1, b, r)
           pv1  == Put(cut.prev, r, b)
           pv2  == IF from = Size THEN pv1 ELSE Put(pv1, from, r)
           e    == Trimmed(cut, nx2, pv1, low)
           g    == BackLink(e, from, r)
<1>1. mem_trim(h, b, n) = IF n = Room(h, b) \/ (c \in h.used /\ ~Splits(h, b, n)) THEN h ELSE g
  BY Zenon DEF mem_trim, Trimmed
<1>2. /\ IsHeap(h) /\ b \in DOMAIN h.next \ {Size} /\ h.used \subseteq DOMAIN h.next
      /\ c \in DOMAIN h.next /\ \A x \in DOMAIN h.next : x \in Int
      /\ \A x \in DOMAIN h.next : x <= b \/ c <= x
  BY HeadsAreInt DEF GoodHeap, Well, Chain
<1>3. b \in Int /\ c \in Int /\ r \in Int /\ b < r /\ r <= c /\ Room(h, b) = c - (b + Hdr) /\ Room(h, b) \in Int
  <2>1. b \in Int /\ c \in Int  BY <1>2
  <2>2. Room(h, b) = c - (b + Hdr)  BY DEF Room
  <2> QED  BY <2>1, <2>2
<1>4. CASE n = Room(h, b) \/ (c \in h.used /\ ~Splits(h, b, n))
  <2>1. mem_trim(h, b, n) = h  BY <1>1, <1>4
  <2>2. Room(h, b) \in n .. Room(h, b)  BY <1>3
  <2> QED  BY <2>1, <2>2 DEF RoomKept
<1>5. CASE ~(n = Room(h, b) \/ (c \in h.used /\ ~Splits(h, b, n)))
  <2>1. mem_trim(h, b, n) = g  BY <1>1, <1>5
  <2>2. /\ IsHeap(cut) /\ cut.used = h.used
        /\ \A x \in h.used : x \in DOMAIN cut.next /\ cut.next[x] = h.next[x]
    <3>1. CASE c \in h.used
      <4>1. cut = h  BY <3>1
      <4> HIDE DEF cut
      <4> QED  BY <1>2, <4>1
    <3>2. CASE c \notin h.used
      <4> DEFINE d == [h EXCEPT !.next = dn]
      <4>1. d = HeapOf(dn, h.prev, h.used, h.lfree)  BY <1>2 DEF HeapOf, IsHeap
      <4>2. cut = [d EXCEPT !.prev = dp]  BY <3>2
      <4>3. DOMAIN dn = DOMAIN h.next \ {c}  BY DropDomain
      <4>4. \A x \in DOMAIN h.next : x # c => dn[x] = h.next[x]  BY DropElse
      <4> HIDE DEF d, cut, dn
      <4>5. [d EXCEPT !.prev = dp] = HeapOf(dn, dp, h.used, h.lfree)  BY <4>1 DEF HeapOf
      <4>6. cut = HeapOf(dn, dp, h.used, h.lfree)  BY <4>2, <4>5
      <4>7. cut.next = dn /\ cut.used = h.used /\ IsHeap(cut)  BY <4>6, Parts
      <4> QED  BY <1>2, <3>2, <4>3, <4>4, <4>7
    <3> QED  BY <3>1, <3>2
  <2>3. r \notin h.used
    <3>1. CASE c \in h.used
      <4>1. Splits(h, b, n)  BY <1>5, <3>1
      <4>2. Room(h, b) >= n + Hdr + MinSize  BY <4>1 DEF Splits
      <4>3. r < c  BY <1>3, <4>2
      <4> HIDE DEF r, c
      <4> QED  BY <1>2, <1>3, <4>3
    <3>2. CASE c \notin h.used
      <4> HIDE DEF r, c
      <4>1. ASSUME r \in h.used PROVE FALSE
        <5>1. r \in DOMAIN h.next /\ r # c  BY <1>2, <3>2, <4>1
        <5>2. r <= b \/ c <= r  BY <1>2, <5>1
        <5> QED  BY <1>3, <5>1, <5>2
      <4> QED  BY <4>1
    <3> QED  BY <3>1, <3>2
  <2>4. g = HeapOf(nx2, pv2, h.used, low)
    <3> HIDE DEF cut, nx2, pv1, low, from, r
    <3>0. e = HeapOf(nx2, pv1, cut.used, low)  BY <2>2, TrimParts
    <3>1. e = HeapOf(nx2, pv1, h.used, low)  BY <2>2, <3>0
    <3> HIDE DEF e
    <3>2. e.next = nx2 /\ e.prev = pv1 /\ e.used = h.used /\ e.lfree = low /\ IsHeap(e)
      BY <3>1, Parts
    <3>3. BackLink(e, from, r) = HeapOf(e.next, IF from = Size THEN e.prev ELSE Put(e.prev, from, r), e.used, e.lfree)
      BY <3>2, BackLinkParts
    <3> QED  BY <3>2, <3>3
  <2>5. nx2[b] = r  BY PutAt
  <2>6. \A x \in h.used : x # b => nx2[x] = h.next[x]
    <3>1. DOMAIN nx1 = DOMAIN cut.next \union {r}  BY PutDomain
    <3>2. \A x \in DOMAIN cut.next : x # r => nx1[x] = cut.next[x]  BY PutElse
    <3> HIDE DEF nx1, cut
    <3>3. \A x \in DOMAIN nx1 : x # b => nx2[x] = nx1[x]  BY PutElse
    <3> HIDE DEF nx2, r
    <3> QED  BY <2>2, <2>3, <3>1, <3>2, <3>3
  <2> HIDE DEF g, nx2, pv2, low
  <2>7. g.next = nx2 /\ g.used = h.used  BY <2>4, Parts
  <2>8. Room(g, b) = n
    <3>1. Room(g, b) = r - (b + Hdr)  BY <2>5, <2>7 DEF Room
    <3> QED  BY <1>3, <3>1
  <2>9. n \in n .. Room(h, b)  BY <1>3
  <2> QED  BY <2>1, <2>6, <2>7, <2>8, <2>9 DEF RoomKept
<1> QED  BY <1>4, <1>5

-----------------------------------------------------------------------------
(* The refinement.                                                         *)

(***************************************************************************)
(* What the scan has passed is used or too small, and the block that is    *)
(* being taken has the room asked for and is nobody's yet.                 *)
(***************************************************************************)
ServInv ==
  /\ HeapInv
  /\ pc = "scan" => \A x \in DOMAIN heap.next \ heap.used : x < ptr => Room(heap, x) < size
  /\ pc = "link" => /\ ptr \notin heap.used /\ ptr # Size /\ Room(heap, ptr) >= size
                    /\ Joined.next = heap.next /\ Joined.used = heap.used \union {ptr}
  /\ pc = "sweep" => ptr \in heap.used \ {Size} /\ Room(heap, ptr) >= size

Refines == [Service!Next]_<<Live, got>>

LEMMA RoomSame ==
  ASSUME NEW h, NEW g, NEW b, g.next[b] = h.next[b]
  PROVE  Room(g, b) = Room(h, b)
BY DEF Room

LEMMA FinishRefines ==
  ASSUME HandedOut = heap.used \ {Size}, ptr \notin heap.used, ptr # Size, GoodHeap(heap'),
         heap'.used = heap.used \union {ptr}, \A c \in heap.used \union {ptr} : heap'.next[c] = heap.next[c],
         Room(heap, ptr) >= size, size \in Sizes, Finish, HeapInv'
  PROVE  Refines /\ ServInv'
<1>1. \A c \in HandedOut : Room(heap', c) = Room(heap, c)  BY RoomSame
<1>2. Room(heap', ptr) >= size
  <2>1. Room(heap', ptr) = Room(heap, ptr)  BY RoomSame
  <2> QED  BY <2>1
<1>3. CASE ptr = heap.lfree
  <2>1. pc' = "sweep" /\ UNCHANGED <<size, ptr, after, got>>  BY <1>3 DEF Finish
  <2>2. HandedOut' = HandedOut  BY <2>1 DEF HandedOut, InUse
  <2>3. UNCHANGED <<Live, got>>  BY <1>1, <2>1, <2>2, Unseen
  <2>4. ServInv'  BY <1>2, <2>1 DEF ServInv
  <2> QED  BY <2>3, <2>4 DEF Refines
<1>4. CASE ptr # heap.lfree
  <2>1. pc' = "idle" /\ got' = ptr  BY <1>4 DEF Finish, Return
  <2>2. HandedOut' = HandedOut \union {ptr}  BY <2>1 DEF HandedOut, InUse
  <2>3. ptr \in heap'.used \ {Size} /\ HandedOut \subseteq heap'.used \ {Size} /\ ptr \notin HandedOut
    OBVIOUS
  <2>4. Service!Alloc(size)  BY <1>1, <1>2, <2>1, <2>2, <2>3, AllocImplements
  <2>5. ServInv'  BY <2>1 DEF ServInv
  <2> QED  BY <2>4, <2>5 DEF Refines, Service!Next
<1> QED  BY <1>3, <1>4

LEMMA TakeAllRefines == ASSUME ServInv, TakeAll, HeapInv' PROVE Refines /\ ServInv'
<1>1. /\ GoodHeap(heap) /\ ptr \in Heads(heap) /\ size \in Sizes /\ pc = "scan" /\ ptr < Size - size
      /\ heap' = Use(heap, ptr) /\ Finish /\ ptr \notin heap.used /\ Room(heap, ptr) >= size
  BY DEF ServInv, HeapInv, TakeAll, Heads, Fits
<1>2. ptr # Size
  <2>1. size \in Int /\ size >= MinSize  BY <1>1, SizesAre
  <2> QED  BY <1>1, <2>1
<1>3. GoodHeap(heap') /\ heap'.next = heap.next /\ heap'.used = heap.used \union {ptr}
  BY <1>1, UseGood
<1>4. HandedOut = heap.used \ {Size}  BY <1>1 DEF HandedOut, InUse
<1> QED  BY <1>1, <1>2, <1>3, <1>4, FinishRefines

LEMMA LinkRefines == ASSUME ServInv, Link, HeapInv' PROVE Refines /\ ServInv'
<1>1. /\ Taken(Joined, ptr) /\ size \in Sizes /\ pc = "link" /\ heap' = Joined /\ Finish
      /\ ptr \notin heap.used /\ ptr # Size /\ Room(heap, ptr) >= size
      /\ Joined.next = heap.next /\ Joined.used = heap.used \union {ptr}
  BY DEF ServInv, HeapInv, Link, Joined
<1>2. GoodHeap(heap') /\ heap'.next = heap.next /\ heap'.used = heap.used \union {ptr}
  BY <1>1 DEF Taken
<1>3. HandedOut = heap.used \ {Size}  BY <1>1 DEF HandedOut, InUse
<1> QED  BY <1>1, <1>2, <1>3, FinishRefines

LEMMA SplitOffRefines == ASSUME ServInv, SplitOff, HeapInv' PROVE Refines /\ ServInv'
<1> DEFINE g  == Linked(heap, ptr, size)
           r  == ptr + Hdr + size
           nx == Put(Put(heap.next, r, heap.next[ptr]), ptr, r)
<1>1. /\ GoodHeap(heap) /\ ptr \in Heads(heap) /\ size \in Sizes /\ pc = "scan"
      /\ heap' = Split(heap, ptr, size) /\ ptr < Size - size /\ Splits(heap, ptr, size)
      /\ ptr \notin heap.used /\ after' = heap.next[ptr] /\ pc' = "link"
      /\ size' = size /\ ptr' = ptr /\ got' = got
  BY DEF ServInv, HeapInv, SplitOff, Heads, Fits
<1>2. size \in Int /\ size >= MinSize  BY <1>1, SizesAre
<1>3. ptr \in Heads(heap) \ {Size} /\ heap.next[ptr] \in heap.used
  BY <1>1, <1>2 DEF GoodHeap, Well, Heads
<1>4. Joined' = g  BY <1>1 DEF Joined, Linked
<1>5. SplitAt(heap.next, heap.prev, g.next, g.prev, ptr, r) /\ g.used = heap.used \union {ptr}
  BY <1>1, <1>2, <1>3, LinkedGood
<1>6. g.next = nx
  <2>1. g = HeapOf(nx, IF heap.next[ptr] = Size THEN Put(heap.prev, r, ptr)
                       ELSE Put(Put(heap.prev, r, ptr), heap.next[ptr], r),
                   heap.used \union {ptr}, heap.lfree)
    BY <1>1, LinkedParts DEF GoodHeap
  <2> HIDE DEF g, nx
  <2> QED  BY <2>1, Parts
<1>7. heap'.next = nx /\ heap'.used = heap.used
  <2>1. heap' = HeapOf(nx, Put(heap.prev, r, ptr), heap.used, heap.lfree)
    BY <1>1, SplitParts DEF GoodHeap
  <2> HIDE DEF nx
  <2> QED  BY <2>1, Parts
<1> HIDE DEF g, nx
<1>8. \A c \in heap.used : heap'.next[c] = heap.next[c]
  <2>1. heap.used \subseteq DOMAIN heap.next  BY <1>1 DEF GoodHeap, Well
  <2> QED  BY <1>1, <1>5, <1>6, <1>7, <2>1 DEF SplitAt
<1>9. heap'.next[ptr] = r  BY <1>5, <1>6, <1>7 DEF SplitAt
<1>10. Room(heap', ptr) >= size
  <2>1. ptr \in Int  BY <1>1, HeadsAreInt DEF GoodHeap, Well, Heads
  <2>2. Room(heap', ptr) = r - (ptr + Hdr)  BY <1>9 DEF Room
  <2> QED  BY <1>2, <2>1, <2>2
<1>11. HandedOut' = HandedOut /\ HandedOut \subseteq heap.used
  BY <1>1, <1>7 DEF HandedOut, InUse
<1>12. \A c \in HandedOut : Room(heap', c) = Room(heap, c)  BY <1>8, <1>11, RoomSame
<1>13. UNCHANGED <<Live, got>>  BY <1>1, <1>11, <1>12, Unseen
<1>14. ServInv'
  BY <1>1, <1>3, <1>4, <1>5, <1>6, <1>7, <1>10 DEF ServInv
<1> QED  BY <1>13, <1>14 DEF Refines

\* A step that leaves the heap and what was returned as they are.
LEMMA QuietRefines ==
  ASSUME UNCHANGED <<heap, got>>, HandedOut' = HandedOut
  PROVE  Refines
<1>1. \A c \in HandedOut : Room(heap', c) = Room(heap, c)  OBVIOUS
<1>2. UNCHANGED <<Live, got>>  BY <1>1, Unseen
<1> QED  BY <1>2 DEF Refines

LEMMA LookFurtherRefines == ASSUME ServInv, LookFurther, HeapInv' PROVE Refines /\ ServInv'
<1>1. /\ GoodHeap(heap) /\ ptr \in DOMAIN heap.next /\ size \in Sizes /\ pc = "scan"
      /\ ptr < Size - size /\ ptr' = heap.next[ptr] /\ ~Fits(heap, ptr, size)
      /\ UNCHANGED <<heap, pc, size, got>>
      /\ \A x \in DOMAIN heap.next \ heap.used : x < ptr => Room(heap, x) < size
  BY DEF ServInv, HeapInv, LookFurther
<1>2. size \in Int /\ size >= MinSize  BY <1>1, SizesAre
<1>3. ptr # Size  BY <1>1, <1>2
<1>4. ptr \in heap.used \/ Room(heap, ptr) < size
  <2>1. heap.next[ptr] \in DOMAIN heap.next  BY <1>1, <1>3 DEF GoodHeap, Well, Chain
  <2>2. ptr \in Int /\ heap.next[ptr] \in Int  BY <1>1, <2>1, HeadsAreInt DEF GoodHeap, Well
  <2>3. Room(heap, ptr) \in Int  BY <2>2 DEF Room
  <2>4. ptr \in heap.used \/ ~(Room(heap, ptr) >= size)  BY <1>1 DEF Fits
  <2> QED  BY <1>2, <2>3, <2>4
<1>5. ASSUME NEW x \in DOMAIN heap.next \ heap.used, x < ptr' PROVE Room(heap, x) < size
  <2>1. x \in Int /\ ptr \in Int /\ heap.next[ptr] \in Int
    <3>1. heap.next[ptr] \in DOMAIN heap.next  BY <1>1, <1>3 DEF GoodHeap, Well, Chain
    <3> QED  BY <1>1, <3>1, HeadsAreInt DEF GoodHeap, Well
  <2>2. x <= ptr \/ heap.next[ptr] <= x  BY <1>1, <1>3 DEF GoodHeap, Well, Chain
  <2>3. x <= ptr  BY <1>1, <1>5, <2>1, <2>2
  <2>4. CASE x = ptr  BY <1>4, <2>4
  <2>5. CASE x # ptr  BY <1>1, <2>1, <2>3, <2>5
  <2> QED  BY <2>4, <2>5
<1>6. Refines
  <2>1. HandedOut' = HandedOut  BY <1>1 DEF HandedOut, InUse
  <2> QED  BY <1>1, <2>1, QuietRefines
<1>7. ServInv'  BY <1>1, <1>5 DEF ServInv
<1> QED  BY <1>6, <1>7

LEMMA GiveUpRefines == ASSUME ServInv, GiveUp, HeapInv' PROVE Refines /\ ServInv'
<1>1. /\ GoodHeap(heap) /\ ptr \in DOMAIN heap.next /\ size \in Sizes /\ pc = "scan"
      /\ ptr >= Size - size /\ pc' = "idle" /\ got' = Null /\ heap' = heap
      /\ \A x \in DOMAIN heap.next \ heap.used : x < ptr => Room(heap, x) < size
  BY DEF ServInv, HeapInv, GiveUp, Return
<1>2. size \in Int /\ size >= MinSize  BY <1>1, SizesAre
<1>3. HandedOut = heap.used \ {Size} /\ HandedOut' = HandedOut  BY <1>1 DEF HandedOut, InUse
<1>4. UNCHANGED Live  BY <1>1, <1>3 DEF Live
<1>5. ASSUME NEW x \in DOMAIN heap.next \ heap.used PROVE Room(heap, x) < size
  <2>1. \A y \in DOMAIN heap.next : y \in Int /\ y <= Size  BY <1>1, HeadsAreInt DEF GoodHeap, Well
  <2>2. x # Size  BY <1>1 DEF GoodHeap, Well
  <2>3. heap.next[x] \in DOMAIN heap.next  BY <1>1, <2>2 DEF GoodHeap, Well, Chain
  <2>4. x \in Int /\ ptr \in Int /\ heap.next[x] \in Int /\ heap.next[x] <= Size  BY <1>1, <2>1, <2>3
  <2>5. CASE x < ptr  BY <1>1, <2>5
  <2>6. CASE ~(x < ptr)
    <3>1. Room(heap, x) = heap.next[x] - (x + Hdr)  BY DEF Room
    <3> QED  BY <1>1, <1>2, <2>4, <2>6, <3>1
  <2> QED  BY <2>5, <2>6
<1>6. Service!Fail(size)  BY <1>1, <1>3, <1>4, <1>5, FailImplements
<1>7. ServInv'  BY <1>1 DEF ServInv
<1> QED  BY <1>1, <1>6, <1>7 DEF Refines, Service!Next

LEMMA SweepRefines == ASSUME ServInv, Sweep, HeapInv' PROVE Refines /\ ServInv'
<1>1. /\ GoodHeap(heap) /\ pc = "sweep" /\ size \in Sizes /\ ptr \in heap.used \ {Size}
      /\ Room(heap, ptr) >= size
  BY DEF ServInv, HeapInv, Sweep
<1>2. CASE cur \in heap.used /\ cur # Size
  <2>1. UNCHANGED <<heap, pc, size, ptr, after, got>>  BY <1>2 DEF Sweep
  <2>2. HandedOut' = HandedOut  BY <2>1 DEF HandedOut, InUse
  <2>3. Refines  BY <2>1, <2>2, QuietRefines
  <2>4. ServInv'  BY <1>1, <2>1 DEF ServInv
  <2> QED  BY <2>3, <2>4
<1>3. CASE ~(cur \in heap.used /\ cur # Size)
  <2>1. heap' = [heap EXCEPT !.lfree = cur] /\ pc' = "idle" /\ got' = ptr
    BY <1>3 DEF Sweep, Return
  <2>2. heap' = HeapOf(heap.next, heap.prev, heap.used, cur)
    BY <1>1, <2>1 DEF GoodHeap, HeapOf, IsHeap
  <2>3. heap'.next = heap.next /\ heap'.used = heap.used  BY <2>2, Parts
  <2>4. HandedOut = heap.used \ {Size, ptr} /\ HandedOut' = heap.used \ {Size}
    BY <1>1, <2>1, <2>3 DEF HandedOut, InUse
  <2>5. \A c : Room(heap', c) = Room(heap, c)  BY <2>3 DEF Room
  <2>6. GoodHeap(heap')  BY <2>1 DEF HeapInv
  <2>7. /\ ptr \in heap'.used \ {Size} /\ HandedOut \subseteq heap'.used \ {Size} /\ ptr \notin HandedOut
        /\ HandedOut' = HandedOut \union {ptr} /\ Room(heap', ptr) >= size
        /\ \A c \in HandedOut : Room(heap', c) = Room(heap, c)
    BY <1>1, <2>3, <2>4, <2>5
  <2>8. Service!Alloc(size)  BY <1>1, <2>1, <2>6, <2>7, AllocImplements
  <2>9. ServInv'  BY <2>1 DEF ServInv
  <2> QED  BY <1>1, <2>8, <2>9 DEF Refines, Service!Next
<1> QED  BY <1>2, <1>3

LEMMA MallocRefines ==
  ASSUME ServInv, NEW n \in Sizes, Malloc(n), HeapInv'
  PROVE  Refines /\ ServInv'
<1>1. /\ GoodHeap(heap) /\ LowHeap(heap) /\ pc = "idle" /\ pc' = "scan" /\ size' = n
      /\ ptr' = heap.lfree /\ UNCHANGED <<heap, got>>
  BY DEF ServInv, HeapInv, Malloc
<1>2. HandedOut' = HandedOut  BY <1>1 DEF HandedOut, InUse
<1>3. Refines  BY <1>1, <1>2, QuietRefines
<1>4. ASSUME NEW x \in DOMAIN heap.next \ heap.used PROVE ~(x < heap.lfree)
  <2>1. heap.lfree <= x /\ heap.lfree \in DOMAIN heap.next  BY <1>1 DEF LowHeap, Low
  <2>2. x \in Int /\ heap.lfree \in Int  BY <1>1, <2>1, HeadsAreInt DEF GoodHeap, Well
  <2> QED  BY <2>1, <2>2
<1>5. ServInv'  BY <1>1, <1>4 DEF ServInv
<1> QED  BY <1>3, <1>5

LEMMA ArpRefines ==
  ASSUME "link" \notin UpWindows, ServInv, NEW n \in Sizes, GratuitousArp(n), HeapInv'
  PROVE  Refines /\ ServInv'
<1>1. /\ UNCHANGED <<pc, size, ptr, after, cur, got>> /\ pc # "link" /\ GoodHeap(heap)
      /\ SameBlocks(heap, heap')
  BY ArpUnseen DEF ServInv
<1>2. \A c \in DOMAIN heap.next : Room(heap', c) = Room(heap, c)
  BY <1>1, RoomSame DEF SameBlocks
<1>3. HandedOut' = HandedOut /\ HandedOut \subseteq DOMAIN heap.next
  BY <1>1 DEF HandedOut, InUse, SameBlocks, GoodHeap, Well
<1>4. UNCHANGED <<Live, got>>  BY <1>1, <1>2, <1>3, Unseen
<1>5. /\ DOMAIN heap'.next = DOMAIN heap.next /\ heap'.used = heap.used
      /\ heap.used \subseteq DOMAIN heap.next
  BY <1>1 DEF SameBlocks, GoodHeap, Well
<1>6. ServInv'  BY <1>1, <1>2, <1>5 DEF ServInv
<1> QED  BY <1>4, <1>6 DEF Refines

LEMMA FreeRefines ==
  ASSUME ServInv, NEW b \in InUse, Free(b), HeapInv'
  PROVE  Refines /\ ServInv'
<1>1. /\ GoodHeap(heap) /\ pc = "idle" /\ b \in heap.used \ {Size} /\ heap' = mem_free(heap, b)
      /\ UNCHANGED <<pc, size, ptr, after, cur, got>>
  BY DEF ServInv, HeapInv, Free, InUse
<1>2. heap'.used = heap.used \ {b} /\ \A x \in heap.used : x # b => heap'.next[x] = heap.next[x]
  BY <1>1, MemFreeKeeps DEF RoomKept
<1>3. HandedOut = heap.used \ {Size} /\ HandedOut' = HandedOut \ {b}
  BY <1>1, <1>2 DEF HandedOut, InUse
<1>4. \A c \in HandedOut \ {b} : Room(heap', c) = Room(heap, c)  BY <1>2, <1>3, RoomSame
<1>5. Live' = [c \in DOMAIN Live \ {b} |-> Live[c]]
  <2>1. Live' = [c \in HandedOut \ {b} |-> Room(heap', c)]  BY <1>3 DEF Live
  <2>2. DOMAIN Live = HandedOut /\ \A c \in HandedOut : Live[c] = Room(heap, c)  BY DEF Live
  <2> QED  BY <1>4, <2>1, <2>2
<1>6. b \in DOMAIN Live  BY <1>1, <1>3 DEF Live
<1>7. Service!Free(b)  BY <1>1, <1>5 DEF Service!Free, Live
<1>8. ServInv'  BY <1>1 DEF ServInv
<1> QED  BY <1>6, <1>7, <1>8 DEF Refines, Service!Next, Live

LEMMA TrimRefines ==
  ASSUME ServInv, NEW b \in InUse, NEW n \in Sizes, Trim(b, n), HeapInv'
  PROVE  Refines /\ ServInv'
<1>1. /\ GoodHeap(heap) /\ LowHeap(heap) /\ pc = "idle" /\ b \in heap.used \ {Size}
      /\ heap' = mem_trim(heap, b, n) /\ n <= Room(heap, b)
      /\ UNCHANGED <<pc, size, ptr, after, cur, got>>
  BY DEF ServInv, HeapInv, Trim, InUse
<1>2. /\ heap'.used = heap.used /\ \A x \in heap.used : x # b => heap'.next[x] = heap.next[x]
      /\ Room(heap', b) \in n .. Room(heap, b)
  BY <1>1, SizesAre, MemTrimKeeps DEF RoomKept
<1>3. HandedOut = heap.used \ {Size} /\ HandedOut' = HandedOut
  BY <1>1, <1>2 DEF HandedOut, InUse
<1>4. \A c \in HandedOut : c # b => Room(heap', c) = Room(heap, c)  BY <1>2, <1>3, RoomSame
<1>5. DOMAIN Live = HandedOut /\ \A c \in HandedOut : Live[c] = Room(heap, c)  BY DEF Live
<1>6. Live' = [Live EXCEPT ![b] = Room(heap', b)]
  <2>1. Live' = [c \in HandedOut |-> Room(heap', c)]  BY <1>3 DEF Live
  <2>2. Live = [c \in HandedOut |-> Room(heap, c)]  BY DEF Live
  <2> QED  BY <1>1, <1>3, <1>4, <2>1, <2>2
<1>7. b \in DOMAIN Live /\ Live[b] = Room(heap, b)  BY <1>1, <1>3, <1>5
<1>8. Service!Trim(b, n) /\ n <= Live[b]
  BY <1>1, <1>2, <1>6, <1>7 DEF Service!Trim, Live
<1>9. ServInv'  BY <1>1 DEF ServInv
<1> QED  BY <1>7, <1>8, <1>9 DEF Refines, Service!Next, Live

LEMMA StepRefines ==
  ASSUME "link" \notin UpWindows, DownWindows \subseteq {"idle"}, ServInv, [Next]_vars
  PROVE  Refines /\ ServInv'
<1>1. HeapInv'  BY StepHolds DEF ServInv
<1>2. CASE UNCHANGED vars
  <2>1. UNCHANGED <<heap, pc, size, ptr, after, cur, got>>  BY <1>2 DEF vars
  <2>2. HandedOut' = HandedOut  BY <2>1 DEF HandedOut, InUse
  <2>3. Refines  BY <2>1, <2>2, QuietRefines
  <2>4. ServInv'  BY <1>1, <2>1 DEF ServInv, Joined
  <2> QED  BY <2>3, <2>4
<1>3. ASSUME NEW b \in HandedOut, DropQueued(b) PROVE Refines /\ ServInv'
  BY <1>1, <1>3, DropIsFree, FreeRefines
<1> QED
  BY <1>1, <1>2, <1>3, GiveUpRefines, LookFurtherRefines, TakeAllRefines, SplitOffRefines, LinkRefines,
     SweepRefines, MallocRefines, ArpRefines, FreeRefines, TrimRefines DEF Next, Working

(***************************************************************************)
(* In a heap of any size, with gratuitous ARPs anywhere but in the middle  *)
(* of a split and queued packets dropped between two calls, mem_malloc,    *)
(* mem_free and mem_trim are an allocator: every step is one of the service*)
(* or nothing the service sees.                                            *)
(***************************************************************************)
THEOREM ImplementsAllocator ==
  ASSUME "link" \notin UpWindows, DownWindows \subseteq {"idle"}
  PROVE  Spec => HeapImplements
<1>1. Init => ServInv
  <2>1. Init => HeapInv  BY InitHolds
  <2> QED  BY <2>1 DEF ServInv, Init
<1>2. Init => Service!Init
  <2> SUFFICES ASSUME Init PROVE Service!Init
    OBVIOUS
  <2>1. HandedOut = {}  BY DEF Init, HandedOut, InUse
  <2> QED  BY <2>1 DEF Init, Service!Init, Service!Null, Null
<1>3. ServInv /\ [Next]_vars => ServInv' /\ [Service!Next]_<<Live, got>>
  BY StepRefines DEF Refines
<1>4. ServInv /\ [Next]_vars => ServInv' /\ [Service!Next]_<<[b \in HandedOut |-> Room(heap, b)], got>>
  BY <1>3 DEF Live
<1> QED  BY <1>1, <1>2, <1>4, PTL DEF Spec, HeapImplements, Service!Spec
=============================================================================
