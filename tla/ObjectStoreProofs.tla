-------------------------- MODULE ObjectStoreProofs --------------------------
(***************************************************************************)
(* Proofs about ObjectStore, for every set of channels, formats and        *)
(* blocks, every width of the object counter and every number of           *)
(* allocations: its type invariant and its three safety properties.  Then  *)
(* about BgetHeap, the heap its objects and blocks come from.              *)
(***************************************************************************)
EXTENDS ObjectStore, BgetHeap, Integers, Sequences, FiniteSetTheorems, SequenceTheorems,
        WellFoundedInduction, TLAPS

(***************************************************************************)
(* While the counter has not come round it counts the allocations, and the *)
(* objects have the ids it has given out.                                  *)
(***************************************************************************)
IdsFresh ==
  allocs < IdMod => /\ numObjects = allocs
                    /\ \A i \in Ids : objects[i] # None => i \in 1 .. allocs

StoreInv == TypeOK /\ RefsMatchHolders /\ IdsFresh /\ NothingLostBeforeWrap

-----------------------------------------------------------------------------
(* Facts about ids, objects and the blocks they hold.                      *)

\* How many references block b gains by an object whose memory is m.
Gain(b, m) == IF b = m THEN 1 ELSE 0

LEMMA GainType == \A b, m : Gain(b, m) \in Nat
  BY DEF Gain

LEMMA ModRange == ASSUME NEW n \in Nat, NEW m \in Nat \ {0} PROVE n % m \in 0 .. m - 1
  OBVIOUS

LEMMA SmallMod == ASSUME NEW n \in Nat, NEW m \in Nat \ {0}, n < m PROVE n % m = n
  OBVIOUS

LEMMA SelfMod == ASSUME NEW m \in Nat \ {0} PROVE m % m = 0
  OBVIOUS

LEMMA NextIdType == ASSUME TypeOK PROVE NextId \in Ids
  BY StoreAssumption, ModRange DEF TypeOK, Ids, NextId

\* None is no object and no entry of a table.
LEMMA NoneApart == None \notin Object /\ None \notin Entry
  BY StoreAssumption DEF Object, Entry, Table

LEMMA NewObjectType ==
  ASSUME NEW t \in BufferTypes \union {"frame"}, NEW m \in Blocks \union {None}
  PROVE  /\ NewObject(t, m) \in Object
         /\ NewObject(t, m) # None
         /\ NewObject(t, m).mem = m
  BY NoneApart DEF NewObject, Object, NoBuffers, Table

LEMMA IdSetsFinite ==
  ASSUME NEW S \in SUBSET Ids
  PROVE  IsFiniteSet(S) /\ Cardinality(S) \in Nat
  <1>1. IsFiniteSet(Ids)
    BY StoreAssumption, FS_Interval DEF Ids
  <1>2. IsFiniteSet(S)
    BY <1>1, FS_Subset
  <1> QED BY <1>2, FS_CardinalityType

LEMMA HoldersAreIds == ASSUME NEW b PROVE Holders(b) \in SUBSET Ids
  BY DEF Holders

\* Giving an object to a free id adds this id to the holders of its block.
LEMMA HoldersGrow ==
  ASSUME TypeOK, NEW i \in Ids, objects[i] = None,
         NEW t \in BufferTypes \union {"frame"}, NEW m \in Blocks \union {None},
         objects' = [objects EXCEPT ![i] = NewObject(t, m)], NEW b \in Blocks
  PROVE  Cardinality(Holders(b))' = Cardinality(Holders(b)) + Gain(b, m)
  <1>1. Holders(b)' = IF b = m THEN Holders(b) \union {i} ELSE Holders(b)
    BY NewObjectType DEF Holders, TypeOK
  <1>2. i \notin Holders(b)
    BY DEF Holders
  <1>3. IsFiniteSet(Holders(b)) /\ Cardinality(Holders(b)) \in Nat
    BY HoldersAreIds, IdSetsFinite
  <1>4. Cardinality(Holders(b) \union {i}) = Cardinality(Holders(b)) + 1
    BY <1>2, <1>3, FS_AddElement
  <1> QED BY <1>1, <1>3, <1>4 DEF Gain

\* Releasing the objects of S takes them from the holders of every block.
LEMMA HoldersShrink ==
  ASSUME TypeOK, NEW S \in SUBSET Ids, NEW b \in Blocks,
         objects' = [i \in Ids |-> IF i \in S THEN None ELSE objects[i]]
  PROVE  /\ Cardinality(Holders(b))' = Cardinality(Holders(b)) - Cardinality(S \intersect Holders(b))
         /\ Cardinality(Holders(b))' \in Nat
         /\ Cardinality(Holders(b)) \in Nat
         /\ Cardinality(S \intersect Holders(b)) \in Nat
  <1>1. Holders(b)' = Holders(b) \ S
    BY DEF Holders
  <1>2. IsFiniteSet(Holders(b)) /\ Cardinality(Holders(b)) \in Nat
    BY HoldersAreIds, IdSetsFinite
  <1>3. Cardinality(Holders(b) \ S) = Cardinality(Holders(b)) - Cardinality(Holders(b) \intersect S)
    BY <1>2, FS_Difference
  <1>4. Holders(b) \intersect S = S \intersect Holders(b)
    OBVIOUS
  <1>5. Cardinality(Holders(b) \ S) \in Nat /\ Cardinality(S \intersect Holders(b)) \in Nat
    <2>1. (Holders(b) \ S) \in SUBSET Ids /\ (S \intersect Holders(b)) \in SUBSET Ids
      BY HoldersAreIds
    <2> QED BY <2>1, IdSetsFinite
  <1> QED BY <1>1, <1>2, <1>3, <1>4, <1>5

-----------------------------------------------------------------------------
(* Initially nothing is stored, held or lost.                              *)
LEMMA StoreInit == ASSUME Init PROVE StoreInv
  <1> USE DEF Init
  <1>1. 0 \in Ids
    BY StoreAssumption DEF Ids
  <1>2. TypeOK
    BY <1>1, StoreAssumption DEF TypeOK, NoBuffers, Table
  <1>3. \A b \in Blocks : Holders(b) = {}
    BY DEF Holders
  <1>4. RefsMatchHolders
    BY <1>3, FS_EmptySet, StoreAssumption DEF RefsMatchHolders
  <1>5. IdsFresh /\ NothingLostBeforeWrap
    BY DEF IdsFresh, NothingLostBeforeWrap
  <1> QED BY <1>2, <1>4, <1>5 DEF StoreInv

(* What allocateObject does to everything but the reference counts.        *)
LEMMA AllocateStep ==
  ASSUME StoreInv, NEW t \in BufferTypes \union {"frame"}, NEW m \in Blocks \union {None},
         AllocateObject(t, m)
  PROVE  /\ numObjects' \in Ids /\ allocs' \in 0 .. MaxAllocs
         /\ objects' \in [Ids -> Object \union {None}]
         /\ leaked' \in [Blocks \union {None} -> Nat]
         /\ \A b \in Blocks : Cardinality(Holders(b))' + leaked'[b]
                                = Cardinality(Holders(b)) + leaked[b] + Gain(b, m)
         /\ IdsFresh' /\ NothingLostBeforeWrap'
  <1> USE DEF StoreInv
  <1>1. NextId \in Ids
    BY NextIdType
  <1>2. numObjects' = NextId /\ allocs' = allocs + 1
    BY DEF AllocateObject
  <1>3. allocs' \in 0 .. MaxAllocs /\ allocs \in Nat /\ numObjects \in Nat
    BY StoreAssumption DEF AllocateObject, TypeOK, Ids
  <1>4. ASSUME allocs' <= IdMod
        PROVE  /\ allocs < IdMod
               /\ allocs' < IdMod => NextId = allocs'
               /\ objects[NextId] = None
    <2>1. allocs < IdMod /\ numObjects = allocs
      BY <1>2, <1>3, <1>4, StoreAssumption DEF IdsFresh
    <2>2. allocs' < IdMod => NextId = allocs'
      BY <1>2, <1>3, <2>1, StoreAssumption, SmallMod DEF NextId
    <2>3. allocs' = IdMod => NextId = 0
      BY <1>2, <1>3, <2>1, StoreAssumption, SelfMod DEF NextId
    <2>4. NextId \notin 1 .. allocs
      BY <1>2, <1>3, <1>4, <2>2, <2>3, StoreAssumption
    <2> QED BY <1>1, <2>1, <2>2, <2>4 DEF IdsFresh
  <1>5. CASE objects[NextId] = None
    <2>1. /\ objects' = [objects EXCEPT ![NextId] = NewObject(t, m)]
          /\ leaked' = leaked
      BY <1>5 DEF AllocateObject
    <2>2. objects' \in [Ids -> Object \union {None}]
      BY <1>1, <2>1, NewObjectType DEF TypeOK
    <2>3. ASSUME NEW b \in Blocks
          PROVE  Cardinality(Holders(b))' = Cardinality(Holders(b)) + Gain(b, m)
      <3>1. PICK i \in Ids : i = NextId
        BY <1>1
      <3> QED BY <1>5, <2>1, <3>1, HoldersGrow
    <2>4. \A b \in Blocks : Cardinality(Holders(b)) \in Nat /\ leaked[b] \in Nat
      BY HoldersAreIds, IdSetsFinite DEF TypeOK
    <2>5. \A b \in Blocks : Cardinality(Holders(b))' + leaked'[b]
                              = Cardinality(Holders(b)) + leaked[b] + Gain(b, m)
      BY GainType, <2>1, <2>3, <2>4
    <2>6. IdsFresh'
      <3> SUFFICES ASSUME allocs' < IdMod
                   PROVE  /\ numObjects' = allocs'
                          /\ \A i \in Ids : objects'[i] # None => i \in 1 .. allocs'
        BY DEF IdsFresh
      <3>1. allocs < IdMod /\ NextId = allocs'
        BY <1>2, <1>3, <1>4, StoreAssumption
      <3>2. \A i \in Ids : objects'[i] # None => i = NextId \/ i \in 1 .. allocs
        BY <2>1, <3>1 DEF IdsFresh, TypeOK
      <3>3. 1 .. allocs \subseteq 1 .. allocs' /\ allocs' \in 1 .. allocs'
        BY <1>2, <1>3
      <3> QED BY <1>2, <3>1, <3>2, <3>3
    <2>7. NothingLostBeforeWrap'
      <3>1. allocs' <= IdMod => allocs <= IdMod
        BY <1>3, <1>4, StoreAssumption
      <3> QED BY <2>1, <3>1 DEF NothingLostBeforeWrap
    <2> QED BY <1>1, <1>2, <1>3, <2>1, <2>2, <2>5, <2>6, <2>7 DEF TypeOK
  <1>6. CASE objects[NextId] # None
    <2>1. /\ objects' = objects
          /\ leaked' = [leaked EXCEPT ![m] = @ + 1]
      BY <1>6 DEF AllocateObject
    <2>2. leaked' \in [Blocks \union {None} -> Nat]
      BY <2>1 DEF TypeOK
    <2>3. \A b \in Blocks : Cardinality(Holders(b))' = Cardinality(Holders(b))
      BY <2>1 DEF Holders
    <2>4. \A b \in Blocks : leaked'[b] = leaked[b] + Gain(b, m)
      BY <2>1 DEF TypeOK, Gain
    <2>5. \A b \in Blocks : Cardinality(Holders(b)) \in Nat /\ leaked[b] \in Nat
      BY HoldersAreIds, IdSetsFinite DEF TypeOK
    <2>6. \A b \in Blocks : Cardinality(Holders(b))' + leaked'[b]
                              = Cardinality(Holders(b)) + leaked[b] + Gain(b, m)
      BY GainType, <2>3, <2>4, <2>5
    <2>7. ~(allocs' <= IdMod)
      BY <1>4, <1>6
    <2>8. IdsFresh' /\ NothingLostBeforeWrap'
      BY <1>3, <2>7, StoreAssumption DEF IdsFresh, NothingLostBeforeWrap
    <2> QED BY <1>1, <1>2, <1>3, <2>1, <2>2, <2>6, <2>8 DEF TypeOK
  <1> QED BY <1>5, <1>6

(* What the release of a set of objects does.                              *)
LEMMA ReleaseStep ==
  ASSUME StoreInv, NEW S \in SUBSET Ids, Release(S),
         UNCHANGED <<numObjects, leaked, pending, allocs>>
  PROVE  StoreInv'
  <1> USE DEF StoreInv
  <1>1. objects' = [i \in Ids |-> IF i \in S THEN None ELSE objects[i]]
    BY DEF Release
  <1>2. objects' \in [Ids -> Object \union {None}]
    BY <1>1 DEF TypeOK
  <1>3. ASSUME NEW b \in Blocks
        PROVE  refs'[b] = Cardinality(Holders(b))' + leaked[b] /\ refs'[b] \in Nat
    <2>1. /\ Cardinality(Holders(b))'
               = Cardinality(Holders(b)) - Cardinality(S \intersect Holders(b))
          /\ Cardinality(Holders(b))' \in Nat
          /\ Cardinality(Holders(b)) \in Nat
          /\ Cardinality(S \intersect Holders(b)) \in Nat
      BY <1>1, HoldersShrink
    <2>2. refs'[b] = refs[b] - Cardinality(S \intersect Holders(b))
      BY DEF Release
    <2>3. refs[b] = Cardinality(Holders(b)) + leaked[b] /\ leaked[b] \in Nat
      BY DEF RefsMatchHolders, TypeOK
    <2> QED BY <2>1, <2>2, <2>3
  <1>4. refs' \in [Blocks -> Nat]
    <2>1. refs' = [b \in Blocks |-> refs'[b]]
      BY DEF Release
    <2> QED BY <1>3, <2>1
  <1>5. TypeOK'
    BY <1>2, <1>4 DEF TypeOK
  <1>6. RefsMatchHolders'
    BY <1>3 DEF RefsMatchHolders
  <1>7. IdsFresh'
    BY <1>1 DEF IdsFresh
  <1>8. NothingLostBeforeWrap'
    BY DEF NothingLostBeforeWrap
  <1> QED BY <1>5, <1>6, <1>7, <1>8

(* The objects a frame names have ids.                                     *)
LEMMA FrameIds ==
  ASSUME TypeOK, NEW f \in Ids, objects[f] # None
  PROVE  ({f} \union {objects[f].group[c].id :
                        c \in {d \in Channels : objects[f].group[d] # None}}) \in SUBSET Ids
  <1>1. objects[f] \in Object
    BY DEF TypeOK
  <1>2. objects[f].group \in [Channels -> Entry \union {None}]
    BY <1>1 DEF Object, Table
  <1>3. \A c \in Channels : objects[f].group[c] # None => objects[f].group[c].id \in Ids
    BY <1>2 DEF Entry
  <1> QED BY <1>3

(* addChannelObject changes nothing of an object but its table.            *)
LEMMA GroupStep ==
  ASSUME TypeOK, NEW f \in Ids, NEW i \in Ids, NEW c \in Channels, NEW t \in BufferTypes,
         AddChannelObject(f, c, t, i)
  PROVE  /\ objects' \in [Ids -> Object \union {None}]
         /\ \A j \in Ids : objects'[j] # None <=> objects[j] # None
         /\ \A j \in Ids : objects[j] # None => /\ objects'[j].mem = objects[j].mem
                                                /\ objects'[j].type = objects[j].type
  <1> DEFINE e == [type |-> t, id |-> i]
             o == [objects[f] EXCEPT !.group = [@ EXCEPT ![c] = e]]
  <1>1. objects' = [objects EXCEPT ![f] = o] /\ objects[f] # None
    BY DEF AddChannelObject
  <1>2. objects[f] \in Object
    BY <1>1 DEF TypeOK
  <1>3. e \in Entry
    BY DEF Entry
  <1>4. [objects[f].group EXCEPT ![c] = e] \in Table
    BY <1>2, <1>3 DEF Object, Table
  <1>5. o \in Object /\ o.mem = objects[f].mem /\ o.type = objects[f].type
    BY <1>2, <1>4 DEF Object
  <1>6. o # None
    BY <1>5, NoneApart
  <1> HIDE DEF o
  <1> QED BY <1>1, <1>5, <1>6 DEF TypeOK

-----------------------------------------------------------------------------
LEMMA StoreStep == ASSUME StoreInv, [Next]_storeVars PROVE StoreInv'
  <1> USE DEF StoreInv
  <1>1. CASE UserAllocates
    <2>1. ASSUME NEW t \in BufferTypes, NEW m \in Blocks, AllocateBuffer(t, m),
                 pending' = pending
          PROVE  StoreInv'
      <3>1. AllocateObject(t, m) /\ refs' = [refs EXCEPT ![m] = @ + 1]
        BY <2>1 DEF AllocateBuffer
      <3>2. /\ numObjects' \in Ids /\ allocs' \in 0 .. MaxAllocs
            /\ objects' \in [Ids -> Object \union {None}]
            /\ leaked' \in [Blocks \union {None} -> Nat]
            /\ \A b \in Blocks : Cardinality(Holders(b))' + leaked'[b]
                                   = Cardinality(Holders(b)) + leaked[b] + Gain(b, m)
            /\ IdsFresh' /\ NothingLostBeforeWrap'
        BY <3>1, AllocateStep
      <3>3. refs' \in [Blocks -> Nat]
        BY <3>1 DEF TypeOK
      <3>4. \A b \in Blocks : refs'[b] = refs[b] + Gain(b, m)
        BY <3>1 DEF TypeOK, Gain
      <3>5. RefsMatchHolders'
        BY <3>2, <3>4 DEF RefsMatchHolders
      <3> QED BY <2>1, <3>2, <3>3, <3>5 DEF TypeOK
    <2>2. ASSUME AllocateFrame, pending' = pending
          PROVE  StoreInv'
      <3>1. AllocateObject("frame", None) /\ refs' = refs
        BY <2>2 DEF AllocateFrame
      <3>2. /\ numObjects' \in Ids /\ allocs' \in 0 .. MaxAllocs
            /\ objects' \in [Ids -> Object \union {None}]
            /\ leaked' \in [Blocks \union {None} -> Nat]
            /\ \A b \in Blocks : Cardinality(Holders(b))' + leaked'[b]
                                   = Cardinality(Holders(b)) + leaked[b] + Gain(b, None)
            /\ IdsFresh' /\ NothingLostBeforeWrap'
        BY <3>1, AllocateStep
      <3>3. \A b \in Blocks : b # None /\ refs[b] \in Nat
        BY StoreAssumption DEF TypeOK
      <3>4. RefsMatchHolders'
        BY <3>1, <3>2, <3>3 DEF RefsMatchHolders, Gain
      <3> QED BY <2>2, <3>1, <3>2, <3>4 DEF TypeOK
    <2> QED BY <1>1, <2>1, <2>2 DEF UserAllocates
  <1>2. CASE UserReleases
    <2>1. PICK i \in Ids : ReleaseObject(i) \/ ReleaseFrame(i)
      BY <1>2 DEF UserReleases
    <2>2. UNCHANGED <<numObjects, leaked, pending, allocs>>
      BY <1>2 DEF UserReleases
    <2>3. CASE ReleaseObject(i)
      <3>1. Release({i}) /\ {i} \in SUBSET Ids
        BY <2>3 DEF ReleaseObject
      <3> QED BY <2>2, <3>1, ReleaseStep
    <2>4. CASE ReleaseFrame(i)
      <3> DEFINE S == {i} \union {objects[i].group[c].id :
                                    c \in {d \in Channels : objects[i].group[d] # None}}
      <3>1. Release(S) /\ objects[i] # None
        BY <2>4 DEF ReleaseFrame
      <3>2. S \in SUBSET Ids
        BY <3>1, FrameIds
      <3> HIDE DEF S
      <3> QED BY <2>2, <3>1, <3>2, ReleaseStep
    <2> QED BY <2>1, <2>3, <2>4
  <1>3. CASE UserGroups
    <2>1. PICK f \in Ids, i \in Ids, c \in Channels, t \in BufferTypes :
                 AddChannelObject(f, c, t, i)
      BY <1>3 DEF UserGroups
    <2>2. UNCHANGED <<numObjects, leaked, pending, refs, allocs>>
      BY <1>3 DEF UserGroups
    <2>3. /\ objects' \in [Ids -> Object \union {None}]
          /\ \A j \in Ids : objects'[j] # None <=> objects[j] # None
          /\ \A j \in Ids : objects[j] # None => objects'[j].mem = objects[j].mem
      BY <2>1, GroupStep
    <2>4. \A b \in Blocks : Holders(b)' = Holders(b)
      BY <2>3 DEF Holders
    <2>5. TypeOK' /\ RefsMatchHolders'
      BY <2>2, <2>3, <2>4 DEF TypeOK, RefsMatchHolders
    <2>6. IdsFresh' /\ NothingLostBeforeWrap'
      BY <2>2, <2>3 DEF IdsFresh, NothingLostBeforeWrap
    <2> QED BY <2>5, <2>6
  <1>4. CASE UserPends
    <2>1. PICK c \in Channels, t \in BufferTypes : PushPendingBuffer(c, numObjects, t)
      BY <1>4 DEF UserPends
    <2>2. UNCHANGED <<numObjects, objects, leaked, refs, allocs>>
      BY <1>4 DEF UserPends
    <2>3. [type |-> t, id |-> numObjects] \in Entry
      BY DEF TypeOK, Entry
    <2>4. pending' \in Table
      BY <2>1, <2>3 DEF PushPendingBuffer, TypeOK, Table
    <2> QED BY <2>2, <2>4 DEF TypeOK, RefsMatchHolders, Holders, IdsFresh, NothingLostBeforeWrap
  <1>5. CASE UNCHANGED storeVars
    BY <1>5 DEF storeVars, TypeOK, RefsMatchHolders, Holders, IdsFresh, NothingLostBeforeWrap
  <1> QED BY <1>1, <1>2, <1>3, <1>4, <1>5 DEF Next

(* The inductive invariant holds of every behaviour of the store.          *)
THEOREM Invariance == Spec => []StoreInv
  BY StoreInit, StoreStep, PTL DEF Spec

(* Ids, objects, frames and reference counts have the types the code gives *)
(* them; a reference count is never decremented below zero.                *)
THEOREM TypeCorrect == Spec => []TypeOK
  BY Invariance, PTL DEF StoreInv

(* A block is referenced exactly once per object in it (releaseObject,     *)
(* releaseFrame, allocateBuffer).                                          *)
THEOREM BlocksLiveAsLongAsObjects == Spec => []RefsMatchHolders
  BY Invariance, PTL DEF StoreInv

(* allocateObject loses nothing until the counter has come round.          *)
THEOREM NoLossBeforeWrap == Spec => []NothingLostBeforeWrap
  BY Invariance, PTL DEF StoreInv

(* No operation changes the type or the memory of an object that stays.    *)
LEMMA KeepStep ==
  ASSUME TypeOK, [Next]_storeVars, NEW i \in Ids, objects[i] # None, objects'[i] # None
  PROVE  objects'[i].type = objects[i].type /\ objects'[i].mem = objects[i].mem
  <1>1. ASSUME NEW t, NEW m, AllocateObject(t, m)
        PROVE  objects'[i] = objects[i]
    <2>1. CASE objects[NextId] = None
      BY <1>1, <2>1, NextIdType DEF AllocateObject, TypeOK
    <2>2. CASE objects[NextId] # None
      BY <1>1, <2>2 DEF AllocateObject
    <2> QED BY <2>1, <2>2
  <1>2. CASE UserAllocates
    BY <1>1, <1>2 DEF UserAllocates, AllocateBuffer, AllocateFrame
  <1>3. ASSUME NEW S, Release(S)
        PROVE  objects'[i] = objects[i]
    BY <1>3 DEF Release
  <1>4. CASE UserReleases
    BY <1>3, <1>4 DEF UserReleases, ReleaseObject, ReleaseFrame
  <1>5. CASE UserGroups
    <2>1. PICK f \in Ids, j \in Ids, c \in Channels, t \in BufferTypes :
                 AddChannelObject(f, c, t, j)
      BY <1>5 DEF UserGroups
    <2> QED BY <2>1, GroupStep
  <1>6. CASE UserPends
    BY <1>6 DEF UserPends
  <1>7. CASE UNCHANGED storeVars
    BY <1>7 DEF storeVars
  <1> QED BY <1>2, <1>4, <1>5, <1>6, <1>7 DEF Next

(* An object keeps its type and memory until it is released.               *)
THEOREM ObjectsStay == Spec => ObjectsKept
  <1>1. TypeOK /\ [Next]_storeVars =>
          [\A i \in Ids : objects[i] # None /\ objects'[i] # None
             => objects'[i].type = objects[i].type /\ objects'[i].mem = objects[i].mem]_storeVars
    BY KeepStep
  <1> QED BY <1>1, TypeCorrect, PTL DEF Spec, ObjectsKept
-----------------------------------------------------------------------------
(***************************************************************************)
(* The heap under the store: BgetHeap, for pools, headers and requests of  *)
(* every size its assumption allows.  The blocks are two functions, the    *)
(* size bs of a block and the tag pf in front of it; bget and brel change  *)
(* them in three ways, and each way has a lemma.                           *)
(***************************************************************************)

\* Where block b ends.
End(bs, b) == IF bs[b] > 0 THEN b + bs[b] ELSE b - bs[b]

\* The blocks tile the pool and the tags say what is free.
Tiled(bs, pf) ==
  /\ WellSized
  /\ DOMAIN bs \subseteq 0 .. Size /\ {0, Size} \subseteq DOMAIN bs
  /\ \A b \in DOMAIN bs : bs[b] \in Int
  /\ bs[Size] = ESent
  /\ DOMAIN pf = DOMAIN bs /\ pf[0] = 0
  /\ \A b \in DOMAIN bs \ {Size} :
       /\ End(bs, b) \in DOMAIN bs /\ End(bs, b) - b >= Hdr + SizeQ
       /\ \A c \in DOMAIN bs : c <= b \/ End(bs, b) <= c
       /\ pf[End(bs, b)] = IF bs[b] > 0 THEN bs[b] ELSE 0
       /\ bs[b] > 0 => bs[End(bs, b)] <= 0

\* What tiling says of the numbers, and of one block.
LEMMA TiledTypes ==
  ASSUME NEW bs, NEW pf, Tiled(bs, pf)
  PROVE  /\ Size \in Nat /\ Hdr \in Nat \ {0} /\ SizeQ \in Nat \ {0} /\ Hdr + SizeQ <= Size
         /\ Sizes \subseteq SizeQ .. Size
         /\ \A b \in DOMAIN bs : b \in Int /\ 0 <= b /\ b <= Size /\ bs[b] \in Int
         /\ 0 \in DOMAIN bs /\ Size \in DOMAIN bs /\ bs[Size] = -(Size + 1) /\ Size # 0
         /\ DOMAIN pf = DOMAIN bs /\ pf[0] = 0
BY DEF Tiled, WellSized, ESent

LEMMA TiledBlock ==
  ASSUME NEW bs, NEW pf, Tiled(bs, pf), NEW b \in DOMAIN bs \ {Size}
  PROVE  /\ End(bs, b) \in DOMAIN bs /\ End(bs, b) - b >= Hdr + SizeQ /\ b < End(bs, b)
         /\ \A c \in DOMAIN bs : c <= b \/ End(bs, b) <= c
         /\ pf[End(bs, b)] = IF bs[b] > 0 THEN bs[b] ELSE 0
         /\ bs[b] > 0 => bs[End(bs, b)] <= 0 /\ End(bs, b) = b + bs[b]
         /\ bs[b] <= 0 => bs[b] < 0 /\ End(bs, b) = b - bs[b]
<1>1. b \in Int /\ bs[b] \in Int /\ Hdr \in Nat \ {0} /\ SizeQ \in Nat \ {0}
      /\ (End(bs, b) \in DOMAIN bs => End(bs, b) \in Int)
  BY TiledTypes
<1>2. /\ End(bs, b) \in DOMAIN bs /\ End(bs, b) - b >= Hdr + SizeQ
      /\ \A c \in DOMAIN bs : c <= b \/ End(bs, b) <= c
      /\ pf[End(bs, b)] = IF bs[b] > 0 THEN bs[b] ELSE 0
      /\ bs[b] > 0 => bs[End(bs, b)] <= 0
  BY DEF Tiled
<1>3. End(bs, b) = IF bs[b] > 0 THEN b + bs[b] ELSE b - bs[b]
  BY DEF End
<1> QED
  BY <1>1, <1>2, <1>3

\* A set of naturals that is not empty has a least element.
LEMMA LeastNat ==
  ASSUME NEW S \in SUBSET Nat, S # {}
  PROVE  \E n \in S : \A m \in S : n <= m
<1> DEFINE R == {ss \in Nat \X Nat : ss[1] < ss[2]}
<1>1. IsWellFoundedOn(R, Nat)
  BY NatLessThanWellFounded DEF OpToRel
<1> HIDE DEF R
<1>2. PICK n \in S : \A m \in S : ~(<<m, n>> \in R)
  BY <1>1, WFMin
<1>3. \A m \in S : ~(m < n)
  BY <1>2 DEF R
<1> QED
  BY <1>3

\* Every place of the pool lies in a block, or is the end of the pool.
LEMMA BlockAt ==
  ASSUME NEW bs, NEW pf, Tiled(bs, pf), NEW k \in 0 .. Size
  PROVE  \E a \in DOMAIN bs : a <= k /\ \A c \in DOMAIN bs : c <= a \/ k < c
<1>0. /\ 0 \in DOMAIN bs /\ Size \in Nat
      /\ \A c \in DOMAIN bs : c \in Int /\ 0 <= c
  BY TiledTypes
<1> DEFINE S == {d \in Nat : k - d \in DOMAIN bs}
<1>1. k \in S
  BY <1>0
<1>2. PICK d \in S : \A e \in S : d <= e
  BY <1>1, LeastNat
<1>3. k - d \in DOMAIN bs /\ d \in Nat
  OBVIOUS
<1>4. ASSUME NEW c \in DOMAIN bs, c <= k PROVE c <= k - d
  <2>1. k - c \in Nat /\ k - (k - c) = c
    BY <1>0, <1>4
  <2>2. d <= k - c
    BY <1>2, <2>1
  <2> QED
    BY <1>0, <1>3, <2>2
<1>5. k - d <= k /\ \A c \in DOMAIN bs : c <= k - d \/ k < c
  BY <1>0, <1>3, <1>4
<1> QED
  BY <1>3, <1>5

\* Every block but the first has one that ends where it begins.
LEMMA BlockBefore ==
  ASSUME NEW bs, NEW pf, Tiled(bs, pf), NEW b \in DOMAIN bs \ {0}
  PROVE  \E a \in DOMAIN bs \ {Size} : a < b /\ End(bs, a) = b
<1>0. /\ b \in Int /\ b > 0 /\ b <= Size /\ Size \in Nat
      /\ \A c \in DOMAIN bs : c \in Int
  BY TiledTypes
<1>1. PICK a \in DOMAIN bs : a <= b - 1 /\ \A c \in DOMAIN bs : c <= a \/ b - 1 < c
  <2>1. b - 1 \in 0 .. Size
    BY <1>0
  <2> QED
    BY <2>1, BlockAt
<1>2. a \in Int /\ a < b /\ a # Size
  BY <1>0, <1>1
<1>3. /\ End(bs, a) \in DOMAIN bs /\ a < End(bs, a)
      /\ b <= a \/ End(bs, a) <= b
  BY <1>2, TiledBlock
<1>4. End(bs, a) \in Int /\ (End(bs, a) <= a \/ b - 1 < End(bs, a))
  BY <1>0, <1>1, <1>3
<1> QED
  BY <1>0, <1>2, <1>3, <1>4

(***************************************************************************)
(* The three changes.  The tail of a free block is given away.             *)
(***************************************************************************)
TailGiven(bs, pf, bs2, pf2, b, left) ==
  /\ b \in DOMAIN bs \ {Size} /\ bs[b] > 0 /\ left \in Int
  /\ left >= Hdr + SizeQ /\ bs[b] - left >= Hdr + SizeQ
  /\ DOMAIN bs2 = DOMAIN bs \union {b + left}
  /\ bs2[b] = left /\ bs2[b + left] = left - bs[b]
  /\ \A c \in DOMAIN bs : c # b => bs2[c] = bs[c]
  /\ DOMAIN pf2 = DOMAIN bs \union {b + left}
  /\ pf2[b + left] = left /\ pf2[b + bs[b]] = 0
  /\ \A c \in DOMAIN bs : c # b + bs[b] => pf2[c] = pf[c]

LEMMA TiledTail ==
  ASSUME NEW bs, NEW pf, Tiled(bs, pf), NEW bs2, NEW pf2, NEW b, NEW left,
         TailGiven(bs, pf, bs2, pf2, b, left)
  PROVE  /\ Tiled(bs2, pf2) /\ b + left \notin DOMAIN bs
         /\ b < b + left /\ b + left < End(bs, b)
<1> DEFINE D == DOMAIN bs
           r == b + left
<1>1. /\ b \in D \ {Size} /\ bs[b] > 0 /\ left \in Int
      /\ left >= Hdr + SizeQ /\ bs[b] - left >= Hdr + SizeQ
      /\ DOMAIN bs2 = D \union {r} /\ bs2[b] = left /\ bs2[r] = left - bs[b]
      /\ \A c \in D : c # b => bs2[c] = bs[c]
      /\ DOMAIN pf2 = D \union {r} /\ pf2[r] = left /\ pf2[b + bs[b]] = 0
      /\ \A c \in D : c # b + bs[b] => pf2[c] = pf[c]
  BY DEF TailGiven
<1>2. /\ Size \in Nat /\ Hdr \in Nat \ {0} /\ SizeQ \in Nat \ {0}
      /\ \A c \in D : c \in Int /\ 0 <= c /\ c <= Size /\ bs[c] \in Int
      /\ 0 \in D /\ Size \in D /\ pf[0] = 0
  BY TiledTypes
<1>3. /\ End(bs, b) = b + bs[b] /\ b + bs[b] \in D /\ bs[b + bs[b]] <= 0
      /\ \A c \in D : c <= b \/ b + bs[b] <= c
  BY <1>1, TiledBlock
<1>4. r \in 0 .. Size /\ b < r /\ r < b + bs[b] /\ r \notin D /\ r # Size
  BY <1>1, <1>2, <1>3
<1>5. End(bs2, b) = r /\ End(bs2, r) = b + bs[b]
  BY <1>1, <1>2, <1>4 DEF End
<1>6. \A c \in D : c # b => End(bs2, c) = End(bs, c)
  BY <1>1, <1>4 DEF End
<1> HIDE DEF r, D
<1>7. ASSUME NEW c \in DOMAIN bs2 \ {Size}
      PROVE  /\ End(bs2, c) \in DOMAIN bs2 /\ End(bs2, c) - c >= Hdr + SizeQ
             /\ \A e \in DOMAIN bs2 : e <= c \/ End(bs2, c) <= e
             /\ pf2[End(bs2, c)] = IF bs2[c] > 0 THEN bs2[c] ELSE 0
             /\ bs2[c] > 0 => bs2[End(bs2, c)] <= 0
  <2>1. CASE c = b
    <3>1. r - b = left
      BY <1>1, <1>2 DEF r
    <3>2. \A e \in D \union {r} : e <= b \/ r <= e
      BY <1>1, <1>2, <1>3, <1>4
    <3>3. bs2[r] <= 0 /\ left > 0
      BY <1>1, <1>2
    <3> QED
      BY <1>1, <1>2, <1>4, <1>5, <2>1, <3>1, <3>2, <3>3
  <2>2. CASE c = r
    <3>1. b + bs[b] - r = bs[b] - left /\ ~(bs2[r] > 0)
      BY <1>1, <1>2 DEF r
    <3>2. \A e \in D \union {r} : e <= r \/ b + bs[b] <= e
      BY <1>1, <1>2, <1>3, <1>4
    <3>3. b + bs[b] - r >= Hdr + SizeQ
      BY <1>1, <3>1
    <3>4. pf2[b + bs[b]] = IF bs2[r] > 0 THEN bs2[r] ELSE 0
      BY <1>1, <3>1
    <3>5. /\ End(bs2, r) = b + bs[b] /\ b + bs[b] \in DOMAIN bs2 /\ ~(bs2[r] > 0)
          /\ DOMAIN bs2 = D \union {r}
      BY <1>1, <1>3, <1>5, <3>1
    <3>6. pf2[End(bs2, r)] = IF bs2[r] > 0 THEN bs2[r] ELSE 0
      BY <3>4, <3>5
    <3>7. End(bs2, r) \in DOMAIN bs2
      BY <3>5
    <3>9. End(bs2, r) - r >= Hdr + SizeQ
      <4>1. b \in Int /\ bs[b] \in Int /\ r \in Int /\ Hdr \in Int /\ SizeQ \in Int
        BY <1>1, <1>2, <1>4
      <4> QED
        BY <1>5, <3>3, <4>1
    <3>8. \A e \in DOMAIN bs2 : e <= r \/ End(bs2, r) <= e
      BY <3>2, <3>5
    <3> QED
      BY <2>2, <3>5, <3>6, <3>7, <3>8, <3>9
  <2>3. CASE c # b /\ c # r
    <3>1. c \in D /\ c # Size /\ bs2[c] = bs[c] /\ End(bs2, c) = End(bs, c)
      BY <1>1, <1>6, <2>3
    <3>2. /\ End(bs, c) \in D /\ End(bs, c) - c >= Hdr + SizeQ /\ c < End(bs, c)
          /\ \A e \in D : e <= c \/ End(bs, c) <= e
          /\ pf[End(bs, c)] = IF bs[c] > 0 THEN bs[c] ELSE 0
          /\ bs[c] > 0 => bs[End(bs, c)] <= 0
      BY <3>1, TiledBlock DEF D
    <3>0. /\ b \in Int /\ c \in Int /\ bs[b] \in Int /\ End(bs, c) \in Int /\ r \in Int
          /\ c <= b \/ b + bs[b] <= c
          /\ b <= c \/ End(bs, c) <= b
      <4>1. b \in D
        BY <1>1
      <4>2. b \in Int /\ bs[b] \in Int
        BY <1>2, <4>1
      <4>3. c \in Int
        BY <1>2, <3>1
      <4>4. End(bs, c) \in Int
        <5>1. End(bs, c) \in D
          BY <3>2
        <5> QED
          BY <1>2, <5>1
      <4>5. r \in Int
        BY <1>4
      <4>6. c <= b \/ b + bs[b] <= c
        BY <1>3, <3>1
      <4>7. b <= c \/ End(bs, c) <= b
        BY <3>2, <4>1
      <4> QED
        BY <4>2, <4>3, <4>4, <4>5, <4>6, <4>7
    <3>3. End(bs, c) # b + bs[b]
      BY <1>4, <2>3, <3>0, <3>2
    <3>4. r <= c \/ End(bs, c) <= r
      BY <1>4, <2>3, <3>0, <3>2
    <3>5. pf2[End(bs, c)] = pf[End(bs, c)]
      BY <1>1, <3>2, <3>3
    <3>6. bs[c] > 0 => bs2[End(bs, c)] <= 0
      BY <1>1, <1>2, <3>1, <3>2, TiledBlock DEF D
    <3> QED
      BY <1>1, <3>1, <3>2, <3>4, <3>5, <3>6
  <2> QED
    BY <2>1, <2>2, <2>3
<1>8. DOMAIN bs2 \subseteq 0 .. Size /\ {0, Size} \subseteq DOMAIN bs2
  BY <1>1, <1>2, <1>4
<1>9. ASSUME NEW c \in DOMAIN bs2 PROVE bs2[c] \in Int
  <2>1. bs2[b] \in Int /\ bs2[r] \in Int
    BY <1>1, <1>2
  <2>2. c # b /\ c # r => bs2[c] \in Int
    BY <1>1, <1>2
  <2> QED
    BY <2>1, <2>2
<1>10. bs2[Size] = ESent /\ pf2[0] = 0 /\ WellSized
  <2>1. bs[Size] = ESent /\ WellSized
    BY DEF Tiled
  <2>2. b + bs[b] # 0
    BY <1>1, <1>2
  <2> QED
    BY <1>1, <1>2, <2>1, <2>2
<1> QED
  BY <1>1, <1>3, <1>4, <1>7, <1>8, <1>9, <1>10 DEF Tiled, D, r

(***************************************************************************)
(* All of a free block is given away.                                      *)
(***************************************************************************)
WholeGiven(bs, pf, bs2, pf2, b) ==
  /\ b \in DOMAIN bs \ {Size} /\ bs[b] > 0
  /\ DOMAIN bs2 = DOMAIN bs /\ bs2[b] = -bs[b]
  /\ \A c \in DOMAIN bs : c # b => bs2[c] = bs[c]
  /\ DOMAIN pf2 = DOMAIN bs /\ pf2[b + bs[b]] = 0
  /\ \A c \in DOMAIN bs : c # b + bs[b] => pf2[c] = pf[c]

LEMMA TiledWhole ==
  ASSUME NEW bs, NEW pf, Tiled(bs, pf), NEW bs2, NEW pf2, NEW b,
         WholeGiven(bs, pf, bs2, pf2, b)
  PROVE  Tiled(bs2, pf2)
<1> DEFINE D == DOMAIN bs
<1>1. /\ b \in D \ {Size} /\ bs[b] > 0
      /\ DOMAIN bs2 = D /\ bs2[b] = -bs[b]
      /\ \A c \in D : c # b => bs2[c] = bs[c]
      /\ DOMAIN pf2 = D /\ pf2[b + bs[b]] = 0
      /\ \A c \in D : c # b + bs[b] => pf2[c] = pf[c]
  BY DEF WholeGiven
<1>2. /\ Size \in Nat /\ Hdr \in Nat \ {0} /\ SizeQ \in Nat \ {0}
      /\ \A c \in D : c \in Int /\ 0 <= c /\ c <= Size /\ bs[c] \in Int
      /\ 0 \in D /\ Size \in D /\ pf[0] = 0
  BY TiledTypes
<1>3. End(bs, b) = b + bs[b]
  BY <1>1, TiledBlock
<1>4. \A c \in D : End(bs2, c) = End(bs, c)
  BY <1>1, <1>2 DEF End
<1>5. \A c \in D : bs2[c] > 0 => bs[c] > 0 /\ c # b
  BY <1>1, <1>2
<1> HIDE DEF D
<1>6. ASSUME NEW c \in D \ {Size}
      PROVE  /\ End(bs2, c) \in D /\ End(bs2, c) - c >= Hdr + SizeQ
             /\ \A e \in D : e <= c \/ End(bs2, c) <= e
             /\ pf2[End(bs2, c)] = IF bs2[c] > 0 THEN bs2[c] ELSE 0
             /\ bs2[c] > 0 => bs2[End(bs2, c)] <= 0
  <2>1. /\ End(bs, c) \in D /\ End(bs, c) - c >= Hdr + SizeQ /\ c < End(bs, c)
        /\ \A e \in D : e <= c \/ End(bs, c) <= e
        /\ pf[End(bs, c)] = IF bs[c] > 0 THEN bs[c] ELSE 0
        /\ bs[c] > 0 => bs[End(bs, c)] <= 0
    BY TiledBlock DEF D
  <2>2. CASE c = b
    BY <1>1, <1>2, <1>3, <1>4, <2>1, <2>2
  <2>3. CASE c # b
    <3>0. /\ b \in Int /\ c \in Int /\ bs[b] \in Int /\ End(bs, c) \in Int
          /\ b < b + bs[b]
          /\ c <= b \/ b + bs[b] <= c
          /\ b <= c \/ End(bs, c) <= b
      <4>1. \A e \in D : e <= b \/ b + bs[b] <= e
        BY <1>1, <1>3, TiledBlock DEF D
      <4>2. b \in D /\ c \in D /\ bs[b] > 0
        BY <1>1
      <4>3. b \in Int /\ c \in Int /\ bs[b] \in Int
        BY <1>2, <4>2
      <4>4. End(bs, c) \in Int
        <5>1. End(bs, c) \in D
          BY <2>1
        <5> QED
          BY <1>2, <5>1
      <4>5. c <= b \/ b + bs[b] <= c
        BY <4>1, <4>2
      <4>6. b <= c \/ End(bs, c) <= b
        BY <2>1, <4>2
      <4> QED
        BY <4>2, <4>3, <4>4, <4>5, <4>6
    <3>1. End(bs, c) # b + bs[b]
      BY <2>1, <2>3, <3>0
    <3>2. bs[c] > 0 => bs2[End(bs, c)] <= 0
      BY <1>1, <1>2, <2>1, <3>0
    <3> QED
      BY <1>1, <1>4, <2>1, <2>3, <3>1, <3>2
  <2> QED
    BY <2>2, <2>3
<1>7. bs2[Size] = ESent /\ pf2[0] = 0 /\ WellSized
  <2>1. bs[Size] = ESent /\ WellSized
    BY DEF Tiled
  <2>2. b + bs[b] # 0
    BY <1>1, <1>2
  <2> QED
    BY <1>1, <1>2, <2>1, <2>2
<1>8. /\ DOMAIN bs2 \subseteq 0 .. Size /\ {0, Size} \subseteq DOMAIN bs2
      /\ \A c \in DOMAIN bs2 : bs2[c] \in Int
  <2>1. bs2[b] \in Int /\ D \subseteq 0 .. Size
    BY <1>1, <1>2
  <2>2. \A c \in D : bs2[c] \in Int
    BY <1>1, <1>2, <2>1
  <2> QED
    BY <1>1, <1>2, <2>1, <2>2
<1> QED
  BY <1>1, <1>6, <1>7, <1>8 DEF Tiled

(***************************************************************************)
(* An allocated block joins the free ones next to it.                      *)
(***************************************************************************)
FirstOf(pf, b) == b - pf[b]
NextOf(bs, b)  == b - bs[b]
LastOf(bs, b)  == IF bs[NextOf(bs, b)] > 0 THEN NextOf(bs, b) + bs[NextOf(bs, b)] ELSE NextOf(bs, b)
GoneOf(bs, pf, b) == (FirstOf(pf, b) + 1 .. LastOf(bs, b) - 1) \intersect DOMAIN bs

\* What lies around an allocated block.
LEMMA Around ==
  ASSUME NEW bs, NEW pf, Tiled(bs, pf), NEW b \in DOMAIN bs \ {Size}, bs[b] <= 0,
         NEW first, NEW next, NEW last,
         first = FirstOf(pf, b), next = NextOf(bs, b), last = LastOf(bs, b)
  PROVE  /\ first \in DOMAIN bs /\ first <= b
         /\ pf[b] = 0 => first = b
         /\ first = b => pf[b] = 0
         /\ first # b => first < b /\ first # Size /\ bs[first] > 0 /\ End(bs, first) = b
         /\ next \in DOMAIN bs /\ b < next /\ next - b >= Hdr + SizeQ /\ End(bs, b) = next
         /\ last \in DOMAIN bs /\ next <= last /\ bs[last] <= 0
         /\ bs[next] <= 0 => last = next
         /\ bs[next] > 0 => next # Size /\ next < last /\ last = End(bs, next)
<1>1. /\ Size \in Nat /\ \A c \in DOMAIN bs : c \in Int /\ 0 <= c /\ c <= Size /\ bs[c] \in Int
      /\ pf[0] = 0 /\ bs[Size] = -(Size + 1)
  BY TiledTypes
<1>2. /\ first \in DOMAIN bs /\ first <= b
      /\ pf[b] = 0 => first = b
      /\ first = b => pf[b] = 0
      /\ first # b => first < b /\ first # Size /\ bs[first] > 0 /\ End(bs, first) = b
  <2>0. b \in Int /\ b <= Size /\ b # Size
    BY <1>1
  <2>1. CASE b = 0
    BY <1>1, <2>0, <2>1 DEF FirstOf
  <2>2. CASE b # 0
    <3>1. PICK a \in DOMAIN bs \ {Size} : a < b /\ End(bs, a) = b
      BY <2>2, BlockBefore
    <3>2. a \in Int /\ bs[a] \in Int
      BY <1>1
    <3>3. /\ pf[b] = IF bs[a] > 0 THEN bs[a] ELSE 0
          /\ bs[a] > 0 => b = a + bs[a]
      BY <3>1, TiledBlock
    <3>4. CASE bs[a] > 0
      <4>1. first = a
        BY <2>0, <3>2, <3>3, <3>4 DEF FirstOf
      <4> QED
        BY <2>0, <3>1, <3>2, <3>3, <3>4, <4>1
    <3>5. CASE ~(bs[a] > 0)
      BY <2>0, <3>3, <3>5 DEF FirstOf
    <3> QED
      BY <3>4, <3>5
  <2> QED
    BY <2>1, <2>2
<1>3. /\ next \in DOMAIN bs /\ b < next /\ next - b >= Hdr + SizeQ /\ End(bs, b) = next
  <2>1. End(bs, b) = next
    BY TiledBlock DEF NextOf
  <2> QED
    BY <2>1, TiledBlock
<1>4. CASE bs[next] > 0
  <2>1. next # Size /\ next \in Int /\ bs[next] \in Int
    <3>1. ~(-(Size + 1) > 0)
      BY <1>1
    <3> QED
      BY <1>1, <1>3, <1>4, <3>1
  <2>2. last = End(bs, next)
    BY <1>4 DEF LastOf, End
  <2>3. End(bs, next) \in DOMAIN bs /\ next < End(bs, next) /\ bs[End(bs, next)] <= 0
    BY <1>3, <1>4, <2>1, TiledBlock
  <2>4. End(bs, next) \in Int
    BY <1>1, <2>3
  <2> QED
    BY <1>1, <1>2, <1>3, <1>4, <2>1, <2>2, <2>3, <2>4
<1>5. CASE ~(bs[next] > 0)
  <2>1. next \in Int /\ bs[next] \in Int
    BY <1>1, <1>3
  <2>2. last = next
    BY <1>5 DEF LastOf
  <2> QED
    BY <1>2, <1>3, <1>5, <2>1, <2>2
<1> QED
  BY <1>4, <1>5

Joined(bs, pf, bs2, pf2, b, first, last) ==
  /\ b \in DOMAIN bs \ {Size} /\ bs[b] <= 0
  /\ first = FirstOf(pf, b) /\ last = LastOf(bs, b)
  /\ DOMAIN bs2 = (DOMAIN bs \ GoneOf(bs, pf, b)) \union {first}
  /\ bs2[first] = last - first
  /\ \A c \in DOMAIN bs \ GoneOf(bs, pf, b) : c # first => bs2[c] = bs[c]
  /\ DOMAIN pf2 = (DOMAIN bs \ GoneOf(bs, pf, b)) \union {last}
  /\ pf2[last] = last - first
  /\ \A c \in DOMAIN bs \ GoneOf(bs, pf, b) : c # last => pf2[c] = pf[c]

\* The headers that go are those of the block and of the free one behind it.
LEMMA JoinKeeps ==
  ASSUME NEW bs, NEW pf, Tiled(bs, pf), NEW b \in DOMAIN bs \ {Size}, bs[b] <= 0,
         NEW first, NEW next, NEW last,
         first = FirstOf(pf, b), next = NextOf(bs, b), last = LastOf(bs, b)
  PROVE  /\ \A c \in DOMAIN bs : c \in GoneOf(bs, pf, b) <=> first < c /\ c < last
         /\ \A c \in GoneOf(bs, pf, b) : c = b \/ (c = next /\ bs[next] > 0)
<1>1. \A c \in DOMAIN bs : c \in Int
  BY TiledTypes
<1>2. /\ first \in DOMAIN bs /\ last \in DOMAIN bs /\ b < next /\ next <= last
      /\ first # b => first # Size /\ End(bs, first) = b
      /\ next \in DOMAIN bs /\ End(bs, b) = next
      /\ bs[next] <= 0 => last = next
      /\ bs[next] > 0 => next # Size /\ last = End(bs, next)
  BY Around
<1>3. \A c \in DOMAIN bs : c \in GoneOf(bs, pf, b) <=> first < c /\ c < last
  <2>1. first \in Int /\ last \in Int
    BY <1>1, <1>2
  <2>2. ASSUME NEW c \in DOMAIN bs PROVE c \in GoneOf(bs, pf, b) <=> first < c /\ c < last
    <3>1. c \in Int
      BY <1>1
    <3>2. c \in first + 1 .. last - 1 <=> first < c /\ c < last
      BY <2>1, <3>1
    <3> QED
      BY <3>2 DEF GoneOf
  <2> QED
    BY <2>2
<1>4. ASSUME NEW c \in GoneOf(bs, pf, b) PROVE c = b \/ (c = next /\ bs[next] > 0)
  <2>1. c \in DOMAIN bs
    BY DEF GoneOf
  <2>2. first < c /\ c < last
    BY <1>3, <2>1
  <2>3. c \in Int /\ b \in Int /\ next \in Int /\ first \in Int /\ last \in Int
    BY <1>1, <1>2, <2>1
  <2>4. c <= b \/ next <= c
    BY <1>2, <2>1, TiledBlock
  <2>5. c <= first \/ b <= c
    <3>1. CASE first = b
      BY <2>3, <3>1
    <3>2. CASE first # b
      BY <1>2, <2>1, <3>2, TiledBlock
    <3> QED
      BY <3>1, <3>2
  <2>6. c <= b => c = b
    BY <2>2, <2>3, <2>5
  <2>7. CASE bs[next] > 0
    <3>1. c <= next \/ last <= c
      BY <1>2, <2>1, <2>7, TiledBlock
    <3> QED
      BY <2>2, <2>3, <2>4, <2>6, <2>7, <3>1
  <2>8. CASE ~(bs[next] > 0)
    <3>1. bs[next] \in Int
      BY <1>2, TiledTypes
    <3>2. last = next
      BY <1>2, <2>8, <3>1
    <3> QED
      BY <2>2, <2>3, <2>4, <2>6, <3>2
  <2> QED
    BY <2>7, <2>8
<1> QED
  BY <1>3, <1>4

LEMMA TiledJoin ==
  ASSUME NEW bs, NEW pf, Tiled(bs, pf), NEW bs2, NEW pf2, NEW b, NEW first, NEW last,
         Joined(bs, pf, bs2, pf2, b, first, last)
  PROVE  Tiled(bs2, pf2)
<1> DEFINE D == DOMAIN bs
           E == DOMAIN bs \ GoneOf(bs, pf, b)
           next == NextOf(bs, b)
<1>1. /\ b \in D \ {Size} /\ bs[b] <= 0
      /\ first = FirstOf(pf, b) /\ last = LastOf(bs, b)
      /\ DOMAIN bs2 = E \union {first} /\ bs2[first] = last - first
      /\ \A c \in E : c # first => bs2[c] = bs[c]
      /\ DOMAIN pf2 = E \union {last} /\ pf2[last] = last - first
      /\ \A c \in E : c # last => pf2[c] = pf[c]
  BY DEF Joined
<1>2. /\ Size \in Nat /\ Hdr \in Nat \ {0} /\ SizeQ \in Nat \ {0}
      /\ \A c \in D : c \in Int /\ 0 <= c /\ c <= Size /\ bs[c] \in Int
      /\ 0 \in D /\ Size \in D /\ pf[0] = 0
  BY TiledTypes
<1>3. /\ first \in D /\ first <= b
      /\ pf[b] = 0 => first = b
      /\ first = b => pf[b] = 0
      /\ first # b => first < b /\ first # Size /\ bs[first] > 0 /\ End(bs, first) = b
      /\ next \in D /\ b < next /\ next - b >= Hdr + SizeQ /\ End(bs, b) = next
      /\ last \in D /\ next <= last /\ bs[last] <= 0
  BY <1>1, Around
<1>4. \A c \in D : c \in E <=> c <= first \/ last <= c
  <2>1. \A c \in D : c \in GoneOf(bs, pf, b) <=> first < c /\ c < last
    BY <1>1, JoinKeeps
  <2>2. ASSUME NEW c \in D PROVE c \in E <=> c <= first \/ last <= c
    <3>1. c \in Int /\ first \in Int /\ last \in Int
      BY <1>2, <1>3
    <3>2. c \in E <=> ~(first < c /\ c < last)
      BY <2>1
    <3>3. ~(first < c /\ c < last) <=> c <= first \/ last <= c
      BY <3>1
    <3> QED
      BY <3>2, <3>3
  <2> QED
    BY <2>2
<1> HIDE DEF D, E, next
<1>5. /\ first \in Int /\ last \in Int /\ b \in Int /\ next \in Int
      /\ 0 <= first /\ last <= Size /\ first < last /\ first # Size
  BY <1>1, <1>2, <1>3
<1>6. /\ first \in E /\ last \in E /\ 0 \in E /\ Size \in E /\ first # last
      /\ E \subseteq D
  <2>1. first <= first /\ last <= last /\ 0 <= first
    BY <1>5
  <2> QED
    BY <1>2, <1>3, <1>4, <1>5, <2>1 DEF E, D
<1>7. DOMAIN bs2 = E /\ DOMAIN pf2 = E
  BY <1>1, <1>6
<1>8. End(bs2, first) = last /\ bs2[first] > 0
  <2>1. bs2[first] > 0 /\ first + (last - first) = last
    BY <1>1, <1>5
  <2> QED
    BY <1>1, <2>1 DEF End
<1>9. \A c \in E : c # first => End(bs2, c) = End(bs, c)
  BY <1>1 DEF End
<1>10. ASSUME NEW c \in E, c # Size, c # first
       PROVE  /\ End(bs2, c) \in E /\ End(bs2, c) - c >= Hdr + SizeQ
              /\ \A e \in E : e <= c \/ End(bs2, c) <= e
              /\ pf2[End(bs2, c)] = IF bs2[c] > 0 THEN bs2[c] ELSE 0
              /\ bs2[c] > 0 => bs2[End(bs2, c)] <= 0
  <2>1. c \in D \ {Size} /\ bs2[c] = bs[c] /\ End(bs2, c) = End(bs, c)
    BY <1>1, <1>6, <1>9, <1>10
  <2>2. /\ End(bs, c) \in D /\ End(bs, c) - c >= Hdr + SizeQ /\ c < End(bs, c)
        /\ \A e \in D : e <= c \/ End(bs, c) <= e
        /\ pf[End(bs, c)] = IF bs[c] > 0 THEN bs[c] ELSE 0
        /\ bs[c] > 0 => bs[End(bs, c)] <= 0
    BY <2>1, TiledBlock DEF D
  <2>3. c \in Int /\ End(bs, c) \in Int
    <3>1. c \in D /\ End(bs, c) \in D
      BY <2>1, <2>2
    <3> QED
      BY <1>2, <3>1
  <2>4. c < first \/ last <= c
    <3>1. c <= first \/ last <= c
      BY <1>4, <2>1
    <3> QED
      BY <1>5, <1>10, <2>3, <3>1
  <2>5. (c < first /\ End(bs, c) <= first) \/ (last <= c /\ last < End(bs, c))
    <3>1. first <= c \/ End(bs, c) <= first
      BY <1>3, <2>2
    <3>2. c < End(bs, c)
      BY <2>2
    <3> QED
      BY <1>5, <2>3, <2>4, <3>1, <3>2
  <2>6. End(bs, c) \in E /\ End(bs, c) # last
    <3>1. End(bs, c) <= first \/ last <= End(bs, c)
      BY <1>5, <2>3, <2>5
    <3>2. End(bs, c) # last
      BY <1>5, <2>3, <2>5
    <3> QED
      BY <1>4, <2>2, <3>1, <3>2
  <2>7. pf2[End(bs, c)] = pf[End(bs, c)]
    BY <1>1, <2>6
  <2>8. bs[c] > 0 => End(bs, c) # first
    <3>1. ASSUME bs[c] > 0, End(bs, c) = first PROVE FALSE
      <4>1. CASE first = b
        <5>1. pf[b] = bs[c]
          BY <2>2, <3>1, <4>1
        <5>2. pf[b] = 0
          BY <1>3, <4>1
        <5>3. 0 \in Int /\ ~(0 > 0)
          OBVIOUS
        <5> QED
          BY <3>1, <5>1, <5>2, <5>3
      <4>2. CASE first # b
        <5>1. bs[first] > 0 /\ bs[first] <= 0
          BY <1>3, <2>2, <3>1, <4>2
        <5>2. bs[first] \in Int
          BY <1>2, <1>3
        <5> QED
          BY <5>1, <5>2
      <4> QED
        BY <4>1, <4>2
    <3> QED
      BY <3>1
  <2>9. bs2[c] > 0 => bs2[End(bs2, c)] <= 0
    <3>1. bs[c] > 0 => bs2[End(bs, c)] = bs[End(bs, c)]
      BY <1>1, <2>6, <2>8
    <3> QED
      BY <2>1, <2>2, <3>1
  <2>10. pf2[End(bs2, c)] = IF bs2[c] > 0 THEN bs2[c] ELSE 0
    BY <2>1, <2>2, <2>7
  <2>11. \A e \in E : e <= c \/ End(bs2, c) <= e
    BY <1>6, <2>1, <2>2
  <2>12. End(bs2, c) \in E /\ End(bs2, c) - c >= Hdr + SizeQ
    BY <2>1, <2>2, <2>6
  <2> QED
    BY <2>9, <2>10, <2>11, <2>12
<1>11. /\ End(bs2, first) \in E /\ End(bs2, first) - first >= Hdr + SizeQ
       /\ \A e \in E : e <= first \/ End(bs2, first) <= e
       /\ pf2[End(bs2, first)] = IF bs2[first] > 0 THEN bs2[first] ELSE 0
       /\ bs2[first] > 0 => bs2[End(bs2, first)] <= 0
  <2>1. last - first >= Hdr + SizeQ
    BY <1>2, <1>3, <1>5
  <2>2. \A e \in E : e <= first \/ last <= e
    BY <1>4, <1>6
  <2>3. bs2[last] <= 0
    BY <1>1, <1>3, <1>6
  <2>4. pf2[last] = bs2[first]
    BY <1>1
  <2> QED
    BY <1>6, <1>8, <2>1, <2>2, <2>3, <2>4
<1>12. bs2[Size] = ESent /\ pf2[0] = 0 /\ WellSized
  <2>1. bs[Size] = ESent /\ WellSized
    BY DEF Tiled
  <2>2. last # 0
    BY <1>5
  <2> QED
    BY <1>1, <1>2, <1>5, <1>6, <2>1, <2>2
<1>13. DOMAIN bs2 \subseteq 0 .. Size /\ {0, Size} \subseteq DOMAIN bs2
  <2>1. D \subseteq 0 .. Size
    BY <1>2
  <2> QED
    BY <1>6, <1>7, <2>1
<1>14. ASSUME NEW c \in DOMAIN bs2 PROVE bs2[c] \in Int
  <2>1. bs2[first] \in Int
    BY <1>1, <1>5
  <2>2. c # first => bs2[c] = bs[c] /\ bs[c] \in Int
    BY <1>1, <1>2, <1>6, <1>7
  <2> QED
    BY <2>1, <2>2
<1>15. ASSUME NEW c \in DOMAIN bs2 \ {Size}
       PROVE  /\ End(bs2, c) \in DOMAIN bs2 /\ End(bs2, c) - c >= Hdr + SizeQ
              /\ \A e \in DOMAIN bs2 : e <= c \/ End(bs2, c) <= e
              /\ pf2[End(bs2, c)] = IF bs2[c] > 0 THEN bs2[c] ELSE 0
              /\ bs2[c] > 0 => bs2[End(bs2, c)] <= 0
  <2>1. c \in E /\ c # Size
    BY <1>7
  <2>2. CASE c = first
    BY <1>7, <1>11, <2>2
  <2>3. CASE c # first
    BY <1>7, <1>10, <2>1, <2>3
  <2> QED
    BY <2>2, <2>3
<1> QED
  BY <1>7, <1>12, <1>13, <1>14, <1>15 DEF Tiled

(***************************************************************************)
(* The free list: fl holds each member of F once.                          *)
(***************************************************************************)
Listed(fl, F) ==
  /\ fl \in Seq(Int)
  /\ \A i, j \in DOMAIN fl : fl[i] = fl[j] => i = j
  /\ \A x : x \in F <=> \E i \in DOMAIN fl : fl[i] = x

LEMMA ListedAppend ==
  ASSUME NEW fl, NEW F, Listed(fl, F), NEW b \in Int, b \notin F
  PROVE  Listed(Append(fl, b), F \union {b})
<1>1. /\ fl \in Seq(Int) /\ Append(fl, b) \in Seq(Int)
      /\ Len(fl) \in Nat /\ DOMAIN fl = 1 .. Len(fl) /\ DOMAIN Append(fl, b) = 1 .. Len(fl) + 1
      /\ \A i \in 1 .. Len(fl) : Append(fl, b)[i] = fl[i]
      /\ Append(fl, b)[Len(fl) + 1] = b
  BY DEF Listed
<1>2. \A i \in DOMAIN Append(fl, b) : i \in DOMAIN fl \/ i = Len(fl) + 1
  BY <1>1
<1>3. \A i \in DOMAIN fl : i \in DOMAIN Append(fl, b) /\ fl[i] # b /\ Append(fl, b)[i] = fl[i]
  BY <1>1 DEF Listed
<1>4. ASSUME NEW i \in DOMAIN Append(fl, b), NEW j \in DOMAIN Append(fl, b),
             Append(fl, b)[i] = Append(fl, b)[j]
      PROVE  i = j
  BY <1>1, <1>2, <1>3, <1>4 DEF Listed
<1>5. ASSUME NEW x PROVE x \in F \union {b} <=> \E i \in DOMAIN Append(fl, b) : Append(fl, b)[i] = x
  <2>1. x \in F <=> \E i \in DOMAIN fl : Append(fl, b)[i] = x
    BY <1>3 DEF Listed
  <2>2. Len(fl) + 1 \in DOMAIN Append(fl, b)
    BY <1>1
  <2> QED
    BY <1>1, <1>2, <1>3, <2>1, <2>2
<1> QED
  BY <1>1, <1>4, <1>5 DEF Listed

LEMMA ListedUnlink ==
  ASSUME NEW fl, NEW F, Listed(fl, F), NEW b \in F
  PROVE  Listed(Unlink(fl, b), F \ {b})
<1>1. fl \in Seq(Int) /\ Len(fl) \in Nat /\ DOMAIN fl = 1 .. Len(fl)
  BY DEF Listed
<1> DEFINE k == CHOOSE i \in DOMAIN fl : fl[i] = b
           g == Unlink(fl, b)
<1>2. k \in 1 .. Len(fl) /\ fl[k] = b
  <2>1. \E i \in DOMAIN fl : fl[i] = b
    BY DEF Listed
  <2> QED
    BY <1>1, <2>1
<1>3. g = SubSeq(fl, 1, k - 1) \o SubSeq(fl, k + 1, Len(fl))
  BY DEF Unlink, RemoveAt
<1> HIDE DEF k, g
<1>4. /\ g \in Seq(Int) /\ Len(g) = Len(fl) - 1
      /\ \A i \in 1 .. Len(fl) - 1 : g[i] = IF i < k THEN fl[i] ELSE fl[i + 1]
  <2> DEFINE s == SubSeq(fl, 1, k - 1)
             t == SubSeq(fl, k + 1, Len(fl))
  <2>1. s \in Seq(Int) /\ Len(s) = k - 1 /\ \A i \in 1 .. k - 1 : s[i] = fl[i]
    BY <1>1, <1>2
  <2>2. t \in Seq(Int) /\ Len(t) = Len(fl) - k /\ \A i \in 1 .. Len(fl) - k : t[i] = fl[k + i]
    <3>1. k \in Nat /\ k + 1 \in Int /\ Len(fl) \in Int
      BY <1>1, <1>2
    <3>2. \A i \in k + 1 .. Len(fl) : fl[i] \in Int
      BY <1>1, <3>1
    <3>3. /\ t \in Seq(Int)
          /\ Len(t) = IF k + 1 <= Len(fl) THEN Len(fl) - (k + 1) + 1 ELSE 0
          /\ \A i \in 1 .. Len(fl) - (k + 1) + 1 : t[i] = fl[(k + 1) + i - 1]
      BY <3>1, <3>2, SubSeqProperties
    <3>4. Len(t) = Len(fl) - k
      <4>1. Len(fl) - k = IF k + 1 <= Len(fl) THEN Len(fl) - (k + 1) + 1 ELSE 0
        <5>1. k <= Len(fl) /\ k \in Int /\ Len(fl) \in Int
          BY <1>2, <3>1
        <5>2. CASE k + 1 <= Len(fl)
          BY <5>1, <5>2
        <5>3. CASE ~(k + 1 <= Len(fl))
          BY <5>1, <5>3
        <5> QED
          BY <5>2, <5>3
      <4> QED
        BY <3>3, <4>1
    <3>5. ASSUME NEW i \in 1 .. Len(fl) - k PROVE t[i] = fl[k + i]
      <4>1. i \in 1 .. Len(fl) - (k + 1) + 1 /\ (k + 1) + i - 1 = k + i
        BY <1>1, <3>1
      <4> QED
        BY <3>3, <4>1
    <3> QED
      BY <3>3, <3>4, <3>5
  <2> HIDE DEF s, t
  <2>3. s \o t \in Seq(Int) /\ Len(s \o t) = Len(s) + Len(t)
    BY <2>1, <2>2, ConcatProperties
  <2>4. \A i \in 1 .. Len(s) + Len(t) : (s \o t)[i] = IF i <= Len(s) THEN s[i] ELSE t[i - Len(s)]
    BY <2>1, <2>2, ConcatProperties
  <2>5. g = s \o t
    BY <1>3 DEF s, t
  <2>6. ASSUME NEW i \in 1 .. Len(fl) - 1 PROVE g[i] = IF i < k THEN fl[i] ELSE fl[i + 1]
    <3>1. i \in 1 .. Len(s) + Len(t) /\ i \in Nat /\ k \in Nat
      BY <1>1, <1>2, <2>1, <2>2
    <3>2. CASE i < k
      BY <1>1, <1>2, <2>1, <2>4, <2>5, <3>1, <3>2
    <3>3. CASE ~(i < k)
      <4>1. i - Len(s) \in 1 .. Len(fl) - k /\ k + (i - Len(s)) = i + 1 /\ ~(i <= Len(s))
        <5>1. Len(s) = k - 1
          BY <2>1
        <5>2. i - (k - 1) \in 1 .. Len(fl) - k /\ k + (i - (k - 1)) = i + 1 /\ ~(i <= k - 1)
          BY <1>1, <3>1, <3>3
        <5> QED
          BY <5>1, <5>2
      <4>2. t[i - Len(s)] = fl[i + 1]
        BY <2>2, <4>1
      <4> QED
        BY <2>4, <2>5, <3>1, <3>3, <4>1, <4>2
    <3> QED
      BY <3>2, <3>3
  <2>7. Len(g) = Len(fl) - 1
    <3>1. Len(g) = Len(s) + Len(t) /\ Len(s) = k - 1 /\ Len(t) = Len(fl) - k /\ k \in Int
      BY <1>2, <2>1, <2>2, <2>3, <2>5
    <3> QED
      BY <1>1, <3>1
  <2> QED
    BY <2>3, <2>5, <2>6, <2>7
<1> DEFINE From(i) == IF i < k THEN i ELSE i + 1
<1>5. DOMAIN g = 1 .. Len(fl) - 1
  BY <1>4
<1>6. ASSUME NEW i \in DOMAIN g
      PROVE  From(i) \in DOMAIN fl /\ From(i) # k /\ g[i] = fl[From(i)]
  <2>1. PICK n \in Nat : n = Len(fl) /\ DOMAIN fl = 1 .. n
    BY <1>1
  <2>2. i \in 1 .. n - 1 /\ k \in 1 .. n
    BY <1>2, <1>5, <2>1
  <2>3. g[i] = IF i < k THEN fl[i] ELSE fl[i + 1]
    BY <1>4, <2>1, <2>2
  <2>4. From(i) \in 1 .. n /\ From(i) # k
    BY <2>2
  <2> QED
    BY <2>1, <2>3, <2>4
<1>7. ASSUME NEW i \in DOMAIN g, NEW j \in DOMAIN g, From(i) = From(j) PROVE i = j
  <2>1. i \in Int /\ j \in Int /\ k \in Int
    BY <1>1, <1>2, <1>5
  <2> QED
    BY <1>7, <2>1
<1>8. ASSUME NEW m \in DOMAIN fl, m # k PROVE \E i \in DOMAIN g : From(i) = m
  <2>1. CASE m < k
    BY <1>1, <1>2, <1>5, <1>8, <2>1
  <2>2. CASE ~(m < k)
    <3>1. m - 1 \in DOMAIN g /\ From(m - 1) = m
      BY <1>1, <1>2, <1>5, <1>8, <2>2
    <3> QED
      BY <3>1
  <2> QED
    BY <2>1, <2>2
<1> HIDE DEF From
<1>9. ASSUME NEW i \in DOMAIN g, NEW j \in DOMAIN g, g[i] = g[j] PROVE i = j
  BY <1>6, <1>7, <1>9 DEF Listed
<1>10. ASSUME NEW x PROVE x \in F \ {b} <=> \E i \in DOMAIN g : g[i] = x
  <2>1. ASSUME x \in F, x # b PROVE \E i \in DOMAIN g : g[i] = x
    <3>1. PICK m \in DOMAIN fl : fl[m] = x
      BY <2>1 DEF Listed
    <3>2. m # k
      BY <1>2, <2>1, <3>1
    <3> QED
      BY <1>6, <1>8, <3>1, <3>2
  <2>2. ASSUME NEW i \in DOMAIN g, g[i] = x PROVE x \in F /\ x # b
    <3>1. From(i) \in DOMAIN fl /\ From(i) # k /\ x = fl[From(i)]
      BY <1>6, <2>2
    <3>2. k \in DOMAIN fl
      BY <1>1, <1>2
    <3> QED
      BY <1>2, <3>1, <3>2 DEF Listed
  <2> QED
    BY <2>1, <2>2
<1>11. Listed(g, F \ {b})
  BY <1>4, <1>9, <1>10 DEF Listed
<1> QED
  BY <1>11 DEF g

LEMMA ListedCount ==
  ASSUME NEW fl, NEW F, Listed(fl, F)
  PROVE  ToSet(fl) = F /\ Len(fl) = Cardinality(F)
<1>1. fl \in Seq(Int) /\ Len(fl) \in Nat /\ DOMAIN fl = 1 .. Len(fl)
  BY DEF Listed
<1>2. ToSet(fl) = F
  BY DEF Listed, ToSet
<1>3. fl \in Bijection(1 .. Len(fl), F)
  <2>1. fl = [i \in 1 .. Len(fl) |-> fl[i]]
    BY <1>1
  <2>2. \A i \in 1 .. Len(fl) : fl[i] \in F
    BY <1>1 DEF Listed
  <2>3. fl \in [1 .. Len(fl) -> F]
    BY <2>1, <2>2
  <2>4. \A x \in F : \E i \in 1 .. Len(fl) : fl[i] = x
    BY <1>1 DEF Listed
  <2>5. \A i, j \in 1 .. Len(fl) : fl[i] = fl[j] => i = j
    BY <1>1 DEF Listed
  <2> QED
    BY <2>3, <2>4, <2>5 DEF Bijection, Injection, Surjection, IsInjective
<1>4. Cardinality(1 .. Len(fl)) = Cardinality(F)
  <2>1. ExistsBijection(1 .. Len(fl), F)
    BY <1>3 DEF ExistsBijection
  <2>2. IsFiniteSet(1 .. Len(fl)) /\ Cardinality(1 .. Len(fl)) = Len(fl)
    BY <1>1, FS_Interval
  <2> QED
    BY <2>1, <2>2, FS_Bijection
<1> QED
  BY <1>1, <1>2, <1>4, FS_Interval

(***************************************************************************)
(* The invariant, and that every call keeps it.                            *)
(***************************************************************************)
HeapInv == Tiled(bsize, prevfree) /\ Listed(freelist, Free)

\* g is f but for its value v at a, or its values v at a and w at d.
OneChanged(g, f, D, a, v) ==
  /\ DOMAIN g = D \union {a} /\ g[a] = v
  /\ \A x \in D : x # a => g[x] = f[x]

TwoChanged(g, f, a, v, d, w) ==
  /\ DOMAIN g = DOMAIN f \union {a, d} /\ g[a] = v /\ g[d] = w
  /\ \A x \in DOMAIN f : x # a /\ x # d => g[x] = f[x]

LEMMA HeapPut ==
  ASSUME NEW f, NEW a, NEW v
  PROVE  OneChanged(Put(f, a, v), f, DOMAIN f, a, v)
BY DEF Put, OneChanged

LEMMA HeapTwoPut ==
  ASSUME NEW f, NEW a, NEW v, NEW d, NEW w, a # d
  PROVE  TwoChanged(Put(Put(f, a, v), d, w), f, a, v, d, w)
<1> DEFINE h == Put(f, a, v)
           g == Put(h, d, w)
<1>1. OneChanged(h, f, DOMAIN f, a, v)
  BY HeapPut
<1> HIDE DEF h
<1>2. OneChanged(g, h, DOMAIN h, d, w)
  BY HeapPut
<1> HIDE DEF g
<1>3. TwoChanged(g, f, a, v, d, w)
  BY <1>1, <1>2 DEF OneChanged, TwoChanged
<1> QED
  BY <1>3 DEF g, h

LEMMA HeapDropPut ==
  ASSUME NEW f, NEW S, NEW a, NEW v
  PROVE  OneChanged(Put(Drop(f, S), a, v), f, DOMAIN f \ S, a, v)
<1> DEFINE h == Drop(f, S)
           g == Put(h, a, v)
<1>1. DOMAIN h = DOMAIN f \ S /\ \A x \in DOMAIN f \ S : h[x] = f[x]
  BY DEF Drop
<1> HIDE DEF h
<1>2. OneChanged(g, h, DOMAIN h, a, v)
  BY HeapPut
<1> HIDE DEF g
<1>3. OneChanged(g, f, DOMAIN f \ S, a, v)
  BY <1>1, <1>2 DEF OneChanged
<1> QED
  BY <1>3 DEF g, h

LEMMA HeapInit == ASSUME WellSized, BgetInit PROVE HeapInv
<1>1. /\ Size \in Nat \ {0} /\ Hdr \in Nat \ {0} /\ SizeQ \in Nat \ {0} /\ Hdr + SizeQ <= Size
  BY DEF WellSized
<1>2. /\ DOMAIN bsize = {0, Size} /\ bsize[0] = Size /\ bsize[Size] = -(Size + 1)
      /\ DOMAIN prevfree = {0, Size} /\ prevfree[0] = 0 /\ prevfree[Size] = Size
      /\ freelist = <<0>> /\ bsize[Size] = ESent
  BY <1>1 DEF BgetInit, ESent
<1>3. End(bsize, 0) = Size
  BY <1>1, <1>2 DEF End
<1>4. Tiled(bsize, prevfree)
  <2>1. \A b \in DOMAIN bsize \ {Size} : b = 0
    BY <1>2
  <2>2. DOMAIN bsize \subseteq 0 .. Size /\ \A b \in DOMAIN bsize : bsize[b] \in Int
    BY <1>1, <1>2
  <2>3. /\ End(bsize, 0) \in DOMAIN bsize /\ End(bsize, 0) - 0 >= Hdr + SizeQ
        /\ \A c \in DOMAIN bsize : c <= 0 \/ End(bsize, 0) <= c
        /\ prevfree[End(bsize, 0)] = IF bsize[0] > 0 THEN bsize[0] ELSE 0
        /\ bsize[0] > 0 => bsize[End(bsize, 0)] <= 0
    BY <1>1, <1>2, <1>3
  <2> QED
    BY <1>2, <2>1, <2>2, <2>3 DEF Tiled
<1>5. Listed(freelist, Free)
  <2>1. Free = {0}
    BY <1>1, <1>2 DEF Free
  <2>2. DOMAIN freelist = {1} /\ freelist[1] = 0 /\ freelist \in Seq(Int)
    BY <1>2
  <2> QED
    BY <2>1, <2>2 DEF Listed
<1> QED
  BY <1>4, <1>5 DEF HeapInv

\* bget takes a free block that is big enough.
LEMMA BestFits ==
  ASSUME HeapInv, NEW n, Fitting(n) # {}
  PROVE  Best(n) \in Free /\ bsize[Best(n)] >= n + Hdr
<1> DEFINE S == Fitting(n)
           Room(i) == bsize[freelist[i]]
<1>1. /\ \A i \in S : i \in Nat /\ i \in DOMAIN freelist /\ Room(i) >= n + Hdr
      /\ \A i \in S : freelist[i] \in Free /\ Room(i) \in Nat
  <2>1. ASSUME NEW i \in S PROVE freelist[i] \in Free /\ Room(i) \in Nat
    <3>1. freelist[i] \in Free
      BY DEF HeapInv, Listed, Fitting
    <3>2. freelist[i] \in DOMAIN bsize /\ Room(i) > 0
      BY <3>1 DEF Free
    <3>3. Room(i) \in Int
      BY <3>2, TiledTypes DEF HeapInv
    <3> QED
      BY <3>1, <3>2, <3>3
  <2>2. DOMAIN freelist \subseteq Nat
    BY DEF HeapInv, Listed
  <2> QED
    BY <2>1, <2>2 DEF Fitting
<1>2. PICK m \in {Room(i) : i \in S} : \A k \in {Room(i) : i \in S} : m <= k
  <2>1. {Room(i) : i \in S} \in SUBSET Nat /\ {Room(i) : i \in S} # {}
    BY <1>1
  <2> QED
    BY <2>1, LeastNat
<1>3. PICK i \in {j \in S : Room(j) = m} : \A j \in {j \in S : Room(j) = m} : i <= j
  <2>1. {j \in S : Room(j) = m} \in SUBSET Nat /\ {j \in S : Room(j) = m} # {}
    BY <1>1, <1>2
  <2> QED
    BY <2>1, LeastNat
<1>4. ASSUME NEW j \in S \ {i} PROVE Room(i) < Room(j) \/ (~(Room(j) < Room(i)) /\ i < j)
  <2>1. i \in S /\ Room(i) = m /\ i \in Nat /\ j \in Nat /\ Room(j) \in Nat /\ m \in Nat
    BY <1>1, <1>3
  <2>2. m <= Room(j)
    BY <1>2
  <2>3. CASE Room(j) = m
    <3>1. i <= j
      BY <1>3, <2>3
    <3>2. i < j
      BY <1>4, <2>1, <3>1
    <3> QED
      BY <2>1, <2>3, <3>2
  <2>4. CASE Room(j) # m
    BY <2>1, <2>2, <2>4
  <2> QED
    BY <2>3, <2>4
<1>5. \E k \in S : \A j \in S \ {k} : Room(k) < Room(j) \/ (~(Room(j) < Room(k)) /\ k < j)
  BY <1>3, <1>4
<1> DEFINE best == CHOOSE k \in S : \A j \in S \ {k} :
                      Room(k) < Room(j) \/ (~(Room(j) < Room(k)) /\ k < j)
<1>6. best \in S
  BY <1>5
<1>7. Best(n) = freelist[best]
  BY DEF Best
<1> HIDE DEF best
<1> QED
  BY <1>1, <1>6, <1>7

\* The block bget takes, and its room.
LEMMA BestBlock ==
  ASSUME HeapInv, NEW n \in Sizes, Fitting(n) # {}, NEW b, b = Best(n)
  PROVE  /\ b \in DOMAIN bsize \ {Size} /\ b \in Int /\ bsize[b] \in Int /\ bsize[b] > 0
         /\ bsize[b] >= n + Hdr /\ n \in Nat /\ n >= SizeQ /\ Hdr \in Nat \ {0} /\ SizeQ \in Nat \ {0}
         /\ b + bsize[b] \in DOMAIN bsize
         /\ \A c \in DOMAIN bsize : c \in Int /\ (c <= b \/ b + bsize[b] <= c)
<1>1. b \in Free /\ bsize[b] >= n + Hdr
  BY BestFits
<1>2. b \in DOMAIN bsize /\ bsize[b] > 0
  BY <1>1 DEF Free
<1>3. /\ Size \in Nat /\ Hdr \in Nat \ {0} /\ SizeQ \in Nat \ {0} /\ Sizes \subseteq SizeQ .. Size
      /\ \A c \in DOMAIN bsize : c \in Int /\ bsize[c] \in Int
      /\ bsize[Size] = -(Size + 1)
  BY TiledTypes DEF HeapInv
<1>4. b # Size
  <2>1. ~(-(Size + 1) > 0)
    BY <1>3
  <2> QED
    BY <1>2, <1>3, <2>1
<1>5. n \in Nat /\ n >= SizeQ
  <2>1. n \in SizeQ .. Size
    BY <1>3
  <2> QED
    BY <1>3, <2>1
<1>6. /\ End(bsize, b) = b + bsize[b] /\ End(bsize, b) \in DOMAIN bsize
      /\ \A c \in DOMAIN bsize : c <= b \/ End(bsize, b) <= c
  BY <1>2, <1>4, TiledBlock DEF HeapInv
<1> QED
  BY <1>1, <1>2, <1>3, <1>4, <1>5, <1>6

LEMMA GetTailGives ==
  ASSUME HeapInv, NEW n \in Sizes, GetTail(n), NEW b, b = Best(n)
  PROVE  TailGiven(bsize, prevfree, bsize', prevfree', b, bsize[b] - (n + Hdr))
<1> DEFINE left == bsize[b] - (n + Hdr)
<1>1. /\ Fitting(n) # {} /\ left > SizeQ + Hdr
      /\ bsize' = Put(Put(bsize, b, left), b + left, -(n + Hdr))
      /\ prevfree' = Put(Put(prevfree, b + left, left), b + bsize[b], 0)
  BY DEF GetTail, Splits
<1>2. /\ b \in DOMAIN bsize \ {Size} /\ b \in Int /\ bsize[b] \in Int /\ bsize[b] > 0
      /\ n \in Nat /\ n >= SizeQ /\ Hdr \in Nat \ {0} /\ SizeQ \in Nat \ {0}
      /\ b + bsize[b] \in DOMAIN bsize
      /\ \A c \in DOMAIN bsize : c \in Int /\ (c <= b \/ b + bsize[b] <= c)
  BY <1>1, BestBlock
<1>3. /\ left \in Int /\ left >= Hdr + SizeQ /\ bsize[b] - left >= Hdr + SizeQ
      /\ -(n + Hdr) = left - bsize[b] /\ b < b + left /\ b + left < b + bsize[b]
  BY <1>1, <1>2
<1> HIDE DEF left
<1>4. \A c \in DOMAIN bsize : c # b + left
  BY <1>2, <1>3
<1>5. DOMAIN prevfree = DOMAIN bsize
  BY TiledTypes DEF HeapInv
<1>6. /\ DOMAIN bsize' = DOMAIN bsize \union {b, b + left}
      /\ bsize'[b] = left /\ bsize'[b + left] = -(n + Hdr)
      /\ \A c \in DOMAIN bsize : c # b /\ c # b + left => bsize'[c] = bsize[c]
  <2>1. b # b + left
    BY <1>2, <1>4
  <2>2. TwoChanged(bsize', bsize, b, left, b + left, -(n + Hdr))
    BY <1>1, <2>1, HeapTwoPut
  <2> QED
    BY <2>2 DEF TwoChanged
<1>7. /\ DOMAIN prevfree' = DOMAIN prevfree \union {b + left, b + bsize[b]}
      /\ prevfree'[b + left] = left /\ prevfree'[b + bsize[b]] = 0
      /\ \A c \in DOMAIN prevfree : c # b + left /\ c # b + bsize[b] => prevfree'[c] = prevfree[c]
  <2>1. b + left # b + bsize[b]
    BY <1>2, <1>4
  <2>2. TwoChanged(prevfree', prevfree, b + left, left, b + bsize[b], 0)
    BY <1>1, <2>1, HeapTwoPut
  <2> QED
    BY <2>2 DEF TwoChanged
<1>8. /\ DOMAIN bsize' = DOMAIN bsize \union {b + left}
      /\ bsize'[b] = left /\ bsize'[b + left] = left - bsize[b]
      /\ \A c \in DOMAIN bsize : c # b => bsize'[c] = bsize[c]
  BY <1>2, <1>3, <1>4, <1>6
<1>9. /\ DOMAIN prevfree' = DOMAIN bsize \union {b + left}
      /\ prevfree'[b + left] = left /\ prevfree'[b + bsize[b]] = 0
      /\ \A c \in DOMAIN bsize : c # b + bsize[b] => prevfree'[c] = prevfree[c]
  BY <1>2, <1>4, <1>5, <1>7
<1>10. TailGiven(bsize, prevfree, bsize', prevfree', b, left)
  BY <1>2, <1>3, <1>8, <1>9 DEF TailGiven
<1> QED
  BY <1>10 DEF left

LEMMA GetTailInv == ASSUME HeapInv, NEW n \in Sizes, GetTail(n) PROVE HeapInv'
<1>1. PICK b : b = Best(n)
  OBVIOUS
<1>2. PICK left : left = bsize[b] - (n + Hdr)
  OBVIOUS
<1>3. TailGiven(bsize, prevfree, bsize', prevfree', b, left)
  BY <1>1, <1>2, GetTailGives
<1>4. Tiled(bsize', prevfree') /\ b + left \notin DOMAIN bsize
  BY <1>3, TiledTail DEF HeapInv
<1>5. /\ DOMAIN bsize' = DOMAIN bsize \union {b + left} /\ bsize'[b] = left
      /\ bsize'[b + left] = left - bsize[b]
      /\ \A c \in DOMAIN bsize : c # b => bsize'[c] = bsize[c]
      /\ bsize[b] > 0 /\ left \in Int /\ left > 0 /\ left - bsize[b] < 0
      /\ b \in DOMAIN bsize
  <2>1. Hdr \in Nat \ {0} /\ SizeQ \in Nat /\ b \in DOMAIN bsize
    BY <1>3, TiledTypes DEF HeapInv, TailGiven
  <2>2. bsize[b] \in Int
    BY <2>1, TiledTypes DEF HeapInv
  <2>3. left \in Int /\ left >= Hdr + SizeQ /\ bsize[b] - left >= Hdr + SizeQ
    BY <1>3 DEF TailGiven
  <2>4. left > 0 /\ left - bsize[b] < 0
    BY <2>1, <2>2, <2>3
  <2> QED
    BY <1>3, <2>1, <2>3, <2>4 DEF TailGiven
<1>6. Free' = Free
  <2>1. ~(left - bsize[b] > 0)
    <3>1. bsize[b] \in Int
      BY <1>5, TiledTypes DEF HeapInv
    <3> QED
      BY <1>5, <3>1
  <2>2. ASSUME NEW c \in DOMAIN bsize PROVE bsize'[c] > 0 <=> bsize[c] > 0
    BY <1>5
  <2> QED
    BY <1>5, <2>1, <2>2 DEF Free
<1>7. freelist' = freelist
  BY DEF GetTail
<1> QED
  BY <1>4, <1>6, <1>7 DEF HeapInv

LEMMA GetWholeGives ==
  ASSUME HeapInv, NEW n \in Sizes, GetWhole(n), NEW b, b = Best(n)
  PROVE  WholeGiven(bsize, prevfree, bsize', prevfree', b)
<1>1. /\ Fitting(n) # {}
      /\ bsize' = Put(bsize, b, -bsize[b])
      /\ prevfree' = Put(prevfree, b + bsize[b], 0)
  BY DEF GetWhole
<1>2. /\ b \in DOMAIN bsize \ {Size} /\ bsize[b] > 0 /\ b + bsize[b] \in DOMAIN bsize
  BY <1>1, BestBlock
<1>3. DOMAIN prevfree = DOMAIN bsize
  BY TiledTypes DEF HeapInv
<1>4. /\ DOMAIN bsize' = DOMAIN bsize \union {b} /\ bsize'[b] = -bsize[b]
      /\ \A c \in DOMAIN bsize : c # b => bsize'[c] = bsize[c]
  <2>1. OneChanged(bsize', bsize, DOMAIN bsize, b, -bsize[b])
    BY <1>1, HeapPut
  <2> QED
    BY <2>1 DEF OneChanged
<1>5. /\ DOMAIN prevfree' = DOMAIN prevfree \union {b + bsize[b]} /\ prevfree'[b + bsize[b]] = 0
      /\ \A c \in DOMAIN prevfree : c # b + bsize[b] => prevfree'[c] = prevfree[c]
  <2>1. OneChanged(prevfree', prevfree, DOMAIN prevfree, b + bsize[b], 0)
    BY <1>1, HeapPut
  <2> QED
    BY <2>1 DEF OneChanged
<1>6. DOMAIN bsize' = DOMAIN bsize /\ DOMAIN prevfree' = DOMAIN bsize
  BY <1>2, <1>3, <1>4, <1>5
<1> QED
  BY <1>2, <1>3, <1>4, <1>5, <1>6 DEF WholeGiven

LEMMA GetWholeInv == ASSUME HeapInv, NEW n \in Sizes, GetWhole(n) PROVE HeapInv'
<1>1. PICK b : b = Best(n)
  OBVIOUS
<1>2. WholeGiven(bsize, prevfree, bsize', prevfree', b)
  BY <1>1, GetWholeGives
<1>3. Tiled(bsize', prevfree')
  BY <1>2, TiledWhole DEF HeapInv
<1>4. /\ DOMAIN bsize' = DOMAIN bsize /\ bsize'[b] = -bsize[b]
      /\ \A c \in DOMAIN bsize : c # b => bsize'[c] = bsize[c]
      /\ b \in DOMAIN bsize /\ bsize[b] > 0
  BY <1>2 DEF WholeGiven
<1>5. Free' = Free \ {b}
  <2>1. ~(-bsize[b] > 0)
    <3>1. bsize[b] \in Int
      BY <1>4, TiledTypes DEF HeapInv
    <3> QED
      BY <1>4, <3>1
  <2> QED
    BY <1>4, <2>1 DEF Free
<1>6. b \in Free
  BY <1>4 DEF Free
<1>7. freelist' = Unlink(freelist, b)
  BY <1>1 DEF GetWhole
<1>8. Listed(freelist', Free')
  BY <1>5, <1>6, <1>7, ListedUnlink DEF HeapInv
<1> QED
  BY <1>3, <1>8 DEF HeapInv

\* A block that is released, with the block that begins and ends the joined one.
LEMMA ReleaseJoins ==
  ASSUME HeapInv, NEW b \in Allocated, brel(b), NEW first, NEW last,
         first = FirstOf(prevfree, b), last = LastOf(bsize, b)
  PROVE  Joined(bsize, prevfree, bsize', prevfree', b, first, last)
<1>1. b \in DOMAIN bsize \ {Size} /\ bsize[b] <= 0
  <2>1. b \in DOMAIN bsize \ {Size} /\ bsize[b] < 0
    BY DEF Allocated
  <2>2. bsize[b] \in Int
    BY <2>1, TiledTypes DEF HeapInv
  <2> QED
    BY <2>1, <2>2
<1> DEFINE gone == GoneOf(bsize, prevfree, b)
<1>2. /\ bsize' = Put(Drop(bsize, gone), first, last - first)
      /\ prevfree' = Put(Drop(prevfree, gone), last, last - first)
  BY DEF brel, FirstOf, NextOf, LastOf, GoneOf
<1> HIDE DEF gone
<1>3. DOMAIN prevfree = DOMAIN bsize
  BY TiledTypes DEF HeapInv
<1>4. /\ DOMAIN bsize' = (DOMAIN bsize \ gone) \union {first} /\ bsize'[first] = last - first
      /\ \A c \in DOMAIN bsize \ gone : c # first => bsize'[c] = bsize[c]
  <2>1. OneChanged(bsize', bsize, DOMAIN bsize \ gone, first, last - first)
    BY <1>2, HeapDropPut
  <2> QED
    BY <2>1 DEF OneChanged
<1>5. /\ DOMAIN prevfree' = (DOMAIN prevfree \ gone) \union {last} /\ prevfree'[last] = last - first
      /\ \A c \in DOMAIN prevfree \ gone : c # last => prevfree'[c] = prevfree[c]
  <2>1. OneChanged(prevfree', prevfree, DOMAIN prevfree \ gone, last, last - first)
    BY <1>2, HeapDropPut
  <2> QED
    BY <2>1 DEF OneChanged
<1> QED
  BY <1>1, <1>3, <1>4, <1>5 DEF Joined, gone

LEMMA ReleaseInv == ASSUME HeapInv, NEW b \in Allocated, brel(b) PROVE HeapInv'
<1>1. b \in DOMAIN bsize \ {Size} /\ bsize[b] < 0 /\ bsize[b] <= 0 /\ b \in Int
  <2>1. b \in DOMAIN bsize \ {Size} /\ bsize[b] < 0
    BY DEF Allocated
  <2>2. bsize[b] \in Int /\ b \in Int
    BY <2>1, TiledTypes DEF HeapInv
  <2> QED
    BY <2>1, <2>2
<1>2. PICK first : first = FirstOf(prevfree, b)
  OBVIOUS
<1>3. PICK next : next = NextOf(bsize, b)
  OBVIOUS
<1>4. PICK last : last = LastOf(bsize, b)
  OBVIOUS
<1>5. Joined(bsize, prevfree, bsize', prevfree', b, first, last)
  BY <1>2, <1>4, ReleaseJoins
<1>6. Tiled(bsize', prevfree')
  BY <1>5, TiledJoin DEF HeapInv
<1>7. /\ first \in DOMAIN bsize /\ first <= b
      /\ first # b => first < b /\ bsize[first] > 0
      /\ next \in DOMAIN bsize /\ b < next /\ last \in DOMAIN bsize /\ next <= last
      /\ bsize[next] <= 0 => last = next
      /\ bsize[next] > 0 => next # Size /\ next < last
  BY <1>1, <1>2, <1>3, <1>4, Around DEF HeapInv
<1>8. /\ \A c \in DOMAIN bsize : c \in GoneOf(bsize, prevfree, b) <=> first < c /\ c < last
      /\ \A c \in GoneOf(bsize, prevfree, b) : c = b \/ (c = next /\ bsize[next] > 0)
  BY <1>1, <1>2, <1>3, <1>4, JoinKeeps DEF HeapInv
<1>9. /\ first \in Int /\ next \in Int /\ last \in Int /\ bsize[next] \in Int
      /\ first < next /\ first < last
  <2>1. first \in Int /\ next \in Int /\ last \in Int /\ bsize[next] \in Int
    BY <1>7, TiledTypes DEF HeapInv
  <2> QED
    BY <1>1, <1>7, <2>1
<1>10. ASSUME NEW x
       PROVE  x \in Free' <=> x = first \/ (x \in Free /\ x # next)
  <2>1. /\ DOMAIN bsize' = (DOMAIN bsize \ GoneOf(bsize, prevfree, b)) \union {first}
        /\ bsize'[first] = last - first
        /\ \A c \in DOMAIN bsize \ GoneOf(bsize, prevfree, b) : c # first => bsize'[c] = bsize[c]
    BY <1>5 DEF Joined
  <2>2. CASE x = first
    <3>1. bsize'[first] > 0
      BY <1>9, <2>1
    <3> QED
      BY <2>1, <2>2, <3>1 DEF Free
  <2>3. CASE x # first /\ x \in DOMAIN bsize /\ x \notin GoneOf(bsize, prevfree, b)
    <3>1. x \in Free' <=> x \in Free
      BY <2>1, <2>3 DEF Free
    <3>2. x = next => ~(x \in Free)
      <4>1. ASSUME x = next, bsize[next] > 0 PROVE FALSE
        <5>1. first < next /\ next < last
          BY <1>7, <1>9, <4>1
        <5> QED
          BY <1>7, <1>8, <2>3, <4>1, <5>1
      <4> QED
        BY <4>1 DEF Free
    <3> QED
      BY <2>3, <3>1, <3>2
  <2>4. CASE x # first /\ x \in GoneOf(bsize, prevfree, b)
    <3>1. x \notin Free'
      BY <2>1, <2>4 DEF Free
    <3>2. b \notin Free
      <4>1. bsize[b] \in Int
        BY <1>1, TiledTypes DEF HeapInv
      <4>2. ~(bsize[b] > 0)
        BY <1>1, <4>1
      <4> QED
        BY <4>2 DEF Free
    <3> QED
      BY <1>8, <2>4, <3>1, <3>2
  <2>5. CASE x # first /\ x \notin DOMAIN bsize
    BY <2>1, <2>5 DEF Free
  <2> QED
    BY <2>2, <2>3, <2>4, <2>5
<1> DEFINE list == IF first = b THEN Append(freelist, b) ELSE freelist
<1>11. freelist' = IF last = next THEN list ELSE Unlink(list, next)
  BY <1>2, <1>3, <1>4 DEF brel, FirstOf, NextOf, LastOf
<1>12. Listed(list, Free \union {first})
  <2>1. CASE first = b
    <3>1. b \notin Free
      <4>1. bsize[b] \in Int
        BY <1>1, TiledTypes DEF HeapInv
      <4>2. ~(bsize[b] > 0)
        BY <1>1, <4>1
      <4> QED
        BY <4>2 DEF Free
    <3> QED
      BY <1>1, <2>1, <3>1, ListedAppend DEF HeapInv
  <2>2. CASE first # b
    <3>1. first \in Free
      BY <1>7, <2>2 DEF Free
    <3>2. Free \union {first} = Free
      BY <3>1
    <3> QED
      BY <2>2, <3>2 DEF HeapInv
  <2> QED
    BY <2>1, <2>2
<1> HIDE DEF list
<1>13. CASE bsize[next] > 0
  <2>1. last # next /\ next \in Free
    BY <1>7, <1>9, <1>13 DEF Free
  <2>2. Listed(freelist', (Free \union {first}) \ {next})
    BY <1>11, <1>12, <2>1, ListedUnlink
  <2>3. first # next
    BY <1>9
  <2>4. Free' = (Free \union {first}) \ {next}
    BY <1>10, <2>3
  <2> QED
    BY <1>6, <2>2, <2>4 DEF HeapInv
<1>14. CASE ~(bsize[next] > 0)
  <2>1. last = next /\ next \notin Free
    BY <1>7, <1>9, <1>14 DEF Free
  <2>2. Listed(freelist', Free \union {first})
    BY <1>11, <1>12, <2>1
  <2>3. Free' = Free \union {first}
    BY <1>10, <2>1
  <2> QED
    BY <1>6, <2>2, <2>3 DEF HeapInv
<1> QED
  BY <1>13, <1>14

-----------------------------------------------------------------------------
(* The blocks tile the pool in every behaviour of bget and brel.           *)
THEOREM HeapInvariance == BgetSpec => []HeapInv
<1>1. BgetInit => HeapInv
  BY HeapInit, BgetAssumption
<1>2. HeapInv /\ [BgetNext]_bgetVars => HeapInv'
  <2> SUFFICES ASSUME HeapInv, [BgetNext]_bgetVars PROVE HeapInv'
    OBVIOUS
  <2>1. ASSUME NEW n \in Sizes, bget(n) PROVE HeapInv'
    <3>1. CASE GetTail(n)
      BY <3>1, GetTailInv
    <3>2. CASE GetWhole(n)
      BY <3>2, GetWholeInv
    <3>3. CASE GetNothing(n)
      BY <3>3 DEF GetNothing, HeapInv, Free
    <3> QED
      BY <2>1, <3>1, <3>2, <3>3 DEF bget
  <2>2. ASSUME NEW b \in Allocated, brel(b) PROVE HeapInv'
    BY <2>2, ReleaseInv
  <2>3. CASE UNCHANGED bgetVars
    BY <2>3 DEF bgetVars, HeapInv, Free
  <2> QED
    BY <2>1, <2>2, <2>3 DEF BgetNext
<1> QED
  BY <1>1, <1>2, PTL DEF BgetSpec

LEMMA HeapInvTags == ASSUME HeapInv PROVE BoundaryTags
<1>1. ASSUME NEW b \in DOMAIN bsize \ {Size}
      PROVE  /\ Behind(b) \in DOMAIN bsize /\ (b + 1 .. Behind(b) - 1) \intersect DOMAIN bsize = {}
             /\ Behind(b) - b >= Hdr + SizeQ
             /\ prevfree[Behind(b)] = (IF b \in Free THEN bsize[b] ELSE 0)
             /\ b \in Free => Behind(b) \notin Free
  <2>1. Behind(b) = End(bsize, b)
    BY DEF Behind, End
  <2>2. /\ End(bsize, b) \in DOMAIN bsize /\ End(bsize, b) - b >= Hdr + SizeQ
        /\ \A c \in DOMAIN bsize : c <= b \/ End(bsize, b) <= c
        /\ prevfree[End(bsize, b)] = IF bsize[b] > 0 THEN bsize[b] ELSE 0
        /\ bsize[b] > 0 => bsize[End(bsize, b)] <= 0
    BY TiledBlock DEF HeapInv
  <2>3. \A c \in DOMAIN bsize : c \in Int /\ bsize[c] \in Int
    BY TiledTypes DEF HeapInv
  <2>4. ASSUME NEW c \in b + 1 .. End(bsize, b) - 1 PROVE c \notin DOMAIN bsize
    <3>1. b \in Int /\ End(bsize, b) \in Int
      BY <2>2, <2>3
    <3>2. ~(c <= b) /\ ~(End(bsize, b) <= c)
      BY <3>1
    <3> QED
      BY <2>2, <3>2
  <2>5. b \in Free <=> bsize[b] > 0
    BY DEF Free
  <2>6. b \in Free => End(bsize, b) \notin Free
    <3>1. bsize[End(bsize, b)] \in Int
      BY <2>2, <2>3
    <3>2. bsize[b] > 0 => ~(bsize[End(bsize, b)] > 0)
      BY <2>2, <3>1
    <3> QED
      BY <3>2 DEF Free
  <2>7. prevfree[End(bsize, b)] = (IF b \in Free THEN bsize[b] ELSE 0)
    BY <2>2, <2>5
  <2> QED
    BY <2>1, <2>2, <2>4, <2>6, <2>7
<1>2. {0, Size} \subseteq DOMAIN bsize /\ DOMAIN prevfree = DOMAIN bsize /\ prevfree[0] = 0
  BY TiledTypes DEF HeapInv
<1>3. ToSet(freelist) = Free /\ Len(freelist) = Cardinality(Free)
  BY ListedCount DEF HeapInv
<1> QED
  BY <1>1, <1>2, <1>3 DEF BoundaryTags

(* The size of a block leads to the next, the tag in front of each says    *)
(* whether the block before it is free, no two free blocks are neighbours  *)
(* and the list holds each free block once.                                *)
THEOREM TagsAgree == BgetSpec => []BoundaryTags
<1>1. HeapInv => BoundaryTags
  BY HeapInvTags
<1> QED
  BY <1>1, HeapInvariance, PTL

Live == [b \in Allocated |-> -bsize[b] - Hdr]

LEMMA AllocInit == ASSUME WellSized, BgetInit PROVE Service!Init
<1>1. DOMAIN bsize = {0, Size} /\ bsize[0] = Size /\ Size \in Nat
  BY DEF WellSized, BgetInit
<1>2. Allocated = {}
  BY <1>1 DEF Allocated
<1>3. Live = [b \in {} |-> 0]
  BY <1>2 DEF Live
<1> QED
  BY <1>3 DEF Live, Service!Init, BgetInit, Null, Service!Null

\* The cells that are taken are those of the allocated blocks.
LEMMA TakenIs ==
  ASSUME HeapInv, NEW x \in Int
  PROVE  x \in Service!Taken <=> \E c \in Allocated : c <= x /\ x < End(bsize, c)
<1>1. ASSUME NEW c \in Allocated
      PROVE  x \in Service!Cells(c, -bsize[c] - Hdr) <=> c <= x /\ x < End(bsize, c)
  <2>1. c \in DOMAIN bsize \ {Size} /\ bsize[c] < 0
    BY DEF Allocated
  <2>2. c \in Int /\ bsize[c] \in Int /\ Hdr \in Int
    BY <2>1, TiledTypes DEF HeapInv
  <2>3. End(bsize, c) = c - bsize[c] /\ c + Hdr + (-bsize[c] - Hdr) - 1 = c - bsize[c] - 1
    <3>1. ~(bsize[c] > 0)
      BY <2>1, <2>2
    <3> QED
      BY <2>2, <3>1 DEF End
  <2>4. Service!Cells(c, -bsize[c] - Hdr) = c .. c - bsize[c] - 1
    BY <2>3 DEF Service!Cells
  <2>5. x \in c .. c - bsize[c] - 1 <=> c <= x /\ x < c - bsize[c]
    BY <2>2
  <2> QED
    BY <2>3, <2>4, <2>5
<1>2. x \in Service!Taken <=> \E c \in Allocated : x \in Service!Cells(c, -bsize[c] - Hdr)
  BY DEF Service!Taken
<1> QED
  BY <1>1, <1>2

\* No allocated block lies in a free one.
LEMMA FreeNotTaken ==
  ASSUME HeapInv, NEW b \in DOMAIN bsize \ {Size}, bsize[b] > 0, NEW x \in b .. b + bsize[b] - 1
  PROVE  x \notin Service!Taken
<1>1. ASSUME NEW c \in Allocated, c <= x, x < End(bsize, c) PROVE FALSE
  <2>1. c \in DOMAIN bsize \ {Size} /\ bsize[c] < 0
    BY DEF Allocated
  <2>2. b \in Int /\ bsize[b] \in Int /\ c \in Int /\ bsize[c] \in Int
    BY <2>1, TiledTypes DEF HeapInv
  <2>3. End(bsize, c) \in DOMAIN bsize /\ (b <= c \/ End(bsize, c) <= b)
    BY <2>1, TiledBlock DEF HeapInv
  <2>4. End(bsize, c) \in Int
    BY <2>3, TiledTypes DEF HeapInv
  <2>5. c <= b \/ b + bsize[b] <= c
    <3>1. End(bsize, b) = b + bsize[b] /\ (c <= b \/ End(bsize, b) <= c)
      BY <2>1, TiledBlock DEF HeapInv
    <3> QED
      BY <3>1
  <2>6. x \in Int /\ b <= x /\ x < b + bsize[b]
    BY <2>2
  <2>7. c # b
    BY <2>1, <2>2
  <2> QED
    BY <1>1, <2>2, <2>3, <2>4, <2>5, <2>6, <2>7
<1>2. x \in Int
  <2>1. b \in Int /\ bsize[b] \in Int
    BY TiledTypes DEF HeapInv
  <2> QED
    BY <2>1
<1> QED
  BY <1>1, <1>2, TakenIs

\* The live blocks after an allocation: those before, and a block of its room.
LEMMA LiveGrows ==
  ASSUME NEW b, NEW room, Allocated' = Allocated \union {b},
         \A c \in Allocated : c # b /\ bsize'[c] = bsize[c],
         -bsize'[b] - Hdr = room
  PROVE  Live' = [c \in DOMAIN Live \union {b} |-> IF c = b THEN room ELSE Live[c]]
BY DEF Live

LEMMA GetTailAllocates ==
  ASSUME HeapInv, NEW n \in Sizes, GetTail(n)
  PROVE  Service!Alloc(n)
<1>1. PICK b : b = Best(n)
  OBVIOUS
<1>2. PICK left : left = bsize[b] - (n + Hdr)
  OBVIOUS
<1>3. PICK tail : tail = b + left
  OBVIOUS
<1>4. TailGiven(bsize, prevfree, bsize', prevfree', b, left)
  BY <1>1, <1>2, GetTailGives
<1>5. Fitting(n) # {}
  BY DEF GetTail
<1>6. /\ b \in DOMAIN bsize \ {Size} /\ b \in Int /\ bsize[b] \in Int /\ bsize[b] > 0
      /\ n \in Nat /\ Hdr \in Nat \ {0} /\ SizeQ \in Nat \ {0}
      /\ b + bsize[b] \in DOMAIN bsize
  BY <1>1, <1>5, BestBlock
<1>7. /\ Size \in Nat /\ 0 <= b /\ b + bsize[b] <= Size /\ Sizes \subseteq SizeQ .. Size
  BY <1>6, TiledTypes DEF HeapInv
<1>8. tail \notin DOMAIN bsize /\ b < tail /\ tail < b + bsize[b]
  <2>1. b + left \notin DOMAIN bsize /\ b < b + left /\ b + left < End(bsize, b)
    BY <1>4, TiledTail DEF HeapInv
  <2>2. End(bsize, b) = b + bsize[b]
    BY <1>6 DEF End
  <2> QED
    BY <1>3, <2>1, <2>2
<1>9. /\ DOMAIN bsize' = DOMAIN bsize \union {tail} /\ bsize'[b] = left
      /\ bsize'[tail] = -(n + Hdr) /\ left > 0
      /\ \A c \in DOMAIN bsize : c # b => bsize'[c] = bsize[c]
  <2>1. left - bsize[b] = -(n + Hdr) /\ left \in Int
    BY <1>2, <1>6
  <2>2. left >= Hdr + SizeQ
    BY <1>4 DEF TailGiven
  <2> QED
    BY <1>3, <1>4, <1>6, <2>1, <2>2 DEF TailGiven
<1>10. n \in n .. Size /\ tail \in 0 .. Size - 1 /\ tail + Hdr + n = b + bsize[b] /\ tail \in Int
  <2>1. left \in Int /\ n \in SizeQ .. Size
    BY <1>2, <1>6, <1>7
  <2> QED
    BY <1>2, <1>3, <1>6, <1>7, <1>8, <2>1
<1>11. /\ Allocated' = Allocated \union {tail}
       /\ \A c \in Allocated : c # tail /\ bsize'[c] = bsize[c]
  <2>1. -(n + Hdr) < 0 /\ ~(left < 0) /\ ~(bsize[b] < 0) /\ left \in Int
    BY <1>2, <1>6, <1>9
  <2>2. tail # Size
    BY <1>7, <1>10
  <2>3. ASSUME NEW c \in DOMAIN bsize PROVE bsize'[c] < 0 <=> bsize[c] < 0
    BY <1>9, <2>1
  <2> QED
    BY <1>8, <1>9, <2>1, <2>2, <2>3 DEF Allocated
<1>12. Live' = [c \in DOMAIN Live \union {tail} |-> IF c = tail THEN n ELSE Live[c]]
  <2>1. -bsize'[tail] - Hdr = n
    <3>1. bsize'[tail] = -(n + Hdr)
      BY <1>9
    <3> QED
      BY <1>6, <3>1
  <2>2. Allocated' = Allocated \union {tail}
    BY <1>11
  <2>3. \A c \in Allocated : c # tail /\ bsize'[c] = bsize[c]
    BY <1>11
  <2> QED
    BY <2>1, <2>2, <2>3, LiveGrows, ZenonT(60)
<1>13. Service!Cells(tail, n) = tail .. b + bsize[b] - 1
  <2>1. tail + Hdr + n - 1 = b + bsize[b] - 1
    BY <1>6, <1>10
  <2> QED
    BY <2>1 DEF Service!Cells
<1>14. Service!Cells(tail, n) \subseteq 0 .. Size - 1
  BY <1>6, <1>7, <1>8, <1>10, <1>13
<1>15. Service!Cells(tail, n) \intersect Service!Taken = {}
  <2>1. ASSUME NEW x \in tail .. b + bsize[b] - 1 PROVE x \notin Service!Taken
    <3>1. x \in b .. b + bsize[b] - 1
      BY <1>6, <1>8, <1>10
    <3> QED
      BY <1>6, <3>1, FreeNotTaken
  <2> QED
    BY <1>13, <2>1
<1>16. got' = tail
  BY <1>1, <1>2, <1>3 DEF GetTail
<1> QED
  BY <1>10, <1>12, <1>14, <1>15, <1>16 DEF Service!Alloc, Live

LEMMA GetWholeAllocates ==
  ASSUME HeapInv, NEW n \in Sizes, GetWhole(n)
  PROVE  Service!Alloc(n)
<1>1. PICK b : b = Best(n)
  OBVIOUS
<1>2. WholeGiven(bsize, prevfree, bsize', prevfree', b)
  BY <1>1, GetWholeGives
<1>3. Fitting(n) # {}
  BY DEF GetWhole
<1>4. /\ b \in DOMAIN bsize \ {Size} /\ b \in Int /\ bsize[b] \in Int /\ bsize[b] > 0
      /\ bsize[b] >= n + Hdr /\ n \in Nat /\ Hdr \in Nat \ {0}
      /\ b + bsize[b] \in DOMAIN bsize
  BY <1>1, <1>3, BestBlock
<1>5. Size \in Nat /\ 0 <= b /\ b + bsize[b] <= Size
  BY <1>4, TiledTypes DEF HeapInv
<1>6. /\ DOMAIN bsize' = DOMAIN bsize /\ bsize'[b] = -bsize[b]
      /\ \A c \in DOMAIN bsize : c # b => bsize'[c] = bsize[c]
  BY <1>2 DEF WholeGiven
<1>7. PICK room : room = bsize[b] - Hdr
  OBVIOUS
<1>8. room \in n .. Size /\ b \in 0 .. Size - 1 /\ b + Hdr + room = b + bsize[b]
  BY <1>4, <1>5, <1>7
<1>9. /\ Allocated' = Allocated \union {b}
      /\ \A c \in Allocated : c # b /\ bsize'[c] = bsize[c]
  <2>1. -bsize[b] < 0 /\ ~(bsize[b] < 0)
    BY <1>4
  <2> QED
    BY <1>4, <1>6, <2>1 DEF Allocated
<1>10. Live' = [c \in DOMAIN Live \union {b} |-> IF c = b THEN room ELSE Live[c]]
  <2>1. -bsize'[b] - Hdr = room
    BY <1>4, <1>6, <1>7
  <2> QED
    BY <1>9, <2>1, LiveGrows
<1>11. Service!Cells(b, room) = b .. b + bsize[b] - 1
  <2>1. b + Hdr + room - 1 = b + bsize[b] - 1
    <3>1. room \in Int
      BY <1>4, <1>7
    <3> QED
      BY <1>4, <1>8, <3>1
  <2> QED
    BY <2>1 DEF Service!Cells
<1>12. Service!Cells(b, room) \subseteq 0 .. Size - 1
  BY <1>4, <1>5, <1>11
<1>13. Service!Cells(b, room) \intersect Service!Taken = {}
  BY <1>4, <1>11, FreeNotTaken
<1>14. got' = b
  BY <1>1 DEF GetWhole
<1> QED
  BY <1>8, <1>10, <1>12, <1>13, <1>14 DEF Service!Alloc, Live

\* bget returns NULL only when the room asked for is nowhere.
LEMMA NothingFails ==
  ASSUME HeapInv, NEW n \in Sizes, GetNothing(n)
  PROVE  Service!Fail(n)
<1>1. /\ Size \in Nat /\ Hdr \in Nat \ {0} /\ SizeQ \in Nat \ {0} /\ Sizes \subseteq SizeQ .. Size
      /\ \A c \in DOMAIN bsize : c \in Int /\ 0 <= c /\ c <= Size /\ bsize[c] \in Int
  BY TiledTypes DEF HeapInv
<1>2. n \in Nat
  <2>1. n \in SizeQ .. Size
    BY <1>1
  <2> QED
    BY <1>1, <2>1
<1>3. ASSUME NEW b \in 0 .. Size - n - Hdr, Service!Cells(b, n) \intersect Service!Taken = {}
      PROVE  FALSE
  <2>1. b \in Int /\ b \in 0 .. Size /\ b + n + Hdr <= Size
    BY <1>1, <1>2
  <2>2. PICK a \in DOMAIN bsize : a <= b /\ \A c \in DOMAIN bsize : c <= a \/ b < c
    BY <2>1, BlockAt DEF HeapInv
  <2>3. a \in Int /\ bsize[a] \in Int /\ a # Size
    <3>1. a \in Int /\ bsize[a] \in Int
      BY <1>1
    <3> QED
      BY <1>1, <1>2, <2>1, <2>2, <3>1
  <2>4. /\ End(bsize, a) \in DOMAIN bsize /\ a < End(bsize, a)
        /\ bsize[a] > 0 => bsize[End(bsize, a)] <= 0 /\ End(bsize, a) = a + bsize[a]
        /\ bsize[a] <= 0 => bsize[a] < 0
    BY <2>2, <2>3, TiledBlock DEF HeapInv
  <2>5. End(bsize, a) \in Int /\ b < End(bsize, a)
    <3>1. End(bsize, a) \in Int
      BY <1>1, <2>4
    <3>2. End(bsize, a) <= a \/ b < End(bsize, a)
      BY <2>2, <2>4
    <3> QED
      BY <2>3, <2>4, <3>1, <3>2
  <2>6. ASSUME NEW x \in b .. b + n + Hdr - 1 PROVE x \notin Service!Taken
    <3>1. b + Hdr + n - 1 = b + n + Hdr - 1
      BY <1>1, <1>2, <2>1
    <3>2. x \in Service!Cells(b, n)
      BY <3>1 DEF Service!Cells
    <3> QED
      BY <1>3, <3>2
  <2>7. CASE bsize[a] <= 0
    <3>1. a \in Allocated
      BY <2>3, <2>4, <2>7 DEF Allocated
    <3>2. b \in Service!Taken
      BY <2>1, <2>2, <2>5, <3>1, TakenIs
    <3>3. b \in b .. b + n + Hdr - 1
      BY <1>1, <1>2, <2>1
    <3> QED
      BY <2>6, <3>2, <3>3
  <2>8. CASE bsize[a] > 0
    <3>1. a \in Free
      BY <2>8 DEF Free
    <3>2. PICK i \in DOMAIN freelist : freelist[i] = a
      BY <3>1 DEF HeapInv, Listed
    <3>3. ~(bsize[a] >= n + Hdr)
      BY <3>2 DEF GetNothing, Fitting
    <3>4. PICK e : e = End(bsize, a)
      OBVIOUS
    <3>5. e = a + bsize[a] /\ e \in DOMAIN bsize /\ bsize[e] <= 0 /\ e \in Int /\ b < e
      BY <2>4, <2>5, <2>8, <3>4
    <3>6. e < b + n + Hdr /\ e # Size
      BY <1>1, <1>2, <2>1, <2>2, <2>3, <3>3, <3>5
    <3>7. e \in Allocated /\ e < End(bsize, e)
      <4>1. bsize[e] < 0 /\ e < End(bsize, e)
        BY <3>5, <3>6, TiledBlock DEF HeapInv
      <4> QED
        BY <3>5, <3>6, <4>1 DEF Allocated
    <3>8. e \in Service!Taken
      <4>1. e <= e
        BY <3>5
      <4> QED
        BY <3>5, <3>7, <4>1, TakenIs
    <3>9. e \in b .. b + n + Hdr - 1
      BY <1>1, <1>2, <2>1, <3>5, <3>6
    <3> QED
      BY <2>6, <3>8, <3>9
  <2> QED
    BY <2>3, <2>7, <2>8
<1>4. got' = Service!Null /\ bsize' = bsize
  BY DEF GetNothing, Null, Service!Null
<1>5. Live' = Live
  BY <1>4 DEF Live, Allocated
<1>6. ~\E b \in 0 .. Size - n - Hdr : Service!Cells(b, n) \intersect Service!Taken = {}
  BY <1>3
<1> QED
  BY <1>4, <1>5, <1>6 DEF Service!Fail, Live

\* brel takes one block out of the live ones.
LEMMA ReleaseFrees ==
  ASSUME HeapInv, NEW b \in Allocated, brel(b)
  PROVE  Service!Free(b)
<1>1. b \in DOMAIN bsize \ {Size} /\ bsize[b] < 0 /\ bsize[b] <= 0 /\ b \in Int
  <2>1. b \in DOMAIN bsize \ {Size} /\ bsize[b] < 0
    BY DEF Allocated
  <2>2. bsize[b] \in Int /\ b \in Int
    BY <2>1, TiledTypes DEF HeapInv
  <2> QED
    BY <2>1, <2>2
<1>2. PICK first : first = FirstOf(prevfree, b)
  OBVIOUS
<1>3. PICK next : next = NextOf(bsize, b)
  OBVIOUS
<1>4. PICK last : last = LastOf(bsize, b)
  OBVIOUS
<1>5. /\ DOMAIN bsize' = (DOMAIN bsize \ GoneOf(bsize, prevfree, b)) \union {first}
      /\ bsize'[first] = last - first
      /\ \A c \in DOMAIN bsize \ GoneOf(bsize, prevfree, b) : c # first => bsize'[c] = bsize[c]
  BY <1>2, <1>4, ReleaseJoins DEF Joined
<1>6. /\ first \in DOMAIN bsize /\ first <= b
      /\ first # b => bsize[first] > 0
      /\ next \in DOMAIN bsize /\ b < next /\ last \in DOMAIN bsize /\ next <= last
  BY <1>1, <1>2, <1>3, <1>4, Around DEF HeapInv
<1>7. /\ \A c \in DOMAIN bsize : c \in GoneOf(bsize, prevfree, b) <=> first < c /\ c < last
      /\ \A c \in GoneOf(bsize, prevfree, b) : c = b \/ (c = next /\ bsize[next] > 0)
  BY <1>1, <1>2, <1>3, <1>4, JoinKeeps DEF HeapInv
<1>8. \A c \in DOMAIN bsize : c \in Int /\ bsize[c] \in Int
  BY TiledTypes DEF HeapInv
<1>9. first \in Int /\ next \in Int /\ last \in Int /\ last - first > 0
  <2>1. first \in DOMAIN bsize /\ next \in DOMAIN bsize /\ last \in DOMAIN bsize
    BY <1>6
  <2>2. first \in Int
    BY <1>8, <2>1
  <2>3. next \in Int
    BY <1>8, <2>1
  <2>4. last \in Int
    BY <1>8, <2>1
  <2>5. first <= b /\ b < next /\ next <= last /\ b \in Int
    BY <1>1, <1>6
  <2> QED
    BY <2>2, <2>3, <2>4, <2>5
<1>10. ASSUME NEW c
       PROVE  /\ c \in Allocated' <=> c \in Allocated \ {b}
              /\ c \in Allocated \ {b} => bsize'[c] = bsize[c]
  <2>1. ASSUME c \in Allocated \ {b}
        PROVE  c \in Allocated' /\ bsize'[c] = bsize[c]
    <3>1. c \in DOMAIN bsize \ {Size} /\ bsize[c] < 0 /\ c # b
      BY <2>1 DEF Allocated
    <3>2. ~(bsize[c] > 0)
      BY <1>8, <3>1
    <3>3. c # first
      <4>1. first # b => bsize[first] > 0
        BY <1>6
      <4> QED
        BY <3>1, <3>2, <4>1
    <3>4. c \notin GoneOf(bsize, prevfree, b)
      BY <1>7, <3>1, <3>2
    <3> QED
      BY <1>5, <3>1, <3>3, <3>4 DEF Allocated
  <2>2. ASSUME c \in Allocated' PROVE c \in Allocated \ {b}
    <3>1. c \in DOMAIN bsize' \ {Size} /\ bsize'[c] < 0
      BY <2>2 DEF Allocated
    <3>2. c # first
      <4>1. ~(last - first < 0)
        BY <1>9
      <4> QED
        BY <1>5, <3>1, <4>1
    <3>3. c \in DOMAIN bsize \ GoneOf(bsize, prevfree, b) /\ bsize'[c] = bsize[c]
      BY <1>5, <3>1, <3>2
    <3>4. c # b
      <4>1. ASSUME c = b PROVE FALSE
        <5>1. first # b
          BY <3>2, <4>1
        <5>2. first < b /\ b < last
          <6>1. first <= b /\ b < next /\ next <= last /\ b \in Int
            BY <1>1, <1>6
          <6> QED
            BY <1>9, <5>1, <6>1
        <5> QED
          BY <1>1, <1>7, <3>3, <4>1, <5>2
      <4> QED
        BY <4>1
    <3> QED
      BY <3>1, <3>3, <3>4 DEF Allocated
  <2> QED
    BY <2>1, <2>2
<1>11. Allocated' = Allocated \ {b}
  BY <1>10
<1>12. \A c \in Allocated \ {b} : bsize'[c] = bsize[c]
  BY <1>10
<1>13. Live' = [c \in DOMAIN Live \ {b} |-> Live[c]]
  BY <1>11, <1>12 DEF Live
<1>14. got' = got
  BY DEF brel
<1> QED
  BY <1>13, <1>14 DEF Service!Free, Live

(***************************************************************************)
(* bget and brel are an allocator.                                         *)
(***************************************************************************)
THEOREM BgetIsAllocator == BgetSpec => BgetImplements
<1>1. BgetInit => Service!Init
  BY AllocInit, BgetAssumption
<1>2. HeapInv /\ [BgetNext]_bgetVars => [Service!Next]_<<[b \in Allocated |-> -bsize[b] - Hdr], got>>
  <2> SUFFICES ASSUME HeapInv, [BgetNext]_bgetVars
               PROVE  [Service!Next]_<<[b \in Allocated |-> -bsize[b] - Hdr], got>>
    OBVIOUS
  <2>1. ASSUME NEW n \in Sizes, bget(n) PROVE Service!Next
    <3>1. CASE GetTail(n)
      BY <3>1, GetTailAllocates DEF Service!Next
    <3>2. CASE GetWhole(n)
      BY <3>2, GetWholeAllocates DEF Service!Next
    <3>3. CASE GetNothing(n)
      BY <3>3, NothingFails DEF Service!Next
    <3> QED
      BY <2>1, <3>1, <3>2, <3>3 DEF bget
  <2>2. ASSUME NEW b \in Allocated, brel(b) PROVE Service!Next
    <3>1. b \in DOMAIN [c \in Allocated |-> -bsize[c] - Hdr]
      OBVIOUS
    <3> QED
      BY <2>2, <3>1, ReleaseFrees DEF Service!Next
  <2>3. CASE UNCHANGED bgetVars
    BY <2>3 DEF bgetVars, Allocated
  <2> QED
    BY <2>1, <2>2, <2>3 DEF BgetNext
<1> QED
  BY <1>1, <1>2, HeapInvariance, PTL DEF BgetSpec, BgetImplements, Service!Spec
=============================================================================
