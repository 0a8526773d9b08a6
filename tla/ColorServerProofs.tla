-------------------------- MODULE ColorServerProofs --------------------------
(***************************************************************************)
(* Proofs about ColorServer, for every pool, every set of channels and     *)
(* datagrams and every width of the object counter: its types, that a      *)
(* pbuf with a retained datagram is not filled again, that the pool is     *)
(* exhausted by objects only, and that the callback uses the object store  *)
(* as the store's interface says.                                          *)
(*                                                                         *)
(* Below them the proofs about IpReass, for every set of fragments and all *)
(* limits: the books of ip_frag.c agree with what waits, nothing that is   *)
(* complete waits, a fragment never costs its own datagram, and what it    *)
(* takes of the fragments for every datagram returned to be whole.         *)
(***************************************************************************)
EXTENDS ColorServer, IpReass, Integers, Sequences, FiniteSetTheorems, SequenceTheorems,
        WellFoundedInduction, TLAPS

\* The references of the callback to its pbuf, at each of its points.
Control ==
  /\ pc = "idle" => cur = None /\ hand = 0
  /\ pc # "idle" => cur \in Pbufs
  /\ pc \in {"channels", "push"} => hand = 1
  /\ pc = "allocate" => hand = 2
  /\ pc \in {"allocate", "push"} => todo # << >> /\ Head(todo).type = "argb"
  /\ pc = "push" => allocs > 0
  /\ cur \in Pbufs => hand <= refs[cur]
  /\ dropped <= received

ServerInv == TypeOK /\ Control

LEMMA Apart == None \notin Pbufs
  BY ServerAssumption

LEMMA ModRange == ASSUME NEW n \in Nat, NEW m \in Nat \ {0} PROVE n % m \in 0 .. m - 1
  OBVIOUS

LEMMA NextIdType == ASSUME ServerInv PROVE Store!NextId \in Store!Ids
  BY ServerAssumption, ModRange DEF ServerInv, TypeOK, Store!TypeOK, Store!Ids, Store!NextId

LEMMA TailType == ASSUME NEW S, NEW s \in Seq(S), s # << >> PROVE Tail(s) \in Seq(S) /\ Head(s) \in S
  OBVIOUS

LEMMA NewObjectType ==
  ASSUME NEW b \in Pbufs
  PROVE  /\ Store!NewObject("argb", b) \in Store!Object
         /\ Store!NewObject("argb", b) # None
         /\ Store!NewObject("argb", b).mem = b
  BY NoneAssumption DEF Store!NewObject, Store!Object, Store!NoBuffers, Store!Table, BufferTypes

-----------------------------------------------------------------------------
(* The references the store has, action by action.                         *)

LEMMA StoreRefsType ==
  ASSUME TypeOK, Control PROVE StoreRefs \in [Pbufs -> Nat]
  <1>1. ASSUME NEW p \in Pbufs PROVE (IF p = cur THEN refs[p] - hand ELSE refs[p]) \in Nat
    BY DEF TypeOK, Control
  <1> QED BY <1>1 DEF StoreRefs

\* A step that moves no reference into or out of the store leaves its counts.
LEMMA StoreRefsKept ==
  ASSUME \A p \in Pbufs : (IF p = cur' THEN refs'[p] - hand' ELSE refs'[p])
                            = IF p = cur THEN refs[p] - hand ELSE refs[p]
  PROVE  StoreRefs' = StoreRefs
  BY DEF StoreRefs

LEMMA ServerInit == ASSUME Init PROVE ServerInv
  <1> USE ServerAssumption DEF Init
  <1>1. Control
    BY DEF Control
  <1>2. StoreRefs = [p \in Pbufs |-> 0]
    BY Apart DEF StoreRefs
  <1>3. 0 \in Store!Ids
    BY DEF Store!Ids
  <1>4. Store!NoBuffers \in Store!Table
    BY DEF Store!NoBuffers, Store!Table
  <1>5. Store!TypeOK
    BY <1>2, <1>3, <1>4 DEF Store!TypeOK
  <1>6. TypeOK
    BY <1>5 DEF TypeOK
  <1> QED BY <1>1, <1>6 DEF ServerInv

-----------------------------------------------------------------------------
(* Each step keeps the types, and is a step of the store or none.          *)

StoreVarsKept == UNCHANGED <<numObjects, objects, leaked, pending, allocs>>

LEMMA StoreKept ==
  ASSUME ServerInv, StoreVarsKept, StoreRefs' = StoreRefs
  PROVE  Store!TypeOK' /\ [Store!Next]_Store!storeVars
  <1>1. Store!TypeOK'
    BY DEF ServerInv, TypeOK, Store!TypeOK, StoreVarsKept
  <1>2. UNCHANGED Store!storeVars
    BY DEF Store!storeVars, StoreVarsKept
  <1> QED BY <1>1, <1>2

LEMMA ArriveStep ==
  ASSUME ServerInv, NEW p \in Pbufs, Arrive(p), pc' \in {"channels", "halted"},
         todo' \in Seq(Item)
  PROVE  ServerInv' /\ StoreVarsKept /\ StoreRefs' = StoreRefs
  <1> USE DEF ServerInv
  <1>1. /\ pc = "idle" /\ cur = None /\ refs[p] = 0 /\ cur' = p /\ hand' = 1
        /\ received' = received + 1 /\ received < MaxDatagrams
        /\ UNCHANGED <<dropped, origin>> /\ StoreVarsKept
    BY DEF Arrive, Control, objectVars, StoreVarsKept
  <1>2. /\ refs' \in [Pbufs -> Nat]
        /\ \A q \in Pbufs : refs'[q] = IF q = p THEN 1 ELSE refs[q]
    BY DEF Arrive, TypeOK
  <1>3. StoreRefs' = StoreRefs
    <2>1. ASSUME NEW q \in Pbufs
          PROVE  (IF q = cur' THEN refs'[q] - hand' ELSE refs'[q])
                   = IF q = cur THEN refs[q] - hand ELSE refs[q]
      BY <1>1, <1>2, Apart DEF TypeOK
    <2> QED BY <2>1, StoreRefsKept
  <1>4. content' \in [Pbufs -> 0 .. MaxDatagrams] /\ received' \in 0 .. MaxDatagrams
    <2>1. received' \in 0 .. MaxDatagrams
      BY <1>1, ServerAssumption DEF TypeOK
    <2>2. content' = [content EXCEPT ![p] = received']
      BY <1>1 DEF Arrive
    <2> QED BY <2>1, <2>2 DEF TypeOK
  <1>5. TypeOK'
    BY <1>1, <1>2, <1>3, <1>4, StoreKept DEF TypeOK
  <1>6. Control'
    BY <1>1, <1>2 DEF Control, TypeOK
  <1> QED BY <1>1, <1>3, <1>5, <1>6

LEMMA DropStep ==
  ASSUME ServerInv, Drop
  PROVE  ServerInv' /\ StoreVarsKept /\ StoreRefs' = StoreRefs
  <1> USE DEF ServerInv
  <1>1. /\ UNCHANGED <<refs, content, pc, cur, hand, todo, origin>> /\ StoreVarsKept
        /\ received' = received + 1 /\ dropped' = dropped + 1 /\ received < MaxDatagrams
    BY DEF Drop, objectVars, StoreVarsKept
  <1>2. StoreRefs' = StoreRefs
    BY <1>1 DEF StoreRefs
  <1>3. received' \in 0 .. MaxDatagrams /\ dropped' \in 0 .. MaxDatagrams /\ dropped' <= received'
    BY <1>1, ServerAssumption DEF TypeOK, Control
  <1>4. TypeOK'
    BY <1>1, <1>2, <1>3, StoreKept DEF TypeOK
  <1>5. Control'
    BY <1>1, <1>3 DEF Control, StoreVarsKept
  <1> QED BY <1>1, <1>2, <1>4, <1>5

\* pbuf_ref, a failed operator new and pbuf_free: references of the callback only.
LEMMA RefPbufStep ==
  ASSUME ServerInv, RefPbuf
  PROVE  ServerInv' /\ StoreVarsKept /\ StoreRefs' = StoreRefs
  <1> USE DEF ServerInv
  <1>1. /\ pc = "channels" /\ pc' = "allocate" /\ cur \in Pbufs /\ cur' = cur /\ hand = 1 /\ hand' = 2
        /\ todo # << >> /\ Head(todo).type = "argb"
        /\ UNCHANGED <<content, received, dropped, todo, origin>> /\ StoreVarsKept
    BY DEF RefPbuf, Control, objectVars, StoreVarsKept
  <1>2. /\ refs' \in [Pbufs -> Nat]
        /\ \A q \in Pbufs : refs'[q] = IF q = cur THEN refs[q] + 1 ELSE refs[q]
    BY <1>1 DEF RefPbuf, TypeOK
  <1>3. StoreRefs' = StoreRefs
    <2>1. ASSUME NEW q \in Pbufs
          PROVE  (IF q = cur' THEN refs'[q] - hand' ELSE refs'[q])
                   = IF q = cur THEN refs[q] - hand ELSE refs[q]
      BY <1>1, <1>2 DEF TypeOK
    <2> QED BY <2>1, StoreRefsKept
  <1>4. TypeOK'
    BY <1>1, <1>2, <1>3, StoreKept DEF TypeOK
  <1>5. Control'
    BY <1>1, <1>2 DEF Control, TypeOK
  <1> QED BY <1>1, <1>3, <1>4, <1>5

LEMMA OutOfMemoryStep ==
  ASSUME ServerInv, OutOfMemory
  PROVE  ServerInv' /\ StoreVarsKept /\ StoreRefs' = StoreRefs
  <1> USE DEF ServerInv
  <1>1. /\ pc = "allocate" /\ pc' = "halted" /\ cur \in Pbufs /\ cur' = cur /\ hand = 2
        /\ UNCHANGED <<content, received, dropped, todo, origin>> /\ StoreVarsKept
        /\ refs[cur] \in Nat /\ hand <= refs[cur]
    BY DEF OutOfMemory, Control, TypeOK, objectVars, StoreVarsKept
  <1>2. \/ refs' = refs /\ hand' = 2
        \/ refs' = [refs EXCEPT ![cur] = @ - 1] /\ hand' = 1
    BY <1>1 DEF OutOfMemory
  <1>3. /\ refs' \in [Pbufs -> Nat] /\ hand' \in 0 .. 2 /\ hand' <= refs'[cur]
        /\ \A q \in Pbufs : refs'[q] = IF q = cur THEN refs[q] - hand + hand' ELSE refs[q]
    <2>1. CASE refs' = refs /\ hand' = 2
      BY <1>1, <2>1 DEF TypeOK
    <2>2. CASE refs' = [refs EXCEPT ![cur] = @ - 1] /\ hand' = 1
      BY <1>1, <2>2 DEF TypeOK
    <2> QED BY <1>2, <2>1, <2>2
  <1>4. StoreRefs' = StoreRefs
    <2>1. ASSUME NEW q \in Pbufs
          PROVE  (IF q = cur' THEN refs'[q] - hand' ELSE refs'[q])
                   = IF q = cur THEN refs[q] - hand ELSE refs[q]
      BY <1>1, <1>3 DEF TypeOK
    <2> QED BY <2>1, StoreRefsKept
  <1>5. TypeOK'
    BY <1>1, <1>3, <1>4, StoreKept DEF TypeOK
  <1>6. Control'
    BY <1>1, <1>3 DEF Control
  <1> QED BY <1>1, <1>4, <1>5, <1>6

LEMMA FinishStep ==
  ASSUME ServerInv, Finish
  PROVE  ServerInv' /\ StoreVarsKept /\ StoreRefs' = StoreRefs
  <1> USE DEF ServerInv
  <1>1. /\ pc = "channels" /\ pc' = "idle" /\ cur \in Pbufs /\ cur' = None /\ hand = 1 /\ hand' = 0
        /\ UNCHANGED <<content, received, dropped, todo, origin>> /\ StoreVarsKept
        /\ refs[cur] \in Nat /\ 1 <= refs[cur]
    BY DEF Finish, Control, TypeOK, objectVars, StoreVarsKept
  <1>2. /\ refs' \in [Pbufs -> Nat]
        /\ \A q \in Pbufs : refs'[q] = IF q = cur THEN refs[q] - 1 ELSE refs[q]
    BY <1>1 DEF Finish, TypeOK
  <1>3. StoreRefs' = StoreRefs
    <2>1. ASSUME NEW q \in Pbufs
          PROVE  (IF q = cur' THEN refs'[q] - hand' ELSE refs'[q])
                   = IF q = cur THEN refs[q] - hand ELSE refs[q]
      BY <1>1, <1>2, Apart DEF TypeOK
    <2> QED BY <2>1, StoreRefsKept
  <1>4. TypeOK'
    BY <1>1, <1>2, <1>3, StoreKept DEF TypeOK
  <1>5. Control'
    BY <1>1, Apart DEF Control
  <1> QED BY <1>1, <1>3, <1>4, <1>5

LEMMA SkipStep ==
  ASSUME ServerInv, SkipChannel
  PROVE  ServerInv' /\ StoreVarsKept /\ StoreRefs' = StoreRefs
  <1> USE DEF ServerInv
  <1>1. /\ pc = "channels" /\ UNCHANGED <<refs, content, received, dropped, pc, cur, hand, origin>>
        /\ StoreVarsKept /\ todo # << >> /\ todo' = Tail(todo)
    BY DEF SkipChannel, objectVars, poolVars, StoreVarsKept
  <1>2. StoreRefs' = StoreRefs
    BY <1>1 DEF StoreRefs
  <1>3. todo' \in Seq(Item)
    BY <1>1, TailType DEF TypeOK
  <1>4. TypeOK'
    BY <1>1, <1>2, <1>3, StoreKept DEF TypeOK
  <1>5. Control'
    BY <1>1 DEF Control
  <1> QED BY <1>1, <1>2, <1>4, <1>5

\* allocateBuffer: the store has the reference of pbuf_ref now.
LEMMA AllocateStep ==
  ASSUME ServerInv, AllocateChannel
  PROVE  ServerInv' /\ Store!UserAllocates
  <1> USE DEF ServerInv
  <1> DEFINE i == Store!NextId
  <1>1. /\ pc = "allocate" /\ pc' = "push" /\ cur \in Pbufs /\ cur' = cur /\ hand = 2 /\ hand' = 1
        /\ UNCHANGED <<pending, refs, content, received, dropped, todo>>
        /\ refs[cur] \in Nat /\ 2 <= refs[cur] /\ i \in Store!Ids
        /\ allocs' = allocs + 1 /\ allocs < MaxAllocs /\ numObjects' = i
        /\ todo # << >> /\ Head(todo).type = "argb"
    BY NextIdType DEF AllocateChannel, Store!AllocateObject, Control, TypeOK, poolVars
  <1>2. allocs' \in 0 .. MaxAllocs /\ allocs' > 0
    BY <1>1, ServerAssumption DEF TypeOK, Store!TypeOK
  <1>3. \A q \in Pbufs : StoreRefs'[q] = IF q = cur THEN StoreRefs[q] + 1 ELSE StoreRefs[q]
    BY <1>1 DEF StoreRefs, TypeOK
  <1>4. StoreRefs' = [StoreRefs EXCEPT ![cur] = @ + 1]
    BY <1>1, <1>3 DEF StoreRefs
  <1>5. Control'
    BY <1>1, <1>2 DEF Control
  <1>6. /\ objects' \in [Store!Ids -> Store!Object \union {None}]
        /\ leaked' \in [Pbufs \union {None} -> Nat]
    <2>1. CASE objects[i] = None
      <3>1. objects' = [objects EXCEPT ![i] = Store!NewObject("argb", cur)] /\ leaked' = leaked
        BY <2>1 DEF AllocateChannel, Store!AllocateObject
      <3> QED BY <1>1, <3>1, NewObjectType DEF TypeOK, Store!TypeOK
    <2>2. CASE objects[i] # None
      <3>1. objects' = objects /\ leaked' = [leaked EXCEPT ![cur] = @ + 1]
        BY <2>2 DEF AllocateChannel, Store!AllocateObject
      <3> QED BY <1>1, <3>1 DEF TypeOK, Store!TypeOK
    <2> QED BY <2>1, <2>2
  <1>7. StoreRefs' \in [Pbufs -> Nat]
    BY <1>1, <1>4, StoreRefsType
  <1>8. Store!TypeOK'
    BY <1>1, <1>2, <1>6, <1>7 DEF TypeOK, Store!TypeOK
  <1>9. origin' \in [Store!Ids -> 0 .. MaxDatagrams]
    <2>1. content[cur] \in 0 .. MaxDatagrams /\ numObjects' \in Store!Ids
      BY <1>1 DEF TypeOK
    <2> QED BY <2>1 DEF AllocateChannel, TypeOK
  <1>10. TypeOK'
    BY <1>1, <1>8, <1>9 DEF TypeOK
  <1>11. Store!AllocateBuffer("argb", cur)
    BY <1>4 DEF AllocateChannel, Store!AllocateBuffer
  <1> QED BY <1>1, <1>5, <1>10, <1>11 DEF Store!UserAllocates, BufferTypes

\* pushPendingBuffer, with the id just given out.
LEMMA PushStep ==
  ASSUME ServerInv, PushChannel
  PROVE  ServerInv' /\ Store!UserPends
  <1> USE DEF ServerInv
  <1>1. /\ pc = "push" /\ pc' = "channels" /\ todo # << >> /\ todo' = Tail(todo)
        /\ Head(todo).type = "argb" /\ allocs > 0
        /\ UNCHANGED <<numObjects, objects, leaked, allocs, refs, content, received, dropped,
                       cur, hand, origin>>
    BY DEF PushChannel, Control, objectVars, poolVars
  <1>2. todo' \in Seq(Item) /\ Head(todo) \in Item
    BY <1>1, TailType DEF TypeOK
  <1>3. PICK c \in Channels : c = Head(todo).ch
    BY <1>2 DEF Item
  <1>4. Store!PushPendingBuffer(c, numObjects, "argb")
    BY <1>1, <1>3 DEF PushChannel
  <1>5. StoreRefs' = StoreRefs
    BY <1>1 DEF StoreRefs
  <1>6. [type |-> "argb", id |-> numObjects] \in Store!Entry
    BY DEF TypeOK, Store!TypeOK, Store!Entry, BufferTypes
  <1>7. pending' \in Store!Table
    BY <1>4, <1>6 DEF Store!PushPendingBuffer, TypeOK, Store!TypeOK, Store!Table
  <1>8. Store!TypeOK'
    BY <1>1, <1>5, <1>7 DEF TypeOK, Store!TypeOK
  <1>9. TypeOK'
    BY <1>1, <1>2, <1>8 DEF TypeOK
  <1>10. Control'
    BY <1>1 DEF Control
  <1>11. Store!UserPends
    BY <1>1, <1>4, <1>5 DEF Store!UserPends, BufferTypes
  <1> QED BY <1>9, <1>10, <1>11

-----------------------------------------------------------------------------
LEMMA ServerStep ==
  ASSUME ServerInv, [Next]_vars
  PROVE  ServerInv' /\ [Store!Next]_Store!storeVars
  <1>1. ASSUME NEW p \in Pbufs, NEW d \in Datagrams, Receive(p, d)
        PROVE  ServerInv' /\ [Store!Next]_Store!storeVars
    BY <1>1, ServerAssumption, ArriveStep, StoreKept DEF Receive
  <1>2. ASSUME NEW p \in Pbufs, ParseThrows(p)
        PROVE  ServerInv' /\ [Store!Next]_Store!storeVars
    BY <1>2, ArriveStep, StoreKept DEF ParseThrows, ServerInv, TypeOK
  <1>3. CASE Drop
    BY <1>3, DropStep, StoreKept
  <1>4. CASE SkipChannel
    BY <1>4, SkipStep, StoreKept
  <1>5. CASE RefPbuf
    BY <1>5, RefPbufStep, StoreKept
  <1>6. CASE AllocateChannel
    BY <1>6, AllocateStep DEF Store!Next
  <1>7. CASE PushChannel
    BY <1>7, PushStep DEF Store!Next
  <1>8. CASE Finish
    BY <1>8, FinishStep, StoreKept
  <1>9. CASE OutOfMemory
    BY <1>9, OutOfMemoryStep, StoreKept
  <1>10. CASE UNCHANGED vars
    <2>1. StoreVarsKept /\ StoreRefs' = StoreRefs
      BY <1>10 DEF vars, objectVars, poolVars, StoreVarsKept, StoreRefs
    <2>2. ServerInv'
      BY <1>10, <2>1, StoreKept DEF vars, poolVars, StoreVarsKept, ServerInv, TypeOK, Control
    <2> QED BY <2>1, <2>2, StoreKept
  <1> QED BY <1>1, <1>2, <1>3, <1>4, <1>5, <1>6, <1>7, <1>8, <1>9, <1>10 DEF Next, Callback

(* The types, and the references the callback holds at each of its points. *)
THEOREM ServerInvariance == Spec => []ServerInv
  <1>1. ServerInv /\ [Next]_vars => ServerInv'
    BY ServerStep
  <1> QED BY <1>1, ServerInit, PTL DEF Spec

(* Pool, callback and store keep their types: no pbuf is freed more often  *)
(* than it was referenced, and hand never exceeds what p->ref holds.       *)
THEOREM TypeCorrect == Spec => []TypeOK
  <1>1. ServerInv => TypeOK
    BY DEF ServerInv
  <1> QED BY <1>1, ServerInvariance, PTL

(* udp_colorserver_receive_callback uses the object store as the store's   *)
(* specification allows: every object it makes comes with the reference    *)
(* that keeps its pbuf, whatever fails in between.                         *)
THEOREM ServerUsesStore == Spec => ImplementsStore
  <1>1. Init => Store!Init
    <2>1. ASSUME Init PROVE StoreRefs = [p \in Pbufs |-> 0]
      BY <2>1, Apart DEF Init, StoreRefs
    <2> QED BY <2>1 DEF Init, Store!Init
  <1>2. ServerInv /\ [Next]_vars => [Store!Next]_Store!storeVars
    BY ServerStep
  <1> QED BY <1>1, <1>2, ServerInvariance, PTL DEF Spec, ImplementsStore, Store!Spec

-----------------------------------------------------------------------------
(* What the objects keep.                                                  *)

\* Every object lies in a pbuf, filled with the datagram it was made of.
InPool == \A i \in Store!Ids : objects[i] # None => objects[i].mem \in Pbufs

\* While the counter has not come round, the ids given out are the ones used.
IdsFresh ==
  allocs < IdMod => /\ numObjects = allocs
                    /\ \A i \in Store!Ids : objects[i] # None => i \in 1 .. allocs

\* What a pbuf is referenced by, besides the callback: objects and lost objects.
RefsCount ==
  \A b \in Pbufs : StoreRefs[b] = Cardinality(Store!Holders(b)) + leaked[b]

KeepInv ==
  /\ ServerInv /\ InPool /\ IdsFresh /\ RetainedDataKept
  /\ RefsCount /\ Store!NothingLostBeforeWrap

LEMMA HoldersFinite ==
  ASSUME NEW b
  PROVE  IsFiniteSet(Store!Holders(b)) /\ Cardinality(Store!Holders(b)) \in Nat
  <1>1. IsFiniteSet(Store!Ids)
    BY ServerAssumption, FS_Interval DEF Store!Ids
  <1>2. IsFiniteSet(Store!Holders(b))
    BY <1>1, FS_Subset DEF Store!Holders
  <1> QED BY <1>2, FS_CardinalityType

\* A pbuf in the pool backs no object, and one that backs none is free or lost.
LEMMA HeldPbufs ==
  ASSUME KeepInv, cur = None, NEW p \in Pbufs
  PROVE  /\ refs[p] = 0 => Store!Holders(p) = {}
         /\ refs[p] # 0 => Store!Holders(p) # {} \/ leaked[p] # 0
  <1>1. StoreRefs[p] = refs[p]
    BY Apart DEF StoreRefs
  <1>2. refs[p] = Cardinality(Store!Holders(p)) + leaked[p]
    BY <1>1 DEF KeepInv, RefsCount
  <1>3. leaked[p] \in Nat
    BY DEF KeepInv, ServerInv, TypeOK, Store!TypeOK
  <1>4. Cardinality(Store!Holders(p)) \in Nat
        /\ (Cardinality(Store!Holders(p)) = 0 <=> Store!Holders(p) = {})
    BY HoldersFinite, FS_EmptySet
  <1> QED BY <1>2, <1>3, <1>4

LEMMA KeepInit == ASSUME Init PROVE KeepInv
  <1>1. ServerInv
    BY ServerInit
  <1>2. \A i \in Store!Ids : objects[i] = None
    BY DEF Init
  <1>3. \A b \in Pbufs : StoreRefs[b] = 0 /\ leaked[b] = 0
    BY Apart DEF Init, StoreRefs
  <1>4. \A b \in Pbufs : Cardinality(Store!Holders(b)) = 0
    <2>1. \A b \in Pbufs : Store!Holders(b) = {}
      BY <1>2 DEF Store!Holders
    <2> QED BY <2>1, FS_EmptySet
  <1>5. RefsCount
    BY <1>3, <1>4 DEF RefsCount
  <1>6. IdsFresh /\ Store!NothingLostBeforeWrap
    BY <1>2 DEF Init, IdsFresh, Store!NothingLostBeforeWrap
  <1>7. InPool /\ RetainedDataKept
    BY <1>2 DEF InPool, RetainedDataKept
  <1> QED BY <1>1, <1>5, <1>6, <1>7 DEF KeepInv

\* A step that leaves the store alone and fills no pbuf that backs an object.
LEMMA KeepsAll ==
  ASSUME KeepInv, ServerInv', StoreVarsKept, StoreRefs' = StoreRefs, origin' = origin,
         \A i \in Store!Ids : objects[i] # None => content'[objects[i].mem] = content[objects[i].mem]
  PROVE  KeepInv'
  <1>1. InPool' /\ IdsFresh' /\ RetainedDataKept'
    BY DEF KeepInv, StoreVarsKept, InPool, IdsFresh, RetainedDataKept
  <1>2. RefsCount' /\ Store!NothingLostBeforeWrap'
    BY DEF KeepInv, StoreVarsKept, RefsCount, Store!Holders, Store!NothingLostBeforeWrap
  <1> QED BY <1>1, <1>2 DEF KeepInv

LEMMA KeepArrive ==
  ASSUME KeepInv, NEW p \in Pbufs, Arrive(p), pc' \in {"channels", "halted"}, todo' \in Seq(Item)
  PROVE  KeepInv'
  <1>1. ServerInv' /\ StoreVarsKept /\ StoreRefs' = StoreRefs
    BY ArriveStep DEF KeepInv
  <1>2. cur = None /\ refs[p] = 0 /\ origin' = origin
    BY DEF Arrive, KeepInv, ServerInv, Control
  <1>3. Store!Holders(p) = {}
    BY <1>2, HeldPbufs
  <1>4. ASSUME NEW i \in Store!Ids, objects[i] # None
        PROVE  content'[objects[i].mem] = content[objects[i].mem]
    <2>1. objects[i].mem \in Pbufs /\ objects[i].mem # p
      BY <1>3, <1>4 DEF KeepInv, InPool, Store!Holders
    <2> QED BY <2>1 DEF Arrive, KeepInv, ServerInv, TypeOK
  <1> QED BY <1>1, <1>2, <1>4, KeepsAll

\* allocateObject("argb", cur): the pbuf gains a holder, or its object is lost.
LEMMA HoldersGrow ==
  ASSUME TypeOK, NEW i \in Store!Ids, objects[i] = None, NEW m \in Pbufs,
         objects' = [objects EXCEPT ![i] = Store!NewObject("argb", m)], NEW b \in Pbufs
  PROVE  Cardinality(Store!Holders(b))'
           = IF b = m THEN Cardinality(Store!Holders(b)) + 1 ELSE Cardinality(Store!Holders(b))
  <1>1. Store!Holders(b)' = IF b = m THEN Store!Holders(b) \union {i} ELSE Store!Holders(b)
    BY NewObjectType DEF Store!Holders, TypeOK, Store!TypeOK
  <1>2. i \notin Store!Holders(b)
    BY DEF Store!Holders
  <1>3. IsFiniteSet(Store!Holders(b)) /\ Cardinality(Store!Holders(b)) \in Nat
    BY HoldersFinite
  <1>4. Cardinality(Store!Holders(b) \union {i}) = Cardinality(Store!Holders(b)) + 1
    BY <1>2, <1>3, FS_AddElement
  <1> QED BY <1>1, <1>4

\* The id the counter gives out next is free until it has come round.
LEMMA NextIdFree ==
  ASSUME TypeOK, IdsFresh, allocs + 1 <= IdMod
  PROVE  /\ allocs < IdMod
         /\ allocs + 1 < IdMod => Store!NextId = allocs + 1
         /\ objects[Store!NextId] = None
  <1>1. allocs \in Nat /\ IdMod \in Nat \ {0}
    BY ServerAssumption DEF TypeOK, Store!TypeOK
  <1>2. allocs < IdMod /\ numObjects = allocs
    BY <1>1 DEF IdsFresh
  <1>3. allocs + 1 < IdMod => Store!NextId = allocs + 1
    BY <1>1, <1>2 DEF Store!NextId
  <1>4. allocs + 1 = IdMod => Store!NextId = 0
    BY <1>1, <1>2 DEF Store!NextId
  <1>5. Store!NextId \in Store!Ids /\ Store!NextId \notin 1 .. allocs
    BY <1>1, <1>2, <1>3, <1>4 DEF Store!Ids
  <1> QED BY <1>2, <1>3, <1>5 DEF IdsFresh

\* allocateBuffer under a free id: the new object keeps the datagram in cur.
LEMMA KeepAllocate ==
  ASSUME KeepInv, AllocateChannel
  PROVE  KeepInv'
  <1> DEFINE i == Store!NextId
  <1>1. ServerInv' /\ TypeOK /\ RefsCount /\ IdsFresh /\ InPool /\ RetainedDataKept
    BY AllocateStep DEF KeepInv, ServerInv
  <1>2. /\ cur \in Pbufs /\ cur' = cur /\ hand' = hand - 1 /\ refs' = refs /\ content' = content
        /\ allocs' = allocs + 1 /\ numObjects' = i /\ i \in Store!Ids /\ hand = 2
    BY NextIdType DEF AllocateChannel, Store!AllocateObject, KeepInv, ServerInv, Control, poolVars
  <1>3. \A q \in Pbufs : StoreRefs'[q] = IF q = cur THEN StoreRefs[q] + 1 ELSE StoreRefs[q]
    BY <1>1, <1>2 DEF StoreRefs, TypeOK
  <1>4. allocs \in Nat /\ allocs' \in Nat /\ IdMod \in Nat \ {0}
    BY <1>1, <1>2, ServerAssumption DEF TypeOK, Store!TypeOK
  <1>5. allocs' <= IdMod => /\ allocs < IdMod
                            /\ allocs' < IdMod => i = allocs'
                            /\ objects[i] = None
    BY <1>1, <1>2, NextIdFree
  <1>6. \A q \in Pbufs : Cardinality(Store!Holders(q)) \in Nat /\ leaked[q] \in Nat
    BY <1>1, HoldersFinite DEF TypeOK, Store!TypeOK
  <1>7. CASE objects[i] = None
    <2>1. /\ objects' = [objects EXCEPT ![i] = Store!NewObject("argb", cur)] /\ leaked' = leaked
          /\ origin' = [origin EXCEPT ![i] = content[cur]]
      BY <1>2, <1>7 DEF AllocateChannel, Store!AllocateObject
    <2>2. /\ objects'[i] # None /\ objects'[i].mem = cur /\ origin'[i] = content[cur]
          /\ \A j \in Store!Ids : j # i => objects'[j] = objects[j] /\ origin'[j] = origin[j]
      BY <1>1, <1>2, <2>1, NewObjectType DEF TypeOK, Store!TypeOK
    <2>3. InPool' /\ RetainedDataKept'
      BY <1>1, <1>2, <2>2 DEF InPool, RetainedDataKept
    <2>4. \A q \in Pbufs : Cardinality(Store!Holders(q))'
            = IF q = cur THEN Cardinality(Store!Holders(q)) + 1 ELSE Cardinality(Store!Holders(q))
      <3>1. PICK j \in Store!Ids : j = i
        BY <1>2
      <3>2. PICK m \in Pbufs : m = cur
        BY <1>2
      <3> QED BY <1>1, <1>7, <2>1, <3>1, <3>2, HoldersGrow
    <2>5. RefsCount'
      BY <1>1, <1>3, <1>6, <2>1, <2>4 DEF RefsCount
    <2>6. IdsFresh'
      <3> SUFFICES ASSUME allocs' < IdMod
                   PROVE  /\ numObjects' = allocs'
                          /\ \A j \in Store!Ids : objects'[j] # None => j \in 1 .. allocs'
        BY DEF IdsFresh
      <3>1. allocs < IdMod /\ i = allocs'
        BY <1>4, <1>5
      <3>2. \A j \in Store!Ids : objects'[j] # None => j = i \/ j \in 1 .. allocs
        BY <1>1, <2>2, <3>1 DEF IdsFresh
      <3>3. 1 .. allocs \subseteq 1 .. allocs' /\ allocs' \in 1 .. allocs'
        BY <1>2, <1>4
      <3> QED BY <1>2, <3>1, <3>2, <3>3
    <2>7. Store!NothingLostBeforeWrap'
      <3>1. allocs' <= IdMod => allocs <= IdMod
        BY <1>4, <1>5
      <3> QED BY <2>1, <3>1 DEF KeepInv, Store!NothingLostBeforeWrap
    <2> QED BY <1>1, <2>3, <2>5, <2>6, <2>7 DEF KeepInv
  <1>8. CASE objects[i] # None
    <2>1. objects' = objects /\ leaked' = [leaked EXCEPT ![cur] = @ + 1] /\ origin' = origin
      BY <1>2, <1>8 DEF AllocateChannel, Store!AllocateObject
    <2>2. InPool' /\ RetainedDataKept'
      BY <1>1, <1>2, <2>1 DEF InPool, RetainedDataKept
    <2>3. \A q \in Pbufs : Cardinality(Store!Holders(q))' = Cardinality(Store!Holders(q))
      BY <2>1 DEF Store!Holders
    <2>4. \A q \in Pbufs : leaked'[q] = IF q = cur THEN leaked[q] + 1 ELSE leaked[q]
      BY <1>1, <2>1 DEF TypeOK, Store!TypeOK
    <2>5. RefsCount'
      BY <1>1, <1>3, <1>6, <2>3, <2>4 DEF RefsCount
    <2>6. ~(allocs' <= IdMod)
      BY <1>5, <1>8
    <2>7. IdsFresh' /\ Store!NothingLostBeforeWrap'
      BY <1>4, <2>6 DEF IdsFresh, Store!NothingLostBeforeWrap
    <2> QED BY <1>1, <2>2, <2>5, <2>7 DEF KeepInv
  <1> QED BY <1>7, <1>8

LEMMA KeepPush ==
  ASSUME KeepInv, PushChannel
  PROVE  KeepInv'
  <1>1. ServerInv'
    BY PushStep DEF KeepInv
  <1>2. UNCHANGED <<objects, leaked, numObjects, allocs, refs, content, cur, hand, origin>>
    BY DEF PushChannel, objectVars, poolVars
  <1>3. StoreRefs' = StoreRefs
    BY <1>2 DEF StoreRefs
  <1>4. InPool' /\ IdsFresh' /\ RetainedDataKept'
    BY <1>2 DEF KeepInv, InPool, IdsFresh, RetainedDataKept
  <1>5. RefsCount' /\ Store!NothingLostBeforeWrap'
    BY <1>2, <1>3 DEF KeepInv, RefsCount, Store!Holders, Store!NothingLostBeforeWrap
  <1> QED BY <1>1, <1>4, <1>5 DEF KeepInv

LEMMA KeepStep == ASSUME KeepInv, [Next]_vars PROVE KeepInv'
  <1>1. ServerInv
    BY DEF KeepInv
  <1>2. ASSUME NEW p \in Pbufs, NEW d \in Datagrams, Receive(p, d)
        PROVE  KeepInv'
    BY <1>2, ServerAssumption, KeepArrive DEF Receive
  <1>3. ASSUME NEW p \in Pbufs, ParseThrows(p)
        PROVE  KeepInv'
    BY <1>1, <1>3, KeepArrive DEF ParseThrows, ServerInv, TypeOK
  <1>4. CASE Drop
    <2>1. content' = content /\ origin' = origin
      BY <1>4 DEF Drop
    <2> QED BY <1>1, <1>4, <2>1, DropStep, KeepsAll
  <1>5. CASE SkipChannel
    <2>1. content' = content /\ origin' = origin
      BY <1>5 DEF SkipChannel, poolVars
    <2> QED BY <1>1, <1>5, <2>1, SkipStep, KeepsAll
  <1>6. CASE RefPbuf
    <2>1. content' = content /\ origin' = origin
      BY <1>6 DEF RefPbuf
    <2> QED BY <1>1, <1>6, <2>1, RefPbufStep, KeepsAll
  <1>7. CASE AllocateChannel
    BY <1>7, KeepAllocate
  <1>8. CASE PushChannel
    BY <1>8, KeepPush
  <1>9. CASE Finish
    <2>1. content' = content /\ origin' = origin
      BY <1>9 DEF Finish
    <2> QED BY <1>1, <1>9, <2>1, FinishStep, KeepsAll
  <1>10. CASE OutOfMemory
    <2>1. content' = content /\ origin' = origin
      BY <1>10 DEF OutOfMemory
    <2> QED BY <1>1, <1>10, <2>1, OutOfMemoryStep, KeepsAll
  <1>11. CASE UNCHANGED vars
    <2>1. StoreVarsKept /\ StoreRefs' = StoreRefs /\ content' = content /\ origin' = origin
      BY <1>11 DEF vars, objectVars, poolVars, StoreVarsKept, StoreRefs
    <2>2. ServerInv'
      BY <1>1, ServerStep
    <2> QED BY <2>1, <2>2, KeepsAll
  <1> QED BY <1>2, <1>3, <1>4, <1>5, <1>6, <1>7, <1>8, <1>9, <1>10, <1>11 DEF Next, Callback

(* What the callback and the store know of every pbuf in use.              *)
THEOREM KeepInvariance == Spec => []KeepInv
  <1>1. KeepInv /\ [Next]_vars => KeepInv'
    BY KeepStep
  <1> QED BY <1>1, KeepInit, PTL DEF Spec

(* A pbuf kept by the callback is not filled with another datagram while   *)
(* an object points into it: pbuf_ref, the shared_ptr and pbuf_free leave  *)
(* it out of the pool as long as that, whatever failed in between and      *)
(* whether or not the object counter has come round.                       *)
THEOREM RetainedDataStays == Spec => []RetainedDataKept
  <1>1. KeepInv => RetainedDataKept
    BY DEF KeepInv
  <1> QED BY <1>1, KeepInvariance, PTL

(* When the pool is empty every pbuf backs an object or one that           *)
(* allocateObject lost under an id in use: the callback keeps none, and    *)
(* neither does an early end of it.                                        *)
LEMMA DropStepExhausted ==
  ASSUME KeepInv, [Next]_vars, dropped' # dropped
  PROVE  \A p \in Pbufs : Store!Holders(p) # {} \/ leaked[p] # 0
  <1>1. Drop
    BY DEF Next, Callback, Receive, ParseThrows, Arrive, SkipChannel, RefPbuf, AllocateChannel,
           PushChannel, Finish, OutOfMemory, poolVars, vars
  <1>2. cur = None /\ \A p \in Pbufs : refs[p] # 0
    BY <1>1 DEF Drop, KeepInv, ServerInv, Control
  <1> QED BY <1>2, HeldPbufs

(* A datagram is dropped only when each pbuf backs an object or one that   *)
(* allocateObject lost.                                                    *)
THEOREM DroppedOnlyWhenExhausted ==
  Spec => [][ dropped' # dropped
                => \A p \in Pbufs : Store!Holders(p) # {} \/ leaked[p] # 0 ]_vars
  <1>1. KeepInv /\ [Next]_vars
          => [ dropped' # dropped
                 => \A p \in Pbufs : Store!Holders(p) # {} \/ leaked[p] # 0 ]_vars
    BY DropStepExhausted
  <1> QED BY <1>1, KeepInvariance, PTL DEF Spec

(* Until the object counter comes round, every one of them backs an object *)
(* of the store.                                                           *)
THEOREM DroppedWhenRetained ==
  ASSUME MaxAllocs <= IdMod
  PROVE  Spec => DroppedOnlyWhenRetained
  <1>1. ASSUME KeepInv, [Next]_vars, dropped' # dropped
        PROVE  \A p \in Pbufs : Store!Holders(p) # {}
    <2>1. allocs \in 0 .. MaxAllocs
      BY <1>1 DEF KeepInv, ServerInv, TypeOK, Store!TypeOK
    <2>2. allocs <= IdMod
      BY <2>1, ServerAssumption
    <2>3. \A p \in Pbufs : leaked[p] = 0
      BY <1>1, <2>2 DEF KeepInv, Store!NothingLostBeforeWrap
    <2> QED BY <1>1, <2>3, DropStepExhausted
  <1>2. KeepInv /\ [Next]_vars
          => [ dropped' # dropped => \A p \in Pbufs : Store!Holders(p) # {} ]_vars
    BY <1>1
  <1> QED BY <1>2, KeepInvariance, PTL DEF Spec, DroppedOnlyWhenRetained

-----------------------------------------------------------------------------
(***************************************************************************)
(* The reassembly that stands before the server and draws on the same      *)
(* pool: IpReass, for every set of fragments and both limits.              *)
(***************************************************************************)

(***************************************************************************)
(* Sequences an element of which leaves, or that get one more.             *)
(***************************************************************************)

\* The places of a sequence, but for place i, by their number.
Over(i, k) == IF k < i THEN k ELSE k + 1

Without(g, s, i) ==
  /\ Len(g) = Len(s) - 1
  /\ \A k \in 1 .. Len(s) - 1 : g[k] = s[Over(i, k)]

WithOne(g, s, i, x) ==
  /\ Len(g) = Len(s) + 1 /\ g[i] = x
  /\ \A k \in 1 .. Len(s) : g[Over(i, k)] = s[k]

LEMMA SubSeqIs ==
  ASSUME NEW S, NEW s \in Seq(S), NEW m \in 1 .. Len(s) + 1, NEW n \in 0 .. Len(s), m <= n + 1
  PROVE  /\ SubSeq(s, m, n) \in Seq(S) /\ Len(SubSeq(s, m, n)) = n - m + 1
         /\ \A i \in 1 .. n - m + 1 : SubSeq(s, m, n)[i] = s[m + i - 1]
<1>1. m \in Int /\ n \in Int /\ Len(s) \in Nat /\ 1 <= m /\ n <= Len(s)
  OBVIOUS
<1>2. \A i \in m .. n : s[i] \in S
  BY <1>1
<1>3. /\ SubSeq(s, m, n) \in Seq(S)
      /\ Len(SubSeq(s, m, n)) = IF m <= n THEN n - m + 1 ELSE 0
      /\ \A i \in 1 .. n - m + 1 : SubSeq(s, m, n)[i] = s[m + i - 1]
  BY <1>1, <1>2, SubSeqProperties
<1>4. n - m + 1 = IF m <= n THEN n - m + 1 ELSE 0
  BY <1>1
<1> QED
  BY <1>3, <1>4

LEMMA RemoveAtIs ==
  ASSUME NEW S, NEW s \in Seq(S), NEW i \in 1 .. Len(s)
  PROVE  RemoveAt(s, i) \in Seq(S) /\ Without(RemoveAt(s, i), s, i)
<1> DEFINE a == SubSeq(s, 1, i - 1)
           b == SubSeq(s, i + 1, Len(s))
           g == a \o b
<1>1. Len(s) \in Nat /\ i \in Nat /\ 1 <= i /\ i <= Len(s)
  OBVIOUS
<1>2. a \in Seq(S) /\ Len(a) = i - 1 /\ \A k \in 1 .. i - 1 : a[k] = s[k]
  <2>1. 1 \in 1 .. Len(s) + 1 /\ i - 1 \in 0 .. Len(s) /\ 1 <= (i - 1) + 1 /\ (i - 1) - 1 + 1 = i - 1
    BY <1>1
  <2>2. /\ a \in Seq(S) /\ Len(a) = (i - 1) - 1 + 1
        /\ \A k \in 1 .. (i - 1) - 1 + 1 : a[k] = s[1 + k - 1]
    BY <2>1, SubSeqIs
  <2>3. \A k \in 1 .. i - 1 : 1 + k - 1 = k
    BY <1>1
  <2> QED
    BY <2>1, <2>2, <2>3
<1>3. b \in Seq(S) /\ Len(b) = Len(s) - i /\ \A k \in 1 .. Len(s) - i : b[k] = s[i + k]
  <2>1. /\ i + 1 \in 1 .. Len(s) + 1 /\ Len(s) \in 0 .. Len(s) /\ i + 1 <= Len(s) + 1
        /\ Len(s) - (i + 1) + 1 = Len(s) - i
    BY <1>1
  <2>2. /\ b \in Seq(S) /\ Len(b) = Len(s) - (i + 1) + 1
        /\ \A k \in 1 .. Len(s) - (i + 1) + 1 : b[k] = s[(i + 1) + k - 1]
    BY <2>1, SubSeqIs
  <2>3. \A k \in 1 .. Len(s) - i : (i + 1) + k - 1 = i + k
    BY <1>1
  <2> QED
    BY <2>1, <2>2, <2>3
<1>4. RemoveAt(s, i) = g
  BY DEF RemoveAt
<1> HIDE DEF a, b
<1>5. /\ g \in Seq(S) /\ Len(g) = Len(a) + Len(b)
      /\ \A k \in 1 .. Len(a) + Len(b) : g[k] = IF k <= Len(a) THEN a[k] ELSE b[k - Len(a)]
  BY <1>2, <1>3, ConcatProperties
<1> HIDE DEF g
<1>6. Len(a) + Len(b) = Len(s) - 1
  BY <1>1, <1>2, <1>3
<1>7. ASSUME NEW k \in 1 .. Len(s) - 1 PROVE g[k] = s[Over(i, k)]
  <2>1. k \in Nat /\ 1 <= k /\ k <= Len(s) - 1 /\ k \in 1 .. Len(a) + Len(b)
    BY <1>1, <1>6
  <2>2. g[k] = IF k <= i - 1 THEN a[k] ELSE b[k - (i - 1)]
    BY <1>2, <1>5, <2>1
  <2>3. CASE k < i
    <3>1. k <= i - 1 /\ k \in 1 .. i - 1
      BY <1>1, <2>1, <2>3
    <3> QED
      BY <1>2, <2>2, <2>3, <3>1 DEF Over
  <2>4. CASE ~(k < i)
    <3>1. ~(k <= i - 1) /\ k - (i - 1) \in 1 .. Len(s) - i /\ i + (k - (i - 1)) = k + 1
      BY <1>1, <2>1, <2>4
    <3> QED
      BY <1>3, <2>2, <2>4, <3>1 DEF Over
  <2> QED
    BY <2>3, <2>4
<1> QED
  BY <1>4, <1>5, <1>6, <1>7 DEF Without

LEMMA InsertAtIs ==
  ASSUME NEW S, NEW s \in Seq(S), NEW i \in 1 .. Len(s) + 1, NEW x \in S
  PROVE  InsertAt(s, i, x) \in Seq(S) /\ WithOne(InsertAt(s, i, x), s, i, x)
<1> DEFINE a == SubSeq(s, 1, i - 1)
           b == SubSeq(s, i, Len(s))
           c == a \o <<x>>
           g == c \o b
<1>1. Len(s) \in Nat /\ i \in Nat /\ 1 <= i /\ i <= Len(s) + 1
  OBVIOUS
<1>2. a \in Seq(S) /\ Len(a) = i - 1 /\ \A k \in 1 .. i - 1 : a[k] = s[k]
  <2>1. 1 \in 1 .. Len(s) + 1 /\ i - 1 \in 0 .. Len(s) /\ 1 <= (i - 1) + 1 /\ (i - 1) - 1 + 1 = i - 1
    BY <1>1
  <2>2. /\ a \in Seq(S) /\ Len(a) = (i - 1) - 1 + 1
        /\ \A k \in 1 .. (i - 1) - 1 + 1 : a[k] = s[1 + k - 1]
    BY <2>1, SubSeqIs
  <2>3. \A k \in 1 .. i - 1 : 1 + k - 1 = k
    BY <1>1
  <2> QED
    BY <2>1, <2>2, <2>3
<1>3. b \in Seq(S) /\ Len(b) = Len(s) - i + 1 /\ \A k \in 1 .. Len(s) - i + 1 : b[k] = s[i + k - 1]
  <2>1. Len(s) \in 0 .. Len(s)
    BY <1>1
  <2> QED
    BY <1>1, <2>1, SubSeqIs
<1>4. InsertAt(s, i, x) = g
  BY DEF InsertAt
<1>5. <<x>> \in Seq(S) /\ Len(<<x>>) = 1 /\ <<x>>[1] = x
  OBVIOUS
<1> HIDE DEF a, b
<1>6. /\ c \in Seq(S) /\ Len(c) = Len(a) + Len(<<x>>)
      /\ \A k \in 1 .. Len(a) + Len(<<x>>) : c[k] = IF k <= Len(a) THEN a[k] ELSE <<x>>[k - Len(a)]
  BY <1>2, <1>5, ConcatProperties
<1> HIDE DEF c
<1>7. c \in Seq(S) /\ Len(c) = i /\ c[i] = x /\ \A k \in 1 .. i - 1 : c[k] = s[k]
  <2>1. Len(c) = i
    BY <1>1, <1>2, <1>5, <1>6
  <2>2. c[i] = x
    <3>1. i \in 1 .. Len(a) + Len(<<x>>) /\ ~(i <= Len(a)) /\ i - Len(a) = 1
      BY <1>1, <1>2, <1>5
    <3> QED
      BY <1>5, <1>6, <3>1
  <2>3. ASSUME NEW k \in 1 .. i - 1 PROVE c[k] = s[k]
    <3>1. k \in 1 .. Len(a) + Len(<<x>>) /\ k <= Len(a)
      BY <1>1, <1>2, <1>5
    <3> QED
      BY <1>2, <1>6, <3>1
  <2> QED
    BY <1>6, <2>1, <2>2, <2>3
<1>8. /\ g \in Seq(S) /\ Len(g) = Len(c) + Len(b)
      /\ \A k \in 1 .. Len(c) + Len(b) : g[k] = IF k <= Len(c) THEN c[k] ELSE b[k - Len(c)]
  BY <1>3, <1>7, ConcatProperties
<1> HIDE DEF g
<1>9. Len(c) + Len(b) = Len(s) + 1
  BY <1>1, <1>3, <1>7
<1>10. g[i] = x
  <2>1. i \in 1 .. Len(c) + Len(b) /\ i <= Len(c)
    BY <1>1, <1>7, <1>9
  <2> QED
    BY <1>7, <1>8, <2>1
<1>11. ASSUME NEW k \in 1 .. Len(s) PROVE g[Over(i, k)] = s[k]
  <2>1. k \in Nat /\ 1 <= k /\ k <= Len(s)
    BY <1>1
  <2>2. CASE k < i
    <3>1. k \in 1 .. i - 1 /\ k \in 1 .. Len(c) + Len(b) /\ k <= Len(c)
      BY <1>1, <1>7, <1>9, <2>1, <2>2
    <3> QED
      BY <1>7, <1>8, <2>2, <3>1 DEF Over
  <2>3. CASE ~(k < i)
    <3>1. /\ k + 1 \in 1 .. Len(s) + 1 /\ ~(k + 1 <= i)
          /\ (k + 1) - i \in 1 .. Len(s) - i + 1 /\ i + ((k + 1) - i) - 1 = k
      BY <1>1, <2>1, <2>3
    <3>2. g[k + 1] = b[(k + 1) - i]
      BY <1>7, <1>8, <1>9, <3>1
    <3> QED
      BY <1>3, <2>3, <3>1, <3>2 DEF Over
  <2> QED
    BY <2>2, <2>3
<1> QED
  BY <1>4, <1>8, <1>9, <1>10, <1>11 DEF WithOne

LEMMA OverIs ==
  ASSUME NEW n \in Nat, NEW i \in 1 .. n
  PROVE  /\ \A k \in 1 .. n - 1 : Over(i, k) \in (1 .. n) \ {i}
         /\ \A k, m \in 1 .. n - 1 : /\ Over(i, k) < Over(i, m) <=> k < m
                                     /\ Over(i, k) = Over(i, m) => k = m
         /\ \A m \in (1 .. n) \ {i} : \E k \in 1 .. n - 1 : Over(i, k) = m
         /\ \A k \in 1 .. n - 1 : Over(i, k) < i <=> k < i
<1>1. /\ \A k \in 1 .. n - 1 : Over(i, k) \in (1 .. n) \ {i}
      /\ \A k \in 1 .. n - 1 : Over(i, k) < i <=> k < i
  BY DEF Over
<1>2. ASSUME NEW k \in 1 .. n - 1, NEW m \in 1 .. n - 1
      PROVE  /\ Over(i, k) < Over(i, m) <=> k < m
             /\ Over(i, k) = Over(i, m) => k = m
  BY DEF Over
<1>3. ASSUME NEW m \in (1 .. n) \ {i} PROVE \E k \in 1 .. n - 1 : Over(i, k) = m
  <2>1. CASE m < i
    <3>1. m \in 1 .. n - 1 /\ Over(i, m) = m
      BY <2>1 DEF Over
    <3> QED
      BY <3>1
  <2>2. CASE ~(m < i)
    <3>1. m - 1 \in 1 .. n - 1 /\ Over(i, m - 1) = m
      BY <2>2 DEF Over
    <3> QED
      BY <3>1
  <2> QED
    BY <2>1, <2>2
<1> QED
  BY <1>1, <1>2, <1>3

LEMMA WithoutIs ==
  ASSUME NEW S, NEW s \in Seq(S), NEW g \in Seq(S), NEW i \in 1 .. Len(s), Without(g, s, i)
  PROVE  /\ \A k \in DOMAIN g : Over(i, k) \in DOMAIN s \ {i} /\ g[k] = s[Over(i, k)]
         /\ \A k, m \in DOMAIN g : Over(i, k) = Over(i, m) => k = m
         /\ \A m \in DOMAIN s \ {i} : \E k \in DOMAIN g : Over(i, k) = m
<1>1. /\ Len(s) \in Nat /\ DOMAIN s = 1 .. Len(s) /\ DOMAIN g = 1 .. Len(g)
      /\ Len(g) = Len(s) - 1 /\ \A k \in 1 .. Len(s) - 1 : g[k] = s[Over(i, k)]
  BY DEF Without
<1>2. DOMAIN g = 1 .. Len(s) - 1
  BY <1>1
<1>3. /\ \A k \in 1 .. Len(s) - 1 : Over(i, k) \in (1 .. Len(s)) \ {i}
      /\ \A k, m \in 1 .. Len(s) - 1 : Over(i, k) = Over(i, m) => k = m
      /\ \A m \in (1 .. Len(s)) \ {i} : \E k \in 1 .. Len(s) - 1 : Over(i, k) = m
  <2>1. PICK n \in Nat : n = Len(s)
    BY <1>1
  <2>2. /\ \A k \in 1 .. n - 1 : Over(i, k) \in (1 .. n) \ {i}
        /\ \A k, m \in 1 .. n - 1 : Over(i, k) = Over(i, m) => k = m
        /\ \A m \in (1 .. n) \ {i} : \E k \in 1 .. n - 1 : Over(i, k) = m
    BY <2>1, OverIs
  <2> QED
    BY <2>1, <2>2
<1> QED
  BY <1>1, <1>2, <1>3

LEMMA WithOneIs ==
  ASSUME NEW S, NEW s \in Seq(S), NEW g \in Seq(S), NEW i \in 1 .. Len(s) + 1, NEW x,
         WithOne(g, s, i, x)
  PROVE  /\ i \in DOMAIN g /\ g[i] = x
         /\ \A k \in DOMAIN s : Over(i, k) \in DOMAIN g /\ g[Over(i, k)] = s[k]
         /\ \A k, m \in DOMAIN s : Over(i, k) < Over(i, m) <=> k < m
         /\ \A m \in DOMAIN g : m = i \/ \E k \in DOMAIN s : Over(i, k) = m
         /\ \A k \in DOMAIN s : Over(i, k) < i <=> k < i
<1>1. /\ Len(s) \in Nat /\ DOMAIN s = 1 .. Len(s) /\ DOMAIN g = 1 .. Len(g)
      /\ Len(g) = Len(s) + 1 /\ g[i] = x /\ \A k \in 1 .. Len(s) : g[Over(i, k)] = s[k]
  BY DEF WithOne
<1>2. DOMAIN g = 1 .. Len(s) + 1
  BY <1>1
<1>3. PICK n \in Nat : n = Len(s) + 1 /\ n - 1 = Len(s)
  BY <1>1
<1>4. /\ \A k \in 1 .. n - 1 : Over(i, k) \in (1 .. n) \ {i}
      /\ \A k, m \in 1 .. n - 1 : Over(i, k) < Over(i, m) <=> k < m
      /\ \A m \in (1 .. n) \ {i} : \E k \in 1 .. n - 1 : Over(i, k) = m
      /\ \A k \in 1 .. n - 1 : Over(i, k) < i <=> k < i
  BY <1>3, OverIs
<1>5. 1 .. n - 1 = DOMAIN s /\ 1 .. n = DOMAIN g
  BY <1>1, <1>2, <1>3
<1>6. /\ \A k \in DOMAIN s : Over(i, k) \in DOMAIN g
      /\ \A k, m \in DOMAIN s : Over(i, k) < Over(i, m) <=> k < m
      /\ \A m \in DOMAIN g \ {i} : \E k \in DOMAIN s : Over(i, k) = m
      /\ \A k \in DOMAIN s : Over(i, k) < i <=> k < i
  BY <1>4, <1>5
<1>7. \A k \in DOMAIN s : g[Over(i, k)] = s[k]
  BY <1>1
<1> QED
  BY <1>1, <1>2, <1>6, <1>7

\* A set of naturals that is not empty has a least element.
LEMMA LeastNat ==
  ASSUME NEW S \in SUBSET Nat, S # {}
  PROVE  \E n \in S : \A m \in S : n <= m
<1> DEFINE R == {ss \in Nat \X Nat : ss[1] < ss[2]}
<1>1. IsWellFoundedOn(R, Nat)
  BY NatLessThanWellFounded DEF OpToRel
<1> HIDE DEF R
<1>2. PICK n \in S : \A m \in S : ~(<<m, n>> \in R)
  BY <1>1, WFMin
<1>3. \A m \in S : ~(m < n)
  BY <1>2 DEF R
<1> QED
  BY <1>3

(***************************************************************************)
(* The chain of a datagram.                                                *)
(***************************************************************************)
Pieces    == [start : Nat, end : Nat]
ReassData == [id : Nat, last : BOOLEAN, p : Seq(Pieces)]

\* In the order of the offsets.
Sorted(p) == \A j, k \in DOMAIN p : j < k => p[j].start < p[k].start

LEMMA FragIs ==
  ASSUME WellCut, NEW f \in Frags
  PROVE  /\ f.id \in Nat /\ f.start \in Nat /\ f.end \in Nat /\ f.more \in BOOLEAN
         /\ f.start < f.end /\ Piece(f) \in Pieces
         /\ Piece(f).start = f.start /\ Piece(f).end = f.end
BY DEF WellCut, Piece, Pieces

\* The walk along a chain stops behind the pieces that begin before f.
LEMMA PlaceIs ==
  ASSUME NEW p \in Seq(Pieces), Sorted(p), NEW f, f.start \in Nat
  PROVE  /\ Place(p, f) \in 0 .. Len(p)
         /\ \A j \in DOMAIN p : j <= Place(p, f) <=> p[j].start < f.start
<1>0. Len(p) \in Nat /\ DOMAIN p = 1 .. Len(p) /\ \A j \in DOMAIN p : p[j].start \in Nat
  <2>1. Len(p) \in Nat /\ DOMAIN p = 1 .. Len(p)
    OBVIOUS
  <2>2. \A j \in DOMAIN p : p[j] \in Pieces
    OBVIOUS
  <2> QED
    BY <2>1, <2>2 DEF Pieces
<1> DEFINE B == {i \in DOMAIN p : p[i].start < f.start}
           S == {k \in Nat : \A j \in B : j <= k}
<1>1. Len(p) \in S
  BY <1>0
<1>2. PICK k \in S : \A m \in S : k <= m
  BY <1>1, LeastNat
<1>3. k \in Nat /\ k <= Len(p)
  BY <1>1, <1>2
<1>4. ASSUME NEW j \in DOMAIN p PROVE j \in B <=> j <= k
  <2>1. j \in B => j <= k
    BY <1>2
  <2>2. ASSUME j <= k PROVE j \in B
    <3>1. k \in B
      <4>1. j \in Nat /\ j >= 1 /\ k - 1 \in Nat /\ ~(k <= k - 1)
        BY <1>0, <1>3, <2>2
      <4>2. PICK m \in B : ~(m <= k - 1)
        BY <1>2, <4>1
      <4>3. m \in Nat /\ m <= k
        BY <1>0, <1>2
      <4>4. m = k
        BY <1>3, <4>2, <4>3
      <4> QED
        BY <4>4
    <3>2. CASE j = k
      BY <3>1, <3>2
    <3>3. CASE j # k
      <4>1. j < k /\ k \in DOMAIN p /\ p[k].start < f.start
        BY <1>0, <1>3, <2>2, <3>1, <3>3
      <4>2. p[j].start < p[k].start
        BY <4>1 DEF Sorted
      <4>3. p[j].start < f.start
        BY <1>0, <4>1, <4>2
      <4> QED
        BY <4>3
    <3> QED
      BY <3>2, <3>3
  <2> QED
    BY <2>1, <2>2
<1>5. B = 1 .. k
  <2>1. \A j \in 1 .. k : j \in DOMAIN p /\ j <= k
    BY <1>0, <1>3
  <2>2. \A j \in B : j \in 1 .. k
    BY <1>0, <1>3, <1>4
  <2> QED
    BY <1>4, <2>1, <2>2
<1>6. Place(p, f) = k
  <2>1. Place(p, f) = Cardinality(B)
    BY DEF Place
  <2>2. Cardinality(1 .. k) = IF 1 > k THEN 0 ELSE k - 1 + 1
    BY <1>3, FS_Interval
  <2>3. k = IF 1 > k THEN 0 ELSE k - 1 + 1
    BY <1>3
  <2> QED
    BY <1>5, <2>1, <2>2, <2>3
<1> QED
  BY <1>0, <1>3, <1>4, <1>6

LEMMA PieceIs ==
  ASSUME NEW p \in Seq(Pieces)
  PROVE  /\ Len(p) \in Nat /\ DOMAIN p = 1 .. Len(p)
         /\ \A j \in DOMAIN p : p[j] \in Pieces /\ p[j].start \in Nat /\ p[j].end \in Nat
<1>1. Len(p) \in Nat /\ DOMAIN p = 1 .. Len(p) /\ \A j \in DOMAIN p : p[j] \in Pieces
  OBVIOUS
<1> QED
  BY <1>1 DEF Pieces

\* A fragment that overlaps nothing is put in its place.
LEMMA ChainGrows ==
  ASSUME WellCut, NEW p \in Seq(Pieces), Sorted(p), NEW f \in Frags,
         ~Overlaps(p, f), NEW q, q = InsertAt(p, Place(p, f) + 1, Piece(f))
  PROVE  /\ q \in Seq(Pieces) /\ Sorted(q) /\ Len(q) = Len(p) + 1
         /\ Place(p, f) + 1 \in DOMAIN q
         /\ ToSet(q) = ToSet(p) \union {Piece(f)}
         /\ Piece(f) \notin ToSet(p)
<1> DEFINE at == Place(p, f)
           x == Piece(f)
<1>1. /\ f.start \in Nat /\ x \in Pieces /\ x.start = f.start
  BY FragIs
<1>2. /\ Len(p) \in Nat /\ DOMAIN p = 1 .. Len(p)
      /\ \A j \in DOMAIN p : p[j] \in Pieces /\ p[j].start \in Nat /\ p[j].end \in Nat
  BY PieceIs
<1>3. at \in 0 .. Len(p) /\ \A j \in DOMAIN p : j <= at <=> p[j].start < f.start
  BY <1>1, PlaceIs
<1>4. \A j \in DOMAIN p : p[j].start # f.start
  <2>1. SUFFICES ASSUME NEW j \in DOMAIN p, p[j].start = f.start PROVE FALSE
    OBVIOUS
  <2>2. p[j].start <= f.start
    BY <1>1, <1>2, <2>1
  <2> QED
    BY <2>1, <2>2 DEF Overlaps
<1> HIDE DEF at, x
<1>5. at + 1 \in 1 .. Len(p) + 1
  BY <1>2, <1>3
<1>6. q = InsertAt(p, at + 1, x)
  BY DEF at, x
<1>7. q \in Seq(Pieces) /\ WithOne(q, p, at + 1, x)
  BY <1>1, <1>5, <1>6, InsertAtIs
<1>8. /\ at + 1 \in DOMAIN q /\ q[at + 1] = x
      /\ \A k \in DOMAIN p : Over(at + 1, k) \in DOMAIN q /\ q[Over(at + 1, k)] = p[k]
      /\ \A k, m \in DOMAIN p : Over(at + 1, k) < Over(at + 1, m) <=> k < m
      /\ \A m \in DOMAIN q : m = at + 1 \/ \E k \in DOMAIN p : Over(at + 1, k) = m
      /\ \A k \in DOMAIN p : Over(at + 1, k) < at + 1 <=> k < at + 1
  BY <1>5, <1>7, WithOneIs
<1>9. ASSUME NEW m \in DOMAIN q, NEW n \in DOMAIN q, m < n PROVE q[m].start < q[n].start
  <2>0. m \in Nat /\ n \in Nat /\ at + 1 \in Nat /\ at \in Nat
    BY <1>3, <1>7
  <2>1. CASE m # at + 1 /\ n # at + 1
    <3>1. PICK k \in DOMAIN p : Over(at + 1, k) = m
      BY <1>8, <2>1
    <3>2. PICK l \in DOMAIN p : Over(at + 1, l) = n
      BY <1>8, <2>1
    <3>3. k < l
      BY <1>8, <1>9, <3>1, <3>2
    <3>4. p[k].start < p[l].start
      BY <3>3 DEF Sorted
    <3> QED
      BY <1>8, <3>1, <3>2, <3>4
  <2>2. CASE m = at + 1
    <3>1. n # at + 1
      BY <1>9, <2>0, <2>2
    <3>2. PICK l \in DOMAIN p : Over(at + 1, l) = n
      BY <1>8, <3>1
    <3>3. ~(Over(at + 1, l) < at + 1)
      BY <1>9, <2>0, <2>2, <3>2
    <3>4. ~(l < at + 1)
      BY <1>8, <3>3
    <3>5. l \in Nat /\ ~(l <= at)
      BY <1>2, <2>0, <3>4
    <3>6. ~(p[l].start < f.start)
      BY <1>3, <3>5
    <3>7. f.start < p[l].start
      BY <1>1, <1>2, <1>4, <3>6
    <3> QED
      BY <1>1, <1>8, <2>2, <3>2, <3>7
  <2>3. CASE n = at + 1
    <3>1. m # at + 1
      BY <1>9, <2>0, <2>3
    <3>2. PICK k \in DOMAIN p : Over(at + 1, k) = m
      BY <1>8, <3>1
    <3>3. Over(at + 1, k) < at + 1
      BY <1>9, <2>3, <3>2
    <3>4. k < at + 1
      BY <1>8, <3>3
    <3>5. k <= at
      BY <1>2, <2>0, <3>4
    <3>6. p[k].start < f.start
      BY <1>3, <3>5
    <3> QED
      BY <1>1, <1>8, <2>3, <3>2, <3>6
  <2> QED
    BY <2>1, <2>2, <2>3
<1>10. ASSUME NEW y PROVE y \in ToSet(q) <=> y \in ToSet(p) \/ y = x
  <2>1. y \in ToSet(q) <=> \E m \in DOMAIN q : q[m] = y
    BY DEF ToSet
  <2>2. y \in ToSet(p) <=> \E k \in DOMAIN p : p[k] = y
    BY DEF ToSet
  <2>3. ASSUME NEW m \in DOMAIN q, q[m] = y PROVE y = x \/ \E k \in DOMAIN p : p[k] = y
    BY <1>8, <2>3
  <2>4. (\E k \in DOMAIN p : p[k] = y) => \E m \in DOMAIN q : q[m] = y
    BY <1>8
  <2>5. y = x => \E m \in DOMAIN q : q[m] = y
    BY <1>8
  <2> QED
    BY <2>1, <2>2, <2>3, <2>4, <2>5
<1>11. x \notin ToSet(p)
  BY <1>1, <1>4 DEF ToSet
<1>12. Sorted(q)
  BY <1>9 DEF Sorted
<1>13. ToSet(q) = ToSet(p) \union {x}
  BY <1>10
<1>14. Len(q) = Len(p) + 1
  BY <1>7 DEF WithOne
<1> QED
  BY <1>7, <1>8, <1>11, <1>12, <1>13, <1>14 DEF at, x

\* Every piece was a fragment, and the last one has set the flag.
Sent(id, last, p) ==
  \A j \in DOMAIN p : \E g \in Frags : g.id = id /\ Piece(g) = p[j] /\ (~g.more => last)

\* A datagram whose pieces have all come passes the test of valid.
LEMMA WholeCompletes ==
  ASSUME WellCut, NEW p \in Seq(Pieces), Sorted(p), NEW id, NEW last \in BOOLEAN,
         Sent(id, last, p), Whole(id, p), NEW at
  PROVE  last /\ Complete(p, at)
<1>1. /\ Len(p) \in Nat /\ DOMAIN p = 1 .. Len(p)
      /\ \A j \in DOMAIN p : p[j] \in Pieces /\ p[j].start \in Nat /\ p[j].end \in Nat
  BY PieceIs
<1>2. PICK f \in Frags : f.id = id /\ ~f.more /\ Covered(p) = 0 .. f.end - 1
  BY DEF Whole
<1>3. f.end \in Nat /\ f.end > 0
  BY FragIs
<1>4. \A k \in 0 .. f.end - 1 : \E j \in DOMAIN p : k \in p[j].start .. p[j].end - 1
  BY <1>2 DEF Covered
<1>5. p[1].start = 0
  <2>1. PICK j \in DOMAIN p : 0 \in p[j].start .. p[j].end - 1
    BY <1>3, <1>4
  <2>2. p[j].start = 0
    BY <1>1, <2>1
  <2>3. CASE j = 1
    BY <2>2, <2>3
  <2>4. CASE j # 1
    <3>1. 1 \in DOMAIN p /\ 1 < j
      BY <1>1, <2>4
    <3>2. p[1].start < p[j].start
      BY <3>1 DEF Sorted
    <3>3. p[1].start \in Nat
      BY <1>1, <3>1
    <3> QED
      BY <2>2, <3>2, <3>3
  <2> QED
    BY <2>3, <2>4
<1>6. last
  <2>1. PICK j \in DOMAIN p : f.end - 1 \in p[j].start .. p[j].end - 1
    BY <1>3, <1>4
  <2>2. p[j].end >= f.end
    BY <1>1, <1>3, <2>1
  <2>3. PICK g \in Frags : g.id = id /\ Piece(g) = p[j] /\ (~g.more => last)
    BY DEF Sent
  <2>4. g.end = p[j].end /\ g.end \in Nat
    BY <2>3, FragIs
  <2>5. ASSUME g.more PROVE FALSE
    <3>1. g.end < f.end
      BY <1>2, <2>3, <2>5 DEF WellCut
    <3> QED
      BY <1>3, <2>2, <2>4, <3>1
  <2> QED
    BY <2>3, <2>5
<1>7. Complete(p, at)
  BY <1>5 DEF Complete, Whole
<1> QED
  BY <1>6, <1>7

(***************************************************************************)
(* What the fragments must be like for the test of valid to be enough: in  *)
(* a datagram that can complete the last fragment overlaps none of those   *)
(* before it, and no two that join lie behind a gap.  The first is so when *)
(* there is one last fragment, the second when there are at most three.    *)
(***************************************************************************)
Clean ==
  \A a, b, c, l \in Frags :
    a.id = l.id /\ b.id = l.id /\ c.id = l.id /\ ~l.more
      => /\ a.more => a.end <= l.start
         /\ ~(a.end < b.start /\ b.end = c.start)

\* The flag was set by a fragment that is in the chain, or by one that such a
\* fragment had made superfluous.
Anchored(id, last, p) ==
  last => \E j \in DOMAIN p : \E l \in Frags : l.id = id /\ ~l.more /\ Piece(l) = p[j]

\* The last fragment is thrown away only where there is one already.
LEMMA StaysAnchored ==
  ASSUME WellCut, Clean, NEW p \in Seq(Pieces), Sorted(p), NEW id, NEW last,
         Sent(id, last, p), NEW f \in Frags, f.id = id, ~f.more, Overlaps(p, f)
  PROVE  \E j \in DOMAIN p : \E l \in Frags : l.id = id /\ ~l.more /\ Piece(l) = p[j]
<1>1. /\ Len(p) \in Nat /\ DOMAIN p = 1 .. Len(p)
      /\ \A j \in DOMAIN p : p[j].start \in Nat /\ p[j].end \in Nat
  BY PieceIs
<1>2. f.start \in Nat /\ f.end \in Nat /\ f.start < f.end
  BY FragIs
<1>3. ASSUME NEW j \in DOMAIN p
      PROVE  \E g \in Frags : /\ g.id = id /\ Piece(g) = p[j]
                              /\ g.end = p[j].end /\ g.start = p[j].start /\ g.start < g.end
  <2>1. PICK g \in Frags : g.id = id /\ Piece(g) = p[j]
    BY DEF Sent
  <2> QED
    BY <2>1, FragIs
<1>4. PICK j \in DOMAIN p : p[j].end > f.start
  <2>1. CASE \E i \in DOMAIN p : p[i].start <= f.start /\ (f.start < p[i].end \/ f.start = p[i].start)
    <3>1. PICK i \in DOMAIN p : f.start < p[i].end \/ f.start = p[i].start
      BY <2>1
    <3>2. p[i].start < p[i].end
      BY <1>3
    <3>3. p[i].end > f.start
      BY <1>1, <1>2, <3>1, <3>2
    <3> QED
      BY <3>3
  <2>2. CASE Place(p, f) \in 1 .. Len(p) - 1
    <3>1. PICK k : k = Place(p, f)
      OBVIOUS
    <3>2. /\ k \in 1 .. Len(p) - 1
          /\ \A i \in DOMAIN p : i <= k <=> p[i].start < f.start
      BY <1>2, <2>2, <3>1, PlaceIs
    <3>3. k + 1 \in DOMAIN p /\ ~(k + 1 <= k)
      BY <1>1, <3>2
    <3>4. ~(p[k + 1].start < f.start)
      BY <3>2, <3>3
    <3>5. p[k + 1].start < p[k + 1].end
      BY <1>3, <3>3
    <3>6. p[k + 1].end > f.start
      BY <1>1, <1>2, <3>3, <3>4, <3>5
    <3> QED
      BY <3>3, <3>6
  <2> QED
    BY <2>1, <2>2 DEF Overlaps
<1>5. PICK g \in Frags : g.id = id /\ Piece(g) = p[j] /\ g.end = p[j].end
  BY <1>3
<1>6. ~g.more
  <2>1. ASSUME g.more PROVE FALSE
    <3>1. g.end <= f.start
      BY <1>5, <2>1 DEF Clean
    <3> QED
      BY <1>1, <1>2, <1>4, <1>5, <3>1
  <2> QED
    BY <2>1
<1> QED
  BY <1>5, <1>6

\* A chain that passes the test of valid is whole, if it holds the last
\* fragment and the one gap the test does not see is not there.
LEMMA CompleteIsWhole ==
  ASSUME WellCut, NEW q \in Seq(Pieces), Sorted(q), NEW id, NEW last,
         Sent(id, last, q), last, Anchored(id, last, q), NEW at \in DOMAIN q, Complete(q, at),
         at \in 2 .. Len(q) - 1 => q[at - 1].end = q[at].start
  PROVE  Whole(id, q)
<1>1. /\ Len(q) \in Nat /\ DOMAIN q = 1 .. Len(q)
      /\ \A j \in DOMAIN q : q[j].start \in Nat /\ q[j].end \in Nat
  BY PieceIs
<1>2. ASSUME NEW i \in 1 .. Len(q) - 1 PROVE q[i].end = q[i + 1].start
  <2>1. CASE i + 1 # at \/ at = Len(q)
    BY <2>1 DEF Complete
  <2>2. CASE i + 1 = at /\ at # Len(q)
    <3>1. at \in 2 .. Len(q) - 1 /\ at - 1 = i
      BY <1>1, <2>2
    <3> QED
      BY <2>2, <3>1
  <2> QED
    BY <2>1, <2>2
<1>3. PICK j \in DOMAIN q, l \in Frags : l.id = id /\ ~l.more /\ Piece(l) = q[j]
  BY DEF Anchored
<1>4. q[j].start = l.start /\ q[j].end = l.end /\ l.end \in Nat /\ l.start \in Nat
  BY <1>3, FragIs
<1>5. ASSUME NEW k \in DOMAIN q PROVE q[k].start < q[k].end /\ q[k].end <= l.end
  <2>1. PICK g \in Frags : g.id = id /\ Piece(g) = q[k]
    BY DEF Sent
  <2>2. g.start = q[k].start /\ g.end = q[k].end /\ g.start < g.end /\ g.end \in Nat /\ g.more \in BOOLEAN
    BY <2>1, FragIs
  <2>3. IF g.more THEN g.end < l.end ELSE g.end = l.end
    BY <1>3, <2>1 DEF WellCut
  <2>4. g.end <= l.end
    BY <1>4, <2>2, <2>3
  <2> QED
    BY <2>2, <2>4
<1>6. j = Len(q)
  <2>1. ASSUME j # Len(q) PROVE FALSE
    <3>1. j \in 1 .. Len(q) - 1 /\ j + 1 \in DOMAIN q
      BY <1>1, <2>1
    <3>2. q[j + 1].start = l.end
      BY <1>2, <1>4, <3>1
    <3>3. q[j + 1].start < q[j + 1].end /\ q[j + 1].end <= l.end
      BY <1>5, <3>1
    <3> QED
      BY <1>1, <1>4, <3>1, <3>2, <3>3
  <2> QED
    BY <2>1
<1>7. ASSUME NEW x \in 0 .. l.end - 1 PROVE \E k \in DOMAIN q : x \in q[k].start .. q[k].end - 1
  <2>1. x \in Nat /\ x < l.end
    BY <1>4
  <2> DEFINE B == {m \in Nat : \A k \in DOMAIN q : q[k].start <= x => k <= m}
  <2>2. Len(q) \in B
    BY <1>1
  <2>3. PICK m \in B : \A n \in B : m <= n
    <3>1. B \in SUBSET Nat /\ B # {}
      BY <2>2
    <3> HIDE DEF B
    <3> QED
      BY <3>1, LeastNat
  <2>4. m \in Nat /\ m <= Len(q) /\ \A k \in DOMAIN q : q[k].start <= x => k <= m
    BY <2>2, <2>3
  <2>5. 1 \in DOMAIN q /\ q[1].start <= x
    <3>1. 1 \in DOMAIN q
      BY <1>1
    <3>2. q[1].start = 0
      BY DEF Complete
    <3> QED
      BY <2>1, <3>1, <3>2
  <2>6. m \in DOMAIN q /\ q[m].start <= x
    <3>1. m >= 1 /\ m \in DOMAIN q
      BY <1>1, <2>4, <2>5
    <3>2. ASSUME ~(q[m].start <= x) PROVE FALSE
      <4>1. m - 1 \in Nat /\ ~(m <= m - 1)
        BY <2>4, <3>1
      <4>2. PICK k \in DOMAIN q : q[k].start <= x /\ ~(k <= m - 1)
        BY <2>3, <4>1
      <4>3. k <= m /\ k \in Nat
        BY <1>1, <2>4, <4>2
      <4>4. k = m
        BY <2>4, <4>2, <4>3
      <4> QED
        BY <3>2, <4>2, <4>4
    <3> QED
      BY <3>1, <3>2
  <2>7. x < q[m].end
    <3>1. CASE m = Len(q)
      BY <1>4, <1>6, <2>1, <3>1
    <3>2. CASE m # Len(q)
      <4>1. m \in 1 .. Len(q) - 1 /\ m + 1 \in DOMAIN q /\ ~(m + 1 <= m)
        BY <1>1, <2>6, <3>2
      <4>2. ~(q[m + 1].start <= x)
        BY <2>4, <4>1
      <4>3. q[m].end = q[m + 1].start
        BY <1>2, <4>1
      <4> QED
        BY <1>1, <2>1, <4>1, <4>2, <4>3
    <3> QED
      BY <3>1, <3>2
  <2>8. x \in q[m].start .. q[m].end - 1
    BY <1>1, <2>1, <2>6, <2>7
  <2> QED
    BY <2>6, <2>8
<1>8. ASSUME NEW k \in DOMAIN q, NEW x \in q[k].start .. q[k].end - 1 PROVE x \in 0 .. l.end - 1
  BY <1>1, <1>4, <1>5
<1>9. Covered(q) = 0 .. l.end - 1
  <2>1. ASSUME NEW x PROVE x \in Covered(q) <=> \E k \in DOMAIN q : x \in q[k].start .. q[k].end - 1
    BY DEF Covered
  <2>2. ASSUME NEW x PROVE x \in Covered(q) <=> x \in 0 .. l.end - 1
    BY <1>7, <1>8, <2>1
  <2> QED
    BY <2>2
<1> QED
  BY <1>2, <1>3, <1>9 DEF Whole

\* That gap would lie behind the first fragment of four.
LEMMA NoGapBefore ==
  ASSUME WellCut, Clean, NEW p \in Seq(Pieces), Sorted(p), NEW f \in Frags, ~Overlaps(p, f),
         NEW at, at = Place(p, f) + 1, NEW q, q = InsertAt(p, at, Piece(f)),
         NEW id, NEW last, last, Sent(id, last, q), Anchored(id, last, q),
         Complete(q, at), at \in 2 .. Len(q) - 1
  PROVE  q[at - 1].end = q[at].start
<1>1. /\ Len(p) \in Nat /\ DOMAIN p = 1 .. Len(p)
      /\ \A j \in DOMAIN p : p[j].start \in Nat /\ p[j].end \in Nat
  BY PieceIs
<1>2. f.start \in Nat /\ f.end \in Nat /\ Piece(f) \in Pieces
  BY FragIs
<1>3. /\ Place(p, f) \in 0 .. Len(p)
      /\ \A j \in DOMAIN p : j <= Place(p, f) <=> p[j].start < f.start
  BY <1>2, PlaceIs
<1>4. at \in 1 .. Len(p) + 1 /\ at - 1 \in DOMAIN p /\ at - 1 = Place(p, f)
  BY <1>1, <1>3
<1>5. q \in Seq(Pieces) /\ WithOne(q, p, at, Piece(f))
  BY <1>2, <1>4, InsertAtIs
<1>6. /\ q[at] = Piece(f) /\ q[at - 1] = p[at - 1]
      /\ at - 1 \in DOMAIN q /\ at \in DOMAIN q /\ at + 1 \in DOMAIN q
  <2>1. q[at] = Piece(f)
    BY <1>5 DEF WithOne
  <2>2. at - 1 < at /\ Over(at, at - 1) = at - 1
    BY <1>4 DEF Over
  <2>3. q[Over(at, at - 1)] = p[at - 1]
    BY <1>1, <1>4, <1>5 DEF WithOne
  <2>4. /\ Len(q) \in Nat /\ DOMAIN q = 1 .. Len(q)
    BY <1>5
  <2>5. at - 1 \in DOMAIN q /\ at \in DOMAIN q /\ at + 1 \in DOMAIN q
    BY <2>4
  <2> QED
    BY <2>1, <2>2, <2>3, <2>5
<1>7. p[at - 1].end <= f.start
  <2>1. p[at - 1].start < f.start
    BY <1>1, <1>3, <1>4
  <2>2. p[at - 1].start <= f.start
    BY <1>1, <1>2, <1>4, <2>1
  <2>3. ~(f.start < p[at - 1].end)
    BY <1>4, <2>2 DEF Overlaps
  <2> QED
    BY <1>1, <1>2, <1>4, <2>3
<1>8. q[at].end = q[at + 1].start
  <2>1. at \in 1 .. Len(q) - 1 /\ at + 1 # at
    BY <1>5
  <2> QED
    BY <2>1 DEF Complete
<1>9. ASSUME NEW j \in DOMAIN q
      PROVE  \E g \in Frags : g.id = id /\ g.start = q[j].start /\ g.end = q[j].end
  <2>1. PICK g \in Frags : g.id = id /\ Piece(g) = q[j]
    BY DEF Sent
  <2> QED
    BY <2>1, FragIs
<1>10. PICK a \in Frags : a.id = id /\ a.start = q[at - 1].start /\ a.end = q[at - 1].end
  BY <1>6, <1>9
<1>11. PICK b \in Frags : b.id = id /\ b.start = q[at].start /\ b.end = q[at].end
  BY <1>6, <1>9
<1>12. PICK c \in Frags : c.id = id /\ c.start = q[at + 1].start /\ c.end = q[at + 1].end
  BY <1>6, <1>9
<1>13. PICK l \in Frags : l.id = id /\ ~l.more
  BY DEF Anchored
<1>14. ~(a.end < b.start /\ b.end = c.start)
  BY <1>10, <1>11, <1>12, <1>13 DEF Clean
<1>15. ~(a.end < b.start)
  BY <1>8, <1>11, <1>12, <1>14
<1>16. b.start = f.start /\ a.end <= b.start
  <2>1. b.start = f.start
    BY <1>2, <1>6, <1>11, FragIs
  <2> QED
    BY <1>6, <1>7, <1>10, <2>1
<1>17. a.end \in Nat /\ b.start \in Nat
  BY <1>10, <1>11, FragIs
<1> QED
  BY <1>10, <1>11, <1>15, <1>16, <1>17

(***************************************************************************)
(* The list of datagrams, and its books.                                   *)
(***************************************************************************)
Sound(d) ==
  /\ d \in ReassData /\ Sorted(d.p) /\ Sent(d.id, d.last, d.p)
  /\ Clean => Anchored(d.id, d.last, d.p)

GoodList(list) ==
  /\ WellCut /\ list \in Seq(ReassData) /\ Len(list) <= MEMP_NUM_REASSDATA
  /\ \A i \in DOMAIN list : Sound(list[i])
  /\ \A i, j \in DOMAIN list : list[i].id = list[j].id => i = j

Counted(list, n) ==
  IsFiniteSet(Waiting(list)) /\ n = Cardinality(Waiting(list))

HeldBy(d) == {d.id} \X ToSet(d.p)

LEMMA ListIs ==
  ASSUME NEW list, GoodList(list)
  PROVE  /\ Len(list) \in Nat /\ DOMAIN list = 1 .. Len(list) /\ list \in Seq(ReassData)
         /\ \A i \in DOMAIN list :
              /\ list[i] \in ReassData /\ list[i].id \in Nat /\ list[i].last \in BOOLEAN
              /\ list[i].p \in Seq(Pieces) /\ Len(list[i].p) \in Nat /\ Sorted(list[i].p)
<1>1. list \in Seq(ReassData)
  BY DEF GoodList
<1>2. Len(list) \in Nat /\ DOMAIN list = 1 .. Len(list) /\ \A i \in DOMAIN list : list[i] \in ReassData
  BY <1>1
<1>3. \A i \in DOMAIN list : Sorted(list[i].p)
  BY DEF GoodList, Sound
<1>4. ASSUME NEW i \in DOMAIN list
      PROVE  /\ list[i].id \in Nat /\ list[i].last \in BOOLEAN
             /\ list[i].p \in Seq(Pieces) /\ Len(list[i].p) \in Nat
  <2>1. list[i] \in ReassData
    BY <1>2
  <2>2. list[i].id \in Nat /\ list[i].last \in BOOLEAN /\ list[i].p \in Seq(Pieces)
    BY <2>1 DEF ReassData
  <2> QED
    BY <2>2
<1> QED
  BY <1>1, <1>2, <1>3, <1>4

\* A datagram holds as many pbufs as its chain has pieces.
LEMMA HeldCount ==
  ASSUME NEW d, d.p \in Seq(Pieces), Sorted(d.p)
  PROVE  IsFiniteSet(HeldBy(d)) /\ Cardinality(HeldBy(d)) = Len(d.p)
<1> DEFINE n == Len(d.p)
           h == [j \in 1 .. n |-> <<d.id, d.p[j]>>]
<1>1. /\ n \in Nat /\ DOMAIN d.p = 1 .. n
      /\ \A j \in DOMAIN d.p : d.p[j] \in Pieces /\ d.p[j].start \in Nat
  BY PieceIs
<1>2. \A j \in 1 .. n : h[j] \in HeldBy(d)
  BY <1>1 DEF HeldBy, ToSet
<1>3. \A y \in HeldBy(d) : \E j \in 1 .. n : h[j] = y
  <2>1. SUFFICES ASSUME NEW y \in HeldBy(d) PROVE \E j \in 1 .. n : h[j] = y
    OBVIOUS
  <2>2. PICK x \in ToSet(d.p) : y = <<d.id, x>>
    BY DEF HeldBy
  <2>3. PICK j \in DOMAIN d.p : x = d.p[j]
    BY DEF ToSet
  <2> QED
    BY <1>1, <2>2, <2>3
<1>4. ASSUME NEW j \in 1 .. n, NEW k \in 1 .. n, h[j] = h[k] PROVE j = k
  <2>1. d.p[j] = d.p[k]
    BY <1>4
  <2>2. d.p[j].start = d.p[k].start /\ d.p[j].start \in Nat
    BY <1>1, <2>1
  <2>3. ~(j < k)
    <3>1. ASSUME j < k PROVE FALSE
      <4>1. d.p[j].start < d.p[k].start
        BY <1>1, <3>1 DEF Sorted
      <4> QED
        BY <2>2, <4>1
    <3> QED
      BY <3>1
  <2>4. ~(k < j)
    <3>1. ASSUME k < j PROVE FALSE
      <4>1. d.p[k].start < d.p[j].start
        BY <1>1, <3>1 DEF Sorted
      <4> QED
        BY <2>2, <4>1
    <3> QED
      BY <3>1
  <2> QED
    BY <1>1, <2>3, <2>4
<1>5. h \in Bijection(1 .. n, HeldBy(d))
  <2>1. h \in [1 .. n -> HeldBy(d)]
    BY <1>2
  <2> QED
    BY <1>3, <1>4, <2>1 DEF Bijection, Injection, Surjection, IsInjective
<1>6. IsFiniteSet(1 .. n) /\ Cardinality(1 .. n) = n
  BY <1>1, FS_Interval
<1>7. ExistsBijection(1 .. n, HeldBy(d))
  BY <1>5 DEF ExistsBijection
<1> QED
  BY <1>6, <1>7, FS_Bijection

LEMMA WaitingIs ==
  ASSUME NEW list, NEW y
  PROVE  y \in Waiting(list) <=> \E i \in DOMAIN list : y \in HeldBy(list[i])
BY DEF Waiting, ToSet, HeldBy

\* A datagram leaves the list with its pbufs.
LEMMA GoodRemove ==
  ASSUME NEW list, GoodList(list), NEW n, Counted(list, n), NEW i \in DOMAIN list,
         NEW g, g = RemoveAt(list, i)
  PROVE  /\ GoodList(g) /\ Len(g) = Len(list) - 1
         /\ \A k \in DOMAIN g : \E m \in DOMAIN list \ {i} : g[k] = list[m]
         /\ \A m \in DOMAIN list \ {i} : \E k \in DOMAIN g : g[k] = list[m]
         /\ Counted(g, n - Len(list[i].p))
<1>1. /\ Len(list) \in Nat /\ DOMAIN list = 1 .. Len(list) /\ list \in Seq(ReassData)
      /\ list[i].p \in Seq(Pieces) /\ Len(list[i].p) \in Nat /\ Sorted(list[i].p)
  BY ListIs
<1>2. g \in Seq(ReassData) /\ Without(g, list, i)
  BY <1>1, RemoveAtIs
<1>3. /\ \A k \in DOMAIN g : Over(i, k) \in DOMAIN list \ {i} /\ g[k] = list[Over(i, k)]
      /\ \A k, m \in DOMAIN g : Over(i, k) = Over(i, m) => k = m
      /\ \A m \in DOMAIN list \ {i} : \E k \in DOMAIN g : Over(i, k) = m
  <2>1. i \in 1 .. Len(list) /\ list \in Seq(ReassData) /\ g \in Seq(ReassData) /\ Without(g, list, i)
    BY <1>1, <1>2
  <2> QED
    BY <2>1, WithoutIs
<1>4. Len(g) = Len(list) - 1
  BY <1>2 DEF Without
<1>5. GoodList(g)
  <2>1. Len(g) <= MEMP_NUM_REASSDATA
    <3>1. Len(list) <= MEMP_NUM_REASSDATA /\ MEMP_NUM_REASSDATA \in Int
      BY DEF GoodList, WellCut
    <3> QED
      BY <1>1, <1>4, <3>1
  <2>2. \A k \in DOMAIN g : Sound(g[k])
    BY <1>3 DEF GoodList
  <2>3. \A k, m \in DOMAIN g : g[k].id = g[m].id => k = m
    BY <1>3 DEF GoodList
  <2>4. WellCut
    BY DEF GoodList
  <2> QED
    BY <1>2, <2>1, <2>2, <2>3, <2>4 DEF GoodList
<1>6. /\ \A k \in DOMAIN g : \E m \in DOMAIN list \ {i} : g[k] = list[m]
      /\ \A m \in DOMAIN list \ {i} : \E k \in DOMAIN g : g[k] = list[m]
  BY <1>3
<1>7. HeldBy(list[i]) \subseteq Waiting(list)
  BY WaitingIs
<1>8. Waiting(g) = Waiting(list) \ HeldBy(list[i])
  <2>1. ASSUME NEW y PROVE y \in Waiting(g) <=> y \in Waiting(list) \ HeldBy(list[i])
    <3>1. y \in Waiting(g) <=> \E k \in DOMAIN g : y \in HeldBy(g[k])
      BY WaitingIs
    <3>2. y \in Waiting(list) <=> \E m \in DOMAIN list : y \in HeldBy(list[m])
      BY WaitingIs
    <3>3. (\E k \in DOMAIN g : y \in HeldBy(g[k])) <=> \E m \in DOMAIN list \ {i} : y \in HeldBy(list[m])
      BY <1>6
    <3>4. ASSUME NEW m \in DOMAIN list \ {i}, y \in HeldBy(list[m]) PROVE y \notin HeldBy(list[i])
      <4>1. list[m].id # list[i].id
        BY DEF GoodList
      <4> QED
        BY <3>4, <4>1 DEF HeldBy
    <3> QED
      BY <3>1, <3>2, <3>3, <3>4
  <2> QED
    BY <2>1
<1>9. Counted(g, n - Len(list[i].p))
  <2>1. IsFiniteSet(Waiting(list)) /\ n = Cardinality(Waiting(list))
    BY DEF Counted
  <2>2. /\ IsFiniteSet(Waiting(g))
        /\ Cardinality(Waiting(g))
             = Cardinality(Waiting(list)) - Cardinality(Waiting(list) \intersect HeldBy(list[i]))
    BY <1>8, <2>1, FS_Difference
  <2>3. Waiting(list) \intersect HeldBy(list[i]) = HeldBy(list[i])
    BY <1>7
  <2>4. Cardinality(HeldBy(list[i])) = Len(list[i].p)
    BY <1>1, HeldCount
  <2> QED
    BY <2>1, <2>2, <2>3, <2>4 DEF Counted
<1> QED
  BY <1>4, <1>5, <1>6, <1>9

(***************************************************************************)
(* The functions of ip_frag.c on states of the list.                       *)
(***************************************************************************)
States == [list : Seq(ReassData), count : Int, ok : BOOLEAN]

LEMMA StateIs ==
  ASSUME NEW s \in States
  PROVE  s = [list |-> s.list, count |-> s.count, ok |-> s.ok]
BY DEF States

LEMMA CountedUp ==
  ASSUME NEW k, NEW n, NEW b, NEW x
  PROVE  /\ [[list |-> k, count |-> n, ok |-> b] EXCEPT !.count = @ + x] = [list |-> k, count |-> n + x, ok |-> b]
         /\ [[list |-> k, count |-> n, ok |-> b] EXCEPT !.count = @ - x] = [list |-> k, count |-> n - x, ok |-> b]
<1>1. ASSUME NEW m
      PROVE  [[list |-> k, count |-> n, ok |-> b] EXCEPT !.count = m] = [list |-> k, count |-> m, ok |-> b]
  OBVIOUS
<1>2. [list |-> k, count |-> n, ok |-> b].count = n
  OBVIOUS
<1> QED
  BY <1>1, <1>2, Zenon

Seen(d, f) == [id |-> d.id, last |-> d.last \/ ~f.more, p |-> d.p]

Grown(d, f) ==
  [id |-> d.id, last |-> d.last \/ ~f.more,
   p |-> InsertAt(d.p, Place(d.p, f) + 1, Piece(f))]

Took(s, i, f) ==
  IF Overlaps(s.list[i].p, f)
    THEN [list |-> [s.list EXCEPT ![i] = Seen(s.list[i], f)], count |-> s.count, ok |-> s.ok]
    ELSE [list |-> [s.list EXCEPT ![i] = Grown(s.list[i], f)], count |-> s.count + 1, ok |-> s.ok]

LEMMA ChainIs ==
  ASSUME NEW s \in States, NEW i \in DOMAIN s.list, NEW f, f.more \in BOOLEAN
  PROVE  Chain(s, i, f) = Took(s, i, f)
<1>1. /\ s = [list |-> s.list, count |-> s.count, ok |-> s.ok]
      /\ s.list \in Seq(ReassData) /\ s.list[i] \in ReassData
  BY StateIs DEF States
<1>2. s.list[i] = [id |-> s.list[i].id, last |-> s.list[i].last, p |-> s.list[i].p]
  BY <1>1 DEF ReassData
<1>3. CASE Overlaps(s.list[i].p, f)
  BY <1>1, <1>2, <1>3 DEF Chain, Took, Seen
<1>4. CASE ~Overlaps(s.list[i].p, f)
  <2> DEFINE q == InsertAt(s.list[i].p, Place(s.list[i].p, f) + 1, Piece(f))
             l == [s.list EXCEPT ![i] = Seen(s.list[i], f)]
  <2>1. Chain(s, i, f)
          = [[s EXCEPT !.list[i].last = @ \/ ~f.more] EXCEPT !.list[i].p = q, !.count = @ + 1]
    BY <1>4 DEF Chain
  <2> HIDE DEF q
  <2>2. [s EXCEPT !.list[i].last = @ \/ ~f.more] = [list |-> l, count |-> s.count, ok |-> s.ok]
    BY <1>1, <1>2 DEF Seen
  <2>3. l[i] = Seen(s.list[i], f) /\ DOMAIN l = DOMAIN s.list
    BY <1>1
  <2>4. [l EXCEPT ![i] = [l[i] EXCEPT !.p = q]] = [s.list EXCEPT ![i] = [Seen(s.list[i], f) EXCEPT !.p = q]]
    BY <1>1, <2>3
  <2> HIDE DEF l
  <2>5. Chain(s, i, f) = [list |-> [l EXCEPT ![i] = [l[i] EXCEPT !.p = q]], count |-> s.count + 1, ok |-> s.ok]
    <3>1. Chain(s, i, f)
            = [[[list |-> l, count |-> s.count, ok |-> s.ok] EXCEPT !.list[i].p = q] EXCEPT !.count = @ + 1]
      BY <2>1, <2>2
    <3>2. [[list |-> l, count |-> s.count, ok |-> s.ok] EXCEPT !.list[i].p = q]
            = [list |-> [l EXCEPT ![i] = [l[i] EXCEPT !.p = q]], count |-> s.count, ok |-> s.ok]
      OBVIOUS
    <3> QED
      BY <3>1, <3>2, CountedUp
  <2>6. [Seen(s.list[i], f) EXCEPT !.p = q] = Grown(s.list[i], f)
    BY DEF Seen, Grown, q
  <2> QED
    BY <1>4, <2>4, <2>5, <2>6 DEF Took
<1> QED
  BY <1>3, <1>4

\* A datagram leaves the list.
TakenOut(s, i) ==
  [list |-> RemoveAt(s.list, i), count |-> s.count - Len(s.list[i].p), ok |-> s.ok]

LEMMA TakeOutIs ==
  ASSUME NEW s \in States, NEW i
  PROVE  TakeOut(s, i) = TakenOut(s, i)
<1> DEFINE m == Len(s.list[i].p)
           g == RemoveAt(s.list, i)
<1>1. s = [list |-> s.list, count |-> s.count, ok |-> s.ok]
  BY StateIs
<1>2. TakeOut(s, i) = [[s EXCEPT !.list = g] EXCEPT !.count = @ - m]
  BY DEF TakeOut
<1> HIDE DEF m, g
<1>3. [s EXCEPT !.list = g] = [list |-> g, count |-> s.count, ok |-> s.ok]
  BY <1>1
<1>4. TakeOut(s, i) = [list |-> g, count |-> s.count - m, ok |-> s.ok]
  BY <1>2, <1>3, CountedUp
<1> QED
  BY <1>4 DEF TakenOut, g, m

LEMMA RemoveOldestIs ==
  ASSUME NEW s \in States, NEW i
  PROVE  /\ Unlinks(s.list, i) => RemoveOldest(s, i) = TakenOut(s, i)
         /\ ~Unlinks(s.list, i) => RemoveOldest(s, i).ok = FALSE
<1>1. CASE Unlinks(s.list, i)
  BY <1>1, TakeOutIs DEF RemoveOldest, TakeOut
<1>2. CASE ~Unlinks(s.list, i)
  <2> DEFINE g == Damaged(s.list, i)
             m == Len(s.list[i].p)
  <2>1. s = [list |-> s.list, count |-> s.count, ok |-> s.ok]
    BY StateIs
  <2>2. RemoveOldest(s, i) = [[[s EXCEPT !.list = g] EXCEPT !.count = @ - m] EXCEPT !.ok = FALSE]
    BY <1>2 DEF RemoveOldest
  <2> HIDE DEF g, m
  <2>3. [s EXCEPT !.list = g] = [list |-> g, count |-> s.count, ok |-> s.ok]
    BY <2>1
  <2>4. [[s EXCEPT !.list = g] EXCEPT !.count = @ - m] = [list |-> g, count |-> s.count - m, ok |-> s.ok]
    <3>1. [[list |-> g, count |-> s.count, ok |-> s.ok] EXCEPT !.count = @ - m]
            = [list |-> g, count |-> s.count - m, ok |-> s.ok]
      BY CountedUp
    <3> QED
      BY <2>3, <3>1
  <2>5. RemoveOldest(s, i) = [[list |-> g, count |-> s.count - m, ok |-> s.ok] EXCEPT !.ok = FALSE]
    BY <2>2, <2>4, Zenon
  <2>6. [[list |-> g, count |-> s.count - m, ok |-> s.ok] EXCEPT !.ok = FALSE].ok = FALSE
    OBVIOUS
  <2> QED
    BY <1>2, <2>5, <2>6
<1> QED
  BY <1>1, <1>2

Begun(id) == [id |-> id, last |-> FALSE, p |-> <<>>]

LEMMA EnqueueNewIs ==
  ASSUME NEW s \in States, NEW id, NEW room \in States,
         room = IF Len(s.list) < MEMP_NUM_REASSDATA THEN s ELSE RemoveOldest(s, Len(s.list))
  PROVE  EnqueueNew(s, id)
           = [list |-> <<Begun(id)>> \o room.list, count |-> room.count, ok |-> room.ok]
<1>1. EnqueueNew(s, id) = [room EXCEPT !.list = <<Begun(id)>> \o @]
  BY DEF EnqueueNew, Begun
<1> QED
  BY <1>1, StateIs

(***************************************************************************)
(* What the functions keep.                                                *)
(***************************************************************************)
Good(s) == s \in States /\ GoodList(s.list) /\ Counted(s.list, s.count)

Full(list)      == \A i \in DOMAIN list : list[i].p # <<>>
NoneWhole(list) == \A i \in DOMAIN list : ~Whole(list[i].id, list[i].p)

\* g is the list without its place i.
Fewer(g, list, i) ==
  /\ Len(g) = Len(list) - 1
  /\ \A k \in DOMAIN g : \E m \in DOMAIN list \ {i} : g[k] = list[m]
  /\ \A m \in DOMAIN list \ {i} : \E k \in DOMAIN g : g[k] = list[m]

LEMMA GoodIs ==
  ASSUME NEW s, Good(s)
  PROVE  /\ s \in States /\ s.list \in Seq(ReassData) /\ s.count \in Nat /\ s.ok \in BOOLEAN
         /\ Len(s.list) \in Nat /\ DOMAIN s.list = 1 .. Len(s.list)
         /\ Len(s.list) <= MEMP_NUM_REASSDATA /\ WellCut
<1>1. s \in States /\ s.list \in Seq(ReassData) /\ s.ok \in BOOLEAN
  BY DEF Good, States
<1>2. s.count \in Nat
  BY FS_CardinalityType DEF Good, Counted
<1> QED
  BY <1>1, <1>2 DEF Good, GoodList

LEMMA GoodTakenOut ==
  ASSUME NEW s, Good(s), NEW i \in DOMAIN s.list, NEW t, t = TakenOut(s, i)
  PROVE  /\ Good(t) /\ t.ok = s.ok /\ Fewer(t.list, s.list, i)
         /\ t.list = RemoveAt(s.list, i) /\ t.count = s.count - Len(s.list[i].p)
<1>1. /\ GoodList(s.list) /\ Counted(s.list, s.count) /\ s.count \in Nat /\ s.ok \in BOOLEAN
      /\ s.list[i].p \in Seq(Pieces) /\ Len(s.list[i].p) \in Nat
  <2>1. GoodList(s.list) /\ Counted(s.list, s.count)
    BY DEF Good
  <2> QED
    BY <2>1, GoodIs, ListIs
<1>2. t.list = RemoveAt(s.list, i) /\ t.count = s.count - Len(s.list[i].p) /\ t.ok = s.ok
  BY DEF TakenOut
<1>3. /\ GoodList(t.list) /\ Len(t.list) = Len(s.list) - 1
      /\ \A k \in DOMAIN t.list : \E m \in DOMAIN s.list \ {i} : t.list[k] = s.list[m]
      /\ \A m \in DOMAIN s.list \ {i} : \E k \in DOMAIN t.list : t.list[k] = s.list[m]
      /\ Counted(t.list, s.count - Len(s.list[i].p))
  <2>1. PICK g, n : g = t.list /\ n = s.count
    OBVIOUS
  <2>2. g = RemoveAt(s.list, i) /\ Counted(s.list, n)
    BY <1>1, <1>2, <2>1
  <2>3. /\ GoodList(g) /\ Len(g) = Len(s.list) - 1
        /\ \A k \in DOMAIN g : \E m \in DOMAIN s.list \ {i} : g[k] = s.list[m]
        /\ \A m \in DOMAIN s.list \ {i} : \E k \in DOMAIN g : g[k] = s.list[m]
        /\ Counted(g, n - Len(s.list[i].p))
    BY <1>1, <2>2, GoodRemove
  <2> QED
    BY <2>1, <2>3
<1>4. t \in States
  <2>1. t.list \in Seq(ReassData) /\ t.count \in Int
    BY <1>1, <1>2, <1>3 DEF GoodList
  <2>2. t = [list |-> t.list, count |-> t.count, ok |-> t.ok]
    BY DEF TakenOut
  <2> QED
    BY <1>1, <1>2, <2>1, <2>2 DEF States
<1>5. Good(t)
  BY <1>2, <1>3, <1>4 DEF Good
<1>6. Fewer(t.list, s.list, i)
  BY <1>3 DEF Fewer
<1> QED
  BY <1>2, <1>5, <1>6

LEMMA FewerKeeps ==
  ASSUME NEW g, NEW list, NEW i, Fewer(g, list, i)
  PROVE  /\ Full(list) => Full(g)
         /\ NoneWhole(list) => NoneWhole(g)
BY DEF Fewer, Full, NoneWhole

LEMMA NothingIsWhole ==
  ASSUME WellCut, NEW id
  PROVE  ~Whole(id, <<>>)
<1>1. SUFFICES ASSUME Whole(id, <<>>) PROVE FALSE
  OBVIOUS
<1>2. PICK f \in Frags : Covered(<<>>) = 0 .. f.end - 1
  BY <1>1 DEF Whole
<1>3. 0 \in 0 .. f.end - 1
  <2>1. f.end \in Nat /\ f.start \in Nat /\ f.start < f.end
    BY FragIs
  <2> QED
    BY <2>1
<1> QED
  BY <1>2, <1>3 DEF Covered

\* A datagram is begun in front of the list.
LEMMA GoodBegun ==
  ASSUME NEW s, Good(s), Len(s.list) < MEMP_NUM_REASSDATA, NEW id \in Nat, Mine(s.list, id) = {},
         NEW t, t = [list |-> <<Begun(id)>> \o s.list, count |-> s.count, ok |-> s.ok]
  PROVE  /\ Good(t) /\ t.ok = s.ok /\ t.count = s.count /\ Len(t.list) = Len(s.list) + 1
         /\ t.list[1] = Begun(id) /\ DOMAIN t.list = 1 .. Len(s.list) + 1
         /\ \A k \in DOMAIN s.list : k + 1 \in DOMAIN t.list /\ t.list[k + 1] = s.list[k]
         /\ \A k \in DOMAIN t.list : k # 1 => k - 1 \in DOMAIN s.list /\ t.list[k] = s.list[k - 1]
<1>1. /\ s.list \in Seq(ReassData) /\ s.count \in Nat /\ s.ok \in BOOLEAN
      /\ Len(s.list) \in Nat /\ DOMAIN s.list = 1 .. Len(s.list) /\ WellCut
  BY GoodIs
<1>2. t.list = <<Begun(id)>> \o s.list /\ t.count = s.count /\ t.ok = s.ok
  OBVIOUS
<1>3. Begun(id) \in ReassData /\ Begun(id).id = id /\ Begun(id).p = <<>>
  <2>1. <<>> \in Seq(Pieces)
    OBVIOUS
  <2> QED
    BY <2>1 DEF Begun, ReassData
<1>4. /\ t.list \in Seq(ReassData) /\ Len(t.list) = Len(s.list) + 1
      /\ \A k \in 1 .. Len(s.list) + 1 : t.list[k] = IF k <= 1 THEN Begun(id) ELSE s.list[k - 1]
  <2>1. PICK b : b = Begun(id)
    OBVIOUS
  <2>2. <<b>> \in Seq(ReassData) /\ Len(<<b>>) = 1 /\ <<b>>[1] = b
    BY <1>3, <2>1
  <2>3. /\ <<b>> \o s.list \in Seq(ReassData) /\ Len(<<b>> \o s.list) = Len(<<b>>) + Len(s.list)
        /\ \A k \in 1 .. Len(<<b>>) + Len(s.list) :
             (<<b>> \o s.list)[k] = IF k <= Len(<<b>>) THEN <<b>>[k] ELSE s.list[k - Len(<<b>>)]
    BY <1>1, <2>2, ConcatProperties
  <2>4. Len(<<b>>) + Len(s.list) = Len(s.list) + 1
    BY <1>1, <2>2
  <2>5. ASSUME NEW k \in 1 .. Len(s.list) + 1
        PROVE  t.list[k] = IF k <= 1 THEN b ELSE s.list[k - 1]
    <3>1. (<<b>> \o s.list)[k] = IF k <= 1 THEN <<b>>[k] ELSE s.list[k - 1]
      BY <2>2, <2>3, <2>4
    <3>2. k <= 1 => k = 1
      OBVIOUS
    <3> QED
      BY <1>2, <2>1, <2>2, <3>1, <3>2
  <2> QED
    BY <1>2, <2>1, <2>3, <2>4, <2>5
<1>5. DOMAIN t.list = 1 .. Len(s.list) + 1
  BY <1>4
<1>6. t.list[1] = Begun(id)
  BY <1>1, <1>4
<1>7. \A k \in DOMAIN s.list : k + 1 \in DOMAIN t.list /\ t.list[k + 1] = s.list[k]
  <2>1. ASSUME NEW k \in DOMAIN s.list PROVE k + 1 \in DOMAIN t.list /\ t.list[k + 1] = s.list[k]
    <3>0. PICK n \in Nat : n = Len(s.list) /\ k \in 1 .. n
      BY <1>1
    <3>1. k \in Nat /\ k + 1 \in 1 .. n + 1 /\ ~(k + 1 <= 1) /\ (k + 1) - 1 = k
      BY <3>0
    <3> QED
      BY <1>4, <1>5, <3>0, <3>1
  <2> QED
    BY <2>1
<1>8. \A k \in DOMAIN t.list : k # 1 => k - 1 \in DOMAIN s.list /\ t.list[k] = s.list[k - 1]
  <2>1. ASSUME NEW k \in DOMAIN t.list, k # 1 PROVE k - 1 \in DOMAIN s.list /\ t.list[k] = s.list[k - 1]
    <3>1. k \in 1 .. Len(s.list) + 1 /\ ~(k <= 1) /\ k - 1 \in DOMAIN s.list
      BY <1>1, <1>5, <2>1
    <3> QED
      BY <1>4, <3>1
  <2> QED
    BY <2>1
<1>9. GoodList(t.list)
  <2>1. Len(t.list) <= MEMP_NUM_REASSDATA
    <3>1. MEMP_NUM_REASSDATA \in Int
      BY <1>1 DEF WellCut
    <3> QED
      BY <1>1, <1>4, <3>1
  <2>2. Sound(Begun(id))
    <3>1. Anchored(Begun(id).id, Begun(id).last, Begun(id).p)
      BY DEF Begun, Anchored
    <3> QED
      BY <1>3, <3>1 DEF Sound, Sorted, Sent
  <2>3. \A k \in DOMAIN s.list : Sound(s.list[k])
    BY DEF Good, GoodList
  <2>4. \A k \in DOMAIN t.list : Sound(t.list[k])
    BY <1>6, <1>8, <2>2, <2>3
  <2>5. ASSUME NEW k \in DOMAIN t.list, NEW m \in DOMAIN t.list, t.list[k].id = t.list[m].id PROVE k = m
    <3>1. \A l \in DOMAIN s.list : s.list[l].id # id
      BY DEF Mine
    <3>2. CASE k = 1
      BY <1>3, <1>6, <1>8, <2>5, <3>1, <3>2
    <3>3. CASE m = 1
      BY <1>3, <1>6, <1>8, <2>5, <3>1, <3>3
    <3>4. CASE k # 1 /\ m # 1
      <4>1. k - 1 \in DOMAIN s.list /\ m - 1 \in DOMAIN s.list /\ s.list[k - 1].id = s.list[m - 1].id
        BY <1>8, <2>5, <3>4
      <4>2. k - 1 = m - 1
        BY <4>1 DEF Good, GoodList
      <4>3. k \in Int /\ m \in Int
        BY <1>5
      <4> QED
        BY <4>2, <4>3
    <3> QED
      BY <3>2, <3>3, <3>4
  <2> QED
    BY <1>1, <1>4, <2>1, <2>4, <2>5 DEF GoodList
<1>10. Counted(t.list, t.count)
  <2>1. ASSUME NEW y PROVE y \in Waiting(t.list) <=> y \in Waiting(s.list)
    <3>1. y \notin HeldBy(t.list[1])
      BY <1>3, <1>6 DEF HeldBy, ToSet
    <3>2. (\E k \in DOMAIN t.list : y \in HeldBy(t.list[k])) <=> \E k \in DOMAIN s.list : y \in HeldBy(s.list[k])
      BY <1>7, <1>8, <3>1
    <3> QED
      BY <3>2, WaitingIs
  <2>2. Waiting(t.list) = Waiting(s.list)
    BY <2>1
  <2> QED
    BY <1>2, <2>2 DEF Good, Counted
<1>11. t \in States
  BY <1>1, <1>2, <1>4 DEF States
<1>12. Good(t)
  BY <1>9, <1>10, <1>11 DEF Good
<1> QED
  BY <1>2, <1>4, <1>5, <1>6, <1>7, <1>8, <1>12

(***************************************************************************)
(* A datagram is begun: at x, 0 for no place, one that waited is gone.     *)
(***************************************************************************)
Readied(t, s, id, x) ==
  /\ Good(t) /\ NoneWhole(t.list) /\ t.ok = s.ok /\ t.count <= s.count
  /\ Mine(t.list, id) # {}
  /\ \A k \in DOMAIN t.list : t.list[k].id # id => t.list[k].p # <<>>
  /\ \A m \in DOMAIN s.list \ {x} : \E k \in DOMAIN t.list : t.list[k] = s.list[m]
  /\ Len(s.list) < MEMP_NUM_REASSDATA => x = 0
  /\ x \in DOMAIN s.list => s.list[x].id # id

LEMMA RoomMade ==
  ASSUME NEW s, Good(s), NoneWhole(s.list), Full(s.list), NEW id \in Nat, Mine(s.list, id) = {}
  PROVE  \E x \in Int : Readied(EnqueueNew(s, id), s, id, x)
<1>1. /\ s \in States /\ s.list \in Seq(ReassData) /\ s.count \in Nat /\ s.ok \in BOOLEAN
      /\ Len(s.list) \in Nat /\ DOMAIN s.list = 1 .. Len(s.list)
      /\ Len(s.list) <= MEMP_NUM_REASSDATA /\ WellCut
  BY GoodIs
<1>2. MEMP_NUM_REASSDATA \in Nat \ {0}
  BY <1>1 DEF WellCut
<1> DEFINE room == IF Len(s.list) < MEMP_NUM_REASSDATA THEN s ELSE RemoveOldest(s, Len(s.list))
           x == IF Len(s.list) < MEMP_NUM_REASSDATA THEN 0 ELSE Len(s.list)
<1>3. /\ Good(room) /\ room.ok = s.ok /\ room.count <= s.count /\ NoneWhole(room.list) /\ Full(room.list)
      /\ Len(room.list) < MEMP_NUM_REASSDATA
      /\ \A k \in DOMAIN room.list : \E m \in DOMAIN s.list : room.list[k] = s.list[m]
      /\ \A m \in DOMAIN s.list \ {x} : \E k \in DOMAIN room.list : room.list[k] = s.list[m]
  <2>1. CASE Len(s.list) < MEMP_NUM_REASSDATA
    <3>1. room = s
      BY <2>1
    <3>2. s.count <= s.count
      BY <1>1
    <3> QED
      BY <2>1, <3>1, <3>2
  <2>2. CASE ~(Len(s.list) < MEMP_NUM_REASSDATA)
    <3>1. Len(s.list) \in DOMAIN s.list /\ x = Len(s.list)
      BY <1>1, <1>2, <2>2
    <3>2. room = TakenOut(s, Len(s.list))
      <4>1. Unlinks(s.list, Len(s.list))
        BY DEF Unlinks
      <4> QED
        BY <1>1, <2>2, <4>1, RemoveOldestIs
    <3>3. PICK i : i = Len(s.list)
      OBVIOUS
    <3>4. PICK r : r = room
      OBVIOUS
    <3>5. /\ Good(r) /\ r.ok = s.ok /\ Fewer(r.list, s.list, i)
          /\ r.count = s.count - Len(s.list[i].p)
      BY <3>1, <3>2, <3>3, <3>4, GoodTakenOut
    <3>6. r.count <= s.count
      <4>1. Len(s.list[i].p) \in Nat
        <5>1. GoodList(s.list)
          BY DEF Good
        <5> QED
          BY <3>1, <3>3, <5>1, ListIs
      <4> QED
        BY <1>1, <3>5, <4>1
    <3>7. NoneWhole(r.list) /\ Full(r.list)
      BY <3>5, FewerKeeps
    <3>8. /\ Len(r.list) = Len(s.list) - 1
          /\ \A k \in DOMAIN r.list : \E m \in DOMAIN s.list : r.list[k] = s.list[m]
          /\ \A m \in DOMAIN s.list \ {i} : \E k \in DOMAIN r.list : r.list[k] = s.list[m]
      BY <3>5 DEF Fewer
    <3>9. Len(r.list) < MEMP_NUM_REASSDATA
      BY <1>1, <1>2, <3>8
    <3> QED
      BY <3>1, <3>3, <3>4, <3>5, <3>6, <3>7, <3>8, <3>9
  <2> QED
    BY <2>1, <2>2
<1>4. PICK r : r = room
  OBVIOUS
<1>5. PICK t : t = [list |-> <<Begun(id)>> \o r.list, count |-> r.count, ok |-> r.ok]
  OBVIOUS
<1>6. EnqueueNew(s, id) = t
  <2>1. r \in States
    BY <1>3, <1>4, GoodIs
  <2> QED
    BY <1>1, <1>4, <1>5, <2>1, EnqueueNewIs
<1>7. x \in Int /\ (Len(s.list) < MEMP_NUM_REASSDATA => x = 0)
  BY <1>1
<1>8. PICK y \in Int : y = x
  BY <1>7
<1>9. /\ Good(r) /\ r.ok = s.ok /\ r.count <= s.count /\ NoneWhole(r.list) /\ Full(r.list)
      /\ Len(r.list) < MEMP_NUM_REASSDATA
      /\ \A k \in DOMAIN r.list : \E m \in DOMAIN s.list : r.list[k] = s.list[m]
      /\ \A m \in DOMAIN s.list \ {y} : \E k \in DOMAIN r.list : r.list[k] = s.list[m]
      /\ Len(s.list) < MEMP_NUM_REASSDATA => y = 0
  BY <1>3, <1>4, <1>7, <1>8
<1> HIDE DEF room, x
<1>10. \A m \in DOMAIN s.list : s.list[m].id # id
  BY DEF Mine
<1>11. Mine(r.list, id) = {}
  BY <1>9, <1>10 DEF Mine
<1>12. /\ Good(t) /\ t.ok = r.ok /\ t.count = r.count /\ DOMAIN t.list = 1 .. Len(r.list) + 1
       /\ t.list[1] = Begun(id)
       /\ \A k \in DOMAIN r.list : k + 1 \in DOMAIN t.list /\ t.list[k + 1] = r.list[k]
       /\ \A k \in DOMAIN t.list : k # 1 => k - 1 \in DOMAIN r.list /\ t.list[k] = r.list[k - 1]
  <2>1. Good(r) /\ Len(r.list) < MEMP_NUM_REASSDATA /\ Mine(r.list, id) = {}
    BY <1>9, <1>11
  <2>2. /\ Good(t) /\ t.ok = r.ok /\ t.count = r.count
        /\ t.list[1] = Begun(id) /\ DOMAIN t.list = 1 .. Len(r.list) + 1
        /\ \A k \in DOMAIN r.list : k + 1 \in DOMAIN t.list /\ t.list[k + 1] = r.list[k]
        /\ \A k \in DOMAIN t.list : k # 1 => k - 1 \in DOMAIN r.list /\ t.list[k] = r.list[k - 1]
    BY <1>5, <2>1, GoodBegun
  <2> QED
    BY <2>2
<1>13. Begun(id).id = id /\ Begun(id).p = <<>>
  BY DEF Begun
<1>14. 1 \in DOMAIN t.list
  <2>1. Len(r.list) \in Nat
    BY <1>9, GoodIs
  <2> QED
    BY <1>12, <2>1
<1>15. Readied(t, s, id, y)
  <2>1. NoneWhole(t.list)
    <3>1. ~Whole(id, <<>>)
      BY <1>1, NothingIsWhole
    <3>2. ASSUME NEW k \in DOMAIN t.list PROVE ~Whole(t.list[k].id, t.list[k].p)
      <4>1. CASE k = 1
        BY <1>12, <1>13, <3>1, <4>1
      <4>2. CASE k # 1
        BY <1>9, <1>12, <4>2 DEF NoneWhole
      <4> QED
        BY <4>1, <4>2
    <3> QED
      BY <3>2 DEF NoneWhole
  <2>2. Mine(t.list, id) # {}
    BY <1>12, <1>13, <1>14 DEF Mine
  <2>3. \A k \in DOMAIN t.list : t.list[k].id # id => t.list[k].p # <<>>
    BY <1>9, <1>12, <1>13 DEF Full
  <2>4. \A m \in DOMAIN s.list \ {y} : \E k \in DOMAIN t.list : t.list[k] = s.list[m]
    BY <1>9, <1>12
  <2>5. t.ok = s.ok /\ t.count <= s.count
    BY <1>9, <1>12
  <2> QED
    BY <1>9, <1>10, <1>12, <2>1, <2>2, <2>3, <2>4, <2>5 DEF Readied
<1> QED
  BY <1>6, <1>15

(***************************************************************************)
(* A fragment comes to a datagram of its own.                              *)
(***************************************************************************)
LEMMA TookIs ==
  ASSUME NEW s, Good(s), NEW i \in DOMAIN s.list, NEW f \in Frags, NEW u, u = Took(s, i, f)
  PROVE  /\ u.list \in Seq(ReassData) /\ DOMAIN u.list = DOMAIN s.list /\ Len(u.list) = Len(s.list)
         /\ u.ok = s.ok /\ u \in States
         /\ \A k \in DOMAIN s.list : k # i => u.list[k] = s.list[k]
         /\ Overlaps(s.list[i].p, f)
              => u.list[i] = Seen(s.list[i], f) /\ u.count = s.count /\ s.list[i].p # <<>>
         /\ ~Overlaps(s.list[i].p, f)
              => u.list[i] = Grown(s.list[i], f) /\ u.count = s.count + 1
<1>1. /\ s \in States /\ s.list \in Seq(ReassData) /\ s.count \in Nat /\ s.ok \in BOOLEAN
      /\ Len(s.list) \in Nat /\ DOMAIN s.list = 1 .. Len(s.list) /\ WellCut
  BY GoodIs
<1>2. /\ s.list[i] \in ReassData /\ s.list[i].id \in Nat /\ s.list[i].last \in BOOLEAN
      /\ s.list[i].p \in Seq(Pieces) /\ Sorted(s.list[i].p)
  <2>1. GoodList(s.list)
    BY DEF Good
  <2> QED
    BY <2>1, ListIs
<1>3. f.more \in BOOLEAN
  BY <1>1, FragIs
<1>4. CASE Overlaps(s.list[i].p, f)
  <2>1. /\ u.list = [s.list EXCEPT ![i] = Seen(s.list[i], f)]
        /\ u = [list |-> u.list, count |-> s.count, ok |-> s.ok]
    BY <1>4 DEF Took
  <2>2. Seen(s.list[i], f) \in ReassData
    BY <1>2, <1>3 DEF Seen, ReassData
  <2>3. u.list \in Seq(ReassData) /\ DOMAIN u.list = DOMAIN s.list /\ Len(u.list) = Len(s.list)
    BY <1>1, <2>1, <2>2
  <2>4. s.list[i].p # <<>>
    BY <1>4 DEF Overlaps
  <2>5. u.count = s.count /\ u.ok = s.ok
    BY <2>1
  <2>6. u \in States
    BY <1>1, <2>1, <2>3 DEF States
  <2>7. u.list[i] = Seen(s.list[i], f) /\ \A k \in DOMAIN s.list : k # i => u.list[k] = s.list[k]
    BY <1>1, <2>1
  <2> QED
    BY <1>4, <2>3, <2>4, <2>5, <2>6, <2>7
<1>5. CASE ~Overlaps(s.list[i].p, f)
  <2>1. /\ u.list = [s.list EXCEPT ![i] = Grown(s.list[i], f)]
        /\ u = [list |-> u.list, count |-> s.count + 1, ok |-> s.ok]
    BY <1>5 DEF Took
  <2>2. Grown(s.list[i], f) \in ReassData
    <3>1. PICK q : q = InsertAt(s.list[i].p, Place(s.list[i].p, f) + 1, Piece(f))
      OBVIOUS
    <3>2. q \in Seq(Pieces)
      BY <1>1, <1>2, <1>5, <3>1, ChainGrows
    <3> QED
      BY <1>2, <1>3, <3>1, <3>2 DEF Grown, ReassData
  <2>3. u.list \in Seq(ReassData) /\ DOMAIN u.list = DOMAIN s.list /\ Len(u.list) = Len(s.list)
    BY <1>1, <2>1, <2>2
  <2>4. u.count = s.count + 1 /\ u.ok = s.ok
    <3>1. PICK n : n = s.count + 1
      OBVIOUS
    <3>2. u = [list |-> u.list, count |-> n, ok |-> s.ok]
      BY <2>1, <3>1, Zenon
    <3>3. u.count = n /\ u.ok = s.ok
      BY <3>2
    <3> QED
      BY <3>1, <3>3
  <2>5. u \in States
    <3>1. PICK n \in Int : n = s.count + 1
      BY <1>1
    <3>2. u = [list |-> u.list, count |-> n, ok |-> s.ok]
      BY <2>1, <3>1, Zenon
    <3> QED
      BY <1>1, <2>3, <3>2 DEF States
  <2>6. u.list[i] = Grown(s.list[i], f) /\ \A k \in DOMAIN s.list : k # i => u.list[k] = s.list[k]
    BY <1>1, <2>1
  <2> QED
    BY <1>5, <2>3, <2>4, <2>5, <2>6
<1> QED
  BY <1>4, <1>5

LEMMA GoodTook ==
  ASSUME NEW s, Good(s), NEW i \in DOMAIN s.list, NEW f \in Frags, f.id = s.list[i].id,
         NEW u, u = Took(s, i, f)
  PROVE  /\ Good(u) /\ u.count <= s.count + 1
         /\ u.list[i].id = f.id /\ u.list[i].p # <<>>
         /\ ToSet(s.list[i].p) \subseteq ToSet(u.list[i].p)
<1>1. /\ s \in States /\ s.list \in Seq(ReassData) /\ s.count \in Nat
      /\ Len(s.list) \in Nat /\ DOMAIN s.list = 1 .. Len(s.list)
      /\ Len(s.list) <= MEMP_NUM_REASSDATA /\ WellCut
  BY GoodIs
<1>2. /\ s.list[i] \in ReassData /\ s.list[i].id \in Nat /\ s.list[i].last \in BOOLEAN
      /\ s.list[i].p \in Seq(Pieces) /\ Sorted(s.list[i].p) /\ Len(s.list[i].p) \in Nat
  <2>1. GoodList(s.list)
    BY DEF Good
  <2> QED
    BY <2>1, ListIs
<1>3. /\ u.list \in Seq(ReassData) /\ DOMAIN u.list = DOMAIN s.list /\ Len(u.list) = Len(s.list)
      /\ u \in States
      /\ \A k \in DOMAIN s.list : k # i => u.list[k] = s.list[k]
  BY TookIs
<1>4. Sent(s.list[i].id, s.list[i].last, s.list[i].p)
  BY DEF Good, GoodList, Sound
<1>5. f.more \in BOOLEAN
  BY <1>1, FragIs
<1>0. Clean => Anchored(s.list[i].id, s.list[i].last, s.list[i].p)
  BY DEF Good, GoodList, Sound
<1>6. /\ u.list[i].id = f.id /\ u.list[i].p # <<>> /\ Sorted(u.list[i].p)
      /\ ToSet(s.list[i].p) \subseteq ToSet(u.list[i].p)
      /\ Sent(f.id, u.list[i].last, u.list[i].p)
      /\ Clean => Anchored(f.id, u.list[i].last, u.list[i].p)
      /\ Counted(u.list, u.count) /\ u.count <= s.count + 1
  <2>1. CASE Overlaps(s.list[i].p, f)
    <3>1. u.list[i] = Seen(s.list[i], f) /\ u.count = s.count /\ s.list[i].p # <<>>
      BY <2>1, TookIs
    <3>2. u.list[i].id = f.id /\ u.list[i].p = s.list[i].p /\ (u.list[i].last <=> s.list[i].last \/ ~f.more)
      <4>1. PICK b : b = (s.list[i].last \/ ~f.more)
        OBVIOUS
      <4>2. u.list[i] = [id |-> s.list[i].id, last |-> b, p |-> s.list[i].p]
        BY <3>1, <4>1, Zenon DEF Seen
      <4>3. u.list[i].last = b /\ u.list[i].id = s.list[i].id /\ u.list[i].p = s.list[i].p
        BY <4>2
      <4> QED
        BY <4>1, <4>3
    <3>3. Sent(f.id, u.list[i].last, u.list[i].p)
      BY <1>4, <3>2 DEF Sent
    <3>0. Clean => Anchored(f.id, u.list[i].last, u.list[i].p)
      <4>1. SUFFICES ASSUME Clean, u.list[i].last
                     PROVE  \E j \in DOMAIN s.list[i].p : \E l \in Frags :
                              l.id = f.id /\ ~l.more /\ Piece(l) = s.list[i].p[j]
        BY <3>2 DEF Anchored
      <4>2. CASE s.list[i].last
        BY <1>0, <4>1, <4>2 DEF Anchored
      <4>3. CASE ~f.more
        BY <1>1, <1>2, <1>4, <2>1, <4>1, <4>3, StaysAnchored
      <4> QED
        BY <3>2, <4>1, <4>2, <4>3
    <3>4. ASSUME NEW y PROVE y \in Waiting(u.list) <=> y \in Waiting(s.list)
      <4>1. y \in HeldBy(u.list[i]) <=> y \in HeldBy(s.list[i])
        BY <3>2 DEF HeldBy
      <4>2. (\E k \in DOMAIN u.list : y \in HeldBy(u.list[k])) <=> \E k \in DOMAIN s.list : y \in HeldBy(s.list[k])
        BY <1>3, <4>1
      <4> QED
        BY <4>2, WaitingIs
    <3>5. Waiting(u.list) = Waiting(s.list)
      BY <3>4
    <3>6. Counted(u.list, u.count)
      BY <3>1, <3>5 DEF Good, Counted
    <3>7. u.count <= s.count + 1
      BY <1>1, <3>1
    <3> QED
      BY <1>2, <3>0, <3>1, <3>2, <3>3, <3>6, <3>7
  <2>2. CASE ~Overlaps(s.list[i].p, f)
    <3>1. u.list[i] = Grown(s.list[i], f) /\ u.count = s.count + 1
      BY <2>2, TookIs
    <3>2. PICK q : q = InsertAt(s.list[i].p, Place(s.list[i].p, f) + 1, Piece(f))
      OBVIOUS
    <3>3. u.list[i].id = f.id /\ u.list[i].p = q /\ (u.list[i].last <=> s.list[i].last \/ ~f.more)
      <4>1. PICK b : b = (s.list[i].last \/ ~f.more)
        OBVIOUS
      <4>2. u.list[i] = [id |-> s.list[i].id, last |-> b, p |-> q]
        BY <3>1, <3>2, <4>1, Zenon DEF Grown
      <4>3. u.list[i].last = b /\ u.list[i].id = s.list[i].id /\ u.list[i].p = q
        BY <4>2
      <4> QED
        BY <4>1, <4>3
    <3>4. /\ q \in Seq(Pieces) /\ Sorted(q) /\ Len(q) = Len(s.list[i].p) + 1
          /\ ToSet(q) = ToSet(s.list[i].p) \union {Piece(f)}
          /\ Piece(f) \notin ToSet(s.list[i].p)
      BY <1>1, <1>2, <2>2, <3>2, ChainGrows
    <3>5. q # <<>>
      <4>1. Len(q) # 0
        BY <1>2, <3>4
      <4> QED
        BY <4>1
    <3>6. Sent(f.id, u.list[i].last, q)
      <4>1. SUFFICES ASSUME NEW j \in DOMAIN q
                     PROVE  \E g \in Frags : g.id = f.id /\ Piece(g) = q[j] /\ (~g.more => u.list[i].last)
        BY DEF Sent
      <4>2. q[j] \in ToSet(q)
        BY DEF ToSet
      <4>3. CASE q[j] = Piece(f)
        BY <3>3, <4>3
      <4>4. CASE q[j] \in ToSet(s.list[i].p)
        <5>1. PICK k \in DOMAIN s.list[i].p : s.list[i].p[k] = q[j]
          BY <4>4 DEF ToSet
        <5>2. PICK g \in Frags :
                g.id = s.list[i].id /\ Piece(g) = s.list[i].p[k] /\ (~g.more => s.list[i].last)
          BY <1>4 DEF Sent
        <5> QED
          BY <3>3, <5>1, <5>2
      <4> QED
        BY <3>4, <4>2, <4>3, <4>4
    <3>0. Clean => Anchored(f.id, u.list[i].last, q)
      <4>1. SUFFICES ASSUME Clean, u.list[i].last
                     PROVE  \E j \in DOMAIN q : \E l \in Frags :
                              l.id = f.id /\ ~l.more /\ Piece(l) = q[j]
        BY DEF Anchored
      <4>2. CASE s.list[i].last
        <5>1. PICK j \in DOMAIN s.list[i].p, l \in Frags :
                l.id = f.id /\ ~l.more /\ Piece(l) = s.list[i].p[j]
          BY <1>0, <4>1, <4>2 DEF Anchored
        <5>2. s.list[i].p[j] \in ToSet(q)
          BY <3>4 DEF ToSet
        <5> QED
          BY <5>1, <5>2 DEF ToSet
      <4>3. CASE ~f.more
        <5>1. Piece(f) \in ToSet(q)
          BY <3>4
        <5> QED
          BY <4>3, <5>1 DEF ToSet
      <4> QED
        BY <3>3, <4>1, <4>2, <4>3
    <3>7. PICK z : z = <<f.id, Piece(f)>>
      OBVIOUS
    <3>8. z \notin Waiting(s.list)
      <4>1. SUFFICES ASSUME NEW k \in DOMAIN s.list, z \in HeldBy(s.list[k]) PROVE FALSE
        BY WaitingIs
      <4>2. f.id = s.list[k].id /\ Piece(f) \in ToSet(s.list[k].p)
        BY <3>7, <4>1 DEF HeldBy
      <4>3. k = i
        BY <4>2 DEF Good, GoodList
      <4> QED
        BY <3>4, <4>2, <4>3
    <3>9. ASSUME NEW y PROVE y \in Waiting(u.list) <=> y \in Waiting(s.list) \/ y = z
      <4>1. y \in HeldBy(u.list[i]) <=> y \in HeldBy(s.list[i]) \/ y = z
        BY <3>3, <3>4, <3>7 DEF HeldBy
      <4>2. (\E k \in DOMAIN u.list : y \in HeldBy(u.list[k]))
              <=> (\E k \in DOMAIN s.list : y \in HeldBy(s.list[k])) \/ y = z
        BY <1>3, <4>1
      <4> QED
        BY <4>2, WaitingIs
    <3>10. Waiting(u.list) = Waiting(s.list) \union {z}
      BY <3>9
    <3>11. Counted(u.list, u.count)
      <4>1. IsFiniteSet(Waiting(s.list)) /\ s.count = Cardinality(Waiting(s.list))
        BY DEF Good, Counted
      <4>2. /\ IsFiniteSet(Waiting(u.list))
            /\ Cardinality(Waiting(u.list)) = Cardinality(Waiting(s.list)) + 1
        BY <3>8, <3>10, <4>1, FS_AddElement
      <4> QED
        BY <3>1, <4>1, <4>2 DEF Counted
    <3>12. u.count <= s.count + 1
      BY <1>1, <3>1
    <3> QED
      BY <3>0, <3>3, <3>4, <3>5, <3>6, <3>11, <3>12
  <2> QED
    BY <2>1, <2>2
<1>7. GoodList(u.list)
  <2>1. \A k \in DOMAIN s.list : Sound(s.list[k])
    BY DEF Good, GoodList
  <2>2. Sound(u.list[i])
    <3>1. u.list[i] \in ReassData
      BY <1>3
    <3> QED
      BY <1>6, <3>1 DEF Sound
  <2>3. \A k \in DOMAIN u.list : Sound(u.list[k])
    BY <1>3, <2>1, <2>2
  <2>4. \A k \in DOMAIN s.list : u.list[k].id = s.list[k].id
    BY <1>3, <1>6
  <2>5. \A k, m \in DOMAIN s.list : s.list[k].id = s.list[m].id => k = m
    BY DEF Good, GoodList
  <2>6. \A k, m \in DOMAIN u.list : u.list[k].id = u.list[m].id => k = m
    BY <1>3, <2>4, <2>5
  <2> QED
    BY <1>1, <1>3, <2>3, <2>6 DEF GoodList
<1>8. Good(u)
  BY <1>3, <1>6, <1>7 DEF Good
<1> QED
  BY <1>6, <1>8

\* What is not finished is not whole.
LEMMA UnfinishedNotWhole ==
  ASSUME NEW s, Good(s), NoneWhole(s.list), NEW i \in DOMAIN s.list, NEW f \in Frags, f.id = s.list[i].id,
         NEW u, u = Took(s, i, f), ~Finished(s, i, f)
  PROVE  NoneWhole(u.list)
<1>1. WellCut /\ s \in States
  BY GoodIs
<1>2. /\ DOMAIN u.list = DOMAIN s.list
      /\ \A k \in DOMAIN s.list : k # i => u.list[k] = s.list[k]
  BY TookIs
<1>3. Good(u) /\ u.list[i].id = f.id
  BY GoodTook
<1>4. ~Whole(u.list[i].id, u.list[i].p)
  <2>1. CASE Overlaps(s.list[i].p, f)
    <3>1. u.list[i] = Seen(s.list[i], f)
      BY <2>1, TookIs
    <3> QED
      BY <3>1 DEF Seen, NoneWhole
  <2>2. CASE ~Overlaps(s.list[i].p, f)
    <3>1. SUFFICES ASSUME Whole(u.list[i].id, u.list[i].p) PROVE FALSE
      OBVIOUS
    <3>2. /\ u.list[i].p \in Seq(Pieces) /\ Sorted(u.list[i].p) /\ u.list[i].last \in BOOLEAN
          /\ Sent(u.list[i].id, u.list[i].last, u.list[i].p)
      <4>1. GoodList(u.list) /\ i \in DOMAIN u.list
        BY <1>2, <1>3 DEF Good
      <4>2. Sent(u.list[i].id, u.list[i].last, u.list[i].p)
        BY <4>1 DEF GoodList, Sound
      <4> QED
        BY <4>1, <4>2, ListIs
    <3>3. /\ u.list[i].last
          /\ Complete(u.list[i].p, Place(s.list[i].p, f) + 1)
      BY <1>1, <3>1, <3>2, WholeCompletes
    <3>4. Chain(s, i, f) = u
      <4>1. f.more \in BOOLEAN
        BY <1>1, FragIs
      <4> QED
        BY <1>1, <4>1, ChainIs
    <3>5. Finished(s, i, f)
      BY <2>2, <3>3, <3>4 DEF Finished
    <3> QED
      BY <3>5
  <2> QED
    BY <2>1, <2>2
<1> QED
  BY <1>2, <1>4 DEF NoneWhole

\* What is finished is whole, where the fragments are clean.
LEMMA FinishedIsWhole ==
  ASSUME Clean, NEW s, Good(s), NEW i \in DOMAIN s.list, NEW f \in Frags, f.id = s.list[i].id,
         NEW u, u = Took(s, i, f), Finished(s, i, f)
  PROVE  Whole(f.id, u.list[i].p)
<1>1. WellCut /\ s \in States
  BY GoodIs
<1>2. Chain(s, i, f) = u
  <2>1. f.more \in BOOLEAN
    BY <1>1, FragIs
  <2> QED
    BY <1>1, <2>1, ChainIs
<1>3. PICK p : p = s.list[i].p
  OBVIOUS
<1>4. PICK at : at = Place(p, f) + 1
  OBVIOUS
<1>5. PICK q : q = InsertAt(p, at, Piece(f))
  OBVIOUS
<1>6. p \in Seq(Pieces) /\ Sorted(p)
  <2>1. GoodList(s.list)
    BY DEF Good
  <2> QED
    BY <1>3, <2>1, ListIs
<1>7. ~Overlaps(p, f) /\ u.list[i].last /\ Complete(u.list[i].p, at)
  BY <1>2, <1>3, <1>4 DEF Finished
<1>8. u.list[i].p = q
  <2>1. u.list[i] = Grown(s.list[i], f)
    BY <1>3, <1>7, TookIs
  <2> QED
    BY <1>3, <1>4, <1>5, <2>1 DEF Grown
<1>9. q \in Seq(Pieces) /\ Sorted(q) /\ at \in DOMAIN q
  BY <1>1, <1>4, <1>5, <1>6, <1>7, ChainGrows
<1>10. PICK last : last = u.list[i].last
  OBVIOUS
<1>11. Sent(f.id, last, q) /\ Anchored(f.id, last, q) /\ last /\ Complete(q, at)
  <2>1. Good(u) /\ u.list[i].id = f.id
    BY GoodTook
  <2>2. i \in DOMAIN u.list
    BY TookIs
  <2>3. Sound(u.list[i])
    BY <2>1, <2>2 DEF Good, GoodList
  <2> QED
    BY <1>7, <1>8, <1>10, <2>1, <2>3 DEF Sound
<1>12. at \in 2 .. Len(q) - 1 => q[at - 1].end = q[at].start
  BY <1>1, <1>4, <1>5, <1>6, <1>7, <1>11, NoGapBefore
<1>13. Whole(f.id, q)
  BY <1>1, <1>9, <1>11, <1>12, CompleteIsWhole
<1> QED
  BY <1>8, <1>13

(***************************************************************************)
(* The state the fragment leaves: what it is, and what it has kept.        *)
(***************************************************************************)
Limited(s) ==
  /\ Good(s) /\ NoneWhole(s.list) /\ Full(s.list)
  /\ s.count <= IP_REASS_MAX_PBUFS

Now == [list |-> reassdatagrams, count |-> ip_reass_pbufcount, ok |-> intact]

\* All that list holds is kept, but for what is at place x.
KeptBut(list, x) ==
  \A m \in DOMAIN list \ {x} : Kept(list[m].id, list[m].p)

LEMMA AdmitIs ==
  ASSUME NEW s, Limited(s), s.ok = TRUE, s.count + 1 <= IP_REASS_MAX_PBUFS,
         NEW f \in Frags, Admit(s, f)
  PROVE  \E x \in Int :
           /\ Limited(Now)' /\ KeptBut(s.list, x)
           /\ Clean => out' = Nothing \/ Whole(out'.id, out'.p)
           /\ Len(s.list) < MEMP_NUM_REASSDATA => x = 0
           /\ x \in DOMAIN s.list => s.list[x].id # f.id
<1> DEFINE ready == IF Mine(s.list, f.id) = {} THEN EnqueueNew(s, f.id) ELSE s
<1>1. /\ Good(s) /\ NoneWhole(s.list) /\ Full(s.list) /\ s.count \in Nat /\ s.ok \in BOOLEAN
      /\ WellCut /\ s \in States /\ Len(s.list) \in Nat /\ DOMAIN s.list = 1 .. Len(s.list)
  BY GoodIs DEF Limited
<1>2. f.id \in Nat /\ f.more \in BOOLEAN
  BY <1>1, FragIs
<1>3. IP_REASS_MAX_PBUFS \in Int
  BY <1>1 DEF WellCut
<1>4. PICK x \in Int : Readied(ready, s, f.id, x)
  <2>1. CASE Mine(s.list, f.id) = {}
    BY <1>1, <1>2, <2>1, RoomMade
  <2>2. CASE Mine(s.list, f.id) # {}
    <3>1. s.count <= s.count /\ 0 \in Int /\ 0 \notin DOMAIN s.list
      BY <1>1
    <3>2. \A k \in DOMAIN s.list : s.list[k].p # <<>>
      BY <1>1 DEF Full
    <3>3. Readied(s, s, f.id, 0)
      BY <1>1, <2>2, <3>1, <3>2 DEF Readied
    <3> QED
      BY <2>2, <3>1, <3>3
  <2> QED
    BY <2>1, <2>2
<1>5. PICK t : t = ready
  OBVIOUS
<1> HIDE DEF ready
<1>6. /\ Good(t) /\ NoneWhole(t.list) /\ t.ok = TRUE /\ t.count <= s.count
      /\ Mine(t.list, f.id) # {}
      /\ \A k \in DOMAIN t.list : t.list[k].id # f.id => t.list[k].p # <<>>
      /\ \A m \in DOMAIN s.list \ {x} : \E k \in DOMAIN t.list : t.list[k] = s.list[m]
      /\ Len(s.list) < MEMP_NUM_REASSDATA => x = 0
      /\ x \in DOMAIN s.list => s.list[x].id # f.id
  BY <1>4, <1>5 DEF Readied
<1>7. PICK i : i = CHOOSE j \in Mine(t.list, f.id) : TRUE
  OBVIOUS
<1>8. i \in DOMAIN t.list /\ t.list[i].id = f.id
  BY <1>6, <1>7 DEF Mine
<1>9. PICK u : u = Took(t, i, f)
  OBVIOUS
<1>10. Chain(t, i, f) = u
  <2>1. t \in States
    BY <1>6, GoodIs
  <2> QED
    BY <1>2, <1>8, <1>9, <2>1, ChainIs
<1>11. /\ DOMAIN u.list = DOMAIN t.list /\ u.ok = t.ok
       /\ \A k \in DOMAIN t.list : k # i => u.list[k] = t.list[k]
  BY <1>6, <1>8, <1>9, TookIs
<1>12. /\ Good(u) /\ u.count <= t.count + 1
       /\ u.list[i].id = f.id /\ u.list[i].p # <<>>
       /\ ToSet(t.list[i].p) \subseteq ToSet(u.list[i].p)
  BY <1>6, <1>8, <1>9, GoodTook
<1>13. Full(u.list)
  <2>1. \A k \in DOMAIN t.list : t.list[k].id = f.id => k = i
    BY <1>6, <1>8 DEF Good, GoodList
  <2> QED
    BY <1>6, <1>11, <1>12, <2>1 DEF Full
<1>14. u.count <= IP_REASS_MAX_PBUFS /\ u.count \in Nat
  <2>1. u.count \in Nat /\ t.count \in Nat
    BY <1>6, <1>12, GoodIs
  <2> QED
    BY <1>1, <1>3, <1>6, <1>12, <2>1
<1>15. IF t.ok /\ Finished(t, i, f)
         THEN Set(TakeOut(u, i)) /\ out' = [id |-> f.id, p |-> u.list[i].p]
         ELSE Set(u) /\ out' = Nothing
  BY <1>5, <1>7, <1>10 DEF Admit, ready
<1>16. /\ Limited(Now)' /\ KeptBut(s.list, x)
       /\ Clean => out' = Nothing \/ Whole(out'.id, out'.p)
  <2>1. CASE Finished(t, i, f)
    <3>1. PICK v : v = TakenOut(u, i)
      OBVIOUS
    <3>2. TakeOut(u, i) = v
      <4>1. u \in States
        BY <1>12, GoodIs
      <4> QED
        BY <3>1, <4>1, TakeOutIs
    <3>3. /\ Good(v) /\ v.ok = u.ok /\ Fewer(v.list, u.list, i) /\ v.count = u.count - Len(u.list[i].p)
      BY <1>8, <1>11, <1>12, <3>1, GoodTakenOut
    <3>4. Full(v.list)
      BY <1>13, <3>3, FewerKeeps
    <3>5. NoneWhole(v.list)
      <4>1. \A k \in DOMAIN u.list \ {i} : ~Whole(u.list[k].id, u.list[k].p)
        BY <1>6, <1>11 DEF NoneWhole
      <4> QED
        BY <3>3, <4>1 DEF Fewer, NoneWhole
    <3>6. v.count <= IP_REASS_MAX_PBUFS
      <4>1. Len(u.list[i].p) \in Nat
        <5>1. GoodList(u.list) /\ i \in DOMAIN u.list
          BY <1>8, <1>11, <1>12 DEF Good
        <5> QED
          BY <5>1, ListIs
      <4> QED
        BY <1>3, <1>14, <3>3, <4>1
    <3>7. /\ reassdatagrams' = v.list /\ ip_reass_pbufcount' = v.count /\ intact' = v.ok
          /\ out' = [id |-> f.id, p |-> u.list[i].p]
      BY <1>6, <1>15, <2>1, <3>2 DEF Set
    <3>8. Limited(Now)'
      <4>1. Limited(v)
        BY <3>3, <3>4, <3>5, <3>6 DEF Limited
      <4>2. v = [list |-> v.list, count |-> v.count, ok |-> v.ok]
        BY <3>3, StateIs DEF Good
      <4>3. Now' = v
        BY <3>7, <4>2 DEF Now
      <4> QED
        BY <4>1, <4>3
    <3>9. ASSUME NEW m \in DOMAIN s.list \ {x} PROVE Kept(s.list[m].id, s.list[m].p)
      <4>1. PICK k \in DOMAIN t.list : t.list[k] = s.list[m]
        BY <1>6
      <4>2. CASE k = i
        <5>1. out'.id = s.list[m].id /\ out'.p = u.list[i].p
          BY <1>8, <3>7, <4>1, <4>2
        <5> QED
          BY <1>12, <4>1, <4>2, <5>1 DEF Kept
      <4>3. CASE k # i
        <5>1. PICK l \in DOMAIN v.list : v.list[l] = u.list[k]
          BY <1>11, <3>3, <4>3 DEF Fewer
        <5>2. v.list[l] = s.list[m]
          BY <1>11, <4>1, <4>3, <5>1
        <5>3. s.list[m] \in ToSet(reassdatagrams')
          BY <3>7, <5>2 DEF ToSet
        <5> QED
          BY <5>3 DEF Kept
      <4> QED
        BY <4>2, <4>3
    <3>10. Clean => Whole(out'.id, out'.p)
      <4>1. Clean => Whole(f.id, u.list[i].p)
        BY <1>6, <1>8, <1>9, <2>1, FinishedIsWhole
      <4> QED
        BY <3>7, <4>1
    <3> QED
      BY <3>8, <3>9, <3>10 DEF KeptBut
  <2>2. CASE ~Finished(t, i, f)
    <3>1. NoneWhole(u.list)
      BY <1>6, <1>8, <1>9, <2>2, UnfinishedNotWhole
    <3>2. /\ reassdatagrams' = u.list /\ ip_reass_pbufcount' = u.count /\ intact' = u.ok
          /\ out' = Nothing
      BY <1>15, <2>2 DEF Set
    <3>3. Limited(Now)'
      <4>1. Limited(u)
        BY <1>12, <1>13, <1>14, <3>1 DEF Limited
      <4>2. u = [list |-> u.list, count |-> u.count, ok |-> u.ok]
        BY <1>12, StateIs DEF Good
      <4>3. Now' = u
        BY <3>2, <4>2 DEF Now
      <4> QED
        BY <4>1, <4>3
    <3>4. ASSUME NEW m \in DOMAIN s.list \ {x} PROVE Kept(s.list[m].id, s.list[m].p)
      <4>1. PICK k \in DOMAIN t.list : t.list[k] = s.list[m]
        BY <1>6
      <4>2. u.list[k].id = s.list[m].id /\ ToSet(s.list[m].p) \subseteq ToSet(u.list[k].p)
        BY <1>8, <1>11, <1>12, <4>1
      <4>3. u.list[k] \in ToSet(reassdatagrams')
        BY <1>11, <3>2 DEF ToSet
      <4> QED
        BY <4>2, <4>3 DEF Kept
    <3> QED
      BY <3>2, <3>3, <3>4 DEF KeptBut
  <2> QED
    BY <2>1, <2>2
<1> QED
  BY <1>4, <1>6, <1>16

(***************************************************************************)
(* The inductive invariant, and a step of ip_reass.                        *)
(***************************************************************************)
ReassInv == (intact => Limited(Now)) /\ (Clean => ReassembledWhole)

\* The datagrams a step has cost: one at most, and it is not that of f.
Costs(f) ==
  \E x \in Int : /\ KeptBut(reassdatagrams, x)
                 /\ x \in DOMAIN reassdatagrams => reassdatagrams[x].id # f.id

LEMMA NowIs ==
  ASSUME ReassInv, intact
  PROVE  /\ Good(Now) /\ NoneWhole(reassdatagrams) /\ Full(reassdatagrams)
         /\ ip_reass_pbufcount \in Nat /\ ip_reass_pbufcount <= IP_REASS_MAX_PBUFS
         /\ IP_REASS_MAX_PBUFS \in Nat /\ MEMP_NUM_REASSDATA \in Nat
         /\ Len(reassdatagrams) \in Nat /\ DOMAIN reassdatagrams = 1 .. Len(reassdatagrams)
         /\ Len(reassdatagrams) <= MEMP_NUM_REASSDATA /\ GoodList(reassdatagrams)
<1>1. Now.list = reassdatagrams /\ Now.count = ip_reass_pbufcount
  BY DEF Now
<1>2. /\ Good(Now) /\ NoneWhole(Now.list) /\ Full(Now.list) /\ Now.count <= IP_REASS_MAX_PBUFS
      /\ Now.count \in Nat /\ Len(Now.list) \in Nat /\ DOMAIN Now.list = 1 .. Len(Now.list)
      /\ Len(Now.list) <= MEMP_NUM_REASSDATA /\ GoodList(Now.list)
  BY GoodIs DEF ReassInv, Limited, Good
<1>3. IP_REASS_MAX_PBUFS \in Nat /\ MEMP_NUM_REASSDATA \in Nat
  BY <1>2 DEF GoodList, WellCut
<1> QED
  BY <1>1, <1>2, <1>3

\* The oldest of the others, if there is one, is a datagram of another id.
LEMMA OldestIs ==
  ASSUME NEW list, NEW n \in Nat, DOMAIN list = 1 .. n, NEW id
  PROVE  /\ Oldest(list, id) # 0
              => /\ Oldest(list, id) \in DOMAIN list
                 /\ list[Oldest(list, id)].id # id
<1> DEFINE D == {0} \union (DOMAIN list \ Mine(list, id))
           B == {k \in Nat : \A x \in D : x <= k}
<1>1. n \in B
  OBVIOUS
<1>2. PICK k \in B : \A m \in B : k <= m
  <2>1. B \in SUBSET Nat /\ B # {}
    BY <1>1
  <2> HIDE DEF B
  <2> QED
    BY <2>1, LeastNat
<1>3. k \in D
  <2>1. CASE k = 0
    BY <2>1
  <2>2. CASE k # 0
    <3>1. k - 1 \in Nat /\ ~(k <= k - 1)
      BY <2>2
    <3>2. PICK x \in D : ~(x <= k - 1)
      BY <1>2, <3>1
    <3>3. x \in Int /\ x <= k
      BY <1>2
    <3>4. x = k
      BY <1>2, <3>2, <3>3
    <3> QED
      BY <3>2, <3>4
  <2> QED
    BY <2>1, <2>2
<1>4. k \in D /\ \A x \in D : k >= x
  BY <1>2, <1>3
<1>5. Oldest(list, id) = CHOOSE x \in D : \A y \in D : x >= y
  BY DEF Oldest, Max
<1> HIDE DEF D
<1>6. Oldest(list, id) \in D
  BY <1>4, <1>5
<1> QED
  BY <1>6 DEF D, Mine

LEMMA StepIs ==
  ASSUME ReassInv, NEW f \in Frags, ip_reass(f)
  PROVE  ReassInv' /\ (intact' => Costs(f))
<1>0. intact
  BY DEF ip_reass, ReceiveFrag, ReceiveInstead, Refuse
<1> DEFINE Answer == Clean => out' = Nothing \/ Whole(out'.id, out'.p)
<1>1. /\ Good(Now) /\ NoneWhole(reassdatagrams) /\ Full(reassdatagrams)
      /\ ip_reass_pbufcount \in Nat /\ ip_reass_pbufcount <= IP_REASS_MAX_PBUFS
      /\ IP_REASS_MAX_PBUFS \in Nat /\ MEMP_NUM_REASSDATA \in Nat
      /\ Len(reassdatagrams) \in Nat /\ DOMAIN reassdatagrams = 1 .. Len(reassdatagrams)
      /\ Len(reassdatagrams) <= MEMP_NUM_REASSDATA /\ GoodList(reassdatagrams)
  BY <1>0, NowIs
<1>2. PICK s : s = Now
  OBVIOUS
<1>3. /\ s = State /\ s.list = reassdatagrams /\ s.count = ip_reass_pbufcount /\ s.ok = intact
      /\ s = [list |-> reassdatagrams, count |-> ip_reass_pbufcount, ok |-> intact]
  BY <1>2 DEF Now, State
<1>4. Good(s) /\ s \in States /\ Limited(s)
  BY <1>0, <1>1, <1>2 DEF Good, ReassInv
<1>8. ReassembledWhole' <=> out' = Nothing \/ Whole(out'.id, out'.p)
  BY DEF ReassembledWhole
<1>5. CASE ReceiveFrag(f)
  <2>1. Admit(s, f) /\ s.ok = TRUE /\ s.count + 1 <= IP_REASS_MAX_PBUFS
    <3>1. Admit(s, f) /\ intact /\ ~Overflow
      BY <1>3, <1>5 DEF ReceiveFrag
    <3>2. s.ok = TRUE
      BY <1>3, <1>4, <3>1 DEF States
    <3>3. s.count + 1 <= IP_REASS_MAX_PBUFS
      BY <1>1, <1>3, <3>1 DEF Overflow
    <3> QED
      BY <3>1, <3>2, <3>3
  <2>2. PICK x \in Int : /\ Limited(Now)' /\ KeptBut(s.list, x)
                         /\ x \in DOMAIN s.list => s.list[x].id # f.id
                         /\ Answer
    BY <1>4, <2>1, AdmitIs
  <2> QED
    BY <1>3, <1>8, <2>2 DEF ReassInv, Costs
<1>6. CASE ReceiveInstead(f)
  <2>1. PICK i : i = Oldest(reassdatagrams, f.id)
    OBVIOUS
  <2>2. PICK r : r = RemoveOldest(s, i)
    OBVIOUS
  <2>3. /\ intact /\ i # 0
        /\ IF r.ok THEN Admit(r, f) ELSE Set(r) /\ out' = Nothing
    BY <1>3, <1>6, <2>1, <2>2 DEF ReceiveInstead
  <2>4. i \in DOMAIN reassdatagrams /\ reassdatagrams[i].id # f.id /\ i \in Int
    BY <1>1, <2>1, <2>3, OldestIs
  <2>5. CASE Unlinks(reassdatagrams, i)
    <3>1. r = TakenOut(s, i)
      BY <1>3, <1>4, <2>2, <2>5, RemoveOldestIs
    <3>2. /\ Good(r) /\ r.ok = s.ok /\ Fewer(r.list, s.list, i)
          /\ r.count = s.count - Len(s.list[i].p)
      BY <1>3, <1>4, <2>4, <3>1, GoodTakenOut
    <3>3. r.count + 1 <= IP_REASS_MAX_PBUFS /\ r.count <= IP_REASS_MAX_PBUFS
      <4>1. reassdatagrams[i].p # <<>> /\ reassdatagrams[i].p \in Seq(Pieces)
        <5>1. reassdatagrams[i].p \in Seq(Pieces)
          BY <1>1, <2>4, ListIs
        <5> QED
          BY <1>1, <2>4, <5>1 DEF Full
      <4>2. Len(reassdatagrams[i].p) \in Nat /\ Len(reassdatagrams[i].p) # 0
        BY <4>1, EmptySeq
      <4> QED
        BY <1>1, <1>3, <3>2, <4>2
    <3>4. Full(r.list) /\ NoneWhole(r.list)
      BY <1>1, <1>3, <3>2, FewerKeeps
    <3>5. Limited(r)
      BY <3>2, <3>3, <3>4 DEF Limited
    <3>6. r.ok = TRUE /\ Admit(r, f)
      <4>1. r.ok = TRUE
        BY <1>3, <1>4, <2>3, <3>2 DEF States
      <4> QED
        BY <2>3, <4>1
    <3>7. PICK x \in Int : /\ Limited(Now)' /\ KeptBut(r.list, x)
                           /\ Len(r.list) < MEMP_NUM_REASSDATA => x = 0
                           /\ Answer
      BY <3>3, <3>5, <3>6, AdmitIs
    <3>8. x = 0 /\ 0 \notin DOMAIN r.list
      <4>1. Len(r.list) = Len(reassdatagrams) - 1
        BY <1>3, <3>2 DEF Fewer
      <4>2. Len(r.list) < MEMP_NUM_REASSDATA
        <5>1. PICK n \in Nat : n = Len(reassdatagrams) /\ n <= MEMP_NUM_REASSDATA /\ MEMP_NUM_REASSDATA \in Nat
          BY <1>1
        <5>2. Len(r.list) = n - 1 /\ n - 1 < MEMP_NUM_REASSDATA
          BY <4>1, <5>1
        <5> QED
          BY <5>2
      <4>3. DOMAIN r.list = 1 .. Len(r.list)
        BY <3>2, GoodIs
      <4> QED
        BY <3>7, <4>2, <4>3
    <3>9. KeptBut(reassdatagrams, i)
      <4>1. SUFFICES ASSUME NEW m \in DOMAIN reassdatagrams \ {i}
                     PROVE  Kept(reassdatagrams[m].id, reassdatagrams[m].p)
        BY DEF KeptBut
      <4>2. PICK k \in DOMAIN r.list : r.list[k] = reassdatagrams[m]
        BY <1>3, <3>2 DEF Fewer
      <4>3. Kept(r.list[k].id, r.list[k].p)
        BY <3>7, <3>8 DEF KeptBut
      <4> QED
        BY <4>2, <4>3
    <3> QED
      BY <2>4, <3>7, <3>9, <1>8 DEF ReassInv, Costs
  <2>6. CASE ~Unlinks(reassdatagrams, i)
    <3>1. r.ok = FALSE
      BY <1>3, <1>4, <2>2, <2>6, RemoveOldestIs
    <3>2. intact' = FALSE /\ out' = Nothing
      BY <2>3, <3>1 DEF Set
    <3> QED
      BY <1>8, <3>2 DEF ReassInv
  <2> QED
    BY <2>5, <2>6
<1>7. CASE Refuse(f)
  <2>1. UNCHANGED <<reassdatagrams, ip_reass_pbufcount, intact>>
    BY <1>7 DEF Refuse
  <2>2. ReassInv'
    <3>1. Limited(Now)'
      BY <1>0, <2>1 DEF ReassInv, Now
    <3>2. out' = Nothing
      BY <1>7 DEF Refuse
    <3> QED
      BY <1>8, <3>1, <3>2 DEF ReassInv
  <2>3. KeptBut(reassdatagrams, 0)
    <3>1. ASSUME NEW m \in DOMAIN reassdatagrams PROVE reassdatagrams[m] \in ToSet(reassdatagrams')
      BY <2>1 DEF ToSet
    <3> QED
      BY <3>1 DEF KeptBut, Kept
  <2>4. 0 \notin DOMAIN reassdatagrams
    BY <1>1
  <2> QED
    BY <2>2, <2>3, <2>4 DEF Costs
<1> QED
  BY <1>5, <1>6, <1>7 DEF ip_reass

LEMMA ReassInitially ==
  ASSUME WellCut, ReassInit
  PROVE  ReassInv
<1>1. reassdatagrams = <<>> /\ ip_reass_pbufcount = 0 /\ intact = TRUE
  BY DEF ReassInit
<1>2. Now = [list |-> <<>>, count |-> 0, ok |-> TRUE]
  BY <1>1 DEF Now
<1>3. PICK s : s = [list |-> <<>>, count |-> 0, ok |-> TRUE]
  OBVIOUS
<1>4. s.list = <<>> /\ s.count = 0 /\ s \in States
  BY <1>3 DEF States
<1>5. GoodList(<<>>) /\ Full(<<>>) /\ NoneWhole(<<>>)
  <2>1. DOMAIN <<>> = {} /\ <<>> \in Seq(ReassData) /\ Len(<<>>) = 0
    OBVIOUS
  <2>2. Len(<<>>) <= MEMP_NUM_REASSDATA
    BY <2>1 DEF WellCut
  <2> QED
    BY <2>1, <2>2 DEF GoodList, Full, NoneWhole
<1>6. Counted(<<>>, 0)
  <2>1. \A y : y \notin Waiting(<<>>)
    BY WaitingIs
  <2>2. Waiting(<<>>) = {}
    BY <2>1
  <2> QED
    BY <2>2, FS_EmptySet DEF Counted
<1>7. 0 <= IP_REASS_MAX_PBUFS
  BY DEF WellCut
<1> QED
  <2>1. Limited(Now)
    BY <1>2, <1>3, <1>4, <1>5, <1>6, <1>7 DEF Limited, Good
  <2>2. ReassembledWhole
    BY DEF ReassInit, ReassembledWhole
  <2> QED
    BY <2>1, <2>2 DEF ReassInv

(* What ip_reass relies on of its list holds after every fragment.         *)
THEOREM ReassInvariance == ReassSpec => []ReassInv
<1>1. ReassInit => ReassInv
  BY ReassInitially, ReassAssumption
<1>2. ReassInv /\ [ReassNext]_reassVars => ReassInv'
  <2> SUFFICES ASSUME ReassInv, [ReassNext]_reassVars PROVE ReassInv'
    OBVIOUS
  <2>1. CASE ReassNext
    BY <2>1, StepIs DEF ReassNext
  <2>2. CASE UNCHANGED reassVars
    <3>1. intact' => Limited(Now)'
      BY <2>2 DEF reassVars, ReassInv, Now
    <3>2. ReassembledWhole' <=> ReassembledWhole
      BY <2>2 DEF reassVars, ReassembledWhole
    <3> QED
      BY <3>1, <3>2 DEF ReassInv
  <2> QED
    BY <2>1, <2>2
<1> QED
  BY <1>1, <1>2, PTL DEF ReassSpec

(***************************************************************************)
(* The books of ip_frag.c agree with what waits, whatever the network      *)
(* does, for as long as the list is intact: pbufcount is the number of the *)
(* chained pbufs and within its limit, no datagram is begun twice or waits *)
(* with no pbuf, and each chain is in order.                               *)
(***************************************************************************)
THEOREM BooksAgree == ReassSpec => []Accounts
<1>1. ASSUME ReassInv, intact PROVE Accounts
  <2>1. /\ Good(Now) /\ Full(reassdatagrams)
        /\ ip_reass_pbufcount <= IP_REASS_MAX_PBUFS
        /\ Len(reassdatagrams) <= MEMP_NUM_REASSDATA /\ GoodList(reassdatagrams)
    BY <1>1, NowIs
  <2>2. ip_reass_pbufcount = Cardinality(Waiting(reassdatagrams))
    BY <2>1 DEF Good, Counted, Now
  <2>3. ASSUME NEW i \in DOMAIN reassdatagrams
        PROVE  /\ Mine(reassdatagrams, reassdatagrams[i].id) = {i}
               /\ reassdatagrams[i].p # <<>>
               /\ \A j \in 1 .. Len(reassdatagrams[i].p) - 1 :
                    reassdatagrams[i].p[j].start < reassdatagrams[i].p[j + 1].start
    <3>1. Mine(reassdatagrams, reassdatagrams[i].id) = {i}
      BY <2>1 DEF GoodList, Mine
    <3>2. PICK p : p = reassdatagrams[i].p
      OBVIOUS
    <3>3. p \in Seq(Pieces) /\ Sorted(p) /\ p # <<>>
      BY <2>1, <3>2, ListIs DEF Full
    <3>4. ASSUME NEW j \in 1 .. Len(p) - 1 PROVE p[j].start < p[j + 1].start
      <4>1. Len(p) \in Nat /\ DOMAIN p = 1 .. Len(p)
        BY <3>3
      <4>2. j \in DOMAIN p /\ j + 1 \in DOMAIN p /\ j < j + 1
        BY <4>1
      <4> QED
        BY <3>3, <4>2 DEF Sorted
    <3> QED
      BY <3>1, <3>2, <3>3, <3>4
  <2> QED
    BY <2>1, <2>2, <2>3 DEF Accounts
<1>2. ReassInv => Accounts
  BY <1>1 DEF Accounts
<1> QED
  BY <1>2, ReassInvariance, PTL

(***************************************************************************)
(* A chain whose kept pieces meet from the first byte to the last is never *)
(* left in an intact list: the fragment that made it so passed the test of *)
(* valid and took it out.  Nothing is said of pieces ip_reass threw away.  *)
(***************************************************************************)
THEOREM WholeLeaves == ReassSpec => []NothingCompleteWaits
<1>1. ASSUME ReassInv PROVE NothingCompleteWaits
  BY <1>1, NowIs DEF NoneWhole, NothingCompleteWaits
<1> QED
  BY <1>1, ReassInvariance, PTL

(***************************************************************************)
(* What ip_reass returns is whole wherever the fragments are Clean.  Where *)
(* they are not, the test of valid passes a chain with a gap in it, as     *)
(* MC_IpReassHole.cfg shows of four fragments, or one without its end, as  *)
(* MC_IpReassCuts.cfg shows of two cuts.                                   *)
(***************************************************************************)
THEOREM CleanIsWhole == ASSUME Clean PROVE ReassSpec => []ReassembledWhole
<1>1. ASSUME ReassInv PROVE ReassembledWhole
  BY <1>1 DEF ReassInv
<1> QED
  BY <1>1, ReassInvariance, PTL

(***************************************************************************)
(* Room for a fragment costs one datagram at most, never its own, in every *)
(* step that leaves the list intact: where ip_reass frees the oldest of    *)
(* the others, ip_reass_enqueue_new_datagram finds room and frees none.    *)
(***************************************************************************)
THEOREM OthersPay == ReassSpec => NeverAtItsOwnCost
<1> DEFINE Pays(f) == /\ Cardinality(Lost) <= 1
                      /\ \A c \in Lost : c[1] # f.id
<1>1. ASSUME ReassInv, NEW f \in Frags, ip_reass(f), intact' PROVE Pays(f)
  <2>1. PICK x \in Int : /\ KeptBut(reassdatagrams, x)
                         /\ x \in DOMAIN reassdatagrams => reassdatagrams[x].id # f.id
    BY <1>1, StepIs DEF Costs
  <2>2. ASSUME NEW c \in Lost
        PROVE  x \in DOMAIN reassdatagrams /\ c = <<reassdatagrams[x].id, reassdatagrams[x].p>>
    <3>1. c \in Chains(reassdatagrams) /\ ~Kept(c[1], c[2])
      BY DEF Lost
    <3>2. PICK m \in DOMAIN reassdatagrams : c = <<reassdatagrams[m].id, reassdatagrams[m].p>>
      BY <3>1 DEF Chains
    <3>3. ~Kept(reassdatagrams[m].id, reassdatagrams[m].p)
      BY <3>1, <3>2
    <3>4. m = x
      BY <2>1, <3>3 DEF KeptBut
    <3> QED
      BY <3>2, <3>4
  <2>3. \A c \in Lost : c[1] # f.id
    BY <2>1, <2>2
  <2>4. Cardinality(Lost) <= 1
    <3>1. CASE Lost = {}
      BY <3>1, FS_EmptySet
    <3>2. CASE Lost # {}
      <4>1. Lost = {<<reassdatagrams[x].id, reassdatagrams[x].p>>}
        BY <2>2, <3>2
      <4> QED
        <5>1. PICK z : z = <<reassdatagrams[x].id, reassdatagrams[x].p>>
          OBVIOUS
        <5>2. Cardinality({z}) = 1
          BY FS_Singleton
        <5> QED
          BY <4>1, <5>1, <5>2
    <3> QED
      BY <3>1, <3>2
  <2> QED
    BY <2>3, <2>4
<1>2. ReassInv /\ [ReassNext]_reassVars
        => [\A f \in Frags : ip_reass(f) /\ intact'
              => Cardinality(Lost) <= 1 /\ \A c \in Lost : c[1] # f.id]_reassVars
  BY <1>1
<1> QED
  BY <1>2, ReassInvariance, PTL DEF ReassSpec, NeverAtItsOwnCost

=============================================================================
