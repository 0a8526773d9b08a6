----------------------------- MODULE ObjectStore ----------------------------
(***************************************************************************)
(* ObjectManager and FrameGroup (inc/grizzly_manager.h): objects named by  *)
(* a 32-bit counter, frames that group one buffer per channel, the table   *)
(* of buffers waiting for a frame, and the memory blocks the objects keep  *)
(* alive.  A block is reference counted; an object holds one reference,    *)
(* released with the object.                                               *)
(*                                                                         *)
(* The store is used by the main program only, one call at a time.  Its    *)
(* users may pass the name of any object they ever got, stale or not.      *)
(* PendingBufferMap is declared with ids for values (grizzly_types.h:31)   *)
(* but used with pairs of a type and an id; the use is what is modelled.   *)
(***************************************************************************)
EXTENDS Naturals, FiniteSets

CONSTANTS Channels,     \* ChannelId
          BufferTypes,  \* the names of the buffer formats
          Blocks,       \* the memory blocks a buffer may lie in
          IdMod,        \* ObjectId counts modulo this, 2^32 in the code
          MaxAllocs,    \* bound: objects allocated in one behaviour
          None          \* a null pointer, an absent key

Ids == 0 .. IdMod - 1

ASSUME StoreAssumption ==
  /\ IsFiniteSet(Blocks) /\ None \notin Blocks
  /\ "frame" \notin BufferTypes
  /\ IdMod \in Nat \ {0} /\ MaxAllocs \in Nat
  /\ None \notin [type : BufferTypes, id : Ids]
  /\ None \notin [type : BufferTypes \union {"frame"}, mem : Blocks \union {None},
                  group : [Channels -> [type : BufferTypes, id : Ids] \union {None}]]

Entry == [type : BufferTypes, id : Ids]
Table == [Channels -> Entry \union {None}]
Object == [type : BufferTypes \union {"frame"}, mem : Blocks \union {None}, group : Table]

VARIABLES
  numObjects,   \* num_objects, the last id given out
  objects,      \* the map objects, from ids to what the ObjectPtr points to
  leaked,       \* leaked[m]: ObjectPtr structures no id leads to, that hold m
  pending,      \* the map pending_buffers
  refs,         \* refs[b]: the reference count of block b
  allocs        \* objects allocated so far

storeVars == <<numObjects, objects, leaked, pending, refs, allocs>>

NoBuffers == [c \in Channels |-> None]

\* No constructor sets num_objects: "new ObjectManager()" (grizzlyapp.cpp:29)
\* names a class whose constructor is implicit, so its members are zeroed first.
Init ==
  /\ numObjects = 0 /\ allocs = 0
  /\ objects = [i \in Ids |-> None]
  /\ leaked = [m \in Blocks \union {None} |-> 0]
  /\ pending = NoBuffers
  /\ refs = [b \in Blocks |-> 0]

NextId == (numObjects + 1) % IdMod

\* The objects that hold a reference to block b.
Holders(b) == {i \in Ids : objects[i] # None /\ objects[i].mem = b}

-----------------------------------------------------------------------------
(* Plausible mistakes in the code; each breaks one property below.         *)

NewObject(type, mem) == [type |-> type, mem |-> mem, group |-> NoBuffers]

OverwritesObject(type, mem) ==
  /\ allocs < MaxAllocs /\ allocs' = allocs + 1
  /\ numObjects' = NextId
  /\ objects' = [objects EXCEPT ![NextId] = NewObject(type, mem)]
  /\ UNCHANGED leaked

CountsStored(type, mem) ==
  LET id == Cardinality({i \in Ids : objects[i] # None}) % IdMod
  IN  /\ allocs < MaxAllocs /\ allocs' = allocs + 1
      /\ numObjects' = id
      /\ IF objects[id] = None
           THEN /\ objects' = [objects EXCEPT ![id] = NewObject(type, mem)]
                /\ UNCHANGED leaked
           ELSE /\ leaked' = [leaked EXCEPT ![mem] = @ + 1]
                /\ UNCHANGED objects

ReleasesPerChannel(S) ==
  /\ objects' = [i \in Ids |-> IF i \in S THEN None ELSE objects[i]]
  /\ refs' = [b \in Blocks |-> IF S \intersect Holders(b) = {} THEN refs[b] ELSE refs[b] - 1]

-----------------------------------------------------------------------------
(* ObjectManager.                                                          *)

\* allocateObject: map::insert leaves an object that has the id already, and
\* then nothing leads to the new ObjectPtr.
AllocateObject(type, mem) ==
  /\ allocs < MaxAllocs /\ allocs' = allocs + 1
  /\ numObjects' = NextId
  /\ IF objects[NextId] = None
       THEN /\ objects' = [objects EXCEPT ![NextId] = NewObject(type, mem)]
            /\ UNCHANGED leaked
       ELSE /\ leaked' = [leaked EXCEPT ![mem] = @ + 1]
            /\ UNCHANGED objects

\* BufferFactory::allocateBuffer: the caller's reference becomes the object's.
AllocateBuffer(type, b) ==
  /\ AllocateObject(type, b)
  /\ refs' = [refs EXCEPT ![b] = @ + 1]

AllocateFrame == AllocateObject("frame", None) /\ UNCHANGED refs

\* The objects of S go, and with each its reference to the block.
Release(S) ==
  /\ objects' = [i \in Ids |-> IF i \in S THEN None ELSE objects[i]]
  /\ refs' = [b \in Blocks |-> refs[b] - Cardinality(S \intersect Holders(b))]

ReleaseObject(i) == objects[i] # None /\ Release({i})

\* releaseFrame, when getObject accepts the object as a frame.  The type an
\* ObjectPtr keeps of a frame refers to a string that is gone since
\* allocateFrame returned; when the comparison fails the call changes nothing.
ReleaseFrame(f) ==
  /\ objects[f] # None /\ objects[f].type = "frame"
  /\ Release({f} \union {objects[f].group[c].id :
                            c \in {d \in Channels : objects[f].group[d] # None}})

\* pushPendingBuffer: map::emplace leaves the entry a channel already has.
PushPendingBuffer(c, id, type) ==
  pending' = [pending EXCEPT ![c] = IF @ = None THEN [type |-> type, id |-> id] ELSE @]

-----------------------------------------------------------------------------
(* FrameGroup.                                                             *)

HasChannelObject(group, c, type) == group[c] # None /\ group[c].type = type

\* addChannelObject keeps a buffer of the same type and replaces one of another.
AddChannelObject(f, c, type, id) ==
  /\ objects[f] # None /\ objects[f].type = "frame"
  /\ ~HasChannelObject(objects[f].group, c, type)
  /\ objects' = [objects EXCEPT ![f].group[c] = [type |-> type, id |-> id]]

-----------------------------------------------------------------------------
(* A user of the store.                                                    *)

UserAllocates ==
  /\ \/ \E t \in BufferTypes, b \in Blocks : AllocateBuffer(t, b)
     \/ AllocateFrame
  /\ UNCHANGED pending

UserReleases ==
  /\ \E i \in Ids : ReleaseObject(i) \/ ReleaseFrame(i)
  /\ UNCHANGED <<numObjects, leaked, pending, allocs>>

UserGroups ==
  /\ \E f, i \in Ids, c \in Channels, t \in BufferTypes : AddChannelObject(f, c, t, i)
  /\ UNCHANGED <<numObjects, leaked, pending, refs, allocs>>

\* A buffer is put up for the next frame as soon as it is allocated.
UserPends ==
  /\ allocs > 0
  /\ \E c \in Channels, t \in BufferTypes : PushPendingBuffer(c, numObjects, t)
  /\ UNCHANGED <<numObjects, objects, leaked, refs, allocs>>

Next == UserAllocates \/ UserReleases \/ UserGroups \/ UserPends

Spec == Init /\ [][Next]_storeVars

-----------------------------------------------------------------------------
TypeOK ==
  /\ numObjects \in Ids /\ allocs \in 0 .. MaxAllocs
  /\ objects \in [Ids -> Object \union {None}]
  /\ leaked \in [Blocks \union {None} -> Nat]
  /\ pending \in Table
  /\ refs \in [Blocks -> Nat]

(***************************************************************************)
(* A block is referenced once for every object that lies in it, whatever   *)
(* the order of allocations and releases, stale names, frames that name    *)
(* the same buffer twice and frames released after their buffers: it is    *)
(* freed with the last object and never before.                            *)
(***************************************************************************)
RefsMatchHolders ==
  \A b \in Blocks : refs[b] = Cardinality(Holders(b)) + leaked[b]

(***************************************************************************)
(* An object keeps its type and its memory until it is released, also when *)
(* the counter has come round to its id.                                   *)
(***************************************************************************)
ObjectsKept ==
  [][ \A i \in Ids : objects[i] # None /\ objects'[i] # None
        => objects'[i].type = objects[i].type /\ objects'[i].mem = objects[i].mem ]_storeVars

(***************************************************************************)
(* Until the counter comes round, the id allocateObject returns is new:    *)
(* every allocation can be reached, so nothing is lost.                    *)
(***************************************************************************)
NothingLostBeforeWrap ==
  allocs <= IdMod => \A m \in Blocks \union {None} : leaked[m] = 0
=============================================================================
