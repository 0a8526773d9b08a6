----------------------------- MODULE ColorServer ----------------------------
(***************************************************************************)
(* The UDP colour server: datagrams arrive in pbufs of lwIP's pool,        *)
(* udp_colorserver_receive_callback parses them, and keeps the pbuf of a   *)
(* datagram with "argb" channels in the object store, one object and one   *)
(* reference to the pbuf per channel.                                      *)
(*                                                                         *)
(* The callback runs in the main loop, from ethernetif_input; nothing      *)
(* preempts it that touches the pool or the store.  Its calls are actions  *)
(* of their own because each may run out of memory.  An exception of the   *)
(* parser or of operator new has no handler: the firmware stops in _exit.  *)
(* app->objman is taken to have been created, as initialize() means to.    *)
(***************************************************************************)
EXTENDS Naturals, Sequences, FiniteSets

CONSTANTS Pbufs,         \* the pbufs of the pool (PBUF_POOL_SIZE)
          Channels,      \* ChannelId
          Datagrams,     \* what a well-formed datagram may carry
          MaxDatagrams,  \* bound: datagrams received in one behaviour
          IdMod, MaxAllocs, None

BufferTypes == {"argb"}

\* A channel of a datagram: its format and its number.
Item == [type : {"argb", "other"}, ch : Channels]

ASSUME ServerAssumption ==
  /\ IsFiniteSet(Pbufs) /\ None \notin Pbufs
  /\ Datagrams \subseteq Seq(Item)
  /\ MaxDatagrams \in Nat
  /\ IdMod \in Nat \ {0} /\ MaxAllocs \in Nat

VARIABLES
  numObjects, objects, leaked, pending, allocs,  \* the object store
  refs,      \* refs[p]: p->ref; a pbuf is in the pool when it is 0
  content,   \* content[p]: the number of the datagram p was last filled with
  received,  \* datagrams that have arrived so far
  dropped,   \* those for which the pool had no pbuf
  pc,        \* where the callback is
  cur,       \* the pbuf given to the callback
  hand,      \* references to it the callback itself holds
  todo,      \* channels of the datagram still to be looked at
  origin     \* history: origin[i], the datagram object i was made of

objectVars == <<numObjects, objects, leaked, allocs>>
poolVars   == <<refs, content, received, dropped>>
vars == <<objectVars, pending, poolVars, pc, cur, hand, todo, origin>>

(***************************************************************************)
(* The store holds the references to a pbuf that the callback does not.    *)
(***************************************************************************)
StoreRefs == [p \in Pbufs |-> IF p = cur THEN refs[p] - hand ELSE refs[p]]

Store == INSTANCE ObjectStore WITH Blocks <- Pbufs, refs <- StoreRefs

ASSUME NoneAssumption == None \notin Store!Object /\ None \notin Store!Entry

Init ==
  /\ numObjects = 0 /\ allocs = 0
  /\ objects = [i \in Store!Ids |-> None]
  /\ leaked = [m \in Pbufs \union {None} |-> 0]
  /\ pending = Store!NoBuffers
  /\ refs = [p \in Pbufs |-> 0] /\ content = [p \in Pbufs |-> 0]
  /\ received = 0 /\ dropped = 0
  /\ pc = "idle" /\ cur = None /\ hand = 0 /\ todo = << >>
  /\ origin = [i \in Store!Ids |-> 0]

-----------------------------------------------------------------------------
(* Plausible mistakes in the code; each breaks one property below.         *)

ForgetsPbufRef ==
  /\ pc = "channels" /\ todo # << >> /\ Head(todo).type = "argb"
  /\ pc' = "allocate" /\ hand' = hand + 1
  /\ UNCHANGED <<objectVars, pending, poolVars, cur, todo, origin>>

ForgetsPbufFree ==
  /\ pc = "channels" /\ todo = << >>
  /\ pc' = "idle" /\ cur' = None /\ hand' = 0
  /\ UNCHANGED <<objectVars, pending, poolVars, todo, origin>>

OverwritesPending ==
  /\ pc = "push"
  /\ pending' = [pending EXCEPT ![Head(todo).ch] = [type |-> "argb", id |-> numObjects]]
  /\ pc' = "channels" /\ todo' = Tail(todo)
  /\ UNCHANGED <<objectVars, poolVars, cur, hand, origin>>

-----------------------------------------------------------------------------
(* Reception.                                                              *)

\* pbuf_alloc takes a pbuf of the pool; memp_malloc's choice is immaterial.
Arrive(p) ==
  /\ pc = "idle" /\ received < MaxDatagrams
  /\ refs[p] = 0
  /\ received' = received + 1
  /\ refs' = [refs EXCEPT ![p] = 1]
  /\ content' = [content EXCEPT ![p] = received + 1]
  /\ cur' = p /\ hand' = 1
  /\ UNCHANGED <<objectVars, pending, dropped, origin>>

Receive(p, d) == Arrive(p) /\ pc' = "channels" /\ todo' = d

\* low_level_input returns NULL when the pool is empty.
Drop ==
  /\ pc = "idle" /\ received < MaxDatagrams
  /\ \A p \in Pbufs : refs[p] # 0
  /\ received' = received + 1 /\ dropped' = dropped + 1
  /\ UNCHANGED <<objectVars, pending, refs, content, pc, cur, hand, todo, origin>>

-----------------------------------------------------------------------------
(* udp_colorserver_receive_callback.  The header is parsed before anything *)
(* is kept, so a malformed datagram stops the firmware with nothing kept.  *)

ParseThrows(p) == Arrive(p) /\ pc' = "halted" /\ UNCHANGED todo

SkipChannel ==
  /\ pc = "channels" /\ todo # << >> /\ Head(todo).type # "argb"
  /\ todo' = Tail(todo)
  /\ UNCHANGED <<objectVars, pending, poolVars, pc, cur, hand, origin>>

\* pbuf_ref(p) and the shared_ptr that takes this reference over.
RefPbuf ==
  /\ pc = "channels" /\ todo # << >> /\ Head(todo).type = "argb"
  /\ pc' = "allocate"
  /\ refs' = [refs EXCEPT ![cur] = @ + 1] /\ hand' = hand + 1
  /\ UNCHANGED <<objectVars, pending, content, received, dropped, cur, todo, origin>>

\* BufferFactory<ARGBFormat>::allocateBuffer: the object has the reference now.
AllocateChannel ==
  /\ pc = "allocate"
  /\ Store!AllocateObject("argb", cur)
  /\ hand' = hand - 1
  /\ origin' = IF objects[numObjects'] = None
                 THEN [origin EXCEPT ![numObjects'] = content[cur]] ELSE origin
  /\ pc' = "push"
  /\ UNCHANGED <<pending, poolVars, cur, todo>>

PushChannel ==
  /\ pc = "push"
  /\ Store!PushPendingBuffer(Head(todo).ch, numObjects, Head(todo).type)
  /\ pc' = "channels" /\ todo' = Tail(todo)
  /\ UNCHANGED <<objectVars, poolVars, cur, hand, origin>>

\* operator new fails: before the object exists, or in the shared_ptr, which
\* then gives its reference back.
OutOfMemory ==
  /\ pc = "allocate" /\ pc' = "halted"
  /\ \/ UNCHANGED <<refs, hand>>
     \/ refs' = [refs EXCEPT ![cur] = @ - 1] /\ hand' = hand - 1
  /\ UNCHANGED <<objectVars, pending, content, received, dropped, cur, todo, origin>>

\* udp_disconnect, which changes nothing on a pcb that was never connected,
\* and pbuf_free.
Finish ==
  /\ pc = "channels" /\ todo = << >>
  /\ refs' = [refs EXCEPT ![cur] = @ - 1]
  /\ pc' = "idle" /\ cur' = None /\ hand' = 0
  /\ UNCHANGED <<objectVars, pending, content, received, dropped, todo, origin>>

Callback == SkipChannel \/ RefPbuf \/ AllocateChannel \/ PushChannel \/ Finish

Next ==
  \/ \E p \in Pbufs, d \in Datagrams : Receive(p, d)
  \/ \E p \in Pbufs : ParseThrows(p)
  \/ Drop
  \/ Callback
  \/ OutOfMemory

Spec == Init /\ [][Next]_vars

\* The callback runs on until it returns or the firmware stops.
FairSpec == Spec /\ WF_vars(Callback)

-----------------------------------------------------------------------------
TypeOK ==
  /\ Store!TypeOK
  /\ refs \in [Pbufs -> Nat] /\ content \in [Pbufs -> 0 .. MaxDatagrams]
  /\ received \in 0 .. MaxDatagrams /\ dropped \in 0 .. MaxDatagrams
  /\ pc \in {"idle", "channels", "allocate", "push", "halted"}
  /\ cur \in Pbufs \union {None} /\ hand \in 0 .. 2
  /\ todo \in Seq(Item)
  /\ origin \in [Store!Ids -> 0 .. MaxDatagrams]

(***************************************************************************)
(* The pbuf an object lies in still holds the datagram the object was made *)
(* of: it is not given to another datagram while an object points into it. *)
(***************************************************************************)
RetainedDataKept ==
  \A i \in Store!Ids :
    objects[i] # None => content[objects[i].mem] = origin[i]

(***************************************************************************)
(* A datagram is dropped only when every pbuf of the pool backs an object: *)
(* the callback itself never keeps a pbuf.                                 *)
(***************************************************************************)
DroppedOnlyWhenRetained ==
  [][ dropped' # dropped => \A p \in Pbufs : Store!Holders(p) # {} ]_vars

(***************************************************************************)
(* The callback uses the object store as its users may, with the reference *)
(* it took by pbuf_ref becoming the object's.                              *)
(***************************************************************************)
ImplementsStore == Store!Spec

(***************************************************************************)
(* "WILL FREE PBUFS AFTER INTERPOLATION!" (the callback's last line): a    *)
(* pbuf kept for a frame goes back to the pool some day.                   *)
(***************************************************************************)
RetainedPbufsFreed ==
  \A p \in Pbufs : refs[p] > 0 ~> refs[p] = 0 \/ pc = "halted"
=============================================================================
