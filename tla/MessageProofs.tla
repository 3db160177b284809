--------------------------- MODULE MessageProofs ---------------------------
(***************************************************************************)
(* Proofs about Message, for any number of owners and objects.             *)
(*                                                                         *)
(* The three counters of a message count the owners that have taken, and   *)
(* not given back, the respective reference.  With the form of the owners, *)
(* a clone in progress always has a source that stays, this is inductive;  *)
(* that nothing is freed too early or kept too long follows.               *)
(***************************************************************************)
EXTENDS Message, FiniteSetTheorems, TLAPS

Does == OnMessage \cup {"nothing", "properties", "content"}

\* A cell of the heap: free exactly when its count is 0.
Cell(x) == "refs" \in DOMAIN x /\ x.refs \in Nat /\ (x.refs = 0 <=> x = Free)
Heap(heap, X) == heap = [x \in X |-> heap[x]] /\ \A x \in X : Cell(heap[x])

HeapInv ==
  /\ Heap(messages, Messages) /\ Heap(maps, Maps) /\ Heap(buffers, Buffers)
  /\ \A m \in Messages : messages[m] # Free =>
       /\ DOMAIN messages[m] = {"refs", "properties", "content"}
       /\ messages[m].properties \in Maps /\ messages[m].content \in Buffers

OwnerInv ==
  /\ owner \in [Owners -> [does : Does, of : Messages \cup Maps \cup Buffers \cup {None},
                           by : Owners \cup {None}]]
  /\ \A o \in Owners :
       /\ owner[o].does \in OnMessage => owner[o].of \in Messages
       /\ owner[o].does = "properties" => owner[o].of \in Maps
       /\ owner[o].does = "content" => owner[o].of \in Buffers
       /\ owner[o].by # None <=> owner[o].does \in {"referenced", "mapped"}
       /\ owner[o].by # None => /\ owner[owner[o].by].does = "message"
                                /\ owner[owner[o].by].of = owner[o].of

IInv == HeapInv /\ OwnerInv /\ CountsAreRight

----------------------------------------------------------------------------
(* The heap                                                                *)

LEMMA ReferCounts ==
  ASSUME NEW X, NEW heap, NEW a \in X, Heap(heap, X), heap[a] # Free
  PROVE  /\ Heap(Refer(heap, a), X)
         /\ \A x \in X : x # a => Refer(heap, a)[x] = heap[x]
         /\ Refer(heap, a)[a].refs = heap[a].refs + 1
  <1>1. Cell(heap[a]) /\ heap[a].refs # 0 /\ DOMAIN heap = X
    BY DEF Heap, Cell
  <1>2. Refer(heap, a)[a] = [heap[a] EXCEPT !.refs = heap[a].refs + 1]
    BY <1>1 DEF Refer
  <1>3. \A x \in X : x # a => Refer(heap, a)[x] = heap[x]
    BY <1>1 DEF Refer
  <1>4. /\ DOMAIN Refer(heap, a)[a] = DOMAIN heap[a]
        /\ Refer(heap, a)[a].refs = heap[a].refs + 1
    BY <1>1, <1>2 DEF Cell
  <1>5. Refer(heap, a)[a] # Free
    BY <1>1, <1>4 DEF Cell, Free
  <1>6. Cell(Refer(heap, a)[a])
    BY <1>1, <1>4, <1>5 DEF Cell
  <1>7. Refer(heap, a) = [x \in X |-> Refer(heap, a)[x]]
    BY <1>1 DEF Refer
  <1> QED
    BY <1>2, <1>3, <1>4, <1>6, <1>7 DEF Heap

LEMMA ReleaseCounts ==
  ASSUME NEW X, NEW heap, NEW a \in X, Heap(heap, X), heap[a] # Free
  PROVE  /\ Heap(Release(heap, a), X)
         /\ \A x \in X : x # a => Release(heap, a)[x] = heap[x]
         /\ Release(heap, a)[a].refs = heap[a].refs - 1
  <1>1. Cell(heap[a]) /\ heap[a].refs # 0 /\ DOMAIN heap = X
    BY DEF Heap, Cell
  <1>2. \A x \in X : x # a => Release(heap, a)[x] = heap[x]
    BY <1>1 DEF Release
  <1>3. Release(heap, a) = [x \in X |-> Release(heap, a)[x]]
    BY <1>1 DEF Release
  <1>4. Free.refs = 0 /\ Cell(Free)
    BY DEF Free, Cell
  <1>5. CASE heap[a].refs = 1
    <2>1. Release(heap, a)[a] = Free
      BY <1>1, <1>5 DEF Release
    <2>2. \A x \in X : Cell(Release(heap, a)[x])
      BY <1>2, <1>4, <2>1 DEF Heap
    <2>3. Release(heap, a)[a].refs = heap[a].refs - 1
      BY <1>4, <1>5, <2>1
    <2>4. Heap(Release(heap, a), X)
      BY <1>3, <2>2 DEF Heap
    <2> QED
      BY <1>2, <2>1, <2>3, <2>4
  <1>6. CASE heap[a].refs # 1
    <2>1. Release(heap, a)[a] = [heap[a] EXCEPT !.refs = heap[a].refs - 1]
      BY <1>1, <1>6 DEF Release
    <2>2. /\ DOMAIN Release(heap, a)[a] = DOMAIN heap[a]
          /\ Release(heap, a)[a].refs = heap[a].refs - 1
      BY <1>1, <2>1 DEF Cell
    <2>3. heap[a].refs - 1 \in Nat /\ heap[a].refs - 1 # 0
      BY <1>1, <1>6 DEF Cell
    <2>4. Release(heap, a)[a] # Free
      BY <1>4, <2>2, <2>3
    <2>5. Cell(Release(heap, a)[a])
      BY <1>1, <2>2, <2>3, <2>4 DEF Cell
    <2>6. Heap(Release(heap, a), X)
      BY <1>2, <1>3, <2>5 DEF Heap
    <2> QED
      BY <1>2, <2>1, <2>2, <2>6
  <1> QED
    BY <1>5, <1>6

LEMMA ReferCell ==
  ASSUME NEW X, NEW heap, NEW a \in X, Heap(heap, X), heap[a] # Free
  PROVE  /\ Heap(Refer(heap, a), X)
         /\ \A x \in X : x # a => Refer(heap, a)[x] = heap[x]
         /\ Refer(heap, a)[a].refs = heap[a].refs + 1
         /\ Refer(heap, a)[a] = [heap[a] EXCEPT !.refs = heap[a].refs + 1]
  <1>1. Cell(heap[a]) /\ heap[a].refs # 0 /\ DOMAIN heap = X
    BY DEF Heap, Cell
  <1>2. Refer(heap, a)[a] = [heap[a] EXCEPT !.refs = heap[a].refs + 1]
    BY <1>1 DEF Refer
  <1>3. /\ Heap(Refer(heap, a), X)
        /\ \A x \in X : x # a => Refer(heap, a)[x] = heap[x]
        /\ Refer(heap, a)[a].refs = heap[a].refs + 1
    BY ReferCounts
  <1> QED
    BY <1>2, <1>3

LEMMA ReleaseCell ==
  ASSUME NEW X, NEW heap, NEW a \in X, Heap(heap, X), heap[a] # Free
  PROVE  /\ Heap(Release(heap, a), X)
         /\ \A x \in X : x # a => Release(heap, a)[x] = heap[x]
         /\ Release(heap, a)[a].refs = heap[a].refs - 1
         /\ Release(heap, a)[a] # Free =>
              Release(heap, a)[a] = [heap[a] EXCEPT !.refs = heap[a].refs - 1]
  <1>1. Cell(heap[a]) /\ heap[a].refs # 0 /\ DOMAIN heap = X
    BY DEF Heap, Cell
  <1>2. Release(heap, a)[a] # Free =>
          Release(heap, a)[a] = [heap[a] EXCEPT !.refs = heap[a].refs - 1]
    BY <1>1 DEF Release
  <1>3. /\ Heap(Release(heap, a), X)
        /\ \A x \in X : x # a => Release(heap, a)[x] = heap[x]
        /\ Release(heap, a)[a].refs = heap[a].refs - 1
    BY ReleaseCounts
  <1> QED
    BY <1>2, <1>3

\* A cell with owners is not free.
LEMMA OwnedIsLive ==
  ASSUME NEW X, NEW heap, NEW a \in X, NEW S,
         Heap(heap, X), heap[a].refs = Cardinality(S), IsFiniteSet(S)
  PROVE  heap[a] # Free <=> S # {}
  <1>1. Cardinality(S) = 0 <=> S = {}
    BY FS_EmptySet
  <1> QED
    BY <1>1 DEF Heap, Cell

\* The sets of owners are finite.
LEMMA OwnersFinite ==
  ASSUME NEW x
  PROVE  /\ IsFiniteSet(MessageOwners(x)) /\ IsFiniteSet(MapOwners(x))
         /\ IsFiniteSet(BufferOwners(x))
  <1>1. /\ MessageOwners(x) \subseteq Owners /\ MapOwners(x) \subseteq Owners
        /\ BufferOwners(x) \subseteq Owners
    BY DEF MessageOwners, MapOwners, BufferOwners
  <1> QED
    BY <1>1, OwnersAssumption, FS_Subset

----------------------------------------------------------------------------
(* What a step has to show about the sets of owners for the heap and the   *)
(* counts to stay right, by the one counter that the step changes.         *)

LEMMA MessageUp ==
  ASSUME IInv, NEW a \in Messages, NEW u, MessageOwners(a) # {}, u \notin MessageOwners(a),
         messages' = Refer(messages, a), UNCHANGED <<maps, buffers>>,
         MessageOwners(a)' = MessageOwners(a) \cup {u},
         \A x \in Messages : x # a => MessageOwners(x)' = MessageOwners(x),
         \A x \in Maps : MapOwners(x)' = MapOwners(x),
         \A x \in Buffers : BufferOwners(x)' = BufferOwners(x)
  PROVE  HeapInv' /\ CountsAreRight'
  <1>1. /\ Heap(messages, Messages) /\ messages[a].refs = Cardinality(MessageOwners(a))
        /\ IsFiniteSet(MessageOwners(a)) /\ MessageOwners(a) # {}
    BY OwnersFinite DEF IInv, HeapInv, CountsAreRight
  <1>2. messages[a] # Free
    BY <1>1, OwnedIsLive
  <1>3. /\ Heap(Refer(messages, a), Messages)
        /\ \A x \in Messages : x # a => Refer(messages, a)[x] = messages[x]
        /\ Refer(messages, a)[a].refs = messages[a].refs + 1
        /\ Refer(messages, a)[a] = [messages[a] EXCEPT !.refs = messages[a].refs + 1]
    BY <1>1, <1>2, ReferCell, SMTT(30)
  <1>4. Cardinality(MessageOwners(a)') = Cardinality(MessageOwners(a)) + 1
    BY <1>1, FS_AddElement
  <1>5. \A x \in Messages : messages'[x].refs = Cardinality(MessageOwners(x)')
    BY <1>1, <1>3, <1>4 DEF IInv, CountsAreRight
  <1>6. CountsAreRight'
    BY <1>5 DEF IInv, CountsAreRight
  <1>7. messages'[a] # Free =>
          /\ DOMAIN messages'[a] = {"refs", "properties", "content"}
          /\ messages'[a].properties \in Maps /\ messages'[a].content \in Buffers
    BY <1>2, <1>3 DEF IInv, HeapInv
  <1>8. HeapInv'
    BY <1>3, <1>7 DEF IInv, HeapInv
  <1> QED
    BY <1>6, <1>8

LEMMA MessageDown ==
  ASSUME IInv, NEW a \in Messages, NEW u, u \in MessageOwners(a),
         messages' = Release(messages, a), UNCHANGED <<maps, buffers>>,
         MessageOwners(a)' = MessageOwners(a) \ {u},
         \A x \in Messages : x # a => MessageOwners(x)' = MessageOwners(x),
         \A x \in Maps : MapOwners(x)' = MapOwners(x),
         \A x \in Buffers : BufferOwners(x)' = BufferOwners(x)
  PROVE  HeapInv' /\ CountsAreRight'
  <1>1. /\ Heap(messages, Messages) /\ messages[a].refs = Cardinality(MessageOwners(a))
        /\ IsFiniteSet(MessageOwners(a)) /\ MessageOwners(a) # {}
    BY OwnersFinite DEF IInv, HeapInv, CountsAreRight
  <1>2. messages[a] # Free
    BY <1>1, OwnedIsLive
  <1>3. /\ Heap(Release(messages, a), Messages)
        /\ \A x \in Messages : x # a => Release(messages, a)[x] = messages[x]
        /\ Release(messages, a)[a].refs = messages[a].refs - 1
        /\ Release(messages, a)[a] # Free =>
             Release(messages, a)[a] = [messages[a] EXCEPT !.refs = messages[a].refs - 1]
    BY <1>1, <1>2, ReleaseCell
  <1>4. Cardinality(MessageOwners(a)') = Cardinality(MessageOwners(a)) - 1
    BY <1>1, FS_RemoveElement
  <1>5. \A x \in Messages : messages'[x].refs = Cardinality(MessageOwners(x)')
    BY <1>1, <1>3, <1>4 DEF IInv, CountsAreRight
  <1>6. CountsAreRight'
    BY <1>5 DEF IInv, CountsAreRight
  <1>7. messages'[a] # Free =>
          /\ DOMAIN messages'[a] = {"refs", "properties", "content"}
          /\ messages'[a].properties \in Maps /\ messages'[a].content \in Buffers
    BY <1>2, <1>3 DEF IInv, HeapInv
  <1>8. HeapInv'
    BY <1>3, <1>7 DEF IInv, HeapInv
  <1> QED
    BY <1>6, <1>8

LEMMA MapUp ==
  ASSUME IInv, NEW a \in Maps, NEW u, MapOwners(a) # {}, u \notin MapOwners(a),
         maps' = Refer(maps, a), UNCHANGED <<messages, buffers>>,
         MapOwners(a)' = MapOwners(a) \cup {u},
         \A x \in Maps : x # a => MapOwners(x)' = MapOwners(x),
         \A x \in Messages : MessageOwners(x)' = MessageOwners(x),
         \A x \in Buffers : BufferOwners(x)' = BufferOwners(x)
  PROVE  HeapInv' /\ CountsAreRight'
  <1>1. /\ Heap(maps, Maps) /\ maps[a].refs = Cardinality(MapOwners(a))
        /\ IsFiniteSet(MapOwners(a)) /\ MapOwners(a) # {}
    BY OwnersFinite DEF IInv, HeapInv, CountsAreRight
  <1>2. maps[a] # Free
    BY <1>1, OwnedIsLive
  <1>3. /\ Heap(Refer(maps, a), Maps)
        /\ \A x \in Maps : x # a => Refer(maps, a)[x] = maps[x]
        /\ Refer(maps, a)[a].refs = maps[a].refs + 1
        /\ Refer(maps, a)[a] = [maps[a] EXCEPT !.refs = maps[a].refs + 1]
    BY <1>1, <1>2, ReferCell
  <1>4. Cardinality(MapOwners(a)') = Cardinality(MapOwners(a)) + 1
    BY <1>1, FS_AddElement
  <1>5. \A x \in Maps : maps'[x].refs = Cardinality(MapOwners(x)')
    BY <1>1, <1>3, <1>4 DEF IInv, CountsAreRight
  <1>6. CountsAreRight'
    BY <1>5 DEF IInv, CountsAreRight
  <1>7. HeapInv'
    BY <1>3 DEF IInv, HeapInv
  <1> QED
    BY <1>6, <1>7

LEMMA MapDown ==
  ASSUME IInv, NEW a \in Maps, NEW u, u \in MapOwners(a),
         maps' = Release(maps, a), UNCHANGED <<messages, buffers>>,
         MapOwners(a)' = MapOwners(a) \ {u},
         \A x \in Maps : x # a => MapOwners(x)' = MapOwners(x),
         \A x \in Messages : MessageOwners(x)' = MessageOwners(x),
         \A x \in Buffers : BufferOwners(x)' = BufferOwners(x)
  PROVE  HeapInv' /\ CountsAreRight'
  <1>1. /\ Heap(maps, Maps) /\ maps[a].refs = Cardinality(MapOwners(a))
        /\ IsFiniteSet(MapOwners(a)) /\ MapOwners(a) # {}
    BY OwnersFinite DEF IInv, HeapInv, CountsAreRight
  <1>2. maps[a] # Free
    BY <1>1, OwnedIsLive
  <1>3. /\ Heap(Release(maps, a), Maps)
        /\ \A x \in Maps : x # a => Release(maps, a)[x] = maps[x]
        /\ Release(maps, a)[a].refs = maps[a].refs - 1
        /\ Release(maps, a)[a] # Free =>
             Release(maps, a)[a] = [maps[a] EXCEPT !.refs = maps[a].refs - 1]
    BY <1>1, <1>2, ReleaseCell
  <1>4. Cardinality(MapOwners(a)') = Cardinality(MapOwners(a)) - 1
    BY <1>1, FS_RemoveElement
  <1>5. \A x \in Maps : maps'[x].refs = Cardinality(MapOwners(x)')
    BY <1>1, <1>3, <1>4 DEF IInv, CountsAreRight
  <1>6. CountsAreRight'
    BY <1>5 DEF IInv, CountsAreRight
  <1>7. HeapInv'
    BY <1>3 DEF IInv, HeapInv
  <1> QED
    BY <1>6, <1>7

LEMMA BufferUp ==
  ASSUME IInv, NEW a \in Buffers, NEW u, BufferOwners(a) # {}, u \notin BufferOwners(a),
         buffers' = Refer(buffers, a), UNCHANGED <<messages, maps>>,
         BufferOwners(a)' = BufferOwners(a) \cup {u},
         \A x \in Buffers : x # a => BufferOwners(x)' = BufferOwners(x),
         \A x \in Messages : MessageOwners(x)' = MessageOwners(x),
         \A x \in Maps : MapOwners(x)' = MapOwners(x)
  PROVE  HeapInv' /\ CountsAreRight'
  <1>1. /\ Heap(buffers, Buffers) /\ buffers[a].refs = Cardinality(BufferOwners(a))
        /\ IsFiniteSet(BufferOwners(a)) /\ BufferOwners(a) # {}
    BY OwnersFinite DEF IInv, HeapInv, CountsAreRight
  <1>2. buffers[a] # Free
    BY <1>1, OwnedIsLive
  <1>3. /\ Heap(Refer(buffers, a), Buffers)
        /\ \A x \in Buffers : x # a => Refer(buffers, a)[x] = buffers[x]
        /\ Refer(buffers, a)[a].refs = buffers[a].refs + 1
        /\ Refer(buffers, a)[a] = [buffers[a] EXCEPT !.refs = buffers[a].refs + 1]
    BY <1>1, <1>2, ReferCell
  <1>4. Cardinality(BufferOwners(a)') = Cardinality(BufferOwners(a)) + 1
    BY <1>1, FS_AddElement
  <1>5. \A x \in Buffers : buffers'[x].refs = Cardinality(BufferOwners(x)')
    BY <1>1, <1>3, <1>4 DEF IInv, CountsAreRight
  <1>6. CountsAreRight'
    BY <1>5 DEF IInv, CountsAreRight
  <1>7. HeapInv'
    BY <1>3 DEF IInv, HeapInv
  <1> QED
    BY <1>6, <1>7

LEMMA BufferDown ==
  ASSUME IInv, NEW a \in Buffers, NEW u, u \in BufferOwners(a),
         buffers' = Release(buffers, a), UNCHANGED <<messages, maps>>,
         BufferOwners(a)' = BufferOwners(a) \ {u},
         \A x \in Buffers : x # a => BufferOwners(x)' = BufferOwners(x),
         \A x \in Messages : MessageOwners(x)' = MessageOwners(x),
         \A x \in Maps : MapOwners(x)' = MapOwners(x)
  PROVE  HeapInv' /\ CountsAreRight'
  <1>1. /\ Heap(buffers, Buffers) /\ buffers[a].refs = Cardinality(BufferOwners(a))
        /\ IsFiniteSet(BufferOwners(a)) /\ BufferOwners(a) # {}
    BY OwnersFinite DEF IInv, HeapInv, CountsAreRight
  <1>2. buffers[a] # Free
    BY <1>1, OwnedIsLive
  <1>3. /\ Heap(Release(buffers, a), Buffers)
        /\ \A x \in Buffers : x # a => Release(buffers, a)[x] = buffers[x]
        /\ Release(buffers, a)[a].refs = buffers[a].refs - 1
        /\ Release(buffers, a)[a] # Free =>
             Release(buffers, a)[a] = [buffers[a] EXCEPT !.refs = buffers[a].refs - 1]
    BY <1>1, <1>2, ReleaseCell
  <1>4. Cardinality(BufferOwners(a)') = Cardinality(BufferOwners(a)) - 1
    BY <1>1, FS_RemoveElement
  <1>5. \A x \in Buffers : buffers'[x].refs = Cardinality(BufferOwners(x)')
    BY <1>1, <1>3, <1>4 DEF IInv, CountsAreRight
  <1>6. CountsAreRight'
    BY <1>5 DEF IInv, CountsAreRight
  <1>7. HeapInv'
    BY <1>3 DEF IInv, HeapInv
  <1> QED
    BY <1>6, <1>7

----------------------------------------------------------------------------
(* The steps.  Each shows the form of the owners and who owns what after   *)
(* it, and leaves the counting to the lemmas above.                        *)

\* What an owner on a message may rely on.
LEMMA OnLiveMessage ==
  ASSUME IInv, NEW o \in Owners, owner[o].does \in OnMessage
  PROVE  /\ owner[o].of \in Messages /\ messages[owner[o].of] # Free
         /\ messages[owner[o].of].properties \in Maps
         /\ messages[owner[o].of].content \in Buffers
  <1>1. owner[o].of \in Messages /\ o \in MessageOwners(owner[o].of)
    BY DEF IInv, OwnerInv, MessageOwners
  <1>2. messages[owner[o].of] # Free
    BY <1>1, OwnedIsLive, OwnersFinite DEF IInv, HeapInv, CountsAreRight
  <1> QED
    BY <1>1, <1>2 DEF IInv, HeapInv

\* Counting leaves the parts of a message alone, while an owner remains.
LEMMA ReferFields ==
  ASSUME IInv, NEW a \in Messages, messages[a] # Free,
         NEW m \in Messages, messages[m] # Free
  PROVE  /\ Refer(messages, a)[m].properties = messages[m].properties
         /\ Refer(messages, a)[m].content = messages[m].content
  BY DEF IInv, HeapInv, Heap, Refer

LEMMA ReleaseFields ==
  ASSUME IInv, NEW a \in Messages, NEW o \in MessageOwners(a),
         NEW m \in Messages, messages[m] # Free,
         NEW u \in MessageOwners(m), u # o
  PROVE  /\ Release(messages, a)[m].properties = messages[m].properties
         /\ Release(messages, a)[m].content = messages[m].content
  <1>1. CASE m # a
    BY <1>1 DEF IInv, HeapInv, Heap, Release
  <1>2. CASE m = a
    <2>1. IsFiniteSet(MessageOwners(a)) /\ u \in MessageOwners(a) \ {o}
      BY <1>2, OwnersFinite
    <2>2. IsFiniteSet(MessageOwners(a) \ {o})
      BY <2>1, FS_RemoveElement
    <2>3. Cardinality(MessageOwners(a) \ {o}) # 0
      BY <2>1, <2>2, FS_EmptySet
    <2>4. Cardinality(MessageOwners(a) \ {o}) = Cardinality(MessageOwners(a)) - 1
      BY <2>1, FS_RemoveElement
    <2>5. messages[a].refs # 1
      BY <2>3, <2>4 DEF IInv, CountsAreRight
    <2> QED
      BY <1>2, <2>5 DEF IInv, HeapInv, Heap, Release
  <1> QED
    BY <1>1, <1>2

LEMMA MessageDestroyStep ==
  ASSUME IInv, NEW o \in Owners, Message_Destroy(o)
  PROVE  IInv'
  <1> PICK a : a = messages[owner[o].of].properties
    OBVIOUS
  <1>1. a \in Maps /\ owner[o].does # "nothing"
    BY OnLiveMessage DEF IInv, OwnerInv, OnMessage, Message_Destroy, Ready, Idle
  <1>2. /\ \A x \in Owners : x # o => owner'[x] = owner[x]
        /\ owner'[o].does = "unmapped"
    BY DEF IInv, OwnerInv, Nothing, Keeps, Message_Destroy, Ready, Idle
  <1>3. OwnerInv'
    BY <1>1, <1>2, OwnersAssumption DEF IInv, OwnerInv, Does, OnMessage, Nothing, Keeps, Message_Destroy, Ready, Idle
  <1>4. o \in MapOwners(a)
    BY <1>1 DEF MapOwners, OnMessage, Nothing, IInv, OwnerInv, Message_Destroy, Ready, Idle
  <1>5. maps' = Release(maps, a) /\ UNCHANGED <<messages, buffers>>
    BY DEF Message_Destroy, Ready, Idle
  <1>6. \A x \in Owners : x \in MapOwners(a)' <=> x \in MapOwners(a) /\ x # o
    BY <1>1, <1>2, <1>4, <1>5 DEF MapOwners, OnMessage, Keeps, Nothing, IInv, OwnerInv, Message_Destroy, Ready, Idle
  <1>7. MapOwners(a)' = MapOwners(a) \ {o}
    BY <1>6 DEF MapOwners
  <1>8. \A x \in Maps : x # a => MapOwners(x)' = MapOwners(x)
    BY <1>1, <1>2, <1>5 DEF MapOwners, OnMessage, Keeps, Nothing, IInv, OwnerInv, Message_Destroy, Ready, Idle
  <1>9. \A x \in Messages : MessageOwners(x)' = MessageOwners(x)
    BY <1>1, <1>2, <1>5 DEF MessageOwners, OnMessage, Keeps, Nothing, IInv, OwnerInv, Message_Destroy, Ready, Idle
  <1>10. \A x \in Buffers : BufferOwners(x)' = BufferOwners(x)
    BY <1>1, <1>2, <1>5 DEF BufferOwners, OnMessage, Keeps, Nothing, IInv, OwnerInv, Message_Destroy, Ready, Idle
  <1>11. HeapInv' /\ CountsAreRight'
    BY <1>1, <1>4, <1>5, <1>7, <1>8, <1>9, <1>10, MapDown
  <1> QED
    BY <1>3, <1>11 DEF IInv

LEMMA DestroyContentStep ==
  ASSUME IInv, NEW o \in Owners, DestroyContent(o)
  PROVE  IInv'
  <1> PICK a : a = messages[owner[o].of].content
    OBVIOUS
  <1>1. a \in Buffers /\ owner[o].does # "nothing"
    BY OnLiveMessage DEF IInv, OwnerInv, OnMessage, DestroyContent, Ready, Idle
  <1>2. /\ \A x \in Owners : x # o => owner'[x] = owner[x]
        /\ owner'[o].does = "unbuffered"
    BY DEF IInv, OwnerInv, Nothing, Keeps, DestroyContent, Ready, Idle
  <1>3. OwnerInv'
    BY <1>1, <1>2, OwnersAssumption DEF IInv, OwnerInv, Does, OnMessage, Nothing, Keeps, DestroyContent, Ready, Idle
  <1>4. o \in BufferOwners(a)
    BY <1>1 DEF BufferOwners, OnMessage, Nothing, IInv, OwnerInv, DestroyContent, Ready, Idle
  <1>5. buffers' = Release(buffers, a) /\ UNCHANGED <<messages, maps>>
    BY DEF DestroyContent, Ready, Idle
  <1>6. \A x \in Owners : x \in BufferOwners(a)' <=> x \in BufferOwners(a) /\ x # o
    BY <1>1, <1>2, <1>4, <1>5 DEF BufferOwners, OnMessage, Keeps, Nothing, IInv, OwnerInv, DestroyContent, Ready, Idle
  <1>7. BufferOwners(a)' = BufferOwners(a) \ {o}
    BY <1>6 DEF BufferOwners
  <1>8. \A x \in Buffers : x # a => BufferOwners(x)' = BufferOwners(x)
    BY <1>1, <1>2, <1>5 DEF BufferOwners, OnMessage, Keeps, Nothing, IInv, OwnerInv, DestroyContent, Ready, Idle
  <1>9. \A x \in Messages : MessageOwners(x)' = MessageOwners(x)
    BY <1>1, <1>2, <1>5 DEF MessageOwners, OnMessage, Keeps, Nothing, IInv, OwnerInv, DestroyContent, Ready, Idle
  <1>10. \A x \in Maps : MapOwners(x)' = MapOwners(x)
    BY <1>1, <1>2, <1>5 DEF MapOwners, OnMessage, Keeps, Nothing, IInv, OwnerInv, DestroyContent, Ready, Idle
  <1>11. HeapInv' /\ CountsAreRight'
    BY <1>1, <1>4, <1>5, <1>7, <1>8, <1>9, <1>10, BufferDown
  <1> QED
    BY <1>3, <1>11 DEF IInv

LEMMA DropReferenceStep ==
  ASSUME IInv, NEW o \in Owners, DropReference(o)
  PROVE  IInv'
  <1> PICK a : a = owner[o].of
    OBVIOUS
  <1>1. a \in Messages /\ owner[o].does # "nothing"
    BY OnLiveMessage DEF IInv, OwnerInv, OnMessage, DropReference, Ready, Idle
  <1>2. /\ \A x \in Owners : x # o => owner'[x] = owner[x]
        /\ owner'[o].does = "nothing"
    BY DEF IInv, OwnerInv, Nothing, Keeps, DropReference, Ready, Idle
  <1>3. OwnerInv'
    BY <1>1, <1>2, OwnersAssumption DEF IInv, OwnerInv, Does, OnMessage, Nothing, Keeps, DropReference, Ready, Idle
  <1>4. o \in MessageOwners(a)
    BY <1>1 DEF MessageOwners, OnMessage, Nothing, IInv, OwnerInv, DropReference, Ready, Idle
  <1>5. messages' = Release(messages, a) /\ UNCHANGED <<maps, buffers>>
    BY DEF DropReference, Ready, Idle
  <1>6. \A x \in Owners : x \in MessageOwners(a)' <=> x \in MessageOwners(a) /\ x # o
    BY <1>1, <1>2, <1>4, <1>5 DEF MessageOwners, OnMessage, Keeps, Nothing, IInv, OwnerInv, DropReference, Ready, Idle
  <1>7. MessageOwners(a)' = MessageOwners(a) \ {o}
    BY <1>6 DEF MessageOwners
  <1>8. \A x \in Messages : x # a => MessageOwners(x)' = MessageOwners(x)
    BY <1>1, <1>2, <1>5 DEF MessageOwners, OnMessage, Keeps, Nothing, IInv, OwnerInv, DropReference, Ready, Idle
  <1>9. \A x \in Owners : x # o /\ owner[x].does \in OnMessage =>
           /\ messages'[owner[x].of].properties = messages[owner[x].of].properties
           /\ messages'[owner[x].of].content = messages[owner[x].of].content
    <2> SUFFICES ASSUME NEW x \in Owners, x # o, owner[x].does \in OnMessage
                 PROVE  /\ messages'[owner[x].of].properties = messages[owner[x].of].properties
                        /\ messages'[owner[x].of].content = messages[owner[x].of].content
      OBVIOUS
    <2>1. /\ owner[x].of \in Messages /\ messages[owner[x].of] # Free
          /\ x \in MessageOwners(owner[x].of)
      BY OnLiveMessage DEF MessageOwners
    <2> QED
      BY <1>1, <1>4, <1>5, <2>1, ReleaseFields
  <1>10. \A x \in Maps : MapOwners(x)' = MapOwners(x)
    BY <1>1, <1>2, <1>5, <1>9 DEF MapOwners, OnMessage, Keeps, Nothing, IInv, OwnerInv, DropReference, Ready, Idle
  <1>11. \A x \in Buffers : BufferOwners(x)' = BufferOwners(x)
    BY <1>1, <1>2, <1>5, <1>9 DEF BufferOwners, OnMessage, Keeps, Nothing, IInv, OwnerInv, DropReference, Ready, Idle
  <1>12. HeapInv' /\ CountsAreRight'
    BY <1>1, <1>4, <1>5, <1>7, <1>8, <1>10, <1>11, MessageDown
  <1> QED
    BY <1>3, <1>12 DEF IInv

LEMMA ConstMapDestroyStep ==
  ASSUME IInv, NEW o \in Owners, ConstMap_Destroy(o)
  PROVE  IInv'
  <1> PICK a : a = owner[o].of
    OBVIOUS
  <1>1. a \in Maps /\ owner[o].does # "nothing"
    BY DEF IInv, OwnerInv, OnMessage, ConstMap_Destroy, Ready, Idle
  <1>2. /\ \A x \in Owners : x # o => owner'[x] = owner[x]
        /\ owner'[o].does = "nothing"
    BY DEF IInv, OwnerInv, Nothing, Keeps, ConstMap_Destroy, Ready, Idle
  <1>3. OwnerInv'
    BY <1>1, <1>2, OwnersAssumption DEF IInv, OwnerInv, Does, OnMessage, Nothing, Keeps, ConstMap_Destroy, Ready, Idle
  <1>4. o \in MapOwners(a)
    BY <1>1 DEF MapOwners, OnMessage, Nothing, IInv, OwnerInv, ConstMap_Destroy, Ready, Idle
  <1>5. maps' = Release(maps, a) /\ UNCHANGED <<messages, buffers>>
    BY DEF ConstMap_Destroy, Ready, Idle
  <1>6. \A x \in Owners : x \in MapOwners(a)' <=> x \in MapOwners(a) /\ x # o
    BY <1>1, <1>2, <1>4, <1>5 DEF MapOwners, OnMessage, Keeps, Nothing, IInv, OwnerInv, ConstMap_Destroy, Ready, Idle
  <1>7. MapOwners(a)' = MapOwners(a) \ {o}
    BY <1>6 DEF MapOwners
  <1>8. \A x \in Maps : x # a => MapOwners(x)' = MapOwners(x)
    BY <1>1, <1>2, <1>5 DEF MapOwners, OnMessage, Keeps, Nothing, IInv, OwnerInv, ConstMap_Destroy, Ready, Idle
  <1>9. \A x \in Messages : MessageOwners(x)' = MessageOwners(x)
    BY <1>1, <1>2, <1>5 DEF MessageOwners, OnMessage, Keeps, Nothing, IInv, OwnerInv, ConstMap_Destroy, Ready, Idle
  <1>10. \A x \in Buffers : BufferOwners(x)' = BufferOwners(x)
    BY <1>1, <1>2, <1>5 DEF BufferOwners, OnMessage, Keeps, Nothing, IInv, OwnerInv, ConstMap_Destroy, Ready, Idle
  <1>11. HeapInv' /\ CountsAreRight'
    BY <1>1, <1>4, <1>5, <1>7, <1>8, <1>9, <1>10, MapDown
  <1> QED
    BY <1>3, <1>11 DEF IInv

LEMMA CONSTBUFFERDestroyStep ==
  ASSUME IInv, NEW o \in Owners, CONSTBUFFER_Destroy(o)
  PROVE  IInv'
  <1> PICK a : a = owner[o].of
    OBVIOUS
  <1>1. a \in Buffers /\ owner[o].does # "nothing"
    BY DEF IInv, OwnerInv, OnMessage, CONSTBUFFER_Destroy, Ready, Idle
  <1>2. /\ \A x \in Owners : x # o => owner'[x] = owner[x]
        /\ owner'[o].does = "nothing"
    BY DEF IInv, OwnerInv, Nothing, Keeps, CONSTBUFFER_Destroy, Ready, Idle
  <1>3. OwnerInv'
    BY <1>1, <1>2, OwnersAssumption DEF IInv, OwnerInv, Does, OnMessage, Nothing, Keeps, CONSTBUFFER_Destroy, Ready, Idle
  <1>4. o \in BufferOwners(a)
    BY <1>1 DEF BufferOwners, OnMessage, Nothing, IInv, OwnerInv, CONSTBUFFER_Destroy, Ready, Idle
  <1>5. buffers' = Release(buffers, a) /\ UNCHANGED <<messages, maps>>
    BY DEF CONSTBUFFER_Destroy, Ready, Idle
  <1>6. \A x \in Owners : x \in BufferOwners(a)' <=> x \in BufferOwners(a) /\ x # o
    BY <1>1, <1>2, <1>4, <1>5 DEF BufferOwners, OnMessage, Keeps, Nothing, IInv, OwnerInv, CONSTBUFFER_Destroy, Ready, Idle
  <1>7. BufferOwners(a)' = BufferOwners(a) \ {o}
    BY <1>6 DEF BufferOwners
  <1>8. \A x \in Buffers : x # a => BufferOwners(x)' = BufferOwners(x)
    BY <1>1, <1>2, <1>5 DEF BufferOwners, OnMessage, Keeps, Nothing, IInv, OwnerInv, CONSTBUFFER_Destroy, Ready, Idle
  <1>9. \A x \in Messages : MessageOwners(x)' = MessageOwners(x)
    BY <1>1, <1>2, <1>5 DEF MessageOwners, OnMessage, Keeps, Nothing, IInv, OwnerInv, CONSTBUFFER_Destroy, Ready, Idle
  <1>10. \A x \in Maps : MapOwners(x)' = MapOwners(x)
    BY <1>1, <1>2, <1>5 DEF MapOwners, OnMessage, Keeps, Nothing, IInv, OwnerInv, CONSTBUFFER_Destroy, Ready, Idle
  <1>11. HeapInv' /\ CountsAreRight'
    BY <1>1, <1>4, <1>5, <1>7, <1>8, <1>9, <1>10, BufferDown
  <1> QED
    BY <1>3, <1>11 DEF IInv

LEMMA ClonePropertiesStep ==
  ASSUME IInv, NEW u \in Owners, CloneProperties(u)
  PROVE  IInv'
  <1> PICK a : a = messages[owner[u].of].properties
    OBVIOUS
  <1>1. a \in Maps /\ owner[u].does # "nothing"
    BY OnLiveMessage DEF IInv, OwnerInv, OnMessage, CloneProperties, Ready, Idle
  <1>2. /\ \A x \in Owners : x # u => owner'[x] = owner[x]
        /\ owner'[u].does = "mapped"
    BY DEF IInv, OwnerInv, Nothing, Keeps, CloneProperties, Ready, Idle
  <1>3. OwnerInv'
    BY <1>1, <1>2, OwnersAssumption DEF IInv, OwnerInv, Does, OnMessage, Nothing, Keeps, CloneProperties, Ready, Idle
  <1>4. u \notin MapOwners(a) /\ MapOwners(a) # {}
    BY <1>1 DEF MapOwners, OnMessage, Nothing, IInv, OwnerInv, CloneProperties, Ready, Idle
  <1>5. maps' = Refer(maps, a) /\ UNCHANGED <<messages, buffers>>
    BY DEF CloneProperties, Ready, Idle
  <1>6. \A x \in Owners : x \in MapOwners(a)' <=> x \in MapOwners(a) \/ x = u
    BY <1>1, <1>2, <1>4, <1>5 DEF MapOwners, OnMessage, Keeps, Nothing, IInv, OwnerInv, CloneProperties, Ready, Idle
  <1>7. MapOwners(a)' = MapOwners(a) \cup {u}
    BY <1>6 DEF MapOwners
  <1>8. \A x \in Maps : x # a => MapOwners(x)' = MapOwners(x)
    BY <1>1, <1>2, <1>5 DEF MapOwners, OnMessage, Keeps, Nothing, IInv, OwnerInv, CloneProperties, Ready, Idle
  <1>9. \A x \in Messages : MessageOwners(x)' = MessageOwners(x)
    BY <1>1, <1>2, <1>5 DEF MessageOwners, OnMessage, Keeps, Nothing, IInv, OwnerInv, CloneProperties, Ready, Idle
  <1>10. \A x \in Buffers : BufferOwners(x)' = BufferOwners(x)
    BY <1>1, <1>2, <1>5 DEF BufferOwners, OnMessage, Keeps, Nothing, IInv, OwnerInv, CloneProperties, Ready, Idle
  <1>11. HeapInv' /\ CountsAreRight'
    BY <1>1, <1>4, <1>5, <1>7, <1>8, <1>9, <1>10, MapUp
  <1> QED
    BY <1>3, <1>11 DEF IInv

LEMMA CloneContentStep ==
  ASSUME IInv, NEW u \in Owners, CloneContent(u)
  PROVE  IInv'
  <1> PICK a : a = messages[owner[u].of].content
    OBVIOUS
  <1>1. a \in Buffers /\ owner[u].does # "nothing"
    BY OnLiveMessage DEF IInv, OwnerInv, OnMessage, CloneContent, Ready, Idle
  <1>2. /\ \A x \in Owners : x # u => owner'[x] = owner[x]
        /\ owner'[u].does = "message"
    BY DEF IInv, OwnerInv, Nothing, Keeps, CloneContent, Ready, Idle
  <1>3. OwnerInv'
    BY <1>1, <1>2, OwnersAssumption DEF IInv, OwnerInv, Does, OnMessage, Nothing, Keeps, CloneContent, Ready, Idle
  <1>4. u \notin BufferOwners(a) /\ BufferOwners(a) # {}
    BY <1>1 DEF BufferOwners, OnMessage, Nothing, IInv, OwnerInv, CloneContent, Ready, Idle
  <1>5. buffers' = Refer(buffers, a) /\ UNCHANGED <<messages, maps>>
    BY DEF CloneContent, Ready, Idle
  <1>6. \A x \in Owners : x \in BufferOwners(a)' <=> x \in BufferOwners(a) \/ x = u
    BY <1>1, <1>2, <1>4, <1>5 DEF BufferOwners, OnMessage, Keeps, Nothing, IInv, OwnerInv, CloneContent, Ready, Idle
  <1>7. BufferOwners(a)' = BufferOwners(a) \cup {u}
    BY <1>6 DEF BufferOwners
  <1>8. \A x \in Buffers : x # a => BufferOwners(x)' = BufferOwners(x)
    BY <1>1, <1>2, <1>5 DEF BufferOwners, OnMessage, Keeps, Nothing, IInv, OwnerInv, CloneContent, Ready, Idle
  <1>9. \A x \in Messages : MessageOwners(x)' = MessageOwners(x)
    BY <1>1, <1>2, <1>5 DEF MessageOwners, OnMessage, Keeps, Nothing, IInv, OwnerInv, CloneContent, Ready, Idle
  <1>10. \A x \in Maps : MapOwners(x)' = MapOwners(x)
    BY <1>1, <1>2, <1>5 DEF MapOwners, OnMessage, Keeps, Nothing, IInv, OwnerInv, CloneContent, Ready, Idle
  <1>11. HeapInv' /\ CountsAreRight'
    BY <1>1, <1>4, <1>5, <1>7, <1>8, <1>9, <1>10, BufferUp
  <1> QED
    BY <1>3, <1>11 DEF IInv

LEMMA MessageCloneStep ==
  ASSUME IInv, NEW o \in Owners, NEW u \in Owners, Message_Clone(o, u)
  PROVE  IInv'
  <1> PICK a : a = owner[o].of
    OBVIOUS
  <1>1. a \in Messages /\ owner[o].does # "nothing"
    BY OnLiveMessage DEF IInv, OwnerInv, OnMessage, Message_Clone, Ready, Idle
  <1>2. /\ \A x \in Owners : x # u => owner'[x] = owner[x]
        /\ owner'[u].does = "referenced"
    BY DEF IInv, OwnerInv, Nothing, Keeps, Message_Clone, Ready, Idle
  <1>3. OwnerInv'
    BY <1>1, <1>2, OwnersAssumption DEF IInv, OwnerInv, Does, OnMessage, Nothing, Keeps, Message_Clone, Ready, Idle
  <1>4. u \notin MessageOwners(a) /\ MessageOwners(a) # {}
    BY <1>1 DEF MessageOwners, OnMessage, Nothing, IInv, OwnerInv, Message_Clone, Ready, Idle
  <1>5. messages' = Refer(messages, a) /\ UNCHANGED <<maps, buffers>>
    BY DEF Message_Clone, Ready, Idle
  <1>6. \A x \in Owners : x \in MessageOwners(a)' <=> x \in MessageOwners(a) \/ x = u
    BY <1>1, <1>2, <1>4, <1>5 DEF MessageOwners, OnMessage, Keeps, Nothing, IInv, OwnerInv, Message_Clone, Ready, Idle
  <1>7. MessageOwners(a)' = MessageOwners(a) \cup {u}
    BY <1>6 DEF MessageOwners
  <1>8. \A x \in Messages : x # a => MessageOwners(x)' = MessageOwners(x)
    BY <1>1, <1>2, <1>5 DEF MessageOwners, OnMessage, Keeps, Nothing, IInv, OwnerInv, Message_Clone, Ready, Idle
  <1>9. \A x \in Owners : owner[x].does \in OnMessage =>
           /\ messages'[owner[x].of].properties = messages[owner[x].of].properties
           /\ messages'[owner[x].of].content = messages[owner[x].of].content
    <2> SUFFICES ASSUME NEW x \in Owners, owner[x].does \in OnMessage
                 PROVE  /\ messages'[owner[x].of].properties = messages[owner[x].of].properties
                        /\ messages'[owner[x].of].content = messages[owner[x].of].content
      OBVIOUS
    <2>1. owner[x].of \in Messages /\ messages[owner[x].of] # Free
      BY OnLiveMessage
    <2>2. messages[a] # Free
      BY OnLiveMessage DEF Message_Clone, Ready, OnMessage
    <2> QED
      BY <1>1, <1>5, <2>1, <2>2, ReferFields
  <1>10. \A x \in Maps : MapOwners(x)' = MapOwners(x)
    BY <1>1, <1>2, <1>5, <1>9 DEF MapOwners, OnMessage, Keeps, Nothing, IInv, OwnerInv, Message_Clone, Ready, Idle
  <1>11. \A x \in Buffers : BufferOwners(x)' = BufferOwners(x)
    BY <1>1, <1>2, <1>5, <1>9 DEF BufferOwners, OnMessage, Keeps, Nothing, IInv, OwnerInv, Message_Clone, Ready, Idle
  <1>12. HeapInv' /\ CountsAreRight'
    BY <1>1, <1>4, <1>5, <1>7, <1>8, <1>10, <1>11, MessageUp
  <1> QED
    BY <1>3, <1>12 DEF IInv

LEMMA MessageGetPropertiesStep ==
  ASSUME IInv, NEW o \in Owners, NEW u \in Owners, Message_GetProperties(o, u)
  PROVE  IInv'
  <1> PICK a : a = messages[owner[o].of].properties
    OBVIOUS
  <1>1. a \in Maps /\ owner[o].does # "nothing"
    BY OnLiveMessage DEF IInv, OwnerInv, OnMessage, Message_GetProperties, Ready, Idle
  <1>2. /\ \A x \in Owners : x # u => owner'[x] = owner[x]
        /\ owner'[u].does = "properties"
    BY DEF IInv, OwnerInv, Nothing, Keeps, Message_GetProperties, Ready, Idle
  <1>3. OwnerInv'
    BY <1>1, <1>2, OwnersAssumption DEF IInv, OwnerInv, Does, OnMessage, Nothing, Keeps, Message_GetProperties, Ready, Idle
  <1>4. u \notin MapOwners(a) /\ MapOwners(a) # {}
    BY <1>1 DEF MapOwners, OnMessage, Nothing, IInv, OwnerInv, Message_GetProperties, Ready, Idle
  <1>5. maps' = Refer(maps, a) /\ UNCHANGED <<messages, buffers>>
    BY DEF Message_GetProperties, Ready, Idle
  <1>6. \A x \in Owners : x \in MapOwners(a)' <=> x \in MapOwners(a) \/ x = u
    BY <1>1, <1>2, <1>4, <1>5 DEF MapOwners, OnMessage, Keeps, Nothing, IInv, OwnerInv, Message_GetProperties, Ready, Idle
  <1>7. MapOwners(a)' = MapOwners(a) \cup {u}
    BY <1>6 DEF MapOwners
  <1>8. \A x \in Maps : x # a => MapOwners(x)' = MapOwners(x)
    BY <1>1, <1>2, <1>5 DEF MapOwners, OnMessage, Keeps, Nothing, IInv, OwnerInv, Message_GetProperties, Ready, Idle
  <1>9. \A x \in Messages : MessageOwners(x)' = MessageOwners(x)
    BY <1>1, <1>2, <1>5 DEF MessageOwners, OnMessage, Keeps, Nothing, IInv, OwnerInv, Message_GetProperties, Ready, Idle
  <1>10. \A x \in Buffers : BufferOwners(x)' = BufferOwners(x)
    BY <1>1, <1>2, <1>5 DEF BufferOwners, OnMessage, Keeps, Nothing, IInv, OwnerInv, Message_GetProperties, Ready, Idle
  <1>11. HeapInv' /\ CountsAreRight'
    BY <1>1, <1>4, <1>5, <1>7, <1>8, <1>9, <1>10, MapUp
  <1> QED
    BY <1>3, <1>11 DEF IInv

LEMMA MessageGetContentHandleStep ==
  ASSUME IInv, NEW o \in Owners, NEW u \in Owners, Message_GetContentHandle(o, u)
  PROVE  IInv'
  <1> PICK a : a = messages[owner[o].of].content
    OBVIOUS
  <1>1. a \in Buffers /\ owner[o].does # "nothing"
    BY OnLiveMessage DEF IInv, OwnerInv, OnMessage, Message_GetContentHandle, Ready, Idle
  <1>2. /\ \A x \in Owners : x # u => owner'[x] = owner[x]
        /\ owner'[u].does = "content"
    BY DEF IInv, OwnerInv, Nothing, Keeps, Message_GetContentHandle, Ready, Idle
  <1>3. OwnerInv'
    BY <1>1, <1>2, OwnersAssumption DEF IInv, OwnerInv, Does, OnMessage, Nothing, Keeps, Message_GetContentHandle, Ready, Idle
  <1>4. u \notin BufferOwners(a) /\ BufferOwners(a) # {}
    BY <1>1 DEF BufferOwners, OnMessage, Nothing, IInv, OwnerInv, Message_GetContentHandle, Ready, Idle
  <1>5. buffers' = Refer(buffers, a) /\ UNCHANGED <<messages, maps>>
    BY DEF Message_GetContentHandle, Ready, Idle
  <1>6. \A x \in Owners : x \in BufferOwners(a)' <=> x \in BufferOwners(a) \/ x = u
    BY <1>1, <1>2, <1>4, <1>5 DEF BufferOwners, OnMessage, Keeps, Nothing, IInv, OwnerInv, Message_GetContentHandle, Ready, Idle
  <1>7. BufferOwners(a)' = BufferOwners(a) \cup {u}
    BY <1>6 DEF BufferOwners
  <1>8. \A x \in Buffers : x # a => BufferOwners(x)' = BufferOwners(x)
    BY <1>1, <1>2, <1>5 DEF BufferOwners, OnMessage, Keeps, Nothing, IInv, OwnerInv, Message_GetContentHandle, Ready, Idle
  <1>9. \A x \in Messages : MessageOwners(x)' = MessageOwners(x)
    BY <1>1, <1>2, <1>5 DEF MessageOwners, OnMessage, Keeps, Nothing, IInv, OwnerInv, Message_GetContentHandle, Ready, Idle
  <1>10. \A x \in Maps : MapOwners(x)' = MapOwners(x)
    BY <1>1, <1>2, <1>5 DEF MapOwners, OnMessage, Keeps, Nothing, IInv, OwnerInv, Message_GetContentHandle, Ready, Idle
  <1>11. HeapInv' /\ CountsAreRight'
    BY <1>1, <1>4, <1>5, <1>7, <1>8, <1>9, <1>10, BufferUp
  <1> QED
    BY <1>3, <1>11 DEF IInv

LEMMA NewCellsCount ==
  ASSUME NEW value, NEW p, NEW c
  PROVE  /\ Cell(NewMessage(p, c)) /\ NewMessage(p, c).refs = 1
         /\ Cell(Counted(1, value)) /\ Counted(1, value).refs = 1
  <1>1. Free.refs = 0 /\ NewMessage(p, c).refs = 1 /\ Counted(1, value).refs = 1
    BY DEF Free, NewMessage, Counted
  <1>2. NewMessage(p, c) # Free /\ Counted(1, value) # Free
    BY <1>1
  <1> QED
    BY <1>1, <1>2 DEF Cell, NewMessage, Counted

LEMMA FreeIsUnowned ==
  ASSUME IInv
  PROVE  /\ \A m \in Messages : messages[m] = Free <=> MessageOwners(m) = {}
         /\ \A p \in Maps : maps[p] = Free <=> MapOwners(p) = {}
         /\ \A c \in Buffers : buffers[c] = Free <=> BufferOwners(c) = {}
  <1>1. ASSUME NEW m \in Messages PROVE messages[m] = Free <=> MessageOwners(m) = {}
    BY OwnedIsLive, OwnersFinite DEF IInv, HeapInv, CountsAreRight
  <1>2. ASSUME NEW p \in Maps PROVE maps[p] = Free <=> MapOwners(p) = {}
    BY OwnedIsLive, OwnersFinite DEF IInv, HeapInv, CountsAreRight
  <1>3. ASSUME NEW c \in Buffers PROVE buffers[c] = Free <=> BufferOwners(c) = {}
    BY OwnedIsLive, OwnersFinite DEF IInv, HeapInv, CountsAreRight
  <1> QED
    BY <1>1, <1>2, <1>3

LEMMA CreateImplStep ==
  ASSUME IInv, NEW o \in Owners, Idle(o), NEW value, Message_CreateImpl(o, value)
  PROVE  IInv'
  <1> PICK m \in Messages, p \in Maps, c \in Buffers :
         /\ messages[m] = Free /\ maps[p] = Free /\ buffers[c] = Free
         /\ messages' = [messages EXCEPT ![m] = NewMessage(p, c)]
         /\ maps' = [maps EXCEPT ![p] = Counted(1, value.properties)]
         /\ buffers' = [buffers EXCEPT ![c] = Counted(1, value.content)]
         /\ owner' = [owner EXCEPT ![o] = Keeps("message", m)]
    BY DEF Message_CreateImpl
  <1>1. MessageOwners(m) = {} /\ MapOwners(p) = {} /\ BufferOwners(c) = {}
    BY FreeIsUnowned
  <1>2. /\ \A x \in Owners : x # o => owner'[x] = owner[x]
        /\ owner'[o].does = "message" /\ owner'[o].of = m /\ owner[o].does = "nothing"
    BY DEF IInv, OwnerInv, Nothing, Keeps, Idle
  <1>3. OwnerInv'
    BY <1>2, OwnersAssumption DEF IInv, OwnerInv, Does, OnMessage, Nothing, Keeps, Idle
  <1>4. /\ Heap(messages', Messages)
        /\ \A x \in Messages : x # m => messages'[x] = messages[x]
        /\ messages'[m] = NewMessage(p, c)
    BY NewCellsCount DEF IInv, HeapInv, Heap
  <1>5. /\ Heap(maps', Maps)
        /\ \A x \in Maps : x # p => maps'[x] = maps[x]
        /\ maps'[p] = Counted(1, value.properties)
    BY NewCellsCount DEF IInv, HeapInv, Heap
  <1>6. /\ Heap(buffers', Buffers)
        /\ \A x \in Buffers : x # c => buffers'[x] = buffers[x]
        /\ buffers'[c] = Counted(1, value.content)
    BY NewCellsCount DEF IInv, HeapInv, Heap
  <1>7. HeapInv'
    BY <1>4, <1>5, <1>6 DEF IInv, HeapInv, NewMessage
  <1>8. \A x \in Owners : owner[x].does \in OnMessage =>
          owner[x].of \in Messages /\ messages'[owner[x].of] = messages[owner[x].of]
    BY <1>1, <1>4 DEF IInv, OwnerInv, MessageOwners
  <1>9. MessageOwners(m)' = {o} /\ \A x \in Messages : x # m => MessageOwners(x)' = MessageOwners(x)
    BY <1>1, <1>2 DEF MessageOwners, OnMessage
  <1>10. /\ \A x \in Owners : x \in MapOwners(p)' <=> x = o
         /\ \A x \in Maps : x # p => MapOwners(x)' = MapOwners(x)
    BY <1>1, <1>2, <1>4, <1>8 DEF MapOwners, OnMessage, NewMessage
  <1>11. /\ \A x \in Owners : x \in BufferOwners(c)' <=> x = o
         /\ \A x \in Buffers : x # c => BufferOwners(x)' = BufferOwners(x)
    BY <1>1, <1>2, <1>4, <1>8 DEF BufferOwners, OnMessage, NewMessage
  <1>12. MapOwners(p)' = {o} /\ BufferOwners(c)' = {o}
    BY <1>10, <1>11 DEF MapOwners, BufferOwners
  <1>13. /\ Cardinality({o}) = 1 /\ messages'[m].refs = 1
         /\ maps'[p].refs = 1 /\ buffers'[c].refs = 1
    <2>1. Cardinality({o}) = 1
      BY FS_Singleton
    <2> QED
      BY <1>4, <1>5, <1>6, <2>1 DEF NewMessage, Counted
  <1>14. \A x \in Messages : messages'[x].refs = Cardinality(MessageOwners(x)')
    BY <1>4, <1>9, <1>13 DEF IInv, CountsAreRight
  <1>15. \A x \in Maps : maps'[x].refs = Cardinality(MapOwners(x)')
    BY <1>5, <1>10, <1>12, <1>13 DEF IInv, CountsAreRight
  <1>16. \A x \in Buffers : buffers'[x].refs = Cardinality(BufferOwners(x)')
    BY <1>6, <1>11, <1>12, <1>13 DEF IInv, CountsAreRight
  <1>17. CountsAreRight'
    BY <1>14, <1>15, <1>16 DEF CountsAreRight
  <1> QED
    BY <1>3, <1>7, <1>17 DEF IInv

LEMMA CreateFromBufferStep ==
  ASSUME IInv, NEW o \in Owners, NEW u \in Owners, Message_CreateFromBuffer(o, u)
  PROVE  IInv'
  <1> PICK c : c = owner[u].of
    OBVIOUS
  <1> PICK m \in Messages, p \in Maps, value \in Configs :
         /\ messages[m] = Free /\ maps[p] = Free
         /\ messages' = [messages EXCEPT ![m] = NewMessage(p, c)]
         /\ maps' = [maps EXCEPT ![p] = Counted(1, value.properties)]
         /\ buffers' = Refer(buffers, c)
         /\ owner' = [owner EXCEPT ![o] = Keeps("message", m)]
    BY DEF Message_CreateFromBuffer
  <1>1. /\ c \in Buffers /\ u \in BufferOwners(c) /\ owner[o].does = "nothing"
        /\ MessageOwners(m) = {} /\ MapOwners(p) = {} /\ buffers[c] # Free
    <2>1. /\ c \in Buffers /\ u \in BufferOwners(c) /\ owner[o].does = "nothing"
      BY DEF IInv, OwnerInv, BufferOwners, Message_CreateFromBuffer, Ready, Idle, Nothing
    <2> QED
      BY <2>1, FreeIsUnowned
  <1>2. /\ \A x \in Owners : x # o => owner'[x] = owner[x]
        /\ owner'[o].does = "message" /\ owner'[o].of = m
    BY DEF IInv, OwnerInv, Keeps
  <1>3. OwnerInv'
    BY <1>1, <1>2, OwnersAssumption
      DEF IInv, OwnerInv, Does, OnMessage, Nothing, Keeps, Idle, Message_CreateFromBuffer
  <1>4. /\ Heap(messages', Messages)
        /\ \A x \in Messages : x # m => messages'[x] = messages[x]
        /\ messages'[m] = NewMessage(p, c)
    BY NewCellsCount DEF IInv, HeapInv, Heap
  <1>5. /\ Heap(maps', Maps)
        /\ \A x \in Maps : x # p => maps'[x] = maps[x]
        /\ maps'[p] = Counted(1, value.properties)
    BY NewCellsCount DEF IInv, HeapInv, Heap
  <1>6. /\ Heap(Refer(buffers, c), Buffers)
        /\ \A x \in Buffers : x # c => Refer(buffers, c)[x] = buffers[x]
        /\ Refer(buffers, c)[c].refs = buffers[c].refs + 1
        /\ Refer(buffers, c)[c] = [buffers[c] EXCEPT !.refs = buffers[c].refs + 1]
    <2>1. Heap(buffers, Buffers)
      BY DEF IInv, HeapInv
    <2> QED
      BY <1>1, <2>1, ReferCell
  <1>7. HeapInv'
    BY <1>1, <1>4, <1>5, <1>6 DEF IInv, HeapInv, NewMessage
  <1>8. \A x \in Owners : owner[x].does \in OnMessage =>
          owner[x].of \in Messages /\ messages'[owner[x].of] = messages[owner[x].of]
    BY <1>1, <1>4 DEF IInv, OwnerInv, MessageOwners
  <1>9. MessageOwners(m)' = {o} /\ \A x \in Messages : x # m => MessageOwners(x)' = MessageOwners(x)
    BY <1>1, <1>2 DEF MessageOwners, OnMessage
  <1>10. /\ \A x \in Owners : x \in MapOwners(p)' <=> x = o
         /\ \A x \in Maps : x # p => MapOwners(x)' = MapOwners(x)
    BY <1>1, <1>2, <1>4, <1>8 DEF MapOwners, OnMessage, NewMessage
  <1>11. /\ \A x \in Owners : x \in BufferOwners(c)' <=> x \in BufferOwners(c) \/ x = o
         /\ \A x \in Buffers : x # c => BufferOwners(x)' = BufferOwners(x)
    BY <1>1, <1>2, <1>4, <1>8 DEF BufferOwners, OnMessage, NewMessage
  <1>12. /\ MapOwners(p)' = {o} /\ BufferOwners(c)' = BufferOwners(c) \cup {o}
         /\ o \notin BufferOwners(c)
    BY <1>1, <1>10, <1>11 DEF MapOwners, BufferOwners
  <1>13. Cardinality({o}) = 1
    BY FS_Singleton
  <1>14. Cardinality(BufferOwners(c)') = Cardinality(BufferOwners(c)) + 1
    BY <1>12, OwnersFinite, FS_AddElement
  <1>15. messages'[m].refs = 1 /\ maps'[p].refs = 1
    BY <1>4, <1>5 DEF NewMessage, Counted
  <1>16. \A x \in Messages : messages'[x].refs = Cardinality(MessageOwners(x)')
    BY <1>4, <1>9, <1>13, <1>15 DEF IInv, CountsAreRight
  <1>17. \A x \in Maps : maps'[x].refs = Cardinality(MapOwners(x)')
    BY <1>5, <1>10, <1>12, <1>13, <1>15 DEF IInv, CountsAreRight
  <1>18. \A x \in Buffers : buffers'[x].refs = Cardinality(BufferOwners(x)')
    BY <1>1, <1>6, <1>11, <1>14 DEF IInv, CountsAreRight
  <1>19. CountsAreRight'
    BY <1>16, <1>17, <1>18 DEF CountsAreRight
  <1> QED
    BY <1>3, <1>7, <1>19 DEF IInv

\* A reference taken and given back leaves the counts as they were.
TakenAndGiven(heap, x) == Release(Refer(heap, x), x)

LEMMA ReferThenRelease ==
  ASSUME NEW X, NEW heap, NEW a \in X, Heap(heap, X), heap[a] # Free
  PROVE  /\ Heap(TakenAndGiven(heap, a), X)
         /\ \A x \in X : x # a => TakenAndGiven(heap, a)[x] = heap[x]
         /\ TakenAndGiven(heap, a)[a].refs = heap[a].refs
  <1> PICK once : once = Refer(heap, a)
    OBVIOUS
  <1>1. /\ Heap(once, X)
        /\ \A x \in X : x # a => once[x] = heap[x]
        /\ once[a].refs = heap[a].refs + 1
    BY ReferCounts
  <1>2. heap[a].refs \in Nat /\ Free.refs = 0
    BY DEF Heap, Cell, Free
  <1>3. once[a] # Free
    BY <1>1, <1>2
  <1>4. /\ Heap(Release(once, a), X)
        /\ \A x \in X : x # a => Release(once, a)[x] = once[x]
        /\ Release(once, a)[a].refs = once[a].refs - 1
    BY <1>1, <1>3, ReleaseCounts
  <1>5. Release(once, a)[a].refs = heap[a].refs
    BY <1>1, <1>2, <1>4
  <1>6. \A x \in X : x # a => Release(once, a)[x] = heap[x]
    BY <1>1, <1>4
  <1> QED
    BY <1>4, <1>5, <1>6 DEF TakenAndGiven

LEMMA BufferUndone ==
  ASSUME Heap(buffers, Buffers), NEW a \in Buffers, buffers[a] # Free
  PROVE  /\ Heap(TakenAndGiven(buffers, a), Buffers)
         /\ \A x \in Buffers : TakenAndGiven(buffers, a)[x].refs = buffers[x].refs
  <1>1. /\ Heap(TakenAndGiven(buffers, a), Buffers)
        /\ \A x \in Buffers : x # a => TakenAndGiven(buffers, a)[x] = buffers[x]
        /\ TakenAndGiven(buffers, a)[a].refs = buffers[a].refs
    BY ReferThenRelease, ZenonT(30)
  <1> QED
    BY <1>1

LEMMA CreateUndoneStep ==
  ASSUME IInv, NEW o \in Owners, NEW u \in Owners, CreateFromBufferUndone(o, u)
  PROVE  IInv'
  <1> PICK c : c = owner[u].of
    OBVIOUS
  <1>1. /\ buffers' = TakenAndGiven(buffers, c)
        /\ UNCHANGED <<messages, maps, owner, wire>>
        /\ c \in Buffers /\ buffers[c] # Free
    <2>1. c \in Buffers /\ u \in BufferOwners(c)
      BY DEF IInv, OwnerInv, BufferOwners, CreateFromBufferUndone, Ready
    <2> QED
      BY <2>1, FreeIsUnowned DEF CreateFromBufferUndone, TakenAndGiven
  <1>2. Heap(buffers, Buffers)
    BY DEF IInv, HeapInv
  <1>3. /\ Heap(TakenAndGiven(buffers, c), Buffers)
        /\ \A x \in Buffers : TakenAndGiven(buffers, c)[x].refs = buffers[x].refs
    BY <1>1, <1>2, BufferUndone
  <1>4. Heap(buffers', Buffers) /\ \A x \in Buffers : buffers'[x].refs = buffers[x].refs
    BY <1>1, <1>3
  <1>5. HeapInv' /\ OwnerInv'
    BY <1>1, <1>4 DEF IInv, HeapInv, OwnerInv
  <1>6. CountsAreRight'
    BY <1>1, <1>4 DEF IInv, CountsAreRight, MessageOwners, MapOwners, BufferOwners
  <1> QED
    BY <1>5, <1>6 DEF IInv

LEMMA Unchanged ==
  ASSUME IInv, UNCHANGED <<messages, maps, buffers, owner>>
  PROVE  IInv'
  BY DEF IInv, HeapInv, OwnerInv, CountsAreRight, MessageOwners, MapOwners, BufferOwners

----------------------------------------------------------------------------
(* The theorems                                                            *)

LEMMA InitInv == Init => IInv
  <1> SUFFICES ASSUME Init PROVE IInv
    OBVIOUS
  <1>1. Free.refs = 0 /\ Cell(Free)
    BY DEF Free, Cell
  <1>2. HeapInv
    BY <1>1 DEF Init, HeapInv, Heap
  <1>3. OwnerInv
    BY DEF Init, OwnerInv, Nothing, Does, OnMessage
  <1>4. /\ \A m \in Messages : MessageOwners(m) = {}
        /\ \A p \in Maps : MapOwners(p) = {}
        /\ \A c \in Buffers : BufferOwners(c) = {}
    BY DEF Init, Nothing, OnMessage, MessageOwners, MapOwners, BufferOwners
  <1>5. Cardinality({}) = 0
    BY FS_EmptySet
  <1>6. CountsAreRight
    BY <1>1, <1>4, <1>5 DEF Init, CountsAreRight
  <1> QED
    BY <1>2, <1>3, <1>6 DEF IInv

LEMMA NextInv == IInv /\ [Next]_vars => IInv'
  <1> SUFFICES ASSUME IInv, [Next]_vars PROVE IInv'
    OBVIOUS
  <1>1. CASE FromBinding \/ UNCHANGED vars
    BY <1>1, Unchanged DEF FromBinding, vars
  <1>2. ASSUME NEW o \in Owners, Message_Create(o) PROVE IInv'
    BY <1>2, CreateImplStep DEF Message_Create
  <1>3. ASSUME NEW o \in Owners, CreateFromByteArray(o) PROVE IInv'
    <2> PICK value : value = Message_CreateFromByteArray(wire.bytes)
      OBVIOUS
    <2>1. CASE value = NoValue
      BY <1>3, <2>1, Unchanged DEF CreateFromByteArray
    <2>2. CASE value # NoValue
      BY <1>3, <2>2, CreateImplStep DEF CreateFromByteArray
    <2> QED
      BY <2>1, <2>2
  <1>4. ASSUME NEW o \in Owners, ToByteArray(o) PROVE IInv'
    BY <1>4, Unchanged DEF ToByteArray
  <1>5. ASSUME NEW o \in Owners,
               \/ CloneProperties(o) \/ CloneContent(o)
               \/ Message_Destroy(o) \/ DestroyContent(o) \/ DropReference(o)
               \/ ConstMap_Destroy(o) \/ CONSTBUFFER_Destroy(o)
        PROVE  IInv'
    BY <1>5, ClonePropertiesStep, CloneContentStep, MessageDestroyStep, DestroyContentStep,
       DropReferenceStep, ConstMapDestroyStep, CONSTBUFFERDestroyStep
  <1>6. ASSUME NEW o \in Owners, NEW u \in Owners,
               \/ Message_CreateFromBuffer(o, u) \/ CreateFromBufferUndone(o, u)
               \/ Message_Clone(o, u)
               \/ Message_GetProperties(o, u) \/ Message_GetContentHandle(o, u)
        PROVE  IInv'
    BY <1>6, CreateFromBufferStep, CreateUndoneStep, MessageCloneStep,
       MessageGetPropertiesStep, MessageGetContentHandleStep
  <1> QED
    BY <1>1, <1>2, <1>3, <1>4, <1>5, <1>6 DEF Next

(* The counters of messages, properties and contents always count their    *)
(* owners, for any number of handles and however their steps interleave.   *)
THEOREM CountsCorrect == Spec => []CountsAreRight
  <1>1. IInv => CountsAreRight
    BY DEF IInv
  <1> QED
    BY <1>1, InitInv, NextInv, PTL DEF Spec

(* Messages, properties and contents live as long as they have an owner    *)
(* and no longer: neither a use after free nor a leak.                     *)
THEOREM LiveCorrect == Spec => []LiveWhileOwned
  <1>1. IInv => LiveWhileOwned
    BY FreeIsUnowned DEF LiveWhileOwned
  <1> QED
    BY <1>1, InitInv, NextInv, PTL DEF Spec

(* The heap and the owners keep the form message.c gives them.             *)
THEOREM TypeCorrect == Spec => []TypeOK
  <1>1. ASSUME IInv PROVE TypeOK
    <2>1. ASSUME NEW S, S \subseteq Owners
          PROVE  Cardinality(S) \in Nat /\ Cardinality(S) <= Cardinality(Owners)
      BY <2>1, OwnersAssumption, FS_Subset, FS_CardinalityType
    <2>2. Cardinality(Owners) \in Nat
      BY OwnersAssumption, FS_CardinalityType
    <2>3. ASSUME NEW m \in Messages, messages[m] # Free
          PROVE  /\ messages[m].refs \in 1 .. Cardinality(Owners)
                 /\ messages[m].properties \in Maps /\ messages[m].content \in Buffers
      <3>1. messages[m].refs \in Nat /\ messages[m].refs # 0
        BY <1>1, <2>3 DEF IInv, HeapInv, Heap, Cell
      <3>2. messages[m].refs <= Cardinality(Owners)
        BY <1>1, <2>1 DEF IInv, CountsAreRight, MessageOwners
      <3> QED
        BY <1>1, <2>2, <2>3, <3>1, <3>2 DEF IInv, HeapInv
    <2>4. ASSUME NEW p \in Maps, maps[p] # Free
          PROVE  maps[p].refs \in 1 .. Cardinality(Owners)
      <3>1. maps[p].refs \in Nat /\ maps[p].refs # 0
        BY <1>1, <2>4 DEF IInv, HeapInv, Heap, Cell
      <3>2. maps[p].refs <= Cardinality(Owners)
        BY <1>1, <2>1 DEF IInv, CountsAreRight, MapOwners
      <3> QED
        BY <2>2, <3>1, <3>2
    <2>5. ASSUME NEW c \in Buffers, buffers[c] # Free
          PROVE  buffers[c].refs \in 1 .. Cardinality(Owners)
      <3>1. buffers[c].refs \in Nat /\ buffers[c].refs # 0
        BY <1>1, <2>5 DEF IInv, HeapInv, Heap, Cell
      <3>2. buffers[c].refs <= Cardinality(Owners)
        BY <1>1, <2>1 DEF IInv, CountsAreRight, BufferOwners
      <3> QED
        BY <2>2, <3>1, <3>2
    <2> QED
      BY <1>1, <2>3, <2>4, <2>5 DEF TypeOK, IInv, OwnerInv
  <1> QED
    BY <1>1, InitInv, NextInv, PTL DEF Spec
=============================================================================
