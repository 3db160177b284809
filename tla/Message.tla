------------------------------ MODULE Message ------------------------------
(***************************************************************************)
(* core/src/message.c: messages, their reference counts and their way      *)
(* through a byte array.                                                   *)
(*                                                                         *)
(* A MESSAGE_HANDLE_DATA counts its owners; its properties (a CONSTMAP)    *)
(* and its content (a CONSTBUFFER) count theirs on their own, since        *)
(* Message_GetProperties and Message_GetContentHandle hand them out and    *)
(* Message_CreateFromBuffer shares a content between messages.  A clone    *)
(* takes, and a destruction gives back, three counts in three atomic       *)
(* steps; owners in different threads interleave between them.             *)
(*                                                                         *)
(* An owner stands for one handle somebody holds: a variable of a module,  *)
(* an entry of a broker's queue.  What an owner does is done by the thread *)
(* that holds it, one operation at a time.                                 *)
(***************************************************************************)
EXTENDS MessageBytes, FiniteSets

CONSTANTS
  Owners,       \* places where a handle may be kept
  Messages, Maps, Buffers,   \* addresses on the heap
  Configs,      \* values messages are created with
  Foreign,      \* byte arrays handed in by programs behind the bindings
  None

ASSUME OwnersAssumption == IsFiniteSet(Owners) /\ None \notin Owners
ASSUME ValueAssumption ==
  /\ \A v \in Configs : v \in Value
  /\ \A b \in Foreign : b \in Seq(Byte)

VARIABLES
  messages,     \* messages[m]: MESSAGE_HANDLE_DATA, or Free
  maps,         \* maps[p]: a CONSTMAP with its count, or Free
  buffers,      \* buffers[c]: a CONSTBUFFER with its count, or Free
  owner,        \* owner[o]: the handle kept there and the step it is in
  wire          \* a byte array on its way, and the message it was made of

vars == <<messages, maps, buffers, owner, wire>>

Free == [refs |-> 0]
NewMessage(p, c) == [refs |-> 1, properties |-> p, content |-> c]
Counted(n, value) == [refs |-> n, value |-> value]

(* Steps of an owner, by the counts its handle has at that point: a clone  *)
(* goes "referenced", "mapped", "message"; a destruction "message",        *)
(* "unmapped", "unbuffered", "nothing".                                    *)
Nothing == [does |-> "nothing", of |-> None, by |-> None]
Keeps(kind, x) == [does |-> kind, of |-> x, by |-> None]
OnMessage == {"referenced", "mapped", "message", "unmapped", "unbuffered"}

Idle(o) == owner[o] = Nothing
\* The handle at o may be used: o does not wait for a clone to be completed.
Ready(o, kind) ==
  /\ owner[o].does = kind /\ owner[o].by = None
  /\ \A u \in Owners : owner[u].by # o

Refer(heap, x) == [heap EXCEPT ![x].refs = @ + 1]
Release(heap, x) ==
  IF heap[x].refs = 1 THEN [heap EXCEPT ![x] = Free] ELSE [heap EXCEPT ![x].refs = @ - 1]

Init ==
  /\ messages = [m \in Messages |-> Free]
  /\ maps = [p \in Maps |-> Free]
  /\ buffers = [c \in Buffers |-> Free]
  /\ owner = [o \in Owners |-> Nothing]
  /\ wire = [bytes |-> <<>>, of |-> NoValue]

----------------------------------------------------------------------------
(* Creation.  A failed allocation leaves everything as it was.             *)

Message_CreateImpl(o, value) ==
  \E m \in Messages, p \in Maps, c \in Buffers :
    /\ messages[m] = Free /\ maps[p] = Free /\ buffers[c] = Free
    /\ messages' = [messages EXCEPT ![m] = NewMessage(p, c)]
    /\ maps' = [maps EXCEPT ![p] = Counted(1, value.properties)]
    /\ buffers' = [buffers EXCEPT ![c] = Counted(1, value.content)]
    /\ owner' = [owner EXCEPT ![o] = Keeps("message", m)]

Message_Create(o) ==
  /\ Idle(o)
  /\ \E value \in Configs : Message_CreateImpl(o, value)
  /\ UNCHANGED wire

\* A message with new properties around the content that u keeps.
Message_CreateFromBuffer(o, u) ==
  /\ Idle(o) /\ Ready(u, "content")
  /\ \E m \in Messages, p \in Maps, value \in Configs :
       /\ messages[m] = Free /\ maps[p] = Free
       /\ messages' = [messages EXCEPT ![m] = NewMessage(p, owner[u].of)]
       /\ maps' = [maps EXCEPT ![p] = Counted(1, value.properties)]
       /\ buffers' = Refer(buffers, owner[u].of)
       /\ owner' = [owner EXCEPT ![o] = Keeps("message", m)]
  /\ UNCHANGED wire

\* Mutant: the reference taken before ConstMap_Create failed is forgotten.
CreateFromBufferUndone_leaks(o, u) ==
  /\ Idle(o) /\ Ready(u, "content")
  /\ buffers[owner[u].of].refs <= Cardinality(Owners)
  /\ buffers' = Refer(buffers, owner[u].of)
  /\ UNCHANGED <<messages, maps, owner, wire>>
CreateFromBufferUndone(o, u) ==
  /\ Idle(o) /\ Ready(u, "content")
  /\ buffers' = Release(Refer(buffers, owner[u].of), owner[u].of)
  /\ UNCHANGED <<messages, maps, owner, wire>>

CreateFromByteArray(o) ==
  /\ Idle(o) /\ wire.bytes # <<>>
  /\ LET value == Message_CreateFromByteArray(wire.bytes)
     IN  IF value = NoValue THEN UNCHANGED <<messages, maps, buffers, owner>>
                            ELSE Message_CreateImpl(o, value)
  /\ wire' = [bytes |-> <<>>, of |-> NoValue]

----------------------------------------------------------------------------
(* Clones and destruction                                                  *)

Message_Clone(o, u) ==
  /\ Ready(o, "message") /\ Idle(u)
  /\ messages' = Refer(messages, owner[o].of)
  /\ owner' = [owner EXCEPT ![u] = [does |-> "referenced", of |-> owner[o].of, by |-> o]]
  /\ UNCHANGED <<maps, buffers, wire>>

CloneProperties(u) ==
  /\ owner[u].does = "referenced"
  /\ maps' = Refer(maps, messages[owner[u].of].properties)
  /\ owner' = [owner EXCEPT ![u].does = "mapped"]
  /\ UNCHANGED <<messages, buffers, wire>>

CloneContent(u) ==
  /\ owner[u].does = "mapped"
  /\ buffers' = Refer(buffers, messages[owner[u].of].content)
  /\ owner' = [owner EXCEPT ![u] = Keeps("message", owner[u].of)]
  /\ UNCHANGED <<messages, maps, wire>>

Message_GetProperties(o, u) ==
  /\ Ready(o, "message") /\ Idle(u)
  /\ maps' = Refer(maps, messages[owner[o].of].properties)
  /\ owner' = [owner EXCEPT ![u] = Keeps("properties", messages[owner[o].of].properties)]
  /\ UNCHANGED <<messages, buffers, wire>>

Message_GetContentHandle(o, u) ==
  /\ Ready(o, "message") /\ Idle(u)
  /\ buffers' = Refer(buffers, messages[owner[o].of].content)
  /\ owner' = [owner EXCEPT ![u] = Keeps("content", messages[owner[o].of].content)]
  /\ UNCHANGED <<messages, maps, wire>>

Message_Destroy(o) ==
  /\ Ready(o, "message")
  /\ maps' = Release(maps, messages[owner[o].of].properties)
  /\ owner' = [owner EXCEPT ![o].does = "unmapped"]
  /\ UNCHANGED <<messages, buffers, wire>>

DestroyContent(o) ==
  /\ owner[o].does = "unmapped"
  /\ buffers' = Release(buffers, messages[owner[o].of].content)
  /\ owner' = [owner EXCEPT ![o].does = "unbuffered"]
  /\ UNCHANGED <<messages, maps, wire>>

\* Mutant: whoever finds one reference frees the message, before counting down.
DropReference_early(o) ==
  /\ owner[o].does = "unbuffered"
  /\ messages' = IF messages[owner[o].of].refs <= 2
                 THEN [messages EXCEPT ![owner[o].of] = Free]
                 ELSE Release(messages, owner[o].of)
  /\ owner' = [owner EXCEPT ![o] = Nothing]
  /\ UNCHANGED <<maps, buffers, wire>>
DropReference(o) ==
  /\ owner[o].does = "unbuffered"
  /\ messages' = Release(messages, owner[o].of)
  /\ owner' = [owner EXCEPT ![o] = Nothing]
  /\ UNCHANGED <<maps, buffers, wire>>

\* The holder of a map or a content gives it back.
ConstMap_Destroy(o) ==
  /\ Ready(o, "properties")
  /\ maps' = Release(maps, owner[o].of)
  /\ owner' = [owner EXCEPT ![o] = Nothing]
  /\ UNCHANGED <<messages, buffers, wire>>

CONSTBUFFER_Destroy(o) ==
  /\ Ready(o, "content")
  /\ buffers' = Release(buffers, owner[o].of)
  /\ owner' = [owner EXCEPT ![o] = Nothing]
  /\ UNCHANGED <<messages, maps, wire>>

----------------------------------------------------------------------------
(* Byte arrays: of a message, as Broker_Publish sends it, or from a        *)
(* program in another language.                                            *)

ValueOf(m) == [properties |-> maps[messages[m].properties].value,
               content |-> buffers[messages[m].content].value]

ToByteArray(o) ==
  /\ Ready(o, "message") /\ wire.bytes = <<>>
  /\ wire' = [bytes |-> Message_ToByteArray(ValueOf(owner[o].of)),
              of |-> ValueOf(owner[o].of)]
  /\ UNCHANGED <<messages, maps, buffers, owner>>

FromBinding ==
  /\ wire.bytes = <<>> /\ \A o \in Owners : Idle(o)
  /\ \E bytes \in Foreign : wire' = [bytes |-> bytes, of |-> NoValue]
  /\ UNCHANGED <<messages, maps, buffers, owner>>

Next ==
  \/ FromBinding
  \/ \E o \in Owners :
       \/ Message_Create(o) \/ CreateFromByteArray(o) \/ ToByteArray(o)
       \/ CloneProperties(o) \/ CloneContent(o)
       \/ Message_Destroy(o) \/ DestroyContent(o) \/ DropReference(o)
       \/ ConstMap_Destroy(o) \/ CONSTBUFFER_Destroy(o)
       \/ \E u \in Owners :
            \/ Message_CreateFromBuffer(o, u) \/ CreateFromBufferUndone(o, u)
            \/ Message_Clone(o, u)
            \/ Message_GetProperties(o, u) \/ Message_GetContentHandle(o, u)

Spec == Init /\ [][Next]_vars

----------------------------------------------------------------------------
(* Properties                                                              *)

MessageOwners(m) == {o \in Owners : owner[o].does \in OnMessage /\ owner[o].of = m}
MapOwners(p) ==
  {o \in Owners : \/ owner[o].does = "properties" /\ owner[o].of = p
                  \/ /\ owner[o].does \in {"mapped", "message"}
                     /\ messages[owner[o].of].properties = p}
BufferOwners(c) ==
  {o \in Owners : \/ owner[o].does = "content" /\ owner[o].of = c
                  \/ /\ owner[o].does \in {"message", "unmapped"}
                     /\ messages[owner[o].of].content = c}

(* Every heap cell is free or a counted object, and an owner in the middle *)
(* of a clone knows its source: the shapes message.c gives its data.       *)
TypeOK ==
  /\ \A m \in Messages :
       messages[m] = Free \/ /\ messages[m].refs \in 1 .. Cardinality(Owners)
                             /\ messages[m].properties \in Maps
                             /\ messages[m].content \in Buffers
  /\ \A p \in Maps : maps[p] = Free \/ maps[p].refs \in 1 .. Cardinality(Owners)
  /\ \A c \in Buffers : buffers[c] = Free \/ buffers[c].refs \in 1 .. Cardinality(Owners)
  /\ \A o \in Owners :
       owner[o].by # None <=> owner[o].does \in {"referenced", "mapped"}

(* A message, its properties and its content live exactly as long as       *)
(* somebody has a count on them, however the three steps of clones and     *)
(* destructions of different owners interleave: nothing is used after it   *)
(* was freed (Message_Clone, Message_Destroy) and nothing is leaked.       *)
LiveWhileOwned ==
  /\ \A m \in Messages : messages[m] # Free <=> MessageOwners(m) # {}
  /\ \A p \in Maps : maps[p] # Free <=> MapOwners(p) # {}
  /\ \A c \in Buffers : buffers[c] # Free <=> BufferOwners(c) # {}

(* The counters of the three objects of a message count their owners: what *)
(* makes the interleaved steps of Message_Clone and Message_Destroy safe.  *)
CountsAreRight ==
  /\ \A m \in Messages : messages[m].refs = Cardinality(MessageOwners(m))
  /\ \A p \in Maps : maps[p].refs = Cardinality(MapOwners(p))
  /\ \A c \in Buffers : buffers[c].refs = Cardinality(BufferOwners(c))

(* A message that goes through Message_ToByteArray comes out of            *)
(* Message_CreateFromByteArray as it was: what the broker relies on.       *)
RoundTrip == wire.of # NoValue => Message_CreateFromByteArray(wire.bytes) = wire.of

(* Message_CreateFromByteArray accepts nothing but what                    *)
(* Message_ToByteArray writes: no byte is ignored or read past the end,    *)
(* whatever a binding hands in.                                            *)
OnlySerialized ==
  LET value == Message_CreateFromByteArray(wire.bytes)
  IN  value # NoValue => Message_ToByteArray(value) = wire.bytes

(* The byte array format is unambiguous: what is written is read back, and *)
(* nothing else is read.                                                   *)
BytesAreReadBack == RoundTrip /\ OnlySerialized
=============================================================================
