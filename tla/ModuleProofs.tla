---------------------------- MODULE ModuleProofs ----------------------------
(***************************************************************************)
(* Proofs about the modules of a gateway.                                  *)
(*                                                                         *)
(* Ble: for any instructions, configured or brought by messages, and any   *)
(* failures, the count of the sequence is that of what uses it, requests   *)
(* find the instructions that nothing has moved or freed, and BLE_Destroy  *)
(* is told last.                                                           *)
(*                                                                         *)
(* CloudUpload: for any devices, mapping, configurations of gateways,      *)
(* number of starts and failures, messages of a device reach the cloud     *)
(* once, in order and under the device's name, commands find the address   *)
(* of their device, clients are the vector's or the worker's, no worker is *)
(* in a module that is let go of, and the log breaks off at scars only.    *)
(***************************************************************************)
EXTENDS Ble, UploadInvariant, TLAPS, FiniteSetTheorems, SequenceTheorems, WellFoundedInduction

-----------------------------------------------------------------------------
(***************************************************************************)
(* The sequence of BLE instructions                                        *)
(***************************************************************************)

Busy == {r \in Io : step[r] > 0}
Periodic(i) == TypeOf[i] = "READ_PERIODIC"
Held == ToSet(vector) \cup live

\* Before BLEIO_Seq_Run nothing uses the instructions, and a sequence that is
\* destroyed has one thread left that schedules.
Phases ==
  /\ pc = "none" => refs = 0 /\ state = "IDLE"
  /\ state = "IDLE" => Busy = {} /\ timers = {} /\ added = {} /\ runner = None
  /\ pc # "destroying" => exits = {}
  /\ pc = "destroying" => state # "IDLE"
  /\ complete => pc \in {"waiting", "joining", "gone"} /\ refs = 0 /\ ~sequence
  /\ state = "IDLE" => undo = "none"
  /\ undo = "taken" => runner # None /\ run # {}

\* The vector has each instruction once: those of the configuration and exit
\* writes that were added.
Vector ==
  /\ IsInjective(vector)
  /\ ToSet(vector) \subseteq ToSet(Configured) \cup added
  /\ exits \subseteq ExitsOf(vector)
  /\ \A i \in live : ~IsExit(i)

\* BLEIO_Seq_Run starts each timer of the configuration once.
Timers ==
  /\ \A i \in timers : Periodic(i) /\ i \in Held
  /\ \A n \in run : vector[n] \in ToSet(Configured) \ timers

\* An instruction that is in memory of its own is used by one request, or by its
\* timer and the timer's reads.
Users ==
  /\ \A r \in Busy : r[1] \in Held \/ (Periodic(r[1]) /\ state # "RUNNING" /\ runner = None)
  /\ \A r, q \in Busy : r[1] = q[1] /\ r[1] \in live /\ ~Periodic(r[1]) => r = q

\* Only what a request or a timer points at is moved, by an exit write that is
\* added before BLE_Destroy; and exit writes are requested after that.
Moves ==
  /\ \A i \in moved : ~IsExit(i)
  /\ moved # {} => \E i \in added : IsExit(i)
  /\ pc \in {"none", "terminating", "up"} => \A r \in Busy : ~IsExit(r[1])
  /\ \A n \in run : ~IsExit(vector[n])

Inv == TypeOK /\ RefsAreRight /\ Phases /\ Vector /\ Timers /\ Users /\ Moves
-----------------------------------------------------------------------------
(* Instructions and requests *)

\* A set of numbers that is not empty has a first.
LEMMA FirstIs ==
  ASSUME NEW N \in SUBSET Nat, N # {}
  PROVE  First(N) \in N
<1>1. IsWellFoundedOn(OpToRel(<, Nat), Nat)
  BY NatLessThanWellFounded
<1>2. PICK n \in N : \A m \in N : ~(<<m, n>> \in OpToRel(<, Nat))
  BY <1>1, WFMin
<1>3. \A x, y \in Nat : <<y, x>> \in OpToRel(<, Nat) <=> y < x
  BY DEF OpToRel
<1>4. \A x, y \in Nat : ~(y < x) => x <= y
  OBVIOUS
<1> QED BY <1>2, <1>3, <1>4 DEF First

\* Requests for instructions are finitely many, and not connections.
LEMMA IoIs ==
  /\ Io \subseteq Requests /\ IsFiniteSet(Io) /\ IsFiniteSet(Instructions)
  /\ Connect \notin Io /\ Disconnect \notin Io /\ Connect # Disconnect
  /\ \A r \in Io : r[1] \in Instructions
  /\ \A i \in Instructions, n \in 1..MaxReads :
       <<i, n>> \in Io /\ <<i, n>>[1] = i
<1>1. IsFiniteSet(ToSet(Configured))
  <2>1. DOMAIN Configured = 1..Len(Configured) /\ Len(Configured) \in Nat
    BY InstructionAssumption
  <2>2. IsFiniteSet(DOMAIN Configured)
    BY <2>1, FS_Interval
  <2>3. Configured \in Surjection(DOMAIN Configured, ToSet(Configured))
    BY <2>1, InstructionAssumption DEF ToSet, Surjection
  <2> QED BY <2>2, <2>3, FS_Surjection
<1>2. IsFiniteSet(Instructions)
  BY <1>1, InstructionAssumption, FS_Union DEF Instructions
<1>3. IsFiniteSet(1..MaxReads)
  BY MaxReadsAssumption, FS_Interval
<1>4. IsFiniteSet(Io)
  BY <1>2, <1>3, FS_Product DEF Io
<1>5. Connect \notin Io /\ Disconnect \notin Io /\ Connect # Disconnect
  BY InstructionAssumption DEF Connect, Disconnect, Io
<1> QED BY <1>2, <1>4, <1>5 DEF Io, Requests

\* Requests on their way are finitely many.
LEMMA BusyIs ==
  /\ Busy \subseteq Io /\ IsFiniteSet(Busy) /\ Cardinality(Busy) \in Nat
  /\ \A r \in Busy : Cardinality(Busy) > 0
<1>1. Busy \subseteq Io /\ IsFiniteSet(Busy)
  BY IoIs, FS_Subset DEF Busy
<1> QED BY <1>1, FS_CardinalityType, FS_EmptySet

\* So are timers.
LEMMA TimersAre ==
  ASSUME timers \subseteq Instructions
  PROVE  /\ IsFiniteSet(timers) /\ Cardinality(timers) \in Nat
         /\ \A i \in timers : Cardinality(timers) > 0
<1>1. IsFiniteSet(timers)
  BY IoIs, FS_Subset
<1> QED BY <1>1, FS_CardinalityType, FS_EmptySet

\* Who holds the sequence, other than requests and timers: its owner, and a
\* request that fails.
Owner == (IF pc \in {"terminating", "up", "destroying"} THEN 1 ELSE 0)
         + (IF undo = "taken" THEN 1 ELSE 0)

LEMMA Referenced ==
  /\ Owner \in {0, 1, 2}
  /\ pc \in {"terminating", "up", "destroying"} => Owner > 0
  /\ undo = "taken" => Owner > 0
  /\ RefsAreRight <=>
       /\ refs = Owner + Cardinality(Busy) + Cardinality(timers)
       /\ sequence <=> refs > 0 \/ undo = "dropped"
       /\ undo = "dropped" => refs = 0 /\ pc \notin {"none", "terminating", "up", "destroying"}
<1> QED BY DEF RefsAreRight, Owner, Busy

\* A request is made.
LEMMA RequestMade ==
  ASSUME TypeOK, NEW i \in Instructions, schedule_read(i)
  PROVE  /\ step' \in [Requests -> 0..4] /\ timers' = timers
         /\ \E r \in Io : r[1] = i /\ r \notin Busy /\ Busy' = Busy \cup {r}
         /\ Cardinality(Busy') = Cardinality(Busy) + 1
<1>1. PICK n \in 1..MaxReads :
        step[<<i, n>>] = 0 /\ step' = GIO_Async_Seq_Run_Async(step, <<i, n>>)
  BY DEF schedule_read
<1>2. PICK r \in Io : r = <<i, n>> /\ r[1] = i
  BY IoIs
<1>3. step' = [step EXCEPT ![r] = 1] /\ step[r] = 0 /\ step \in [Requests -> 0..4]
  BY <1>1, <1>2 DEF GIO_Async_Seq_Run_Async, TypeOK
<1>4. /\ step' \in [Requests -> 0..4] /\ r \notin Busy
      /\ step'[r] = 1 /\ \A q \in Io \ {r} : step'[q] = step[q]
  BY <1>3, IoIs DEF Busy
<1>5. Busy' = Busy \cup {r}
  BY <1>4 DEF Busy
<1>6. Cardinality(Busy') = Cardinality(Busy) + 1
  BY <1>4, <1>5, BusyIs, FS_AddElement
<1> QED BY <1>2, <1>4, <1>5, <1>6 DEF schedule_read

\* A request is complete.
LEMMA RequestDone ==
  ASSUME TypeOK, NEW r \in Busy, \A q \in Io : step'[q] = [step EXCEPT ![r] = 0][q]
  PROVE  Busy' = Busy \ {r} /\ Cardinality(Busy') = Cardinality(Busy) - 1
<1>1. r \in Io /\ r \in Requests /\ step \in [Requests -> 0..4]
  BY BusyIs, IoIs DEF TypeOK
<1>2. step'[r] = 0 /\ \A q \in Io \ {r} : step'[q] = step[q]
  BY <1>1, IoIs
<1>3. Busy' = Busy \ {r}
  BY <1>1, <1>2 DEF Busy
<1> QED BY <1>3, BusyIs, FS_RemoveElement

\* A reference less.  With the last the sequence is freed, and BLE_Destroy is told
\* when it is there to be told.
LEMMA Released ==
  ASSUME TypeOK, NEW s \in [Requests -> 0..4], dec_ref_handle(s)
  PROVE  /\ refs' = refs - 1 /\ refs > 0
         /\ step' \in [Requests -> 0..4] /\ \A r \in Io : step'[r] = s[r]
         /\ \/ refs > 1 /\ UNCHANGED <<sequence, complete>>
            \/ /\ refs = 1 /\ sequence' = FALSE
               /\ complete' = complete \/ (complete' = TRUE /\ pc \in Destroying)
<1>1. refs \in Nat /\ Connect \in Requests /\ Disconnect \in Requests
  BY DEF TypeOK, Requests
<1>2. ASSUME step' = s \/ step' = BLEIO_gatt_disconnect(s)
      PROVE  step' \in [Requests -> 0..4] /\ \A r \in Io : step'[r] = s[r]
  BY <1>1, <1>2, IoIs DEF BLEIO_gatt_disconnect, GIO_Async_Seq_Run_Async
<1> QED BY <1>1, <1>2 DEF dec_ref_handle, on_destroy_complete

\* An instruction is scheduled: a timer is set or a request is made.
LEMMA Scheduled ==
  ASSUME TypeOK, NEW i \in Instructions, schedule_instruction(i)
  PROVE  /\ refs' = refs + 1 /\ step' \in [Requests -> 0..4]
         /\ \/ Periodic(i) /\ timers' = timers \cup {i} /\ Busy' = Busy
            \/ /\ ~Periodic(i) /\ timers' = timers
               /\ Cardinality(Busy') = Cardinality(Busy) + 1
               /\ \E r \in Io : r[1] = i /\ r \notin Busy /\ Busy' = Busy \cup {r}
<1>1. refs' = refs + 1
  BY DEF schedule_instruction
<1>2. CASE TypeOf[i] = "READ_PERIODIC" /\ schedule_periodic(i)
  BY <1>1, <1>2 DEF schedule_periodic, Periodic, Busy, TypeOK
<1>3. CASE TypeOf[i] # "READ_PERIODIC" /\ schedule_read(i)
  BY <1>1, <1>3, RequestMade DEF Periodic
<1> QED BY <1>2, <1>3 DEF schedule_instruction

\* Then there is one use more.
LEMMA OneMore ==
  ASSUME TypeOK, NEW i \in Instructions, schedule_instruction(i), i \notin timers
  PROVE  Cardinality(Busy') + Cardinality(timers') =
           Cardinality(Busy) + Cardinality(timers) + 1
<1>1. timers \subseteq Instructions /\ IsFiniteSet(timers) /\ Cardinality(timers) \in Nat
  BY TimersAre DEF TypeOK
<1>2. CASE timers' = timers \cup {i} /\ Busy' = Busy
  <2>1. Cardinality(timers \cup {i}) = Cardinality(timers) + 1
    BY <1>1, FS_AddElement
  <2>2. Cardinality(Busy') = Cardinality(Busy) /\ Cardinality(Busy) \in Nat
    BY <1>2, BusyIs
  <2>3. Cardinality(timers') = Cardinality(timers) + 1
    BY <1>2, <2>1
  <2> QED BY <1>1, <2>2, <2>3
<1>3. CASE timers' = timers /\ Cardinality(Busy') = Cardinality(Busy) + 1
  BY <1>1, <1>3, BusyIs
<1> QED BY <1>2, <1>3, Scheduled

-----------------------------------------------------------------------------
(* Steps *)

LEMMA InitInv == Init => Inv
<1> SUFFICES ASSUME Init PROVE Inv
  OBVIOUS
<1>1. \A r \in Requests : step[r] = 0
  <2>1. step = [r \in Requests |-> 0]
    BY DEF Init
  <2> QED BY <2>1
<1>2. Busy = {} /\ timers = {} /\ Cardinality(Busy) = 0 /\ Cardinality(timers) = 0
  <2>1. timers = {}
    BY DEF Init
  <2>2. \A r \in Io : ~(step[r] > 0)
    BY <1>1 DEF Requests
  <2>3. Busy = {}
    BY <2>2 DEF Busy
  <2> QED BY <2>1, <2>3, FS_EmptySet
<1>3. Configured \in Seq(ToSet(Configured)) /\ ToSet(Configured) \subseteq Instructions
  BY InstructionAssumption DEF Instructions
<1>4. Configured \in Seq(Instructions)
  BY <1>3
<1>5. TypeOK
  <2>1. step \in [Requests -> 0..4] /\ vector \in Seq(Instructions)
    BY <1>4 DEF Init
  <2>2. /\ pc = "none" /\ handle = FALSE /\ connected = FALSE /\ complete = FALSE
        /\ sequence = FALSE /\ state = "IDLE" /\ refs = 0
        /\ exits = {} /\ gatt = "DISCONNECTED" /\ live = {} /\ added = {}
        /\ timers = {} /\ run = {} /\ runner = None /\ loop = "none" /\ shared \in BOOLEAN
        /\ moved = {} /\ undo = "none"
    BY DEF Init
  <2> QED BY <2>1, <2>2 DEF TypeOK, States
<1>6. RefsAreRight
  BY <1>2, Referenced DEF Init, Owner
<1>7. Phases /\ Vector /\ Timers /\ Users /\ Moves
  BY <1>2, InstructionAssumption DEF Init, Phases, Vector, Timers, Users, Moves
<1> QED BY <1>5, <1>6, <1>7 DEF Inv

\* Steps that touch neither the instructions nor what refers to the sequence.
LEMMA QuietKeeps ==
  ASSUME Inv, TypeOK', Busy' = Busy, Owner' = Owner,
         UNCHANGED <<sequence, refs, vector, moved, timers, live, added, complete, undo>>,
         undo = "taken" => UNCHANGED <<run, runner>>,
         /\ run' = run \/ run' = {}
         /\ exits' \subseteq exits
         /\ \/ state' = state
            \/ state # "IDLE" /\ state' # "IDLE" /\ (runner # None \/ state' # "RUNNING")
         /\ runner' = runner \/ runner' = None,
         pc' = pc \/ pc' \notin {"none", "terminating", "up"},
         pc = "destroying" <=> pc' = "destroying",
         complete => pc' \in {"waiting", "joining", "gone"}
  PROVE  Inv'
<1> USE DEF Inv
<1>1. RefsAreRight'
  BY DEF RefsAreRight, Owner, Busy
<1>2. Phases'
  BY DEF Phases, Owner
<1>3. Vector'
  BY DEF Vector
<1>4. Timers'
  BY DEF Timers, Held
<1>5. Users'
  BY DEF Users, Held
<1>6. Moves'
  BY DEF Moves
<1> QED BY <1>1, <1>2, <1>3, <1>4, <1>5, <1>6

-----------------------------------------------------------------------------
(* Callbacks *)

\* One use of the sequence is over: with the last, in BLE_Destroy, the exit
\* writes are behind it.
LEMMA ReleaseKeeps ==
  ASSUME Inv, TypeOK', NEW s \in [Requests -> 0..4], dec_ref_handle(s),
         Owner' + Cardinality(Busy') + Cardinality(timers') =
           Owner + Cardinality(Busy) + Cardinality(timers) - 1,
         pc' = pc \/ (pc = "destroying" /\ pc' = "waiting") \/ pc' = "gone", undo' = undo,
         pc' = pc => Owner = 0 \/ Cardinality(Busy) + Cardinality(timers) > 0
  PROVE  /\ RefsAreRight'
         /\ complete' => pc' \in {"waiting", "joining", "gone"} /\ refs' = 0 /\ ~sequence'
<1>1. /\ refs' = refs - 1 /\ refs > 0
      /\ \/ refs > 1 /\ UNCHANGED <<sequence, complete>>
         \/ /\ refs = 1 /\ sequence' = FALSE
            /\ complete' = complete \/ (complete' = TRUE /\ pc \in Destroying)
  BY Released DEF Inv
<1>2. /\ refs = Owner + Cardinality(Busy) + Cardinality(timers)
      /\ sequence = TRUE /\ undo # "dropped"
      /\ refs \in Nat /\ complete \in BOOLEAN
  BY <1>1, Referenced DEF Inv, TypeOK
<1>3. Cardinality(Busy) \in Nat /\ Cardinality(timers) \in Nat /\ Owner \in {0, 1, 2}
  BY BusyIs, TimersAre, Referenced DEF Inv, TypeOK
<1>4. refs' = Owner' + Cardinality(Busy') + Cardinality(timers')
  BY <1>1, <1>2, <1>3
<1>8. sequence' <=> refs' > 0
  <2>1. CASE refs > 1 /\ sequence' = sequence
    BY <1>1, <1>2, <2>1
  <2>2. CASE refs = 1 /\ sequence' = FALSE
    BY <1>1, <2>2
  <2> QED BY <1>1, <2>1, <2>2
<1>5. RefsAreRight'
  BY <1>2, <1>4, <1>8 DEF RefsAreRight, Owner, Busy
<1>6. ~complete
  BY <1>1 DEF Inv, Phases
<1>7. ASSUME complete'
      PROVE  pc' \in {"waiting", "joining", "gone"} /\ refs' = 0 /\ ~sequence'
  <2>1. refs = 1 /\ pc \in Destroying /\ ~sequence'
    BY <1>1, <1>6, <1>7
  <2>2. pc' = pc => pc # "destroying"
    BY <1>2, <1>3, <2>1, Referenced
  <2> QED BY <1>1, <2>1, <2>2 DEF Destroying
<1> QED BY <1>5, <1>7

LEMMA IoCompleteKeeps ==
  ASSUME Inv, NEW r \in Requests, on_io_complete(r)
  PROVE  Inv'
<1> USE DEF Inv
<1> DEFINE s == [step EXCEPT ![r] = 0]
<1>1. /\ runner = None /\ r \in Io /\ r \in Busy /\ s \in [Requests -> 0..4]
      /\ dec_ref_handle(s) /\ live' = live \ OutOfUse(r[1])
      /\ UNCHANGED <<pc, handle, connected, state, vector, moved, exits, gatt, added, timers,
                     run, runner, undo, loop, shared>>
  BY DEF on_io_complete, IoComplete, CanDispatch, Busy, runVars, TypeOK
<1>2. /\ refs' = refs - 1 /\ refs > 0 /\ step' \in [Requests -> 0..4]
      /\ \A q \in Io : step'[q] = s[q]
      /\ sequence' \in BOOLEAN /\ complete' \in BOOLEAN
  <2> HIDE DEF s
  <2> QED BY <1>1, Released DEF TypeOK
<1>3. Busy' = Busy \ {r} /\ Cardinality(Busy') = Cardinality(Busy) - 1
  BY <1>1, <1>2, RequestDone
<1> HIDE DEF s
<1>4. TypeOK'
  <2>1. refs' \in Nat
    BY <1>2 DEF TypeOK
  <2> QED BY <1>1, <1>2, <2>1 DEF TypeOK
<1>5. Owner' = Owner /\ Cardinality(timers') = Cardinality(timers)
      /\ Cardinality(Busy) > 0 /\ Cardinality(Busy) \in Nat
      /\ Cardinality(timers) \in Nat /\ Owner \in {0, 1, 2}
  BY <1>1, BusyIs, TimersAre, Referenced DEF Owner, TypeOK
<1>6. /\ RefsAreRight'
      /\ complete' => pc' \in {"waiting", "joining", "gone"} /\ refs' = 0 /\ ~sequence'
  <2>1. /\ Owner' + Cardinality(Busy') + Cardinality(timers') =
             Owner + Cardinality(Busy) + Cardinality(timers) - 1
        /\ Cardinality(Busy) + Cardinality(timers) > 0
    BY <1>3, <1>5
  <2> QED BY <1>1, <1>4, <2>1, ReleaseKeeps
<1>7. Phases' /\ Vector' /\ Moves'
  BY <1>1, <1>3, <1>6 DEF Phases, Vector, Moves
<1>8. Timers' /\ Users'
  BY <1>1, <1>3 DEF Timers, Users, Held, OutOfUse, Periodic
<1> QED BY <1>4, <1>6, <1>7, <1>8

LEMMA TimerKeeps ==
  ASSUME Inv, NEW i \in Instructions, on_timer(i)
  PROVE  Inv'
<1> USE DEF Inv
<1>1. /\ runner = None /\ i \in timers
      /\ UNCHANGED <<pc, handle, connected, state, vector, moved, exits, gatt, added, run,
                     runner, undo, loop, shared>>
  BY DEF on_timer, CanDispatch, runVars
<1>2. /\ Periodic(i) /\ i \in Held /\ state # "IDLE"
      /\ Cardinality(timers) > 0 /\ Cardinality(timers) \in Nat /\ IsFiniteSet(timers)
      /\ Owner' = Owner /\ Owner \in {0, 1, 2} /\ Cardinality(Busy) \in Nat
  BY <1>1, BusyIs, TimersAre, Referenced DEF Timers, Phases, TypeOK, Owner
<1>3. CASE state = "RUNNING" /\ schedule_read(i) /\ refs' = refs + 1
           /\ UNCHANGED <<sequence, complete, live>>
  <2>1. /\ step' \in [Requests -> 0..4] /\ timers' = timers
        /\ Cardinality(Busy') = Cardinality(Busy) + 1
    BY <1>3, RequestMade
  <2>2. PICK r \in Io : r[1] = i /\ r \notin Busy /\ Busy' = Busy \cup {r}
    BY <1>3, RequestMade
  <2>3. TypeOK'
    <3>1. refs' \in Nat
      BY <1>3 DEF TypeOK
    <3> QED BY <1>1, <1>3, <2>1, <3>1 DEF TypeOK
  <2>4. /\ refs = Owner + Cardinality(Busy) + Cardinality(timers) /\ refs > 0 /\ sequence
        /\ undo # "dropped"
    BY <1>2, Referenced
  <2>5. RefsAreRight'
    <3>1. refs' = Owner' + Cardinality(Busy') + Cardinality(timers') /\ refs' > 0
      BY <1>2, <1>3, <2>1, <2>4
    <3> QED BY <1>1, <1>3, <2>4, <3>1 DEF RefsAreRight, Owner, Busy
  <2>6. Phases' /\ Vector' /\ Timers' /\ Moves'
    BY <1>1, <1>2, <1>3, <2>1, <2>2, <2>4
       DEF Phases, Vector, Timers, Held, Moves, Periodic, IsExit
  <2>7. Users'
    BY <1>1, <1>2, <1>3, <2>2 DEF Users, Held
  <2> QED BY <2>3, <2>5, <2>6, <2>7
<1>4. CASE /\ state # "RUNNING" /\ timers' = timers \ {i} /\ live' = live \ {i}
           /\ dec_ref_handle(step)
  <2>1. /\ refs' = refs - 1 /\ refs > 0 /\ step' \in [Requests -> 0..4]
        /\ \A q \in Io : step'[q] = step[q]
        /\ sequence' \in BOOLEAN /\ complete' \in BOOLEAN
        /\ step \in [Requests -> 0..4]
    BY <1>4, Released DEF TypeOK
  <2>2. Busy' = Busy /\ Cardinality(timers') = Cardinality(timers) - 1
    BY <1>1, <1>2, <1>4, <2>1, FS_RemoveElement DEF Busy
  <2>3. TypeOK'
    <3>1. refs' \in Nat
      BY <2>1 DEF TypeOK
    <3> QED BY <1>1, <1>4, <2>1, <3>1 DEF TypeOK
  <2>4. /\ RefsAreRight'
        /\ complete' => pc' \in {"waiting", "joining", "gone"} /\ refs' = 0 /\ ~sequence'
    <3>1. /\ Owner' + Cardinality(Busy') + Cardinality(timers') =
               Owner + Cardinality(Busy) + Cardinality(timers) - 1
          /\ Cardinality(Busy) + Cardinality(timers) > 0
      BY <1>2, <2>2
    <3> QED BY <1>1, <1>4, <2>1, <2>3, <3>1, ReleaseKeeps
  <2>5. Phases' /\ Vector' /\ Moves'
    BY <1>1, <1>2, <1>4, <2>2, <2>4 DEF Phases, Vector, Moves
  <2>6. Timers'
    BY <1>1, <1>4 DEF Timers, Held
  <2>7. Users'
    BY <1>1, <1>2, <1>4, <2>2 DEF Users, Held
  <2> QED BY <2>3, <2>4, <2>5, <2>6, <2>7
<1> QED BY <1>3, <1>4 DEF on_timer

LEMMA ResolveKeeps ==
  ASSUME Inv, NEW r \in Requests, resolve_callback(r)
  PROVE  Inv'
<1>1. /\ step' = [step EXCEPT ![r] = step[r] + 1] /\ step[r] \in 1..(Calls(r) - 1)
      /\ step \in [Requests -> 0..4]
  BY DEF resolve_callback, Inv, TypeOK
<1>2. step[r] > 0 /\ step[r] + 1 > 0 /\ step[r] + 1 \in 0..4
  BY <1>1 DEF Calls
<1>3. step' \in [Requests -> 0..4] /\ \A q \in Io : step'[q] > 0 <=> step[q] > 0
  BY <1>1, <1>2, IoIs
<1>4. Busy' = Busy
  BY <1>3 DEF Busy
<1>5. TypeOK'
  BY <1>3 DEF resolve_callback, handleVars, sequenceVars, instructionVars, runVars, TypeOK, Inv
<1> QED BY <1>4, <1>5, QuietKeeps DEF resolve_callback, handleVars, sequenceVars,
          instructionVars, runVars, Owner, Inv, Phases

\* A connection ends, well or not, or finds the GATT object freed.
LEMMA NoIo ==
  ASSUME TypeOK, NEW r \in {Connect, Disconnect}, step' = [step EXCEPT ![r] = 0]
  PROVE  step' \in [Requests -> 0..4] /\ Busy' = Busy
<1>1. step \in [Requests -> 0..4] /\ r \in Requests /\ r \notin Io
  BY IoIs DEF TypeOK, Requests
<1> QED BY <1>1, IoIs DEF Busy

LEMMA ConnectErrorKeeps == ASSUME Inv, on_connect_error PROVE Inv'
<1>1. step' \in [Requests -> 0..4] /\ Busy' = Busy
  BY NoIo DEF on_connect_error, Inv
<1>2. TypeOK'
  BY <1>1 DEF on_connect_error, handleVars, sequenceVars, instructionVars, runVars, TypeOK, Inv
<1> QED BY <1>1, <1>2, QuietKeeps DEF on_connect_error, handleVars, sequenceVars,
          instructionVars, runVars, Owner, Inv, Phases

LEMMA FindsNothingKeeps == ASSUME Inv, CallbackFindsNothing PROVE Inv'
<1>1. step' \in [Requests -> 0..4] /\ Busy' = Busy
  BY NoIo DEF CallbackFindsNothing, Inv
<1>2. TypeOK'
  BY <1>1 DEF CallbackFindsNothing, handleVars, sequenceVars, instructionVars, runVars,
              TypeOK, Inv
<1> QED BY <1>1, <1>2, QuietKeeps DEF CallbackFindsNothing, handleVars, sequenceVars,
          instructionVars, runVars, Owner, Inv, Phases

LEMMA ConnectKeeps == ASSUME Inv, on_connect_complete PROVE Inv'
<1> USE DEF Inv
<1>1. /\ runner = None /\ gatt' = "CONNECTED" /\ connected' = TRUE /\ BLEIO_Seq_Run
      /\ UNCHANGED <<pc, handle, complete, sequence, refs, vector, moved, exits, live, added,
                     timers, loop, shared>>
      /\ step' \in [Requests -> 0..4] /\ Busy' = Busy
  BY NoIo DEF on_connect_complete, CanDispatch, instructionVars
<1>2. CASE state # "IDLE" /\ state' = "ERROR" /\ UNCHANGED runVars
  <2>1. TypeOK'
    BY <1>1, <1>2 DEF TypeOK, runVars, States
  <2> QED BY <1>1, <1>2, <2>1, QuietKeeps DEF runVars, Owner, Phases
<1>3. CASE /\ state = "IDLE" /\ state' = "RUNNING"
           /\ run' = DOMAIN vector \ ExitsOf(vector)
           /\ runner' \in {"loop", "caller"} /\ UNCHANGED undo
  <2>1. TypeOK'
    BY <1>1, <1>3, InstructionAssumption DEF TypeOK, States
  <2>2. RefsAreRight'
    BY <1>1, <1>3 DEF RefsAreRight, Owner, Busy
  <2>3. Phases' /\ Vector' /\ Moves'
    <3>1. sequence /\ undo = "none" /\ refs > 0
      BY <1>3, Referenced DEF on_connect_complete, Phases
    <3>2. pc # "none"
      BY <3>1 DEF Phases
    <3> QED BY <1>1, <1>3, <3>1, <3>2 DEF Phases, Vector, Moves, ExitsOf
  <2>4. Timers'
    <3>1. timers' = {} /\ \A n \in run' : vector[n] \in ToSet(Configured)
      BY <1>1, <1>3 DEF Phases, Vector, ToSet
    <3> QED BY <1>1, <3>1 DEF Timers
  <2>5. Users'
    BY <1>1, <1>3 DEF Phases, Users
  <2> QED BY <2>1, <2>2, <2>3, <2>4, <2>5
<1> QED BY <1>1, <1>2, <1>3 DEF BLEIO_Seq_Run

\* One use more of a sequence that is there.
LEMMA ScheduleKeeps ==
  ASSUME Inv, NEW i \in Instructions, schedule_instruction(i), i \notin timers,
         UNCHANGED <<sequence, pc, complete, undo>>, sequence, undo # "dropped"
  PROVE  RefsAreRight' /\ ~complete /\ refs' \in Nat
<1>1. /\ refs = Owner + Cardinality(Busy) + Cardinality(timers) /\ refs > 0
  BY Referenced DEF Inv
<1>2. /\ Cardinality(Busy') + Cardinality(timers') =
           Cardinality(Busy) + Cardinality(timers) + 1
      /\ refs' = refs + 1
  BY OneMore, Scheduled DEF Inv
<1>3. /\ Cardinality(Busy) \in Nat /\ Cardinality(timers) \in Nat /\ Owner \in {0, 1, 2}
      /\ Owner' = Owner
  BY BusyIs, TimersAre, Referenced DEF Inv, TypeOK, Owner
<1>4. Cardinality(Busy') \in Nat /\ Cardinality(timers') \in Nat
  <2>1. timers' \subseteq Instructions
    BY Scheduled DEF Inv, TypeOK
  <2> QED BY <2>1, IoIs, FS_Subset, FS_CardinalityType DEF Busy
<1>5. refs' = Owner' + Cardinality(Busy') + Cardinality(timers') /\ refs' > 0
  BY <1>1, <1>2, <1>3, <1>4
<1>6. RefsAreRight'
  BY <1>5 DEF RefsAreRight, Owner, Busy
<1> QED BY <1>1, <1>2, <1>6 DEF Inv, Phases, TypeOK

LEMMA RunSchedulesKeeps == ASSUME Inv, RunSchedules PROVE Inv'
<1> USE DEF Inv
<1> DEFINE n == First(run)  i == vector[n]
<1>1. /\ n \in run /\ n \in DOMAIN vector /\ vector \in Seq(Instructions)
      /\ runner # None /\ state # "IDLE"
  <2>1. run # {} /\ run \subseteq DOMAIN vector /\ vector \in Seq(Instructions)
    BY DEF RunSchedules, TypeOK
  <2>2. run \in SUBSET Nat
    BY <2>1
  <2> QED BY <2>1, <2>2, FirstIs DEF TypeOK, Phases
<1>2. i \in Instructions /\ i \in ToSet(Configured) \ timers /\ i \in ToSet(vector)
  BY <1>1 DEF Timers, ToSet
<1>3. /\ sequence /\ undo = "none" /\ ~IsExit(i)
      /\ UNCHANGED <<pc, handle, connected, complete, sequence, vector, moved, exits, gatt,
                     live, added, undo, loop, shared>>
      /\ \/ /\ schedule_instruction(i) /\ run' = run \ {n}
            /\ UNCHANGED <<state, runner>>
         \/ /\ UNCHANGED <<refs, requestVars>>
            /\ state' = "ERROR" /\ run' = {} /\ runner' = None
  BY <1>1 DEF RunSchedules, handleVars, instructionVars, Moves
<1>4. \A m \in DOMAIN vector : vector[m] = i => m = n
  BY <1>1 DEF Vector, IsInjective
<1> HIDE DEF i, n
<1>5. CASE schedule_instruction(i) /\ run' = run \ {n} /\ UNCHANGED <<state, runner>>
  <2>1. RefsAreRight' /\ ~complete /\ refs' \in Nat
    BY <1>2, <1>3, <1>5, ScheduleKeeps
  <2>2. /\ step' \in [Requests -> 0..4]
        /\ \/ Periodic(i) /\ timers' = timers \cup {i} /\ Busy' = Busy
           \/ /\ ~Periodic(i) /\ timers' = timers
              /\ \E r \in Io : r[1] = i /\ r \notin Busy /\ Busy' = Busy \cup {r}
    BY <1>2, <1>5, Scheduled
  <2>3. TypeOK'
    BY <1>2, <1>3, <1>5, <2>1, <2>2 DEF TypeOK
  <2>4. Phases' /\ Vector' /\ Moves'
    BY <1>1, <1>3, <1>5, <2>1, <2>2 DEF Phases, Vector, Moves
  <2>5. Timers'
    BY <1>2, <1>3, <1>4, <1>5, <2>2 DEF Timers, Held, TypeOK
  <2>6. Users'
    <3>1. i \notin live
      BY <1>2, InstructionAssumption DEF TypeOK
    <3> QED BY <1>2, <1>3, <1>5, <2>2, <3>1 DEF Users, Held
  <2> QED BY <2>1, <2>3, <2>4, <2>5, <2>6
<1>6. CASE UNCHANGED <<refs, requestVars>> /\ state' = "ERROR" /\ run' = {} /\ runner' = None
  <2>1. UNCHANGED <<refs, step, timers>> /\ Busy' = Busy /\ Owner' = Owner
    BY <1>3, <1>6 DEF requestVars, Busy, Owner
  <2>2. TypeOK'
    BY <1>3, <1>6, <2>1 DEF TypeOK, States
  <2> QED BY <1>1, <1>3, <1>6, <2>1, <2>2, QuietKeeps DEF Phases
<1> QED BY <1>3, <1>5, <1>6

\* A call that fails has its reference while it lasts; when that was the last,
\* the sequence is left with none.
LEMMA RunTakesReferenceKeeps == ASSUME Inv, RunTakesReference PROVE Inv'
<1> USE DEF Inv
<1>1. /\ run # {} /\ sequence /\ undo = "none" /\ refs' = refs + 1 /\ undo' = "taken"
      /\ UNCHANGED <<pc, handle, connected, complete, sequence, state, vector, moved, exits,
                     gatt, live, added, step, timers, run, runner, loop, shared>>
  BY DEF RunTakesReference, handleVars, instructionVars, requestVars
<1>2. /\ runner # None /\ state # "IDLE" /\ refs \in Nat
      /\ Busy' = Busy /\ Cardinality(Busy) \in Nat /\ Cardinality(timers) \in Nat
      /\ Owner \in {0, 1, 2} /\ Owner' = Owner + 1
  BY <1>1, BusyIs, TimersAre, Referenced DEF TypeOK, Phases, Busy, Owner
<1>3. refs = Owner + Cardinality(Busy) + Cardinality(timers) /\ refs > 0
  BY <1>1, Referenced
<1>4. TypeOK'
  BY <1>1, <1>2 DEF TypeOK
<1>5. RefsAreRight'
  <2>1. refs' = Owner' + Cardinality(Busy') + Cardinality(timers') /\ refs' > 0
    BY <1>1, <1>2, <1>3
  <2> QED BY <1>1, <2>1 DEF RefsAreRight, Owner, Busy
<1>6. Phases' /\ Vector' /\ Timers' /\ Users' /\ Moves'
  BY <1>1, <1>2, <1>3 DEF Phases, Vector, Timers, Users, Held, Moves
<1> QED BY <1>4, <1>5, <1>6

LEMMA RunGivesBackKeeps == ASSUME Inv, RunGivesBack PROVE Inv'
<1> USE DEF Inv
<1>1. /\ undo = "taken" /\ refs' = refs - 1
      /\ undo' = IF refs = 1 THEN "dropped" ELSE "none"
      /\ state' = "ERROR" /\ run' = {} /\ runner' = None
      /\ UNCHANGED <<pc, handle, connected, complete, sequence, vector, moved, exits, gatt,
                     live, added, step, timers, loop, shared>>
  BY DEF RunGivesBack, handleVars, instructionVars, requestVars
<1>2. /\ runner # None /\ state # "IDLE" /\ refs \in Nat
      /\ Busy' = Busy /\ Cardinality(Busy) \in Nat /\ Cardinality(timers) \in Nat
      /\ Owner \in {1, 2} /\ Owner' = Owner - 1
      /\ pc \in {"terminating", "up", "destroying"} => Owner = 2
  BY <1>1, BusyIs, TimersAre DEF TypeOK, Phases, Busy, Owner
<1>3. refs = Owner + Cardinality(Busy) + Cardinality(timers) /\ refs > 0 /\ sequence
  BY <1>1, <1>2, Referenced
<1>4. TypeOK'
  <2>1. refs' \in Nat /\ undo' \in {"none", "dropped"}
    BY <1>1, <1>2, <1>3
  <2> QED BY <1>1, <1>2, <2>1 DEF TypeOK, States
<1>5. pc # "none" /\ ~complete
  BY <1>3 DEF Phases, TypeOK
<1>6. RefsAreRight'
  <2>1. refs' = Owner' + Cardinality(Busy') + Cardinality(timers')
    BY <1>1, <1>2, <1>3
  <2>2. refs' > 0 \/ undo' = "dropped"
    BY <1>1, <1>2, <1>3
  <2>3. undo' = "dropped" => refs' = 0 /\ pc' \notin {"none", "terminating", "up", "destroying"}
    BY <1>1, <1>2, <1>3, <1>5
  <2> QED BY <1>1, <1>3, <2>1, <2>2, <2>3 DEF RefsAreRight, Owner, Busy
<1>7. Phases' /\ Vector' /\ Timers' /\ Users' /\ Moves'
  BY <1>1, <1>2, <1>5 DEF Phases, Vector, Timers, Users, Held, Moves
<1> QED BY <1>4, <1>6, <1>7

LEMMA RunReturnsKeeps == ASSUME Inv, RunReturns PROVE Inv'
<1>1. /\ runner # None /\ state' \in {"RUNNING", "ERROR"} /\ run = {} /\ run' = {}
      /\ runner' = None
      /\ UNCHANGED <<pc, handleVars, sequence, refs, vector, moved, exits, gatt,
                     instructionVars, requestVars, undo, loop, shared>>
  BY DEF RunReturns, RunResults
<1>2. TypeOK' /\ state # "IDLE"
  BY <1>1 DEF Inv, TypeOK, States, Phases, handleVars, instructionVars, requestVars
<1> QED BY <1>1, <1>2, QuietKeeps DEF Busy, Owner, handleVars, instructionVars, requestVars,
          Inv, Phases

LEMMA RunFindsNothingKeeps == ASSUME Inv, RunFindsNothing PROVE Inv'
<1>1. /\ runner # None /\ ~sequence /\ run' = {} /\ runner' = None
      /\ UNCHANGED <<pc, handleVars, sequenceVars, exits, gatt, instructionVars,
                     requestVars, undo, loop, shared>>
  BY DEF RunFindsNothing
<1>2. TypeOK' /\ undo # "taken"
  <2>1. undo # "taken"
    BY <1>1, BusyIs, TimersAre, Referenced DEF Inv, TypeOK
  <2> QED BY <1>1, <2>1 DEF Inv, TypeOK, handleVars, instructionVars, requestVars, sequenceVars
<1> QED BY <1>1, <1>2, QuietKeeps DEF Busy, Owner, handleVars, instructionVars, requestVars,
          sequenceVars, Inv, Phases

LEMMA EventThreadKeeps == ASSUME Inv, EventThread PROVE Inv'
<1>1. /\ loop' \in {"running", "ended"}
      /\ UNCHANGED <<pc, handleVars, sequenceVars, exits, gatt, instructionVars,
                     requestVars, runVars, shared>>
  BY DEF EventThread
<1>2. TypeOK'
  BY <1>1 DEF Inv, TypeOK, handleVars, instructionVars, requestVars, sequenceVars, runVars
<1> QED BY <1>1, <1>2, QuietKeeps DEF Busy, Owner, handleVars, instructionVars, requestVars,
          sequenceVars, runVars, Inv, Phases

-----------------------------------------------------------------------------
(* The module *)

LEMMA CreateKeeps == ASSUME Inv, BLE_Create PROVE Inv'
<1> USE DEF Inv
<1>1. /\ pc = "none" /\ handle' = TRUE /\ sequence' = TRUE /\ refs' = 1 /\ loop' = "starting"
      /\ pc' \in {"up", "terminating"}
      /\ UNCHANGED <<connected, complete, state, vector, moved, exits, live, added, timers,
                     run, runner, undo, shared>>
  BY DEF BLE_Create, BLEIO_Seq_Create, init_glib_loop, instructionVars, runVars
<1>2. /\ gatt' \in {"DISCONNECTED", "CONNECTING", "CONNECTED", "ERROR"}
      /\ step' \in [Requests -> 0..4] /\ Busy' = Busy
  BY IoIs DEF BLE_Create, BLEIO_gatt_connect, GIO_Async_Seq_Run_Async, TypeOK, Requests, Busy
<1>3. /\ state = "IDLE" /\ undo = "none" /\ Busy' = {} /\ timers' = {} /\ ~complete
      /\ exits = {} /\ Cardinality(Busy') = 0 /\ Cardinality(timers') = 0
  BY <1>1, <1>2, FS_EmptySet DEF Phases
<1>4. TypeOK'
  BY <1>1, <1>2 DEF TypeOK
<1>5. RefsAreRight'
  <2>1. Owner' = 1
    BY <1>1, <1>3 DEF Owner
  <2> QED BY <1>1, <1>3, <2>1 DEF RefsAreRight, Owner, Busy
<1>6. Phases' /\ Vector' /\ Timers' /\ Users' /\ Moves'
  BY <1>1, <1>2, <1>3 DEF Phases, Vector, Timers, Users, Held, Moves
<1> QED BY <1>4, <1>5, <1>6

LEMMA CreateFailsKeeps == ASSUME Inv, BLE_CreateFails PROVE Inv'
<1>1. /\ pc = "none" /\ pc' = "gone"
      /\ UNCHANGED <<handleVars, sequenceVars, exits, gatt, instructionVars,
                     requestVars, runVars, loop, shared>>
  BY DEF BLE_CreateFails
<1>2. TypeOK'
  BY <1>1 DEF Inv, TypeOK, handleVars, instructionVars, requestVars, sequenceVars, runVars
<1> QED BY <1>1, <1>2, QuietKeeps DEF Busy, Owner, handleVars, instructionVars, requestVars,
          sequenceVars, runVars, Inv, Phases

LEMMA TerminateKeeps == ASSUME Inv, terminate_event_dispatcher PROVE Inv'
<1> USE DEF Inv
<1>1. /\ pc = "terminating" /\ pc' = "gone" /\ dec_ref_handle(step)
      /\ step \in [Requests -> 0..4] /\ handle' = FALSE /\ state' = "SHUTTING_DOWN"
      /\ loop' \in {"none", "starting", "running", "quit", "ended"}
      /\ UNCHANGED <<connected, vector, moved, exits, gatt, live, added, timers, run, runner,
                     undo, shared>>
  BY DEF terminate_event_dispatcher, instructionVars, runVars, Quit, TypeOK
<1>2. /\ refs' = refs - 1 /\ refs > 0 /\ step' \in [Requests -> 0..4] /\ Busy' = Busy
      /\ sequence' \in BOOLEAN /\ complete' \in BOOLEAN
  BY <1>1, Released DEF TypeOK, Busy
<1>3. TypeOK'
  <2>1. refs' \in Nat
    BY <1>2 DEF TypeOK
  <2> QED BY <1>1, <1>2, <2>1 DEF TypeOK, States
<1>4. /\ RefsAreRight'
      /\ complete' => pc' \in {"waiting", "joining", "gone"} /\ refs' = 0 /\ ~sequence'
  <2>1. /\ Owner \in {1, 2} /\ Owner' = Owner - 1 /\ Cardinality(Busy) \in Nat
        /\ Cardinality(timers) \in Nat
        /\ Cardinality(Busy') = Cardinality(Busy) /\ Cardinality(timers') = Cardinality(timers)
    BY <1>1, <1>2, BusyIs, TimersAre DEF Owner, TypeOK
  <2>2. Owner' + Cardinality(Busy') + Cardinality(timers') =
          Owner + Cardinality(Busy) + Cardinality(timers) - 1
    BY <2>1
  <2> QED BY <1>1, <1>3, <2>2, ReleaseKeeps
<1>5. Phases' /\ Vector' /\ Timers' /\ Users' /\ Moves'
  BY <1>1, <1>2, <1>4 DEF Phases, Vector, Timers, Users, Held, Moves
<1> QED BY <1>3, <1>4, <1>5

LEMMA ReceiveKeeps == ASSUME Inv, BLE_Receive PROVE Inv'
<1> USE DEF Inv
<1>1. PICK i \in Added \ added : BLEIO_Seq_AddInstruction(i)
  BY DEF BLE_Receive
<1>2. /\ pc = "up" /\ state = "RUNNING" /\ added' = added \cup {i} /\ i \in Instructions
      /\ UNCHANGED <<pc, handle, connected, complete, sequence, state, exits, gatt, run,
                     runner, undo, loop, shared>>
      /\ exits = {} /\ ~complete
  BY <1>1 DEF BLE_Receive, BLEIO_Seq_AddInstruction, handleVars, runVars, Instructions, Phases
<1>3. /\ i \notin ToSet(Configured) /\ i \notin Held /\ i \notin timers
      /\ \A m \in DOMAIN vector : vector[m] # i
  BY <1>1, InstructionAssumption DEF Vector, Timers, Held, TypeOK, ToSet
<1>4. sequence /\ refs \in Nat /\ undo # "dropped"
  <2>1. refs > 0
    BY <1>2, BusyIs, TimersAre, Referenced DEF TypeOK
  <2> QED BY <2>1, Referenced DEF TypeOK
<1>5. CASE NotScheduled(i) /\ UNCHANGED <<vector, moved, live>>
  <2>1. UNCHANGED <<refs, step, timers>> /\ Busy' = Busy /\ Owner' = Owner
    BY <1>2, <1>5 DEF NotScheduled, requestVars, Busy, Owner
  <2>2. TypeOK'
    BY <1>2, <1>5, <2>1 DEF TypeOK
  <2>3. RefsAreRight' /\ Phases' /\ Vector' /\ Timers' /\ Users' /\ Moves'
    BY <1>2, <1>5, <2>1
       DEF RefsAreRight, Phases, Vector, Timers, Users, Held, Owner, Busy, Moves
  <2> QED BY <2>2, <2>3
<1>6. CASE IsExit(i) /\ VECTOR_push_back(i) /\ UNCHANGED <<live, refs, requestVars>>
  <2>1. UNCHANGED <<refs, step, timers>> /\ Busy' = Busy /\ Owner' = Owner
    BY <1>2, <1>6 DEF requestVars, Busy, Owner
  <2> vector' = Append(vector, i)
    BY <1>6 DEF VECTOR_push_back
  <2>2. /\ vector \in Seq(Instructions) /\ vector' \in Seq(Instructions)
        /\ DOMAIN vector \subseteq DOMAIN vector'
        /\ DOMAIN vector' = DOMAIN vector \cup {Len(vector) + 1}
        /\ vector'[Len(vector) + 1] = i
        /\ \A m \in DOMAIN vector : vector'[m] = vector[m]
        /\ Len(vector) + 1 \notin DOMAIN vector
    BY <1>2, <1>6 DEF TypeOK
  <2>3. ToSet(vector') = ToSet(vector) \cup {i}
    BY <2>2 DEF ToSet
  <2>8. /\ moved' \subseteq moved \cup PointedAt \cup BeingScheduled
        /\ \A m \in PointedAt \cup BeingScheduled : m \in ToSet(vector) /\ ~IsExit(m)
    <3>1. moved' \subseteq moved \cup PointedAt \cup BeingScheduled
      BY <1>6 DEF VECTOR_push_back
    <3>2. ASSUME NEW m \in BeingScheduled
          PROVE  m \in ToSet(vector) /\ ~IsExit(m)
      <4>1. run # {} /\ m = vector[First(run)] /\ run \subseteq DOMAIN vector
        BY DEF BeingScheduled, TypeOK
      <4>2. run \in SUBSET Nat
        BY <2>2, <4>1
      <4>3. First(run) \in run
        BY <4>1, <4>2, FirstIs
      <4> QED BY <4>1, <4>3 DEF Moves, ToSet
    <3>3. ASSUME NEW m \in PointedAt
          PROVE  m \in ToSet(vector) /\ ~IsExit(m)
      <4>1. CASE m \in timers
        BY <4>1 DEF PointedAt, Timers, Periodic, IsExit
      <4>2. CASE Pending(m) # {}
        <5>1. m \in ToSet(vector) /\ m \in Instructions
          BY <2>2 DEF PointedAt, ToSet
        <5>2. PICK q \in {m} \X (1..MaxReads) : step[q] > 0
          BY <4>2 DEF Pending
        <5>3. q \in Busy /\ q[1] = m
          BY <5>1, <5>2 DEF Busy, Io
        <5> QED BY <1>2, <5>1, <5>3 DEF Moves
      <4> QED BY <4>1, <4>2 DEF PointedAt
    <3> QED BY <3>1, <3>2, <3>3
  <2>4. TypeOK'
    BY <1>2, <1>6, <2>1, <2>2, <2>3, <2>8 DEF TypeOK
  <2>9. Moves'
    <3>1. /\ \A j \in moved' : ~IsExit(j)
          /\ \E j \in added' : IsExit(j)
      BY <1>2, <1>6, <2>8 DEF Moves
    <3>2. \A m \in run : m \in DOMAIN vector
      BY DEF TypeOK
    <3> QED BY <1>2, <2>1, <2>2, <3>1, <3>2 DEF Moves
  <2>5. RefsAreRight' /\ Phases'
    BY <1>2, <1>6, <2>1 DEF RefsAreRight, Phases, Owner, Busy
  <2>6. Vector'
    BY <1>2, <1>3, <1>6, <2>2, <2>3 DEF Vector, IsInjective, ExitsOf
  <2>7. Timers' /\ Users'
    BY <1>2, <1>6, <2>1, <2>2, <2>3 DEF Timers, Users, Held, TypeOK
  <2> QED BY <2>4, <2>5, <2>6, <2>7, <2>9
<1>7. CASE /\ ~IsExit(i) /\ schedule_instruction(i)
           /\ live' = live \cup {i} /\ UNCHANGED <<vector, moved>>
  <2>1. RefsAreRight' /\ refs' \in Nat
    BY <1>2, <1>3, <1>4, <1>7, ScheduleKeeps
  <2>2. /\ step' \in [Requests -> 0..4]
        /\ \/ Periodic(i) /\ timers' = timers \cup {i} /\ Busy' = Busy
           \/ /\ ~Periodic(i) /\ timers' = timers
              /\ \E r \in Io : r[1] = i /\ r \notin Busy /\ Busy' = Busy \cup {r}
    BY <1>2, <1>7, Scheduled
  <2>3. TypeOK'
    BY <1>1, <1>2, <1>7, <2>1, <2>2 DEF TypeOK
  <2>4. Phases' /\ Vector' /\ Moves'
    BY <1>2, <1>7, <2>1, <2>2 DEF Phases, Vector, Moves
  <2>5. Timers'
    BY <1>2, <1>3, <1>7, <2>2 DEF Timers, Held, TypeOK
  <2>6. Users'
    BY <1>2, <1>3, <1>7, <2>2 DEF Users, Held
  <2> QED BY <2>1, <2>3, <2>4, <2>5, <2>6
<1> QED BY <1>1, <1>5, <1>6, <1>7 DEF BLEIO_Seq_AddInstruction, KeepInstruction

LEMMA DestroyKeeps == ASSUME Inv, BLE_Destroy PROVE Inv'
<1> USE DEF Inv
<1>1. /\ pc = "up" /\ pc' = "destroying" /\ state' = "SHUTTING_DOWN"
      /\ exits' = ExitsOf(vector)
      /\ UNCHANGED <<handle, connected, complete, sequence, refs, vector, moved, gatt, live,
                     added, step, timers, run, runner, undo, loop, shared>>
  BY DEF BLE_Destroy, handleVars, instructionVars, requestVars, runVars
<1>2. TypeOK'
  BY <1>1 DEF TypeOK, States, Destroying, ExitsOf
<1>3. RefsAreRight' /\ Phases' /\ Vector' /\ Timers' /\ Users' /\ Moves'
  BY <1>1 DEF RefsAreRight, Phases, Vector, Timers, Users, Held, Busy, Moves
<1> QED BY <1>2, <1>3

LEMMA DestroySchedulesKeeps == ASSUME Inv, DestroySchedules PROVE Inv'
<1> USE DEF Inv
<1> DEFINE n == First(exits)  i == vector[n]
<1>1. n \in exits /\ n \in DOMAIN vector /\ vector \in Seq(Instructions) /\ pc = "destroying"
  <2>1. exits # {} /\ exits \subseteq DOMAIN vector /\ vector \in Seq(Instructions)
    BY DEF DestroySchedules, TypeOK
  <2>2. exits \in SUBSET Nat
    BY <2>1
  <2> QED BY <2>1, <2>2, FirstIs DEF DestroySchedules
<1>2. /\ i \in Instructions /\ i \in ToSet(vector) /\ IsExit(i) /\ ~Periodic(i)
      /\ i \notin timers /\ i \notin live
  BY <1>1 DEF Vector, ExitsOf, Timers, IsExit, Periodic, ToSet
<1>3. /\ exits' = exits \ {n}
      /\ schedule_instruction(i) \/ NotScheduled(i)
      /\ UNCHANGED <<pc, handle, connected, complete, sequence, state, vector, moved, gatt,
                     live, added, run, runner, undo, loop, shared>>
  BY DEF DestroySchedules, handleVars, instructionVars, runVars
<1> HIDE DEF i, n
<1>5. CASE schedule_instruction(i)
  <2>1. sequence /\ undo # "dropped"
    <3>1. refs > 0
      BY <1>1, BusyIs, TimersAre, Referenced DEF TypeOK
    <3> QED BY <3>1, Referenced
  <2>2. RefsAreRight' /\ ~complete /\ refs' \in Nat
    BY <1>2, <1>3, <1>5, <2>1, ScheduleKeeps
  <2>3. /\ step' \in [Requests -> 0..4] /\ timers' = timers
        /\ \E r \in Io : r[1] = i /\ r \notin Busy /\ Busy' = Busy \cup {r}
    BY <1>2, <1>5, Scheduled
  <2>4. TypeOK'
    BY <1>2, <1>3, <2>2, <2>3 DEF TypeOK
  <2>5. Phases' /\ Vector' /\ Moves'
    BY <1>1, <1>3, <2>2, <2>3 DEF Phases, Vector, Moves
  <2>6. Timers'
    BY <1>3, <2>3 DEF Timers, Held
  <2>7. Users'
    BY <1>2, <1>3, <2>3 DEF Users, Held
  <2> QED BY <2>2, <2>4, <2>5, <2>6, <2>7
<1>6. CASE NotScheduled(i)
  <2>1. UNCHANGED <<refs, step, timers>> /\ Busy' = Busy /\ Owner' = Owner
    BY <1>3, <1>6 DEF NotScheduled, requestVars, Busy, Owner
  <2>2. TypeOK'
    BY <1>3, <2>1 DEF TypeOK
  <2> QED BY <1>1, <1>3, <2>1, <2>2, QuietKeeps DEF Phases
<1> QED BY <1>3, <1>5, <1>6

LEMMA DestroyReleasesKeeps == ASSUME Inv, DestroyReleases PROVE Inv'
<1> USE DEF Inv
<1>1. /\ pc = "destroying" /\ exits = {} /\ pc' = "waiting" /\ dec_ref_handle(step)
      /\ step \in [Requests -> 0..4]
      /\ UNCHANGED <<handle, connected, state, vector, moved, exits, gatt, live, added, timers,
                     run, runner, undo, loop, shared>>
  BY DEF DestroyReleases, instructionVars, runVars, TypeOK
<1>2. /\ refs' = refs - 1 /\ refs > 0 /\ step' \in [Requests -> 0..4] /\ Busy' = Busy
      /\ sequence' \in BOOLEAN /\ complete' \in BOOLEAN
  BY <1>1, Released DEF TypeOK, Busy
<1>3. TypeOK'
  <2>1. refs' \in Nat
    BY <1>2 DEF TypeOK
  <2> QED BY <1>1, <1>2, <2>1 DEF TypeOK, Destroying
<1>4. /\ RefsAreRight'
      /\ complete' => pc' \in {"waiting", "joining", "gone"} /\ refs' = 0 /\ ~sequence'
  <2>1. /\ Owner \in {1, 2} /\ Owner' = Owner - 1 /\ Cardinality(Busy) \in Nat
        /\ Cardinality(timers) \in Nat
        /\ Cardinality(Busy') = Cardinality(Busy) /\ Cardinality(timers') = Cardinality(timers)
    BY <1>1, <1>2, BusyIs, TimersAre DEF Owner, TypeOK
  <2>2. Owner' + Cardinality(Busy') + Cardinality(timers') =
          Owner + Cardinality(Busy) + Cardinality(timers) - 1
    BY <2>1
  <2> QED BY <1>1, <1>3, <2>2, ReleaseKeeps
<1>5. Phases' /\ Vector' /\ Timers' /\ Users' /\ Moves'
  BY <1>1, <1>2, <1>4 DEF Phases, Vector, Timers, Users, Held, Moves
<1> QED BY <1>3, <1>4, <1>5

\* BLE_Destroy has waited, or has not waited longer.
LEMMA DestroyEndsKeeps ==
  ASSUME Inv, StopWaiting \/ GiveUp \/ DestroyReturns
  PROVE  Inv'
<1>1. /\ pc \in {"waiting", "joining"} /\ pc' \in {"joining", "gone"}
      /\ loop' \in {"none", "starting", "running", "quit", "ended"} /\ handle' \in BOOLEAN
      /\ UNCHANGED <<connected, complete, sequenceVars, exits, gatt, instructionVars,
                     requestVars, runVars, shared>>
  BY DEF StopWaiting, GiveUp, DestroyReturns, Inv, TypeOK, Quit, handleVars
<1>2. TypeOK'
  BY <1>1 DEF Inv, TypeOK, instructionVars, requestVars, sequenceVars, runVars, Destroying
<1> QED BY <1>1, <1>2, QuietKeeps DEF Busy, Owner, instructionVars, requestVars,
          sequenceVars, runVars, Inv, Phases

-----------------------------------------------------------------------------
(* The theorems *)

LEMMA StepInv == Inv /\ [Next]_vars => Inv'
<1> SUFFICES ASSUME Inv, [Next]_vars PROVE Inv'
  OBVIOUS
<1>1. CASE UNCHANGED vars
  BY <1>1 DEF vars, handleVars, sequenceVars, instructionVars, requestVars, runVars, Inv,
              TypeOK, RefsAreRight, Phases, Vector, Timers, Users, Busy, Held, Moves
<1>2. CASE BLE_Create \/ BLE_CreateFails \/ terminate_event_dispatcher
           \/ BLE_Receive \/ BLE_Destroy \/ DestroyNext \/ GiveUp
  BY <1>2, CreateKeeps, CreateFailsKeeps, TerminateKeeps, ReceiveKeeps, DestroyKeeps,
     DestroySchedulesKeeps, DestroyReleasesKeeps, DestroyEndsKeeps DEF DestroyNext
<1>3. CASE EventThread \/ CallbackNext
  BY <1>3, EventThreadKeeps, TimerKeeps, ResolveKeeps, IoCompleteKeeps, ConnectKeeps,
     ConnectErrorKeeps, FindsNothingKeeps, RunSchedulesKeeps, RunTakesReferenceKeeps,
     RunGivesBackKeeps, RunReturnsKeeps, RunFindsNothingKeeps DEF CallbackNext, RunNext
<1> QED BY <1>1, <1>2, <1>3 DEF Next

LEMMA InvAlways == Spec => []Inv
<1> QED BY InitInv, StepInv, PTL DEF Spec

\* For any instructions, failures and order of callbacks: the reference count of a
\* sequence is that of its owner, a request that fails, requests and timers; it is
\* freed with the last, unless BLEIO_Seq_Run drops that when the owner is gone;
\* and a request finds the instruction it was made for, unless an added exit write
\* has moved it or its timer has freed it.
THEOREM SequenceCorrect == Spec => []BleInv
<1>1. Inv => BleInv
  <2> SUFFICES ASSUME Inv PROVE BleInv
    OBVIOUS
  <2>1. InstructionsAreHeld
    BY DEF Inv, Users, Held, Busy, InstructionsAreHeld, Periodic, Moves
  <2> QED BY <2>1 DEF BleInv, Inv
<1> QED BY <1>1, InvAlways, PTL

\* BLE_Destroy is told that the sequence is gone when no exit write is left to
\* schedule or under way, and no timer or request is left.
THEOREM DestroyIsToldLast == Spec => []CompletesLast
<1>1. Inv => CompletesLast
  <2> SUFFICES ASSUME Inv, complete
               PROVE  /\ exits = {} /\ timers = {} /\ ~sequence
                      /\ \A r \in Io : step[r] = 0
                      /\ \A i \in ToSet(vector) : IsExit(i) => Pending(i) = {}
    BY DEF CompletesLast
  <2>1. refs = 0 /\ exits = {} /\ ~sequence
    BY DEF Inv, Phases
  <2>2. Cardinality(Busy) = 0 /\ Cardinality(timers) = 0 /\ ~sequence
    BY <2>1, Referenced, BusyIs, TimersAre DEF Inv, TypeOK
  <2>3. Busy = {} /\ timers = {}
    <3>1. IsFiniteSet(Busy) /\ IsFiniteSet(timers)
      BY BusyIs, TimersAre DEF Inv, TypeOK
    <3> QED BY <2>2, <3>1, FS_EmptySet
  <2>4. \A r \in Io : step[r] = 0
    <3>1. \A r \in Io : ~(step[r] > 0) /\ step[r] \in 0..4
      BY <2>3, IoIs DEF Busy, Inv, TypeOK
    <3> QED BY <3>1
  <2>5. \A i \in ToSet(vector) : Pending(i) = {}
    <3>1. ToSet(vector) \subseteq Instructions
      BY DEF Inv, TypeOK, ToSet
    <3> QED BY <2>4, <3>1 DEF Pending, Io
  <2> QED BY <2>1, <2>2, <2>3, <2>4, <2>5
<1> QED BY <1>1, InvAlways, PTL

-----------------------------------------------------------------------------
(***************************************************************************)
(* From the devices to the cloud                                           *)
(***************************************************************************)


-----------------------------------------------------------------------------
(* The logger's file *)

\* The few short sequences the logger writes.
LEMMA ShortSequences ==
  /\ Brackets \in Seq(Tokens) /\ Len(Brackets) = 2 /\ Brackets[1] = "open" /\ Brackets[2] = "close"
  /\ Absolute \in Seq(Tokens) /\ Len(Absolute) = 3
  /\ Absolute[1] = "begin" /\ Absolute[2] = "end" /\ Absolute[3] = "close"
  /\ Further \in Seq(Tokens) /\ Len(Further) = 4
  /\ Further[1] = "comma" /\ Further[2] = "begin" /\ Further[3] = "end" /\ Further[4] = "close"
  BY DEF Brackets, Absolute, Further, Tokens

\* A part of the text that has its first characters.
LEMMA PrefixIs ==
  ASSUME NEW s \in Seq(Tokens), NEW p \in Prefixes(s)
  PROVE  p \in Seq(Tokens) /\ Len(p) <= Len(s) /\ \A i \in 1..Len(p) : p[i] = s[i]
<1>1. Len(s) \in Nat /\ \A i \in 1..Len(s) : s[i] \in Tokens
  BY LenProperties, ElementOfSeq
<1>2. PICK n \in 0..Len(s) : p = SubSeq(s, 1, n)
  BY DEF Prefixes
<1>3. n \in Int /\ n - 1 + 1 = n /\ \A i \in 1..n : 1 + i - 1 = i
  BY <1>1, <1>2
<1>4. /\ SubSeq(s, 1, n) \in Seq(Tokens)
      /\ Len(SubSeq(s, 1, n)) = IF 1 <= n THEN n - 1 + 1 ELSE 0
      /\ \A i \in 1..(n - 1 + 1) : SubSeq(s, 1, n)[i] = s[1 + i - 1]
  <2>1. \A i \in 1..n : s[i] \in Tokens
    BY <1>1, <1>2
  <2> QED BY <1>3, <2>1, SubSeqProperties
<1> DEFINE t == SubSeq(s, 1, n)
<1> HIDE DEF t
<1>5. /\ t \in Seq(Tokens) /\ Len(t) = IF 1 <= n THEN n ELSE 0
      /\ \A i \in 1..n : t[i] = s[i]
  BY <1>3, <1>4 DEF t
<1> QED BY <1>1, <1>2, <1>3, <1>5 DEF t

\* Parts of texts, and what is left of a text that is written out in part.
LEMMA PartOfPart ==
  ASSUME NEW t \in Seq(Tokens), NEW b, IsPart(b, t), NEW p \in Prefixes(b)
  PROVE  IsPart(p, t) /\ (b = <<>> => p = <<>>)
<1>1. b \in Seq(Tokens) /\ Len(b) <= Len(t) /\ \A i \in 1..Len(b) : b[i] = t[i]
  BY DEF IsPart
<1>2. p \in Seq(Tokens) /\ Len(p) <= Len(b) /\ \A i \in 1..Len(p) : p[i] = b[i]
  BY <1>1, PrefixIs
<1>3. Len(p) \in Nat /\ Len(b) \in Nat /\ Len(t) \in Nat
  BY <1>1, <1>2, LenProperties
<1>4. b = <<>> => Len(b) = 0
  BY <1>1, EmptySeq
<1>5. Len(p) = 0 => p = <<>>
  BY <1>2, EmptySeq
<1> QED BY <1>1, <1>2, <1>3, <1>4, <1>5 DEF IsPart

LEMMA WholeIsPart ==
  ASSUME NEW t \in Seq(Tokens) PROVE IsPart(t, t) /\ IsPart(<<>>, t)
<1>1. Len(t) \in Nat /\ <<>> \in Seq(Tokens) /\ Len(<<>>) = 0
  BY LenProperties, EmptySeq
<1> QED BY <1>1 DEF IsPart

\* Every text that is given to fprintf goes on as the array does, and only its
\* last character may be the end of a file.
LEMMA TextFollows ==
  ASSUME NEW t \in {Absolute, Further}, NEW p, IsPart(p, t), p # <<>>
  PROVE  /\ p \in Seq(Tokens) /\ Len(p) \in Nat /\ Len(p) > 0 /\ p[1] = t[1]
         /\ \A i \in 1..(Len(p) - 1) : <<p[i], p[i + 1]>> \in Follows
         /\ p[Len(p)] = "close" => <<p[Len(p)], "eof">> \in Follows
<1>1. p \in Seq(Tokens) /\ Len(p) <= Len(t) /\ \A i \in 1..Len(p) : p[i] = t[i]
  BY DEF IsPart
<1>2. Len(p) \in Nat /\ Len(p) > 0
  BY <1>1, EmptySeq, LenProperties
<1>3. \A i \in 1..(Len(t) - 1) : <<t[i], t[i + 1]>> \in Follows
  <2>1. CASE t = Absolute
    <3>1. /\ Len(t) = 3 /\ t[1] = "begin" /\ t[1 + 1] = "end" /\ t[2] = "end" /\ t[2 + 1] = "close"
      BY <2>1, ShortSequences
    <3>2. \A i \in 1..(3 - 1) : i = 1 \/ i = 2
      OBVIOUS
    <3> QED BY <3>1, <3>2 DEF Follows
  <2>2. CASE t = Further
    <3>1. /\ Len(t) = 4 /\ t[1] = "comma" /\ t[1 + 1] = "begin" /\ t[2] = "begin" /\ t[2 + 1] = "end"
          /\ t[3] = "end" /\ t[3 + 1] = "close"
      BY <2>2, ShortSequences
    <3>2. \A i \in 1..(4 - 1) : i = 1 \/ i = 2 \/ i = 3
      OBVIOUS
    <3> QED BY <3>1, <3>2 DEF Follows
  <2> QED BY <2>1, <2>2
<1>4. Len(t) \in Nat
  BY ShortSequences
<1>5. ASSUME NEW i \in 1..(Len(p) - 1) PROVE <<p[i], p[i + 1]>> \in Follows
  <2>1. i \in 1..Len(p) /\ i + 1 \in 1..Len(p) /\ i \in 1..(Len(t) - 1)
    BY <1>1, <1>2, <1>4
  <2> QED BY <1>1, <1>3, <2>1
<1>6. p[1] = t[1]
  BY <1>1, <1>2
<1> QED BY <1>1, <1>2, <1>5, <1>6 DEF Follows

\* What is left of a file when its last character is written over, or not.
LEMMA LeftOf ==
  ASSUME NEW s \in Seq(Tokens), s # <<>>, NEW u \in Overwritten(s)
  PROVE  /\ u \in Seq(Tokens) /\ Len(s) \in Nat /\ Len(s) > 0
         /\ Len(u) = Len(s) - 1 \/ (Len(u) = Len(s) /\ s[Len(s)] = "begin")
         /\ \A i \in 1..Len(u) : u[i] = s[i]
<1>1. Len(s) \in Nat /\ Len(s) > 0 /\ \A i \in 1..Len(s) : s[i] \in Tokens
  BY EmptySeq, LenProperties, ElementOfSeq
<1>2. CASE u = Front(s)
  <2> DEFINE n == Len(s) - 1
  <2>1. n \in Int /\ n >= 0 /\ n - 1 + 1 = n /\ \A i \in 1..n : 1 + i - 1 = i
    BY <1>1
  <2>2. /\ SubSeq(s, 1, n) \in Seq(Tokens)
        /\ Len(SubSeq(s, 1, n)) = IF 1 <= n THEN n - 1 + 1 ELSE 0
        /\ \A i \in 1..(n - 1 + 1) : SubSeq(s, 1, n)[i] = s[1 + i - 1]
    <3>1. \A i \in 1..n : s[i] \in Tokens
      BY <1>1
    <3>2. n \in Int
      BY <2>1
    <3> HIDE DEF n
    <3> QED BY <3>1, <3>2, SubSeqProperties
  <2>3. u = SubSeq(s, 1, n)
    BY <1>2 DEF Front
  <2> HIDE DEF n
  <2>4. u \in Seq(Tokens) /\ Len(u) = n /\ \A i \in 1..n : u[i] = s[i]
    BY <2>1, <2>2, <2>3
  <2> QED BY <1>1, <2>4 DEF n
<1>3. CASE u = s /\ Last(s) = "begin"
  BY <1>1, <1>3 DEF Last
<1> QED BY <1>2, <1>3 DEF Overwritten

\* A file and a text that is added to it.
LEMMA Joined ==
  ASSUME NEW u \in Seq(Tokens), NEW p \in Seq(Tokens)
  PROVE  /\ u \o p \in Seq(Tokens) /\ Len(u \o p) = Len(u) + Len(p)
         /\ Len(u) \in Nat /\ Len(p) \in Nat
         /\ \A i \in 1..Len(u) : (u \o p)[i] = u[i]
         /\ \A i \in 1..Len(p) : (u \o p)[Len(u) + i] = p[i]
<1>1. Len(u) \in Nat /\ Len(p) \in Nat
  BY LenProperties
<1>2. /\ u \o p \in Seq(Tokens) /\ Len(u \o p) = Len(u) + Len(p)
      /\ \A i \in 1..(Len(u) + Len(p)) : (u \o p)[i] = IF i <= Len(u) THEN u[i] ELSE p[i - Len(u)]
  BY ConcatProperties
<1>3. ASSUME NEW i \in 1..Len(p) PROVE (u \o p)[Len(u) + i] = p[i]
  <2>1. /\ Len(u) + i \in 1..(Len(u) + Len(p)) /\ ~(Len(u) + i <= Len(u))
        /\ Len(u) + i - Len(u) = i
    BY <1>1
  <2> QED BY <1>2, <2>1
<1>4. ASSUME NEW i \in 1..Len(u) PROVE (u \o p)[i] = u[i]
  <2>1. i \in 1..(Len(u) + Len(p)) /\ i <= Len(u)
    BY <1>1
  <2> QED BY <1>2, <2>1
<1> QED BY <1>1, <1>2, <1>3, <1>4

\* However much of a text gets into the file, the file breaks off at scars only.
LEMMA WrittenOutKeeps ==
  ASSUME NEW f, IsFile(f), f.tokens # <<>>, NEW t \in {Absolute, Further},
         t = Absolute => f = [NewFile EXCEPT !.tokens = Brackets],
         NEW p, IsPart(p, t), p # <<>>, NEW g \in WrittenOut(f, p)
  PROVE  IsFile(g) /\ g.tokens # <<>>
<1> DEFINE s == f.tokens
           n == Len(s)
<1>1. /\ s \in Seq(Tokens) /\ s # <<>> /\ f.scars \subseteq 1..n
      /\ \A i \in 0..n : \/ <<TokenAt(s, i), TokenAt(s, i + 1)>> \in Follows
                         \/ \E scar \in f.scars : i \in {scar - 1, scar}
  BY DEF IsFile
<1>2. PICK u \in Overwritten(s) :
        g = [tokens |-> u \o p,
             scars |-> IF Last(p) = "close" THEN f.scars ELSE f.scars \cup {Len(u \o p)}]
  BY DEF WrittenOut
<1> HIDE DEF s
<1>3. /\ u \in Seq(Tokens) /\ n \in Nat /\ n > 0
      /\ Len(u) = n - 1 \/ (Len(u) = n /\ s[n] = "begin")
      /\ \A i \in 1..Len(u) : u[i] = s[i]
  BY <1>1, <1>2, LeftOf
<1>4. /\ p \in Seq(Tokens) /\ Len(p) \in Nat /\ Len(p) > 0 /\ p[1] = t[1]
      /\ \A i \in 1..(Len(p) - 1) : <<p[i], p[i + 1]>> \in Follows
      /\ p[Len(p)] = "close" => <<p[Len(p)], "eof">> \in Follows
  BY TextFollows
<1> DEFINE k == Len(u)
           w == u \o p
           m == Len(w)
<1>5. /\ w \in Seq(Tokens) /\ m = k + Len(p) /\ k \in Nat
      /\ \A i \in 1..k : w[i] = u[i]
      /\ \A i \in 1..Len(p) : w[k + i] = p[i]
  BY <1>3, <1>4, Joined
<1>6. g = [tokens |-> w, scars |-> g.scars] /\ g.scars = IF p[Len(p)] = "close" THEN f.scars ELSE f.scars \cup {m}
  BY <1>2 DEF Last
<1> HIDE DEF n, k, w, m
<1>7. m \in Nat /\ n <= m /\ k < m /\ w # <<>>
  <2>1. m \in Nat /\ n <= m /\ k < m
    BY <1>3, <1>4, <1>5 DEF k
  <2> QED BY <1>5, <2>1, EmptySeq DEF m
<1>8. g.scars \subseteq 1..m /\ f.scars \subseteq g.scars
  BY <1>1, <1>3, <1>6, <1>7
<1> DEFINE Good(i) == \/ <<TokenAt(w, i), TokenAt(w, i + 1)>> \in Follows
                      \/ \E scar \in g.scars : i \in {scar - 1, scar}
<1>9. ASSUME NEW i \in 0..m, i < k PROVE Good(i)
  <2>1. i \in 0..n /\ i + 1 \in 1..k /\ i + 1 <= n /\ (i # 0 => i \in 1..k) /\ i # m + 1 /\ i # n + 1
        /\ i + 1 # 0 /\ i + 1 # m + 1 /\ i + 1 # n + 1
    BY <1>3, <1>5, <1>7, <1>9 DEF k
  <2>2. TokenAt(w, i + 1) = TokenAt(s, i + 1)
    BY <1>3, <1>5, <2>1 DEF TokenAt, k, m, n
  <2>3. TokenAt(w, i) = TokenAt(s, i)
    BY <1>3, <1>5, <2>1 DEF TokenAt, k, m, n
  <2> QED BY <1>1, <1>8, <2>1, <2>2, <2>3
<1>10. Good(k)
  <2>1. TokenAt(w, k + 1) = p[1]
    <3>1. k + 1 # 0 /\ k + 1 # m + 1 /\ 1 \in 1..Len(p)
      BY <1>4, <1>5, <1>7
    <3> QED BY <1>5, <3>1 DEF TokenAt, m
  <2>2. TokenAt(w, k) = TokenAt(s, k)
    <3>1. k = 0 \/ (k \in 1..k /\ k # m + 1 /\ k # n + 1 /\ k # 0)
      BY <1>3, <1>5, <1>7 DEF k
    <3> QED BY <1>3, <1>5, <3>1 DEF TokenAt, k, m, n
  <2>3. CASE s[n] # "close"
    <3>1. TokenAt(s, n) = s[n] /\ TokenAt(s, n + 1) = "eof"
      BY <1>3 DEF TokenAt, n
    <3>2. s[n] \in Tokens
      BY <1>1, <1>3, ElementOfSeq DEF n
    <3>3. <<s[n], "eof">> \notin Follows
      BY <2>3, <3>2 DEF Follows, Tokens
    <3>7. n \in 0..n
      BY <1>3
    <3>4. PICK scar \in f.scars : n \in {scar - 1, scar}
      BY <1>1, <3>1, <3>3, <3>7
    <3>5. scar = n
      BY <1>1, <1>3, <3>4
    <3>6. k \in {n - 1, n}
      BY <1>3 DEF k
    <3> QED BY <1>8, <3>5, <3>6
  <2>4. CASE s[n] = "close" /\ k = n - 1
    <3>1. TokenAt(s, k + 1) = "close"
      BY <1>3, <2>4 DEF TokenAt, n
    <3>2. CASE \E scar \in f.scars : k \in {scar - 1, scar}
      BY <1>8, <3>2
    <3>3. CASE <<TokenAt(s, k), "close">> \in Follows
      <4>1. TokenAt(s, k) \in {"open", "end"}
        BY <3>3 DEF Follows
      <4>2. CASE t = Further
        <5>1. p[1] = "comma"
          BY <1>4, <4>2, ShortSequences
        <5> QED BY <2>1, <2>2, <4>1, <5>1 DEF Follows
      <4>3. CASE t = Absolute
        <5>1. p[1] = "begin"
          BY <1>4, <4>3, ShortSequences
        <5>2. s = Brackets
          BY <4>3 DEF s, NewFile
        <5>3. n = 2 /\ k = 1 /\ TokenAt(s, k) = "open"
          BY <2>4, <5>2, ShortSequences DEF n, TokenAt
        <5> QED BY <2>1, <2>2, <5>1, <5>3 DEF Follows
      <4> QED BY <4>2, <4>3
    <3>4. k \in 0..n
      BY <1>3, <1>5, <2>4
    <3> QED BY <1>1, <3>1, <3>2, <3>3, <3>4
  <2> QED BY <1>3, <2>3, <2>4 DEF k
<1>11. ASSUME NEW i \in 0..m, k < i, i < m PROVE Good(i)
  <2>5. m = k + Len(p) /\ k \in Nat /\ Len(p) \in Nat /\ i \in Int
    BY <1>4, <1>5, <1>7
  <2>6. i # 0 /\ i # m + 1 /\ i + 1 # 0 /\ i + 1 # m + 1
    BY <2>5, <1>11
  <2>1. i - k \in 1..(Len(p) - 1) /\ i - k \in 1..Len(p) /\ i - k + 1 \in 1..Len(p)
        /\ k + (i - k) = i /\ k + (i - k + 1) = i + 1
    BY <2>5, <1>11
  <2>2. w[i] = p[i - k]
    BY <1>5, <2>1
  <2>3. w[i + 1] = p[i - k + 1]
    BY <1>5, <2>1
  <2>4. TokenAt(w, i) = w[i] /\ TokenAt(w, i + 1) = w[i + 1]
    BY <2>6 DEF TokenAt, m
  <2> QED BY <1>4, <2>1, <2>2, <2>3, <2>4
<1>12. Good(m)
  <2>6. m = k + Len(p) /\ k \in Nat /\ Len(p) \in Nat /\ Len(p) > 0
    BY <1>4, <1>5
  <2>1. m # 0 /\ m # m + 1 /\ m + 1 # 0 /\ Len(p) \in 1..Len(p)
    BY <2>6
  <2>2. TokenAt(w, m) = w[m] /\ TokenAt(w, m + 1) = "eof"
    BY <2>1 DEF TokenAt, m
  <2>3. w[m] = p[Len(p)]
    BY <1>5, <2>1
  <2>4. CASE p[Len(p)] = "close"
    BY <1>4, <2>2, <2>3, <2>4
  <2>5. CASE p[Len(p)] # "close"
    BY <1>6, <2>5
  <2> QED BY <2>4, <2>5
<1>13. \A i \in 0..m : Good(i)
  <2> TAKE i \in 0..m
  <2>1. i < k \/ i = k \/ (k < i /\ i < m) \/ i = m
    BY <1>5, <1>7
  <2> QED BY <1>9, <1>10, <1>11, <1>12, <2>1
<1> QED BY <1>5, <1>6, <1>7, <1>8, <1>13 DEF IsFile, m

\* So for the buffer, whole or in part.
LEMMA BufferKeeps ==
  ASSUME NEW f, IsFile(f), NEW b, FitsEnd(f, b), NEW g \in WrittenOut(f, b) \cup PartWrittenOut(f, b)
  PROVE  IsFile(g) /\ (f.tokens # <<>> => g.tokens # <<>>)
<1>1. b \in Prefixes(b)
  <2>1. b \in Seq(Tokens)
    BY DEF FitsEnd, IsPart
  <2>2. Len(b) \in 0..Len(b) /\ SubSeq(b, 1, Len(b)) = b
    <3>1. Len(b) \in Nat
      BY <2>1, LenProperties
    <3>2. SubSeq(b, 1, Len(b)) = b
      BY <2>1, SubSeqFull
    <3> QED BY <3>1, <3>2
  <2> QED BY <2>2 DEF Prefixes
<1>2. PICK p \in Prefixes(b) : g \in WrittenOut(f, p)
  BY <1>1 DEF PartWrittenOut
<1>3. CASE p = <<>>
  BY <1>2, <1>3 DEF WrittenOut
<1>4. CASE p # <<>>
  <2>1. PICK t \in {Absolute, Further} :
          /\ IsPart(b, t)
          /\ t = Absolute => f = [NewFile EXCEPT !.tokens = Brackets]
          /\ b # <<>> => f.tokens # <<>>
    <3>1. Brackets # <<>> /\ [NewFile EXCEPT !.tokens = Brackets].tokens = Brackets
      BY DEF Brackets, NewFile
    <3>2. Further # Absolute
      BY DEF Further, Absolute
    <3> QED BY <3>1, <3>2 DEF FitsEnd
  <2>2. t \in Seq(Tokens)
    BY ShortSequences
  <2>3. IsPart(p, t) /\ (b = <<>> => p = <<>>)
    BY <1>2, <2>1, <2>2, PartOfPart
  <2> QED BY <1>2, <1>4, <2>1, <2>3, WrittenOutKeeps
<1> QED BY <1>3, <1>4

\* An object that is added, or fails to be.
LEMMA AddKeeps ==
  ASSUME NEW f, IsFile(f), f.tokens # <<>>, NEW b, FitsEnd(f, b), NEW canFail,
         NEW r \in addJSONString(f, b, Further, canFail)
  PROVE  IsFile(r[1]) /\ r[1].tokens # <<>> /\ FitsEnd(r[1], r[2])
<1>1. /\ r[1] \in WrittenOut(f, b) \cup PartWrittenOut(f, b)
      /\ r[2] = Further \/ r[2] \in Prefixes(Further) \/ r[2] = <<>>
  BY DEF addJSONString
<1>2. IsFile(r[1]) /\ r[1].tokens # <<>>
  BY <1>1, BufferKeeps
<1>3. IsPart(Further, Further) /\ IsPart(<<>>, Further)
  BY ShortSequences, WholeIsPart
<1>4. r[2] \in Prefixes(Further) => IsPart(r[2], Further)
  BY <1>3, ShortSequences, PartOfPart
<1> QED BY <1>1, <1>2, <1>3, <1>4 DEF FitsEnd

\* A file the module has made, with or without its first object.
LEMMA NewFiles ==
  /\ IsFile(NewFile) /\ IsFile([tokens |-> <<"open">>, scars |-> {1}])
  /\ IsFile([NewFile EXCEPT !.tokens = Brackets])
  /\ [NewFile EXCEPT !.tokens = Brackets].tokens = Brackets /\ Brackets # <<>>
  /\ FitsEnd([NewFile EXCEPT !.tokens = Brackets], Absolute)
  /\ \A f : FitsEnd(f, <<>>)
<1>1. IsFile(NewFile)
  <2>1. NewFile.tokens = <<>> /\ NewFile.scars = {} /\ Len(<<>>) = 0 /\ <<>> \in Seq(Tokens)
    BY EmptySeq DEF NewFile
  <2>2. TokenAt(<<>>, 0) = "start" /\ TokenAt(<<>>, 0 + 1) = "eof"
    BY <2>1 DEF TokenAt
  <2>3. \A i \in 0..0 : i = 0
    OBVIOUS
  <2> QED BY <2>1, <2>2, <2>3 DEF IsFile, NewFile, Follows
<1>2. IsFile([tokens |-> <<"open">>, scars |-> {1}])
  <2> DEFINE s == <<"open">>
  <2>1. Len(s) = 1 /\ s[1] = "open" /\ s \in Seq(Tokens)
    BY DEF Tokens
  <2> HIDE DEF s
  <2>2. TokenAt(s, 0) = "start" /\ TokenAt(s, 0 + 1) = "open"
    BY <2>1 DEF TokenAt
  <2>3. \A i \in 0..1 : i = 0 \/ i = 1
    OBVIOUS
  <2>4. {1} \subseteq 1..1
    OBVIOUS
  <2>5. IsFile([tokens |-> s, scars |-> {1}])
    BY <2>1, <2>2, <2>3, <2>4 DEF IsFile, Follows
  <2> QED BY <2>5 DEF s
<1>3. /\ [NewFile EXCEPT !.tokens = Brackets] = [tokens |-> Brackets, scars |-> {}]
      /\ Brackets # <<>>
  BY DEF NewFile, Brackets
<1>4. IsFile([tokens |-> Brackets, scars |-> {}])
  <2>1. /\ TokenAt(Brackets, 0) = "start" /\ TokenAt(Brackets, 0 + 1) = "open"
        /\ TokenAt(Brackets, 1) = "open" /\ TokenAt(Brackets, 1 + 1) = "close"
        /\ TokenAt(Brackets, 2) = "close" /\ TokenAt(Brackets, 2 + 1) = "eof"
    BY ShortSequences DEF TokenAt
  <2>2. \A i \in 0..2 : i = 0 \/ i = 1 \/ i = 2
    OBVIOUS
  <2> QED BY <2>1, <2>2, ShortSequences DEF IsFile, Follows
<1>5. IsPart(Absolute, Absolute) /\ IsPart(<<>>, Further)
  BY ShortSequences, WholeIsPart
<1> QED BY <1>1, <1>2, <1>3, <1>4, <1>5 DEF FitsEnd

\* Every step is one of the logger or leaves the file alone.
LEMMA LoggerSteps ==
  ASSUME UploadNext
  PROVE  \/ UNCHANGED loggerVars \/ Logger_Create(failing) \/ CreateFails
         \/ Logger_Receive(failing) \/ Logger_Destroy(failing) \/ LoggerKilled
  BY DEF UploadNext, GatewayNext, WorkerNext, GatewayCreate, GatewayCreateFails, Gateway_LL_Start,
         Gateway_LL_Destroy, Gateway_LL_RemoveLink, Broker_RemoveModule, WorkerJoined,
         Module_Destroy, Killed, DeviceGoesOn, DevicePublishes, MappingReceives,
         MappingPublishes, HubReceives, HubGoesOn, CloudSends, HubCallback, LoggerReceives,
         DeviceReceives

LEMMA LogKeeps ==
  ASSUME LogPart, UploadNext \/ UNCHANGED uploadVars
  PROVE  LogPart'
<1> USE DEF LogPart
<1>1. UNCHANGED loggerVars \/ UploadNext
  BY DEF uploadVars
<1>2. CASE UNCHANGED loggerVars
  <2>1. UNCHANGED <<file, buffer, fout>>
    BY <1>2 DEF loggerVars
  <2> QED BY <2>1
<1>3. CASE Logger_Create(failing)
  <2>1. fout' = TRUE
    BY <1>3 DEF Logger_Create
  <2>2. CASE file' = [NewFile EXCEPT !.tokens = Brackets] /\ buffer' = Absolute
    BY <2>1, <2>2, NewFiles
  <2>3. CASE /\ file.tokens # <<>>
             /\ \E r \in addJSONString(file, <<>>, Further, failing) : file' = r[1] /\ buffer' = r[2]
    <3>1. FitsEnd(file, <<>>)
      BY NewFiles
    <3>2. IsFile(file') /\ file'.tokens # <<>> /\ FitsEnd(file', buffer')
      BY <2>3, <3>1, AddKeeps
    <3> QED BY <2>1, <3>2
  <2> QED BY <1>3, <2>2, <2>3 DEF Logger_Create
<1>4. CASE CreateFails
  <2>1. ~fout /\ buffer' = <<>> /\ fout' = FALSE
    BY <1>4 DEF CreateFails
  <2>2. ASSUME NEW p \in Prefixes(Absolute), file' \in WrittenOut([NewFile EXCEPT !.tokens = Brackets], p)
        PROVE  IsFile(file')
    <3>1. file' \in PartWrittenOut([NewFile EXCEPT !.tokens = Brackets], Absolute)
      BY <2>2 DEF PartWrittenOut
    <3> QED BY <3>1, NewFiles, BufferKeeps
  <2>3. IsFile(file')
    BY <1>4, <2>2, NewFiles DEF CreateFails
  <2> QED BY <2>1, <2>3, NewFiles
<1>5. CASE Logger_Receive(failing)
  <2>1. fout = TRUE /\ fout' = TRUE /\ file.tokens # <<>>
    BY <1>5 DEF Logger_Receive
  <2>2. CASE UNCHANGED <<file, buffer>>
    BY <2>1, <2>2
  <2>3. CASE \E r \in addJSONString(file, buffer, Further, failing) : file' = r[1] /\ buffer' = r[2]
    <3>1. IsFile(file') /\ file'.tokens # <<>> /\ FitsEnd(file', buffer')
      BY <2>1, <2>3, AddKeeps
    <3> QED BY <2>1, <3>1
  <2> QED BY <1>5, <2>2, <2>3 DEF Logger_Receive
<1>6. CASE Logger_Destroy(failing)
  <2>1. /\ fout /\ buffer' = <<>> /\ fout' = FALSE
        /\ \E r \in addJSONString(file, buffer, Further, failing) :
             file' \in WrittenOut(r[1], r[2]) \cup PartWrittenOut(r[1], r[2])
    BY <1>6 DEF Logger_Destroy
  <2>2. PICK r \in addJSONString(file, buffer, Further, failing) :
          file' \in WrittenOut(r[1], r[2]) \cup PartWrittenOut(r[1], r[2])
    BY <2>1
  <2>3. IsFile(r[1]) /\ FitsEnd(r[1], r[2])
    BY <2>1, AddKeeps
  <2>4. IsFile(file')
    BY <2>2, <2>3, BufferKeeps
  <2> QED BY <2>1, <2>4, NewFiles
<1>7. CASE LoggerKilled
  <2>1. file' \in PartWrittenOut(file, buffer) /\ buffer' = <<>> /\ fout' = FALSE
    BY <1>7 DEF LoggerKilled
  <2>2. IsFile(file')
    BY <2>1, BufferKeeps
  <2> QED BY <2>1, <2>2, NewFiles
<1> QED BY <1>1, <1>2, <1>3, <1>4, <1>5, <1>6, <1>7, LoggerSteps

\* The invariant's shape is the one the run checks.
LEMMA ShapeIsKept == ASSUME LogPart PROVE LogKeepsShape
  BY DEF LogPart, IsFile, LogKeepsShape

-----------------------------------------------------------------------------
(* The gateway's thread, the file and the devices *)

\* Taking the first of different elements.
LEMMA TailOfDifferent ==
  ASSUME NEW S, NEW s \in Seq(S), IsInjective(s), s # <<>>
  PROVE  /\ Head(s) \in S /\ Tail(s) \in Seq(S) /\ IsInjective(Tail(s))
         /\ Head(s) \in ToSet(s) /\ ToSet(Tail(s)) = ToSet(s) \ {Head(s)}
<1>1. /\ Head(s) \in S /\ Tail(s) \in Seq(S) /\ Len(Tail(s)) = Len(s) - 1
      /\ \A i \in 1..Len(Tail(s)) : Tail(s)[i] = s[i + 1]
  BY HeadTailProperties
<1>2. Len(s) \in Nat /\ Len(s) > 0 /\ DOMAIN s = 1..Len(s) /\ Head(s) = s[1]
  BY EmptySeq, LenProperties
<1>. DEFINE t == Tail(s)
<1>3. DOMAIN t = 1..(Len(s) - 1) /\ \A i \in DOMAIN t : i + 1 \in DOMAIN s /\ t[i] = s[i + 1]
  <2>1. DOMAIN t = 1..Len(t)
    BY <1>1, LenProperties
  <2>. QED
    BY <1>1, <1>2, <2>1
<1>. HIDE DEF t
<1>4. IsInjective(t)
  BY <1>2, <1>3 DEF IsInjective
<1>5. \A j \in DOMAIN s : j = 1 \/ (j - 1 \in DOMAIN t /\ t[j - 1] = s[j])
  <2>. TAKE j \in DOMAIN s
  <2>1. j \in Int /\ (j # 1 => j - 1 \in 1..(Len(s) - 1) /\ j - 1 + 1 = j)
    BY <1>2
  <2>. QED
    BY <1>3, <2>1
<1>6. \A i \in DOMAIN t : s[i + 1] # s[1]
  <2>. TAKE i \in DOMAIN t
  <2>1. i + 1 \in DOMAIN s /\ 1 \in DOMAIN s /\ i + 1 # 1
    BY <1>2, <1>3
  <2>. QED
    BY <2>1 DEF IsInjective
<1>7. ToSet(t) = ToSet(s) \ {s[1]}
  BY <1>2, <1>3, <1>5, <1>6 DEF ToSet
<1>8. s[1] \in ToSet(s)
  BY <1>2 DEF ToSet
<1>. QED
  BY <1>1, <1>2, <1>4, <1>7, <1>8 DEF t

\* The rest of a sequence has the same members.
LEMMA TailOfMembers ==
  ASSUME NEW S, NEW s \in Seq(S), s # <<>>
  PROVE  Tail(s) \in Seq(S)
  BY HeadTailProperties

\* What a configuration is, see GatewaysAssumption.
LEMMA GatewayIs ==
  ASSUME config \in Gateways
  PROVE  /\ config.modules \in Seq(Modules) /\ IsInjective(config.modules)
         /\ config.links \in Seq(ToSet(config.links))
         /\ ToSet(config.modules) \subseteq Modules
<1>1. /\ config.modules \in Seq(Modules) /\ IsInjective(config.modules)
      /\ config.links \in Seq((SUBSET Modules) \X Modules)
  BY GatewaysAssumption
<1>2. config.links \in Seq(Range(config.links))
  <2>. DEFINE S == (SUBSET Modules) \X Modules
  <2>1. config.links \in Seq(S)
    BY <1>1
  <2>. HIDE DEF S
  <2>. QED
    BY <2>1, SeqOfRange
<1>3. Range(config.links) = ToSet(config.links)
  BY DEF Range, ToSet
<1>4. \A i \in DOMAIN config.modules : config.modules[i] \in Modules
  BY <1>1, LenProperties, ElementOfSeq
<1>. QED
  BY <1>1, <1>2, <1>3, <1>4 DEF ToSet

\* What a step does to the gateway's thread, the file and the devices.
LEMMA GatewaySteps ==
  ASSUME UploadNext \/ UNCHANGED uploadVars
  PROVE  \/ GatewayCreate \/ Gateway_LL_Start \/ Gateway_LL_Destroy \/ Gateway_LL_RemoveLink
         \/ Broker_RemoveModule \/ WorkerJoined \/ Module_Destroy \/ Killed
         \/ (\E d \in Publishers : DeviceGoesOn(d) \/ ThreadPublishes(d))
              /\ UNCHANGED <<gw, links, attached, config, fout>>
         \/ UNCHANGED <<gw, links, attached, config, fout, deviceVars>>
<1>1. CASE UNCHANGED uploadVars
  BY <1>1 DEF uploadVars, brokerVars, loggerVars
<1>2. CASE GatewayNext
  BY <1>2 DEF GatewayNext, GatewayCreateFails, CreateFails, brokerVars
<1>3. CASE WorkerNext
  BY <1>3 DEF WorkerNext, MappingReceives, MappingPublishes, HubReceives, HubGoesOn,
              LoggerReceives, DeviceReceives, Broker_Publish, Takes, Logger_Receive, loggerVars,
              brokerVars
<1>4. CASE \E d \in Publishers : DeviceGoesOn(d) \/ DevicePublishes(d)
  BY <1>4 DEF DeviceGoesOn, DevicePublishes, Broker_Publish, loggerVars, brokerVars
<1>5. CASE \E a \in Addresses : CloudSends(a) \/ HubCallback(a)
  BY <1>5 DEF CloudSends, HubCallback, Broker_Publish, loggerVars, brokerVars
<1>. QED
  BY <1>1, <1>2, <1>3, <1>4, <1>5 DEF UploadNext

\* What Module_Destroy does with the gateway's thread and the devices.
LEMMA DestroySteps ==
  ASSUME Module_Destroy
  PROVE  /\ gw.at = "removing" /\ gw.left # <<>> /\ UNCHANGED <<links, attached, config>>
         /\ \/ UNCHANGED <<gw, fout>> /\ \E d \in Publishers : StopDevice(d, failing)
            \/ UNCHANGED fout /\ Proceeds /\ Head(gw.left) \in Publishers /\ JoinDevice(Head(gw.left))
            \/ UNCHANGED <<gw, fout, deviceVars>>
            \/ UNCHANGED <<fout, deviceVars>> /\ Proceeds /\ Head(gw.left) \in {"mapping", "IotHub"}
            \/ UNCHANGED deviceVars /\ fout' = FALSE /\ Proceeds /\ Head(gw.left) = "Logger"
  BY DEF Module_Destroy, brokerVars, loggerVars, Logger_Destroy

LEMMA GatewayKeeps ==
  ASSUME GatewayPart, UploadNext \/ UNCHANGED uploadVars
  PROVE  GatewayPart'
<1>. USE DEF GatewayPart
<1>1. CASE GatewayCreate
  <2>1. gw' = [at |-> "starting", left |-> config.modules] /\ config' = config
        /\ attached' = ToSet(config.modules) /\ links' = config.links
    BY <1>1 DEF GatewayCreate
  <2>. QED
    BY <2>1, GatewayIs
<1>2. CASE Gateway_LL_Start
  <2>1. UNCHANGED <<config, links, attached>> /\ gw.at = "starting"
    BY <1>2 DEF Gateway_LL_Start, brokerVars
  <2>2. CASE gw.left = <<>>
    BY <1>2, <2>1, <2>2 DEF Gateway_LL_Start
  <2>3. CASE gw.left # <<>>
    <3>1. gw' = [gw EXCEPT !.left = Tail(@)]
      BY <1>2, <2>3 DEF Gateway_LL_Start
    <3>2. gw'.left = Tail(gw.left) /\ gw'.at = "starting" /\ gw' = [at |-> gw'.at, left |-> gw'.left]
      BY <2>1, <3>1
    <3>. QED
      BY <2>1, <2>3, <3>2, TailOfDifferent
  <2>. QED
    BY <2>2, <2>3
<1>3. CASE Gateway_LL_Destroy
  BY <1>3, GatewayIs DEF Gateway_LL_Destroy, brokerVars
<1>4. CASE Gateway_LL_RemoveLink
  <2>1. UNCHANGED <<config, attached>> /\ gw.at = "unlinking"
    BY <1>4 DEF Gateway_LL_RemoveLink
  <2>2. CASE links = <<>>
    BY <1>4, <2>1, <2>2 DEF Gateway_LL_RemoveLink
  <2>3. CASE links # <<>>
    <3>1. gw' = gw /\ links' = Tail(links)
      BY <1>4, <2>3 DEF Gateway_LL_RemoveLink
    <3>. QED
      BY <2>1, <2>3, <3>1, TailOfMembers
  <2>. QED
    BY <2>2, <2>3
<1>5. CASE Broker_RemoveModule \/ WorkerJoined
  <2>1. /\ gw.at \in {"removing", "joining"} /\ gw.left # <<>>
        /\ gw'.at \in {"removing", "joining"} /\ gw'.left = gw.left
        /\ gw' = [at |-> gw'.at, left |-> gw'.left]
        /\ UNCHANGED <<config, links>> /\ attached' \subseteq attached
    BY <1>5 DEF Broker_RemoveModule, WorkerJoined, brokerVars
  <2> QED BY <2>1
<1>6. CASE Module_Destroy
  <2>1. gw.at = "removing" /\ gw.left # <<>> /\ UNCHANGED <<links, attached, config>>
        /\ (gw' = gw \/ Proceeds)
    BY <1>6, DestroySteps
  <2>2. CASE Proceeds
    <3>1. /\ gw' = [at |-> gw'.at, left |-> gw'.left] /\ gw'.left = Tail(gw.left)
          /\ gw'.at \in {"down", "removing"}
      BY <2>2 DEF Proceeds
    <3>. QED
      BY <2>1, <3>1, TailOfDifferent
  <2>. QED
    BY <2>1, <2>2
<1>7. CASE Killed
  BY <1>7, EmptySeq DEF Killed, IsInjective, ToSet
<1>8. CASE UNCHANGED <<gw, links, attached, config>>
  BY <1>8
<1>. QED
  BY <1>1, <1>2, <1>3, <1>4, <1>5, <1>6, <1>7, <1>8, GatewaySteps

\* Names of devices are not those of the other modules.
LEMMA NamesDiffer ==
  /\ "mapping" \notin Publishers /\ "IotHub" \notin Publishers /\ "Logger" \notin Publishers
  /\ "cloud" \notin Publishers /\ {"mapping", "IotHub", "Logger"} \subseteq Modules
  /\ Publishers \subseteq Modules /\ SimulatedDevices \subseteq Publishers
  BY ModulesAssumption DEF Modules, Publishers

LEMMA FileKeeps ==
  ASSUME GatewayPart, FileIsOpen, UploadNext \/ UNCHANGED uploadVars
  PROVE  FileIsOpen'
<1>. USE DEF GatewayPart, FileIsOpen
<1>1. CASE GatewayCreate
  <2>1. /\ gw.at = "down" /\ gw'.at = "starting" /\ config' = config
        /\ IF "Logger" \in ToSet(config.modules) THEN fout' = TRUE ELSE fout' = fout
    BY <1>1 DEF GatewayCreate, Logger_Create, loggerVars
  <2>. QED
    BY <2>1
<1>2. CASE Gateway_LL_Start
  <2>1. /\ UNCHANGED <<config, fout>> /\ gw.at = "starting" /\ gw'.at \in {"starting", "up"}
    BY <1>2 DEF Gateway_LL_Start, loggerVars
  <2>. QED
    BY <2>1
<1>3. CASE Gateway_LL_Destroy
  <2>1. /\ UNCHANGED <<config, fout>> /\ gw.at \in {"starting", "up"} /\ gw'.at = "unlinking"
    BY <1>3 DEF Gateway_LL_Destroy, loggerVars
  <2>. QED
    BY <2>1
<1>4. CASE Gateway_LL_RemoveLink
  <2>1. /\ UNCHANGED <<config, fout>> /\ gw.at = "unlinking" /\ gw.left = config.modules
        /\ \/ gw' = gw
           \/ gw'.left = gw.left /\ gw'.at = "removing"
           \/ gw'.left = gw.left /\ gw'.at = "down" /\ gw.left = <<>>
    BY <1>4 DEF Gateway_LL_RemoveLink, loggerVars
  <2>2. config.modules = <<>> => "Logger" \notin ToSet(config.modules)
    BY DEF ToSet
  <2>. QED
    BY <2>1, <2>2
<1>5. CASE Broker_RemoveModule \/ WorkerJoined
  <2>1. /\ gw.at \in {"removing", "joining"} /\ gw'.at \in {"removing", "joining"}
        /\ gw'.left = gw.left /\ UNCHANGED <<config, fout>>
    BY <1>5 DEF Broker_RemoveModule, WorkerJoined, loggerVars
  <2> QED BY <2>1
<1>6. CASE Module_Destroy
  <2>1. /\ gw.at = "removing" /\ gw.left # <<>> /\ UNCHANGED config
        /\ \/ UNCHANGED <<gw, fout>>
           \/ UNCHANGED fout /\ Proceeds /\ Head(gw.left) # "Logger"
           \/ fout' = FALSE /\ Proceeds /\ Head(gw.left) = "Logger"
    BY <1>6, DestroySteps, NamesDiffer
  <2>2. CASE Proceeds
    <3>1. /\ gw'.left = Tail(gw.left) /\ gw'.at \in {"down", "removing"}
          /\ gw'.at = "down" => Tail(gw.left) = <<>>
      BY <2>2 DEF Proceeds
    <3>2. ToSet(Tail(gw.left)) = ToSet(gw.left) \ {Head(gw.left)}
      BY <2>1, TailOfDifferent
    <3>3. Tail(gw.left) = <<>> => "Logger" \notin ToSet(Tail(gw.left))
      BY DEF ToSet
    <3>. QED
      BY <2>1, <2>2, <3>1, <3>2, <3>3
  <2>. QED
    BY <2>1, <2>2
<1>7. CASE Killed
  BY <1>7 DEF Killed, LoggerKilled
<1>8. CASE UNCHANGED <<gw, config, fout>>
  BY <1>8
<1>. QED
  BY <1>1, <1>2, <1>3, <1>4, <1>5, <1>6, <1>7, <1>8, GatewaySteps

LEMMA NoDataIsNotAllocated == ~NoData.allocated
  BY DEF NoData

LEMMA DeviceKeeps ==
  ASSUME GatewayPart, DevicePart, UploadNext \/ UNCHANGED uploadVars
  PROVE  DevicePart'
<1>. USE DEF GatewayPart, DevicePart, OnTurn
<1>1. CASE GatewayCreate
  <2>1. /\ gw.at = "down" /\ gw'.at = "starting" /\ gw'.left = config.modules /\ config' = config
        /\ UNCHANGED <<thread, sent, held>>
        /\ data' = [d \in Publishers |-> IF d \in Publishers \cap ToSet(config.modules)
                                         THEN NewData ELSE NoData]
    BY <1>1 DEF GatewayCreate, CreateDevices
  <2>2. \A d \in Publishers : thread[d] = "none"
    BY <2>1
  <2>. QED
    BY <2>1, <2>2 DEF NewData
<1>2. CASE Gateway_LL_Start
  <2>1. UNCHANGED config /\ gw.at = "starting"
    BY <1>2 DEF Gateway_LL_Start
  <2>2. CASE gw.left = <<>>
    <3>1. gw'.at = "up" /\ UNCHANGED <<data, thread, sent, held>>
      BY <1>2, <2>2 DEF Gateway_LL_Start, deviceVars
    <3>. QED
      BY <2>1, <3>1
  <2>3. CASE gw.left # <<>>
    <3>. DEFINE m == Head(gw.left)
    <3>1. gw'.at = "starting" /\ gw'.left = Tail(gw.left)
          /\ IF m \in Publishers THEN StartDevice(m, failing) ELSE UNCHANGED deviceVars
      BY <1>2, <2>1, <2>3 DEF Gateway_LL_Start
    <3>2. m \in ToSet(gw.left) /\ ToSet(gw'.left) \subseteq ToSet(gw.left)
      BY <2>3, <3>1, TailOfDifferent
    <3>. HIDE DEF m
    <3>6. held' = held
      BY <3>1 DEF StartDevice, deviceVars
    <3>3. CASE UNCHANGED <<data, thread, sent>>
      BY <2>1, <3>1, <3>2, <3>3, <3>6
    <3>4. CASE m \in Publishers /\ thread' = [thread EXCEPT ![m] = "looks"] /\ UNCHANGED <<data, sent>>
      BY <2>1, <3>1, <3>2, <3>4, <3>6 DEF OnTurn
    <3>5. CASE m \in Publishers /\ data' = [data EXCEPT ![m].stop = TRUE] /\ UNCHANGED <<thread, sent>>
      <4>1. data[m] \in [allocated : {TRUE}, stop : BOOLEAN]
        <5>1. data[m].allocated /\ data[m] \in {NoData} \cup [allocated : {TRUE}, stop : BOOLEAN]
          BY <2>1, <3>2, <3>5
        <5>. QED
          BY <5>1, NoDataIsNotAllocated
      <4>2. data'[m] \in [allocated : {TRUE}, stop : BOOLEAN]
        BY <3>5, <4>1
      <4>3. /\ data' \in [Publishers -> {NoData} \cup [allocated : {TRUE}, stop : BOOLEAN]]
            /\ \A d \in Publishers : data[d].allocated => data'[d].allocated
        BY <3>5, <4>2
      <4>. QED
        BY <2>1, <3>1, <3>2, <3>5, <3>6, <4>3
    <3>. QED
      BY <3>1, <3>3, <3>4, <3>5 DEF StartDevice, deviceVars
  <2>. QED
    BY <2>2, <2>3
<1>3. CASE Gateway_LL_Destroy
  <2>1. UNCHANGED <<config, data, thread, sent, held>> /\ gw.at # "down" /\ gw'.at = "unlinking"
    BY <1>3 DEF Gateway_LL_Destroy, deviceVars
  <2>. QED
    BY <2>1
<1>4. CASE Gateway_LL_RemoveLink
  <2>1. /\ UNCHANGED <<config, data, thread, sent, held>> /\ gw.at = "unlinking" /\ gw.left = config.modules
        /\ \/ gw' = gw
           \/ gw'.left = gw.left /\ gw'.at = "removing"
           \/ gw'.left = gw.left /\ gw'.at = "down" /\ gw.left = <<>>
    BY <1>4 DEF Gateway_LL_RemoveLink, deviceVars
  <2>2. config.modules = <<>> => \A d : d \notin ToSet(config.modules)
    BY DEF ToSet
  <2>. QED
    BY <2>1, <2>2
<1>5. CASE Broker_RemoveModule \/ WorkerJoined
  <2>1. /\ gw.at \in {"removing", "joining"} /\ gw'.at \in {"removing", "joining"}
        /\ gw'.left = gw.left /\ UNCHANGED <<config, data, thread, sent, held>>
    BY <1>5 DEF Broker_RemoveModule, WorkerJoined, deviceVars
  <2> QED BY <2>1
<1>6. CASE Module_Destroy
  <2>1. /\ gw.at = "removing" /\ gw.left # <<>> /\ UNCHANGED config
    BY <1>6, DestroySteps
  <2>2. ToSet(Tail(gw.left)) = ToSet(gw.left) \ {Head(gw.left)}
    BY <2>1, TailOfDifferent
  <2>3. Proceeds => /\ gw'.left = Tail(gw.left) /\ gw'.at \in {"down", "removing"}
                    /\ gw'.at = "down" => Tail(gw.left) = <<>>
    BY DEF Proceeds
  <2>4. Tail(gw.left) = <<>> => \A d : d \notin ToSet(Tail(gw.left))
    BY DEF ToSet
  <2>5. CASE UNCHANGED gw /\ \E d \in Publishers : StopDevice(d, failing)
    <3>1. PICK d \in Publishers : data[d].allocated /\ data' = [data EXCEPT ![d].stop = TRUE]
                                  /\ UNCHANGED <<thread, sent, held>>
      BY <2>5 DEF StopDevice
    <3>2. data[d] \in [allocated : {TRUE}, stop : BOOLEAN]
      BY <3>1, NoDataIsNotAllocated
    <3>3. data'[d] \in [allocated : {TRUE}, stop : BOOLEAN]
      BY <3>1, <3>2
    <3>4. /\ data' \in [Publishers -> {NoData} \cup [allocated : {TRUE}, stop : BOOLEAN]]
          /\ \A e \in Publishers : data[e].allocated => data'[e].allocated
      BY <3>1, <3>3
    <3>. QED
      BY <2>1, <2>5, <3>1, <3>4
  <2>6. CASE Proceeds /\ Head(gw.left) \in Publishers /\ JoinDevice(Head(gw.left))
    <3>. DEFINE m == Head(gw.left)
    <3>1. m \in Publishers /\ data' = [data EXCEPT ![m] = NoData] /\ thread' = [thread EXCEPT ![m] = "none"]
          /\ UNCHANGED <<sent, held>>
      BY <2>6 DEF JoinDevice
    <3>2. \A d \in Publishers : d # m => data'[d] = data[d] /\ thread'[d] = thread[d]
      BY <3>1
    <3>3. data' \in [Publishers -> {NoData} \cup [allocated : {TRUE}, stop : BOOLEAN]]
          /\ thread' \in [Publishers -> {"none", "looks", "writes", "copies", "publishes", "ended"}]
          /\ thread'[m] = "none"
      BY <3>1
    <3>4. \A d \in Publishers : thread'[d] # "none" => d \in ToSet(Tail(gw.left))
      BY <2>1, <2>2, <3>2, <3>3
    <3>5. \/ gw'.at = "removing" /\ gw'.left = Tail(gw.left)
          \/ gw'.at = "down" /\ Tail(gw.left) = <<>>
      BY <2>3, <2>6
    <3>. QED
      BY <2>1, <2>4, <3>1, <3>2, <3>3, <3>4, <3>5 DEF OnTurn
  <2>7. CASE UNCHANGED <<gw, data, thread, sent, held>>
    BY <2>1, <2>7
  <2>8. CASE UNCHANGED <<data, thread, sent, held>> /\ Proceeds /\ Head(gw.left) \notin Publishers
    <3>1. \A d \in Publishers : thread[d] # "none" => d \in ToSet(Tail(gw.left))
      BY <2>1, <2>2, <2>8
    <3>2. \/ gw'.at = "removing" /\ gw'.left = Tail(gw.left)
          \/ gw'.at = "down" /\ Tail(gw.left) = <<>>
      BY <2>3, <2>8
    <3>. QED
      BY <2>1, <2>4, <2>8, <3>1, <3>2
  <2>. QED
    BY <1>6, <2>5, <2>6, <2>7, <2>8, DestroySteps, NamesDiffer DEF deviceVars
<1>7. CASE Killed
  <2>1. /\ gw' = [at |-> "down", left |-> <<>>] /\ config' = config /\ UNCHANGED sent
        /\ data' = [d \in Publishers |-> NoData] /\ thread' = [d \in Publishers |-> "none"]
        /\ held' = [d \in Publishers |-> Nothing]
    BY <1>7 DEF Killed, DevicesKilled
  <2>2. /\ data' \in [Publishers -> {NoData} \cup [allocated : {TRUE}, stop : BOOLEAN]]
        /\ thread' \in [Publishers -> {"none", "looks", "writes", "copies", "publishes", "ended"}]
        /\ held' = [d \in Publishers |-> held'[d]]
    BY <2>1
  <2>. QED
    BY <2>1, <2>2 DEF OnTurn
<1>8. CASE (\E d \in Publishers : DeviceGoesOn(d) \/ ThreadPublishes(d)) /\ UNCHANGED <<gw, config>>
  <2>1. PICK d \in Publishers : DeviceGoesOn(d) \/ ThreadPublishes(d)
    BY <1>8
  <2>2. MaxMessages[d] \in Nat /\ sent[d] \in Nat
    BY DevicesAssumption DEF Publishers
  <2>3. /\ UNCHANGED <<data, gw, config>> /\ thread[d] # "none"
        /\ held' = [e \in Publishers |-> held'[e]]
        /\ \/ thread' = [thread EXCEPT ![d] = "ended"] /\ sent' = sent
           \/ thread' = [thread EXCEPT ![d] = "looks"] /\ sent' = sent
           \/ /\ \E at \in {"writes", "copies", "publishes"} : thread' = [thread EXCEPT ![d] = at]
              /\ sent' = sent /\ sent[d] < MaxMessages[d]
           \/ /\ thread' = [thread EXCEPT ![d] = "looks"] /\ sent[d] < MaxMessages[d]
              /\ sent' = [sent EXCEPT ![d] = sent[d] + 1]
    <3>1. CASE ThreadLooks(d)
      BY <1>8, <3>1 DEF ThreadLooks
    <3>2. CASE ThreadWrites(d)
      BY <1>8, <3>2 DEF ThreadWrites, OnTurn
    <3>3. CASE ThreadCopies(d, failing)
      BY <1>8, <3>3 DEF ThreadCopies, OnTurn
    <3>4. CASE ThreadPublishes(d)
      BY <1>8, <3>4 DEF ThreadPublishes, OnTurn
    <3> QED BY <2>1, <3>1, <3>2, <3>3, <3>4 DEF DeviceGoesOn
  <2>4. /\ thread' \in [Publishers -> {"none", "looks", "writes", "copies", "publishes", "ended"}]
        /\ \A e \in Publishers : e # d => thread'[e] = thread[e]
        /\ sent' \in [Publishers -> Nat] /\ \A e \in Publishers : e # d => sent'[e] = sent[e]
        /\ sent'[d] <= MaxMessages[d]
        /\ thread'[d] \in {"writes", "copies", "publishes"} => sent'[d] < MaxMessages[d]
    <3>1. \A at \in {"writes", "copies", "publishes", "looks", "ended"} :
            thread' = [thread EXCEPT ![d] = at] =>
              /\ thread' \in [Publishers -> {"none", "looks", "writes", "copies", "publishes", "ended"}]
              /\ thread'[d] = at /\ \A e \in Publishers : e # d => thread'[e] = thread[e]
      OBVIOUS
    <3>2. sent' = [sent EXCEPT ![d] = sent[d] + 1] =>
            /\ sent' \in [Publishers -> Nat] /\ sent'[d] = sent[d] + 1
            /\ \A e \in Publishers : e # d => sent'[e] = sent[e]
      BY <2>2
    <3> QED BY <2>2, <2>3, <3>1, <3>2
  <2> QED BY <2>3, <2>4 DEF OnTurn
<1>9. CASE UNCHANGED <<gw, config, data, thread, sent, held>>
  BY <1>9
<1>. QED
  BY <1>1, <1>2, <1>3, <1>4, <1>5, <1>6, <1>7, <1>8, <1>9, GatewaySteps DEF deviceVars

----------------------------------------------------------------------------
\* A device that is alone does not find another one writing.
LEMMA AloneWrites ==
  ASSUME GatewayPart, DevicePart, NEW d \in SimulatedDevices, Alone(d)
  PROVE  /\ Writing(d) = {} /\ \A e \in SimulatedDevices : thread[e] # "none" => e = d
<1>1. ASSUME NEW e \in SimulatedDevices, thread[e] # "none" PROVE e = d
  <2>1. e \in Publishers
    BY NamesDiffer
  <2>2. e \in ToSet(config.modules)
    BY <1>1, <2>1 DEF DevicePart
  <2> QED BY <2>2 DEF Alone
<1> QED BY <1>1 DEF Writing

\* Steps of the devices that TextPart is about.
LEMMA DeviceSteps ==
  ASSUME UploadNext \/ UNCHANGED uploadVars
  PROVE  \/ UNCHANGED <<msgText, held, sent, thread>>
         \/ \E d \in Publishers : thread' = [thread EXCEPT ![d] = "looks"] /\ UNCHANGED <<msgText, held, sent>>
         \/ \E d \in Publishers : thread' = [thread EXCEPT ![d] = "none"] /\ UNCHANGED <<msgText, held, sent>>
         \/ thread' = [d \in Publishers |-> "none"]
         \/ \E d \in Publishers : DeviceGoesOn(d) \/ ThreadPublishes(d)
<1>1. CASE UNCHANGED deviceVars
  BY <1>1 DEF deviceVars
<1>2. CASE Gateway_LL_Start
  <2>1. CASE UNCHANGED deviceVars
    BY <1>1, <2>1
  <2>2. CASE Head(gw.left) \in Publishers /\ StartDevice(Head(gw.left), failing)
    BY <2>2 DEF StartDevice
  <2> QED BY <1>2, <2>1, <2>2 DEF Gateway_LL_Start
<1>3. CASE Module_Destroy
  BY <1>3, <1>1 DEF Module_Destroy, StopDevice, JoinDevice
<1>4. CASE Killed
  BY <1>4 DEF Killed, DevicesKilled
<1>5. CASE GatewayCreate
  BY <1>5 DEF GatewayCreate, CreateDevices
<1>6. UNCHANGED uploadVars => UNCHANGED deviceVars
  BY DEF uploadVars
<1>7. CASE UploadNext
  BY <1>1, <1>2, <1>3, <1>4, <1>5, <1>7 DEF UploadNext, GatewayNext, WorkerNext,
     GatewayCreateFails, Gateway_LL_Destroy, Gateway_LL_RemoveLink, Broker_RemoveModule,
     WorkerJoined, DevicePublishes, MappingReceives, MappingPublishes, HubReceives, HubGoesOn,
     CloudSends, HubCallback, LoggerReceives, DeviceReceives
<1> QED BY <1>1, <1>6, <1>7

\* The configuration never changes.
LEMMA ConfigKeeps ==
  ASSUME UploadNext \/ UNCHANGED uploadVars
  PROVE  config' = config
  BY DEF uploadVars, UploadNext, GatewayNext, WorkerNext, GatewayCreate, GatewayCreateFails,
     Gateway_LL_Start, Gateway_LL_Destroy, Gateway_LL_RemoveLink, Broker_RemoveModule,
     WorkerJoined, Module_Destroy, Killed, DeviceGoesOn, DevicePublishes, MappingReceives,
     MappingPublishes, HubReceives, HubGoesOn, CloudSends, HubCallback, LoggerReceives,
     DeviceReceives

\* A device that is alone finds its own text.
LEMMA TextKeeps ==
  ASSUME GatewayPart, DevicePart, TextPart, UploadNext \/ UNCHANGED uploadVars
  PROVE  TextPart'
<1>1. config' = config
  BY ConfigKeeps
<1> SUFFICES ASSUME NEW d \in SimulatedDevices, Alone(d)
             PROVE  /\ thread'[d] \in {"writes", "copies"} => msgText' = <<d, sent'[d] + 1>>
                    /\ thread'[d] = "publishes" => held'[d] = <<d, sent'[d] + 1>>
  BY <1>1 DEF TextPart, Alone
<1>2. /\ thread[d] \in {"writes", "copies"} => msgText = <<d, sent[d] + 1>>
      /\ thread[d] = "publishes" => held[d] = <<d, sent[d] + 1>>
  BY DEF TextPart
<1>3. /\ Writing(d) = {} /\ \A e \in SimulatedDevices : thread[e] # "none" => e = d
      /\ d \in Publishers
  BY AloneWrites, NamesDiffer
<1>4. /\ thread \in [Publishers -> {"none", "looks", "writes", "copies", "publishes", "ended"}]
      /\ held = [e \in Publishers |-> held[e]] /\ sent \in [Publishers -> Nat]
  BY DEF DevicePart
<1>5. CASE UNCHANGED <<msgText, held, sent, thread>>
  BY <1>2, <1>5
<1>6. CASE \E e \in Publishers : \E at \in {"looks", "none"} :
              thread' = [thread EXCEPT ![e] = at] /\ UNCHANGED <<msgText, held, sent>>
  BY <1>2, <1>3, <1>4, <1>6
<1>7. CASE thread' = [e \in Publishers |-> "none"]
  BY <1>3, <1>7
<1>8. ASSUME NEW e \in Publishers, e # d, DeviceGoesOn(e) \/ ThreadPublishes(e)
      PROVE  /\ thread'[d] = thread[d] /\ held'[d] = held[d] /\ sent'[d] = sent[d]
             /\ msgText' = msgText
  <2>1. CASE e \in SimulatedDevices
    <3>1. thread[e] = "none"
      BY <1>3, <1>8, <2>1
    <3> QED BY <1>8, <3>1 DEF DeviceGoesOn, ThreadLooks, ThreadWrites, ThreadCopies, ThreadPublishes
  <2>2. CASE e \notin SimulatedDevices
    BY <1>3, <1>4, <1>8, <2>2 DEF DeviceGoesOn, ThreadLooks, ThreadWrites, ThreadCopies, ThreadPublishes
  <2> QED BY <2>1, <2>2
<1>9. CASE ThreadLooks(d)
  <2>1. /\ sent' = sent
        /\ \/ thread' = [thread EXCEPT ![d] = "ended"]
           \/ thread' = [thread EXCEPT ![d] = "writes"] /\ msgText' = <<d, sent[d] + 1>>
    BY <1>3, <1>9 DEF ThreadLooks
  <2> QED BY <1>3, <1>4, <2>1
<1>10. CASE ThreadWrites(d)
  BY <1>2, <1>3, <1>4, <1>10 DEF ThreadWrites
<1>11. CASE ThreadCopies(d, failing)
  <2>1. /\ sent' = sent /\ thread[d] = "copies"
        /\ \/ thread' = [thread EXCEPT ![d] = "looks"]
           \/ thread' = [thread EXCEPT ![d] = "publishes"] /\ held' = [held EXCEPT ![d] = msgText]
    BY <1>3, <1>11 DEF ThreadCopies
  <2> QED BY <1>2, <1>3, <1>4, <2>1
<1>12. CASE ThreadPublishes(d)
  <2>1. thread' = [thread EXCEPT ![d] = "looks"]
    BY <1>12 DEF ThreadPublishes
  <2> QED BY <1>3, <1>4, <2>1
<1>13. CASE \E e \in Publishers : DeviceGoesOn(e) \/ ThreadPublishes(e)
  <2>1. PICK e \in Publishers : DeviceGoesOn(e) \/ ThreadPublishes(e)
    BY <1>13
  <2>2. CASE e # d
    BY <1>2, <1>8, <2>1, <2>2
  <2>3. CASE e = d
    BY <1>9, <1>10, <1>11, <1>12, <2>1, <2>3 DEF DeviceGoesOn
  <2> QED BY <2>2, <2>3
<1> QED BY <1>5, <1>6, <1>7, <1>13, DeviceSteps

-----------------------------------------------------------------------------
(* The clients of the IoT Hub module *)

\* What a step does to the hub.
LEMMA HubSteps ==
  ASSUME UploadNext \/ UNCHANGED uploadVars
  PROVE  \/ UNCHANGED hubVars
         \/ inbox["IotHub"] # <<>> /\ IotHub_Receive(Head(inbox["IotHub"]), failing)
         \/ FillPersonality \/ PERSONALITY_find_or_create(failing) \/ PERSONALITY_destroy
         \/ SendEvent(failing) \/ DeleteStrings \/ DestroyClient \/ HubKilled
         \/ \E a \in Addresses : CommandArrives(a) \/ CallbackReads(a, failing) \/ CallbackPublishes(a)
<1>1. CASE UNCHANGED uploadVars
  BY <1>1 DEF uploadVars
<1>2. CASE GatewayNext \/ Killed
  BY <1>2 DEF GatewayNext, GatewayCreateFails, GatewayCreate, Gateway_LL_Start, Gateway_LL_Destroy,
              Gateway_LL_RemoveLink, Broker_RemoveModule, WorkerJoined, Module_Destroy, Killed
<1>3. CASE WorkerNext
  BY <1>3 DEF WorkerNext, MappingReceives, MappingPublishes, HubReceives, HubGoesOn, LoggerReceives, DeviceReceives,
              Takes
<1>4. CASE \E d \in Publishers : DeviceGoesOn(d) \/ DevicePublishes(d)
  BY <1>4 DEF DeviceGoesOn, DevicePublishes
<1>5. CASE \E a \in Addresses : CloudSends(a) \/ HubCallback(a)
  BY <1>5 DEF CloudSends, HubCallback
<1>. QED
  BY <1>1, <1>2, <1>3, <1>4, <1>5 DEF UploadNext

\* What IotHub_Receive takes for the cloud comes from the identity map.
LEMMA ForCloudIsNamed ==
  ASSUME NEW m, IsMessage(m), IsForCloud(m.properties)
  PROVE  IsNamedReading(m) /\ m.properties["deviceName"] \in DeviceIds
<1>1. /\ {"deviceName", "deviceKey"} \subseteq DOMAIN m.properties
      /\ "source" \in DOMAIN m.properties => m.properties["source"] = "mapping"
  BY DEF IsForCloud, ConstMap_GetValue
<1>2. ~IsReading(m)
  <2>1. ASSUME IsReading(m) PROVE FALSE
    <3>1. DOMAIN m.properties = {"source", "macAddress"} \/ DOMAIN m.properties = {"helloWorld"}
      BY <2>1 DEF IsReading
    <3>. QED
      BY <1>1, <3>1
  <2>. QED
    BY <2>1
<1>3. ~IsCommand(m)
  BY <1>1 DEF IsCommand
<1>4. ~IsAddressedCommand(m)
  BY <1>1 DEF IsAddressedCommand
<1>5. IsNamedReading(m)
  BY <1>2, <1>3, <1>4 DEF IsMessage
<1>. QED
  BY <1>5 DEF IsNamedReading, Belongs, DeviceIds

\* An entry of the heap changes, but it stays the PERSONALITY of its device.
LEMMA HubStays ==
  ASSUME HubPart, NEW a \in Addresses, heap[a].used, NEW p, IsPersonality(p), p.name = heap[a].name,
         heap' = [heap EXCEPT ![a] = p], personalities' = personalities,
         \/ worker' = worker
         \/ /\ worker.at \in {"created", "pushes"}
            /\ worker' = [worker EXCEPT !.at = IF worker.at = "created" THEN "pushes" ELSE "destroys"]
  PROVE  HubPart'
<1>. USE DEF HubPart
<1>1. /\ DOMAIN heap' = Addresses /\ heap' = [b \in Addresses |-> heap'[b]]
      /\ heap'[a] = p /\ \A b \in Addresses : b # a => heap'[b] = heap[b]
  OBVIOUS
<1>2. p.used = TRUE
  BY DEF IsPersonality
<1>3. \A b \in Addresses : /\ heap'[b] = Unused \/ IsPersonality(heap'[b])
                           /\ heap'[b].used = heap[b].used
                           /\ heap'[b].used => heap'[b].name = heap[b].name
  BY <1>1, <1>2 DEF IsPersonality, Unused
<1>4. \A i \in DOMAIN personalities : personalities[i] \in Addresses
  BY LenProperties, ElementOfSeq
<1>5. /\ personalities' \in Seq(Addresses) /\ IsInjective(personalities')
      /\ \A i \in DOMAIN personalities' : heap'[personalities'[i]].used
  BY <1>3, <1>4
<1>6. \/ worker = worker'
      \/ /\ worker' = [at |-> worker'.at, message |-> worker'.message, for |-> worker'.for]
         /\ worker.at \in {"created", "pushes"} /\ worker'.at \in {"pushes", "destroys"}
         /\ worker'.for = worker.for /\ worker.at # "idle"
  OBVIOUS
<1>7. MakesPersonality' <=> MakesPersonality
  BY <1>6 DEF MakesPersonality
<1>8. \/ worker' = [at |-> "idle"]
      \/ /\ worker' = [at |-> worker'.at, message |-> worker'.message, for |-> worker'.for]
         /\ worker'.at \in {"created", "pushes", "destroys", "sends"}
         /\ worker'.for \in Addresses /\ heap'[worker'.for].used
         /\ worker'.for \in ToSet(personalities') <=> worker'.at = "sends"
  <2>1. CASE worker' = worker
    <3>1. CASE worker = [at |-> "idle"]
      BY <2>1, <3>1
    <3>2. CASE worker # [at |-> "idle"]
      <4>1. /\ worker = [at |-> worker.at, message |-> worker.message, for |-> worker.for]
            /\ worker.at \in {"created", "pushes", "destroys", "sends"}
            /\ worker.for \in Addresses /\ heap[worker.for].used
            /\ worker.for \in ToSet(personalities) <=> worker.at = "sends"
        BY <3>2
      <4>2. heap'[worker.for].used
        BY <4>1, <1>3
      <4>. QED
        BY <2>1, <4>1, <4>2
    <3>. QED
      BY <3>1, <3>2
  <2>2. CASE worker' # worker
    <3>1. /\ worker.for \in Addresses /\ heap[worker.for].used
          /\ worker.for \in ToSet(personalities) <=> worker.at = "sends"
      BY <1>6, <2>2
    <3>. QED
      BY <1>3, <1>6, <2>2, <3>1
  <2>. QED
    BY <2>1, <2>2
<1>9. worker'.for = worker.for
  BY <1>6
<1>10. \A b \in Addresses : heap'[b].used =>
         b \in ToSet(personalities') \/ (MakesPersonality' /\ worker'.for = b)
  BY <1>3, <1>7, <1>9
<1>11. \A b, c \in Addresses :
         heap'[b].used /\ heap'[c].used /\ heap'[b].name = heap'[c].name => b = c
  BY <1>3
<1>. QED
  BY <1>1, <1>3, <1>5, <1>8, <1>10, <1>11

\* A field of a PERSONALITY is set.
LEMMA FieldIsSet ==
  ASSUME HubPart, NEW a \in Addresses, heap[a].used, NEW b \in BOOLEAN, NEW c
  PROVE  /\ IsPersonality([heap[a] EXCEPT !.named = b]) /\ IsPersonality([heap[a] EXCEPT !.filled = b])
         /\ IsPersonality([heap[a] EXCEPT !.callback = c])
         /\ [heap[a] EXCEPT !.named = b].name = heap[a].name
         /\ [heap[a] EXCEPT !.filled = b].name = heap[a].name
         /\ [heap[a] EXCEPT !.callback = c].name = heap[a].name
<1>1. IsPersonality(heap[a])
  BY DEF HubPart, Unused
<1>. QED
  BY <1>1 DEF IsPersonality

\* A worker that is not idle has a message and a client.
LEMMA WorkerHas ==
  ASSUME HubPart, worker.at # "idle"
  PROVE  /\ worker = [at |-> worker.at, message |-> worker.message, for |-> worker.for]
         /\ worker.at \in {"created", "pushes", "destroys", "sends"}
         /\ worker.for \in Addresses /\ heap[worker.for].used
         /\ worker.for \in ToSet(personalities) <=> worker.at = "sends"
  BY DEF HubPart

\* The vector holds clients that are there.
LEMMA VectorHas ==
  ASSUME HubPart
  PROVE  /\ \A i \in DOMAIN personalities : personalities[i] \in Addresses /\ heap[personalities[i]].used
         /\ \A a \in ToSet(personalities) : a \in Addresses /\ heap[a].used
<1>1. personalities \in Seq(Addresses) /\ \A i \in DOMAIN personalities : heap[personalities[i]].used
  BY DEF HubPart
<1>2. \A i \in DOMAIN personalities : personalities[i] \in Addresses
  BY <1>1, LenProperties, ElementOfSeq
<1>. QED
  BY <1>1, <1>2 DEF ToSet

\* Only the worker goes on.
LEMMA WorkStays ==
  ASSUME HubPart, heap' = heap, personalities' = personalities,
         \/ worker' = [at |-> "idle"]
         \/ /\ worker' = [at |-> worker'.at, message |-> worker'.message, for |-> worker'.for]
            /\ worker'.at = "sends" /\ worker'.for \in Addresses /\ heap[worker'.for].used
            /\ worker'.for \in ToSet(personalities),
         \A a \in Addresses : heap[a].used => a \in ToSet(personalities)
  PROVE  HubPart'
<1>1. /\ DOMAIN heap' = Addresses /\ heap' = [a \in Addresses |-> heap'[a]]
      /\ \A a \in Addresses : heap'[a] = Unused \/ IsPersonality(heap'[a])
  BY DEF HubPart
<1>2. /\ personalities' \in Seq(Addresses) /\ IsInjective(personalities')
      /\ \A i \in DOMAIN personalities' : heap'[personalities'[i]].used
      /\ \A a, b \in Addresses :
           heap'[a].used /\ heap'[b].used /\ heap'[a].name = heap'[b].name => a = b
  BY DEF HubPart
<1>3. \A a \in Addresses : heap'[a].used => a \in ToSet(personalities')
  OBVIOUS
<1>4. \/ worker' = [at |-> "idle"]
      \/ /\ worker' = [at |-> worker'.at, message |-> worker'.message, for |-> worker'.for]
         /\ worker'.at \in {"created", "pushes", "destroys", "sends"}
         /\ worker'.for \in Addresses /\ heap'[worker'.for].used
         /\ worker'.for \in ToSet(personalities') <=> worker'.at = "sends"
  OBVIOUS
<1>. QED
  BY <1>1, <1>2, <1>3, <1>4 DEF HubPart

\* No variable of the hub changes.
LEMMA HubRests ==
  ASSUME HubPart, UNCHANGED hubVars
  PROVE  HubPart'
<1>1. heap' = heap /\ personalities' = personalities /\ worker' = worker
  BY DEF hubVars
<1>2. MakesPersonality' <=> MakesPersonality
  BY <1>1 DEF MakesPersonality
<1>3. /\ DOMAIN heap' = Addresses /\ heap' = [a \in Addresses |-> heap'[a]]
      /\ \A a \in Addresses : heap'[a] = Unused \/ IsPersonality(heap'[a])
      /\ \A a, b \in Addresses :
           heap'[a].used /\ heap'[b].used /\ heap'[a].name = heap'[b].name => a = b
  BY <1>1 DEF HubPart
<1>4. /\ personalities' \in Seq(Addresses) /\ IsInjective(personalities')
      /\ \A i \in DOMAIN personalities' : heap'[personalities'[i]].used
  BY <1>1 DEF HubPart
<1>5. \A a \in Addresses : heap'[a].used =>
        a \in ToSet(personalities') \/ (MakesPersonality' /\ worker'.for = a)
  BY <1>1, <1>2 DEF HubPart
<1>6. \/ worker' = [at |-> "idle"]
      \/ /\ worker' = [at |-> worker'.at, message |-> worker'.message, for |-> worker'.for]
         /\ worker'.at \in {"created", "pushes", "destroys", "sends"}
         /\ worker'.for \in Addresses /\ heap'[worker'.for].used
         /\ worker'.for \in ToSet(personalities') <=> worker'.at = "sends"
  BY <1>1 DEF HubPart
<1>. QED
  BY <1>3, <1>4, <1>5, <1>6 DEF HubPart

\* A new client is in the hands of the worker, an old one in the vector.
LEMMA ReceiveKeepsHub ==
  ASSUME HubPart, NEW m, IsMessage(m), IotHub_Receive(m, failing)
  PROVE  HubPart'
<1>. USE DEF HubPart
<1>1. worker = [at |-> "idle"]
  BY DEF IotHub_Receive
<1>2. CASE UNCHANGED hubVars
  BY <1>2, HubRests
<1>3. ASSUME IsForCloud(m.properties),
             NEW a \in lookup_DeviceName(m.properties["deviceName"]),
             worker' = [at |-> "sends", message |-> m, for |-> a],
             UNCHANGED <<heap, personalities>>
      PROVE  HubPart'
  <2>1. a \in ToSet(personalities)
    BY <1>3 DEF lookup_DeviceName
  <2>2. a \in Addresses /\ heap[a].used
    BY <2>1, VectorHas
  <2>3. \A b \in Addresses : heap[b].used => b \in ToSet(personalities)
    BY <1>1 DEF MakesPersonality
  <2>4. worker'.at = "sends" /\ worker'.message = m /\ worker'.for = a
    BY <1>3
  <2>. HIDE DEF HubPart
  <2>. QED
    BY <1>3, <2>1, <2>2, <2>3, <2>4, WorkStays
<1>4. ASSUME IsForCloud(m.properties), lookup_DeviceName(m.properties["deviceName"]) = {},
             PERSONALITY_create(m)
      PROVE  HubPart'
  <2>. DEFINE p == NewPersonality(m.properties["deviceName"], m.properties["deviceKey"])
  <2>1. PICK a \in Addresses :
          /\ heap[a] = Unused /\ heap' = [heap EXCEPT ![a] = p]
          /\ worker' = [at |-> "created", message |-> m, for |-> a] /\ personalities' = personalities
    BY <1>4 DEF PERSONALITY_create
  <2>2. m.properties["deviceName"] \in DeviceIds
    BY <1>4, ForCloudIsNamed
  <2>3. IsPersonality(p) /\ p.name = m.properties["deviceName"] /\ p.used
    BY <2>2 DEF NewPersonality, IsPersonality
  <2>. HIDE DEF p
  <2>4. /\ DOMAIN heap' = Addresses /\ heap' = [b \in Addresses |-> heap'[b]]
        /\ heap'[a] = p /\ \A b \in Addresses : b # a => heap'[b] = heap[b]
    BY <2>1
  <2>5. \A i \in DOMAIN personalities : personalities[i] \in Addresses /\ heap[personalities[i]].used
    BY VectorHas
  <2>6. ~heap[a].used
    BY <2>1 DEF Unused
  <2>7. a \notin ToSet(personalities)
    BY <2>5, <2>6 DEF ToSet
  <2>8. \A b \in Addresses : heap[b].used =>
          b \in ToSet(personalities) /\ heap[b].name # m.properties["deviceName"]
    BY <1>1, <1>4 DEF MakesPersonality, lookup_DeviceName
  <2>9. \A i \in DOMAIN personalities : heap'[personalities[i]].used
    BY <2>3, <2>4, <2>5
  <2>10. \A b, c \in Addresses :
           heap'[b].used /\ heap'[c].used /\ heap'[b].name = heap'[c].name => b = c
    BY <2>3, <2>4, <2>8
  <2>11. \A b \in Addresses : heap'[b] = Unused \/ IsPersonality(heap'[b])
    BY <2>3, <2>4
  <2>12. \A b \in Addresses : heap'[b].used => b = a \/ b \in ToSet(personalities)
    BY <2>4, <2>8
  <2>13. /\ worker' = [at |-> worker'.at, message |-> worker'.message, for |-> worker'.for]
         /\ worker'.at = "created" /\ worker'.for = a
    BY <2>1
  <2>. QED
    BY <2>1, <2>3, <2>4, <2>7, <2>9, <2>10, <2>11, <2>12, <2>13 DEF MakesPersonality
<1>. QED
  BY <1>2, <1>3, <1>4 DEF IotHub_Receive

\* A client that is destroyed is in the vector or with the worker, not both.
LEMMA DestroyKeepsHub ==
  ASSUME HubPart, PERSONALITY_destroy \/ DestroyClient
  PROVE  HubPart'
<1>. USE DEF HubPart
<1>1. \A i \in DOMAIN personalities : personalities[i] \in Addresses /\ heap[personalities[i]].used
  BY VectorHas
<1>2. ~Unused.used
  BY DEF Unused
<1>3. CASE PERSONALITY_destroy
  <2>. DEFINE a == worker.for
  <2>1. /\ worker.at = "destroys" /\ heap' = [heap EXCEPT ![a] = Unused]
        /\ worker' = [at |-> "idle"] /\ personalities' = personalities
    BY <1>3 DEF PERSONALITY_destroy
  <2>2. a \in Addresses /\ a \notin ToSet(personalities)
    BY <2>1
  <2>3. \A b \in Addresses : heap[b].used => b \in ToSet(personalities) \/ b = a
    OBVIOUS
  <2>. HIDE DEF a
  <2>4. /\ DOMAIN heap' = Addresses /\ heap' = [b \in Addresses |-> heap'[b]]
        /\ heap'[a] = Unused /\ \A b \in Addresses : b # a => heap'[b] = heap[b]
    BY <2>1, <2>2
  <2>5. \A i \in DOMAIN personalities : personalities[i] # a
    BY <2>2 DEF ToSet
  <2>6. \A i \in DOMAIN personalities : heap'[personalities[i]].used
    BY <1>1, <2>4, <2>5
  <2>7. \A b, c \in Addresses :
          heap'[b].used /\ heap'[c].used /\ heap'[b].name = heap'[c].name => b = c
    BY <1>2, <2>4
  <2>. QED
    BY <1>2, <2>1, <2>3, <2>4, <2>6, <2>7
<1>4. CASE DestroyClient
  <2>. DEFINE a == Head(personalities)
  <2>1. /\ worker.at = "idle" /\ personalities # <<>> /\ heap' = [heap EXCEPT ![a] = Unused]
        /\ worker' = worker /\ personalities' = Tail(personalities)
    BY <1>4 DEF DestroyClient
  <2>2. /\ a \in Addresses /\ a \in ToSet(personalities)
        /\ personalities' \in Seq(Addresses) /\ IsInjective(personalities')
        /\ ToSet(personalities') = ToSet(personalities) \ {a}
    <3>1. personalities \in Seq(Addresses) /\ IsInjective(personalities) /\ personalities # <<>>
      BY <2>1
    <3>2. /\ a \in Addresses /\ Tail(personalities) \in Seq(Addresses)
          /\ IsInjective(Tail(personalities)) /\ a \in ToSet(personalities)
          /\ ToSet(Tail(personalities)) = ToSet(personalities) \ {a}
      BY <3>1, TailOfDifferent
    <3>. QED
      BY <2>1, <3>2
  <2>. HIDE DEF a
  <2>3. worker = [at |-> "idle"]
    BY <2>1
  <2>4. /\ DOMAIN heap' = Addresses /\ heap' = [b \in Addresses |-> heap'[b]]
        /\ heap'[a] = Unused /\ \A b \in Addresses : b # a => heap'[b] = heap[b]
    BY <2>1, <2>2
  <2>5. \A b \in ToSet(personalities) : b \in Addresses /\ heap[b].used
    BY <1>1 DEF ToSet
  <2>6. \A b \in ToSet(personalities') : heap'[b].used
    BY <2>2, <2>4, <2>5
  <2>7. \A i \in DOMAIN personalities' : heap'[personalities'[i]].used
    BY <2>6 DEF ToSet
  <2>8. \A b, c \in Addresses :
          heap'[b].used /\ heap'[c].used /\ heap'[b].name = heap'[c].name => b = c
    BY <1>2, <2>4
  <2>9. \A b \in Addresses : heap[b].used => b \in ToSet(personalities)
    BY <2>3 DEF MakesPersonality
  <2>10. \A b \in Addresses : heap'[b].used => b \in ToSet(personalities')
    BY <1>2, <2>2, <2>4, <2>9
  <2>. QED
    BY <2>1, <2>2, <2>3, <2>4, <2>7, <2>8, <2>10
<1>. QED
  BY <1>3, <1>4

\* The client of the worker goes to the vector.
LEMMA PushKeepsHub ==
  ASSUME HubPart, worker.at = "pushes", personalities' = Append(personalities, worker.for),
         worker' = [worker EXCEPT !.at = "sends"], heap' = heap
  PROVE  HubPart'
<1>. USE DEF HubPart
<1>. DEFINE a == worker.for
<1>1. /\ worker = [at |-> worker.at, message |-> worker.message, for |-> a]
      /\ a \in Addresses /\ heap[a].used /\ a \notin ToSet(personalities)
  BY WorkerHas
<1>2. /\ worker' = [at |-> worker'.at, message |-> worker'.message, for |-> worker'.for]
      /\ worker'.at = "sends" /\ worker'.for = a
  BY <1>1
<1>. HIDE DEF a
<1>3. Len(personalities) \in Nat /\ DOMAIN personalities = 1..Len(personalities)
  BY LenProperties
<1>. DEFINE n == Len(personalities)
            t == Append(personalities, a)
<1>4. /\ t \in Seq(Addresses) /\ DOMAIN t = 1..(n + 1) /\ t[n + 1] = a
      /\ \A i \in 1..n : t[i] = personalities[i]
  <2>1. /\ t \in Seq(Addresses) /\ Len(t) = n + 1 /\ t[n + 1] = a
        /\ \A i \in 1..n : t[i] = personalities[i]
    BY <1>1, AppendProperties
  <2>. HIDE DEF t, n
  <2>. QED
    BY <2>1, LenProperties
<1>5. personalities' = t
  BY DEF a
<1>. HIDE DEF t
<1>6. \A i \in 1..n : personalities[i] # a /\ heap[personalities[i]].used
  BY <1>1, <1>3 DEF ToSet
<1>7. \A i, j \in 1..n : personalities[i] = personalities[j] => i = j
  BY <1>3 DEF IsInjective
<1>8. n \in Nat /\ DOMAIN personalities = 1..n
  BY <1>3
<1>. HIDE DEF n
<1>9. \A i \in 1..(n + 1) : i \in 1..n \/ i = n + 1
  BY <1>8
<1>10. IsInjective(t)
  <2>. HIDE DEF HubPart
  <2>1. SUFFICES ASSUME NEW i \in 1..(n + 1), NEW j \in 1..(n + 1), t[i] = t[j] PROVE i = j
    BY <1>4 DEF IsInjective
  <2>2. CASE i \in 1..n /\ j \in 1..n
    BY <1>4, <1>7, <2>1, <2>2
  <2>3. CASE i = n + 1
    BY <1>4, <1>6, <1>9, <2>1, <2>3
  <2>4. CASE j = n + 1
    BY <1>4, <1>6, <1>9, <2>1, <2>4
  <2>. QED
    BY <1>9, <2>2, <2>3, <2>4
<1>11. ToSet(t) = ToSet(personalities) \cup {a}
  <2>1. n + 1 \in 1..(n + 1) /\ \A i \in 1..n : i \in 1..(n + 1)
    BY <1>8
  <2>. QED
    BY <1>4, <1>8, <1>9, <2>1 DEF ToSet
<1>12. \A i \in DOMAIN t : heap[t[i]].used
  BY <1>1, <1>4, <1>6, <1>9
<1>13. \A b \in Addresses : heap[b].used => b \in ToSet(personalities) \/ b = a
  BY DEF a
<1>14. a \in ToSet(t) /\ worker' # [at |-> "idle"]
  BY <1>2, <1>11
<1>15. heap = [b \in Addresses |-> heap[b]] /\ heap' = heap
       /\ \A b \in Addresses : heap[b] = Unused \/ IsPersonality(heap[b])
  OBVIOUS
<1>16. \A b \in Addresses : heap'[b].used =>
         b \in ToSet(personalities') \/ (MakesPersonality' /\ worker'.for = b)
  BY <1>5, <1>11, <1>13, <1>15
<1>17. /\ worker'.at \in {"created", "pushes", "destroys", "sends"}
       /\ worker'.for \in Addresses /\ heap'[worker'.for].used
       /\ worker'.for \in ToSet(personalities') <=> worker'.at = "sends"
  BY <1>1, <1>2, <1>5, <1>14, <1>15
<1>18. \A b, c \in Addresses :
         heap'[b].used /\ heap'[c].used /\ heap'[b].name = heap'[c].name => b = c
  BY <1>15
<1>. QED
  BY <1>2, <1>4, <1>5, <1>10, <1>12, <1>15, <1>16, <1>17, <1>18

LEMMA HubKeeps ==
  ASSUME HubPart, InboxPart, UploadNext \/ UNCHANGED uploadVars
  PROVE  HubPart'
<1>1. CASE UNCHANGED hubVars
  BY <1>1, HubRests
<1>2. CASE inbox["IotHub"] # <<>> /\ IotHub_Receive(Head(inbox["IotHub"]), failing)
  <2>1. /\ inbox["IotHub"] \in Seq(ToSet(inbox["IotHub"]))
        /\ \A x \in ToSet(inbox["IotHub"]) : IsMessage(x)
    BY NamesDiffer DEF InboxPart, Queue
  <2>2. IsMessage(Head(inbox["IotHub"]))
    BY <1>2, <2>1, HeadTailProperties
  <2>. QED
    BY <1>2, <2>2, ReceiveKeepsHub
<1>3. CASE FillPersonality
  <2>. DEFINE a == worker.for
              p == [heap[a] EXCEPT !.filled = TRUE]
  <2>1. /\ worker.at = "created" /\ heap' = [heap EXCEPT ![a].filled = TRUE]
        /\ worker' = [worker EXCEPT !.at = "pushes"] /\ personalities' = personalities
    BY <1>3 DEF FillPersonality
  <2>2. a \in Addresses /\ heap[a].used
    BY <2>1, WorkerHas
  <2>3. heap' = [heap EXCEPT ![a] = p]
    BY <2>1
  <2>4. IsPersonality(p) /\ p.name = heap[a].name
    BY <2>2, FieldIsSet
  <2>. HIDE DEF p, a
  <2>. QED
    BY <2>1, <2>2, <2>3, <2>4, HubStays
<1>4. CASE PERSONALITY_find_or_create(failing)
  <2>1. CASE personalities' = Append(personalities, worker.for)
             /\ worker' = [worker EXCEPT !.at = "sends"] /\ heap' = heap
    BY <1>4, <2>1, PushKeepsHub DEF PERSONALITY_find_or_create
  <2>2. CASE /\ heap' = [heap EXCEPT ![worker.for].named = FALSE]
             /\ worker' = [worker EXCEPT !.at = "destroys"] /\ personalities' = personalities
    <3>. DEFINE a == worker.for
                p == [heap[a] EXCEPT !.named = FALSE]
    <3>1. worker.at = "pushes"
      BY <1>4 DEF PERSONALITY_find_or_create
    <3>2. a \in Addresses /\ heap[a].used
      BY <3>1, WorkerHas
    <3>3. heap' = [heap EXCEPT ![a] = p]
      BY <2>2
    <3>4. IsPersonality(p) /\ p.name = heap[a].name
      BY <3>2, FieldIsSet
    <3>. HIDE DEF p, a
    <3>. QED
      BY <2>2, <3>1, <3>2, <3>3, <3>4, HubStays
  <2>. QED
    BY <1>4, <2>1, <2>2 DEF PERSONALITY_find_or_create
<1>5. CASE PERSONALITY_destroy \/ DestroyClient
  BY <1>5, DestroyKeepsHub
<1>6. CASE SendEvent(failing)
  <2>1. worker.at = "sends" /\ worker' = [at |-> "idle"]
        /\ heap' = heap /\ personalities' = personalities
    BY <1>6 DEF SendEvent
  <2>2. \A a \in Addresses : heap[a].used => a \in ToSet(personalities)
    BY <2>1 DEF HubPart, MakesPersonality
  <2>. QED
    BY <2>1, <2>2, WorkStays
<1>7. CASE DeleteStrings
  <2>. DEFINE a == Head(personalities)
              p == [heap[a] EXCEPT !.named = FALSE]
  <2>1. /\ personalities # <<>> /\ heap' = [heap EXCEPT ![a].named = FALSE]
        /\ worker' = worker /\ personalities' = personalities
    BY <1>7 DEF DeleteStrings
  <2>2. a \in Addresses /\ heap[a].used
    <3>1. personalities \in Seq(Addresses) /\ IsInjective(personalities)
          /\ \A b \in ToSet(personalities) : heap[b].used
      BY DEF HubPart, ToSet
    <3>2. a \in Addresses /\ a \in ToSet(personalities)
      BY <2>1, <3>1, TailOfDifferent
    <3>. QED
      BY <3>1, <3>2
  <2>3. heap' = [heap EXCEPT ![a] = p]
    BY <2>1
  <2>4. IsPersonality(p) /\ p.name = heap[a].name
    BY <2>2, FieldIsSet
  <2>. HIDE DEF p, a
  <2>. QED
    BY <2>1, <2>2, <2>3, <2>4, HubStays
<1>8. CASE \E a \in Addresses : CommandArrives(a) \/ CallbackReads(a, failing) \/ CallbackPublishes(a)
  <2>1. PICK a \in Addresses : CommandArrives(a) \/ CallbackReads(a, failing) \/ CallbackPublishes(a)
    BY <1>8
  <2>2. heap[a].used /\ UNCHANGED <<personalities, worker>>
    BY <2>1 DEF CommandArrives, CallbackReads, CallbackPublishes
  <2>3. PICK c : heap' = [heap EXCEPT ![a].callback = c]
    BY <2>1 DEF CommandArrives, CallbackReads, CallbackPublishes
  <2>. DEFINE p == [heap[a] EXCEPT !.callback = c]
  <2>4. heap' = [heap EXCEPT ![a] = p]
    BY <2>3
  <2>5. IsPersonality(p) /\ p.name = heap[a].name
    BY <2>2, FieldIsSet
  <2>. HIDE DEF p
  <2>. QED
    BY <2>2, <2>4, <2>5, HubStays
<1>9. CASE HubKilled
  <2>1. /\ heap' = [a \in Addresses |-> Unused] /\ personalities' = <<>> /\ worker' = [at |-> "idle"]
    BY <1>9 DEF HubKilled
  <2>. QED
    BY <2>1, EmptySeq DEF HubPart, IsInjective, Unused
<1>. QED
  BY <1>1, <1>2, <1>3, <1>4, <1>5, <1>6, <1>7, <1>8, <1>9, HubSteps

-----------------------------------------------------------------------------
(* Messages in the identity map *)

\* A message of a device gets the name and key of the match, for its address.
LEMMA RepublishD2CGives ==
  ASSUME NEW p, NEW e
  PROVE  LET r == IdentityMap_RepublishD2C(p, e)
         IN  /\ DOMAIN r = (DOMAIN p \cup {"deviceName", "deviceKey", "source"}) \ {"macAddress"}
             /\ r["source"] = "mapping" /\ r["deviceName"] = e.deviceId
<1>. DEFINE a == Map_AddOrUpdate(p, "deviceName", e.deviceId)
            b == Map_AddOrUpdate(a, "deviceKey", e.deviceKey)
            c == Map_AddOrUpdate(b, "source", "mapping")
            r == Map_Delete(c, "macAddress")
<1>1. DOMAIN a = DOMAIN p \cup {"deviceName"} /\ a["deviceName"] = e.deviceId
  BY DEF Map_AddOrUpdate
<1>2. IdentityMap_RepublishD2C(p, e) = r
  BY DEF IdentityMap_RepublishD2C
<1>. HIDE DEF a
<1>3. DOMAIN b = DOMAIN a \cup {"deviceKey"} /\ \A x \in DOMAIN a \ {"deviceKey"} : b[x] = a[x]
  BY DEF Map_AddOrUpdate
<1>. HIDE DEF b
<1>4. /\ DOMAIN c = DOMAIN b \cup {"source"} /\ c["source"] = "mapping"
      /\ \A x \in DOMAIN b \ {"source"} : c[x] = b[x]
  BY DEF Map_AddOrUpdate
<1>. HIDE DEF c
<1>5. DOMAIN r = DOMAIN c \ {"macAddress"} /\ \A x \in DOMAIN c \ {"macAddress"} : r[x] = c[x]
  BY DEF Map_Delete, Restrict
<1>. HIDE DEF r
<1>6. /\ DOMAIN r = (DOMAIN p \cup {"deviceName", "deviceKey", "source"}) \ {"macAddress"}
      /\ r["source"] = "mapping" /\ r["deviceName"] = e.deviceId
  BY <1>1, <1>3, <1>4, <1>5
<1>. QED
  BY <1>2, <1>6

\* A message of the cloud gets the address of the match, for its name and key.
LEMMA RepublishC2DGives ==
  ASSUME NEW p, NEW e
  PROVE  LET r == IdentityMap_RepublishC2D(p, e)
         IN  /\ DOMAIN r = (DOMAIN p \cup {"macAddress", "source"}) \ {"deviceName", "deviceKey"}
             /\ r["source"] = "mapping" /\ r["macAddress"] = e.macAddress
<1>. DEFINE a == Map_AddOrUpdate(p, "macAddress", e.macAddress)
            b == Map_AddOrUpdate(a, "source", "mapping")
            c == Map_Delete(b, "deviceName")
            r == Map_Delete(c, "deviceKey")
<1>1. DOMAIN a = DOMAIN p \cup {"macAddress"} /\ a["macAddress"] = e.macAddress
  BY DEF Map_AddOrUpdate
<1>2. IdentityMap_RepublishC2D(p, e) = r
  BY DEF IdentityMap_RepublishC2D
<1>. HIDE DEF a
<1>3. /\ DOMAIN b = DOMAIN a \cup {"source"} /\ b["source"] = "mapping"
      /\ \A x \in DOMAIN a \ {"source"} : b[x] = a[x]
  BY DEF Map_AddOrUpdate
<1>. HIDE DEF b
<1>4. DOMAIN c = DOMAIN b \ {"deviceName"} /\ \A x \in DOMAIN b \ {"deviceName"} : c[x] = b[x]
  BY DEF Map_Delete, Restrict
<1>. HIDE DEF c
<1>5. DOMAIN r = DOMAIN c \ {"deviceKey"} /\ \A x \in DOMAIN c \ {"deviceKey"} : r[x] = c[x]
  BY DEF Map_Delete, Restrict
<1>. HIDE DEF r
<1>6. /\ DOMAIN r = (DOMAIN p \cup {"macAddress", "source"}) \ {"deviceName", "deviceKey"}
      /\ r["source"] = "mapping" /\ r["macAddress"] = e.macAddress
  BY <1>1, <1>3, <1>4, <1>5
<1>. QED
  BY <1>2, <1>6

\* An entry of the table is one of the configuration, its address in upper case.
LEMMA EntryHas ==
  ASSUME TablePart, NEW e \in table
  PROVE  \E j \in DOMAIN Mapping : /\ e.deviceId = Mapping[j].deviceId
                                   /\ e.macAddress = Upper[Mapping[j].macAddress]
<1>1. PICK j \in DOMAIN Mapping :
        e = [Mapping[j] EXCEPT !.macAddress = Upper[Mapping[j].macAddress]]
  BY DEF TablePart
<1>2. DOMAIN Mapping[j] = {"macAddress", "deviceId", "deviceKey"}
  BY MappingAssumption
<1>. QED
  BY <1>1, <1>2

\* What the identity map makes of a reading, and of a command; it makes
\* nothing of the rest.
LEMMA MapsReading ==
  ASSUME TablePart, NEW m, IsReading(m), NEW p \in IdentityMap_Receive(table, m.properties)
  PROVE  m.of[1] \in SimulatedDevices /\ IsNamedReading([properties |-> p, content |-> m.content, of |-> m.of])
<1>. DEFINE d == m.of[1]
            direction == determine_message_direction(Source(m))
            name == ConstMap_GetValue(m.properties, "deviceName")
            messageMac == IdentityMapConfig_ToUpperCase(ConstMap_GetValue(m.properties, "macAddress"))
<1>1. name = Absent
  BY DEF IsReading, ConstMap_GetValue
<1>2. /\ messageMac # Absent
      /\ p \in {IdentityMap_RepublishD2C(m.properties, e) : e \in MatchesMac(table, messageMac)}
  BY <1>1 DEF IdentityMap_Receive, Source
<1>3. d \in SimulatedDevices
  <2>1. ASSUME d \notin SimulatedDevices PROVE FALSE
    <3>1. "macAddress" \notin DOMAIN m.properties
      BY <2>1 DEF IsReading
    <3>. QED
      BY <1>2, <3>1 DEF ConstMap_GetValue, IdentityMapConfig_ToUpperCase
  <2>. QED
    BY <2>1
<1>4. m.properties = [source |-> "bleTelemetry", macAddress |-> Mac[d]]
  BY <1>3 DEF IsReading
<1>5. messageMac = Upper[Mac[d]]
  <2>1. ConstMap_GetValue(m.properties, "macAddress") = Mac[d]
    BY <1>4 DEF ConstMap_GetValue
  <2>2. Mac[d] # Absent
    BY <1>3, DevicesAssumption, SpellingsAssumption
  <2>. QED
    BY <2>1, <2>2 DEF IdentityMapConfig_ToUpperCase
<1>. HIDE DEF messageMac, name
<1>6. PICK e \in MatchesMac(table, messageMac) : p = IdentityMap_RepublishD2C(m.properties, e)
  BY <1>2
<1>7. e \in table /\ e.macAddress = Upper[Mac[d]]
  BY <1>5 DEF MatchesMac
<1>8. PICK j \in DOMAIN Mapping : e.deviceId = Mapping[j].deviceId
                                  /\ e.macAddress = Upper[Mapping[j].macAddress]
  BY <1>7, EntryHas
<1>9. Belongs(e.deviceId, d)
  BY <1>7, <1>8 DEF Belongs
<1>10. /\ DOMAIN p = (DOMAIN m.properties \cup {"deviceName", "deviceKey", "source"}) \ {"macAddress"}
       /\ p["source"] = "mapping" /\ p["deviceName"] = e.deviceId
  BY <1>6, RepublishD2CGives
<1>11. DOMAIN p = {"source", "deviceName", "deviceKey"}
  BY <1>4, <1>10
<1>12. m.of[2] \in Nat /\ (Alone(d) => m.content = m.of)
  BY <1>3 DEF IsReading
<1>. QED
  BY <1>3, <1>9, <1>10, <1>11, <1>12 DEF IsNamedReading

LEMMA MapsCommand ==
  ASSUME TablePart, NEW m, IsCommand(m), NEW p \in IdentityMap_Receive(table, m.properties)
  PROVE  IsAddressedCommand([properties |-> p, content |-> m.content, of |-> m.of])
<1>. DEFINE n == m.properties["deviceName"]
<1>1. /\ m.of[1] = "cloud" /\ {"source", "deviceName"} \subseteq DOMAIN m.properties
      /\ DOMAIN m.properties \subseteq Names /\ m.properties["source"] = "iothub"
      /\ n \in {m.of[2], "overwritten"}
  BY DEF IsCommand
<1>2. Source(m) = "iothub" /\ ConstMap_GetValue(m.properties, "deviceName") = n
  BY <1>1 DEF Source, ConstMap_GetValue
<1>3. determine_message_direction("iothub") = "C2D"
  BY SpellingsAssumption DEF determine_message_direction
<1>4. p \in {IdentityMap_RepublishC2D(m.properties, e) : e \in MatchesName(table, n)}
  BY <1>2, <1>3 DEF IdentityMap_Receive, Source
<1>5. PICK e \in MatchesName(table, n) : p = IdentityMap_RepublishC2D(m.properties, e)
  BY <1>4
<1>6. e \in table /\ e.deviceId = n
  BY DEF MatchesName
<1>7. PICK j \in DOMAIN Mapping : e.deviceId = Mapping[j].deviceId
                                  /\ e.macAddress = Upper[Mapping[j].macAddress]
  BY <1>6, EntryHas
<1>8. n # "overwritten"
  BY <1>6, <1>7, MappingAssumption
<1>9. /\ DOMAIN p = (DOMAIN m.properties \cup {"macAddress", "source"}) \ {"deviceName", "deviceKey"}
      /\ p["source"] = "mapping" /\ p["macAddress"] = e.macAddress
  BY <1>5, RepublishC2DGives
<1>10. /\ DOMAIN p \subseteq Names \ {"deviceName", "deviceKey"}
       /\ {"source", "macAddress"} \subseteq DOMAIN p
  BY <1>1, <1>9 DEF Names
<1>. QED
  BY <1>1, <1>6, <1>7, <1>8, <1>9, <1>10 DEF IsAddressedCommand

LEMMA MapsNothingElse ==
  ASSUME NEW m, IsNamedReading(m) \/ IsAddressedCommand(m)
  PROVE  IdentityMap_Receive(table, m.properties) = {}
<1>1. Source(m) = "mapping"
  BY DEF Source, ConstMap_GetValue, IsNamedReading, IsAddressedCommand
<1>2. determine_message_direction("mapping") = "none"
  BY DEF determine_message_direction
<1>. QED
  BY <1>1, <1>2 DEF IdentityMap_Receive, Source

\* What a message of each kind is made into.
LEMMA Maps ==
  ASSUME TablePart, NEW m, IsMessage(m), NEW p \in IdentityMap_Receive(table, m.properties),
         NEW n, n = [m EXCEPT !.properties = p]
  PROVE  /\ IsMessage(n) /\ n.of = m.of /\ n.properties = p
         /\ \/ IsReading(m) /\ IsNamedReading(n)
            \/ IsCommand(m) /\ IsAddressedCommand(n)
<1>1. n = [properties |-> p, content |-> m.content, of |-> m.of]
  BY DEF IsMessage
<1>2. IsReading(m) \/ IsCommand(m)
  BY MapsNothingElse DEF IsMessage
<1>3. (IsReading(m) /\ IsNamedReading(n)) \/ (IsCommand(m) /\ IsAddressedCommand(n))
  BY <1>1, <1>2, MapsReading, MapsCommand
<1>4. /\ n = [properties |-> n.properties, content |-> n.content, of |-> n.of]
      /\ n.of = m.of /\ n.properties = p
  BY <1>1
<1>. QED
  BY <1>3, <1>4 DEF IsMessage

-----------------------------------------------------------------------------
(* Queues *)

\* A sequence after Append and after Tail.
LEMMA SequenceGrows ==
  ASSUME NEW s, s \in Seq(ToSet(s)), NEW x
  PROVE  LET t == Append(s, x)
         IN  /\ t \in Seq(ToSet(t)) /\ ToSet(t) = ToSet(s) \cup {x}
             /\ Len(s) \in Nat /\ DOMAIN s = 1..Len(s) /\ DOMAIN t = 1..(Len(s) + 1)
             /\ t[Len(s) + 1] = x /\ \A i \in 1..Len(s) : t[i] = s[i]
<1>. DEFINE S == ToSet(s) \cup {x}
            t == Append(s, x)
            n == Len(s)
<1>1. s \in Seq(S)
  BY SeqMonotonic
<1>. HIDE DEF S
<1>2. x \in S
  BY DEF S
<1>3. /\ t \in Seq(S) /\ Len(t) = n + 1 /\ t[n + 1] = x /\ \A i \in 1..n : t[i] = s[i]
  BY <1>1, <1>2, AppendProperties
<1>4. n \in Nat /\ DOMAIN s = 1..n
  BY <1>1, LenProperties
<1>. HIDE DEF t
<1>5. DOMAIN t = 1..(n + 1)
  BY <1>3, LenProperties
<1>. HIDE DEF n
<1>6. ToSet(t) = S
  <2>1. \A i \in 1..(n + 1) : i \in 1..n \/ i = n + 1
    BY <1>4
  <2>2. n + 1 \in 1..(n + 1) /\ \A i \in 1..n : i \in 1..(n + 1)
    BY <1>4
  <2>3. \A y \in ToSet(t) : y \in S
    BY <1>3, <1>4, <1>5, <2>1 DEF ToSet, S
  <2>4. \A y \in ToSet(s) : y \in ToSet(t)
    BY <1>3, <1>4, <1>5, <2>2 DEF ToSet
  <2>5. x \in ToSet(t)
    BY <1>3, <1>5, <2>2 DEF ToSet
  <2>. QED
    BY <2>3, <2>4, <2>5 DEF S
<1>. QED
  BY <1>3, <1>4, <1>5, <1>6 DEF t, n, S

LEMMA SequenceShrinks ==
  ASSUME NEW s, s \in Seq(ToSet(s)), s # <<>>
  PROVE  LET t == Tail(s)
         IN  /\ t \in Seq(ToSet(t)) /\ ToSet(t) \subseteq ToSet(s) /\ Head(s) \in ToSet(s)
             /\ Len(s) \in Nat /\ DOMAIN s = 1..Len(s) /\ DOMAIN t = 1..(Len(s) - 1)
             /\ Head(s) = s[1] /\ 1 \in DOMAIN s
             /\ \A i \in DOMAIN t : t[i] = s[i + 1] /\ i + 1 \in DOMAIN s /\ i + 1 > 1
<1>. DEFINE S == ToSet(s)
            t == Tail(s)
            n == Len(s)
<1>. HIDE DEF S
<1>1. s \in Seq(S)
  BY DEF S
<1>2. /\ Head(s) \in S /\ t \in Seq(S) /\ Len(t) = n - 1
      /\ \A i \in 1..Len(t) : t[i] = s[i + 1]
  BY <1>1, HeadTailProperties
<1>3. n \in Nat /\ n > 0 /\ DOMAIN s = 1..n /\ Head(s) = s[1]
  BY <1>1, EmptySeq, LenProperties
<1>. HIDE DEF t, n
<1>4. DOMAIN t = 1..(n - 1)
  BY <1>2, LenProperties
<1>5. t \in Seq(Range(t))
  BY <1>2, SeqOfRange
<1>6. Range(t) = ToSet(t)
  BY DEF Range, ToSet
<1>7. \A i \in DOMAIN t : t[i] = s[i + 1] /\ i + 1 \in DOMAIN s /\ i + 1 > 1
  BY <1>2, <1>3, <1>4
<1>8. ToSet(t) \subseteq ToSet(s)
  BY <1>7 DEF ToSet
<1>9. 1 \in DOMAIN s
  BY <1>3
<1>. QED
  BY <1>2, <1>3, <1>4, <1>5, <1>6, <1>7, <1>8, <1>9 DEF S, t, n

\* Queues hold messages.
LEMMA EmptyQueue == Queue(<<>>)
  BY EmptySeq DEF Queue, ToSet

LEMMA QueueGrows ==
  ASSUME NEW s, Queue(s), NEW x, IsMessage(x)
  PROVE  Queue(Append(s, x))
<1>1. s \in Seq(ToSet(s)) /\ \A y \in ToSet(s) : IsMessage(y)
  BY DEF Queue
<1>2. Append(s, x) \in Seq(ToSet(Append(s, x))) /\ ToSet(Append(s, x)) = ToSet(s) \cup {x}
  BY <1>1, SequenceGrows
<1>. QED
  BY <1>1, <1>2 DEF Queue

LEMMA QueueShrinks ==
  ASSUME NEW s, Queue(s), s # <<>>
  PROVE  Queue(Tail(s)) /\ IsMessage(Head(s))
<1>1. s \in Seq(ToSet(s)) /\ \A y \in ToSet(s) : IsMessage(y)
  BY DEF Queue
<1>2. /\ Tail(s) \in Seq(ToSet(Tail(s))) /\ ToSet(Tail(s)) \subseteq ToSet(s) /\ Head(s) \in ToSet(s)
  BY <1>1, SequenceShrinks
<1>. QED
  BY <1>1, <1>2 DEF Queue

LEMMA ReadingIsMessage ==
  ASSUME DevicePart, TextPart, NEW d \in Publishers, thread[d] = "publishes"
  PROVE  IsMessage(Reading(d)) /\ IsReading(Reading(d)) /\ Reading(d).of = <<d, sent[d] + 1>>
<1>. DEFINE n == sent[d] + 1
<1>1. n \in Nat
  BY DEF DevicePart
<1>2. Reading(d) = [properties |-> IF d \in SimulatedDevices
                                   THEN [source |-> "bleTelemetry", macAddress |-> Mac[d]]
                                   ELSE [helloWorld |-> "text"],
                     content |-> held[d], of |-> <<d, n>>]
  BY DEF Reading, n
<1>5. d \in SimulatedDevices /\ Alone(d) => held[d] = <<d, n>>
  BY DEF TextPart, n
<1>. HIDE DEF n
<1>3. Reading(d).of = <<d, n>> /\ IsReading(Reading(d))
  BY <1>1, <1>2, <1>5 DEF IsReading
<1>4. Reading(d) = [properties |-> Reading(d).properties, content |-> Reading(d).content,
                    of |-> Reading(d).of]
  BY <1>2
<1>. QED
  BY <1>3, <1>4 DEF IsMessage, n

TakesOther(m) == m \in Modules \ {"mapping", "IotHub"} /\ Takes(m) /\ inbox' = Taken(m)
\* Every step is one of these to the queues, the counters, the worker and the cloud.
LEMMA InboxSteps ==
  ASSUME GatewayPart, UploadNext \/ UNCHANGED uploadVars
  PROVE  \/ UNCHANGED <<inbox, sent, mapper>> /\ (worker.at = "idle" => UNCHANGED <<worker, cloud>>)
         \/ (\E d \in Publishers : DevicePublishes(d)) /\ UNCHANGED <<worker, cloud, mapper>>
         \/ (\E a \in Addresses : /\ CallbackPublishes(a)
                                  /\ Broker_Publish("IotHub", heap[a].callback.message))
              /\ UNCHANGED <<sent, worker, cloud, mapper>>
         \/ MappingReceives /\ UNCHANGED <<sent, worker, cloud>>
         \/ MappingPublishes /\ UNCHANGED <<sent, worker, cloud>>
         \/ HubReceives /\ UNCHANGED <<sent, mapper>>
         \/ (\E m \in Modules : TakesOther(m)) /\ UNCHANGED <<sent, worker, cloud, mapper>>
         \/ (\E m \in Modules : inbox' = [inbox EXCEPT ![m] = <<>>])
              /\ UNCHANGED <<sent, worker, cloud, mapper>>
         \/ /\ inbox' = [m \in Modules |-> <<>>] /\ UNCHANGED <<sent, cloud>>
            /\ worker' = [at |-> "idle"] /\ mapper' = MapperIdle
<1>1. CASE UNCHANGED uploadVars
  BY <1>1 DEF uploadVars, brokerVars, deviceVars, hubVars, mapVars
<1>2. CASE GatewayCreate \/ GatewayCreateFails
  BY <1>2 DEF GatewayCreate, GatewayCreateFails, CreateDevices, brokerVars, deviceVars, hubVars, mapVars
<1>3. CASE Gateway_LL_Start
  <2>1. inbox' = inbox /\ mapper' = mapper
    BY <1>3 DEF Gateway_LL_Start, brokerVars, mapVars
  <2>2. sent' = sent
    BY <1>3 DEF Gateway_LL_Start, StartDevice, deviceVars
  <2>3. UNCHANGED <<worker, cloud>>
    BY <1>3 DEF Gateway_LL_Start, hubVars
  <2>. QED
    BY <2>1, <2>2, <2>3
<1>4. CASE Gateway_LL_Destroy \/ Gateway_LL_RemoveLink \/ Broker_RemoveModule
  BY <1>4 DEF Gateway_LL_Destroy, Gateway_LL_RemoveLink, Broker_RemoveModule, brokerVars, deviceVars,
              hubVars, mapVars
<1>5. CASE WorkerJoined
  <2>1. UNCHANGED <<sent, worker, cloud, mapper>> /\ inbox' = [inbox EXCEPT ![Head(gw.left)] = <<>>]
    BY <1>5 DEF WorkerJoined, deviceVars, hubVars, mapVars
  <2>2. Head(gw.left) \in Modules
    BY <1>5, TailOfDifferent DEF WorkerJoined, GatewayPart
  <2>. QED
    BY <2>1, <2>2
<1>6. CASE Module_Destroy
  <2>1. inbox' = inbox /\ mapper' = mapper
    BY <1>6 DEF Module_Destroy, brokerVars, mapVars
  <2>2. sent' = sent
    BY <1>6, DestroySteps DEF StopDevice, JoinDevice, deviceVars
  <2>3. UNCHANGED <<worker, cloud>>
    BY <1>6 DEF Module_Destroy, DeleteStrings, DestroyClient, hubVars
  <2>. QED
    BY <2>1, <2>2, <2>3
<1>7. CASE Killed
  BY <1>7 DEF Killed, HubKilled, DevicesKilled
<1>8. CASE \E d \in Publishers : DeviceGoesOn(d) \/ DevicePublishes(d)
  BY <1>8 DEF DeviceGoesOn, ThreadLooks, ThreadWrites, ThreadCopies, DevicePublishes, brokerVars,
              hubVars, mapVars
<1>9. CASE \E a \in Addresses : CloudSends(a)
  BY <1>9 DEF CloudSends, CommandArrives, brokerVars, deviceVars, mapVars
<1>10. CASE \E a \in Addresses : HubCallback(a)
  <2>1. PICK a \in Addresses : HubCallback(a)
    BY <1>10
  <2>2. CASE UNCHANGED brokerVars
    BY <2>1, <2>2 DEF HubCallback, CallbackReads, CallbackPublishes, brokerVars, deviceVars, mapVars
  <2>3. CASE CallbackPublishes(a) /\ Broker_Publish("IotHub", heap[a].callback.message)
    BY <2>1, <2>3 DEF HubCallback, CallbackPublishes, deviceVars, mapVars
  <2>. QED
    BY <2>1, <2>2, <2>3 DEF HubCallback
<1>11. CASE MappingReceives \/ MappingPublishes
  BY <1>11 DEF MappingReceives, MappingPublishes, deviceVars, hubVars
<1>12. CASE HubReceives
  BY <1>12 DEF HubReceives, deviceVars, mapVars
<1>13. CASE HubGoesOn
  BY <1>13 DEF HubGoesOn, FillPersonality, PERSONALITY_find_or_create, PERSONALITY_destroy, SendEvent,
               deviceVars, brokerVars, mapVars
<1>14. CASE LoggerReceives
  <2>1. TakesOther("Logger") /\ UNCHANGED <<sent, worker, cloud, mapper>>
    BY <1>14, NamesDiffer DEF LoggerReceives, TakesOther, deviceVars, hubVars, mapVars
  <2>. QED
    BY <2>1, NamesDiffer
<1>15. CASE \E d \in Publishers : DeviceReceives(d)
  <2>1. PICK d \in Publishers : DeviceReceives(d)
    BY <1>15
  <2>2. TakesOther(d) /\ UNCHANGED <<sent, worker, cloud, mapper>>
    BY <2>1, NamesDiffer DEF DeviceReceives, TakesOther, deviceVars, hubVars, mapVars
  <2>. QED
    BY <2>2, NamesDiffer
<1>. QED
  BY <1>1, <1>2, <1>3, <1>4, <1>5, <1>6, <1>7, <1>8, <1>9, <1>10, <1>11, <1>12, <1>13, <1>14, <1>15
     DEF UploadNext, GatewayNext, WorkerNext

-----------------------------------------------------------------------------
(* The table, the queues, the callbacks, the workers and the cloud *)

LEMMA TableKeeps ==
  ASSUME TablePart, UploadNext \/ UNCHANGED uploadVars
  PROVE  TablePart'
<1>. USE DEF TablePart
<1>1. table' = table \/ table' = {} \/ table' = IdentityMap_Create(Mapping)
  <2>1. CASE GatewayNext
    BY <2>1 DEF GatewayNext, GatewayCreate, GatewayCreateFails, Gateway_LL_Start, Gateway_LL_Destroy,
                Gateway_LL_RemoveLink, Broker_RemoveModule, WorkerJoined, Module_Destroy, mapVars
  <2>2. CASE WorkerNext
    BY <2>2 DEF WorkerNext, MappingReceives, MappingPublishes, HubReceives, HubGoesOn, LoggerReceives,
                DeviceReceives, mapVars
  <2>. QED
    BY <2>1, <2>2 DEF UploadNext, Killed, DeviceGoesOn, DevicePublishes, CloudSends, HubCallback,
                      uploadVars, mapVars
<1>2. ASSUME table' = IdentityMap_Create(Mapping) PROVE TablePart'
  <2>1. ASSUME NEW e \in table' PROVE
          \E j \in DOMAIN Mapping :
            /\ e = [Mapping[j] EXCEPT !.macAddress = Upper[Mapping[j].macAddress]]
            /\ Mapping[j].macAddress \in Spellings
    <3>1. /\ IdentityMap_ValidateConfig(Mapping)
          /\ e \in {IdentityMapConfig_CopyDeep(Mapping[i]) : i \in DOMAIN Mapping}
      BY <1>2, <2>1 DEF IdentityMap_Create
    <3>2. PICK j \in DOMAIN Mapping : e = IdentityMapConfig_CopyDeep(Mapping[j])
      BY <3>1
    <3>3. Mapping[j].macAddress \in Spellings /\ Mapping[j].macAddress # Absent
      BY <3>1, SpellingsAssumption DEF IdentityMap_ValidateConfig
    <3>4. DOMAIN Mapping[j] = {"macAddress", "deviceId", "deviceKey"}
      BY MappingAssumption
    <3>5. e = [Mapping[j] EXCEPT !.macAddress = Upper[Mapping[j].macAddress]]
      BY <3>2, <3>3 DEF IdentityMapConfig_CopyDeep, IdentityMapConfig_ToUpperCase
    <3>. QED
      BY <3>3, <3>5
  <2>. QED
    BY <2>1
<1>. QED
  BY <1>1, <1>2

\* What a message may say does not depend on the state.
LEMMA SameMessages ==
  ASSUME UploadNext \/ UNCHANGED uploadVars
  PROVE  /\ \A d : Alone(d)' <=> Alone(d)
         /\ \A m : IsMessage(m)' <=> IsMessage(m)
         /\ \A m : IsNamedReading(m)' <=> IsNamedReading(m)
         /\ \A s : Queue(s)' <=> Queue(s)
<1>1. \A d : Alone(d)' <=> Alone(d)
  BY ConfigKeeps DEF Alone
<1>2. \A m : IsReading(m)' <=> IsReading(m)
  BY <1>1 DEF IsReading
<1>3. \A m : IsNamedReading(m)' <=> IsNamedReading(m)
  BY <1>1 DEF IsNamedReading
<1>4. \A m : IsMessage(m)' <=> IsMessage(m)
  BY <1>2, <1>3 DEF IsMessage
<1>5. \A s : Queue(s)' <=> Queue(s)
  BY <1>4 DEF Queue
<1>. QED
  BY <1>1, <1>3, <1>4, <1>5

\* The broker lets go of a module whose worker is not in it.
LEMMA AttachedSteps ==
  ASSUME GatewayPart, UploadNext \/ UNCHANGED uploadVars
  PROVE  \/ attached \subseteq attached'
         \/ worker' = [at |-> "idle"] /\ mapper' = MapperIdle
         \/ /\ UNCHANGED <<worker, mapper>>
            /\ "IotHub" \in attached /\ worker.at # "idle" => "IotHub" \in attached'
            /\ "mapping" \in attached /\ mapper # MapperIdle => "mapping" \in attached'
<1>1. CASE WorkerJoined
  BY <1>1 DEF WorkerJoined, WorkerIsBusy, hubVars, mapVars
<1>2. CASE Killed
  BY <1>2 DEF Killed, HubKilled
<1>3. CASE GatewayCreate
  BY <1>3 DEF GatewayCreate, GatewayPart
<1>4. CASE Gateway_LL_Start \/ Gateway_LL_Destroy \/ Gateway_LL_RemoveLink \/ Broker_RemoveModule
           \/ Module_Destroy
  BY <1>4 DEF Gateway_LL_Start, Gateway_LL_Destroy, Gateway_LL_RemoveLink, Broker_RemoveModule,
              Module_Destroy, brokerVars
<1>. QED
  BY <1>1, <1>2, <1>3, <1>4, GatewaySteps

\* What a callback publishes is a command.
LEMMA CallbackHas ==
  ASSUME CallbackPart, NEW a \in Addresses, heap[a].used, heap[a].callback.at = "publishes"
  PROVE  IsMessage(heap[a].callback.message) /\ IsCommand(heap[a].callback.message)
<1>. DEFINE c == heap[a].callback
<1>1. c # NoCallback
  BY DEF NoCallback
<1>2. /\ c.message = [properties |-> c.message.properties, content |-> c.message.content,
                       of |-> <<"cloud", heap[a].name>>]
      /\ IsCommand(c.message)
  BY <1>1 DEF CallbackPart, IsCallback
<1>3. c.message.of = <<"cloud", heap[a].name>>
  BY <1>2
<1>. QED
  BY <1>2, <1>3 DEF IsMessage

LEMMA InboxKeeps ==
  ASSUME GatewayPart, DevicePart, TextPart, InboxPart, CallbackPart, MapperPart, UploadNext \/ UNCHANGED uploadVars
  PROVE  InboxPart'
<1>1. SUFFICES ASSUME inbox' # inbox PROVE InboxPart'
  BY SameMessages DEF InboxPart
<1>2. DOMAIN inbox = Modules /\ \A m \in Modules : Queue(inbox[m])
  BY DEF InboxPart
<1>3. ASSUME inbox' = [m \in Modules |-> inbox'[m]], \A m \in Modules : Queue(inbox'[m])
      PROVE  InboxPart'
  BY <1>3, SameMessages DEF InboxPart
<1>4. ASSUME NEW m \in Modules, NEW q, Queue(q), inbox' = [inbox EXCEPT ![m] = q] PROVE InboxPart'
  <2>1. inbox' = [n \in Modules |-> inbox'[n]]
    BY <1>2, <1>4
  <2>2. \A n \in Modules : Queue(inbox'[n])
    BY <1>2, <1>4
  <2>. QED
    BY <2>1, <2>2, <1>3
<1>5. ASSUME NEW from, NEW x, IsMessage(x), Broker_Publish(from, x) PROVE InboxPart'
  <2>1. PICK S : inbox' = [m \in Modules |-> IF m \in S THEN Append(inbox[m], x) ELSE inbox[m]]
    BY <1>5 DEF Broker_Publish
  <2>2. \A m \in Modules : Queue(Append(inbox[m], x))
    BY <1>2, <1>5, QueueGrows
  <2>3. \A m \in Modules : Queue(inbox'[m])
    BY <1>2, <2>1, <2>2
  <2>. QED
    BY <2>1, <2>3, <1>3
<1>6. ASSUME NEW m \in Modules, inbox[m] # <<>>
      PROVE  Queue(Tail(inbox[m])) /\ IsMessage(Head(inbox[m])) /\ DOMAIN Taken(m) = Modules
             /\ \A n \in Modules : Queue(Taken(m)[n])
  <2>1. Queue(Tail(inbox[m])) /\ IsMessage(Head(inbox[m]))
    BY <1>2, <1>6, QueueShrinks
  <2>. QED
    BY <2>1, <1>2 DEF Taken
<1>7. CASE \E d \in Publishers : DevicePublishes(d)
  BY <1>7, <1>5, ReadingIsMessage DEF DevicePublishes, ThreadPublishes
<1>8. CASE \E a \in Addresses : CallbackPublishes(a)
                                /\ Broker_Publish("IotHub", heap[a].callback.message)
  BY <1>8, <1>5, CallbackHas DEF CallbackPublishes
<1>9. CASE MappingReceives
  BY <1>9, <1>2, <1>4, <1>6, NamesDiffer DEF MappingReceives, Takes, Taken
<1>14. CASE MappingPublishes
  <2>1. IsMessage(mapper.message) /\ Broker_Publish("mapping", mapper.message)
    BY <1>14 DEF MappingPublishes, MapperPart, MapperIdle
  <2>. QED
    BY <2>1, <1>5
<1>10. CASE HubReceives
  BY <1>10, <1>2, <1>4, <1>6, NamesDiffer DEF HubReceives, Takes, Taken
<1>11. CASE \E m \in Modules : TakesOther(m)
  BY <1>11, <1>2, <1>4, <1>6 DEF TakesOther, Takes, Taken
<1>12. CASE \E m \in Modules : inbox' = [inbox EXCEPT ![m] = <<>>]
  BY <1>12, <1>4, EmptyQueue
<1>13. CASE inbox' = [m \in Modules |-> <<>>]
  BY <1>13, <1>3, EmptyQueue
<1>. QED
  BY <1>1, <1>7, <1>8, <1>9, <1>10, <1>11, <1>12, <1>13, <1>14, InboxSteps

\* A callback with a command of the cloud, and what it has made of it.
Arrived(c, name) ==
  \E p \in Commands : c = [at |-> "reads", message |-> [properties |-> p, content |-> <<"command", 0>>,
                                                     of |-> <<"cloud", name>>]]
IsRead(c, d, name) ==
  /\ c.at = "reads" /\ {"source", "deviceName"} \cap DOMAIN c.message.properties = {}
  /\ \E n \in {name, "overwritten"} :
       d = [at |-> "publishes",
            message |-> [c.message EXCEPT !.properties =
              Map_AddOrUpdate(Map_AddOrUpdate(@, "deviceName", n), "source", "iothub")]]

\* What a step does to one PERSONALITY.
LEMMA PersonalitySteps ==
  ASSUME HubPart, UploadNext \/ UNCHANGED uploadVars, NEW a \in Addresses, heap'[a].used
  PROVE  \/ heap[a].used /\ heap'[a].name = heap[a].name /\ heap'[a].callback = heap[a].callback
         \/ heap'[a].callback = NoCallback /\ (heap[a].used => heap'[a].name = heap[a].name)
         \/ /\ heap[a].used /\ heap'[a].name = heap[a].name
            /\ Arrived(heap'[a].callback, heap[a].name)
         \/ /\ heap[a].used /\ heap'[a].name = heap[a].name
            /\ IsRead(heap[a].callback, heap'[a].callback, heap[a].name)
<1>1. DOMAIN heap = Addresses /\ \A b \in Addresses : heap[b] = Unused \/ IsPersonality(heap[b])
  BY DEF HubPart
<1>2. ~Unused.used
  BY DEF Unused
<1>3. heap[a].used => IsPersonality(heap[a])
  BY <1>1, <1>2
<1>4. ASSUME NEW b \in Addresses, NEW p, heap' = [heap EXCEPT ![b] = p]
      PROVE  heap'[a] = IF a = b THEN p ELSE heap[a]
  BY <1>1, <1>4
<1>5. CASE UNCHANGED heap
  BY <1>5
<1>6. ASSUME NEW m, IotHub_Receive(m, failing), heap' # heap
      PROVE  (heap'[a].callback = NoCallback /\ ~heap[a].used) \/ (heap[a].used /\ heap'[a] = heap[a])
  <2>1. PICK b \in Addresses : /\ heap[b] = Unused
                               /\ heap' = [heap EXCEPT ![b] = NewPersonality(m.properties["deviceName"],
                                                                             m.properties["deviceKey"])]
    BY <1>6 DEF IotHub_Receive, PERSONALITY_create, hubVars
  <2>2. heap'[a] = IF a = b THEN NewPersonality(m.properties["deviceName"], m.properties["deviceKey"])
                   ELSE heap[a]
    BY <2>1, <1>4
  <2>3. NewPersonality(m.properties["deviceName"], m.properties["deviceKey"]).callback = NoCallback
    BY DEF NewPersonality, NoCallback
  <2>. HIDE DEF NewPersonality, NoCallback
  <2>4. CASE a = b
    BY <2>1, <2>2, <2>3, <2>4, <1>2
  <2>5. CASE a # b
    <3>1. heap'[a] = heap[a]
      BY <2>2, <2>5
    <3>. QED
      BY <3>1
  <2>. QED
    BY <2>4, <2>5
<1>0. ASSUME NEW b \in Addresses, heap[b].used, NEW v \in BOOLEAN,
             \/ heap' = [heap EXCEPT ![b].filled = v] \/ heap' = [heap EXCEPT ![b].named = v]
             \/ heap' = [heap EXCEPT ![b] = Unused]
      PROVE  heap[a].used /\ heap'[a].name = heap[a].name /\ heap'[a].callback = heap[a].callback
  <2>1. IsPersonality(heap[b])
    BY <1>1, <1>2, <1>0
  <2>2. PICK p : /\ heap' = [heap EXCEPT ![b] = p]
                 /\ p = Unused \/ p = [heap[b] EXCEPT !.filled = v] \/ p = [heap[b] EXCEPT !.named = v]
    BY <1>0
  <2>3. p = Unused \/ (p.name = heap[b].name /\ p.callback = heap[b].callback)
    BY <2>1, <2>2 DEF IsPersonality
  <2>4. heap'[a] = IF a = b THEN p ELSE heap[a]
    BY <2>2, <1>4
  <2>. QED
    BY <2>3, <2>4, <1>0, <1>2
<1>7. CASE FillPersonality \/ PERSONALITY_find_or_create(failing) \/ PERSONALITY_destroy
  <2>1. worker.at # "idle"
    BY <1>7 DEF FillPersonality, PERSONALITY_find_or_create, PERSONALITY_destroy
  <2>2. worker.for \in Addresses /\ heap[worker.for].used
    BY <2>1, WorkerHas
  <2>3. \/ UNCHANGED heap
        \/ heap' = [heap EXCEPT ![worker.for].filled = TRUE]
        \/ heap' = [heap EXCEPT ![worker.for].named = FALSE]
        \/ heap' = [heap EXCEPT ![worker.for] = Unused]
    BY <1>7 DEF FillPersonality, PERSONALITY_find_or_create, PERSONALITY_destroy
  <2>4. CASE heap' = heap
    BY <2>4
  <2>5. ASSUME heap' # heap
        PROVE  heap[a].used /\ heap'[a].name = heap[a].name /\ heap'[a].callback = heap[a].callback
    BY <2>2, <2>3, <2>5, <1>0
  <2>. QED
    BY <2>4, <2>5
<1>8. CASE DeleteStrings \/ DestroyClient
  <2>1. personalities # <<>> /\ personalities \in Seq(Addresses) /\ IsInjective(personalities)
    BY <1>8 DEF DeleteStrings, DestroyClient, HubPart
  <2>2. Head(personalities) \in Addresses /\ heap[Head(personalities)].used
    BY <2>1, TailOfDifferent, VectorHas
  <2>3. \/ heap' = [heap EXCEPT ![Head(personalities)].named = FALSE]
        \/ heap' = [heap EXCEPT ![Head(personalities)] = Unused]
    BY <1>8 DEF DeleteStrings, DestroyClient
  <2>. QED
    BY <2>2, <2>3, <1>0
<1>9. CASE HubKilled
  BY <1>9, <1>2 DEF HubKilled
<1>10. ASSUME NEW b \in Addresses, heap[b].used, NEW c, heap' = [heap EXCEPT ![b].callback = c]
       PROVE  /\ heap'[a].callback = IF a = b THEN c ELSE heap[a].callback
              /\ heap'[a].name = heap[a].name /\ heap[a].used
  <2>1. heap' = [heap EXCEPT ![b] = [heap[b] EXCEPT !.callback = c]]
    BY <1>10
  <2>2. heap'[a] = IF a = b THEN [heap[b] EXCEPT !.callback = c] ELSE heap[a]
    BY <2>1, <1>4
  <2>3. IsPersonality(heap[b])
    BY <1>1, <1>2, <1>10
  <2>4. /\ [heap[b] EXCEPT !.callback = c].callback = c
        /\ [heap[b] EXCEPT !.callback = c].name = heap[b].name
    BY <2>3 DEF IsPersonality
  <2>. QED
    BY <2>2, <2>4, <1>10
<1>11. CASE \E b \in Addresses : CommandArrives(b)
  <2>1. PICK b \in Addresses, p \in Commands :
          /\ heap[b].used
          /\ heap' = [heap EXCEPT ![b].callback =
               [at |-> "reads", message |-> [properties |-> p, content |-> <<"command", 0>>,
                                             of |-> <<"cloud", heap[b].name>>]]]
    BY <1>11 DEF CommandArrives
  <2>. DEFINE c == [at |-> "reads", message |-> [properties |-> p, content |-> <<"command", 0>>,
                                                   of |-> <<"cloud", heap[b].name>>]]
  <2>2. heap'[a].callback = (IF a = b THEN c ELSE heap[a].callback)
        /\ heap'[a].name = heap[a].name /\ heap[a].used
    BY <2>1, <1>10
  <2>. QED
    BY <2>1, <2>2 DEF Arrived
<1>12. CASE \E b \in Addresses : CallbackReads(b, failing)
  <2>1. PICK b \in Addresses : CallbackReads(b, failing)
    BY <1>12
  <2>. DEFINE m == heap[b].callback.message
  <2>2. CASE heap' = [heap EXCEPT ![b].callback = NoCallback]
    BY <2>1, <2>2, <1>10 DEF CallbackReads
  <2>3. CASE heap' # [heap EXCEPT ![b].callback = NoCallback]
    <3>1. PICK name \in {heap[b].name, "overwritten"} :
            /\ {"source", "deviceName"} \cap DOMAIN m.properties = {}
            /\ heap' = [heap EXCEPT ![b].callback =
                 [at |-> "publishes",
                  message |-> [m EXCEPT !.properties =
                    Map_AddOrUpdate(Map_AddOrUpdate(@, "deviceName", name), "source", "iothub")]]]
      BY <2>1, <2>3 DEF CallbackReads
    <3>. DEFINE c == [at |-> "publishes",
                      message |-> [m EXCEPT !.properties =
                        Map_AddOrUpdate(Map_AddOrUpdate(@, "deviceName", name), "source", "iothub")]]
    <3>2. heap'[a].callback = (IF a = b THEN c ELSE heap[a].callback)
          /\ heap'[a].name = heap[a].name /\ heap[a].used
      BY <2>1, <3>1, <1>10 DEF CallbackReads
    <3>3. heap[b].callback.at = "reads"
      BY <2>1 DEF CallbackReads
    <3>. QED
      BY <3>1, <3>2, <3>3 DEF IsRead
  <2>. QED
    BY <2>2, <2>3
<1>13. CASE \E b \in Addresses : CallbackPublishes(b)
  BY <1>13, <1>10 DEF CallbackPublishes
<1>. QED
  BY <1>5, <1>6, <1>7, <1>8, <1>9, <1>11, <1>12, <1>13, HubSteps DEF SendEvent, hubVars

LEMMA CallbackKeeps ==
  ASSUME HubPart, CallbackPart, UploadNext \/ UNCHANGED uploadVars
  PROVE  CallbackPart'
<1>1. SUFFICES ASSUME NEW a \in Addresses, heap'[a].used
               PROVE  IsCallback(heap'[a].callback, heap'[a].name)
  BY DEF CallbackPart
<1>2. CASE heap[a].used /\ heap'[a].name = heap[a].name /\ heap'[a].callback = heap[a].callback
  BY <1>2 DEF CallbackPart
<1>3. CASE heap'[a].callback = NoCallback
  BY <1>3 DEF IsCallback
<1>4. CASE heap'[a].name = heap[a].name /\ Arrived(heap'[a].callback, heap[a].name)
  <2>1. PICK p \in Commands : heap'[a].callback =
          [at |-> "reads", message |-> [properties |-> p, content |-> <<"command", 0>>,
                                        of |-> <<"cloud", heap[a].name>>]]
    BY <1>4 DEF Arrived
  <2>. QED
    BY <1>4, <2>1 DEF IsCallback
<1>5. CASE /\ heap[a].used /\ heap'[a].name = heap[a].name
           /\ IsRead(heap[a].callback, heap'[a].callback, heap[a].name)
  <2>. DEFINE m == heap[a].callback.message
  <2>0. PICK name \in {heap[a].name, "overwritten"} :
          heap'[a].callback =
            [at |-> "publishes",
             message |-> [m EXCEPT !.properties =
               Map_AddOrUpdate(Map_AddOrUpdate(@, "deviceName", name), "source", "iothub")]]
    BY <1>5 DEF IsRead
  <2>1. heap[a].callback # NoCallback
    BY <1>5 DEF NoCallback, IsRead
  <2>2. IsCallback(heap[a].callback, heap[a].name)
    BY <1>5 DEF CallbackPart
  <2>3. /\ m = [properties |-> m.properties, content |-> m.content, of |-> <<"cloud", heap[a].name>>]
        /\ m.properties \in Commands
    BY <2>1, <2>2, <1>5 DEF IsCallback, IsRead
  <2>4. DOMAIN m.properties \subseteq Names
    BY <2>3, CommandsAssumption
  <2>. DEFINE p == Map_AddOrUpdate(m.properties, "deviceName", name)
              q == Map_AddOrUpdate(p, "source", "iothub")
              n == [properties |-> q, content |-> m.content, of |-> <<"cloud", heap[a].name>>]
  <2>5. DOMAIN p = DOMAIN m.properties \cup {"deviceName"} /\ p["deviceName"] = name
    BY DEF Map_AddOrUpdate
  <2>. HIDE DEF p
  <2>6. DOMAIN q = DOMAIN p \cup {"source"} /\ q["source"] = "iothub"
        /\ q["deviceName"] = p["deviceName"]
    BY <2>5 DEF Map_AddOrUpdate
  <2>7. heap'[a].callback = [at |-> "publishes", message |-> n]
    BY <2>3, <2>0 DEF p
  <2>. HIDE DEF q
  <2>8. IsCommand(n)
    BY <2>4, <2>5, <2>6 DEF IsCommand, Names
  <2>9. n = [properties |-> n.properties, content |-> n.content, of |-> <<"cloud", heap'[a].name>>]
    BY <1>5
  <2>. HIDE DEF n
  <2>. QED
    BY <2>7, <2>8, <2>9 DEF IsCallback
<1>6. \/ heap[a].used /\ heap'[a].name = heap[a].name /\ heap'[a].callback = heap[a].callback
      \/ heap'[a].callback = NoCallback
      \/ heap'[a].name = heap[a].name /\ Arrived(heap'[a].callback, heap[a].name)
      \/ /\ heap[a].used /\ heap'[a].name = heap[a].name
         /\ IsRead(heap[a].callback, heap'[a].callback, heap[a].name)
  BY <1>1, PersonalitySteps
<1>. QED
  BY <1>2, <1>3, <1>4, <1>5, <1>6

\* What a step does to the worker and the messages of the cloud.
Sent == [device |-> heap[worker.for].name,
         message |-> IoTHubMessage_CreateFromGWMessage(worker.message)]
LEMMA WorkerSteps ==
  ASSUME HubPart, InboxPart, UploadNext \/ UNCHANGED uploadVars
  PROVE  \/ worker' = [at |-> "idle"] /\ UNCHANGED cloud
         \/ worker' = [at |-> "idle"] /\ worker.at # "idle" /\ cloud' = Append(cloud, Sent)
         \/ /\ worker.at # "idle" /\ worker'.message = worker.message /\ UNCHANGED cloud
            /\ heap'[worker'.for].name = heap[worker.for].name
         \/ /\ worker.at = "idle" /\ UNCHANGED cloud
            /\ inbox["IotHub"] # <<>> /\ worker'.message = Head(inbox["IotHub"])
            /\ IsMessage(worker'.message) /\ IsNamedReading(worker'.message)
            /\ heap'[worker'.for].name = worker'.message.properties["deviceName"]
<1>1. HubPart'
  BY HubKeeps
<1>2. ASSUME worker.at # "idle", worker'.message = worker.message, worker'.for = worker.for,
             worker'.at # "idle"
      PROVE  heap'[worker'.for].name = heap[worker.for].name
  <2>1. worker.for \in Addresses /\ heap[worker.for].used
    BY <1>2, WorkerHas
  <2>2. heap'[worker.for].used
    <3>1. worker' # [at |-> "idle"]
      BY <1>2
    <3>. QED
      BY <1>1, <1>2, <3>1 DEF HubPart
  <2>. QED
    BY <1>2, <2>1, <2>2, PersonalitySteps
<1>3. worker = [at |-> "idle"] \/ worker.at # "idle"
  BY DEF HubPart
<1>4. CASE UNCHANGED <<worker, cloud>>
  BY <1>2, <1>3, <1>4
<1>5. CASE inbox["IotHub"] # <<>> /\ IotHub_Receive(Head(inbox["IotHub"]), failing)
           /\ ~UNCHANGED <<worker, cloud>>
  <2>. DEFINE m == Head(inbox["IotHub"])
  <2>1. IsMessage(m)
    BY <1>5, NamesDiffer, QueueShrinks DEF InboxPart
  <2>2. IsForCloud(m.properties) /\ worker.at = "idle"
    BY <1>5 DEF IotHub_Receive, hubVars
  <2>3. IsNamedReading(m)
    BY <2>1, <2>2, ForCloudIsNamed
  <2>. HIDE DEF m
  <2>4. \/ \E a \in ToSet(personalities) :
              /\ worker' = [at |-> "sends", message |-> m, for |-> a]
              /\ heap[a].name = m.properties["deviceName"] /\ heap' = heap /\ cloud' = cloud
        \/ PERSONALITY_create(m)
    BY <1>5, <2>2 DEF IotHub_Receive, lookup_DeviceName, hubVars, m
  <2>5. CASE PERSONALITY_create(m)
    <3>1. PICK a \in Addresses :
            /\ heap' = [heap EXCEPT ![a] = NewPersonality(m.properties["deviceName"],
                                                          m.properties["deviceKey"])]
            /\ worker' = [at |-> "created", message |-> m, for |-> a] /\ cloud' = cloud
      BY <2>5 DEF PERSONALITY_create
    <3>2. DOMAIN heap = Addresses
      BY DEF HubPart
    <3>3. heap'[a].name = m.properties["deviceName"]
      BY <3>1, <3>2 DEF NewPersonality
    <3>. QED
      BY <3>1, <3>3, <1>5, <2>1, <2>2, <2>3 DEF m
  <2>6. CASE \E a \in ToSet(personalities) :
               /\ worker' = [at |-> "sends", message |-> m, for |-> a]
               /\ heap[a].name = m.properties["deviceName"] /\ heap' = heap /\ cloud' = cloud
    BY <2>6, <1>5, <2>1, <2>2, <2>3 DEF m
  <2>. QED
    BY <2>4, <2>5, <2>6
<1>6. CASE FillPersonality \/ PERSONALITY_find_or_create(failing)
  <2>1. worker.at \in {"created", "pushes"}
    BY <1>6 DEF FillPersonality, PERSONALITY_find_or_create
  <2>2. worker = [at |-> worker.at, message |-> worker.message, for |-> worker.for]
    BY <2>1, WorkerHas
  <2>3. cloud' = cloud /\ \E x \in {"pushes", "destroys", "sends"} : worker' = [worker EXCEPT !.at = x]
    BY <1>6 DEF FillPersonality, PERSONALITY_find_or_create
  <2>4. PICK x \in {"pushes", "destroys", "sends"} :
          worker' = [at |-> x, message |-> worker.message, for |-> worker.for]
    BY <2>2, <2>3
  <2>. QED
    BY <2>1, <2>3, <2>4, <1>2
<1>7. CASE PERSONALITY_destroy \/ SendEvent(failing)
  BY <1>7 DEF PERSONALITY_destroy, SendEvent, Sent
<1>8. CASE DeleteStrings \/ DestroyClient \/ HubKilled
  BY <1>8, <1>4 DEF DeleteStrings, DestroyClient, HubKilled
<1>9. CASE \E a \in Addresses : CommandArrives(a) \/ CallbackReads(a, failing) \/ CallbackPublishes(a)
  BY <1>9, <1>4 DEF CommandArrives, CallbackReads, CallbackPublishes
<1>10. CASE UNCHANGED hubVars
  BY <1>10, <1>4 DEF hubVars
<1>. QED
  BY <1>4, <1>5, <1>6, <1>7, <1>8, <1>9, <1>10, HubSteps

\* The worker begins with a message it has received.
LEMMA Begins ==
  ASSUME UploadNext \/ UNCHANGED uploadVars, worker.at = "idle", worker'.at # "idle"
  PROVE  HubReceives
<1>. SUFFICES ASSUME ~HubReceives PROVE FALSE
  OBVIOUS
<1>1. CASE UNCHANGED hubVars
  BY <1>1 DEF hubVars
<1>2. CASE UNCHANGED uploadVars
  BY <1>1, <1>2 DEF uploadVars
<1>3. CASE GatewayNext \/ Killed
  BY <1>1, <1>3 DEF GatewayNext, GatewayCreateFails, GatewayCreate, Gateway_LL_Start,
     Gateway_LL_Destroy, Gateway_LL_RemoveLink, Broker_RemoveModule, WorkerJoined, Module_Destroy,
     Killed, HubKilled, DeleteStrings, DestroyClient
<1>4. CASE WorkerNext
  BY <1>1, <1>4 DEF WorkerNext, MappingReceives, MappingPublishes, HubGoesOn, LoggerReceives,
     DeviceReceives, FillPersonality, PERSONALITY_find_or_create, PERSONALITY_destroy, SendEvent
<1>5. CASE \E d \in Publishers : DeviceGoesOn(d) \/ DevicePublishes(d)
  BY <1>1, <1>5 DEF DeviceGoesOn, DevicePublishes
<1>6. CASE \E a \in Addresses : CloudSends(a) \/ HubCallback(a)
  BY <1>6 DEF CloudSends, HubCallback, CommandArrives, CallbackReads, CallbackPublishes
<1>. QED
  BY <1>2, <1>3, <1>4, <1>5, <1>6 DEF UploadNext

LEMMA WorkerKeeps ==
  ASSUME GatewayPart, HubPart, InboxPart, WorkerPart, UploadNext \/ UNCHANGED uploadVars
  PROVE  WorkerPart'
<1>0. SUFFICES ASSUME worker'.at # "idle"
               PROVE  /\ IsMessage(worker'.message) /\ IsNamedReading(worker'.message)
                      /\ heap'[worker'.for].name = worker'.message.properties["deviceName"]
                      /\ "IotHub" \in attached'
  BY SameMessages DEF WorkerPart
<1>1. "IotHub" \in attached'
  <2>1. worker.at # "idle" => "IotHub" \in attached
    BY DEF WorkerPart
  <2>2. CASE worker.at # "idle"
    BY <1>0, <2>1, <2>2, AttachedSteps
  <2>3. CASE worker.at = "idle"
    <3>1. HubReceives
      BY <1>0, <2>3, Begins
    <3>. QED
      BY <3>1 DEF HubReceives, Takes
  <2>. QED
    BY <2>2, <2>3
<1>2. CASE /\ worker.at # "idle" /\ worker'.message = worker.message
           /\ heap'[worker'.for].name = heap[worker.for].name
  BY <1>1, <1>2 DEF WorkerPart
<1>3. CASE /\ IsMessage(worker'.message) /\ IsNamedReading(worker'.message)
           /\ heap'[worker'.for].name = worker'.message.properties["deviceName"]
  BY <1>1, <1>3
<1>. QED
  BY <1>0, <1>2, <1>3, WorkerSteps

\* The mapping holds what it has made of a message while it waits to publish it.
LEMMA MapperKeeps ==
  ASSUME GatewayPart, TablePart, InboxPart, MapperPart, UploadNext \/ UNCHANGED uploadVars
  PROVE  MapperPart'
<1>1. CASE mapper' = MapperIdle
  BY <1>1 DEF MapperPart
<1>2. CASE mapper' = mapper /\ mapper # MapperIdle
  <2>1. /\ mapper = [at |-> "publishes", message |-> mapper.message] /\ IsMessage(mapper.message)
        /\ Source(mapper.message) = "mapping" /\ "mapping" \in attached
    BY <1>2 DEF MapperPart
  <2>2. "mapping" \in attached'
    BY <1>2, <2>1, AttachedSteps
  <2>3. mapper' = [at |-> "publishes", message |-> mapper'.message] /\ IsMessage(mapper'.message)
        /\ Source(mapper'.message) = "mapping"
    BY <1>2, <2>1
  <2>. QED
    BY <2>2, <2>3, SameMessages DEF MapperPart, Source
<1>3. CASE MappingReceives /\ mapper' # MapperIdle
  <2>. DEFINE h == Head(inbox["mapping"])
  <2>1. PICK p \in IdentityMap_Receive(table, h.properties) :
          mapper' = [at |-> "publishes", message |-> [h EXCEPT !.properties = p]]
    BY <1>3 DEF MappingReceives
  <2>2. inbox["mapping"] # <<>> /\ "mapping" \in attached /\ attached' = attached
    BY <1>3 DEF MappingReceives, Takes
  <2>3. IsMessage(h)
    BY <2>2, QueueShrinks, NamesDiffer DEF InboxPart
  <2>. DEFINE n == [h EXCEPT !.properties = p]
  <2>4. IsMessage(n) /\ (IsNamedReading(n) \/ IsAddressedCommand(n))
    BY <2>3, Maps
  <2>. HIDE DEF h, n
  <2>5. mapper' = [at |-> "publishes", message |-> n]
    BY <2>1 DEF n
  <2>6. Source(n) = "mapping"
    BY <2>4 DEF Source, ConstMap_GetValue, IsNamedReading, IsAddressedCommand
  <2>7. mapper' = [at |-> "publishes", message |-> mapper'.message] /\ IsMessage(mapper'.message)
        /\ Source(mapper'.message) = "mapping"
    BY <2>4, <2>5, <2>6
  <2>. QED
    BY <2>2, <2>7, SameMessages DEF MapperPart, Source
<1>4. mapper' = mapper \/ mapper' = MapperIdle \/ MappingReceives
  BY InboxSteps DEF MappingPublishes
<1>. QED
  BY <1>1, <1>2, <1>3, <1>4

\* What the worker sends is for the device it has the name of.
LEMMA SentIsNamed ==
  ASSUME WorkerPart, worker.at # "idle"
  PROVE  /\ Sent.message.of = worker.message.of
         /\ Sent.message.of[1] \in SimulatedDevices /\ Sent.message.of[2] \in Nat
         /\ Alone(Sent.message.of[1]) => Sent.message.content = Sent.message.of
         /\ {"deviceName", "deviceKey"} \cap DOMAIN Sent.message.properties = {}
         /\ Belongs(Sent.device, Sent.message.of[1])
<1>. DEFINE m == worker.message
            p == Map_Delete(Map_Delete(m.properties, "deviceName"), "deviceKey")
<1>1. IsMessage(m) /\ IsNamedReading(m) /\ heap[worker.for].name = m.properties["deviceName"]
  BY DEF WorkerPart
<1>2. m = [properties |-> m.properties, content |-> m.content, of |-> m.of]
  BY <1>1 DEF IsMessage
<1>. HIDE DEF m
<1>3. IoTHubMessage_CreateFromGWMessage(m) = [properties |-> p, content |-> m.content, of |-> m.of]
  BY <1>2 DEF IoTHubMessage_CreateFromGWMessage
<1>4. {"deviceName", "deviceKey"} \cap DOMAIN p = {}
  BY DEF Map_Delete, Restrict
<1>. HIDE DEF p
<1>5. Sent = [device |-> heap[worker.for].name, message |-> [properties |-> p, content |-> m.content, of |-> m.of]]
  BY <1>3 DEF Sent, m
<1>6. /\ Sent.device = m.properties["deviceName"] /\ Sent.message.of = m.of
      /\ Sent.message.properties = p /\ Sent.message.content = m.content
  BY <1>1, <1>5
<1>. QED
  BY <1>1, <1>4, <1>6 DEF IsNamedReading, m

LEMMA CloudKeeps ==
  ASSUME HubPart, InboxPart, WorkerPart, CloudPart, UploadNext \/ UNCHANGED uploadVars
  PROVE  CloudPart'
<1>1. CASE UNCHANGED cloud
  BY <1>1, SameMessages DEF CloudPart
<1>2. CASE worker.at # "idle" /\ cloud' = Append(cloud, Sent)
  <2>1. cloud \in Seq(ToSet(cloud))
    BY DEF CloudPart
  <2>. DEFINE n == Len(cloud)
  <2>. HIDE DEF Sent
  <2>2. /\ cloud' \in Seq(ToSet(cloud')) /\ n \in Nat /\ DOMAIN cloud = 1..n
        /\ DOMAIN cloud' = 1..(n + 1)
        /\ cloud'[n + 1] = Sent /\ \A i \in 1..n : cloud'[i] = cloud[i]
    BY <2>1, <1>2, SequenceGrows
  <2>. HIDE DEF n
  <2>3. \A i \in 1..(n + 1) : i \in 1..n \/ i = n + 1
    BY <2>2
  <2>. QED
    BY <1>2, <2>2, <2>3, SentIsNamed, SameMessages DEF CloudPart
<1>. QED
  BY <1>1, <1>2, WorkerSteps

-----------------------------------------------------------------------------
(* The order of readings *)

\* A queue in order stays so without its head, which is before the rest.
LEMMA IncreasingShrinks ==
  ASSUME NEW s, s \in Seq(ToSet(s)), s # <<>>, NEW k, Increasing(s, k)
  PROVE  /\ Increasing(Tail(s), k)
         /\ IsOf(k, Head(s)) => \A x \in ToSet(Tail(s)) : IsOf(k, x) => Before(Head(s), x)
<1>. DEFINE t == Tail(s)
            n == Len(s)
<1>1. /\ n \in Nat /\ DOMAIN s = 1..n /\ DOMAIN t = 1..(n - 1) /\ Head(s) = s[1] /\ 1 \in DOMAIN s
      /\ \A i \in DOMAIN t : t[i] = s[i + 1] /\ i + 1 \in DOMAIN s /\ i + 1 > 1
  BY SequenceShrinks
<1>. HIDE DEF t, n
<1>2. ASSUME NEW i \in DOMAIN t, NEW j \in DOMAIN t, i < j, IsOf(k, t[i]), IsOf(k, t[j])
      PROVE  Before(t[i], t[j])
  <2>1. i + 1 < j + 1
    BY <1>1, <1>2
  <2>. DEFINE a == i + 1
              b == j + 1
  <2>2. a \in DOMAIN s /\ b \in DOMAIN s /\ a < b /\ t[i] = s[a] /\ t[j] = s[b]
    BY <1>1, <2>1
  <2>. HIDE DEF a, b
  <2>. QED
    BY <1>2, <2>2 DEF Increasing
<1>3. ASSUME IsOf(k, Head(s)), NEW x \in ToSet(t), IsOf(k, x) PROVE Before(Head(s), x)
  <2>1. PICK i \in DOMAIN t : x = t[i]
    BY DEF ToSet
  <2>. DEFINE a == i + 1
  <2>2. a \in DOMAIN s /\ 1 < a /\ x = s[a]
    BY <1>1, <2>1
  <2>. HIDE DEF a
  <2>. QED
    BY <1>1, <1>3, <2>2 DEF Increasing
<1>. QED
  BY <1>2, <1>3 DEF Increasing, t

\* A queue in order stays so with a message that is after those in it.
LEMMA IncreasingGrows ==
  ASSUME NEW s, s \in Seq(ToSet(s)), NEW k, Increasing(s, k), NEW x,
         IsOf(k, x) => \A y \in ToSet(s) : IsOf(k, y) => Before(y, x)
  PROVE  Increasing(Append(s, x), k)
<1>. DEFINE t == Append(s, x)
            n == Len(s)
<1>1. /\ n \in Nat /\ DOMAIN s = 1..n /\ DOMAIN t = 1..(n + 1) /\ t[n + 1] = x
      /\ \A i \in 1..n : t[i] = s[i]
  BY SequenceGrows
<1>. HIDE DEF t, n
<1>2. ASSUME NEW i \in DOMAIN t, NEW j \in DOMAIN t, i < j, IsOf(k, t[i]), IsOf(k, t[j])
      PROVE  Before(t[i], t[j])
  <2>1. i \in 1..n /\ (j \in 1..n \/ j = n + 1)
    BY <1>1, <1>2
  <2>2. CASE j \in 1..n
    BY <1>1, <1>2, <2>1, <2>2 DEF Increasing
  <2>3. CASE j = n + 1
    <3>1. t[i] \in ToSet(s) /\ t[i] = s[i] /\ t[j] = x
      BY <1>1, <2>1, <2>3 DEF ToSet
    <3>. QED
      BY <1>2, <3>1
  <2>. QED
    BY <2>1, <2>2, <2>3
<1>. QED
  BY <1>2 DEF Increasing, t

\* Which messages are under way to the cloud.
LEMMA KindOf ==
  ASSUME NEW m
  PROVE  /\ IsReading(m) => ~IsOf("mapping", m)
         /\ IsReading(m) /\ m.of[1] \in SimulatedDevices => IsOf("bleTelemetry", m)
         /\ IsNamedReading(m) => IsOf("mapping", m) /\ ~IsOf("bleTelemetry", m)
         /\ IsCommand(m) \/ IsAddressedCommand(m) => ~IsOf("mapping", m) /\ ~IsOf("bleTelemetry", m)
<1>1. ASSUME IsReading(m), m.of[1] \in SimulatedDevices PROVE Source(m) = "bleTelemetry"
  BY <1>1 DEF IsReading, Source, ConstMap_GetValue
<1>2. ASSUME IsNamedReading(m) PROVE Source(m) = "mapping" /\ m.of[1] \in SimulatedDevices
  BY <1>2 DEF IsNamedReading, Source, ConstMap_GetValue
<1>3. ASSUME IsCommand(m) \/ IsAddressedCommand(m) PROVE m.of[1] \notin SimulatedDevices
  BY <1>3, NamesDiffer DEF IsCommand, IsAddressedCommand
<1>. QED
  BY <1>1, <1>2, <1>3 DEF IsOf

\* Nothing new is under way.
LEMMA FewerInOrder ==
  ASSUME Order, Increasing(inbox'["mapping"], "bleTelemetry"), Increasing(inbox'["IotHub"], "mapping"),
         InMapping' \subseteq InMapping, InMapper' \subseteq InMapper, InHub' \subseteq InHub,
         InWorker' \subseteq InWorker,
         cloud' = cloud, sent' = sent
  PROVE  Order'
<1>. USE DEF Order
<1>1. InCloud' = InCloud
  BY DEF InCloud
<1>2. \A i, j \in DOMAIN cloud' : i < j => Before(cloud'[i].message, cloud'[j].message)
  OBVIOUS
<1>3. InLine'
  BY <1>1 DEF Ahead, InLine
<1>4. \A x \in UnderWay' : x.of[2] \in 0..sent'[x.of[1]]
  BY <1>1 DEF UnderWay
<1>. QED
  BY <1>2, <1>3, <1>4

LEMMA QueuesAre ==
  ASSUME InboxPart
  PROVE  /\ DOMAIN inbox = Modules /\ inbox["mapping"] \in Seq(ToSet(inbox["mapping"]))
         /\ inbox["IotHub"] \in Seq(ToSet(inbox["IotHub"]))
  BY NamesDiffer DEF InboxPart, Queue

\* The worker sends its message, the last that arrives in the cloud.
LEMMA SendKeepsOrder ==
  ASSUME Order, CloudPart, WorkerPart, worker.at # "idle", worker' = [at |-> "idle"],
         cloud' = Append(cloud, Sent), inbox' = inbox, sent' = sent, mapper' = mapper
  PROVE  Order'
<1>. DEFINE n == Len(cloud)
            m == worker.message
<1>0. cloud \in Seq(ToSet(cloud))
  BY DEF CloudPart
<1>. HIDE DEF Sent
<1>1. /\ n \in Nat /\ DOMAIN cloud = 1..n /\ DOMAIN cloud' = 1..(n + 1)
      /\ cloud'[n + 1] = Sent /\ \A i \in 1..n : cloud'[i] = cloud[i]
  BY <1>0, SequenceGrows
<1>2. Sent.message.of = m.of
  BY SentIsNamed
<1>. DEFINE s == Sent.message
<1>. HIDE DEF n, s, m
<1>3. /\ \A x : Before(x, m) => Before(x, s)
      /\ \A x : Before(m, x) => Before(s, x)
  BY <1>2 DEF Before, s
<1>4. InWorker' = {} /\ InWorker = {m}
  BY DEF InWorker, Working, m
<1>5. InMapping' = InMapping /\ InMapper' = InMapper /\ InHub' = InHub
  BY DEF InMapping, InMapper, Mapped, InHub
<1>6. InCloud' = InCloud \cup {s}
  <2>1. \A x \in InCloud' : x \in InCloud \cup {s}
    <3>1. SUFFICES ASSUME NEW i \in DOMAIN cloud' PROVE cloud'[i].message \in InCloud \cup {s}
      BY DEF InCloud
    <3>2. i \in 1..n \/ i = n + 1
      BY <1>1
    <3>. QED
      BY <1>1, <3>2 DEF InCloud, s
  <2>2. s \in InCloud'
    <3>1. n + 1 \in DOMAIN cloud' /\ cloud'[n + 1].message = s
      BY <1>1 DEF s
    <3>. QED
      BY <3>1 DEF InCloud
  <2>3. \A x \in InCloud : x \in InCloud'
    <3>1. \A i \in 1..n : i \in DOMAIN cloud'
      BY <1>1
    <3>. QED
      BY <3>1, <1>1 DEF InCloud
  <2>. QED
    BY <2>1, <2>2, <2>3
<1>7. ASSUME NEW i \in DOMAIN cloud', NEW j \in DOMAIN cloud', i < j
      PROVE  Before(cloud'[i].message, cloud'[j].message)
  <2>1. i \in 1..n /\ (j \in 1..n \/ j = n + 1)
    BY <1>1, <1>7
  <2>2. CASE j \in 1..n
    BY <1>1, <1>7, <2>1, <2>2 DEF Order
  <2>3. CASE j = n + 1
    <3>1. cloud'[i].message \in InCloud /\ cloud'[j].message = s
      BY <1>1, <2>1, <2>3 DEF InCloud, s
    <3>2. Before(cloud'[i].message, m)
      BY <3>1, <1>4 DEF Order, InLine, Ahead
    <3>. QED
      BY <3>1, <3>2, <1>3
  <2>. QED
    BY <2>1, <2>2, <2>3
<1>8. InLine'
  BY <1>3, <1>4, <1>5, <1>6 DEF Ahead, InLine, Order
<1>9. \A x \in UnderWay' : x.of[2] \in 0..sent'[x.of[1]]
  <2>1. s.of[2] \in 0..sent[s.of[1]]
    BY <1>2, <1>4 DEF Order, UnderWay, s
  <2>. QED
    BY <2>1, <1>4, <1>5, <1>6 DEF Order, UnderWay
<1>. QED
  BY <1>7, <1>8, <1>9 DEF Order

\* The hub takes the oldest of its messages.
LEMMA ReceiptKeepsOrder ==
  ASSUME Order, HubPart, InboxPart, UploadNext \/ UNCHANGED uploadVars, HubReceives, sent' = sent,
         mapper' = mapper
  PROVE  Order'
<1>. DEFINE r == inbox["IotHub"]
            h == Head(r)
<1>1. r # <<>> /\ inbox' = [inbox EXCEPT !["IotHub"] = Tail(r)] /\ worker.at = "idle"
  BY DEF HubReceives, Takes, Taken, IotHub_Receive
<1>2. inbox'["mapping"] = inbox["mapping"] /\ inbox'["IotHub"] = Tail(r)
  BY <1>1, QueuesAre, NamesDiffer
<1>3. /\ Increasing(Tail(r), "mapping")
      /\ IsOf("mapping", h) => \A x \in ToSet(Tail(r)) : IsOf("mapping", x) => Before(h, x)
  BY <1>1, QueuesAre, IncreasingShrinks DEF Order
<1>4. h \in ToSet(r) /\ ToSet(Tail(r)) \subseteq ToSet(r)
  BY <1>1, QueuesAre, SequenceShrinks
<1>. HIDE DEF r, h
<1>5. InMapping' = InMapping /\ InHub' \subseteq InHub /\ InHub' \subseteq ToSet(Tail(r))
      /\ Increasing(inbox'["mapping"], "bleTelemetry") /\ Increasing(inbox'["IotHub"], "mapping")
      /\ \A x \in InHub' : IsOf("mapping", x)
  BY <1>2, <1>3, <1>4 DEF InMapping, InHub, Order, r
<1>9. InMapper' = InMapper
  BY DEF InMapper, Mapped
<1>6. /\ cloud' = cloud
      /\ worker' = [at |-> "idle"] \/ (worker'.message = h /\ IsNamedReading(h))
  BY <1>1, WorkerSteps DEF h, r
<1>7. CASE worker' = [at |-> "idle"]
  <2>1. InWorker' = {}
    BY <1>7 DEF InWorker, Working
  <2>. QED
    BY <2>1, <1>5, <1>6, <1>9, FewerInOrder
<1>8. CASE worker'.message = h /\ IsNamedReading(h)
  <2>1. IsOf("mapping", h)
    BY <1>8, KindOf
  <2>2. h \in InHub
    BY <1>4, <2>1 DEF InHub, r
  <2>3. InWorker' \subseteq {h}
    BY <1>8 DEF InWorker
  <2>4. InCloud' = InCloud
    BY <1>6 DEF InCloud
  <2>5. \A x \in InHub' : Before(h, x)
    BY <1>3, <1>5, <2>1
  <2>6. InLine'
    BY <1>5, <1>9, <2>2, <2>3, <2>4, <2>5 DEF Ahead, InLine, Order
  <2>7. \A x \in UnderWay' : x.of[2] \in 0..sent'[x.of[1]]
    BY <1>5, <1>9, <2>2, <2>3, <2>4 DEF Order, UnderWay
  <2>. QED
    BY <1>5, <1>6, <2>6, <2>7 DEF Order
<1>. QED
  BY <1>6, <1>7, <1>8

LEMMA MayGrow ==
  ASSUME NEW s, s \in Seq(ToSet(s)), NEW k, Increasing(s, k), NEW x,
         IsOf(k, x) => \A y \in ToSet(s) : IsOf(k, y) => Before(y, x),
         NEW t, t = s \/ t = Append(s, x)
  PROVE  /\ Increasing(t, k)
         /\ \A y \in ToSet(t) : IsOf(k, y) => y \in ToSet(s) \/ (y = x /\ IsOf(k, x))
<1>1. Increasing(t, k)
  BY IncreasingGrows
<1>2. ToSet(Append(s, x)) = ToSet(s) \cup {x}
  BY SequenceGrows
<1>3. ToSet(t) \subseteq ToSet(s) \cup {x}
  BY <1>2
<1>. QED
  BY <1>1, <1>3

\* A message that is published is the last of the queues it reaches.
LEMMA PublishedIn ==
  ASSUME InboxPart, NEW from, NEW x, Broker_Publish(from, x)
  PROVE  /\ inbox'["mapping"] = inbox["mapping"] \/ inbox'["mapping"] = Append(inbox["mapping"], x)
         /\ inbox'["IotHub"] = inbox["IotHub"] \/ inbox'["IotHub"] = Append(inbox["IotHub"], x)
  BY NamesDiffer DEF Broker_Publish

\* A reading is the last of its device.
LEMMA ReadingKeepsOrder ==
  ASSUME Order, DevicePart, InboxPart, NEW d \in Publishers, DevicePublishes(d),
         TextPart, worker' = worker, cloud' = cloud, mapper' = mapper
  PROVE  Order'
<1>. DEFINE x == Reading(d)
            q == inbox["mapping"]
            r == inbox["IotHub"]
            All == UnderWay
<1>1. /\ x.of = <<d, sent[d] + 1>> /\ IsReading(x) /\ ~IsOf("mapping", x)
  BY ReadingIsMessage, KindOf DEF DevicePublishes, ThreadPublishes
<1>2. sent \in [Publishers -> Nat] /\ sent' = [sent EXCEPT ![d] = sent[d] + 1]
  BY DEF DevicePart, DevicePublishes, ThreadPublishes
<1>3. Broker_Publish(d, x)
  BY DEF DevicePublishes
<1>4. /\ inbox'["mapping"] = q \/ inbox'["mapping"] = Append(q, x)
      /\ inbox'["IotHub"] = r \/ inbox'["IotHub"] = Append(r, x)
  BY <1>3, PublishedIn
<1>. HIDE DEF x, q, r, All
<1>5. \A y \in All : y.of[2] \in 0..sent[y.of[1]] /\ Before(y, x)
  <2>1. SUFFICES ASSUME NEW y \in All PROVE y.of[2] \in 0..sent[y.of[1]] /\ Before(y, x)
    OBVIOUS
  <2>2. y.of[2] \in 0..sent[y.of[1]]
    BY <2>1 DEF Order, All
  <2>3. x.of[1] = d /\ x.of[2] = sent[d] + 1 /\ sent[d] \in Nat
    BY <1>1, <1>2
  <2>. QED
    BY <2>2, <2>3 DEF Before
<1>6. /\ q \in Seq(ToSet(q)) /\ r \in Seq(ToSet(r))
      /\ Increasing(q, "bleTelemetry") /\ Increasing(r, "mapping")
  BY QueuesAre DEF Order, q, r
<1>7. \A y \in ToSet(q) : IsOf("bleTelemetry", y) => y \in InMapping /\ y \in All
  BY DEF InMapping, UnderWay, All, q
<1>8. /\ Increasing(inbox'["mapping"], "bleTelemetry")
      /\ \A y \in ToSet(inbox'["mapping"]) : IsOf("bleTelemetry", y) =>
           y \in ToSet(q) \/ (y = x /\ IsOf("bleTelemetry", x))
  BY <1>4, <1>5, <1>6, <1>7, MayGrow
<1>9. /\ Increasing(inbox'["IotHub"], "mapping")
      /\ \A y \in ToSet(inbox'["IotHub"]) : IsOf("mapping", y) => y \in ToSet(r)
  BY <1>1, <1>4, <1>6, MayGrow
<1>10. InMapping' \subseteq InMapping \cup {x}
  BY <1>7, <1>8 DEF InMapping
<1>11. /\ InHub' \subseteq InHub /\ InWorker' = InWorker /\ InCloud' = InCloud
       /\ InMapper' = InMapper
  BY <1>9 DEF InHub, InWorker, InCloud, InMapper, Working, Mapped, r
<1>12. InLine'
  BY <1>5, <1>10, <1>11 DEF Ahead, InLine, UnderWay, Order, All
<1>13. \A y \in UnderWay' : y.of[2] \in 0..sent'[y.of[1]]
  <2>1. SUFFICES ASSUME NEW y \in All \cup {x} PROVE y.of[2] \in 0..sent'[y.of[1]]
    BY <1>10, <1>11 DEF All, UnderWay
  <2>2. CASE y = x
    <3>1. y.of[1] = d /\ y.of[2] = sent[d] + 1 /\ sent[d] \in Nat /\ sent'[d] = sent[d] + 1
      BY <1>1, <1>2, <2>2
    <3>. QED
      BY <3>1
  <2>3. CASE y \in All
    <3>1. y.of[2] \in 0..sent[y.of[1]]
      BY <1>5, <2>3
    <3>. DEFINE a == y.of[1]
                b == y.of[2]
    <3>2. a = d => sent'[a] = sent[a] + 1 /\ sent[a] \in Nat
      BY <1>2
    <3>3. a # d => sent'[a] = sent[a]
      BY <1>2
    <3>. HIDE DEF a, b
    <3>4. b \in 0..sent[a]
      BY <3>1 DEF a, b
    <3>5. b \in 0..sent'[a]
      BY <3>2, <3>3, <3>4
    <3>. QED
      BY <3>5 DEF a, b
  <2>. QED
    BY <2>1, <2>2, <2>3
<1>. QED
  BY <1>8, <1>9, <1>12, <1>13 DEF Order

\* A command is no reading.
LEMMA CommandKeepsOrder ==
  ASSUME Order, InboxPart, NEW x, IsCommand(x), Broker_Publish("IotHub", x),
         worker' = worker, cloud' = cloud, sent' = sent, mapper' = mapper
  PROVE  Order'
<1>. DEFINE q == inbox["mapping"]
            r == inbox["IotHub"]
<1>1. ~IsOf("mapping", x) /\ ~IsOf("bleTelemetry", x)
  BY KindOf
<1>2. /\ inbox'["mapping"] = q \/ inbox'["mapping"] = Append(q, x)
      /\ inbox'["IotHub"] = r \/ inbox'["IotHub"] = Append(r, x)
  BY PublishedIn
<1>. HIDE DEF q, r
<1>3. /\ q \in Seq(ToSet(q)) /\ r \in Seq(ToSet(r))
      /\ Increasing(q, "bleTelemetry") /\ Increasing(r, "mapping")
  BY QueuesAre DEF Order, q, r
<1>4. /\ Increasing(inbox'["mapping"], "bleTelemetry")
      /\ \A y \in ToSet(inbox'["mapping"]) : IsOf("bleTelemetry", y) => y \in ToSet(q)
  BY <1>1, <1>2, <1>3, MayGrow
<1>5. /\ Increasing(inbox'["IotHub"], "mapping")
      /\ \A y \in ToSet(inbox'["IotHub"]) : IsOf("mapping", y) => y \in ToSet(r)
  BY <1>1, <1>2, <1>3, MayGrow
<1>6. /\ InMapping' \subseteq InMapping /\ InHub' \subseteq InHub /\ InWorker' = InWorker
      /\ InMapper' = InMapper
  BY <1>4, <1>5 DEF InMapping, InHub, InWorker, InMapper, Working, Mapped, q, r
<1>. QED
  BY <1>4, <1>5, <1>6, FewerInOrder

\* The identity map takes the oldest of its messages.
LEMMA MappingKeepsOrder ==
  ASSUME Order, InboxPart, TablePart, MappingReceives, worker' = worker, cloud' = cloud, sent' = sent
  PROVE  Order'
<1>. DEFINE q == inbox["mapping"]
            r == inbox["IotHub"]
            h == Head(q)
            t == Tail(q)
<1>1. q # <<>> /\ "mapping" \in Modules /\ "IotHub" \in Modules /\ inbox' = Taken("mapping")
  BY NamesDiffer DEF MappingReceives, Takes
<1>2. inbox'["mapping"] = t /\ inbox'["IotHub"] = r
  BY <1>1, QueuesAre DEF Taken
<1>3. /\ q \in Seq(ToSet(q)) /\ r \in Seq(ToSet(r)) /\ Queue(q)
      /\ Increasing(q, "bleTelemetry") /\ Increasing(r, "mapping")
  BY QueuesAre, NamesDiffer DEF Order, InboxPart
<1>4. /\ t \in Seq(ToSet(t)) /\ ToSet(t) \subseteq ToSet(q) /\ h \in ToSet(q) /\ IsMessage(h)
      /\ Increasing(t, "bleTelemetry")
      /\ IsOf("bleTelemetry", h) => \A y \in ToSet(t) : IsOf("bleTelemetry", y) => Before(h, y)
  BY <1>1, <1>3, SequenceShrinks, QueueShrinks, IncreasingShrinks
<1>5. /\ InMapping' \subseteq InMapping /\ InHub' = InHub
      /\ InWorker' = InWorker /\ InCloud' = InCloud
      /\ Increasing(inbox'["mapping"], "bleTelemetry") /\ Increasing(inbox'["IotHub"], "mapping")
  BY <1>2, <1>3, <1>4 DEF InMapping, InHub, InWorker, Working, InCloud
<1>6. CASE mapper' = MapperIdle
  <2>1. InMapper' = {}
    BY <1>6 DEF InMapper, Mapped, MapperIdle
  <2>. QED
    BY <1>5, <2>1, FewerInOrder
<1>7. CASE mapper' # MapperIdle
  <2>1. PICK p \in IdentityMap_Receive(table, h.properties) :
          mapper' = [at |-> "publishes", message |-> [h EXCEPT !.properties = p]]
    BY <1>7 DEF MappingReceives
  <2>. DEFINE x == [h EXCEPT !.properties = p]
  <2>2. /\ x.of = h.of
        /\ (IsReading(h) /\ IsNamedReading(x)) \/ (IsCommand(h) /\ IsAddressedCommand(x))
    BY <1>4, Maps
  <2>. HIDE DEF x
  <2>3. InMapper' \subseteq {x} /\ (x \in InMapper' => x.of[1] \in SimulatedDevices)
    BY <2>1 DEF InMapper, Mapped, x
  <2>4. x \in InMapper' => IsOf("bleTelemetry", h)
    BY <2>2, <2>3, NamesDiffer, KindOf DEF IsCommand
  <2>. HIDE DEF q, r, t, h
  <2>5. (\A y : Before(y, h) => Before(y, x)) /\ (\A y : Before(h, y) => Before(x, y))
    BY <2>2 DEF Before
  <2>6. IsOf("bleTelemetry", h) => h \in InMapping
    BY <1>4 DEF InMapping, q
  <2>7. IsOf("bleTelemetry", h) => \A y \in InMapping' : Before(h, y)
    <3>1. \A y \in InMapping' : y \in ToSet(t) /\ IsOf("bleTelemetry", y)
      BY <1>2 DEF InMapping
    <3>. QED
      BY <3>1, <1>4
  <2>8. \A y \in InMapper' : /\ y = x /\ h \in InMapping /\ \A z : Before(z, h) => Before(z, x)
                             /\ \A z \in InMapping' : Before(x, z)
    BY <2>3, <2>4, <2>5, <2>6, <2>7
  <2>9. InLine'
    BY <1>5, <2>8 DEF Ahead, InLine, Order
  <2>10. x \in InMapper' => x.of[2] \in 0..sent[x.of[1]]
    BY <2>2, <2>4, <2>6 DEF Order, UnderWay
  <2>11. \A y \in UnderWay' : y.of[2] \in 0..sent'[y.of[1]]
    BY <1>5, <2>3, <2>10 DEF Order, UnderWay
  <2>. QED
    BY <1>5, <2>9, <2>11 DEF Order
<1>. QED
  BY <1>6, <1>7

\* The identity map publishes what it has made of a message.
LEMMA RepublishingKeepsOrder ==
  ASSUME Order, InboxPart, MapperPart, MappingPublishes, worker' = worker, cloud' = cloud, sent' = sent
  PROVE  Order'
<1>. DEFINE q == inbox["mapping"]
            r == inbox["IotHub"]
            x == mapper.message
<1>1. /\ mapper' = MapperIdle /\ mapper.at = "publishes" /\ Source(x) = "mapping"
      /\ Broker_Publish("mapping", x)
  BY DEF MappingPublishes, MapperPart, MapperIdle
<1>2. /\ inbox'["mapping"] = q \/ inbox'["mapping"] = Append(q, x)
      /\ inbox'["IotHub"] = r \/ inbox'["IotHub"] = Append(r, x)
  BY <1>1, PublishedIn
<1>3. IsOf("mapping", x) => x \in InMapper
  BY <1>1 DEF IsOf, InMapper, Mapped
<1>4. ~IsOf("bleTelemetry", x)
  BY <1>1 DEF IsOf
<1>5. InMapper' = {}
  BY <1>1 DEF InMapper, Mapped, MapperIdle
<1>. HIDE DEF x, q, r
<1>6. /\ q \in Seq(ToSet(q)) /\ r \in Seq(ToSet(r))
      /\ Increasing(q, "bleTelemetry") /\ Increasing(r, "mapping")
  BY QueuesAre DEF Order, q, r
<1>7. \A y \in ToSet(r) : IsOf("mapping", y) => y \in InHub
  BY DEF InHub, r
<1>8. IsOf("mapping", x) => \A y \in ToSet(r) : IsOf("mapping", y) => Before(y, x)
  BY <1>3, <1>7 DEF Order, InLine, Ahead
<1>9. /\ Increasing(inbox'["mapping"], "bleTelemetry")
      /\ \A y \in ToSet(inbox'["mapping"]) : IsOf("bleTelemetry", y) => y \in ToSet(q)
  BY <1>4, <1>2, <1>6, MayGrow
<1>10. /\ Increasing(inbox'["IotHub"], "mapping")
       /\ \A y \in ToSet(inbox'["IotHub"]) : IsOf("mapping", y) =>
            y \in ToSet(r) \/ (y = x /\ IsOf("mapping", x))
  BY <1>2, <1>6, <1>8, MayGrow
<1>11. InMapping' \subseteq InMapping /\ InWorker' = InWorker /\ InCloud' = InCloud
  BY <1>9 DEF InMapping, InWorker, Working, InCloud, q
<1>12. \A y \in InHub' : y \in InHub \/ (y = x /\ x \in InMapper)
  BY <1>3, <1>7, <1>10 DEF InHub
<1>13. InLine'
  BY <1>5, <1>11, <1>12 DEF Ahead, InLine, Order
<1>14. \A y \in UnderWay' : y.of[2] \in 0..sent'[y.of[1]]
  BY <1>5, <1>11, <1>12 DEF Order, UnderWay
<1>. QED
  BY <1>9, <1>10, <1>13, <1>14 DEF Order

\* Nothing but the worker and the cloud changes.
LEMMA WorkKeepsOrder ==
  ASSUME Order, HubPart, InboxPart, WorkerPart, CloudPart, UploadNext \/ UNCHANGED uploadVars,
         inbox' = inbox, sent' = sent, mapper' = mapper, worker.at = "idle" => worker' = worker /\ cloud' = cloud
  PROVE  Order'
<1>1. InMapping' = InMapping /\ InMapper' = InMapper /\ InHub' = InHub
      /\ Increasing(inbox'["mapping"], "bleTelemetry") /\ Increasing(inbox'["IotHub"], "mapping")
  BY DEF InMapping, InMapper, Mapped, InHub, Order
<1>2. ASSUME cloud' = cloud, InWorker' \subseteq InWorker PROVE Order'
  BY <1>1, <1>2, FewerInOrder
<1>3. CASE worker' = [at |-> "idle"] /\ cloud' = cloud
  BY <1>2, <1>3 DEF InWorker, Working
<1>4. CASE worker' = [at |-> "idle"] /\ worker.at # "idle" /\ cloud' = Append(cloud, Sent)
  BY <1>4, SendKeepsOrder
<1>5. CASE worker.at # "idle" /\ worker'.message = worker.message /\ cloud' = cloud
  BY <1>2, <1>5 DEF InWorker, Working
<1>6. CASE worker.at = "idle"
  BY <1>2, <1>6 DEF InWorker, Working
<1>. QED
  BY <1>3, <1>4, <1>5, <1>6, WorkerSteps

\* No step of any thread changes the order of readings.
LEMMA OrderKeeps ==
  ASSUME Order, GatewayPart, DevicePart, TextPart, HubPart, TablePart, InboxPart, CallbackPart,
         WorkerPart, MapperPart, CloudPart, UploadNext \/ UNCHANGED uploadVars
  PROVE  Order'
<1>1. CASE UNCHANGED <<inbox, sent, mapper>> /\ (worker.at = "idle" => UNCHANGED <<worker, cloud>>)
  BY <1>1, WorkKeepsOrder
<1>2. CASE (\E d \in Publishers : DevicePublishes(d)) /\ UNCHANGED <<worker, cloud, mapper>>
  BY <1>2, ReadingKeepsOrder
<1>3. CASE (\E a \in Addresses : /\ CallbackPublishes(a)
                                 /\ Broker_Publish("IotHub", heap[a].callback.message))
             /\ UNCHANGED <<sent, worker, cloud, mapper>>
  BY <1>3, CallbackHas, CommandKeepsOrder DEF CallbackPublishes
<1>4. CASE MappingReceives /\ UNCHANGED <<sent, worker, cloud>>
  BY <1>4, MappingKeepsOrder
<1>10. CASE MappingPublishes /\ UNCHANGED <<sent, worker, cloud>>
  BY <1>10, RepublishingKeepsOrder
<1>5. CASE HubReceives /\ UNCHANGED <<sent, mapper>>
  BY <1>5, ReceiptKeepsOrder
<1>6. ASSUME sent' = sent, cloud' = cloud, InWorker' \subseteq InWorker, InMapper' \subseteq InMapper,
             inbox'["mapping"] \in {inbox["mapping"], <<>>}, inbox'["IotHub"] \in {inbox["IotHub"], <<>>}
      PROVE  Order'
  <2>1. InMapping' \subseteq InMapping /\ InHub' \subseteq InHub
    BY <1>6 DEF InMapping, InHub, ToSet
  <2>2. Increasing(<<>>, "bleTelemetry") /\ Increasing(<<>>, "mapping")
    BY DEF Increasing
  <2>3. Increasing(inbox'["mapping"], "bleTelemetry") /\ Increasing(inbox'["IotHub"], "mapping")
    BY <1>6, <2>2 DEF Order
  <2>. QED
    BY <1>6, <2>1, <2>3, FewerInOrder
<1>7. CASE (\E m \in Modules : TakesOther(m)) /\ UNCHANGED <<sent, worker, cloud, mapper>>
  BY <1>6, <1>7, QueuesAre, NamesDiffer DEF TakesOther, Taken, InWorker, Working, InMapper, Mapped
<1>8. CASE (\E m \in Modules : inbox' = [inbox EXCEPT ![m] = <<>>])
           /\ UNCHANGED <<sent, worker, cloud, mapper>>
  BY <1>6, <1>8, QueuesAre, NamesDiffer DEF InWorker, Working, InMapper, Mapped
<1>9. CASE /\ inbox' = [m \in Modules |-> <<>>] /\ UNCHANGED <<sent, cloud>>
           /\ worker' = [at |-> "idle"] /\ mapper' = MapperIdle
  BY <1>6, <1>9, NamesDiffer DEF InWorker, Working, InMapper, Mapped, MapperIdle
<1>. QED
  BY <1>1, <1>2, <1>3, <1>4, <1>5, <1>7, <1>8, <1>9, <1>10, InboxSteps

-----------------------------------------------------------------------------
(* The invariant and what follows from it *)

LEMMA InitIsUInv == UploadInit => UInv
<1>. SUFFICES ASSUME UploadInit PROVE UInv
  OBVIOUS
<1>. USE DEF UploadInit
<1>1. LogPart /\ FileIsOpen
  <2>1. file = NewFile /\ buffer = <<>> /\ fout = FALSE /\ gw.at = "down"
    BY DEF LoggerInit
  <2>2. IsFile(file) /\ FitsEnd(file, buffer)
    BY <2>1, NewFiles
  <2>. QED
    BY <2>1, <2>2 DEF LogPart, FileIsOpen
<1>2. GatewayPart
  <2>1. /\ config \in Gateways /\ gw = [at |-> "down", left |-> <<>>] /\ links = <<>> /\ attached = {}
    OBVIOUS
  <2>2. gw = [at |-> gw.at, left |-> gw.left] /\ gw.at = "down" /\ gw.left = <<>>
    BY <2>1
  <2>3. <<>> \in Seq(Modules) /\ <<>> \in Seq(ToSet(config.links)) /\ ToSet(<<>>) = {} /\ IsInjective(<<>>)
    BY DEF ToSet, IsInjective
  <2>. QED
    BY <2>1, <2>2, <2>3 DEF GatewayPart
<1>3. DevicePart
  <2>1. MaxMessages \in [Publishers -> Nat]
    BY DevicesAssumption DEF Publishers
  <2>. QED
    BY <2>1, NoDataIsNotAllocated DEF DevicesInit, DevicePart, OnTurn
<1>4. HubPart
  <2>1. heap = [a \in Addresses |-> Unused] /\ personalities = <<>> /\ worker = [at |-> "idle"]
    BY DEF HubInit
  <2>2. \A a \in Addresses : ~heap[a].used
    BY <2>1 DEF Unused
  <2>3. <<>> \in Seq(Addresses) /\ IsInjective(<<>>) /\ DOMAIN <<>> = {}
    BY DEF IsInjective
  <2>. QED
    BY <2>1, <2>2, <2>3 DEF HubPart
<1>12. TextPart
  BY NamesDiffer DEF DevicesInit, TextPart
<1>13. MapperPart /\ InMapper = {}
  BY DEF MapperPart, InMapper, Mapped, MapperIdle
<1>5. TablePart
  BY DEF TablePart
<1>6. InboxPart
  BY EmptyQueue DEF InboxPart
<1>7. CallbackPart
  BY DEF HubInit, CallbackPart, Unused
<1>8. WorkerPart /\ InWorker = {}
  BY DEF HubInit, WorkerPart, InWorker, Working
<1>9. CloudPart /\ InCloud = {}
  BY EmptySeq DEF HubInit, CloudPart, InCloud, ToSet
<1>10. InMapping = {} /\ InHub = {}
  BY NamesDiffer DEF InMapping, InHub, ToSet
<1>11. Order
  <2>1. inbox["mapping"] = <<>> /\ inbox["IotHub"] = <<>> /\ cloud = <<>>
    BY NamesDiffer DEF HubInit
  <2>. QED
    BY <2>1, <1>8, <1>9, <1>10, <1>13 DEF Order, InLine, UnderWay, Increasing, Ahead
<1>. QED
  BY <1>1, <1>2, <1>3, <1>4, <1>5, <1>6, <1>7, <1>8, <1>9, <1>11, <1>12, <1>13
     DEF UInv

LEMMA StepKeepsUInv == UInv /\ [UploadNext]_uploadVars => UInv'
<1>. SUFFICES ASSUME UInv, UploadNext \/ UNCHANGED uploadVars PROVE UInv'
  OBVIOUS
<1>1. /\ LogPart /\ GatewayPart /\ FileIsOpen /\ DevicePart /\ TextPart /\ HubPart
      /\ TablePart /\ InboxPart /\ CallbackPart /\ WorkerPart /\ MapperPart /\ CloudPart /\ Order
  BY DEF UInv
<1>2. LogPart' /\ GatewayPart' /\ FileIsOpen' /\ DevicePart' /\ TextPart'
  BY <1>1, LogKeeps, GatewayKeeps, FileKeeps, DeviceKeeps, TextKeeps
<1>3. HubPart' /\ CallbackPart' /\ WorkerPart' /\ MapperPart' /\ CloudPart'
  BY <1>1, HubKeeps, CallbackKeeps, WorkerKeeps, MapperKeeps, CloudKeeps
<1>4. TablePart' /\ InboxPart' /\ Order'
  BY <1>1, TableKeeps, InboxKeeps, OrderKeeps
<1>. QED
  BY <1>2, <1>3, <1>4 DEF UInv

\* Every reachable state satisfies the inductive invariant.
THEOREM UploadInductive == UploadSpec => []UInv
<1>. QED
  BY InitIsUInv, StepKeepsUInv, PTL DEF UploadSpec

\* The tokens of the log follow one another as in an array, but next to where
\* writing broke off.
THEOREM LogShapeAlways == UploadSpec => []LogKeepsShape
<1>1. UInv => LogKeepsShape
  BY ShapeIsKept DEF UInv
<1>. QED
  BY <1>1, UploadInductive, PTL

\* Properties have the names the modules know.
LEMMA MessageHasNames ==
  ASSUME NEW m, IsMessage(m)
  PROVE  DOMAIN m.properties \subseteq Names
<1>1. CASE IsReading(m)
  BY <1>1 DEF IsReading, Names
<1>2. CASE IsNamedReading(m)
  BY <1>2 DEF IsNamedReading, Names
<1>3. CASE IsCommand(m) \/ IsAddressedCommand(m)
  BY <1>3 DEF IsCommand, IsAddressedCommand
<1>. QED
  BY <1>1, <1>2, <1>3 DEF IsMessage

LEMMA InboxHas ==
  ASSUME InboxPart, NEW m \in Modules, NEW i \in DOMAIN inbox[m]
  PROVE  IsMessage(inbox[m][i])
<1>1. inbox[m][i] \in ToSet(inbox[m])
  BY DEF ToSet
<1>. QED
  BY <1>1 DEF InboxPart, Queue

LEMMA UInvHasTypes == UInv => UploadTypeOK
<1>. SUFFICES ASSUME UInv PROVE UploadTypeOK
  OBVIOUS
<1>. USE DEF UInv
<1>1. \A m \in Modules : \A i \in DOMAIN inbox[m] : DOMAIN inbox[m][i].properties \subseteq Names
  BY InboxHas, MessageHasNames
<1>2. \A d \in Publishers : sent[d] \in 0..MaxMessages[d]
  <2>1. MaxMessages \in [Publishers -> Nat]
    BY DevicesAssumption DEF Publishers
  <2>2. ASSUME NEW d \in Publishers
        PROVE  sent[d] \in Nat /\ MaxMessages[d] \in Nat /\ sent[d] <= MaxMessages[d]
    BY <2>1 DEF DevicePart
  <2>. QED
    BY <2>2
<1>3. \A d \in Publishers : data[d].allocated => data[d].stop \in BOOLEAN
  BY NoDataIsNotAllocated DEF DevicePart
<1>4. thread \in [Publishers -> {"none", "looks", "writes", "copies", "publishes", "ended"}]
  BY DEF DevicePart
<1>5. \A a \in Addresses : heap[a].used => heap[a].callback.at \in {"none", "reads", "publishes"}
  <2>1. NoCallback.at = "none"
    BY DEF NoCallback
  <2>2. \A c, name : IsCallback(c, name) => c.at \in {"none", "reads", "publishes"}
    BY <2>1 DEF IsCallback
  <2>. QED
    BY <2>2 DEF CallbackPart
<1>6. /\ \A i \in DOMAIN personalities : heap[personalities[i]].used
      /\ worker.at \in {"idle", "created", "pushes", "destroys", "sends"}
  <2>1. HubPart
    OBVIOUS
  <2>2. \A i \in DOMAIN personalities : heap[personalities[i]].used
    BY <2>1 DEF HubPart
  <2>3. worker = [at |-> "idle"] \/ worker.at \in {"created", "pushes", "destroys", "sends"}
    BY <2>1 DEF HubPart
  <2>4. worker.at \in {"idle", "created", "pushes", "destroys", "sends"}
    BY <2>3
  <2>. QED
    BY <2>2, <2>4
<1>7. ToSet(links) \subseteq ToSet(config.links)
  <2>. DEFINE S == ToSet(config.links)
  <2>1. links \in Seq(S)
    BY DEF GatewayPart
  <2>. HIDE DEF S
  <2>2. \A i \in DOMAIN links : links[i] \in S
    BY <2>1
  <2>. QED
    BY <2>2 DEF ToSet, S
<1>8. attached \subseteq Modules /\ gw.at \in {"down", "starting", "up", "unlinking", "removing", "joining"}
  BY GatewayIs DEF GatewayPart
<1>10. mapper.at \in {"idle", "publishes"}
  BY DEF MapperPart, MapperIdle
<1>9. fout <=> /\ gw.at # "down" /\ "Logger" \in ToSet(config.modules)
               /\ gw.at \in {"removing", "joining"} => "Logger" \in ToSet(gw.left)
  BY DEF FileIsOpen
<1>. QED
  BY <1>1, <1>2, <1>3, <1>4, <1>5, <1>6, <1>7, <1>8, <1>9, <1>10 DEF UploadTypeOK

\* The vector, which has no address twice, and the worker have every client.
LEMMA OneClient == UInv => OneClientPerDevice
<1>. SUFFICES ASSUME UInv PROVE OneClientPerDevice
  OBVIOUS
<1>1. HubPart
  BY DEF UInv
<1>2. ASSUME NEW a \in ToSet(personalities)
      PROVE  Cardinality({i \in DOMAIN personalities : personalities[i] = a}) = 1
  <2>1. PICK k \in DOMAIN personalities : personalities[k] = a
    BY DEF ToSet
  <2>2. {i \in DOMAIN personalities : personalities[i] = a} = {k}
    BY <2>1, <1>1 DEF HubPart, IsInjective
  <2>. QED
    BY <2>2, FS_Singleton
<1>3. ASSUME NEW a \in Addresses, heap[a].used, a \notin ToSet(personalities)
      PROVE  worker.at # "idle" /\ worker.for = a
  BY <1>1, <1>3 DEF HubPart, MakesPersonality
<1>. QED
  BY <1>1, <1>2, <1>3 DEF OneClientPerDevice, HubPart

\* Types, and the parts of the gateway that belong together: a thread and the
\* handle it reads, a device and its client, the file and the logger.
THEOREM UploadInvAlways == UploadSpec => []UploadInv
<1>1. UInv => ThreadsHaveData
  BY DEF UInv, DevicePart, ThreadsHaveData
<1>3. UInv => WorkersHaveModules
  BY DEF UInv, WorkerPart, MapperPart, MapperIdle, WorkersHaveModules
<1>2. UInv => UploadInv
  BY <1>1, <1>3, UInvHasTypes, OneClient DEF UploadInv
<1>. QED
  BY <1>2, UploadInductive, PTL

\* What the cloud gets for a device are messages of the device with its
\* address, each once and in order; and its readings, if it is the only
\* simulated device of its gateway.
THEOREM EventsAlwaysTheDevices == UploadSpec => []EventsAreTheDevices
<1>1. ASSUME UInv PROVE EventsAreTheDevices
  <2>1. CloudPart /\ Order
    BY <1>1 DEF UInv
  <2>2. ASSUME NEW i \in DOMAIN cloud, NEW j \in 1..(i - 1),
               cloud[j].message.of[1] = cloud[i].message.of[1]
        PROVE  cloud[j].message.of[2] < cloud[i].message.of[2]
    <3>1. DOMAIN cloud = 1..Len(cloud) /\ Len(cloud) \in Nat
      BY <2>1, LenProperties DEF CloudPart
    <3>2. j \in DOMAIN cloud /\ j < i
      BY <3>1
    <3>. QED
      BY <2>1, <2>2, <3>2 DEF Order, Before
  <2>. QED
    BY <2>1, <2>2 DEF CloudPart, Belongs, EventsAreTheDevices
<1>. QED
  BY <1>1, UploadInductive, PTL

\* What comes of a command out of the identity map is for the address of the
\* device it was sent to, and no command goes back to the cloud.
THEOREM CommandsAlwaysAddressed == UploadSpec => []CommandsAreAddressed
<1>1. ASSUME UInv PROVE CommandsAreAddressed
  <2>1. \A i \in DOMAIN cloud : cloud[i].message.of[1] # "cloud"
    BY <1>1, NamesDiffer DEF UInv, CloudPart
  <2>2. ASSUME NEW c, IsMessage(c), c.of[1] = "cloud", Source(c) = "mapping"
        PROVE  /\ \E j \in DOMAIN Mapping :
                    /\ Mapping[j].deviceId = c.of[2]
                    /\ c.properties["macAddress"] = Upper[Mapping[j].macAddress]
               /\ {"deviceName", "deviceKey"} \cap DOMAIN c.properties = {}
    <3>1. ~IsReading(c) /\ ~IsNamedReading(c)
      BY <2>2, NamesDiffer DEF IsReading, IsNamedReading
    <3>2. ~IsCommand(c)
      BY <2>2 DEF IsCommand, Source, ConstMap_GetValue
    <3>. QED
      BY <2>2, <3>1, <3>2 DEF IsMessage, IsAddressedCommand
  <2>3. \A m \in Modules : \A i \in DOMAIN inbox[m] : IsMessage(inbox[m][i])
    BY <1>1, InboxHas DEF UInv
  <2>. QED
    BY <2>1, <2>2, <2>3 DEF CommandsAreAddressed, Source
<1>. QED
  BY <1>1, UploadInductive, PTL
=============================================================================
