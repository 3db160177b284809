-------------------------------- MODULE Ble --------------------------------
(***************************************************************************)
(* modules/ble/src: one BLE module on Linux, from BLE_Create to the end of *)
(* BLE_Destroy.                                                            *)
(*                                                                         *)
(* Callbacks are run by whoever pumps GLib's default main context: the     *)
(* module's own event thread, the loop of another module (shared), or      *)
(* BLE_Destroy while it waits.  One callback runs at a time; but a callback*)
(* and a caller run side by side, so BLEIO_Seq_Run and BLEIO_Seq_Destroy,  *)
(* which meet in the state of the sequence, are taken apart.               *)
(*                                                                         *)
(* Every request to the device is a sequence of asynchronous calls         *)
(* (gio_async_seq.c).  A request stands for the memory it points to: what a*)
(* callback does to a sequence that was freed is not followed.             *)
(***************************************************************************)
EXTENDS Integers, Sequences, FiniteSets, SequencesExt

CONSTANTS
  Configured,  \* instructions of the configuration, in order
  Added,       \* instructions that messages bring
  TypeOf,      \* the instruction_type of each
  MayFail,     \* calls that may report an error
  MaxReads,    \* bound: requests of one instruction on their way
  None

Instructions == ToSet(Configured) \cup Added
Types == {"READ_ONCE", "READ_PERIODIC", "WRITE_ONCE", "WRITE_AT_INIT", "WRITE_AT_EXIT"}
\* BLEIO_gatt_read_char_by_uuid stands for the write as well.
FallibleCalls == {"malloc", "BLEIO_gatt_connect", "g_main_loop_new",
                  "BLEIO_gatt_read_char_by_uuid", "g_timeout_add"}

ASSUME InstructionAssumption ==
  /\ Configured \in Seq(ToSet(Configured)) /\ IsInjective(Configured)
  /\ IsFiniteSet(Added) /\ ToSet(Configured) \cap Added = {}
  /\ {"connect", "disconnect"} \cap Instructions = {}
  /\ TypeOf \in [Instructions -> Types]
  /\ None \notin {"loop", "caller"}
ASSUME FailureAssumption == MayFail \subseteq FallibleCalls
ASSUME MaxReadsAssumption == MaxReads \in Nat \ {0}

VARIABLES
  pc,         \* the thread that creates and destroys the module
  handle,     \* BLE_HANDLE_DATA is allocated
  connected,  \* .is_connected
  complete,   \* .is_destroy_complete
  sequence,   \* BLEIO_SEQ_HANDLE_DATA is allocated, and the GATT object with it
  state,      \* its state
  refs,       \* its reference count
  vector,     \* its instructions
  moved,      \* those that were moved while a request or a timer points at them
  exits,      \* positions in the vector BLEIO_Seq_Destroy has still to schedule
  gatt,       \* state of the GATT object
  live,       \* added instructions in memory of their own
  added,      \* instructions that were added
  step,       \* step[r]: the asynchronous call request r is at; 0: no request
  timers,     \* instructions with a GLib timer
  run,        \* positions BLEIO_Seq_Run has still to schedule
  runner,     \* who is in BLEIO_Seq_Run: None, "loop", or BLE_Destroy, "caller"
  undo,       \* its reference for a request that fails: "none", "taken", or
              \* "dropped" when it was the last and that went unnoticed
  loop,       \* the event thread
  shared      \* another loop pumps the default context

handleVars == <<handle, connected, complete>>
sequenceVars == <<sequence, state, refs, vector, moved>>
requestVars == <<step, timers>>
runVars == <<run, runner, undo>>
instructionVars == <<live, added>>
vars == <<pc, handleVars, sequenceVars, exits, gatt, instructionVars, requestVars,
          runVars, loop, shared>>

Io == Instructions \X (1..MaxReads)
Connect == <<"connect", 1>>
Disconnect == <<"disconnect", 1>>
Requests == Io \cup {Connect, Disconnect}

\* The asynchronous calls each request adds to its sequence.
Calls(r) == CASE r = Connect -> 4 [] r = Disconnect -> 1 [] OTHER -> 2

Pending(i) == {r \in {i} \X (1..MaxReads) : step[r] > 0}
Destroying == {"destroying", "waiting", "joining"}

Init ==
  /\ pc = "none" /\ handle = FALSE /\ connected = FALSE /\ complete = FALSE
  /\ sequence = FALSE /\ state = "IDLE" /\ refs = 0 /\ vector = Configured
  /\ moved = {} /\ undo = "none"
  /\ exits = {} /\ gatt = "DISCONNECTED" /\ live = {} /\ added = {}
  /\ step = [r \in Requests |-> 0] /\ timers = {}
  /\ run = {} /\ runner = None /\ loop = "none" /\ shared \in BOOLEAN

-----------------------------------------------------------------------------
(* The instruction sequence, bleio_seq_linux.c *)

IsExit(i) == TypeOf[i] = "WRITE_AT_EXIT"

\* Where the exit writes are in the vector, and the next position of a loop.
ExitsOf(v) == {n \in DOMAIN v : IsExit(v[n])}
First(N) == CHOOSE n \in N : \A m \in N : n <= m

\* The first of the calls is made.
GIO_Async_Seq_Run_Async(s, r) == [s EXCEPT ![r] = 1]

schedule_periodic(i) == timers' = timers \cup {i} /\ UNCHANGED step

\* schedule_read and schedule_write: a request, for which the device must be
\* connected.
schedule_read(i) ==
  /\ gatt = "CONNECTED"
  /\ \E n \in 1..MaxReads :
       step[<<i, n>>] = 0 /\ step' = GIO_Async_Seq_Run_Async(step, <<i, n>>)
  /\ UNCHANGED timers

\* A timer or a request is a reference.
schedule_instruction(i) ==
  /\ \/ TypeOf[i] = "READ_PERIODIC" /\ schedule_periodic(i)
     \/ TypeOf[i] # "READ_PERIODIC" /\ schedule_read(i)
  /\ refs' = refs + 1

\* The call of schedule_read, schedule_write or schedule_periodic that comes
\* after INC_REF and, if it fails, is followed by DEC_REF.
CallFails(i) ==
  IF TypeOf[i] = "READ_PERIODIC" THEN "g_timeout_add" \in MayFail
  ELSE gatt # "CONNECTED" \/ "BLEIO_gatt_read_char_by_uuid" \in MayFail

\* Mutant: the reference of a request that could not be made is kept.
NotScheduled_referenced(i) ==
  /\ "malloc" \in MayFail \/ CallFails(i)
  /\ refs' = refs + 1
  /\ UNCHANGED requestVars

\* Nothing comes of it.  The reference that is taken and given back has no
\* effect when the owner's is there; see BLEIO_Seq_Run for when it is not.
NotScheduled(i) ==
  /\ "malloc" \in MayFail \/ CallFails(i)
  /\ UNCHANGED <<refs, requestVars>>

BLEIO_gatt_disconnect(s) ==
  IF gatt = "CONNECTED" THEN GIO_Async_Seq_Run_Async(s, Disconnect) ELSE s

\* BLE_Destroy asks to be called back, a failed BLE_Create does not.
on_destroy_complete(s) ==
  /\ pc \in Destroying
  /\ complete' = TRUE
  /\ step' = IF connected THEN BLEIO_gatt_disconnect(s) ELSE s

\* Mutant: a reference less does not count as the last.
dec_ref_handle_early(s) ==
  /\ refs' = refs - 1
  /\ \/ refs > 2 /\ step' = s /\ UNCHANGED <<sequence, complete>>
     \/ /\ refs <= 2
        /\ sequence' = FALSE
        /\ on_destroy_complete(s) \/ (pc \notin Destroying /\ step' = s /\ UNCHANGED complete)

\* With the last reference on_destroy_complete is called, and the sequence and
\* the GATT object are freed.  s are the requests that are left.
dec_ref_handle(s) ==
  /\ refs' = refs - 1
  /\ \/ refs > 1 /\ step' = s /\ UNCHANGED <<sequence, complete>>
     \/ /\ refs = 1
        /\ sequence' = FALSE
        /\ on_destroy_complete(s) \/ (pc \notin Destroying /\ step' = s /\ UNCHANGED complete)

\* A read of a timer leaves the instruction to the timer; another request frees
\* an instruction that was added.
OutOfUse(i) == IF TypeOf[i] = "READ_PERIODIC" THEN {} ELSE {i}

\* on_read_complete and on_write_complete of the sequence.
IoComplete(r) ==
  /\ dec_ref_handle([step EXCEPT ![r] = 0])
  /\ live' = live \ OutOfUse(r[1])
  /\ UNCHANGED <<state, vector, moved, gatt, added, timers, connected, runVars>>

\* BLEIO_Seq_Run, as far as the test of the state.
BLEIO_Seq_Run ==
  \/ /\ state = "IDLE"
     /\ state' = "RUNNING"
     /\ run' = DOMAIN vector \ ExitsOf(vector)
     /\ \/ runner' = "loop" /\ (loop = "running" \/ shared)
        \/ runner' = "caller" /\ pc = "waiting" /\ loop # "running"
     /\ UNCHANGED undo
  \/ /\ state # "IDLE"
     /\ state' = "ERROR"
     /\ UNCHANGED runVars

\* One instruction more; the first that cannot be scheduled ends the loop.
RunSchedules ==
  /\ run # {} /\ sequence /\ undo = "none"
  /\ LET i == vector[First(run)]
     IN  \/ /\ schedule_instruction(i)
            /\ run' = run \ {First(run)}
            /\ UNCHANGED <<state, runner>>
         \/ /\ "malloc" \in MayFail
            /\ state' = "ERROR" /\ run' = {} /\ runner' = None
            /\ UNCHANGED <<refs, requestVars>>
  /\ UNCHANGED <<pc, handleVars, sequence, vector, moved, exits, gatt, instructionVars, undo,
                 loop, shared>>

\* A call that fails takes a reference and gives it back, to a sequence that
\* BLEIO_Seq_Destroy may have let go of meanwhile: DEC_REF does not look whether
\* it was the last.
RunTakesReference ==
  /\ run # {} /\ sequence /\ undo = "none"
  /\ CallFails(vector[First(run)])
  /\ refs' = refs + 1 /\ undo' = "taken"
  /\ UNCHANGED <<pc, handleVars, sequence, state, vector, moved, exits, gatt, instructionVars,
                 requestVars, run, runner, loop, shared>>
RunGivesBack ==
  /\ undo = "taken"
  /\ refs' = refs - 1 /\ undo' = IF refs = 1 THEN "dropped" ELSE "none"
  /\ state' = "ERROR" /\ run' = {} /\ runner' = None
  /\ UNCHANGED <<pc, handleVars, sequence, vector, moved, exits, gatt, instructionVars,
                 requestVars, loop, shared>>

\* The state is written again, whatever it has become meanwhile: from a result
\* that is not set when there are only exit writes.
RunResults == {"RUNNING"} \cup (IF \A i \in ToSet(vector) : IsExit(i) THEN {"ERROR"} ELSE {})
RunReturns ==
  /\ runner # None /\ run = {} /\ sequence
  /\ state' \in RunResults
  /\ run' = {} /\ runner' = None
  /\ UNCHANGED <<pc, handleVars, sequence, refs, vector, moved, exits, gatt, instructionVars,
                 requestVars, undo, loop, shared>>

\* BLEIO_Seq_Destroy may have freed the sequence under BLEIO_Seq_Run.
RunFindsNothing ==
  /\ runner # None /\ ~sequence
  /\ run' = {} /\ runner' = None
  /\ UNCHANGED <<pc, handleVars, sequenceVars, exits, gatt, instructionVars, requestVars, undo,
                 loop, shared>>

-----------------------------------------------------------------------------
(* Callbacks *)

CanDispatch == runner = None /\ (loop = "running" \/ shared \/ pc = "waiting")

\* Mutant: timers do not look at the state.
on_timer_always(i) ==
  /\ CanDispatch /\ i \in timers
  /\ schedule_read(i)
  /\ refs' = refs + 1
  /\ UNCHANGED <<pc, handleVars, sequence, state, vector, moved, exits, gatt, instructionVars,
                 runVars, loop, shared>>

\* While the sequence runs the timer makes a read, or logs that it could not;
\* otherwise it goes, and an instruction that was added is freed with it.
on_timer(i) ==
  /\ CanDispatch /\ i \in timers
  /\ \/ /\ state = "RUNNING"
        /\ schedule_read(i)
        /\ refs' = refs + 1
        /\ UNCHANGED <<sequence, complete, live>>
     \/ /\ state # "RUNNING"
        /\ timers' = timers \ {i}
        /\ live' = live \ {i}
        /\ dec_ref_handle(step)
  /\ UNCHANGED <<pc, handle, connected, state, vector, moved, exits, gatt, added, runVars,
                 loop, shared>>

\* gio_async_seq.c: a call of the request ended well and the next is made.
resolve_callback(r) ==
  /\ CanDispatch
  /\ step[r] \in 1..(Calls(r) - 1)
  /\ r = Connect => sequence
  /\ step' = [step EXCEPT ![r] = @ + 1]
  /\ UNCHANGED <<pc, handleVars, sequenceVars, exits, gatt, instructionVars, timers, runVars,
                 loop, shared>>

\* The last call ended, or one failed: the request is complete.
on_io_complete(r) ==
  /\ CanDispatch
  /\ r \in Io /\ step[r] > 0
  /\ IoComplete(r)
  /\ UNCHANGED <<pc, handle, exits, loop, shared>>

\* on_sequence_complete of the connection, and on_connect_complete.
on_connect_complete ==
  /\ CanDispatch
  /\ step[Connect] = Calls(Connect) /\ sequence
  /\ step' = [step EXCEPT ![Connect] = 0]
  /\ gatt' = "CONNECTED" /\ connected' = TRUE
  /\ BLEIO_Seq_Run
  /\ UNCHANGED <<pc, handle, complete, sequence, refs, vector, moved, exits, instructionVars,
                 timers, loop, shared>>

\* on_sequence_error of the connection: the module only logs.
on_connect_error ==
  /\ CanDispatch
  /\ step[Connect] > 0 /\ sequence
  /\ step' = [step EXCEPT ![Connect] = 0]
  /\ gatt' = "ERROR"
  /\ UNCHANGED <<pc, handleVars, sequenceVars, exits, instructionVars, timers, runVars, loop,
                 shared>>

\* A connection or a disconnection holds no reference: its callbacks may find
\* the GATT object freed.
CallbackFindsNothing ==
  /\ CanDispatch
  /\ \E r \in {Connect, Disconnect} :
       step[r] > 0 /\ ~sequence /\ step' = [step EXCEPT ![r] = 0]
  /\ UNCHANGED <<pc, handleVars, sequenceVars, exits, gatt, instructionVars, timers, runVars,
                 loop, shared>>

\* event_dispatcher: g_main_loop_run forgets a g_main_loop_quit that came before.
EventThread ==
  /\ \/ loop = "starting" /\ loop' = "running"
     \/ loop = "quit" /\ runner # "loop" /\ loop' = "ended"
  /\ UNCHANGED <<pc, handleVars, sequenceVars, exits, gatt, instructionVars, requestVars,
                 runVars, shared>>

-----------------------------------------------------------------------------
(* The module, ble.c *)

\* g_main_loop_quit
Quit(l) == IF l = "running" THEN "quit" ELSE l

BLEIO_Seq_Create == sequence' = TRUE /\ refs' = 1

init_glib_loop == loop' = "starting"

\* The calls of the connection follow each other; it is no reference.
BLEIO_gatt_connect ==
  gatt' = "CONNECTING" /\ step' = GIO_Async_Seq_Run_Async(step, Connect)

BLE_Create ==
  /\ pc = "none"
  /\ handle' = TRUE
  /\ BLEIO_Seq_Create /\ init_glib_loop
  /\ \/ pc' = "up" /\ BLEIO_gatt_connect
     \/ "BLEIO_gatt_connect" \in MayFail /\ pc' = "terminating" /\ UNCHANGED <<gatt, step>>
  /\ UNCHANGED <<connected, complete, state, vector, moved, exits, instructionVars, timers,
                 runVars, shared>>

\* What was created before init_glib_loop failed is given back.
BLE_CreateFails ==
  /\ pc = "none"
  /\ {"malloc", "g_main_loop_new"} \cap MayFail # {}
  /\ pc' = "gone"
  /\ UNCHANGED <<handleVars, sequenceVars, exits, gatt, instructionVars, requestVars, runVars,
                 loop, shared>>

\* terminate_event_dispatcher waits for the loop to run, or for ten seconds.  The
\* sequence goes, as nothing can be written, and the handle: the event thread is
\* not joined.
terminate_event_dispatcher ==
  /\ pc = "terminating"
  /\ pc' = "gone"
  /\ loop' = Quit(loop)
  /\ handle' = FALSE
  /\ dec_ref_handle(step)
  /\ state' = "SHUTTING_DOWN"
  /\ UNCHANGED <<connected, vector, moved, exits, gatt, instructionVars, timers, runVars,
                 shared>>

\* Instructions of the vector that a request or a timer points at, and the one
\* that BLEIO_Seq_Run may just have looked up.
PointedAt == {i \in ToSet(vector) : Pending(i) # {} \/ i \in timers}
BeingScheduled == IF run = {} THEN {} ELSE {vector[First(run)]}

\* VECTOR_push_back may find room where the vector is, or move it.
VECTOR_push_back(i) ==
  /\ vector' = Append(vector, i)
  /\ \E M \in {{}, PointedAt, PointedAt \cup BeingScheduled} : moved' = moved \cup M

\* schedule_instruction with an instruction that was added: an exit write waits
\* in the vector, another instruction in memory of its own.
KeepInstruction(i) ==
  IF IsExit(i)
  THEN VECTOR_push_back(i) /\ UNCHANGED <<live, refs, requestVars>>
  ELSE schedule_instruction(i) /\ live' = live \cup {i} /\ UNCHANGED <<vector, moved>>

BLEIO_Seq_AddInstruction(i) ==
  /\ state = "RUNNING"
  /\ added' = added \cup {i}
  /\ \/ KeepInstruction(i)
     \/ NotScheduled(i) /\ UNCHANGED <<vector, moved, live>>

\* A message for this device; the worker of the broker delivers it.
BLE_Receive ==
  /\ pc = "up"
  /\ \E i \in Added \ added : BLEIO_Seq_AddInstruction(i)
  /\ UNCHANGED <<pc, handleVars, sequence, state, exits, gatt, runVars, loop, shared>>

BLE_Destroy ==
  /\ pc = "up"
  /\ pc' = "destroying"
  /\ state' = "SHUTTING_DOWN"
  /\ exits' = ExitsOf(vector)
  /\ UNCHANGED <<handleVars, sequence, refs, vector, moved, gatt, instructionVars, requestVars,
                 runVars, loop, shared>>

DestroySchedules ==
  /\ pc = "destroying" /\ exits # {}
  /\ LET i == vector[First(exits)] IN schedule_instruction(i) \/ NotScheduled(i)
  /\ exits' = exits \ {First(exits)}
  /\ UNCHANGED <<pc, handleVars, sequence, state, vector, moved, gatt, instructionVars, runVars,
                 loop, shared>>

DestroyReleases ==
  /\ pc = "destroying" /\ exits = {}
  /\ pc' = "waiting"
  /\ dec_ref_handle(step)
  /\ UNCHANGED <<handle, connected, state, vector, moved, exits, gatt, instructionVars, timers,
                 runVars, loop, shared>>

\* on_destroy_complete was called.
StopWaiting ==
  /\ pc = "waiting" /\ runner # "caller"
  /\ complete
  /\ pc' = "joining" /\ loop' = Quit(loop)
  /\ UNCHANGED <<handleVars, sequenceVars, exits, gatt, instructionVars, requestVars, runVars,
                 shared>>

\* Five seconds are over.
GiveUp ==
  /\ pc = "waiting" /\ runner # "caller"
  /\ ~complete
  /\ pc' = "joining" /\ loop' = Quit(loop)
  /\ UNCHANGED <<handleVars, sequenceVars, exits, gatt, instructionVars, requestVars, runVars,
                 shared>>

\* ThreadAPI_Join, and the handle is freed.
DestroyReturns ==
  /\ pc = "joining" /\ loop = "ended"
  /\ pc' = "gone" /\ handle' = FALSE
  /\ UNCHANGED <<connected, complete, sequenceVars, exits, gatt, instructionVars, requestVars,
                 runVars, loop, shared>>

RunNext == RunSchedules \/ RunTakesReference \/ RunGivesBack \/ RunReturns \/ RunFindsNothing

CallbackNext ==
  \/ \E i \in Instructions : on_timer(i)
  \/ \E r \in Requests : resolve_callback(r) \/ on_io_complete(r)
  \/ on_connect_complete \/ on_connect_error \/ CallbackFindsNothing
  \/ RunNext

DestroyNext == DestroySchedules \/ DestroyReleases \/ StopWaiting \/ DestroyReturns

Next ==
  \/ BLE_Create \/ BLE_CreateFails \/ terminate_event_dispatcher
  \/ BLE_Receive \/ BLE_Destroy \/ DestroyNext \/ GiveUp
  \/ EventThread \/ CallbackNext

\* The device answers, timers fire, and threads go on; a message need not come,
\* the module need not be destroyed, and BLE_Destroy need not give up.
Fairness ==
  /\ WF_vars(DestroyNext) /\ WF_vars(EventThread)
  /\ WF_vars(RunNext)
  /\ \A i \in Instructions : WF_vars(on_timer(i))
  /\ \A r \in Requests : WF_vars(resolve_callback(r) \/ on_io_complete(r))

Spec == Init /\ [][Next]_vars /\ Fairness

-----------------------------------------------------------------------------
States == {"IDLE", "RUNNING", "SHUTTING_DOWN", "ERROR"}

TypeOK ==
  /\ pc \in {"none", "terminating", "up", "gone"} \cup Destroying
  /\ {handle, connected, complete, sequence, shared} \subseteq BOOLEAN
  /\ state \in States /\ refs \in Nat
  /\ vector \in Seq(Instructions)
  /\ exits \subseteq DOMAIN vector /\ run \subseteq DOMAIN vector
  /\ gatt \in {"DISCONNECTED", "CONNECTING", "CONNECTED", "ERROR"}
  /\ moved \subseteq ToSet(vector) /\ undo \in {"none", "taken", "dropped"}
  /\ live \subseteq added /\ added \subseteq Added
  /\ step \in [Requests -> 0..4] /\ timers \subseteq Instructions
  /\ runner \in {None, "loop", "caller"} /\ (runner = None => run = {})
  /\ loop \in {"none", "starting", "running", "quit", "ended"}

\* The references of a sequence are its owner's, until BLEIO_Seq_Destroy is
\* through, that of a request that fails, and one for each request and timer, so
\* that none is left when it is freed.  It is freed with the last, unless
\* BLEIO_Seq_Run has dropped that.
RefsAreRight ==
  /\ refs = (IF pc \in {"terminating", "up", "destroying"} THEN 1 ELSE 0)
            + (IF undo = "taken" THEN 1 ELSE 0)
            + Cardinality({r \in Io : step[r] > 0}) + Cardinality(timers)
  /\ sequence <=> refs > 0 \/ undo = "dropped"
  /\ undo = "dropped" => refs = 0 /\ pc \notin {"none", "terminating", "up", "destroying"}

\* A request finds the instruction it was made for, with two exceptions.  The
\* reads of a timer that was added need not: the timer frees the instruction.
\* And those of the vector need not, when an exit write was added and the vector
\* moved; but an exit write itself is found.
InstructionsAreHeld ==
  \A r \in Io : step[r] > 0 =>
    \/ r[1] \in live \cup (ToSet(vector) \ moved)
    \/ r[1] \in moved /\ ~IsExit(r[1]) /\ \E i \in added : IsExit(i)
    \/ TypeOf[r[1]] = "READ_PERIODIC" /\ state # "RUNNING"

\* What bleio_seq_linux.c keeps true: the types, the reference count of the
\* sequence against the requests and timers that use it, and the instructions
\* they point at.
BleInv == TypeOK /\ RefsAreRight /\ InstructionsAreHeld

\* SRS_BLEIO_SEQ_13_031: on_destroy_complete is called when every exit write is
\* through, not merely under way, and nothing else uses the sequence.
CompletesLast ==
  complete => /\ exits = {} /\ timers = {} /\ ~sequence
              /\ \A r \in Io : step[r] = 0
              /\ \A i \in ToSet(vector) : IsExit(i) => Pending(i) = {}

\* SRS_BLEIO_SEQ_13_009 and SRS_BLE_13_017: when the event thread runs and
\* BLEIO_Seq_Run is not under way, nor has overwritten the state, timers and
\* requests come to an end and BLE_Destroy returns, without its time limit.
DestroyIsFinished ==
  (pc = "destroying" /\ state # "RUNNING" /\ loop = "running" /\ runner = None)
    ~> (pc = "gone")
=============================================================================
