----------------------------- MODULE EventSystem -----------------------------
(***************************************************************************)
(* core/src/internal/event_system.c: the events of a gateway and the       *)
(* thread that calls the callbacks registered for them.                    *)
(*                                                                         *)
(* The callback thread is started by a report that finds none, and ends    *)
(* when its queue has been empty for a while.  A client thread (the one    *)
(* that drives the gateway) registers, reports and destroys; a callback    *)
(* may register and report too.                                            *)
(*                                                                         *)
(* A section under thread_queue_lock is one action, and so is one under    *)
(* internal_change_lock, unless it waits for a thread to end.              *)
(***************************************************************************)
EXTENDS Naturals, Sequences, FiniteSets

CONSTANTS
  Clients,        \* threads that use the gateway
  Threads,        \* callback threads that can ever be created
  Callbacks,      \* callback functions
  Events,         \* GATEWAY_EVENT
  ListChanged,    \* GATEWAY_MODULE_LIST_CHANGED, whose context is a module list
  MayFail,        \* calls that may fail
  Reentrant,      \* callbacks use the event system themselves
  MaxReports,     \* bound: calls of EventSystem_ReportEvent
  MaxCallbacks,   \* bound: callbacks registered for an event
  None

Calls == {"malloc", "VECTOR_create", "VECTOR_push_back", "ThreadAPI_Create",
          "Gateway_LL_GetModuleList"}

ASSUME NamesAssumption ==
  /\ Clients \cap Threads = {} /\ None \notin Clients \cup Threads \cup Events
  /\ ListChanged \in Events
  /\ MayFail \subseteq Calls
  /\ Reentrant \in BOOLEAN
ASSUME CountAssumption == MaxReports \in Nat /\ MaxCallbacks \in Nat

VARIABLES
  event_callbacks,      \* event_callbacks[e]: in order of registration
  is_errored,
  delay_when_queue_empty,
  callback_thread,
  destroyed_thread,     \* a thread that ended and was not joined yet
  internal_change_lock, \* who waits for a thread with this lock held
  thread_queue,         \* numbers of the rows that wait
  thread,               \* thread[t]: where callback thread t is
  row,                  \* row[t]: number of the row t is calling
  position,             \* position[t]: the callback of that row t is in
  report,               \* report[p]: the EventSystem_ReportEvent p is in
  destroy,              \* where EventSystem_Destroy is
  handles,              \* the two handles EventSystem_Destroy copied
  rows,                 \* every row that was ever queued, in order
  lists,                \* module lists in memory
  called,               \* the last callback called: <<row, position>>
  reports               \* reports so far (bounds the model)

threadVars == <<callback_thread, destroyed_thread, internal_change_lock>>
workVars == <<thread_queue, thread, row, position, called>>
destroyVars == <<destroy, handles, delay_when_queue_empty>>
vars == <<event_callbacks, is_errored, threadVars, workVars, report, destroyVars, rows,
          lists, reports>>

Processes == Clients \cup Threads
DestroyList == "callback_destroy_modulelist"
\* It is static in event_system.c: nobody else registers it.
ASSUME CallbackAssumption == DestroyList \notin Callbacks

Row == [event : Events \cup {None}, calls : Seq(Callbacks \cup {DestroyList}), list : Nat]
NoRow == [event |-> None, calls |-> <<>>, list |-> 0]
Idle == [at |-> "idle", row |-> NoRow]

\* The next callback in the order rows were queued and callbacks registered.
NextCall(c) ==
  IF c[1] # 0 /\ c[2] < Len(rows[c[1]].calls) THEN <<c[1], c[2] + 1>> ELSE <<c[1] + 1, 1>>

Init ==
  /\ event_callbacks = [e \in Events |-> <<>>]
  /\ is_errored = FALSE
  /\ delay_when_queue_empty = TRUE
  /\ callback_thread = None /\ destroyed_thread = None
  /\ internal_change_lock = None
  /\ thread_queue = <<>>
  /\ thread = [t \in Threads |-> "none"]
  /\ row = [t \in Threads |-> 0]
  /\ position = [t \in Threads |-> 0]
  /\ report = [p \in Processes |-> Idle]
  /\ destroy = "no"
  /\ handles = <<None, None>>
  /\ rows = <<>>
  /\ lists = {}
  /\ called = <<0, 0>>
  /\ reports = 0

-----------------------------------------------------------------------------
(* Calls of clients, and of callbacks *)

\* Clients do not use the gateway during or after Gateway_Destroy.
CanCall(p) ==
  /\ report[p] = Idle
  /\ \/ p \in Clients /\ destroy = "no"
     \/ p \in Threads /\ Reentrant /\ thread[p] = "callback"

EventSystem_AddEventCallback(p, e, f) ==
  /\ CanCall(p)
  /\ \/ /\ Len(event_callbacks[e]) < MaxCallbacks
        /\ event_callbacks' = [event_callbacks EXCEPT ![e] = Append(@, f)]
        /\ UNCHANGED is_errored
     \/ /\ "VECTOR_push_back" \in MayFail
        /\ is_errored' = TRUE
        /\ UNCHANGED event_callbacks
  /\ UNCHANGED <<threadVars, workVars, report, destroyVars, rows, lists, reports>>

\* The report goes on when is_errored is not set, read under the lock.
EventSystem_ReportEvent(p, e) ==
  /\ CanCall(p)
  /\ reports < MaxReports
  /\ reports' = reports + 1
  /\ ~is_errored
  /\ internal_change_lock = None
  /\ report' = [report EXCEPT ![p] =
                  [at |-> "copy", row |-> [event |-> e, calls |-> <<>>, list |-> reports']]]
  /\ UNCHANGED <<event_callbacks, is_errored, threadVars, workVars, destroyVars, rows,
                 lists>>

\* Mutant: the list is released before the registered callbacks.
RowOf_released_first(e, n) ==
  [event |-> e, calls |-> <<DestroyList>> \o event_callbacks[e], list |-> n]

\* A module list is released by one more callback, behind the registered ones.
RowOf(e, n) ==
  IF e = ListChanged
  THEN [event |-> e, calls |-> Append(event_callbacks[e], DestroyList), list |-> n]
  ELSE [event |-> e, calls |-> event_callbacks[e], list |-> 0]

\* The callbacks are copied and the context is made.  When is_errored was set
\* meanwhile the copy is dropped, but not the context.
CopyCallbacks(p) ==
  LET e == report[p].row.event
      n == report[p].row.list
  IN
  /\ report[p].at = "copy"
  /\ \/ /\ event_callbacks[e] = <<>>
        /\ report' = [report EXCEPT ![p] = Idle]
        /\ UNCHANGED <<is_errored, lists>>
     \/ /\ event_callbacks[e] # <<>>
        /\ \/ {"VECTOR_create", "VECTOR_push_back"} \cap MayFail # {}
           \/ e = ListChanged /\ "Gateway_LL_GetModuleList" \in MayFail
        /\ is_errored' = TRUE
        /\ report' = [report EXCEPT ![p] = Idle]
        /\ UNCHANGED lists
     \/ /\ event_callbacks[e] # <<>>
        /\ lists' = IF e = ListChanged THEN lists \cup {n} ELSE lists
        /\ report' = [report EXCEPT ![p] =
                        IF is_errored THEN Idle ELSE [at |-> "add", row |-> RowOf(e, n)]]
        /\ UNCHANGED is_errored
  /\ UNCHANGED <<event_callbacks, threadVars, workVars, destroyVars, rows, reports>>

\* callbacks_call makes a row and queues it; if it cannot, the row is lost.
QueueRow(p) ==
  /\ report[p].at = "add"
  /\ \/ /\ rows' = Append(rows, report[p].row)
        /\ thread_queue' = Append(thread_queue, Len(rows) + 1)
        /\ report' = [report EXCEPT ![p].at = "change"]
     \/ /\ "malloc" \in MayFail
        /\ report' = [report EXCEPT ![p] = [at |-> "change", row |-> NoRow]]
        /\ UNCHANGED <<rows, thread_queue>>
  /\ UNCHANGED <<event_callbacks, is_errored, threadVars, thread, row, position, called,
                 destroyVars, lists, reports>>

\* The end of callbacks_call: a lost row is an error, and a row that finds no
\* callback thread gets one.  known: the threads, the ended one joined.
StartThread(p, known) ==
  /\ report' = [report EXCEPT ![p] = Idle]
  /\ \/ /\ report[p].row = NoRow
        /\ is_errored' = TRUE
        /\ thread' = known
        /\ UNCHANGED callback_thread
     \/ /\ report[p].row # NoRow /\ callback_thread # None
        /\ thread' = known
        /\ UNCHANGED <<is_errored, callback_thread>>
     \/ /\ report[p].row # NoRow /\ callback_thread = None
        /\ \E t \in Threads :
             /\ thread[t] = "none"
             /\ thread' = [known EXCEPT ![t] = "get"]
             /\ callback_thread' = t
        /\ UNCHANGED is_errored
     \/ /\ report[p].row # NoRow /\ callback_thread = None
        /\ "ThreadAPI_Create" \in MayFail
        /\ is_errored' = TRUE
        /\ thread' = known
        /\ UNCHANGED callback_thread

\* internal_change_lock is taken, and kept while an ended thread is joined.
ChangeThread(p) ==
  /\ report[p].at = "change"
  /\ internal_change_lock = None
  /\ \/ /\ destroyed_thread = None
        /\ StartThread(p, thread)
        /\ UNCHANGED internal_change_lock
     \/ /\ destroyed_thread # None
        /\ internal_change_lock' = p
        /\ report' = [report EXCEPT ![p].at = "join"]
        /\ UNCHANGED <<is_errored, callback_thread, thread>>
  /\ UNCHANGED <<event_callbacks, destroyed_thread, thread_queue, row, position, called,
                 destroyVars, rows, lists, reports>>

JoinDestroyed(p) ==
  /\ report[p].at = "join"
  /\ thread[destroyed_thread] = "returned"
  /\ destroyed_thread' = None
  /\ internal_change_lock' = None
  /\ StartThread(p, [thread EXCEPT ![destroyed_thread] = "joined"])
  /\ UNCHANGED <<event_callbacks, thread_queue, row, position, called, destroyVars, rows,
                 lists, reports>>

\* EventSystem_Destroy tells the thread not to wait any more, copies the two
\* handles, joins them and drops what is left in the queue.
EventSystem_Destroy(c) ==
  /\ destroy = "no" /\ \A d \in Clients : report[d] = Idle
  /\ destroy' = "copy"
  /\ delay_when_queue_empty' = FALSE
  /\ UNCHANGED <<event_callbacks, is_errored, threadVars, workVars, report, handles, rows,
                 lists, reports>>

\* Mutant: internal_change_lock is kept during the joins.
CopyHandles_locked ==
  /\ destroy = "copy"
  /\ internal_change_lock = None
  /\ internal_change_lock' \in Clients
  /\ handles' = <<callback_thread, destroyed_thread>>
  /\ destroy' = "join"
  /\ UNCHANGED <<event_callbacks, is_errored, callback_thread, destroyed_thread, workVars,
                 report, delay_when_queue_empty, rows, lists, reports>>

CopyHandles ==
  /\ destroy = "copy"
  /\ internal_change_lock = None
  /\ handles' = <<callback_thread, destroyed_thread>>
  /\ destroy' = "join"
  /\ UNCHANGED <<event_callbacks, is_errored, threadVars, workVars, report,
                 delay_when_queue_empty, rows, lists, reports>>

JoinHandles ==
  /\ destroy = "join"
  /\ \A i \in 1..2 : handles[i] # None => thread[handles[i]] = "returned"
  /\ thread' = [t \in Threads |-> IF t \in {handles[1], handles[2]} THEN "joined"
                                  ELSE thread[t]]
  /\ destroy' = "done"
  /\ thread_queue' = <<>>
  /\ UNCHANGED <<event_callbacks, is_errored, threadVars, row, position, called, report,
                 handles, delay_when_queue_empty, rows, lists, reports>>

-----------------------------------------------------------------------------
(* callback_thread_main_func *)

\* The closure at position i of row n is called; the last one of a row with a
\* module list releases the list.
Call(n, i) ==
  /\ called' = <<n, i>>
  /\ lists' = IF rows[n].calls[i] = DestroyList THEN lists \ {rows[n].list} ELSE lists

\* Mutant: the newest row is taken.
TakeRow_newest(t) ==
  LET n == Len(thread_queue) IN
  /\ thread_queue # <<>>
  /\ thread_queue' = SubSeq(thread_queue, 1, n - 1)
  /\ row' = [row EXCEPT ![t] = thread_queue[n]]
  /\ position' = [position EXCEPT ![t] = 1]
  /\ thread' = [thread EXCEPT ![t] = "callback"]
  /\ Call(thread_queue[n], 1)

\* get_from_thread_queue with a row on the queue.
TakeRow(t) ==
  /\ thread_queue # <<>>
  /\ thread_queue' = Tail(thread_queue)
  /\ row' = [row EXCEPT ![t] = Head(thread_queue)]
  /\ position' = [position EXCEPT ![t] = 1]
  /\ thread' = [thread EXCEPT ![t] = "callback"]
  /\ Call(Head(thread_queue), 1)

FindNothing(t, next) ==
  /\ thread_queue = <<>>
  /\ thread' = [thread EXCEPT ![t] = next]
  /\ UNCHANGED <<thread_queue, row, position, called, lists>>

GetRow(t) ==
  /\ thread[t] = "get"
  /\ \/ TakeRow(t)
     \/ FindNothing(t, IF delay_when_queue_empty THEN "wait" ELSE "finish")
  /\ UNCHANGED <<event_callbacks, is_errored, threadVars, report, destroyVars, rows, reports>>

\* Mutant: the queue is not looked at after the wait.
WakeUp_blind(t) ==
  /\ thread[t] = "wait"
  /\ thread' = [thread EXCEPT ![t] = "finish"]
  /\ UNCHANGED <<event_callbacks, is_errored, threadVars, thread_queue, row, position, called,
                 lists, report, destroyVars, rows, reports>>

\* Condition_Wait returns when it is posted, and after 200 ms anyway; the queue
\* is looked at once more.
WakeUp(t) ==
  /\ thread[t] = "wait"
  /\ TakeRow(t) \/ FindNothing(t, "finish")
  /\ UNCHANGED <<event_callbacks, is_errored, threadVars, report, destroyVars, rows, reports>>

CallbackReturns(t) ==
  /\ thread[t] = "callback" /\ report[t] = Idle
  /\ \/ /\ position[t] < Len(rows[row[t]].calls)
        /\ position' = [position EXCEPT ![t] = @ + 1]
        /\ Call(row[t], position[t] + 1)
        /\ UNCHANGED thread
     \/ /\ position[t] = Len(rows[row[t]].calls)
        /\ thread' = [thread EXCEPT ![t] = "get"]
        /\ UNCHANGED <<position, called, lists>>
  /\ UNCHANGED <<event_callbacks, is_errored, threadVars, thread_queue, row, report,
                 destroyVars, rows, reports>>

\* Mutant: the thread does not leave its handle.
FinishThread_forgotten(t) ==
  /\ thread[t] = "finish"
  /\ internal_change_lock = None
  /\ callback_thread' = None
  /\ thread' = [thread EXCEPT ![t] = "returned"]
  /\ UNCHANGED <<event_callbacks, is_errored, destroyed_thread, internal_change_lock,
                 thread_queue, row, position, called, report, destroyVars, rows, lists,
                 reports>>

\* The thread leaves its handle for somebody else to join.
FinishThread(t) ==
  /\ thread[t] = "finish"
  /\ internal_change_lock = None
  /\ destroyed_thread' = callback_thread
  /\ callback_thread' = None
  /\ thread' = [thread EXCEPT ![t] = "returned"]
  /\ UNCHANGED <<event_callbacks, is_errored, internal_change_lock, thread_queue, row,
                 position, called, report, destroyVars, rows, lists, reports>>

-----------------------------------------------------------------------------
ReportStep(p) == CopyCallbacks(p) \/ QueueRow(p) \/ ChangeThread(p) \/ JoinDestroyed(p)
DestroyStep == CopyHandles \/ JoinHandles
ThreadStep(t) == GetRow(t) \/ WakeUp(t) \/ CallbackReturns(t) \/ FinishThread(t)

Next ==
  \/ \E p \in Processes :
       \/ \E e \in Events, f \in Callbacks : EventSystem_AddEventCallback(p, e, f)
       \/ \E e \in Events : EventSystem_ReportEvent(p, e)
       \/ ReportStep(p)
  \/ \E c \in Clients : EventSystem_Destroy(c)
  \/ DestroyStep
  \/ \E t \in Threads : ThreadStep(t)

Spec == Init /\ [][Next]_vars

\* A call that was entered runs on, callbacks return, and the callback thread is
\* scheduled; its wait ends after 200 ms at the latest.
Fairness ==
  /\ \A p \in Processes : WF_vars(ReportStep(p))
  /\ \A t \in Threads : WF_vars(ThreadStep(t))
  /\ WF_vars(DestroyStep)

FairSpec == Spec /\ Fairness

-----------------------------------------------------------------------------
TypeOK ==
  /\ event_callbacks \in [Events -> Seq(Callbacks)]
  /\ is_errored \in BOOLEAN /\ delay_when_queue_empty \in BOOLEAN
  /\ {callback_thread, destroyed_thread} \subseteq Threads \cup {None}
  /\ internal_change_lock \in Processes \cup {None}
  /\ thread \in [Threads -> {"none", "get", "wait", "callback", "finish", "returned",
                            "joined"}]
  /\ thread_queue \in Seq(Nat)
  /\ row \in [Threads -> Nat] /\ position \in [Threads -> Nat]
  /\ report \in [Processes -> [at : {"idle", "copy", "add", "change", "join"}, row : Row]]
  /\ destroy \in {"no", "copy", "join", "done"}
  /\ handles \in Seq(Threads \cup {None}) /\ Len(handles) = 2
  /\ rows \in Seq(Row)
  /\ lists \subseteq Nat
  /\ called \in Nat \X Nat
  /\ reports \in Nat

\* Callbacks run one after the other, in the order in which the events were
\* queued and, for an event, in the order of registration; each once, none is
\* left out, whatever threads come and go (SRS_EVENTSYSTEM_26_009).
CalledInOrder == [][called' # called => called' = NextCall(called)]_vars

\* A callback thread is joined once: a handle in callback_thread or in
\* destroyed_thread is that of a thread not joined before, and a thread that
\* ended is not forgotten.  Before EventSystem_Destroy joins them both.
ThreadHandles ==
  destroy # "done" =>
    /\ callback_thread # None =>
         thread[callback_thread] \in {"get", "wait", "callback", "finish"}
    /\ \A t \in Threads : /\ thread[t] = "returned" <=> destroyed_thread = t
                          /\ thread[t] \in {"get", "wait", "callback", "finish"} =>
                               callback_thread = t

\* Nothing runs and nothing is left to join when EventSystem_Destroy frees the
\* event system, whose locks and queue the thread uses to its end.
DestroyedIsQuiet ==
  destroy = "done" => /\ \A t \in Threads : thread[t] \in {"none", "joined"}
                      /\ \A p \in Processes : report[p] = Idle

\* The bookkeeping of the callback thread, from which the life of its memory
\* follows.
ThreadInv == TypeOK /\ ThreadHandles /\ DestroyedIsQuiet

\* A callback finds its module list in memory: the list outlives the callbacks
\* of its row, though reports fail and threads change meanwhile.
ContextIsLive ==
  \A t \in Threads :
    /\ thread[t] = "callback"
    /\ rows[row[t]].calls[position[t]] # DestroyList
    /\ rows[row[t]].list # 0
    => rows[row[t]].list \in lists

\* A thread that has not yet found the queue empty for the last time will call
\* every row that is on it: also during EventSystem_Destroy.
ServedByThread ==
  \A n \in 1..MaxReports :
    /\ \E i \in DOMAIN thread_queue : thread_queue[i] = n
    /\ \E t \in Threads : thread[t] \in {"get", "wait", "callback"}
    ~> called[1] >= n

\* EventSystem_Destroy returns.
DestroyReturns == destroy # "no" ~> destroy = "done"

==============================================================================
