---------------------------- MODULE EventProofs ----------------------------
(***************************************************************************)
(* Proofs about EventSystem, for any clients, threads, events, callbacks   *)
(* and bounds, and whatever calls fail.                                    *)
(*                                                                         *)
(* That each callback thread is joined once, and none is left when the     *)
(* event system is freed, needs to be known together with: there is never  *)
(* an ended thread while a callback thread lives, internal_change_lock is  *)
(* only held by the report that joins the ended one, a thread reports only *)
(* from a callback, and EventSystem_Destroy has copied every handle that   *)
(* matters.                                                                *)
(*                                                                         *)
(* That callbacks run in order and find their module lists needs: the      *)
(* queue holds the numbers behind the row called last, in order; only the  *)
(* last callback of a row releases its list, and no other row or report    *)
(* has that list.                                                          *)
(***************************************************************************)
EXTENDS EventSystem, TLAPS

Alive == {"get", "wait", "callback", "finish"}

\* Where callback threads and reports are.
Place == {"none", "get", "wait", "callback", "finish", "returned", "joined"}
Report == [at : {"idle", "copy", "add", "change", "join"}, row : Row]

\* A report that copies callbacks knows its event.
ReportsAreTyped == \A p \in Processes : report[p].at = "copy" => report[p].row.event \in Events

\* There is no ended thread to join while the callback thread lives.
OneThread == callback_thread = None \/ destroyed_thread = None

\* internal_change_lock is kept to join an ended thread, by one report.
LockHolder ==
  /\ internal_change_lock # None => destroyed_thread # None
  /\ \A p \in Processes : report[p].at = "join" => internal_change_lock = p

\* Threads use the event system from their callbacks, clients before it is destroyed.
Reporters ==
  /\ \A t \in Threads : report[t] # Idle => thread[t] = "callback"
  /\ destroy # "no" => \A c \in Clients : report[c] = Idle

\* The handles EventSystem_Destroy has copied are those of all threads to join.
HandlesSuffice ==
  destroy = "join" =>
    \A t \in Threads : thread[t] \notin {"none", "joined"} => t \in {handles[1], handles[2]}

IInv ==
  /\ TypeOK /\ ReportsAreTyped /\ ThreadHandles /\ OneThread /\ LockHolder
  /\ Reporters /\ HandlesSuffice /\ DestroyedIsQuiet

-----------------------------------------------------------------------------
(* Types *)

LEMMA RowOfType ==
  ASSUME NEW e \in Events, NEW n \in Nat, event_callbacks \in [Events -> Seq(Callbacks)]
  PROVE  RowOf(e, n) \in Row
  <1>1. event_callbacks[e] \in Seq(Callbacks \cup {DestroyList})
    <2>1. event_callbacks[e] \in Seq(Callbacks)
      OBVIOUS
    <2> QED
      BY <2>1
  <1>2. Append(event_callbacks[e], DestroyList) \in Seq(Callbacks \cup {DestroyList})
    BY <1>1
  <1> QED
    BY <1>1, <1>2 DEF RowOf, Row

LEMMA IdleType == Idle.at = "idle" /\ NoRow \in Row /\ Idle \in Report
  <1>1. <<>> \in Seq(Callbacks \cup {DestroyList})
    OBVIOUS
  <1> QED
    BY <1>1 DEF Idle, NoRow, Row, Report

LEMMA ShapesOfTypeOK ==
  TypeOK => thread \in [Threads -> Place] /\ report \in [Processes -> Report]
  BY DEF TypeOK, Place, Report

\* One report goes on.
LEMMA ReportGoesOn ==
  ASSUME TypeOK, ReportsAreTyped, NEW p \in Processes, NEW r \in Report,
         r.at = "copy" => r.row.event \in Events,
         report' = [report EXCEPT ![p] = r]
  PROVE  report' \in [Processes -> Report] /\ ReportsAreTyped'
  <1>1. report \in [Processes -> Report]
    BY ShapesOfTypeOK
  <1>2. \A q \in Processes : report'[q] = IF q = p THEN r ELSE report[q]
    BY <1>1
  <1> QED
    BY <1>1, <1>2 DEF ReportsAreTyped

\* What is taken from the queue, and what is left there.
LEMMA QueueType ==
  ASSUME thread_queue \in Seq(Nat), thread_queue # <<>>
  PROVE  Head(thread_queue) \in Nat /\ Tail(thread_queue) \in Seq(Nat)
  OBVIOUS

LEMMA AddEventCallbackTypes ==
  ASSUME TypeOK, ReportsAreTyped, NEW p \in Processes, NEW e \in Events, NEW f \in Callbacks,
         EventSystem_AddEventCallback(p, e, f)
  PROVE  TypeOK' /\ ReportsAreTyped'
  <1>1. event_callbacks' \in [Events -> Seq(Callbacks)]
    <2>1. Append(event_callbacks[e], f) \in Seq(Callbacks)
      BY DEF TypeOK
    <2> QED
      BY <2>1 DEF EventSystem_AddEventCallback, TypeOK
  <1>2. is_errored' \in BOOLEAN
    BY DEF EventSystem_AddEventCallback, TypeOK
  <1> QED
    BY <1>1, <1>2
    DEF EventSystem_AddEventCallback, TypeOK, ReportsAreTyped, threadVars, workVars, destroyVars

LEMMA ReportEventTypes ==
  ASSUME TypeOK, ReportsAreTyped, NEW p \in Processes, NEW e \in Events,
         EventSystem_ReportEvent(p, e)
  PROVE  TypeOK' /\ ReportsAreTyped'
  <1>1. reports' \in Nat
    BY DEF EventSystem_ReportEvent, TypeOK
  <1>2. [event |-> e, calls |-> <<>>, list |-> reports'] \in Row
    <2>1. <<>> \in Seq(Callbacks \cup {DestroyList})
      OBVIOUS
    <2> QED
      BY <1>1, <2>1 DEF Row
  <1> DEFINE r == [at |-> "copy", row |-> [event |-> e, calls |-> <<>>, list |-> reports']]
  <1>3. r \in Report /\ r.row.event \in Events
    BY <1>2 DEF Report
  <1>4. report' = [report EXCEPT ![p] = r]
    BY DEF EventSystem_ReportEvent
  <1>5. report' \in [Processes -> Report] /\ ReportsAreTyped'
    BY <1>3, <1>4, ReportGoesOn
  <1> QED
    BY <1>1, <1>5
    DEF EventSystem_ReportEvent, TypeOK, Report, threadVars, workVars, destroyVars

LEMMA CopyCallbacksTypes ==
  ASSUME TypeOK, ReportsAreTyped, NEW p \in Processes, CopyCallbacks(p)
  PROVE  TypeOK' /\ ReportsAreTyped'
  <1> DEFINE e == report[p].row.event
             n == report[p].row.list
  <1>1. e \in Events /\ n \in Nat
    BY DEF CopyCallbacks, TypeOK, ReportsAreTyped, Row
  <1>2. RowOf(e, n) \in Row
    BY <1>1, RowOfType DEF TypeOK
  <1>3. \/ report' = [report EXCEPT ![p] = Idle]
        \/ report' = [report EXCEPT ![p] = [at |-> "add", row |-> RowOf(e, n)]]
    BY DEF CopyCallbacks
  <1>4. [at |-> "add", row |-> RowOf(e, n)] \in Report
    BY <1>2 DEF Report
  <1>5. report' \in [Processes -> Report] /\ ReportsAreTyped'
    BY <1>3, <1>4, IdleType, ReportGoesOn
  <1>6. is_errored' \in BOOLEAN /\ lists' \subseteq Nat
    BY <1>1 DEF CopyCallbacks, TypeOK
  <1> QED
    BY <1>5, <1>6 DEF CopyCallbacks, TypeOK, Report, threadVars, workVars, destroyVars

LEMMA QueueRowTypes ==
  ASSUME TypeOK, ReportsAreTyped, NEW p \in Processes, QueueRow(p)
  PROVE  TypeOK' /\ ReportsAreTyped'
  <1>1. rows' \in Seq(Row) /\ thread_queue' \in Seq(Nat)
    <2>1. rows \in Seq(Row) /\ report[p].row \in Row /\ thread_queue \in Seq(Nat)
      BY DEF TypeOK
    <2>2. Append(rows, report[p].row) \in Seq(Row)
      BY <2>1
    <2>3. Len(rows) + 1 \in Nat
      BY <2>1
    <2>4. Append(thread_queue, Len(rows) + 1) \in Seq(Nat)
      BY <2>1, <2>3
    <2> QED
      BY <2>1, <2>2, <2>4 DEF QueueRow
  <1>2. \/ report' = [report EXCEPT ![p].at = "change"]
        \/ report' = [report EXCEPT ![p] = [at |-> "change", row |-> NoRow]]
    BY DEF QueueRow
  <1>3. report[p] \in Report
    BY ShapesOfTypeOK
  <1>4. /\ [report[p] EXCEPT !.at = "change"] \in Report
        /\ [report[p] EXCEPT !.at = "change"].at = "change"
        /\ [at |-> "change", row |-> NoRow] \in Report
    BY <1>3, IdleType DEF Report
  <1>5. report' \in [Processes -> Report] /\ ReportsAreTyped'
    <2>1. CASE report' = [report EXCEPT ![p] = [report[p] EXCEPT !.at = "change"]]
      BY <2>1, <1>4, ReportGoesOn
    <2>2. CASE report' = [report EXCEPT ![p] = [at |-> "change", row |-> NoRow]]
      BY <2>2, <1>4, ReportGoesOn
    <2> QED
      BY <1>2, <2>1, <2>2
  <1> QED
    BY <1>1, <1>5 DEF QueueRow, TypeOK, Report, threadVars, workVars, destroyVars

\* The end of callbacks_call, with the threads it knows.
LEMMA StartThreadTypes ==
  ASSUME TypeOK, ReportsAreTyped, NEW p \in Processes,
         NEW known \in [Threads -> Place],
         StartThread(p, known)
  PROVE  /\ report' \in [Processes -> Report]
         /\ ReportsAreTyped'
         /\ is_errored' \in BOOLEAN /\ callback_thread' \in Threads \cup {None}
         /\ thread' \in [Threads -> Place]
  <1>1. report' = [report EXCEPT ![p] = Idle]
    BY DEF StartThread
  <1>2. report' \in [Processes -> Report] /\ ReportsAreTyped'
    BY <1>1, IdleType, ReportGoesOn
  <1>3. is_errored' \in BOOLEAN /\ callback_thread' \in Threads \cup {None}
    BY DEF StartThread, TypeOK
  <1>4. thread' \in [Threads -> Place]
    BY DEF StartThread, Place
  <1> QED
    BY <1>2, <1>3, <1>4

LEMMA ChangeThreadTypes ==
  ASSUME TypeOK, ReportsAreTyped, NEW p \in Processes, ChangeThread(p)
  PROVE  TypeOK' /\ ReportsAreTyped'
  <1>1. CASE destroyed_thread = None /\ StartThread(p, thread) /\ UNCHANGED internal_change_lock
    BY <1>1, ShapesOfTypeOK, StartThreadTypes
    DEF ChangeThread, TypeOK, Place, Report, destroyVars
  <1>2. CASE /\ internal_change_lock' = p
             /\ report' = [report EXCEPT ![p].at = "join"]
             /\ UNCHANGED <<is_errored, callback_thread, thread>>
    <2>1. report[p] \in Report
      BY ShapesOfTypeOK
    <2>2. /\ [report[p] EXCEPT !.at = "join"] \in Report
          /\ [report[p] EXCEPT !.at = "join"].at = "join"
      BY <2>1 DEF Report
    <2>3. report' = [report EXCEPT ![p] = [report[p] EXCEPT !.at = "join"]]
      BY <1>2
    <2>4. report' \in [Processes -> Report] /\ ReportsAreTyped'
      BY <2>2, <2>3, ReportGoesOn
    <2> QED
      BY <1>2, <2>4 DEF ChangeThread, TypeOK, Report, destroyVars
  <1> QED
    BY <1>1, <1>2 DEF ChangeThread

LEMMA JoinDestroyedTypes ==
  ASSUME TypeOK, ReportsAreTyped, NEW p \in Processes, JoinDestroyed(p)
  PROVE  TypeOK' /\ ReportsAreTyped'
  <1>1. [thread EXCEPT ![destroyed_thread] = "joined"]
          \in [Threads -> Place]
    BY ShapesOfTypeOK DEF Place
  <1> QED
    BY <1>1, StartThreadTypes DEF JoinDestroyed, TypeOK, Place, Report, destroyVars

LEMMA DestroyTypes ==
  ASSUME TypeOK, ReportsAreTyped,
         (\E c \in Clients : EventSystem_Destroy(c)) \/ CopyHandles \/ JoinHandles
  PROVE  TypeOK' /\ ReportsAreTyped'
  <1>1. ASSUME NEW c \in Clients, EventSystem_Destroy(c)
        PROVE  TypeOK' /\ ReportsAreTyped'
    BY <1>1 DEF EventSystem_Destroy, TypeOK, ReportsAreTyped, threadVars, workVars
  <1>2. CASE CopyHandles
    <2>1. handles' \in Seq(Threads \cup {None}) /\ Len(handles') = 2
      BY <1>2 DEF CopyHandles, TypeOK
    <2> QED
      BY <1>2, <2>1 DEF CopyHandles, TypeOK, ReportsAreTyped, threadVars, workVars
  <1>3. CASE JoinHandles
    <2>1. thread' \in [Threads -> Place]
      BY <1>3 DEF JoinHandles, TypeOK, Place
    <2>2. thread_queue' \in Seq(Nat)
      BY <1>3 DEF JoinHandles
    <2> QED
      BY <1>3, <2>1, <2>2 DEF JoinHandles, TypeOK, Place, ReportsAreTyped, threadVars
  <1> QED
    BY <1>1, <1>2, <1>3

LEMMA TakeRowTypes ==
  ASSUME TypeOK, NEW t \in Threads, TakeRow(t)
  PROVE  /\ thread_queue' \in Seq(Nat) /\ row' \in [Threads -> Nat]
         /\ position' \in [Threads -> Nat] /\ called' \in Nat \X Nat /\ lists' \subseteq Nat
         /\ thread' \in [Threads -> Place]
  <1>1. Head(thread_queue) \in Nat /\ Tail(thread_queue) \in Seq(Nat)
    BY QueueType DEF TakeRow, TypeOK
  <1> QED
    BY <1>1 DEF TakeRow, TypeOK, Call, Place

LEMMA ThreadStepTypes ==
  ASSUME TypeOK, ReportsAreTyped, NEW t \in Threads, ThreadStep(t)
  PROVE  TypeOK' /\ ReportsAreTyped'
  <1>1. CASE GetRow(t) \/ WakeUp(t)
    <2>1. CASE TakeRow(t)
      BY <1>1, <2>1, TakeRowTypes
      DEF GetRow, WakeUp, TypeOK, Place, ReportsAreTyped, threadVars, destroyVars
    <2>2. ASSUME NEW next \in {"wait", "finish"}, FindNothing(t, next)
          PROVE  TypeOK' /\ ReportsAreTyped'
      <3>1. thread' \in [Threads -> Place]
        BY <2>2 DEF FindNothing, TypeOK, Place
      <3> QED
        BY <1>1, <2>2, <3>1, SMTT(30)
        DEF FindNothing, GetRow, WakeUp, TypeOK, Place, ReportsAreTyped, threadVars, destroyVars
    <2> QED
      BY <1>1, <2>1, <2>2 DEF GetRow, WakeUp
  <1>2. CASE CallbackReturns(t)
    <2>1. thread' \in [Threads -> Place]
      BY <1>2 DEF CallbackReturns, TypeOK, Place
    <2>2. position' \in [Threads -> Nat] /\ called' \in Nat \X Nat /\ lists' \subseteq Nat
      <3>1. position[t] + 1 \in Nat /\ row[t] \in Nat
        BY DEF TypeOK
      <3>2. CASE /\ position' = [position EXCEPT ![t] = position[t] + 1]
                 /\ called' = <<row[t], position[t] + 1>>
                 /\ lists' \subseteq lists
        BY <3>1, <3>2 DEF TypeOK
      <3>3. CASE UNCHANGED <<position, called, lists>>
        BY <3>3 DEF TypeOK
      <3> QED
        BY <1>2, <3>2, <3>3 DEF CallbackReturns, Call
    <2> QED
      BY <1>2, <2>1, <2>2 DEF CallbackReturns, TypeOK, Place, ReportsAreTyped, threadVars, destroyVars
  <1>3. CASE FinishThread(t)
    <2>1. thread' \in [Threads -> Place]
      BY <1>3 DEF FinishThread, TypeOK, Place
    <2> QED
      BY <1>3, <2>1 DEF FinishThread, TypeOK, Place, ReportsAreTyped, destroyVars
  <1> QED
    BY <1>1, <1>2, <1>3 DEF ThreadStep

LEMMA NextTypes == TypeOK /\ ReportsAreTyped /\ [Next]_vars => TypeOK' /\ ReportsAreTyped'
  <1> SUFFICES ASSUME TypeOK, ReportsAreTyped, [Next]_vars
               PROVE  TypeOK' /\ ReportsAreTyped'
    OBVIOUS
  <1>1. CASE UNCHANGED vars
    BY <1>1 DEF vars, threadVars, workVars, destroyVars, TypeOK, ReportsAreTyped
  <1>2. ASSUME NEW p \in Processes,
               \/ \E e \in Events, f \in Callbacks : EventSystem_AddEventCallback(p, e, f)
               \/ \E e \in Events : EventSystem_ReportEvent(p, e)
               \/ ReportStep(p)
        PROVE  TypeOK' /\ ReportsAreTyped'
    BY <1>2, AddEventCallbackTypes, ReportEventTypes, CopyCallbacksTypes, QueueRowTypes,
       ChangeThreadTypes, JoinDestroyedTypes DEF ReportStep
  <1> QED
    BY <1>1, <1>2, DestroyTypes, ThreadStepTypes DEF Next, DestroyStep

-----------------------------------------------------------------------------
(* Threads and their handles *)

Structure ==
  /\ ThreadHandles /\ OneThread /\ LockHolder /\ Reporters /\ HandlesSuffice
  /\ DestroyedIsQuiet

handleVars == <<threadVars, thread, report, destroy, handles>>

LEMMA SameHandles ==
  ASSUME Structure, UNCHANGED handleVars
  PROVE  Structure'
  BY DEF Structure, handleVars, threadVars, ThreadHandles, OneThread, LockHolder, Reporters,
         HandlesSuffice, DestroyedIsQuiet

\* A report of a thread is made from its callback, so the thread is the one whose
\* handle the event system has, and the event system is still there.
LEMMA ReportingThread ==
  ASSUME TypeOK, Structure, NEW t \in Threads, report[t] # Idle
  PROVE  /\ thread[t] = "callback" /\ destroy # "done"
         /\ callback_thread = t /\ destroyed_thread = None
  <1>1. thread[t] = "callback"
    BY DEF Structure, Reporters
  <1>2. destroy # "done"
    BY <1>1 DEF Structure, DestroyedIsQuiet
  <1>3. callback_thread = t
    BY <1>1, <1>2 DEF Structure, ThreadHandles
  <1> QED
    BY <1>1, <1>2, <1>3, NamesAssumption DEF Structure, OneThread

\* Whoever reports, does so before the event system is freed; a report that finds
\* no callback thread is a client's, before EventSystem_Destroy.
LEMMA Reporting ==
  ASSUME TypeOK, Structure, NEW p \in Processes, report[p] # Idle
  PROVE  /\ destroy # "done"
         /\ callback_thread = None => destroy = "no" /\ p \in Clients
         /\ destroyed_thread # None => destroy = "no" /\ p \in Clients
  <1>1. CASE p \in Threads
    BY <1>1, ReportingThread, NamesAssumption
  <1>2. CASE p \in Clients
    BY <1>2 DEF Structure, Reporters
  <1> QED
    BY <1>1, <1>2 DEF Processes

\* A report goes on that has begun, or was begun by a client before
\* EventSystem_Destroy or by a thread from its callback; nothing else changes.
LEMMA ReportStructure ==
  ASSUME TypeOK, Structure, NEW p \in Processes, NEW r \in Report,
         report' = [report EXCEPT ![p] = r], r.at # "join",
         UNCHANGED <<threadVars, thread, destroy, handles>>,
         \/ r = Idle
         \/ report[p] # Idle
         \/ p \in Clients /\ destroy = "no"
         \/ p \in Threads /\ thread[p] = "callback"
  PROVE  Structure'
  <1>1. \A q \in Processes : report'[q] = IF q = p THEN r ELSE report[q]
    BY ShapesOfTypeOK
  <1>2. ThreadHandles' /\ OneThread' /\ HandlesSuffice'
    BY DEF Structure, ThreadHandles, OneThread, HandlesSuffice, threadVars
  <1>3. LockHolder'
    BY <1>1 DEF Structure, LockHolder, threadVars
  <1>4. Reporters'
    BY <1>1, NamesAssumption DEF Structure, Reporters, Processes
  <1>5. DestroyedIsQuiet'
    <2>1. CASE r = Idle
      BY <1>1, <2>1 DEF Structure, DestroyedIsQuiet
    <2>2. CASE r # Idle
      <3>1. destroy # "done"
        BY <2>2, Reporting DEF Structure, DestroyedIsQuiet
      <3> QED
        BY <3>1 DEF DestroyedIsQuiet
    <2> QED
      BY <2>1, <2>2
  <1> QED
    BY <1>2, <1>3, <1>4, <1>5 DEF Structure

LEMMA AddEventCallbackStructure ==
  ASSUME Structure, NEW p \in Processes, NEW e \in Events, NEW f \in Callbacks,
         EventSystem_AddEventCallback(p, e, f)
  PROVE  Structure'
  BY SameHandles DEF EventSystem_AddEventCallback, handleVars, workVars, destroyVars

LEMMA ReportEventStructure ==
  ASSUME TypeOK, Structure, NEW p \in Processes, NEW e \in Events,
         EventSystem_ReportEvent(p, e)
  PROVE  Structure'
  <1> DEFINE r == [at |-> "copy", row |-> [event |-> e, calls |-> <<>>, list |-> reports']]
  <1>1. reports' \in Nat
    BY DEF EventSystem_ReportEvent, TypeOK
  <1>2. r \in Report /\ r.at = "copy"
    <2>1. <<>> \in Seq(Callbacks \cup {DestroyList})
      OBVIOUS
    <2> QED
      BY <1>1, <2>1 DEF Report, Row
  <1>3. report' = [report EXCEPT ![p] = r]
    BY DEF EventSystem_ReportEvent
  <1>4. UNCHANGED <<threadVars, thread, destroy, handles>>
    BY DEF EventSystem_ReportEvent, workVars, destroyVars
  <1>5. \/ p \in Clients /\ destroy = "no"
        \/ p \in Threads /\ thread[p] = "callback"
    BY DEF EventSystem_ReportEvent, CanCall
  <1> QED
    BY <1>2, <1>3, <1>4, <1>5, ReportStructure

LEMMA CopyCallbacksStructure ==
  ASSUME TypeOK, ReportsAreTyped, Structure, NEW p \in Processes, CopyCallbacks(p)
  PROVE  Structure'
  <1> DEFINE e == report[p].row.event
             n == report[p].row.list
             r == [at |-> "add", row |-> RowOf(e, n)]
  <1>1. e \in Events /\ n \in Nat
    BY DEF CopyCallbacks, TypeOK, ReportsAreTyped, Row
  <1>2. r \in Report /\ r.at = "add"
    BY <1>1, RowOfType DEF TypeOK, Report
  <1>3. report[p] # Idle
    BY IdleType DEF CopyCallbacks
  <1>4. UNCHANGED <<threadVars, thread, destroy, handles>>
    BY DEF CopyCallbacks, workVars, destroyVars
  <1>5. report' = [report EXCEPT ![p] = Idle] \/ report' = [report EXCEPT ![p] = r]
    BY DEF CopyCallbacks
  <1>6. CASE report' = [report EXCEPT ![p] = Idle]
    BY <1>4, <1>6, IdleType, ReportStructure
  <1>7. CASE report' = [report EXCEPT ![p] = r]
    BY <1>2, <1>3, <1>4, <1>7, ReportStructure
  <1> QED
    BY <1>5, <1>6, <1>7

LEMMA QueueRowStructure ==
  ASSUME TypeOK, Structure, NEW p \in Processes, QueueRow(p)
  PROVE  Structure'
  <1>1. report[p] \in Report /\ report[p] # Idle
    BY ShapesOfTypeOK, IdleType DEF QueueRow
  <1> DEFINE r == [report[p] EXCEPT !.at = "change"]
             s == [at |-> "change", row |-> NoRow]
  <1>2. r \in Report /\ r.at = "change" /\ s \in Report /\ s.at = "change"
    BY <1>1, IdleType DEF Report
  <1>3. report' = [report EXCEPT ![p] = r] \/ report' = [report EXCEPT ![p] = s]
    BY DEF QueueRow
  <1>4. UNCHANGED <<threadVars, thread, destroy, handles>>
    BY DEF QueueRow, destroyVars
  <1>5. CASE report' = [report EXCEPT ![p] = r]
    BY <1>1, <1>2, <1>4, <1>5, ReportStructure
  <1>6. CASE report' = [report EXCEPT ![p] = s]
    BY <1>1, <1>2, <1>4, <1>6, ReportStructure
  <1> QED
    BY <1>3, <1>5, <1>6

\* A new thread, by a client that found none and has joined the ended one.
LEMMA NewThreadStructure ==
  ASSUME TypeOK, Structure, NEW p \in Clients, NEW t \in Threads,
         report' = [report EXCEPT ![p] = Idle],
         destroy = "no", UNCHANGED destroy,
         callback_thread = None, callback_thread' = t, destroyed_thread' = None,
         internal_change_lock = None \/ internal_change_lock = p,
         internal_change_lock' = None,
         thread[t] = "none", thread'[t] = "get", thread' \in [Threads -> Place],
         \A u \in Threads : u # t =>
           thread'[u] = IF u = destroyed_thread THEN "joined" ELSE thread[u]
  PROVE  Structure'
  <1>1. \A q \in Processes : report'[q] = IF q = p THEN Idle ELSE report[q]
    BY ShapesOfTypeOK DEF Processes
  <1>2. t # destroyed_thread /\ t # None
    <2>1. destroyed_thread \in Threads => thread[destroyed_thread] = "returned"
      BY DEF Structure, ThreadHandles
    <2> QED
      BY <2>1, NamesAssumption
  <1>3. \A u \in Threads : thread[u] \notin Alive
    BY NamesAssumption DEF Structure, ThreadHandles, Alive
  <1>4. ThreadHandles'
    <2>1. \A u \in Threads : u # t => thread'[u] \notin Alive /\ thread'[u] # "returned"
      <3> SUFFICES ASSUME NEW u \in Threads, u # t
                   PROVE  thread'[u] \notin Alive /\ thread'[u] # "returned"
        OBVIOUS
      <3>1. CASE u = destroyed_thread
        BY <3>1 DEF Alive
      <3>2. CASE u # destroyed_thread
        BY <1>3, <3>2 DEF Structure, ThreadHandles
      <3> QED
        BY <3>1, <3>2
    <2> QED
      BY <1>2, <2>1, NamesAssumption DEF ThreadHandles, Alive
  <1>5. OneThread' /\ HandlesSuffice' /\ DestroyedIsQuiet'
    BY DEF OneThread, HandlesSuffice, DestroyedIsQuiet
  <1>6. LockHolder'
    <2>1. \A q \in Processes : report'[q].at # "join"
      BY <1>1, IdleType, NamesAssumption DEF Structure, LockHolder, Processes
    <2> QED
      BY <2>1 DEF LockHolder
  <1>7. Reporters'
    <2>1. \A u \in Threads : report'[u] = Idle
      BY <1>1, <1>3, NamesAssumption DEF Structure, Reporters, Processes, Alive
    <2> QED
      BY <2>1 DEF Reporters
  <1> QED
    BY <1>4, <1>5, <1>6, <1>7 DEF Structure

\* An ended thread is joined, and no new one is made.
LEMMA JoinedStructure ==
  ASSUME TypeOK, Structure, NEW p \in Clients,
         report' = [report EXCEPT ![p] = Idle],
         destroy = "no", UNCHANGED <<destroy, callback_thread>>,
         internal_change_lock = p, internal_change_lock' = None,
         destroyed_thread \in Threads, destroyed_thread' = None,
         thread' = [thread EXCEPT ![destroyed_thread] = "joined"]
  PROVE  Structure'
  <1>1. \A q \in Processes : report'[q] = IF q = p THEN Idle ELSE report[q]
    BY ShapesOfTypeOK DEF Processes
  <1>2. \A u \in Threads : thread'[u] = IF u = destroyed_thread THEN "joined" ELSE thread[u]
    BY ShapesOfTypeOK
  <1>3. callback_thread = None
    BY NamesAssumption DEF Structure, OneThread
  <1>4. \A u \in Threads : thread[u] \notin Alive
    BY <1>3, NamesAssumption DEF Structure, ThreadHandles, Alive
  <1>5. \A u \in Threads : thread'[u] \notin Alive /\ thread'[u] # "returned"
    <2> SUFFICES ASSUME NEW u \in Threads
                 PROVE  thread'[u] \notin Alive /\ thread'[u] # "returned"
      OBVIOUS
    <2>1. CASE u = destroyed_thread
      BY <1>2, <2>1 DEF Alive
    <2>2. CASE u # destroyed_thread
      BY <1>2, <1>4, <2>2 DEF Structure, ThreadHandles
    <2> QED
      BY <2>1, <2>2
  <1>6. ThreadHandles'
    BY <1>3, <1>5, NamesAssumption DEF ThreadHandles, Alive
  <1>7. OneThread' /\ HandlesSuffice' /\ DestroyedIsQuiet'
    BY DEF OneThread, HandlesSuffice, DestroyedIsQuiet
  <1>8. LockHolder'
    <2>1. \A q \in Processes : report'[q].at # "join"
      BY <1>1, IdleType, NamesAssumption DEF Structure, LockHolder, Processes
    <2> QED
      BY <2>1 DEF LockHolder
  <1>9. Reporters'
    <2>1. \A u \in Threads : report'[u] = Idle
      BY <1>1, <1>4, NamesAssumption DEF Structure, Reporters, Processes, Alive
    <2> QED
      BY <2>1 DEF Reporters
  <1> QED
    BY <1>6, <1>7, <1>8, <1>9 DEF Structure

LEMMA ChangeThreadStructure ==
  ASSUME TypeOK, Structure, NEW p \in Processes, ChangeThread(p)
  PROVE  Structure'
  <1>1. /\ report[p] # Idle /\ internal_change_lock = None
        /\ UNCHANGED <<destroyed_thread, destroy, handles>>
    BY IdleType DEF ChangeThread, destroyVars
  <1>2. CASE destroyed_thread = None /\ StartThread(p, thread) /\ UNCHANGED internal_change_lock
    <2>1. CASE thread' = thread /\ callback_thread' = callback_thread
      BY <1>1, <1>2, <2>1, IdleType, ReportStructure DEF StartThread, threadVars
    <2>2. ASSUME callback_thread = None, NEW t \in Threads, thread[t] = "none",
                 thread' = [thread EXCEPT ![t] = "get"], callback_thread' = t
          PROVE  Structure'
      <3>1. p \in Clients /\ destroy = "no"
        BY <1>1, <2>2, Reporting
      <3>2. report' = [report EXCEPT ![p] = Idle]
        BY <1>2 DEF StartThread
      <3>3. thread' \in [Threads -> Place] /\ thread'[t] = "get"
        BY <2>2, ShapesOfTypeOK DEF Place
      <3>4. \A u \in Threads : u # t => thread'[u] = thread[u] /\ u # destroyed_thread
        BY <1>2, <2>2, ShapesOfTypeOK, NamesAssumption
      <3> QED
        BY <1>1, <1>2, <2>2, <3>1, <3>2, <3>3, <3>4, NewThreadStructure
    <2> QED
      BY <1>2, <2>1, <2>2 DEF StartThread
  <1>3. CASE /\ destroyed_thread # None
             /\ internal_change_lock' = p
             /\ report' = [report EXCEPT ![p].at = "join"]
             /\ UNCHANGED <<is_errored, callback_thread, thread>>
    <2>1. p \in Clients /\ destroy = "no"
      BY <1>1, <1>3, Reporting
    <2>2. \A q \in Processes : report'[q] = IF q = p THEN [report[p] EXCEPT !.at = "join"]
                                                     ELSE report[q]
      BY <1>3, ShapesOfTypeOK
    <2>3. ThreadHandles' /\ OneThread' /\ HandlesSuffice' /\ DestroyedIsQuiet'
      BY <1>1, <1>3, <2>1 DEF Structure, ThreadHandles, OneThread, HandlesSuffice,
                             DestroyedIsQuiet
    <2>4. LockHolder'
      <3>1. \A q \in Processes : report[q].at # "join"
        BY <1>1, NamesAssumption DEF Structure, LockHolder, Processes
      <3> QED
        BY <1>1, <1>3, <2>2, <3>1 DEF LockHolder
    <2>5. Reporters'
      BY <1>1, <1>3, <2>1, <2>2, NamesAssumption DEF Structure, Reporters, Processes
    <2> QED
      BY <2>3, <2>4, <2>5 DEF Structure
  <1> QED
    BY <1>2, <1>3 DEF ChangeThread

LEMMA JoinDestroyedStructure ==
  ASSUME TypeOK, Structure, NEW p \in Processes, JoinDestroyed(p)
  PROVE  Structure'
  <1> DEFINE known == [thread EXCEPT ![destroyed_thread] = "joined"]
  <1>1. report[p].at = "join" /\ report[p] # Idle /\ p # None
    BY IdleType, NamesAssumption DEF JoinDestroyed, Processes
  <1>2. internal_change_lock = p /\ destroyed_thread # None /\ destroyed_thread \in Threads
    BY <1>1 DEF Structure, LockHolder, TypeOK
  <1>3. callback_thread = None
    BY <1>2 DEF Structure, OneThread
  <1>4. p \in Clients /\ destroy = "no"
    BY <1>1, <1>2, Reporting
  <1>5. /\ destroyed_thread' = None /\ internal_change_lock' = None /\ UNCHANGED destroy
        /\ report' = [report EXCEPT ![p] = Idle]
    BY DEF JoinDestroyed, StartThread, destroyVars
  <1>6. CASE thread' = known /\ callback_thread' = callback_thread
    BY <1>2, <1>4, <1>5, <1>6, JoinedStructure
  <1>7. ASSUME NEW t \in Threads, thread[t] = "none", thread' = [known EXCEPT ![t] = "get"],
               callback_thread' = t
        PROVE  Structure'
    <2>1. known \in [Threads -> Place]
      BY <1>2, ShapesOfTypeOK DEF Place
    <2>2. thread' \in [Threads -> Place] /\ thread'[t] = "get"
      BY <1>7, <2>1 DEF Place
    <2>3. \A u \in Threads : u # t =>
            thread'[u] = IF u = destroyed_thread THEN "joined" ELSE thread[u]
      BY <1>7, <1>2, <2>1, ShapesOfTypeOK
    <2> QED
      BY <1>2, <1>3, <1>4, <1>5, <1>7, <2>2, <2>3, NewThreadStructure
  <1> QED
    BY <1>6, <1>7 DEF JoinDestroyed, StartThread

LEMMA EventSystemDestroyStructure ==
  ASSUME Structure, NEW c \in Clients, EventSystem_Destroy(c)
  PROVE  Structure'
  BY DEF Structure, EventSystem_Destroy, threadVars, workVars, ThreadHandles, OneThread,
         LockHolder, Reporters, HandlesSuffice, DestroyedIsQuiet

\* Whatever has to be joined is found in one of the two handles.
LEMMA CopyHandlesStructure ==
  ASSUME TypeOK, Structure, CopyHandles
  PROVE  Structure'
  <1>1. \A t \in Threads : thread[t] \in Place
    BY ShapesOfTypeOK
  <1>2. \A t \in Threads : thread[t] \notin {"none", "joined"} =>
          t \in {callback_thread, destroyed_thread}
    BY <1>1 DEF Structure, ThreadHandles, CopyHandles, Place
  <1>3. handles'[1] = callback_thread /\ handles'[2] = destroyed_thread
    BY DEF CopyHandles
  <1>4. HandlesSuffice'
    BY <1>2, <1>3 DEF HandlesSuffice, CopyHandles, workVars
  <1> QED
    BY <1>4 DEF Structure, CopyHandles, threadVars, workVars, ThreadHandles, OneThread,
                LockHolder, Reporters, DestroyedIsQuiet

LEMMA JoinHandlesStructure ==
  ASSUME TypeOK, Structure, JoinHandles
  PROVE  Structure'
  <1>1. \A i \in 1..2 : handles[i] # None => thread[handles[i]] = "returned"
    BY DEF JoinHandles
  <1>2. \A t \in Threads : thread[t] \in {"none", "joined", "returned"}
    BY <1>1, NamesAssumption DEF Structure, HandlesSuffice, JoinHandles
  <1>3. \A t \in Threads : thread'[t] \in {"none", "joined"}
    BY <1>2 DEF Structure, HandlesSuffice, JoinHandles
  <1>4. \A p \in Processes : report[p] = Idle
    BY <1>2 DEF Structure, Reporters, JoinHandles, Processes
  <1>5. DestroyedIsQuiet' /\ Reporters' /\ ThreadHandles' /\ HandlesSuffice'
    BY <1>3, <1>4
    DEF JoinHandles, DestroyedIsQuiet, Reporters, ThreadHandles, HandlesSuffice, Processes
  <1>6. OneThread' /\ LockHolder'
    BY DEF Structure, OneThread, LockHolder, JoinHandles, threadVars
  <1> QED
    BY <1>5, <1>6 DEF Structure

\* A living thread goes on to another place of its loop.
LEMMA LivingStructure ==
  ASSUME TypeOK, Structure, NEW t \in Threads, NEW place \in Alive,
         thread[t] \in Alive, report[t] = Idle,
         thread' = [thread EXCEPT ![t] = place],
         UNCHANGED <<threadVars, report, destroy, handles>>
  PROVE  Structure'
  <1>1. \A u \in Threads : thread'[u] = IF u = t THEN place ELSE thread[u]
    BY ShapesOfTypeOK
  <1>2. destroy # "done"
    BY DEF Structure, DestroyedIsQuiet, Alive
  <1>3. callback_thread = t
    BY <1>2 DEF Structure, ThreadHandles, Alive
  <1>4. ThreadHandles'
    BY <1>1, <1>3 DEF Structure, ThreadHandles, threadVars, Alive
  <1>5. OneThread' /\ LockHolder' /\ DestroyedIsQuiet'
    BY <1>2 DEF Structure, OneThread, LockHolder, DestroyedIsQuiet, threadVars
  <1>6. Reporters'
    BY <1>1 DEF Structure, Reporters
  <1>7. HandlesSuffice'
    BY <1>1 DEF Structure, HandlesSuffice, Alive
  <1> QED
    BY <1>4, <1>5, <1>6, <1>7 DEF Structure

LEMMA FinishThreadStructure ==
  ASSUME TypeOK, Structure, NEW t \in Threads, FinishThread(t)
  PROVE  Structure'
  <1>1. \A u \in Threads : thread'[u] = IF u = t THEN "returned" ELSE thread[u]
    BY ShapesOfTypeOK DEF FinishThread
  <1>2. destroy # "done"
    BY DEF Structure, DestroyedIsQuiet, FinishThread
  <1>3. callback_thread = t /\ destroyed_thread = None
    BY <1>2, NamesAssumption DEF Structure, ThreadHandles, OneThread, FinishThread
  <1>4. \A u \in Threads : u # t => thread[u] \notin Alive /\ thread[u] # "returned"
    BY <1>2, <1>3, NamesAssumption DEF Structure, ThreadHandles, Alive
  <1>5. ThreadHandles'
    BY <1>1, <1>3, <1>4 DEF ThreadHandles, FinishThread, Alive
  <1>6. OneThread' /\ DestroyedIsQuiet'
    BY <1>2 DEF OneThread, DestroyedIsQuiet, FinishThread, destroyVars
  <1>7. LockHolder'
    BY DEF Structure, LockHolder, FinishThread
  <1>8. Reporters'
    BY <1>1 DEF Structure, Reporters, FinishThread, destroyVars
  <1>9. HandlesSuffice'
    BY <1>1 DEF Structure, HandlesSuffice, FinishThread, destroyVars
  <1> QED
    BY <1>5, <1>6, <1>7, <1>8, <1>9 DEF Structure

LEMMA ThreadStepStructure ==
  ASSUME TypeOK, Structure, NEW t \in Threads, ThreadStep(t)
  PROVE  Structure'
  <1>1. CASE GetRow(t) \/ WakeUp(t)
    <2>1. thread[t] \in {"get", "wait"}
      BY <1>1 DEF GetRow, WakeUp
    <2>2. report[t] = Idle
      BY <2>1 DEF Structure, Reporters
    <2>3. \E place \in Alive : thread' = [thread EXCEPT ![t] = place]
      BY <1>1 DEF GetRow, WakeUp, TakeRow, FindNothing, Alive
    <2>4. UNCHANGED <<threadVars, report, destroy, handles>>
      BY <1>1 DEF GetRow, WakeUp, destroyVars
    <2> QED
      BY <2>1, <2>2, <2>3, <2>4, LivingStructure DEF Alive
  <1>2. CASE CallbackReturns(t)
    <2>1. CASE UNCHANGED thread
      BY <1>2, <2>1, SameHandles DEF CallbackReturns, handleVars, destroyVars
    <2>2. CASE thread' = [thread EXCEPT ![t] = "get"]
      BY <1>2, <2>2, LivingStructure DEF CallbackReturns, destroyVars, Alive
    <2> QED
      BY <1>2, <2>1, <2>2 DEF CallbackReturns
  <1>3. CASE FinishThread(t)
    BY <1>3, FinishThreadStructure
  <1> QED
    BY <1>1, <1>2, <1>3 DEF ThreadStep

-----------------------------------------------------------------------------
LEMMA InitInv == Init => IInv
  <1> SUFFICES ASSUME Init PROVE IInv
    OBVIOUS
  <1>1. rows \in Seq(Row) /\ thread_queue \in Seq(Nat)
    BY DEF Init
  <1>2. event_callbacks \in [Events -> Seq(Callbacks)]
    BY DEF Init
  <1>3. handles \in Seq(Threads \cup {None}) /\ Len(handles) = 2
    BY DEF Init
  <1>4. report \in [Processes -> Report] /\ \A p \in Processes : report[p] = Idle
    BY IdleType DEF Init
  <1>5. TypeOK
    BY <1>1, <1>2, <1>3, <1>4 DEF Init, TypeOK, Report
  <1> QED
    BY <1>4, <1>5, IdleType, NamesAssumption
    DEF Init, IInv, ReportsAreTyped, ThreadHandles, OneThread, LockHolder, Reporters,
        HandlesSuffice, DestroyedIsQuiet, Processes

LEMMA NextInv == IInv /\ [Next]_vars => IInv'
  <1> SUFFICES ASSUME IInv, [Next]_vars PROVE IInv'
    OBVIOUS
  <1>1. TypeOK /\ ReportsAreTyped /\ Structure
    BY DEF IInv, Structure
  <1>2. TypeOK' /\ ReportsAreTyped'
    BY <1>1, NextTypes
  <1>3. CASE UNCHANGED vars
    <2>1. Structure'
      BY <1>1, <1>3, SameHandles DEF vars, workVars, destroyVars, handleVars
    <2> QED
      BY <1>2, <2>1 DEF IInv, Structure
  <1>4. CASE Next
    <2>1. ASSUME NEW p \in Processes,
                 \/ \E e \in Events, f \in Callbacks : EventSystem_AddEventCallback(p, e, f)
                 \/ \E e \in Events : EventSystem_ReportEvent(p, e)
                 \/ ReportStep(p)
          PROVE  Structure'
      BY <1>1, <2>1, AddEventCallbackStructure, ReportEventStructure, CopyCallbacksStructure,
         QueueRowStructure, ChangeThreadStructure, JoinDestroyedStructure DEF ReportStep
    <2>2. ASSUME NEW c \in Clients, EventSystem_Destroy(c) PROVE Structure'
      BY <1>1, <2>2, EventSystemDestroyStructure
    <2>3. ASSUME DestroyStep PROVE Structure'
      BY <1>1, <2>3, CopyHandlesStructure, JoinHandlesStructure DEF DestroyStep
    <2>4. ASSUME NEW t \in Threads, ThreadStep(t) PROVE Structure'
      BY <1>1, <2>4, ThreadStepStructure
    <2>5. Structure'
      BY <1>4, <2>1, <2>2, <2>3, <2>4 DEF Next
    <2> QED
      BY <1>2, <2>5 DEF IInv, Structure
  <1> QED
    BY <1>3, <1>4

\* Callback threads are joined once, by the next report or by
\* EventSystem_Destroy, and none is left when the event system is freed: for any
\* number of threads and clients, whatever calls fail.
THEOREM ThreadsCorrect == Spec => []ThreadInv
  <1>1. IInv => ThreadInv
    BY DEF IInv, ThreadInv
  <1> QED
    BY <1>1, InitInv, NextInv, PTL DEF Spec

-----------------------------------------------------------------------------
(* Rows and module lists *)

\* A row is called from its first callback to its last; only the last one of a row
\* with a module list releases a list.
Shape(r) ==
  /\ Len(r.calls) > 0
  /\ \A i \in 1..Len(r.calls) : i # Len(r.calls) => r.calls[i] # DestroyList
  /\ r.calls[Len(r.calls)] = DestroyList <=> r.list # 0

RowsAreShaped ==
  /\ \A i \in 1..Len(rows) : Shape(rows[i])
  /\ \A p \in Processes : report[p].at = "add" => Shape(report[p].row)

\* The queue holds the rows behind the one called last, in their order; the thread
\* in a callback is in the one called last, and between rows that was the end of
\* its row.
QueueInv ==
  /\ destroy # "done" => called[1] + Len(thread_queue) = Len(rows)
  /\ \A i \in 1..Len(thread_queue) : thread_queue[i] = called[1] + i
  /\ called[1] <= Len(rows)
  /\ \A t \in Threads : thread[t] = "callback" =>
       /\ called[1] # 0 /\ row[t] = called[1] /\ position[t] = called[2]
       /\ position[t] \in 1..Len(rows[row[t]].calls)
  /\ called[1] # 0 /\ (\A t \in Threads : thread[t] # "callback") =>
       called[2] = Len(rows[called[1]].calls)

\* Reports that still need the number of their list.
Holds(p) == report[p].at \in {"copy", "add"}

\* No two rows, queued or being made, have the same module list.
ListsAreOwn ==
  /\ \A i \in 1..Len(rows) : rows[i].list <= reports
  /\ \A p \in Processes : Holds(p) => report[p].row.list <= reports
  /\ \A p \in Processes : report[p].at = "copy" => report[p].row.list # 0
  /\ \A i, j \in 1..Len(rows) : i # j /\ rows[i].list # 0 => rows[i].list # rows[j].list
  /\ \A p \in Processes, i \in 1..Len(rows) :
       Holds(p) /\ report[p].row.list # 0 => report[p].row.list # rows[i].list
  /\ \A p, q \in Processes :
       p # q /\ Holds(p) /\ Holds(q) /\ report[p].row.list # 0
         => report[p].row.list # report[q].row.list

\* Rows that are still to be called have their lists.
ListsAreKept ==
  /\ \A p \in Processes :
       report[p].at = "add" /\ report[p].row.list # 0 => report[p].row.list \in lists
  /\ \A i \in 1..Len(rows) :
       called[1] < i /\ rows[i].list # 0 => rows[i].list \in lists
  /\ ContextIsLive

RowInv == RowsAreShaped /\ QueueInv /\ ListsAreOwn /\ ListsAreKept

LEMMA RowTypes ==
  ASSUME TypeOK
  PROVE  /\ Len(rows) \in Nat /\ \A i \in 1..Len(rows) : rows[i] \in Row
         /\ Len(thread_queue) \in Nat /\ called[1] \in Nat /\ called[2] \in Nat
         /\ called = <<called[1], called[2]>>
         /\ \A r \in Row : r.list \in Nat /\ Len(r.calls) \in Nat
  <1>1. /\ rows \in Seq(Row) /\ thread_queue \in Seq(Nat) /\ called \in Nat \X Nat
    BY DEF TypeOK
  <1>2. Len(rows) \in Nat /\ \A i \in 1..Len(rows) : rows[i] \in Row
    BY <1>1
  <1>3. Len(thread_queue) \in Nat
    BY <1>1
  <1>4. called[1] \in Nat /\ called[2] \in Nat /\ called = <<called[1], called[2]>>
    BY <1>1
  <1>5. \A r \in Row : r.list \in Nat /\ Len(r.calls) \in Nat
    BY DEF Row
  <1> QED
    BY <1>2, <1>3, <1>4, <1>5

\* What reports and threads do that leaves rows and callbacks alone.
LEMMA RowsKept ==
  ASSUME RowInv, lists \subseteq lists',
         UNCHANGED <<rows, thread_queue, row, position, called, reports>>,
         \A t \in Threads : thread'[t] = "callback" <=> thread[t] = "callback",
         \A p \in Processes : report'[p] = report[p] \/ report'[p].at \notin {"copy", "add"},
         destroy = "done" => destroy' = "done"
  PROVE  RowInv'
  <1>1. RowsAreShaped'
    BY DEF RowInv, RowsAreShaped
  <1>2. QueueInv'
    <2>1. QueueInv
      BY DEF RowInv
    <2>2. \A t \in Threads : thread'[t] = "callback" =>
            /\ called[1] # 0 /\ row[t] = called[1] /\ position[t] = called[2]
            /\ position[t] \in 1..Len(rows[row[t]].calls)
      BY <2>1 DEF QueueInv
    <2>3. called[1] # 0 /\ (\A t \in Threads : thread'[t] # "callback") =>
            called[2] = Len(rows[called[1]].calls)
      BY <2>1 DEF QueueInv
    <2>4. /\ destroy' # "done" => called[1] + Len(thread_queue) = Len(rows)
          /\ \A i \in 1..Len(thread_queue) : thread_queue[i] = called[1] + i
          /\ called[1] <= Len(rows)
      BY <2>1 DEF QueueInv
    <2>5. UNCHANGED <<rows, thread_queue, row, position, called>>
      OBVIOUS
    <2> QED
      BY <2>2, <2>3, <2>4, <2>5 DEF QueueInv
  <1>3. ListsAreOwn'
    BY DEF RowInv, ListsAreOwn, Holds
  <1>4. ContextIsLive'
    BY DEF RowInv, ListsAreKept, ContextIsLive
  <1>5. ListsAreKept'
    BY <1>4 DEF RowInv, ListsAreKept
  <1> QED
    BY <1>1, <1>2, <1>3, <1>5 DEF RowInv

LEMMA AddEventCallbackRows ==
  ASSUME RowInv, NEW p \in Processes, NEW e \in Events, NEW f \in Callbacks,
         EventSystem_AddEventCallback(p, e, f)
  PROVE  RowInv'
  BY RowsKept DEF EventSystem_AddEventCallback, workVars, destroyVars

\* A report gets a number nobody has.
LEMMA ReportEventRows ==
  ASSUME TypeOK, RowInv, NEW p \in Processes, NEW e \in Events, EventSystem_ReportEvent(p, e)
  PROVE  RowInv'
  <1>1. /\ reports \in Nat /\ reports' = reports + 1
        /\ UNCHANGED <<rows, thread_queue, thread, row, position, called, lists, destroy>>
    BY DEF EventSystem_ReportEvent, TypeOK, workVars, destroyVars
  <1>2. \A q \in Processes : q # p => report'[q] = report[q]
    BY DEF EventSystem_ReportEvent, TypeOK
  <1>3. report'[p].at = "copy" /\ report'[p].row.list = reports'
    BY DEF EventSystem_ReportEvent, TypeOK
  <1>4. RowsAreShaped'
    BY <1>1, <1>2, <1>3 DEF RowInv, RowsAreShaped
  <1>5. QueueInv' /\ ContextIsLive'
    BY <1>1 DEF RowInv, QueueInv, ListsAreKept, ContextIsLive
  <1>6. ListsAreKept'
    BY <1>1, <1>2, <1>3, <1>5 DEF RowInv, ListsAreKept
  <1>7. ListsAreOwn'
    <2>1. /\ \A i \in 1..Len(rows) : rows[i].list \in Nat /\ rows[i].list <= reports
          /\ \A q \in Processes : report[q].row.list \in Nat
      BY RowTypes, ShapesOfTypeOK DEF RowInv, ListsAreOwn, Report
    <2>2. \A q \in Processes : q # p /\ Holds(q)' =>
            Holds(q) /\ report'[q].row.list = report[q].row.list
                     /\ report[q].row.list <= reports
      BY <1>2 DEF RowInv, ListsAreOwn, Holds
    <2>3. /\ \A i \in 1..Len(rows) : rows'[i].list <= reports'
          /\ \A q \in Processes : Holds(q)' => report'[q].row.list <= reports'
      BY <1>1, <1>3, <2>1, <2>2
    <2>4. \A q \in Processes, i \in 1..Len(rows) :
            Holds(q)' /\ report'[q].row.list # 0 => report'[q].row.list # rows[i].list
      BY <1>1, <1>3, <2>1, <2>2 DEF RowInv, ListsAreOwn
    <2>5. \A q, r \in Processes :
            q # r /\ Holds(q)' /\ Holds(r)' /\ report'[q].row.list # 0
              => report'[q].row.list # report'[r].row.list
      BY <1>1, <1>3, <2>1, <2>2 DEF RowInv, ListsAreOwn
    <2>6. \A q \in Processes : report'[q].at = "copy" => report'[q].row.list # 0
      BY <1>1, <1>2, <1>3 DEF RowInv, ListsAreOwn
    <2> QED
      BY <1>1, <2>3, <2>4, <2>5, <2>6 DEF RowInv, ListsAreOwn
  <1> QED
    BY <1>4, <1>5, <1>6, <1>7 DEF RowInv

LEMMA RowOfShape ==
  ASSUME NEW e \in Events, NEW n \in Nat, event_callbacks \in [Events -> Seq(Callbacks)],
         event_callbacks[e] # <<>>
  PROVE  /\ RowOf(e, n).list \in {0, n}
         /\ RowOf(e, n).list # 0 => e = ListChanged
         /\ n # 0 => Shape(RowOf(e, n))
  <1>1. /\ event_callbacks[e] \in Seq(Callbacks) /\ Len(event_callbacks[e]) \in Nat \ {0}
        /\ \A i \in 1..Len(event_callbacks[e]) : event_callbacks[e][i] # DestroyList
    BY CallbackAssumption
  <1>2. CASE e = ListChanged
    <2>1. /\ RowOf(e, n).calls = Append(event_callbacks[e], DestroyList)
          /\ RowOf(e, n).list = n
      BY <1>2 DEF RowOf
    <2>2. Len(Append(event_callbacks[e], DestroyList)) = Len(event_callbacks[e]) + 1
      BY <1>1
    <2>3. /\ Append(event_callbacks[e], DestroyList)[Len(event_callbacks[e]) + 1] = DestroyList
          /\ \A i \in 1..Len(event_callbacks[e]) :
               Append(event_callbacks[e], DestroyList)[i] = event_callbacks[e][i]
      BY <1>1
    <2> QED
      BY <1>1, <1>2, <2>1, <2>2, <2>3 DEF Shape
  <1>3. CASE e # ListChanged
    <2>1. RowOf(e, n).calls = event_callbacks[e] /\ RowOf(e, n).list = 0
      BY <1>3 DEF RowOf
    <2> QED
      BY <1>1, <1>3, <2>1 DEF Shape
  <1> QED
    BY <1>2, <1>3

LEMMA CopyCallbacksRows ==
  ASSUME TypeOK, ReportsAreTyped, RowInv, NEW p \in Processes, CopyCallbacks(p)
  PROVE  RowInv'
  <1> DEFINE e == report[p].row.event
             n == report[p].row.list
  <1>1. e \in Events /\ n \in Nat /\ n # 0
    BY DEF CopyCallbacks, TypeOK, ReportsAreTyped, Row, RowInv, ListsAreOwn
  <1>2. UNCHANGED <<rows, thread_queue, thread, row, position, called, reports, destroy>>
    BY DEF CopyCallbacks, workVars, destroyVars
  <1>3. lists \subseteq lists'
    BY DEF CopyCallbacks
  <1>4. CASE report' = [report EXCEPT ![p] = Idle]
    <2>1. \A q \in Processes : report'[q] = report[q] \/ report'[q].at \notin {"copy", "add"}
      BY <1>4, ShapesOfTypeOK, IdleType
    <2> QED
      BY <1>2, <1>3, <2>1, RowsKept
  <1>5. CASE /\ report' = [report EXCEPT ![p] = [at |-> "add", row |-> RowOf(e, n)]]
             /\ event_callbacks[e] # <<>>
             /\ lists' = IF e = ListChanged THEN lists \cup {n} ELSE lists
    <2>1. /\ \A q \in Processes : q # p => report'[q] = report[q]
          /\ report'[p].at = "add" /\ report'[p].row = RowOf(e, n)
      BY <1>5, ShapesOfTypeOK
    <2>2. /\ RowOf(e, n).list \in {0, n} /\ Shape(RowOf(e, n))
          /\ RowOf(e, n).list # 0 => RowOf(e, n).list \in lists'
      BY <1>1, <1>5, RowOfShape DEF TypeOK
    <2>3. RowsAreShaped'
      BY <1>2, <2>1, <2>2 DEF RowInv, RowsAreShaped
    <2>4. QueueInv'
      BY <1>2 DEF RowInv, QueueInv
    <2>5. ContextIsLive'
      BY <1>2, <1>3 DEF RowInv, ListsAreKept, ContextIsLive
    <2>6. ListsAreKept'
      BY <1>2, <1>3, <2>1, <2>2, <2>5 DEF RowInv, ListsAreKept
    <2>7. ListsAreOwn'
      <3>1. \A q \in Processes : Holds(q)' /\ report'[q].row.list # 0 =>
              Holds(q) /\ report'[q].row.list = report[q].row.list /\ report[q].row.list # 0
        BY <1>5, <2>1, <2>2 DEF Holds, CopyCallbacks
      <3>2. \A q \in Processes : Holds(q)' => report'[q].row.list <= reports'
        <4>1. reports \in Nat /\ n <= reports
          BY DEF TypeOK, RowInv, ListsAreOwn, Holds, CopyCallbacks
        <4> QED
          BY <1>1, <1>2, <2>1, <2>2, <4>1 DEF RowInv, ListsAreOwn, Holds
      <3>3. \A q, r \in Processes :
              q # r /\ Holds(q)' /\ Holds(r)' /\ report'[q].row.list # 0
                => report'[q].row.list # report'[r].row.list
        BY <3>1 DEF RowInv, ListsAreOwn
      <3>4. \A q \in Processes, i \in 1..Len(rows) :
              Holds(q)' /\ report'[q].row.list # 0 => report'[q].row.list # rows[i].list
        BY <3>1 DEF RowInv, ListsAreOwn
      <3>5. \A q \in Processes : report'[q].at = "copy" => report'[q].row.list # 0
        BY <2>1 DEF RowInv, ListsAreOwn
      <3> QED
        BY <1>2, <3>2, <3>3, <3>4, <3>5 DEF RowInv, ListsAreOwn
    <2> QED
      BY <2>3, <2>4, <2>6, <2>7 DEF RowInv
  <1> QED
    BY <1>4, <1>5 DEF CopyCallbacks

\* A new row comes behind all others.
LEMMA QueueRowRows ==
  ASSUME TypeOK, Structure, RowInv, NEW p \in Processes, QueueRow(p)
  PROVE  RowInv'
  <1>1. /\ report[p].at = "add" /\ report[p].row \in Row
        /\ UNCHANGED <<thread, row, position, called, lists, reports, destroy>>
    BY DEF QueueRow, TypeOK, destroyVars
  <1>2. \A q \in Processes : report'[q] = IF q = p THEN report'[p] ELSE report[q]
    BY ShapesOfTypeOK DEF QueueRow
  <1>3. report'[p].at = "change"
    BY ShapesOfTypeOK DEF QueueRow, Report
  <1>4. CASE UNCHANGED <<rows, thread_queue>>
    BY <1>1, <1>2, <1>3, <1>4, RowsKept
  <1>5. CASE /\ rows' = Append(rows, report[p].row)
             /\ thread_queue' = Append(thread_queue, Len(rows) + 1)
    <2> DEFINE n == Len(rows) + 1
               r == report[p].row
    <2>1. /\ Len(rows) \in Nat /\ Len(rows') = n /\ rows'[n] = r
          /\ \A i \in 1..Len(rows) : rows'[i] = rows[i] /\ i # n
      BY <1>1, <1>5 DEF TypeOK
    <2>2. \A i \in 1..Len(rows') : i = n \/ i \in 1..Len(rows)
      BY <2>1
    <2>3. destroy # "done"
      BY <1>1, IdleType DEF Structure, DestroyedIsQuiet
    <2>4. RowsAreShaped'
      BY <1>1, <1>2, <1>3, <2>1, <2>2 DEF RowInv, RowsAreShaped
    <2>5. QueueInv'
      <3>1. /\ called[1] + Len(thread_queue) = Len(rows) /\ called[1] <= Len(rows)
            /\ called[1] \in Nat /\ Len(thread_queue) \in Nat /\ thread_queue \in Seq(Nat)
        BY <2>3, RowTypes DEF RowInv, QueueInv, TypeOK
      <3>2. /\ Len(thread_queue') = Len(thread_queue) + 1
            /\ thread_queue'[Len(thread_queue) + 1] = n
            /\ \A i \in 1..Len(thread_queue) : thread_queue'[i] = thread_queue[i]
        BY <1>5, <2>1, <3>1
      <3>3. called'[1] + Len(thread_queue') = Len(rows') /\ called'[1] <= Len(rows')
        BY <1>1, <2>1, <3>1, <3>2
      <3>4. \A i \in 1..Len(thread_queue') : thread_queue'[i] = called'[1] + i
        <4>1. \A i \in 1..Len(thread_queue) : thread_queue[i] = called[1] + i
          BY DEF RowInv, QueueInv
        <4>2. \A i \in 1..Len(thread_queue') :
                i \in 1..Len(thread_queue) \/ i = Len(thread_queue) + 1
          BY <3>1, <3>2
        <4>3. \A a, b \in Nat : a + b + 1 = a + (b + 1)
          OBVIOUS
        <4>4. n = called[1] + (Len(thread_queue) + 1)
          BY <3>1, <4>3
        <4> QED
          BY <1>1, <3>2, <4>1, <4>2, <4>4
      <3>5. called[1] # 0 => rows'[called[1]] = rows[called[1]]
        BY <2>1, <3>1, SMTT(30)
      <3>6. \A t \in Threads : thread[t] = "callback" =>
              /\ called[1] # 0 /\ row[t] = called[1] /\ position[t] = called[2]
              /\ position[t] \in 1..Len(rows'[row[t]].calls)
        BY <3>5 DEF RowInv, QueueInv
      <3>7. called[1] # 0 /\ (\A t \in Threads : thread[t] # "callback") =>
              called[2] = Len(rows'[called[1]].calls)
        BY <3>5 DEF RowInv, QueueInv
      <3> QED
        BY <1>1, <3>3, <3>4, <3>6, <3>7 DEF QueueInv
    <2>6. ListsAreOwn'
      <3>1. \A q \in Processes : Holds(q)' => q # p /\ Holds(q) /\ report'[q] = report[q]
        BY <1>2, <1>3 DEF Holds
      <3>2. Holds(p)
        BY <1>1 DEF Holds
      <3>3. \A i \in 1..Len(rows') : rows'[i].list <= reports
        BY <2>1, <2>2, <3>2 DEF RowInv, ListsAreOwn
      <3>4. \A i, j \in 1..Len(rows') :
              i # j /\ rows'[i].list # 0 => rows'[i].list # rows'[j].list
        BY <2>1, <2>2, <3>2 DEF RowInv, ListsAreOwn
      <3>5. \A q \in Processes, i \in 1..Len(rows') :
              Holds(q)' /\ report'[q].row.list # 0 => report'[q].row.list # rows'[i].list
        BY <2>1, <2>2, <3>1, <3>2 DEF RowInv, ListsAreOwn
      <3>6. /\ \A q \in Processes : Holds(q)' => report'[q].row.list <= reports
            /\ \A q \in Processes : report'[q].at = "copy" => report'[q].row.list # 0
            /\ \A q, u \in Processes :
                 q # u /\ Holds(q)' /\ Holds(u)' /\ report'[q].row.list # 0
                   => report'[q].row.list # report'[u].row.list
        BY <1>2, <1>3, <3>1 DEF RowInv, ListsAreOwn
      <3> QED
        BY <1>1, <3>3, <3>4, <3>5, <3>6 DEF ListsAreOwn
    <2>7. ListsAreKept'
      <3>1. \A q \in Processes :
              report'[q].at = "add" /\ report'[q].row.list # 0 => report'[q].row.list \in lists
        BY <1>2, <1>3 DEF RowInv, ListsAreKept
      <3>2. \A i \in 1..Len(rows') :
              called[1] < i /\ rows'[i].list # 0 => rows'[i].list \in lists
        BY <1>1, <2>1, <2>2 DEF RowInv, ListsAreKept
      <3>3. \A t \in Threads : thread[t] = "callback" => rows'[row[t]] = rows[row[t]]
        BY <2>1, RowTypes DEF RowInv, QueueInv
      <3>4. ContextIsLive'
        BY <1>1, <3>3 DEF RowInv, ListsAreKept, ContextIsLive
      <3> QED
        BY <1>1, <3>1, <3>2, <3>4 DEF ListsAreKept
    <2> QED
      BY <2>4, <2>5, <2>6, <2>7 DEF RowInv
  <1> QED
    BY <1>4, <1>5 DEF QueueRow

LEMMA StartThreadKeepsCallbacks ==
  ASSUME TypeOK, NEW p \in Processes, NEW known \in [Threads -> Place], StartThread(p, known),
         \A u \in Threads : known[u] = "callback" <=> thread[u] = "callback"
  PROVE  \A u \in Threads : thread'[u] = "callback" <=> thread[u] = "callback"
  <1>1. CASE thread' = known
    BY <1>1
  <1>2. ASSUME NEW t \in Threads, thread[t] = "none", thread' = [known EXCEPT ![t] = "get"]
        PROVE  \A u \in Threads : thread'[u] = "callback" <=> thread[u] = "callback"
    BY <1>2
  <1> QED
    BY <1>1, <1>2 DEF StartThread

LEMMA ChangeThreadRows ==
  ASSUME TypeOK, Structure, RowInv, NEW p \in Processes, ChangeThread(p) \/ JoinDestroyed(p)
  PROVE  RowInv'
  <1>1. \A q \in Processes : report'[q] = report[q] \/ report'[q].at \notin {"copy", "add"}
    <2>1. \/ report' = [report EXCEPT ![p] = Idle]
          \/ report' = [report EXCEPT ![p].at = "join"]
      BY DEF ChangeThread, JoinDestroyed, StartThread
    <2>2. CASE report' = [report EXCEPT ![p] = Idle]
      BY <2>2, ShapesOfTypeOK, IdleType
    <2>3. CASE report' = [report EXCEPT ![p].at = "join"]
      <3>1. \A q \in Processes : q # p => report'[q] = report[q]
        BY <2>3, ShapesOfTypeOK
      <3>2. report'[p].at = "join"
        BY <2>3, ShapesOfTypeOK DEF Report
      <3> QED
        BY <3>1, <3>2
    <2> QED
      BY <2>1, <2>2, <2>3
  <1>2. \A u \in Threads : thread'[u] = "callback" <=> thread[u] = "callback"
    <2>1. CASE JoinDestroyed(p)
      <3> DEFINE known == [thread EXCEPT ![destroyed_thread] = "joined"]
      <3>1. known \in [Threads -> Place] /\ StartThread(p, known)
        BY <2>1, ShapesOfTypeOK DEF JoinDestroyed, Place
      <3>2. \A u \in Threads : known[u] = "callback" <=> thread[u] = "callback"
        BY <2>1, ShapesOfTypeOK DEF JoinDestroyed
      <3> QED
        BY <3>1, <3>2, StartThreadKeepsCallbacks
    <2>2. CASE ChangeThread(p)
      BY <2>2, ShapesOfTypeOK, StartThreadKeepsCallbacks DEF ChangeThread
    <2> QED
      BY <2>1, <2>2
  <1>3. /\ UNCHANGED <<rows, thread_queue, row, position, called, reports, destroy>>
        /\ lists \subseteq lists'
    BY DEF ChangeThread, JoinDestroyed, destroyVars
  <1> QED
    BY <1>1, <1>2, <1>3, RowsKept

LEMMA DestroyRows ==
  ASSUME TypeOK, Structure, RowInv,
         (\E c \in Clients : EventSystem_Destroy(c)) \/ CopyHandles \/ JoinHandles
  PROVE  RowInv'
  <1>1. ASSUME NEW c \in Clients, EventSystem_Destroy(c) PROVE RowInv'
    BY <1>1, RowsKept DEF EventSystem_Destroy, workVars
  <1>2. ASSUME CopyHandles PROVE RowInv'
    BY <1>2, RowsKept DEF CopyHandles, workVars
  <1>3. ASSUME JoinHandles PROVE RowInv'
    <2>1. \A t \in Threads : thread[t] # "callback" /\ thread'[t] # "callback"
      <3>1. \A t \in Threads : thread[t] \in {"none", "joined", "returned"}
        BY <1>3, NamesAssumption DEF Structure, HandlesSuffice, JoinHandles
      <3> QED
        BY <1>3, <3>1 DEF JoinHandles
    <2>2. /\ UNCHANGED <<rows, row, position, called, report, lists, reports>>
          /\ thread_queue' = <<>> /\ destroy' = "done"
      BY <1>3 DEF JoinHandles
    <2>3. QueueInv'
      <3>1. called[1] <= Len(rows)
        BY DEF RowInv, QueueInv
      <3>2. called[1] # 0 => called[2] = Len(rows[called[1]].calls)
        BY <2>1 DEF RowInv, QueueInv
      <3>3. \A i \in 1..Len(thread_queue') : thread_queue'[i] = called'[1] + i
        BY <2>2
      <3> QED
        BY <2>1, <2>2, <3>1, <3>2, <3>3 DEF QueueInv
    <2>4. RowsAreShaped' /\ ListsAreOwn'
      BY <2>2 DEF RowInv, RowsAreShaped, ListsAreOwn, Holds
    <2>5. ListsAreKept'
      BY <2>1, <2>2 DEF RowInv, ListsAreKept, ContextIsLive
    <2> QED
      BY <2>3, <2>4, <2>5 DEF RowInv
  <1> QED
    BY <1>1, <1>2, <1>3

\* Only one thread lives.
LEMMA OnlyThread ==
  ASSUME TypeOK, Structure, NEW t \in Threads, thread[t] \in Alive
  PROVE  destroy # "done" /\ \A u \in Threads : u # t => thread[u] # "callback"
  <1>1. destroy # "done"
    BY DEF Structure, DestroyedIsQuiet, Alive
  <1> QED
    BY <1>1 DEF Structure, ThreadHandles, Alive

\* A callback is called, that of position i in row n, and with the last one the
\* list goes: no row behind has that list.
LEMMA CallKeepsLists ==
  ASSUME TypeOK, RowInv, NEW n \in 1..Len(rows), NEW i \in 1..Len(rows[n].calls),
         Call(n, i), UNCHANGED <<rows, reports>>,
         \A p \in Processes : report'[p] = report[p],
         rows[n].list # 0 => rows[n].list \in lists
  PROVE  /\ called' = <<n, i>>
         /\ \A p \in Processes : report[p].at = "add" /\ report[p].row.list # 0
              => report[p].row.list \in lists'
         /\ \A j \in 1..Len(rows) : j # n /\ rows[j].list # 0 /\ rows[j].list \in lists
              => rows[j].list \in lists'
         /\ rows[n].calls[i] # DestroyList /\ rows[n].list # 0 => rows[n].list \in lists'
  <1>1. lists' = lists \/ lists' = lists \ {rows[n].list}
    BY DEF Call
  <1>2. \A p \in Processes : report[p].at = "add" /\ report[p].row.list # 0
          => report[p].row.list # rows[n].list /\ report[p].row.list \in lists
    BY DEF RowInv, ListsAreOwn, ListsAreKept, Holds
  <1>3. \A j \in 1..Len(rows) : j # n /\ rows[j].list # 0 => rows[j].list # rows[n].list
    BY DEF RowInv, ListsAreOwn
  <1>4. rows[n].calls[i] # DestroyList => lists' = lists
    BY DEF Call
  <1> QED
    BY <1>1, <1>2, <1>3, <1>4 DEF Call

\* The next row is taken, by a thread that is in no callback.
LEMMA TakeRowRows ==
  ASSUME TypeOK, Structure, RowInv, NEW t \in Threads, thread[t] \in {"get", "wait"},
         TakeRow(t), UNCHANGED <<report, destroy, rows, reports>>
  PROVE  RowInv' /\ called' = NextCall(called)
  <1> DEFINE n == Head(thread_queue)
  <1>1. /\ destroy # "done" /\ \A u \in Threads : thread[u] # "callback"
    BY OnlyThread DEF Alive
  <1>2. /\ called[1] + Len(thread_queue) = Len(rows) /\ Len(rows) \in Nat
        /\ called[1] \in Nat /\ called[2] \in Nat /\ Len(thread_queue) \in Nat
        /\ thread_queue \in Seq(Nat) /\ thread_queue # <<>>
    BY <1>1, RowTypes DEF RowInv, QueueInv, TypeOK, TakeRow
  <1>3. /\ n = thread_queue[1] /\ 1 \in 1..Len(thread_queue)
        /\ Len(Tail(thread_queue)) = Len(thread_queue) - 1
        /\ \A i \in 1..Len(Tail(thread_queue)) :
             Tail(thread_queue)[i] = thread_queue[i + 1] /\ i + 1 \in 1..Len(thread_queue)
    BY <1>2
  <1>4. n = called[1] + 1 /\ n \in 1..Len(rows) /\ n # 0
    <2>1. \A i \in 1..Len(thread_queue) : thread_queue[i] = called[1] + i
      BY DEF RowInv, QueueInv
    <2>2. n = called[1] + 1 /\ 1 <= Len(thread_queue)
      BY <1>2, <1>3, <2>1
    <2>3. \A a, q, k \in Nat : a + q = k /\ 1 <= q => a + 1 \in 1..k /\ a + 1 # 0
      OBVIOUS
    <2> QED
      BY <1>2, <2>2, <2>3
  <1>5. 1 \in 1..Len(rows[n].calls) /\ Len(rows[n].calls) \in Nat
    BY <1>4, RowTypes DEF RowInv, RowsAreShaped, Shape
  <1>6. rows[n].list # 0 => rows[n].list \in lists
    BY <1>2, <1>4 DEF RowInv, ListsAreKept
  <1>7. /\ Call(n, 1) /\ thread_queue' = Tail(thread_queue)
        /\ row' = [row EXCEPT ![t] = n] /\ position' = [position EXCEPT ![t] = 1]
        /\ thread' = [thread EXCEPT ![t] = "callback"]
    BY DEF TakeRow
  <1>8. /\ called' = <<n, 1>>
        /\ \A p \in Processes : report[p].at = "add" /\ report[p].row.list # 0
             => report[p].row.list \in lists'
        /\ \A j \in 1..Len(rows) : j # n /\ rows[j].list # 0 /\ rows[j].list \in lists
             => rows[j].list \in lists'
        /\ rows[n].calls[1] # DestroyList /\ rows[n].list # 0 => rows[n].list \in lists'
    BY <1>4, <1>5, <1>6, <1>7, CallKeepsLists
  <1>9. called'[1] = n /\ called'[2] = 1
    BY <1>8
  <1>10. /\ row'[t] = n /\ position'[t] = 1 /\ thread'[t] = "callback"
         /\ \A u \in Threads : u # t => thread'[u] # "callback"
    BY <1>1, <1>7 DEF TypeOK
  <1>11. RowsAreShaped' /\ ListsAreOwn'
    BY DEF RowInv, RowsAreShaped, ListsAreOwn, Holds
  <1>12. QueueInv'
    <2>1. called'[1] + Len(thread_queue') = Len(rows) /\ called'[1] <= Len(rows)
      BY <1>2, <1>3, <1>4, <1>7, <1>9
    <2>2. \A i \in 1..Len(thread_queue') : thread_queue'[i] = called'[1] + i
      <3> SUFFICES ASSUME NEW i \in 1..Len(Tail(thread_queue))
                   PROVE  Tail(thread_queue)[i] = n + i
        BY <1>7, <1>9
      <3>1. thread_queue[i + 1] = called[1] + (i + 1)
        BY <1>3 DEF RowInv, QueueInv
      <3>2. \A a, b \in Nat : a + (b + 1) = (a + 1) + b
        OBVIOUS
      <3>3. i \in Nat
        BY <1>2, <1>3
      <3> QED
        BY <1>2, <1>3, <1>4, <3>1, <3>2, <3>3, SMTT(30)
    <2> QED
      BY <1>4, <1>5, <1>9, <1>10, <2>1, <2>2 DEF QueueInv
  <1>13. ListsAreKept'
    <2>1. \A i \in 1..Len(rows) : n < i /\ rows[i].list # 0 => rows[i].list \in lists'
      <3> SUFFICES ASSUME NEW i \in 1..Len(rows), n < i, rows[i].list # 0
                   PROVE  rows[i].list \in lists'
        OBVIOUS
      <3>1. called[1] < i /\ i # n
        BY <1>2, <1>4
      <3> QED
        BY <1>8, <3>1 DEF RowInv, ListsAreKept
    <2>2. ContextIsLive'
      BY <1>8, <1>10 DEF ContextIsLive
    <2> QED
      BY <1>8, <1>9, <2>1, <2>2 DEF ListsAreKept
  <1>14. called' = NextCall(called)
    <2>1. called[1] # 0 => called[2] = Len(rows[called[1]].calls)
      BY <1>1 DEF RowInv, QueueInv
    <2>2. \A x \in Nat : ~(x < x)
      OBVIOUS
    <2>3. ~(called[1] # 0 /\ called[2] < Len(rows[called[1]].calls))
      <3> SUFFICES ASSUME called[1] # 0
                   PROVE  ~(called[2] < Len(rows[called[1]].calls))
        OBVIOUS
      <3>1. called[2] \in Nat /\ called[2] = Len(rows[called[1]].calls)
        BY <1>2, <2>1
      <3> QED
        BY <2>2, <3>1
    <2> QED
      BY <1>4, <1>8, <2>3 DEF NextCall
  <1> QED
    BY <1>11, <1>12, <1>13, <1>14 DEF RowInv

LEMMA CallbackReturnsRows ==
  ASSUME TypeOK, Structure, RowInv, NEW t \in Threads, CallbackReturns(t)
  PROVE  RowInv' /\ (called' # called => called' = NextCall(called))
  <1>1. /\ thread[t] = "callback" /\ \A u \in Threads : u # t => thread[u] # "callback"
        /\ UNCHANGED <<thread_queue, row, rows, report, reports, destroy>>
    BY OnlyThread DEF CallbackReturns, Alive, destroyVars
  <1> DEFINE n == row[t]
             i == position[t]
  <1>2. /\ n = called[1] /\ i = called[2] /\ n # 0 /\ i \in 1..Len(rows[n].calls)
        /\ called[1] <= Len(rows)
    BY <1>1 DEF RowInv, QueueInv
  <1>3. /\ n \in 1..Len(rows) /\ Len(rows[n].calls) \in Nat /\ i \in Nat
        /\ called = <<n, i>> /\ Len(rows) \in Nat
    BY <1>2, RowTypes
  <1>4. ASSUME i < Len(rows[n].calls), position' = [position EXCEPT ![t] = i + 1],
               Call(n, i + 1), UNCHANGED thread
        PROVE  RowInv' /\ called' = NextCall(called)
    <2>1. i + 1 \in 1..Len(rows[n].calls) /\ i # Len(rows[n].calls)
      BY <1>3, <1>4
    <2>2. rows[n].list # 0 => rows[n].list \in lists
      BY <1>1, <1>2, <1>3, <2>1
      DEF RowInv, RowsAreShaped, Shape, ListsAreKept, ContextIsLive
    <2>3. /\ called' = <<n, i + 1>>
          /\ \A p \in Processes : report[p].at = "add" /\ report[p].row.list # 0
               => report[p].row.list \in lists'
          /\ \A j \in 1..Len(rows) : j # n /\ rows[j].list # 0 /\ rows[j].list \in lists
               => rows[j].list \in lists'
          /\ rows[n].calls[i + 1] # DestroyList /\ rows[n].list # 0 => rows[n].list \in lists'
      BY <1>1, <1>3, <1>4, <2>1, <2>2, CallKeepsLists
    <2>4. called'[1] = n /\ called'[2] = i + 1 /\ position'[t] = i + 1
      BY <1>4, <2>3 DEF TypeOK
    <2>5. RowsAreShaped' /\ ListsAreOwn'
      BY <1>1 DEF RowInv, RowsAreShaped, ListsAreOwn, Holds
    <2>6. QueueInv'
      <3>1. /\ destroy # "done" => n + Len(thread_queue) = Len(rows)
            /\ \A k \in 1..Len(thread_queue) : thread_queue[k] = n + k
            /\ n <= Len(rows)
        BY <1>2 DEF RowInv, QueueInv
      <3> QED
        BY <1>1, <1>2, <1>4, <2>1, <2>4, <3>1 DEF QueueInv
    <2>7. ListsAreKept'
      <3>1. \A k \in 1..Len(rows) : n < k /\ rows[k].list # 0 => rows[k].list \in lists'
        <4> SUFFICES ASSUME NEW k \in 1..Len(rows), n < k, rows[k].list # 0
                     PROVE  rows[k].list \in lists'
          OBVIOUS
        <4>1. k # n
          BY <1>3
        <4> QED
          BY <1>2, <2>3, <4>1 DEF RowInv, ListsAreKept
      <3>2. ContextIsLive'
        BY <1>1, <1>4, <2>3, <2>4 DEF ContextIsLive
      <3> QED
        BY <1>1, <2>3, <2>4, <3>1, <3>2 DEF ListsAreKept
    <2>8. called' = NextCall(called)
      <3>1. called[1] # 0 /\ called[2] < Len(rows[called[1]].calls)
        BY <1>2, <1>4
      <3> QED
        BY <1>2, <2>3, <3>1 DEF NextCall
    <2> QED
      BY <2>5, <2>6, <2>7, <2>8 DEF RowInv
  <1>5. ASSUME i = Len(rows[n].calls), thread' = [thread EXCEPT ![t] = "get"],
               UNCHANGED <<position, called, lists>>
        PROVE  RowInv'
    <2>1. \A u \in Threads : thread'[u] # "callback"
      BY <1>1, <1>5 DEF TypeOK
    <2>2. RowsAreShaped' /\ ListsAreOwn'
      BY <1>1 DEF RowInv, RowsAreShaped, ListsAreOwn, Holds
    <2>3. QueueInv'
      <3>1. called[2] = Len(rows[called[1]].calls)
        BY <1>2, <1>5
      <3>2. /\ destroy # "done" => called[1] + Len(thread_queue) = Len(rows)
            /\ \A k \in 1..Len(thread_queue) : thread_queue[k] = called[1] + k
            /\ called[1] <= Len(rows)
        BY DEF RowInv, QueueInv
      <3> QED
        BY <1>1, <1>5, <2>1, <3>1, <3>2 DEF QueueInv
    <2>4. ListsAreKept'
      BY <1>1, <1>5, <2>1 DEF RowInv, ListsAreKept, ContextIsLive
    <2> QED
      BY <2>2, <2>3, <2>4 DEF RowInv
  <1> QED
    BY <1>4, <1>5 DEF CallbackReturns

LEMMA ThreadStepRows ==
  ASSUME TypeOK, Structure, RowInv, NEW t \in Threads, ThreadStep(t)
  PROVE  RowInv' /\ (called' # called => called' = NextCall(called))
  <1>1. ASSUME GetRow(t) \/ WakeUp(t)
        PROVE  RowInv' /\ (called' # called => called' = NextCall(called))
    <2>1. thread[t] \in {"get", "wait"} /\ UNCHANGED <<report, destroy, rows, reports>>
      BY <1>1 DEF GetRow, WakeUp, destroyVars
    <2>2. CASE TakeRow(t)
      BY <2>1, <2>2, TakeRowRows
    <2>3. ASSUME NEW next \in {"wait", "finish"}, FindNothing(t, next)
          PROVE  RowInv' /\ called' = called
      <3>1. /\ UNCHANGED <<thread_queue, row, position, called, lists>>
            /\ thread' = [thread EXCEPT ![t] = next]
        BY <2>3 DEF FindNothing
      <3>2. \A u \in Threads : thread'[u] = "callback" <=> thread[u] = "callback"
        BY <2>1, <3>1, ShapesOfTypeOK
      <3> QED
        BY <2>1, <3>1, <3>2, RowsKept
    <2> QED
      BY <1>1, <2>2, <2>3 DEF GetRow, WakeUp
  <1>2. ASSUME FinishThread(t) PROVE RowInv' /\ called' = called
    <2>1. \A u \in Threads : thread'[u] = "callback" <=> thread[u] = "callback"
      BY <1>2, ShapesOfTypeOK DEF FinishThread
    <2> QED
      BY <1>2, <2>1, RowsKept DEF FinishThread, destroyVars
  <1> QED
    BY <1>1, <1>2, CallbackReturnsRows DEF ThreadStep

LEMMA InitRows == Init => RowInv
  <1> SUFFICES ASSUME Init PROVE RowInv
    OBVIOUS
  <1>1. /\ Len(rows) = 0 /\ Len(thread_queue) = 0 /\ called[1] = 0
        /\ \A t \in Threads : thread[t] # "callback"
        /\ \A p \in Processes : report[p].at = "idle"
    BY DEF Init, Idle
  <1>2. RowsAreShaped /\ ListsAreOwn
    BY <1>1 DEF RowsAreShaped, ListsAreOwn, Holds
  <1>3. QueueInv
    BY <1>1 DEF QueueInv
  <1>4. ListsAreKept
    BY <1>1 DEF ListsAreKept, ContextIsLive
  <1> QED
    BY <1>2, <1>3, <1>4 DEF RowInv

LEMMA NextRows ==
  ASSUME IInv, RowInv, [Next]_vars
  PROVE  RowInv' /\ (called' # called => called' = NextCall(called))
  <1>1. TypeOK /\ ReportsAreTyped /\ Structure
    BY DEF IInv, Structure
  <1>2. ASSUME UNCHANGED vars PROVE RowInv' /\ called' = called
    BY <1>2, RowsKept DEF vars, workVars, destroyVars
  <1>3. ASSUME NEW p \in Processes,
               \/ \E e \in Events, f \in Callbacks : EventSystem_AddEventCallback(p, e, f)
               \/ \E e \in Events : EventSystem_ReportEvent(p, e)
        PROVE  RowInv' /\ called' = called
    <2>1. RowInv'
      BY <1>1, <1>3, AddEventCallbackRows, ReportEventRows
    <2> QED
      BY <1>3, <2>1 DEF EventSystem_AddEventCallback, EventSystem_ReportEvent, workVars
  <1>4. ASSUME NEW p \in Processes, ReportStep(p) PROVE RowInv' /\ called' = called
    <2>1. RowInv'
      BY <1>1, <1>4, CopyCallbacksRows, QueueRowRows, ChangeThreadRows DEF ReportStep
    <2> QED
      BY <1>4, <2>1
      DEF ReportStep, CopyCallbacks, QueueRow, ChangeThread, JoinDestroyed, workVars
  <1>5. ASSUME (\E c \in Clients : EventSystem_Destroy(c)) \/ DestroyStep
        PROVE  RowInv' /\ called' = called
    <2>1. RowInv'
      BY <1>1, <1>5, DestroyRows DEF DestroyStep
    <2> QED
      BY <1>5, <2>1
      DEF EventSystem_Destroy, DestroyStep, CopyHandles, JoinHandles, workVars
  <1>6. ASSUME NEW t \in Threads, ThreadStep(t)
        PROVE  RowInv' /\ (called' # called => called' = NextCall(called))
    BY <1>1, <1>6, ThreadStepRows
  <1> QED
    BY <1>2, <1>3, <1>4, <1>5, <1>6 DEF Next

\* A callback that is given a module list finds it in memory, however its row was
\* made, threads change and other reports fail: only the last callback of the row
\* releases the list, and no other row has it.
THEOREM ContextsAreLive == Spec => []ContextIsLive
  <1>1. Init => IInv /\ RowInv
    BY InitInv, InitRows
  <1>2. IInv /\ RowInv /\ [Next]_vars => (IInv /\ RowInv)'
    BY NextInv, NextRows
  <1>3. IInv /\ RowInv => ContextIsLive
    BY DEF RowInv, ListsAreKept
  <1> QED
    BY <1>1, <1>2, <1>3, PTL DEF Spec

\* Callbacks are called once each, in the order of the events and of registration,
\* across all the threads that ever call them.
THEOREM CallsInOrder == Spec => CalledInOrder
  <1>1. Init => IInv /\ RowInv
    BY InitInv, InitRows
  <1>2. IInv /\ RowInv /\ [Next]_vars => (IInv /\ RowInv)'
    BY NextInv, NextRows
  <1>3. IInv /\ RowInv /\ [Next]_vars => [called' # called => called' = NextCall(called)]_vars
    BY NextRows
  <1> QED
    BY <1>1, <1>2, <1>3, PTL DEF Spec, CalledInOrder

=============================================================================
