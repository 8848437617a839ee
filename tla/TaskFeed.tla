------------------------------ MODULE TaskFeed ------------------------------
(***************************************************************************)
(* The event stream of tasks (server/routers/tasks.py, stream_tasks) over  *)
(* the table task_events: writers that take an event id at their flush and *)
(* show it at their commit, and a client that has a snapshot of the tasks  *)
(* and follows the events behind its cursor.                               *)
(*                                                                         *)
(* A task's state is the number of its transitions.  SQLite admits one     *)
(* writing transaction at a time; with PostgreSQL writers of different     *)
(* tasks overlap.                                                          *)
(***************************************************************************)
EXTENDS Naturals

CONSTANTS
    FeedTasks,
    MaxEvents     \* bound on event ids

ASSUME FeedAssumption == MaxEvents \in Nat

VARIABLES
    database,
    row,          \* the committed state of a task
    events,       \* the committed rows of task_events
    nextEventId,
    open,         \* the id a task's writing transaction has taken, or 0
    silent,       \* tasks whose last change wrote no event
    stream,       \* program point of the stream
    cursor,
    view,         \* the client's state of the tasks
    overtaken     \* tasks whose event came to light behind the cursor

writerVars == <<database, row, events, nextEventId, open, silent>>
readerVars == <<stream, cursor, view>>
feedVars   == <<writerVars, readerVars, overtaken>>

EventIds == 1..MaxEvents
Event == [id : EventIds, task : FeedTasks, state : Nat]

FeedTypeOK ==
    /\ database \in {"sqlite", "postgresql"}
    /\ row \in [FeedTasks -> Nat] /\ events \subseteq Event
    /\ nextEventId \in 1..MaxEvents + 1 /\ open \in [FeedTasks -> 0..MaxEvents]
    /\ silent \subseteq FeedTasks /\ overtaken \subseteq FeedTasks
    /\ stream \in {"off", "tasks", "stream"}
    /\ cursor \in 0..MaxEvents /\ view \in [FeedTasks -> Nat]

FeedInit ==
    /\ database \in {"sqlite", "postgresql"}
    /\ row = [t \in FeedTasks |-> 0] /\ events = {} /\ nextEventId = 1
    /\ open = [t \in FeedTasks |-> 0] /\ silent = {} /\ overtaken = {}
    /\ stream = "off" /\ cursor = 0 /\ view = [t \in FeedTasks |-> 0]

\* get_latest_event_id
Latest == CHOOSE n \in 0..MaxEvents :
             /\ n = 0 \/ \E e \in events : e.id = n
             /\ \A e \in events : e.id <= n

-----------------------------------------------------------------------------
(* Writers: a transition with _append_event, and one without.              *)

MayWrite(t) == IF database = "sqlite" THEN \A u \in FeedTasks : open[u] = 0
               ELSE open[t] = 0

AppendEvent(t) ==
    /\ MayWrite(t) /\ nextEventId <= MaxEvents
    /\ open' = [open EXCEPT ![t] = nextEventId] /\ nextEventId' = nextEventId + 1
    /\ UNCHANGED <<database, row, events, silent, readerVars, overtaken>>

CommitEvent(t) ==
    /\ open[t] # 0 /\ open' = [open EXCEPT ![t] = 0]
    /\ row' = [row EXCEPT ![t] = @ + 1]
    /\ events' = events \cup {[id |-> open[t], task |-> t, state |-> row[t] + 1]}
    /\ silent' = silent \ {t}
    /\ overtaken' = IF open[t] <= cursor THEN overtaken \cup {t} ELSE overtaken \ {t}
    /\ UNCHANGED <<database, nextEventId, readerVars>>

RollBack(t) ==
    /\ open[t] # 0 /\ open' = [open EXCEPT ![t] = 0]
    /\ UNCHANGED <<database, row, events, nextEventId, silent, readerVars, overtaken>>

\* _requeue_single_task, and the bulk cancel of a task it had not listed.
ChangeSilently(t) ==
    /\ MayWrite(t) /\ t \notin silent
    /\ row' = [row EXCEPT ![t] = @ + 1] /\ silent' = silent \cup {t}
    /\ UNCHANGED <<database, events, nextEventId, open, readerVars, overtaken>>

-----------------------------------------------------------------------------
(* The stream.  The latest id, the tasks and each batch of events are read *)
(* in transactions of their own.                                           *)

\* A client that resumes names an event it has seen.
Connect(seen) ==
    /\ stream = "off" /\ stream' = "tasks"
    /\ seen <= cursor
    /\ cursor' = IF seen > Latest THEN seen ELSE Latest
    /\ UNCHANGED <<writerVars, view, overtaken>>

ReadTasks ==
    /\ stream = "tasks" /\ stream' = "stream"
    /\ view' = row /\ overtaken' = {}
    /\ UNCHANGED <<writerVars, cursor>>

Unseen == {e \in events : e.id > cursor}

\* The client gets a prefix of what get_events_since has returned.
Delivered(n) == {e \in Unseen : e.id <= n}
Shown(D) ==
    view' = [t \in FeedTasks |->
                IF \E e \in D : e.task = t
                THEN (CHOOSE e \in D : e.task = t /\ \A f \in D : f.task = t => f.id <= e.id).state
                ELSE view[t]]

\* Mutant: the cursor follows the table, not the events that were sent.
ReadEventsAndSkip(n) ==
    /\ stream = "stream" /\ n \in {e.id : e \in Unseen}
    /\ Shown(Delivered(n)) /\ cursor' = Latest
    /\ UNCHANGED <<writerVars, stream, overtaken>>

ReadEvents(n) ==
    /\ stream = "stream" /\ n \in {e.id : e \in Unseen}
    /\ Shown(Delivered(n)) /\ cursor' = n
    /\ UNCHANGED <<writerVars, stream, overtaken>>

Disconnect ==
    /\ stream # "off" /\ stream' = "off"
    /\ UNCHANGED <<writerVars, cursor, view, overtaken>>

FeedNext ==
    \/ \E t \in FeedTasks : AppendEvent(t) \/ CommitEvent(t) \/ RollBack(t) \/ ChangeSilently(t)
    \/ \E seen \in 0..MaxEvents : Connect(seen)
    \/ ReadTasks \/ Disconnect
    \/ \E n \in EventIds : ReadEvents(n)

FeedSpec == FeedInit /\ [][FeedNext]_feedVars

-----------------------------------------------------------------------------
\* Once a client has been sent every event behind its cursor it shows every
\* task as it is: a snapshot read later than the id it starts from loses
\* nothing, nor does a resumed stream.  The exceptions are a change that wrote
\* no event and, with PostgreSQL only, an event that was committed behind the
\* cursor.
FeedConverges ==
    /\ database = "sqlite" => overtaken = {}
    /\ stream = "stream" /\ Unseen = {} =>
          \A t \in FeedTasks : view[t] = row[t] \/ t \in silent \cup overtaken
=============================================================================
