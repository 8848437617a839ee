------------------------------ MODULE TaskQueue ------------------------------
(***************************************************************************)
(* The task table of lib/db/repositories/task_repo.py.                     *)
(*                                                                         *)
(* Every public method of TaskRepository is one database transaction: an   *)
(* action is what a method does from its first UPDATE or INSERT to its     *)
(* commit, its cascades included, and its guard is the SQL WHERE clause.   *)
(* A SELECT before that sees an older table (sqlite3 opens a transaction   *)
(* at the first write, PostgreSQL reads what is committed): what it        *)
(* returned is an argument of the action or, for claim_next, the variable  *)
(* picked.  Next lets any caller issue any method at any time; who really  *)
(* calls what, and when, is the business of GenerationWorker.              *)
(*                                                                         *)
(* A member of Tasks is one enqueue request: its key, project, lane and    *)
(* persisted provider are the columns of the request, fixed for life.  Its *)
(* dependency is chosen when it is enqueued.  The provider_job_id column,  *)
(* which only the worker's resume logic reads, lives in GenerationWorker.  *)
(***************************************************************************)
EXTENDS Naturals

CONSTANTS
    Tasks,        \* the task ids (uuid4, never reused)
    Keys,         \* (project, task_type, resource_id, script_file) tuples
    Projects,
    Lanes,        \* media types
    Providers,
    None,         \* SQL NULL
    KeyOf, ProjectOf, LaneOf,
    ProviderOf    \* provider_id derived at enqueue time, None when underivable

ASSUME TaskAssumption ==
    /\ None \notin Tasks \cup Providers \cup {"user", "cascade"}
    /\ KeyOf \in [Tasks -> Keys]
    /\ ProjectOf \in [Tasks -> Projects]
    /\ LaneOf \in [Tasks -> Lanes]
    /\ ProviderOf \in [Tasks -> Providers \cup {None}]

VARIABLES
    status,       \* the status column; "absent" before the row is inserted
    dep,          \* dependency_task_id
    cancelledBy,  \* cancelled_by
    queuedAt,     \* queued_at, as the number of the enqueue
    clock,        \* the number of enqueues so far
    lastEvent,    \* status of the newest task_events row of the task
    picked        \* what claim_next has selected and not yet updated

queueVars == <<status, dep, cancelledBy, queuedAt, clock, lastEvent, picked>>

Active   == {"queued", "running", "cancelling"}   \* ACTIVE_TASK_STATUSES
Terminal == {"succeeded", "failed", "cancelled"}
Status   == {"absent"} \cup Active \cup Terminal
Attribution == {None, "user", "cascade"}

TypeOK ==
    /\ status \in [Tasks -> Status]
    /\ dep \in [Tasks -> Tasks \cup {None}]
    /\ cancelledBy \in [Tasks -> Attribution]
    /\ queuedAt \in [Tasks -> Nat]
    /\ clock \in Nat
    /\ lastEvent \in [Tasks -> Status]
    /\ picked \in Tasks \cup {None}

Init ==
    /\ status = [t \in Tasks |-> "absent"]
    /\ dep = [t \in Tasks |-> None]
    /\ cancelledBy = [t \in Tasks |-> None]
    /\ queuedAt = [t \in Tasks |-> 0]
    /\ clock = 0
    /\ lastEvent = [t \in Tasks |-> "absent"]
    /\ picked = None

-----------------------------------------------------------------------------
(* Helpers shared by the transactions.                                     *)

\* Mutant: the index forgets that cancelling tasks are active.
KeyIsFreeOfCancelling(t) ==
    \A u \in Tasks : KeyOf[u] = KeyOf[t] => status[u] \notin {"queued", "running"}

\* The partial unique index idx_tasks_dedupe_active.
KeyIsFree(t) == \A u \in Tasks : KeyOf[u] = KeyOf[t] => status[u] \notin Active

DependencyMet(t) == dep[t] = None \/ (dep[t] \in Tasks /\ status[dep[t]] = "succeeded")

\* Both cascades walk from task to queued dependents, and on from each queued
\* dependent they end: the tasks they reach are the smallest set that holds
\* the queued dependents of t and of its own members.
ReachedBelow(t, S) ==
    \A v \in Tasks : status[v] = "queued" /\ dep[v] \in S \cup {t} => v \in S

\* Mutant: a cascade that does not recurse.
QueuedDependents(t) == {u \in Tasks : status[u] = "queued" /\ dep[u] = t}

QueuedBelow(t) ==
    {u \in Tasks : \A S \in SUBSET Tasks : ReachedBelow(t, S) => u \in S}

\* Every transition appends one task_events row that carries the new status.
Publish == lastEvent' = [t \in Tasks |-> IF status'[t] # status[t] THEN status'[t] ELSE lastEvent[t]]

\* All tasks of S take status s; nothing else in the table moves.
SetStatus(S, s) == status' = [u \in Tasks |-> IF u \in S THEN s ELSE status[u]]

-----------------------------------------------------------------------------
(* enqueue: a fresh row, unless an active task already holds its key (then *)
(* the caller gets that task back and nothing is written).  Callers name   *)
(* as dependency a task of the same project they enqueued before           *)
(* (batch_enqueue_and_wait); its status is not looked at.                  *)
Enqueue(t, d) ==
    /\ status[t] = "absent"
    /\ KeyIsFree(t)
    /\ d = None \/ (d \in Tasks /\ status[d] # "absent" /\ ProjectOf[d] = ProjectOf[t])
    /\ status' = [status EXCEPT ![t] = "queued"]
    /\ dep' = [dep EXCEPT ![t] = d]
    /\ clock' = clock + 1
    /\ queuedAt' = [queuedAt EXCEPT ![t] = clock + 1]
    /\ Publish
    /\ UNCHANGED <<cancelledBy, picked>>

\* Mutant: the claim query does not look at the dependency.
ClaimableBlindly(t, lane, full) ==
    /\ status[t] = "queued"
    /\ LaneOf[t] = lane
    /\ ProviderOf[t] = None \/ ProviderOf[t] \notin full

\* The WHERE clause of claim_next's SELECT.
Claimable(t, lane, full) ==
    /\ status[t] = "queued"
    /\ LaneOf[t] = lane
    /\ ProviderOf[t] = None \/ ProviderOf[t] \notin full
    /\ DependencyMet(t)

\* Mutant: the claim query has no ORDER BY.
PickAny(t, lane, full) ==
    /\ picked = None
    /\ Claimable(t, lane, full)
    /\ picked' = t
    /\ UNCHANGED <<status, dep, cancelledBy, queuedAt, clock, lastEvent>>

(* claim_next, its SELECT: the oldest claimable task of the lane.  There   *)
(* is one worker, so one claim at a time.                                  *)
PickNext(t, lane, full) ==
    /\ picked = None
    /\ Claimable(t, lane, full)
    /\ \A u \in Tasks : Claimable(u, lane, full) => queuedAt[t] <= queuedAt[u]
    /\ picked' = t
    /\ UNCHANGED <<status, dep, cancelledBy, queuedAt, clock, lastEvent>>

\* Mutant: the claim's UPDATE has no status guard.
ClaimPickedBlindly(t) ==
    /\ picked = t
    /\ status' = [status EXCEPT ![t] = "running"]
    /\ Publish
    /\ picked' = None
    /\ UNCHANGED <<dep, cancelledBy, queuedAt, clock>>

(* claim_next, its UPDATE: the task starts running unless it has left the  *)
(* queue since it was selected; then nothing is claimed.                   *)
ClaimPicked(t) ==
    /\ picked = t
    /\ status' = [status EXCEPT ![t] = IF @ = "queued" THEN "running" ELSE @]
    /\ Publish
    /\ picked' = None
    /\ UNCHANGED <<dep, cancelledBy, queuedAt, clock>>

(* The claim fails between the two.                                        *)
AbandonClaim ==
    /\ picked' = None
    /\ UNCHANGED <<status, dep, cancelledBy, queuedAt, clock, lastEvent>>

(* mark_succeeded, when its UPDATE ... WHERE status='running' hits the row. *)
MarkSucceeded(t) ==
    /\ status[t] = "running"
    /\ status' = [status EXCEPT ![t] = "succeeded"]
    /\ Publish
    /\ UNCHANGED <<dep, cancelledBy, queuedAt, clock, picked>>

\* Mutant: mark_failed without its cascade.
MarkFailedAlone(t) ==
    /\ status[t] = "running"
    /\ SetStatus({t}, "failed")
    /\ Publish
    /\ UNCHANGED <<dep, cancelledBy, queuedAt, clock, picked>>

(* mark_failed: the task, and below it every queued dependent.             *)
MarkFailed(t) ==
    /\ status[t] = "running"
    /\ SetStatus({t} \cup QueuedBelow(t), "failed")
    /\ Publish
    /\ UNCHANGED <<dep, cancelledBy, queuedAt, clock, picked>>

\* Running tasks that depend directly on a task of S.
RunningDependents(S) == {u \in Tasks : status[u] = "running" /\ dep[u] \in S}

(* _mark_cancelled with its cascade: t and the queued tasks below it are   *)
(* cancelled, running dependents become cancelling; cancelled_by is        *)
(* COALESCEd, so that an attribution already written stays.                *)
MarkCancelled(t, by) ==
    LET ended    == {t} \cup QueuedBelow(t)
        stopping == RunningDependents(ended) \ ended
        author(u) == IF u = t THEN by ELSE "cascade"
    IN  /\ status[t] \in Active
        /\ status' = [u \in Tasks |-> IF u \in ended THEN "cancelled"
                                      ELSE IF u \in stopping THEN "cancelling"
                                      ELSE status[u]]
        /\ cancelledBy' = [u \in Tasks |->
               IF u \in ended \cup stopping /\ cancelledBy[u] = None
               THEN author(u) ELSE cancelledBy[u]]
        /\ Publish
        /\ UNCHANGED <<dep, queuedAt, clock, picked>>

\* Mutant: a running task is cancelled at once, as a queued one is.
MarkCancelledAtOnce(t, by) ==
    /\ status[t] = "running"
    /\ status' = [status EXCEPT ![t] = "cancelled"]
    /\ cancelledBy' = [cancelledBy EXCEPT ![t] = by]
    /\ Publish
    /\ UNCHANGED <<dep, queuedAt, clock, picked>>

(* _mark_cancelling: the intermediate state; dependents wait for the end.  *)
MarkCancelling(t, by) ==
    /\ status[t] = "running"
    /\ status' = [status EXCEPT ![t] = "cancelling"]
    /\ cancelledBy' = [cancelledBy EXCEPT ![t] = by]
    /\ Publish
    /\ UNCHANGED <<dep, queuedAt, clock, picked>>

\* Mutant: a cancel that writes an attribution the column does not know.
CancelTaskByTimeout(t, seen) == seen = status[t] /\ MarkCancelling(t, "timeout")

(* cancel_task: dispatch on the status its SELECT saw.  The UPDATE of a    *)
(* task seen queued accepts it running or cancelling as well.              *)
CancelTask(t, seen) ==
    \/ seen = "queued" /\ MarkCancelled(t, "user")
    \/ seen = "running" /\ MarkCancelling(t, "user")

(* finalize_cancelled, every caller of which passes cancelled_by='user'.   *)
FinalizeCancelled(t) == MarkCancelled(t, "user")

\* The running tasks a MarkCancelled(t, _) turns to cancelling: what
\* finalize_cancelled and cancel_task hand to the in-process callback.
CascadedRunning(t) == RunningDependents({t} \cup QueuedBelow(t)) \ {t}

\* Mutant: every task of the list is announced as cancelled.
CancelAllQueuedLoudly(p, listed) ==
    LET hit == {u \in Tasks : ProjectOf[u] = p /\ status[u] = "queued"}
    IN  /\ hit # {}
        /\ SetStatus(hit, "cancelled")
        /\ cancelledBy' = [u \in Tasks |-> IF u \in hit THEN "user" ELSE cancelledBy[u]]
        /\ lastEvent' = [u \in Tasks |-> IF u \in listed THEN "cancelled" ELSE lastEvent[u]]
        /\ UNCHANGED <<dep, queuedAt, clock, picked>>

(* cancel_all_queued: one bulk UPDATE over the project; events only for    *)
(* the tasks its SELECT had listed and that are cancelled now.             *)
CancelAllQueued(p, listed) ==
    LET hit == {u \in Tasks : ProjectOf[u] = p /\ status[u] = "queued"}
    IN  /\ hit # {}
        /\ SetStatus(hit, "cancelled")
        /\ cancelledBy' = [u \in Tasks |-> IF u \in hit THEN "user" ELSE cancelledBy[u]]
        /\ lastEvent' = [u \in Tasks |-> IF u \in listed /\ status'[u] = "cancelled"
                                         THEN "cancelled" ELSE lastEvent[u]]
        /\ UNCHANGED <<dep, queuedAt, clock, picked>>

(* The worker's _requeue_single_task: its own UPDATE, and no event.        *)
RequeueSingle(t) ==
    /\ status[t] = "running"
    /\ status' = [status EXCEPT ![t] = "queued"]
    /\ UNCHANGED <<dep, cancelledBy, queuedAt, clock, lastEvent, picked>>

(* requeue_running, the manual rescue tool: of the tasks its SELECT had    *)
(* listed, those still running; events for those queued now.               *)
RequeueRunning(listed) ==
    LET hit == {u \in listed : status[u] = "running"}
    IN  /\ hit # {}
        /\ SetStatus(hit, "queued")
        /\ lastEvent' = [u \in Tasks |-> IF u \in listed /\ status'[u] = "queued"
                                         THEN "queued" ELSE lastEvent[u]]
        /\ UNCHANGED <<dep, cancelledBy, queuedAt, clock, picked>>

-----------------------------------------------------------------------------
\* The rows a SELECT may have returned to a call that writes now.
Rows == {u \in Tasks : status[u] # "absent"}

Next ==
    \/ \E t \in Tasks, d \in Tasks \cup {None} : Enqueue(t, d)
    \/ \E t \in Tasks, lane \in Lanes, full \in SUBSET Providers : PickNext(t, lane, full)
    \/ \E t \in Tasks : ClaimPicked(t)
    \/ AbandonClaim
    \/ \E t \in Tasks : MarkSucceeded(t)
    \/ \E t \in Tasks : MarkFailed(t)
    \/ \E t \in Tasks, seen \in {"queued", "running"} : CancelTask(t, seen)
    \/ \E t \in Tasks : FinalizeCancelled(t)
    \/ \E p \in Projects, listed \in SUBSET Rows : CancelAllQueued(p, listed)
    \/ \E t \in Tasks : RequeueSingle(t)
    \/ \E listed \in SUBSET Rows : RequeueRunning(listed)

Spec == Init /\ [][Next]_queueVars

-----------------------------------------------------------------------------
(* Safety.                                                                 *)

\* At most one active task per (project, type, resource, script): a second
\* enqueue is deduplicated even while the first one is being cancelled, and
\* no requeue brings a second one back (idx_tasks_dedupe_active).
OneActivePerKey ==
    \A t, u \in Tasks :
        t # u /\ KeyOf[t] = KeyOf[u] => ~(status[t] \in Active /\ status[u] \in Active)

Started(t) == status[t] \in {"running", "cancelling", "succeeded"}

\* A task that has started had its dependency succeed first, whatever
\* cancels, failures and requeues came in between.
RunsAfterDependency == \A t \in Tasks : Started(t) => DependencyMet(t)

\* cancelled_by is written exactly on the tasks somebody asked to stop:
\* _mark_cancelling and _mark_cancelled, and no later transition, touch it.
CancelAttributed ==
    \A t \in Tasks : cancelledBy[t] # None <=> status[t] \in {"cancelling", "cancelled"}

\* The event feed invents nothing and loses almost nothing: it is behind the
\* table only for a task the worker put back silently, and for one that a bulk
\* cancel ended without having listed it.
FeedLagsOnlySilently ==
    \A t \in Tasks : lastEvent[t] # status[t] =>
        /\ lastEvent[t] \in {"queued", "running"}
        /\ \/ lastEvent[t] = "running" /\ status[t] = "queued"
           \/ status[t] = "cancelled" /\ cancelledBy[t] = "user"

\* Cascades never meet a running dependent: a task that runs had its
\* dependency succeed, and a task that succeeded can neither fail nor be
\* cancelled.  So the branch of _cascade_cancel_dependents that turns running
\* dependents to cancelling, and the callbacks it asks for, never apply.
NothingRunningToCascadeTo ==
    \A t \in Tasks : status[t] \in Active => CascadedRunning(t) = {}

\* Nothing queued waits for a task that was cancelled: the downstream tasks
\* of a cancelled task are cancelled with it (CONTEXT.md, cancelled_by).
NoWaitOnCancelled ==
    \A t \in Tasks :
        status[t] = "queued" /\ dep[t] \in Tasks => status[dep[t]] # "cancelled"

-----------------------------------------------------------------------------
(* What no step may do.                                                    *)

\* A cancel request wins: nothing leads from cancelling anywhere but to
\* cancelled, no terminal state is left, and who cancelled a task is never
\* rewritten (the WHERE guards and the COALESCE of the repository).
CancelWinsStep ==
    \A t \in Tasks :
        /\ status[t] = "cancelling" => status'[t] \in {"cancelling", "cancelled"}
        /\ status[t] \in Terminal => status'[t] = status[t]
        /\ cancelledBy[t] # None => cancelledBy'[t] = cancelledBy[t]
CancelWins == [][CancelWinsStep]_queueVars

\* When a task fails or is cancelled, every task that was queued behind it
\* ends in the same transaction, and a queued task fails only together with
\* the task it waits for.
EndsWithDependency ==
    \A t \in Tasks :
        status[t] = "queued" =>
            /\ /\ dep[t] \in Tasks
               /\ status[dep[t]] \in Active
               /\ status'[dep[t]] \in {"failed", "cancelled"}
               => status'[t] = "cancelled" \/ status'[t] = status'[dep[t]]
            /\ status'[t] = "failed" => dep[t] \in Tasks /\ status'[dep[t]] = "failed"
CascadeIsComplete == [][EndsWithDependency]_queueVars

\* FIFO: a task is picked only if no older task of its lane that is ready and
\* that the same pool could serve is still queued, and only picked tasks start.
NotOvertaken(t) ==
    \A u \in Tasks :
        /\ status[u] = "queued" /\ LaneOf[u] = LaneOf[t] /\ DependencyMet(u)
        /\ ProviderOf[u] \in {None, ProviderOf[t]}
        => queuedAt[t] <= queuedAt[u]
ClaimsInOrder ==
    [][\A t \in Tasks : /\ picked # t /\ picked' = t => NotOvertaken(t)
                        /\ status[t] # "running" /\ status'[t] = "running" => picked = t]_queueVars
=============================================================================
