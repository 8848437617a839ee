----------------------------- MODULE QueueClient -----------------------------
(***************************************************************************)
(* The callers of lib/generation_queue_client.py over the task table: an   *)
(* agent tool enqueues a batch one spec after the other, resolving a       *)
(* dependency to the task it has just made, and then waits for all tasks   *)
(* at once, each with a time limit and a limit on the worker's absence.    *)
(*                                                                         *)
(* A spec is a key of the queue (resource and task type).  The worker and  *)
(* the users are the actions of TaskQueue; time passes without a clock: a  *)
(* limit may be reached whenever a task has not ended yet.                 *)
(***************************************************************************)
EXTENDS TaskQueue, Sequences

CONSTANTS
    Callers,
    BatchOf,      \* the keys a caller enqueues, in order
    After,        \* dependency_resource_id of a key, or None
    MaxCalls,     \* bound on calls of one caller
    MaxOutages    \* bound on the worker's absences

ASSUME ClientAssumption ==
    /\ BatchOf \in [Callers -> Seq(Keys)]
    /\ After \in [Keys -> Keys \cup {None}]
    /\ MaxCalls \in Nat /\ MaxOutages \in Nat

VARIABLES
    online,       \* the worker's lease has not expired
    outages,
    phase,        \* where a caller is in batch_enqueue_and_wait
    taskIds,      \* task_ids: the task a caller holds for a key
    answer,       \* the BatchTaskResult of a key; "gave_up" reads failed
    calls

batchVars   == <<phase, taskIds, answer, calls>>
callerVars == <<online, outages, phase, taskIds, answer, calls>>

Answers == {"none", "gave_up"} \cup Terminal

BatchTypeOK ==
    /\ TypeOK
    /\ online \in BOOLEAN /\ outages \in 0..MaxOutages
    /\ phase \in [Callers -> {"check", "enqueue", "wait", "done", "raised"}]
    /\ taskIds \in [Callers -> [Keys -> Tasks \cup {None}]]
    /\ answer \in [Callers -> [Keys -> Answers]]
    /\ calls \in [Callers -> 0..MaxCalls]

NoTasks == [k \in Keys |-> None]
BatchInit ==
    /\ Init
    /\ online \in BOOLEAN /\ outages = 0
    /\ phase = [c \in Callers |-> "done"]
    /\ taskIds = [c \in Callers |-> NoTasks]
    /\ answer = [c \in Callers |-> [k \in Keys |-> "none"]]
    /\ calls = [c \in Callers |-> 0]

Goes(c, p) == phase' = [phase EXCEPT ![c] = p]
KeysOf(c) == {BatchOf[c][i] : i \in DOMAIN BatchOf[c]}
Left(c) == SelectSeq(BatchOf[c], LAMBDA k : taskIds[c][k] = None)

-----------------------------------------------------------------------------
CallBatch(c) ==
    /\ phase[c] \in {"done", "raised"} /\ calls[c] < MaxCalls
    /\ Goes(c, "check") /\ calls' = [calls EXCEPT ![c] = @ + 1]
    /\ taskIds' = [taskIds EXCEPT ![c] = NoTasks]
    /\ answer' = [answer EXCEPT ![c] = [k \in Keys |-> "none"]]
    /\ UNCHANGED <<queueVars, online, outages>>

\* enqueue_task_only: is_worker_online, for every spec; the exception leaves
\* batch_enqueue_and_wait, whatever it has enqueued by then.
CheckOnline(c) ==
    /\ phase[c] = "check"
    /\ Goes(c, IF Left(c) = <<>> THEN "wait" ELSE IF online THEN "enqueue" ELSE "raised")
    /\ UNCHANGED <<queueVars, online, outages, taskIds, answer, calls>>

\* Its second half; an active task of the same key is handed out again.
EnqueueSpec(c, t) ==
    LET k == Head(Left(c))
        d == IF After[k] = None THEN None ELSE taskIds[c][After[k]]
    IN  /\ phase[c] = "enqueue" /\ KeyOf[t] = k
        /\ Enqueue(t, d) \/ (status[t] \in Active /\ UNCHANGED queueVars)
        /\ taskIds' = [taskIds EXCEPT ![c][k] = t]
        /\ Goes(c, "check")
        /\ UNCHANGED <<online, outages, answer, calls>>

Waiting(c, k) == phase[c] = "wait" /\ k \in KeysOf(c) /\ answer[c][k] = "none"
Answered(c, k, a) ==
    /\ answer' = [answer EXCEPT ![c][k] = a]
    /\ UNCHANGED <<queueVars, online, outages, phase, taskIds, calls>>

SeeEnd(c, k) ==
    /\ Waiting(c, k) /\ status[taskIds[c][k]] \in Terminal
    /\ Answered(c, k, status[taskIds[c][k]])

\* Mutant: the wait looks at the worker only, and has no limit of its own.
GiveUpOffline(c, k) ==
    /\ Waiting(c, k) /\ status[taskIds[c][k]] \notin Terminal /\ ~online
    /\ Answered(c, k, "gave_up")

\* TaskWaitTimeoutError, or WorkerOfflineError: reported as a failed task.
GiveUp(c, k) ==
    /\ Waiting(c, k) /\ status[taskIds[c][k]] \notin Terminal
    /\ Answered(c, k, "gave_up")

Return(c) ==
    /\ phase[c] = "wait" /\ \A k \in KeysOf(c) : answer[c][k] # "none"
    /\ Goes(c, "done")
    /\ UNCHANGED <<queueVars, online, outages, taskIds, answer, calls>>

-----------------------------------------------------------------------------
(* The others: the worker while it is there, the users, the outages.       *)

WorkerActs ==
    /\ online
    /\ \/ \E t \in Tasks, lane \in Lanes : PickNext(t, lane, {})
       \/ \E t \in Tasks : ClaimPicked(t) \/ MarkSucceeded(t) \/ MarkFailed(t)
    /\ UNCHANGED callerVars

\* cancel_task, and the worker's answer to a cancelling task.
UserActs ==
    /\ \E t \in Tasks : \/ CancelTask(t, status[t])
                        \/ online /\ status[t] = "cancelling" /\ FinalizeCancelled(t)
    /\ UNCHANGED callerVars

WorkerLeaves ==
    /\ online /\ outages < MaxOutages /\ outages' = outages + 1 /\ online' = FALSE
    /\ UNCHANGED <<queueVars, batchVars>>
WorkerReturns == ~online /\ online' = TRUE /\ UNCHANGED <<queueVars, outages, batchVars>>

BatchStep(c) ==
    \/ CheckOnline(c) \/ Return(c)
    \/ \E t \in Tasks : EnqueueSpec(c, t)
    \/ \E k \in Keys : SeeEnd(c, k) \/ GiveUp(c, k)

BatchNext ==
    \/ \E c \in Callers : CallBatch(c) \/ BatchStep(c)
    \/ WorkerActs \/ UserActs \/ WorkerLeaves \/ WorkerReturns

\* A call goes on as long as it can: its waits poll and watch the clock.
\* Nothing is assumed of the worker, which may never come back.
BatchFair == \A c \in Callers : WF_<<queueVars, callerVars>>(BatchStep(c))
BatchSpec == BatchInit /\ [][BatchNext]_<<queueVars, callerVars>> /\ BatchFair

-----------------------------------------------------------------------------
(* Properties.                                                             *)

\* The calls of batch_enqueue_and_wait come back, though the worker may be
\* away for ever, and though a spec may have been enqueued behind a task that
\* had failed by then and will never be claimed (no cascade reaches it).
Returned == \A c \in Callers : phase[c] \in {"done", "raised"}
BatchReturns == ~Returned ~> Returned
=============================================================================
