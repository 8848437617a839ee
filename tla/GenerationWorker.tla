-------------------------- MODULE GenerationWorker --------------------------
(***************************************************************************)
(* The in-process worker of lib/generation_worker.py over the task table   *)
(* of TaskQueue: main loop, slot ledger, one coroutine per task, the       *)
(* cancel callback, the orphan scan of a restart and its dispatcher.       *)
(*                                                                         *)
(* An action is a piece of code between two awaits that yield to another   *)
(* coroutine, and commits at most one transaction.  A 0-rows UPDATE that   *)
(* the code answers by mark_task_cancelled is one action: the first of the *)
(* two transactions changes nothing.  The lease is always ours: one worker *)
(* lives in one server process (CONTEXT.md).                               *)
(***************************************************************************)
EXTENDS TaskQueue, FiniteSets, Sequences

CONSTANTS
    LaneOrder,     \* the order in which _claim_tasks visits the media types
    VideoLane,
    Resumable,     \* providers not in NON_RESUMABLE_VIDEO_PROVIDERS
    RoutesOf,      \* what _extract_provider may answer for a task
    CapTables,     \* capacity tables the configuration may hold
    MaxCalls,      \* bound on cancel_task calls between SELECT and UPDATE
    MaxRestarts,   \* bound on crashes and stops
    MaxFaults      \* bound on failing database calls

ASSUME WorkerAssumption ==
    /\ LaneOrder \in Seq(Lanes) /\ LaneOrder # <<>>
    /\ VideoLane \in Lanes \ {LaneOrder[1]}   \* "image" comes first
    /\ Resumable \subseteq Providers
    /\ RoutesOf \in [Tasks -> SUBSET Providers]
    /\ CapTables \subseteq [Providers -> [Lanes -> Nat]] /\ CapTables # {}
    /\ MaxCalls \in Nat /\ MaxRestarts \in Nat /\ MaxFaults \in Nat

VARIABLES
    worker,     \* where the main loop stands
    laneNo,     \* the lane _claim_tasks is at, an index of LaneOrder
    full,       \* pool_full as it was when the claim query was sent
    scanned,    \* _orphan_handled_once
    stop,       \* _stop_event
    held,       \* where the memory of the process holds a task
    pool,       \* the provider it is held under
    co,         \* program point of the coroutine of the task
    resumed,    \* tasks whose coroutine is a resume (_run_one)
    cancelReq,  \* coroutines with an undelivered asyncio cancellation
    signals,    \* committed cancels whose callback has not run yet
    semCap,     \* permits of the dispatcher's semaphore, per provider
    cap,        \* CapacityTable
    jobId,      \* tasks whose row has a provider_job_id
    bills,      \* how often the task was submitted to a provider (history)
    calls,      \* cancel_task calls that have read the row: <<task, status>>
    restarts, faults

loopVars  == <<worker, laneNo, full, scanned, stop>>
slotVars  == <<held, pool>>
coVars    == <<co, resumed, cancelReq>>
outerVars == <<jobId, bills, calls>>
boundVars == <<restarts, faults>>
workerVars == <<loopVars, slotVars, coVars, signals, semCap, cap, outerVars, boundVars>>
vars == <<queueVars, workerVars>>

LoopPoints == {"down", "scan", "recover", "top", "drain", "claim", "window", "stopping", "dead"}

\* inflight and pending are the two phases of a SlotTable occupant; the other
\* values are local variables of the main loop and of the dispatcher.
SlotPhases == {"pending", "inflight"}
Holdings == {"none", "claimed", "drained", "orphanRunning", "orphanCancelling",
             "bucket", "refused"} \cup SlotPhases

\* Done coroutines: asyncio.Task.done(), by return or exception or cancelled.
DonePoints == {"returned", "cancelled"}
LivePoints == {"created", "routing", "calling", "submitted", "polling", "waiting",
               "succeeding", "failing", "cancelling"}

WorkerTypeOK ==
    /\ TypeOK
    /\ worker \in LoopPoints
    /\ laneNo \in 1..Len(LaneOrder)
    /\ full \in SUBSET Providers
    /\ scanned \in BOOLEAN /\ stop \in BOOLEAN
    /\ held \in [Tasks -> Holdings]
    /\ pool \in [Tasks -> Providers \cup {None}]
    /\ co \in [Tasks -> {"none"} \cup LivePoints \cup DonePoints]
    /\ resumed \in SUBSET Tasks /\ cancelReq \in SUBSET Tasks /\ signals \in SUBSET Tasks
    /\ semCap \in [Providers -> Nat]
    /\ cap \in CapTables
    /\ jobId \in SUBSET Tasks
    /\ bills \in [Tasks -> Nat]
    /\ calls \subseteq Tasks \X {"queued", "running"}
    /\ restarts \in 0..MaxRestarts /\ faults \in 0..MaxFaults

WorkerInit ==
    /\ Init
    /\ worker = "down" /\ laneNo = 1 /\ full = {} /\ scanned = FALSE /\ stop = FALSE
    /\ held = [t \in Tasks |-> "none"]
    /\ pool = [t \in Tasks |-> None]
    /\ co = [t \in Tasks |-> "none"]
    /\ resumed = {} /\ cancelReq = {} /\ signals = {}
    /\ semCap = [p \in Providers |-> 0]
    /\ cap \in CapTables
    /\ jobId = {}
    /\ bills = [t \in Tasks |-> 0]
    /\ calls = {}
    /\ restarts = 0 /\ faults = 0

-----------------------------------------------------------------------------
(* The slot ledger.                                                        *)

Occupants(p, lane) == {t \in Tasks : held[t] \in SlotPhases /\ pool[t] = p /\ LaneOf[t] = lane}

\* Mutant: has_room off by one.
HasRoomForOneMore(p, lane) == Cardinality(Occupants(p, lane)) <= cap[p][lane]

HasRoom(p, lane) == Cardinality(Occupants(p, lane)) < cap[p][lane]

PoolFull(lane) ==
    {p \in Providers : /\ Occupants(p, lane) # {}
                       /\ cap[p][lane] > 0
                       /\ ~HasRoom(p, lane)}

\* active_task_ids()
SelfActive == {t \in Tasks : held[t] \in SlotPhases}

Move(t, where) == held' = [held EXCEPT ![t] = where]
At(t, point)   == co' = [co EXCEPT ![t] = point]

\* request_cancel finds a coroutine to cancel.
Reachable(t) == t \in SelfActive /\ co[t] \in LivePoints

-----------------------------------------------------------------------------
(* The 0-rows protocol towards the table.                                  *)

NoRows == UNCHANGED <<queueVars, signals>>

\* mark_task_cancelled, with the callbacks it owes to cascaded running tasks.
Finalize(t) ==
    IF status[t] \in Active
    THEN FinalizeCancelled(t) /\ signals' = signals \cup CascadedRunning(t)
    ELSE NoRows

\* Mutant: an error is answered by mark_task_cancelled at once.
FinalizeOnError(t) == Finalize(t)

FailOrFinalize(t) ==
    IF status[t] = "running" THEN MarkFailed(t) /\ UNCHANGED signals ELSE Finalize(t)

\* Mutant: the row count of mark_task_succeeded is not looked at.
SucceedOnly(t) ==
    IF status[t] = "running" THEN MarkSucceeded(t) /\ UNCHANGED signals ELSE NoRows

SucceedOrFinalize(t) ==
    IF status[t] = "running" THEN MarkSucceeded(t) /\ UNCHANGED signals ELSE Finalize(t)

-----------------------------------------------------------------------------
(* Users, through the API of the same process.                             *)

Up == worker # "down"

UserEnqueue(t, d) ==
    /\ Up /\ Enqueue(t, d)
    /\ UNCHANGED workerVars

\* What cancel_task hands to the callback: the tasks it turned to cancelling,
\* and its own if it came too late for a task another call is cancelling.
Signalled(t, seen) ==
    {u \in Tasks : status[u] = "running" /\ status'[u] = "cancelling"}
        \cup (IF seen = "running" /\ status[t] = "cancelling" THEN {t} ELSE {})

(* The transaction of cancel_task after its SELECT saw the status; its     *)
(* coroutine runs the callback once it resumes.                            *)
DispatchCancel(t, seen) ==
    /\ IF \/ seen = "queued" /\ status[t] \in Active
          \/ status[t] = "running"
       THEN CancelTask(t, seen)
       ELSE UNCHANGED queueVars
    /\ signals' = signals \cup Signalled(t, seen)
    /\ UNCHANGED <<loopVars, slotVars, coVars, semCap, cap, jobId, bills, boundVars>>

(* cancel_task with nothing between its SELECT and its UPDATE ...          *)
UserCancel(t) ==
    /\ Up /\ status[t] \in {"queued", "running"}
    /\ DispatchCancel(t, status[t])
    /\ UNCHANGED calls

(* ... and with other transactions in between.                             *)
ReadCancel(t) ==
    /\ Up /\ status[t] \in {"queued", "running"}
    /\ Cardinality(calls) < MaxCalls
    /\ calls' = calls \cup {<<t, status[t]>>}
    /\ UNCHANGED <<queueVars, loopVars, slotVars, coVars, signals, semCap, cap,
                   jobId, bills, boundVars>>

WriteCancel(t, seen) ==
    /\ <<t, seen>> \in calls
    /\ calls' = calls \ {<<t, seen>>}
    /\ DispatchCancel(t, seen)

(* What the feed is told of a bulk cancel is the matter of TaskQueue.      *)
UserCancelAll(p) ==
    /\ Up /\ CancelAllQueued(p, {u \in Rows : status[u] = "queued"})
    /\ UNCHANGED workerVars

(* request_cancel: asyncio.Task.cancel() if the slot table knows the task. *)
DeliverCancel(t) ==
    /\ t \in signals
    /\ signals' = signals \ {t}
    /\ cancelReq' = IF Reachable(t) THEN cancelReq \cup {t} ELSE cancelReq
    /\ UNCHANGED <<queueVars, loopVars, slotVars, co, resumed, semCap, cap, outerVars, boundVars>>

(* reload_limits, after a provider's settings changed.                     *)
ReloadLimits ==
    /\ Up /\ cap' \in CapTables \ {cap}
    /\ UNCHANGED <<queueVars, loopVars, slotVars, coVars, signals, semCap, outerVars, boundVars>>

-----------------------------------------------------------------------------
(* Life of the process.                                                    *)

Start ==
    /\ worker = "down"
    /\ worker' = "top"
    /\ UNCHANGED <<queueVars, laneNo, full, scanned, stop, slotVars, coVars, signals,
                   semCap, cap, outerVars, boundVars>>

\* Everything but the database is gone.
Forget ==
    /\ worker' = "down" /\ laneNo' = 1 /\ full' = {} /\ scanned' = FALSE /\ stop' = FALSE
    /\ held' = [t \in Tasks |-> "none"]
    /\ pool' = [t \in Tasks |-> None]
    /\ co' = [t \in Tasks |-> "none"]
    /\ resumed' = {} /\ cancelReq' = {} /\ signals' = {}
    /\ semCap' = [p \in Providers |-> 0]
    /\ calls' = {}
    /\ AbandonClaim
    /\ UNCHANGED <<cap, jobId, bills, faults>>

Crash ==
    /\ Up /\ restarts < MaxRestarts
    /\ restarts' = restarts + 1
    /\ Forget

(* stop() sets _stop_event; the loop looks at it when it begins a cycle.   *)
RequestStop ==
    /\ Up /\ ~stop /\ restarts < MaxRestarts
    /\ stop' = TRUE
    /\ restarts' = restarts + 1
    /\ UNCHANGED <<queueVars, worker, laneNo, full, scanned, slotVars, coVars, signals,
                   semCap, cap, outerVars, faults>>

(* _wait_inflight_completion: the dispatcher and every occupant are done;  *)
(* the ledger is cleared without draining it.                              *)
Stopped ==
    /\ worker = "stopping"
    /\ \A t \in Tasks : held[t] \notin {"bucket", "refused"} /\ co[t] \notin LivePoints
    /\ Forget
    /\ UNCHANGED restarts

\* What the main loop holds in local variables only.
LoopLocal(t) == \/ held[t] \in {"claimed", "drained", "orphanRunning", "orphanCancelling"}
                \/ held[t] = "bucket" /\ worker = "recover"

(* _run_loop has no except clause: a database error in one of its own      *)
(* calls ends the loop, while the coroutines and the API go on.            *)
LoopFault ==
    /\ worker \in {"scan", "recover", "top", "claim", "window"}
    /\ faults < MaxFaults
    /\ faults' = faults + 1
    /\ worker' = "dead"
    /\ held' = [t \in Tasks |-> IF LoopLocal(t) THEN "none" ELSE held[t]]
    /\ pool' = [t \in Tasks |-> IF LoopLocal(t) THEN None ELSE pool[t]]
    /\ AbandonClaim
    /\ UNCHANGED <<laneNo, full, scanned, stop, coVars, signals,
                   semCap, cap, outerVars, restarts>>

-----------------------------------------------------------------------------
(* The main loop: stop check, drain, orphan scan (once), claims.           *)

\* The claim query of the lane laneNo' is sent with the full pools of now.
Seek == worker' = "claim" /\ full' = PoolFull(LaneOrder[laneNo])'

NextLane ==
    \/ /\ laneNo < Len(LaneOrder)
       /\ laneNo' = laneNo + 1
       /\ Seek
    \/ /\ laneNo = Len(LaneOrder)
       /\ laneNo' = 1 /\ worker' = "top" /\ full' = {}

BeginStopping ==
    /\ worker = "top" /\ stop
    /\ worker' = "stopping"
    /\ UNCHANGED <<queueVars, laneNo, full, scanned, stop, slotVars, coVars, signals,
                   semCap, cap, outerVars, boundVars>>

\* Mutant: only cancelled coroutines give their slot back.
DrainCancelledOnly ==
    LET done == {t \in Tasks : held[t] = "inflight" /\ co[t] = "cancelled"}
    IN  /\ worker = "top" /\ ~stop
        /\ worker' = "drain"
        /\ held' = [t \in Tasks |-> IF t \in done THEN "drained" ELSE held[t]]
        /\ pool' = [t \in Tasks |-> IF t \in done THEN None ELSE pool[t]]
        /\ co' = [t \in Tasks |-> IF t \in done THEN "none" ELSE co[t]]
        /\ cancelReq' = cancelReq \ done
        /\ UNCHANGED <<queueVars, laneNo, full, scanned, stop, resumed, signals,
                       semCap, cap, outerVars, boundVars>>

(* drain_finished pops every finished inflight occupant at once; those     *)
(* whose coroutine was cancelled are then marked one by one.               *)
Drain ==
    LET done == {t \in Tasks : held[t] = "inflight" /\ co[t] \in DonePoints}
    IN  /\ worker = "top" /\ ~stop
        /\ worker' = "drain"
        /\ held' = [t \in Tasks |-> IF t \notin done THEN held[t]
                                    ELSE IF co[t] = "cancelled" THEN "drained" ELSE "none"]
        /\ pool' = [t \in Tasks |-> IF t \in done THEN None ELSE pool[t]]
        /\ co' = [t \in Tasks |-> IF t \in done THEN "none" ELSE co[t]]
        /\ cancelReq' = cancelReq \ done
        /\ UNCHANGED <<queueVars, laneNo, full, scanned, stop, resumed, signals,
                       semCap, cap, outerVars, boundVars>>

(* A failing mark_task_cancelled is logged and swallowed.                  *)
DrainCancelled(t) ==
    /\ worker = "drain" /\ held[t] = "drained"
    /\ \/ Finalize(t) /\ UNCHANGED faults
       \/ faults < MaxFaults /\ faults' = faults + 1 /\ NoRows
    /\ Move(t, "none")
    /\ UNCHANGED <<loopVars, pool, coVars, semCap, cap, outerVars, restarts>>

DrainDone ==
    /\ worker = "drain"
    /\ \A t \in Tasks : held[t] # "drained"
    /\ UNCHANGED laneNo
    /\ UNCHANGED <<queueVars, scanned, stop, slotVars, coVars, signals,
                   semCap, cap, outerVars, boundVars>>
    /\ IF scanned THEN Seek ELSE worker' = "scan" /\ UNCHANGED full

Bucket(p) == {t \in Tasks : held[t] = "bucket" /\ pool[t] = p}

\* The dispatcher registers its buckets within two ticks of the event loop,
\* before the database has answered the first claim of the cycle.
DispatchPending == \E p \in Providers : ~stop /\ Bucket(p) # {} /\ cap[p][VideoLane] > 0

(* claim_next: the SELECT ...                                              *)
SelectTask(t) ==
    /\ worker = "claim" /\ ~DispatchPending
    /\ PickNext(t, LaneOrder[laneNo], full)
    /\ UNCHANGED workerVars

(* ... and the UPDATE.                                                     *)
Claim(t) ==
    /\ worker = "claim" /\ status[t] = "queued"
    /\ ClaimPicked(t)
    /\ worker' = "window"
    /\ Move(t, "claimed")
    /\ UNCHANGED <<laneNo, full, scanned, stop, pool, coVars, signals,
                   semCap, cap, outerVars, boundVars>>

(* None is claimable, or the one selected was cancelled in between.        *)
NothingToClaim ==
    /\ worker = "claim" /\ ~DispatchPending
    /\ \/ /\ picked = None
          /\ ~\E t \in Tasks : Claimable(t, LaneOrder[laneNo], full)
          /\ UNCHANGED queueVars
       \/ \E t \in Tasks : status[t] # "queued" /\ ClaimPicked(t)
    /\ UNCHANGED <<scanned, stop, slotVars, coVars, signals,
                   semCap, cap, outerVars, boundVars>>
    /\ NextLane

\* Mutant: a task of an unsupported lane is failed without its dependents.
UnsupportedAlone(t, p) ==
    /\ worker = "window" /\ held[t] = "claimed"
    /\ p \in RoutesOf[t] /\ cap[p][LaneOf[t]] = 0
    /\ IF status[t] = "running" THEN MarkFailedAlone(t) ELSE UNCHANGED queueVars
    /\ Move(t, "none") /\ UNCHANGED <<pool, laneNo>>
    /\ UNCHANGED <<scanned, stop, coVars, signals, semCap, cap, outerVars, boundVars>>
    /\ Seek

(* Between the claim and the registration the task is known to nobody but  *)
(* the main loop.  Capacity 0: mark_task_failed, its row count ignored.    *)
Unsupported(t, p) ==
    /\ worker = "window" /\ held[t] = "claimed"
    /\ p \in RoutesOf[t] /\ cap[p][LaneOf[t]] = 0
    /\ IF status[t] = "running" THEN MarkFailed(t) ELSE UNCHANGED queueVars
    /\ Move(t, "none") /\ UNCHANGED <<pool, laneNo>>
    /\ UNCHANGED <<scanned, stop, coVars, signals, semCap, cap, outerVars, boundVars>>
    /\ Seek

(* No room: _requeue_single_task, whose errors are swallowed and whose row *)
(* count is not read; then the lane is left.                               *)
Bounce(t, p) ==
    /\ worker = "window" /\ held[t] = "claimed"
    /\ p \in RoutesOf[t] /\ cap[p][LaneOf[t]] > 0 /\ ~HasRoom(p, LaneOf[t])
    /\ \/ /\ IF status[t] = "running" THEN RequeueSingle(t) ELSE UNCHANGED queueVars
          /\ UNCHANGED faults
       \/ faults < MaxFaults /\ faults' = faults + 1 /\ UNCHANGED queueVars
    /\ Move(t, "none") /\ UNCHANGED pool
    /\ UNCHANGED <<scanned, stop, coVars, signals, semCap, cap, outerVars, restarts>>
    /\ NextLane

Register(t, p) ==
    /\ worker = "window" /\ held[t] = "claimed"
    /\ p \in RoutesOf[t] /\ HasRoom(p, LaneOf[t])
    /\ Move(t, "inflight")
    /\ pool' = [pool EXCEPT ![t] = p]
    /\ At(t, "created")
    /\ UNCHANGED laneNo
    /\ UNCHANGED <<queueVars, scanned, stop, resumed, cancelReq, signals,
                   semCap, cap, outerVars, boundVars>>
    /\ Seek

-----------------------------------------------------------------------------
(* The orphan scan after a start.                                          *)

ListOrphans ==
    /\ worker = "scan"
    /\ worker' = "recover"
    /\ held' = [t \in Tasks |->
           IF t \in SelfActive \/ status[t] \notin {"running", "cancelling"} THEN held[t]
           ELSE IF status[t] = "running" THEN "orphanRunning" ELSE "orphanCancelling"]
    /\ UNCHANGED <<queueVars, laneNo, full, scanned, stop, pool, coVars, signals,
                   semCap, cap, outerVars, boundVars>>

\* Mutant: the scan leaves cancelling orphans to the worker's finally clause.
SkipCancelling(t) ==
    /\ worker = "recover" /\ held[t] = "orphanCancelling"
    /\ NoRows
    /\ Move(t, "none")
    /\ UNCHANGED <<loopVars, pool, coVars, semCap, cap, outerVars, boundVars>>

RecoverCancelling(t) ==
    /\ worker = "recover" /\ held[t] = "orphanCancelling"
    /\ Finalize(t)
    /\ Move(t, "none")
    /\ UNCHANGED <<loopVars, pool, coVars, semCap, cap, outerVars, boundVars>>

\* The provider an orphan is routed to: the persisted one first.
OrphanRoutes(t) == IF ProviderOf[t] # None THEN {ProviderOf[t]} ELSE RoutesOf[t]

CanResume(t, p) == LaneOf[t] = VideoLane /\ p \in Resumable /\ t \in jobId

\* Mutant: orphans that cannot be resumed are put back, not failed.
RequeueOrphan(t, p) ==
    /\ worker = "recover" /\ held[t] = "orphanRunning"
    /\ p \in OrphanRoutes(t)
    /\ IF status[t] = "running" THEN RequeueSingle(t) ELSE UNCHANGED queueVars
    /\ Move(t, "none")
    /\ UNCHANGED <<loopVars, pool, coVars, signals, semCap, cap, outerVars, boundVars>>

\* Mutant: orphans that cannot be resumed are only logged.
IgnoreOrphan(t, p) ==
    /\ worker = "recover" /\ held[t] = "orphanRunning"
    /\ p \in OrphanRoutes(t)
    /\ NoRows
    /\ Move(t, "none")
    /\ UNCHANGED <<loopVars, pool, coVars, semCap, cap, outerVars, boundVars>>

(* A running orphan is failed unless its provider job can be polled again. *)
RecoverRunning(t, p) ==
    /\ worker = "recover" /\ held[t] = "orphanRunning"
    /\ p \in OrphanRoutes(t)
    /\ \/ /\ CanResume(t, p)
          /\ Move(t, "bucket")
          /\ pool' = [pool EXCEPT ![t] = p]
          /\ NoRows
       \/ /\ ~CanResume(t, p)
          /\ FailOrFinalize(t)
          /\ Move(t, "none")
          /\ UNCHANGED pool
    /\ UNCHANGED <<loopVars, coVars, semCap, cap, outerVars, boundVars>>

RecoverDone ==
    /\ worker = "recover"
    /\ \A t \in Tasks : held[t] \notin {"orphanRunning", "orphanCancelling"}
    /\ scanned' = TRUE /\ UNCHANGED laneNo
    /\ UNCHANGED <<queueVars, stop, slotVars, coVars, signals, semCap, cap, outerVars, boundVars>>
    /\ Seek

\* The capacity the dispatcher reads for p; a 0 makes it reload once.
Reloaded(p) == IF cap[p][VideoLane] = 0 THEN CapTables ELSE {cap}

(* _dispatch_provider_bucket: every orphan of the provider gets a          *)
(* coroutine and a pending slot; the semaphore has the capacity of now.    *)
DispatchBucket(p) ==
    /\ worker # "recover" /\ Bucket(p) # {} /\ ~stop
    /\ \E table \in Reloaded(p) :
        /\ table[p][VideoLane] > 0
        /\ cap' = table
        /\ semCap' = [semCap EXCEPT ![p] = table[p][VideoLane]]
    /\ held' = [t \in Tasks |-> IF t \in Bucket(p) THEN "pending" ELSE held[t]]
    /\ co' = [t \in Tasks |-> IF t \in Bucket(p) THEN "created" ELSE co[t]]
    /\ resumed' = resumed \cup Bucket(p)
    /\ UNCHANGED <<queueVars, loopVars, pool, cancelReq, signals, outerVars, boundVars>>

(* Capacity 0 after the reload as well: the bucket is given up.            *)
RefuseBucket(p) ==
    /\ worker # "recover" /\ Bucket(p) # {}
    /\ \E table \in Reloaded(p) : table[p][VideoLane] = 0 /\ cap' = table
    /\ held' = [t \in Tasks |-> IF t \in Bucket(p) THEN "refused" ELSE held[t]]
    /\ UNCHANGED <<queueVars, loopVars, pool, coVars, signals, semCap, outerVars, boundVars>>

FailRefused(t) ==
    /\ held[t] = "refused"
    /\ FailOrFinalize(t)
    /\ Move(t, "none")
    /\ pool' = [pool EXCEPT ![t] = None]
    /\ UNCHANGED <<loopVars, coVars, semCap, cap, outerVars, boundVars>>

(* A stopping dispatcher leaves its tasks to the next start.               *)
AbandonBucket(p) ==
    /\ worker # "recover" /\ Bucket(p) # {} /\ stop
    /\ held' = [t \in Tasks |-> IF t \in Bucket(p) THEN "none" ELSE held[t]]
    /\ pool' = [t \in Tasks |-> IF t \in Bucket(p) THEN None ELSE pool[t]]
    /\ UNCHANGED <<queueVars, loopVars, coVars, signals, semCap, cap, outerVars, boundVars>>

-----------------------------------------------------------------------------
(* The coroutine of a task: _process_task when it was claimed, _run_one    *)
(* with _process_resume_task when it is a resumed orphan.  A pending       *)
(* cancellation surfaces at the next await; the database writes are        *)
(* shielded from it.                                                       *)

coFrame == <<loopVars, semCap, cap, outerVars, restarts>>

\* The coroutine goes on to the program point.
Reach(t, point) == At(t, point) /\ UNCHANGED <<slotVars, resumed, cancelReq>>

\* It ends: a resume frees its slot in its finally clause, a normal one is
\* left for the main loop to drain.
Leave(t, how) ==
    /\ cancelReq' = cancelReq \ {t}
    /\ IF t \in resumed
       THEN /\ Move(t, "none") /\ At(t, "none")
            /\ pool' = [pool EXCEPT ![t] = None]
            /\ resumed' = resumed \ {t}
       ELSE At(t, how) /\ UNCHANGED <<slotVars, resumed>>

(* First step; a coroutine cancelled before it never runs any of its code, *)
(* the finally clause included.                                            *)
FirstStep(t) ==
    /\ co[t] = "created"
    /\ IF t \in cancelReq
       THEN /\ At(t, "cancelled") /\ cancelReq' = cancelReq \ {t}
            /\ UNCHANGED <<slotVars, resumed>>
       ELSE Reach(t, IF t \in resumed THEN "waiting" ELSE "routing")
    /\ NoRows /\ UNCHANGED <<coFrame, faults>>

(* _extract_provider stands before the try: a cancel there skips it too.   *)
Route(t) ==
    /\ co[t] = "routing"
    /\ IF t \in cancelReq THEN Leave(t, "cancelled") ELSE Reach(t, "calling")
    /\ NoRows /\ UNCHANGED <<coFrame, faults>>

(* The provider accepts the job, and charges for it, even when the answer  *)
(* meets a cancellation.                                                   *)
Submit(t) ==
    /\ co[t] = "calling"
    /\ bills' = [bills EXCEPT ![t] = @ + 1]
    /\ Reach(t, IF LaneOf[t] = VideoLane THEN "submitted" ELSE "polling")
    /\ NoRows /\ UNCHANGED <<loopVars, semCap, cap, jobId, calls, boundVars>>

(* persist_provider_job_id; a video job whose id is lost fails.            *)
PersistJob(t) ==
    /\ co[t] = "submitted" /\ t \notin cancelReq
    /\ \/ jobId' = jobId \cup {t} /\ Reach(t, "polling") /\ UNCHANGED faults
       \/ /\ faults < MaxFaults /\ faults' = faults + 1
          /\ Reach(t, "failing") /\ UNCHANGED jobId
    /\ NoRows /\ UNCHANGED <<loopVars, semCap, cap, bills, calls, restarts>>

(* The provider's result, or an error at any point of the call.            *)
Result(t) ==
    /\ t \notin cancelReq
    /\ \/ co[t] = "polling" /\ Reach(t, "succeeding")
       \/ co[t] \in {"calling", "polling"} /\ Reach(t, "failing")
    /\ NoRows /\ UNCHANGED <<coFrame, faults>>

Permits(p) == {u \in resumed : pool[u] = p /\ held[u] = "inflight"}

\* Mutant: the resume goes through the submission path of a new task.
AcquireAndSubmit(t) ==
    /\ co[t] = "waiting" /\ t \notin cancelReq
    /\ Cardinality(Permits(pool[t])) < semCap[pool[t]]
    /\ Move(t, "resuming") /\ At(t, "calling")
    /\ UNCHANGED <<pool, resumed, cancelReq>>
    /\ NoRows /\ UNCHANGED <<coFrame, faults>>

(* sem.acquire of a resume, the stop check, promote.                       *)
Acquire(t) ==
    /\ co[t] = "waiting" /\ t \notin cancelReq
    /\ Cardinality(Permits(pool[t])) < semCap[pool[t]]
    /\ IF stop THEN Leave(t, "returned")
       ELSE /\ Move(t, "inflight") /\ At(t, "polling")
            /\ UNCHANGED <<pool, resumed, cancelReq>>
    /\ NoRows /\ UNCHANGED <<coFrame, faults>>

(* CancelledError caught by a handler that calls mark_task_cancelled.  In  *)
(* the failure path of a normal coroutine no handler is left.              *)
Interrupted(t) ==
    /\ t \in cancelReq
    /\ \/ /\ co[t] \in {"calling", "submitted", "polling", "waiting", "succeeding"}
             \cup (IF t \in resumed THEN {"failing"} ELSE {})
          /\ At(t, "cancelling") /\ cancelReq' = cancelReq \ {t}
          /\ UNCHANGED <<slotVars, resumed>>
       \/ co[t] = "failing" /\ t \notin resumed /\ Leave(t, "cancelled")
    /\ NoRows /\ UNCHANGED <<coFrame, faults>>

Conclude(t) ==
    /\ \/ co[t] = "succeeding" /\ t \notin cancelReq /\ SucceedOrFinalize(t) /\ Leave(t, "returned")
       \/ co[t] = "failing" /\ t \notin cancelReq /\ FailOrFinalize(t) /\ Leave(t, "returned")
       \/ co[t] = "cancelling" /\ Finalize(t) /\ Leave(t, "cancelled")
    /\ UNCHANGED <<coFrame, faults>>

(* The closing write itself fails: the coroutine ends with the exception   *)
(* and the row stays as it is.                                             *)
CloseFault(t) ==
    /\ co[t] \in {"succeeding", "failing", "cancelling"}
    /\ faults < MaxFaults /\ faults' = faults + 1
    /\ Leave(t, "returned")
    /\ NoRows /\ UNCHANGED coFrame

-----------------------------------------------------------------------------
UserStep ==
    \/ \E t \in Tasks, d \in Tasks \cup {None} : UserEnqueue(t, d)
    \/ \E t \in Tasks : UserCancel(t) \/ ReadCancel(t)
    \/ \E p \in Projects : UserCancelAll(p)
    \/ ReloadLimits

LoopStep ==
    \/ BeginStopping \/ Stopped
    \/ Drain \/ (\E t \in Tasks : DrainCancelled(t)) \/ DrainDone
    \/ ListOrphans
    \/ \E t \in Tasks : RecoverCancelling(t)
    \/ \E t \in Tasks, p \in Providers : RecoverRunning(t, p)
    \/ RecoverDone
    \/ (\E t \in Tasks : SelectTask(t) \/ Claim(t)) \/ NothingToClaim
    \/ \E t \in Tasks, p \in Providers : Unsupported(t, p) \/ Bounce(t, p) \/ Register(t, p)

DispatchStep(p) ==
    \/ DispatchBucket(p) \/ RefuseBucket(p) \/ AbandonBucket(p)

ProviderStep(t) == Submit(t) \/ Result(t)

CoStep(t) ==
    \/ FirstStep(t) \/ Route(t) \/ PersistJob(t) \/ Acquire(t)
    \/ Interrupted(t) \/ Conclude(t)

\* cancel_task calls go on to their UPDATE.
CallStep == \E t \in Tasks, seen \in {"queued", "running"} : WriteCancel(t, seen)

WorkerNext ==
    \/ UserStep \/ CallStep \/ (\E t \in Tasks : DeliverCancel(t))
    \/ Start \/ Crash \/ RequestStop \/ LoopFault \/ LoopStep
    \/ \E p \in Providers : DispatchStep(p)
    \/ \E t \in Tasks : FailRefused(t) \/ ProviderStep(t) \/ CoStep(t) \/ CloseFault(t)

WorkerSpec == WorkerInit /\ [][WorkerNext]_vars

\* The event loop runs every ready callback and coroutine, a supervisor
\* restarts the server, and a provider call ends (the backends poll with a
\* deadline); only the providers of the tasks in S may keep silent for ever.
FairnessBut(S) ==
    /\ WF_vars(Start) /\ WF_vars(LoopStep) /\ WF_vars(CallStep)
    /\ \A p \in Providers : WF_vars(DispatchStep(p))
    /\ \A t \in Tasks : WF_vars(DeliverCancel(t)) /\ WF_vars(FailRefused(t))
    /\ \A t \in Tasks : WF_vars(CoStep(t))
    /\ \A t \in Tasks \ S : WF_vars(ProviderStep(t))

FairSpec == WorkerSpec /\ FairnessBut({})

-----------------------------------------------------------------------------
(* Safety.                                                                 *)

\* Occupants of a pool that are really at work: pending resumes wait.
AtWork(p, lane) == {t \in Occupants(p, lane) : held[t] = "inflight" /\ co[t] \in LivePoints}

\* Claims and resumed orphans together never put more tasks to work on a
\* provider than some capacity table allowed (has_room before register, the
\* semaphore of the dispatcher after a restart, and reloads in between).
CapacityRespected ==
    \A p \in Providers, lane \in Lanes :
        \E table \in CapTables : Cardinality(AtWork(p, lane)) <= table[p][lane]

\* A coroutine that has begun works on a task the table still shows as
\* running or cancelling: nobody ends a task under a coroutine's feet.
WorkIsOpen ==
    \A t \in Tasks : co[t] \in LivePoints => status[t] \in {"running", "cancelling"}

\* As long as the process is healthy, every running row is in the hands of
\* the loop, the dispatcher or a coroutine once the orphans were scanned: it
\* need not wait for a restart to be settled.
RunningIsOwned ==
    scanned /\ ~stop /\ worker # "dead" /\ faults = 0 =>
        \A t \in Tasks : status[t] = "running" => held[t] # "none"

\* The red line of ADR 0007: crashes, stops, requeues and resumes included,
\* a task is never submitted to a provider twice.
BilledOnce == \A t \in Tasks : bills[t] <= 1

-----------------------------------------------------------------------------
(* Progress, in a process that neither stops nor crashes.                  *)

Begun(t) == co[t] \in LivePoints \ {"created"}

\* A cancel request on a task whose coroutine is at work ends in cancelled.
BegunCancelSettles ==
    \A t \in Tasks : status[t] = "cancelling" /\ Begun(t) ~> status[t] = "cancelled"

\* A slot that a resume left behind when it was cancelled before its first
\* step (SlotIsFreed).
LeakedSlot(t) == held[t] = "pending" /\ co[t] = "cancelled"

\* A queued task that waits for nothing is served or ended by a user, even
\* when it is put back because its pool turned out full, and across a
\* restart; only a leaked slot can keep it waiting.
ReadyIsServed ==
    \A t \in Tasks :
        status[t] = "queued" /\ DependencyMet(t)
            ~> status[t] \in Terminal \cup {"cancelling"} \/ \E u \in Tasks : LeakedSlot(u)

\* What the last restart finds running or cancelling is settled, except a
\* resume that leaks its slot.
RestartSettles ==
    \A t \in Tasks :
        /\ restarts = MaxRestarts /\ ~stop
        /\ held[t] \in {"orphanRunning", "orphanCancelling"}
        ~> status[t] \in Terminal \/ LeakedSlot(t)

\* Every cancel request ends in cancelled.
CancelSettles == \A t \in Tasks : status[t] = "cancelling" ~> status[t] = "cancelled"

\* A provider with room in its pool serves its ready tasks, whatever the
\* pools of other providers do (CONTEXT.md, the lanes of a provider).
IdleProviderServes ==
    \A t \in Tasks :
        /\ status[t] = "queued" /\ DependencyMet(t)
        /\ ProviderOf[t] \in Providers /\ Occupants(ProviderOf[t], LaneOf[t]) = {}
        ~> status[t] # "queued"

\* A slot whose coroutine is over is given back.
SlotIsFreed == \A t \in Tasks : co[t] \in DonePoints ~> held[t] = "none"

-----------------------------------------------------------------------------
(* The worker over the table implements the life cycle of a task, and its  *)
(* steps on the table are steps of TaskQueue.                              *)

Lifecycle == INSTANCE TaskLifecycle WITH life <- status, after <- dep, submitted <- bills
ImplementsLifecycle == Lifecycle!LifeSpec
ImplementsQueue == Spec
=============================================================================
