----------------------- MODULE GenerationWorker_proofs -----------------------
(***************************************************************************)
(* The worker uses the task table only through the methods of the          *)
(* repository, one per step: whatever TaskQueue_proofs shows of the table  *)
(* holds of the running system, crashes, stops and faults included.        *)
(*                                                                         *)
(* Then the red line of ADR 0007 for every instance: no task is submitted  *)
(* to a provider twice.  The argument is an inductive invariant that ties  *)
(* the row of a task, the place that holds it and the point its coroutine  *)
(* has reached to whether it can have been submitted already.              *)
(***************************************************************************)
EXTENDS GenerationWorker, TaskQueue_proofs

\* The 0-rows protocol issues one method of the repository, or none.
LEMMA ZeroRowsIsQueueStep ==
    ASSUME NEW t \in Tasks,
           Finalize(t) \/ FailOrFinalize(t) \/ SucceedOrFinalize(t)
    PROVE  [Next]_queueVars
BY DEF Finalize, FailOrFinalize, SucceedOrFinalize, NoRows, Next, queueVars

\* Every step of the worker, the users and the environment is a transaction
\* of TaskQueue or leaves the table alone.
LEMMA WorkerStepIsQueueStep == [WorkerNext]_vars => [Next]_queueVars
<1> SUFFICES ASSUME [WorkerNext]_vars PROVE [Next]_queueVars
    OBVIOUS
<1>1. CASE UNCHANGED vars
    BY <1>1 DEF vars, queueVars
<1>2. CASE UserStep \/ CallStep
    <2>1. ASSUME NEW t \in Tasks, NEW seen \in {"queued", "running"}, DispatchCancel(t, seen)
          PROVE  [Next]_queueVars
        BY <2>1 DEF DispatchCancel, Next
    <2>2. ASSUME NEW t \in Tasks, UserCancel(t) \/ ReadCancel(t)
          PROVE  [Next]_queueVars
        BY <2>1, <2>2 DEF UserCancel, ReadCancel
    <2>3. ASSUME NEW p \in Projects, UserCancelAll(p)
          PROVE  [Next]_queueVars
        <3>1. {u \in Rows : status[u] = "queued"} \in SUBSET Rows
            OBVIOUS
        <3> QED
            BY <2>3, <3>1 DEF UserCancelAll, Next
    <2>4. CASE CallStep
        BY <2>1, <2>4 DEF CallStep, WriteCancel
    <2> QED
        BY <1>2, <2>2, <2>3, <2>4 DEF UserStep, UserEnqueue, ReloadLimits, Next
<1>3. CASE (\E t \in Tasks : DeliverCancel(t)) \/ Start \/ Crash \/ RequestStop \/ LoopFault
    BY <1>3 DEF DeliverCancel, Start, Crash, RequestStop, LoopFault, Forget, Next
<1>4. CASE LoopStep
    <2>1. CASE BeginStopping \/ Stopped \/ Drain \/ DrainDone
        BY <2>1 DEF BeginStopping, Stopped, Forget, Drain, DrainDone, Next
    <2>6. CASE ListOrphans \/ RecoverDone \/ NothingToClaim
        BY <2>6 DEF ListOrphans, RecoverDone, NothingToClaim, Next
    <2>2. ASSUME NEW t \in Tasks, DrainCancelled(t) \/ RecoverCancelling(t)
          PROVE  [Next]_queueVars
        BY <2>2, ZeroRowsIsQueueStep DEF DrainCancelled, RecoverCancelling, NoRows
    <2>3. ASSUME NEW t \in Tasks, NEW p \in Providers, RecoverRunning(t, p)
          PROVE  [Next]_queueVars
        BY <2>3, ZeroRowsIsQueueStep DEF RecoverRunning, NoRows
    <2>4. ASSUME NEW t \in Tasks, SelectTask(t)
          PROVE  [Next]_queueVars
        <3>1. PickNext(t, LaneOrder[laneNo], full)
            BY <2>4 DEF SelectTask
        <3>2. LaneOrder[laneNo] \in Lanes
            BY <3>1, TaskAssumption DEF PickNext, Claimable
        <3>3. PickNext(t, LaneOrder[laneNo], full \cap Providers)
            BY <3>1, TaskAssumption DEF PickNext, Claimable
        <3> QED
            BY <3>2, <3>3 DEF Next
    <2>7. ASSUME NEW t \in Tasks, Claim(t)
          PROVE  [Next]_queueVars
        BY <2>7 DEF Claim, Next
    <2>5. ASSUME NEW t \in Tasks, NEW p \in Providers,
                 Unsupported(t, p) \/ Bounce(t, p) \/ Register(t, p)
          PROVE  [Next]_queueVars
        BY <2>5 DEF Unsupported, Bounce, Register, Next, queueVars
    <2> QED
        BY <1>4, <2>1, <2>2, <2>3, <2>4, <2>5, <2>6, <2>7 DEF LoopStep
<1>5. CASE \E p \in Providers : DispatchStep(p)
    BY <1>5 DEF DispatchStep, DispatchBucket, RefuseBucket, AbandonBucket
<1>6. ASSUME NEW t \in Tasks, FailRefused(t) \/ ProviderStep(t) \/ CoStep(t) \/ CloseFault(t)
      PROVE  [Next]_queueVars
    <2>1. CASE FailRefused(t)
        BY <2>1, ZeroRowsIsQueueStep DEF FailRefused
    <2>2. CASE ProviderStep(t) \/ CloseFault(t)
        BY <2>2 DEF ProviderStep, Submit, Result, CloseFault, NoRows
    <2>3. CASE CoStep(t)
        <3>1. CASE Conclude(t)
            BY <3>1, ZeroRowsIsQueueStep DEF Conclude
        <3>2. CASE ~Conclude(t)
            BY <2>3, <3>2 DEF CoStep, FirstStep, Route, PersistJob, Acquire, Interrupted, NoRows
        <3> QED
            BY <3>1, <3>2
    <2> QED
        BY <1>6, <2>1, <2>2, <2>3
<1> QED
    BY <1>1, <1>2, <1>3, <1>4, <1>5, <1>6 DEF WorkerNext

\* The system implements the task table's specification.
THEOREM WorkerImplementsQueue == WorkerSpec => ImplementsQueue
<1>1. WorkerInit => Init
    BY DEF WorkerInit
<1> QED
    BY <1>1, WorkerStepIsQueueStep, PTL DEF WorkerSpec, Spec, ImplementsQueue

\* Hence, in the running system: no duplicate work, dependencies first,
\* attributed cancels, an honest feed; a cancel wins and cascades are complete.
THEOREM WorkerKeepsQueuePromises ==
    WorkerSpec => /\ [](TypeOK /\ OneActivePerKey /\ RunsAfterDependency)
                  /\ [](CancelAttributed /\ FeedLagsOnlySilently)
                  /\ CancelWins /\ CascadeIsComplete
BY WorkerImplementsQueue, TypeCorrect, NoDuplicateWork, DependencyFirst, CancelsAreAttributed,
   FeedIsHonest, CancelIsFinal, NothingLeftBehind, PTL DEF ImplementsQueue

-----------------------------------------------------------------------------
(* Types.                                                                  *)

LEMMA SeekType ==
    ASSUME WorkerTypeOK, laneNo' \in 1..Len(LaneOrder), Seek
    PROVE  worker' \in LoopPoints /\ full' \in SUBSET Providers
BY DEF Seek, PoolFull, LoopPoints

LEMMA NextLaneType ==
    ASSUME WorkerTypeOK, NextLane
    PROVE  /\ worker' \in LoopPoints /\ full' \in SUBSET Providers
           /\ laneNo' \in 1..Len(LaneOrder)
<1>1. laneNo \in 1..Len(LaneOrder) /\ Len(LaneOrder) \in Nat /\ Len(LaneOrder) > 0
    BY WorkerAssumption DEF WorkerTypeOK
<1>2. laneNo' \in 1..Len(LaneOrder)
    BY <1>1 DEF NextLane
<1> QED
    BY <1>2, SeekType DEF NextLane, LoopPoints

\* Users and the cancel callback.
LEMMA UserTypeStep ==
    ASSUME WorkerTypeOK, TypeOK', UserStep \/ CallStep \/ \E t \in Tasks : DeliverCancel(t)
    PROVE  WorkerTypeOK'
<1>1. ASSUME NEW t \in Tasks, NEW seen \in {"queued", "running"}, DispatchCancel(t, seen),
             calls' \subseteq calls
      PROVE  WorkerTypeOK'
    <2>1. signals' \in SUBSET Tasks
        BY <1>1 DEF WorkerTypeOK, DispatchCancel, Signalled
    <2> QED
        BY <1>1, <2>1 DEF WorkerTypeOK, DispatchCancel, loopVars, slotVars, coVars, boundVars
<1>2. ASSUME NEW t \in Tasks, UserCancel(t) \/ ReadCancel(t) \/ DeliverCancel(t)
      PROVE  WorkerTypeOK'
    <2>1. CASE UserCancel(t)
        BY <1>1, <2>1 DEF UserCancel
    <2>2. CASE ReadCancel(t)
        BY <2>2 DEF WorkerTypeOK, ReadCancel, loopVars, slotVars, coVars, boundVars
    <2>3. CASE DeliverCancel(t)
        BY <2>3 DEF WorkerTypeOK, DeliverCancel, loopVars, slotVars, outerVars, boundVars
    <2> QED
        BY <1>2, <2>1, <2>2, <2>3
<1>3. CASE CallStep
    BY <1>1, <1>3 DEF CallStep, WriteCancel
<1>4. CASE ReloadLimits
    BY <1>4 DEF WorkerTypeOK, ReloadLimits, loopVars, slotVars, coVars, outerVars, boundVars
<1>5. ASSUME UNCHANGED workerVars
      PROVE  WorkerTypeOK'
    BY <1>5 DEF WorkerTypeOK, workerVars, loopVars, slotVars, coVars, outerVars, boundVars
<1> QED
    BY <1>2, <1>3, <1>4, <1>5 DEF UserStep, UserEnqueue, UserCancelAll

\* The life of the process.
LEMMA ProcessTypeStep ==
    ASSUME WorkerTypeOK, TypeOK', Start \/ Crash \/ RequestStop \/ LoopFault \/ Stopped
    PROVE  WorkerTypeOK'
<1>0. 1 \in 1..Len(LaneOrder)
    BY WorkerAssumption
<1>1. CASE Start
    BY <1>1 DEF WorkerTypeOK, Start, LoopPoints, slotVars, coVars, outerVars, boundVars
<1>2. ASSUME Forget, restarts' \in 0..MaxRestarts
      PROVE  WorkerTypeOK'
    BY <1>0, <1>2 DEF WorkerTypeOK, Forget, LoopPoints, Holdings
<1>3. CASE Crash
    BY <1>2, <1>3, WorkerAssumption DEF WorkerTypeOK, Crash
<1>4. CASE Stopped
    BY <1>2, <1>4 DEF WorkerTypeOK, Stopped
<1>5. CASE RequestStop
    BY <1>5, WorkerAssumption DEF WorkerTypeOK, RequestStop, slotVars, coVars, outerVars
<1>6. CASE LoopFault
    <2>1. held' \in [Tasks -> Holdings] /\ pool' \in [Tasks -> Providers \cup {None}]
        BY <1>6 DEF WorkerTypeOK, LoopFault, Holdings
    <2>2. faults' \in 0..MaxFaults
        BY <1>6, WorkerAssumption DEF WorkerTypeOK, LoopFault
    <2> QED
        BY <1>6, <2>1, <2>2 DEF WorkerTypeOK, LoopFault, LoopPoints, coVars, outerVars
<1> QED
    BY <1>1, <1>3, <1>4, <1>5, <1>6

\* The main loop: drain, orphan scan, claims.
LEMMA LoopTypeStep ==
    ASSUME WorkerTypeOK, TypeOK', LoopStep, ~Stopped
    PROVE  WorkerTypeOK'
<1>1. CASE BeginStopping
    BY <1>1 DEF WorkerTypeOK, BeginStopping, LoopPoints, slotVars, coVars, outerVars, boundVars
<1>2. CASE Drain
    <2>1. /\ held' \in [Tasks -> Holdings]
          /\ pool' \in [Tasks -> Providers \cup {None}]
          /\ co' \in [Tasks -> {"none"} \cup LivePoints \cup DonePoints]
        BY <1>2 DEF WorkerTypeOK, Drain, Holdings
    <2> QED
        BY <1>2, <2>1 DEF WorkerTypeOK, Drain, LoopPoints, outerVars, boundVars
<1>3. CASE DrainDone
    <2>1. worker' \in LoopPoints /\ full' \in SUBSET Providers
        BY <1>3, SeekType DEF DrainDone, LoopPoints, WorkerTypeOK
    <2> QED
        BY <1>3, <2>1 DEF WorkerTypeOK, DrainDone, slotVars, coVars, outerVars, boundVars
<1>4. ASSUME NEW t \in Tasks, DrainCancelled(t) \/ RecoverCancelling(t)
      PROVE  WorkerTypeOK'
    <2>1. signals' \in SUBSET Tasks
        BY <1>4 DEF WorkerTypeOK, DrainCancelled, RecoverCancelling, Finalize, NoRows, CascadedRunning,
                    RunningDependents
    <2>2. faults' \in 0..MaxFaults
        BY <1>4, WorkerAssumption DEF WorkerTypeOK, DrainCancelled, RecoverCancelling, boundVars
    <2>3. held' \in [Tasks -> Holdings]
        BY <1>4 DEF WorkerTypeOK, DrainCancelled, RecoverCancelling, Move, Holdings
    <2> QED
        BY <1>4, <2>1, <2>2, <2>3 DEF WorkerTypeOK, DrainCancelled, RecoverCancelling,
           loopVars, coVars, outerVars, boundVars
<1>5. CASE ListOrphans
    <2>1. held' \in [Tasks -> Holdings]
        BY <1>5 DEF WorkerTypeOK, ListOrphans, Holdings
    <2> QED
        BY <1>5, <2>1 DEF WorkerTypeOK, ListOrphans, LoopPoints, coVars, outerVars, boundVars
<1>6. ASSUME NEW t \in Tasks, NEW p \in Providers, RecoverRunning(t, p)
      PROVE  WorkerTypeOK'
    <2>1. signals' \in SUBSET Tasks
        BY <1>6 DEF WorkerTypeOK, RecoverRunning, FailOrFinalize, Finalize, NoRows, CascadedRunning,
                    RunningDependents
    <2>2. held' \in [Tasks -> Holdings] /\ pool' \in [Tasks -> Providers \cup {None}]
        BY <1>6 DEF WorkerTypeOK, RecoverRunning, Move, Holdings
    <2> QED
        BY <1>6, <2>1, <2>2 DEF WorkerTypeOK, RecoverRunning, loopVars, coVars, outerVars, boundVars
<1>7. CASE RecoverDone
    <2>1. worker' \in LoopPoints /\ full' \in SUBSET Providers
        BY <1>7, SeekType DEF RecoverDone, WorkerTypeOK
    <2> QED
        BY <1>7, <2>1 DEF WorkerTypeOK, RecoverDone, slotVars, coVars, outerVars, boundVars
<1>8. ASSUME NEW t \in Tasks, SelectTask(t) \/ Claim(t)
      PROVE  WorkerTypeOK'
    <2>1. CASE SelectTask(t)
        BY <2>1 DEF WorkerTypeOK, SelectTask, workerVars, loopVars, slotVars, coVars, outerVars, boundVars
    <2>2. CASE Claim(t)
        BY <2>2 DEF WorkerTypeOK, Claim, Move, Holdings, LoopPoints, coVars, outerVars, boundVars
    <2> QED
        BY <1>8, <2>1, <2>2
<1>9. CASE NothingToClaim
    BY <1>9, NextLaneType DEF WorkerTypeOK, NothingToClaim, slotVars, coVars, outerVars, boundVars
<1>10. ASSUME NEW t \in Tasks, NEW p \in Providers,
              Unsupported(t, p) \/ Bounce(t, p) \/ Register(t, p)
       PROVE  WorkerTypeOK'
    <2>1. CASE Unsupported(t, p)
        <3>1. worker' \in LoopPoints /\ full' \in SUBSET Providers
            BY <2>1, SeekType DEF Unsupported, WorkerTypeOK
        <3> QED
            BY <2>1, <3>1 DEF WorkerTypeOK, Unsupported, Move, Holdings, coVars, outerVars, boundVars
    <2>2. CASE Bounce(t, p)
        <3>1. faults' \in 0..MaxFaults
            <4>1. faults' = faults \/ (faults < MaxFaults /\ faults' = faults + 1)
                BY <2>2 DEF Bounce
            <4>2. faults \in 0..MaxFaults /\ MaxFaults \in Nat
                BY WorkerAssumption DEF WorkerTypeOK
            <4> QED
                BY <4>1, <4>2
        <3> QED
            BY <2>2, <3>1, NextLaneType DEF WorkerTypeOK, Bounce, Move, Holdings, coVars, outerVars
    <2>3. CASE Register(t, p)
        <3>1. worker' \in LoopPoints /\ full' \in SUBSET Providers
            BY <2>3, SeekType DEF Register, WorkerTypeOK
        <3> QED
            BY <2>3, <3>1 DEF WorkerTypeOK, Register, Move, At, Holdings, SlotPhases, LivePoints,
               outerVars, boundVars
    <2> QED
        BY <1>10, <2>1, <2>2, <2>3
<1> QED
    BY <1>1, <1>2, <1>3, <1>4, <1>5, <1>6, <1>7, <1>8, <1>9, <1>10 DEF LoopStep

\* The dispatcher of resumed orphans.
LEMMA DispatchTypeStep ==
    ASSUME WorkerTypeOK, TypeOK', NEW p \in Providers, DispatchStep(p)
    PROVE  WorkerTypeOK'
<1>1. Reloaded(p) \subseteq CapTables /\ Bucket(p) \subseteq Tasks
    BY DEF Reloaded, Bucket, WorkerTypeOK
<1>2. held' \in [Tasks -> Holdings]
    BY DEF WorkerTypeOK, DispatchStep, DispatchBucket, RefuseBucket, AbandonBucket, Holdings, SlotPhases
<1>3. CASE DispatchBucket(p)
    <2>1. cap' \in CapTables /\ semCap' \in [Providers -> Nat]
        <3>1. PICK table \in Reloaded(p) :
                  cap' = table /\ semCap' = [semCap EXCEPT ![p] = table[p][VideoLane]]
            BY <1>3 DEF DispatchBucket
        <3>2. table[p][VideoLane] \in Nat
            BY <1>1, WorkerAssumption
        <3> QED
            BY <1>1, <3>1, <3>2 DEF WorkerTypeOK
    <2>2. co' \in [Tasks -> {"none"} \cup LivePoints \cup DonePoints]
        BY <1>3 DEF WorkerTypeOK, DispatchBucket, LivePoints
    <2>3. resumed' \in SUBSET Tasks
        BY <1>1, <1>3 DEF WorkerTypeOK, DispatchBucket
    <2> QED
        BY <1>2, <1>3, <2>1, <2>2, <2>3 DEF WorkerTypeOK, DispatchBucket, loopVars, outerVars, boundVars
<1>4. CASE RefuseBucket(p)
    BY <1>1, <1>2, <1>4 DEF WorkerTypeOK, RefuseBucket, loopVars, coVars, outerVars, boundVars
<1>5. CASE AbandonBucket(p)
    <2>1. pool' \in [Tasks -> Providers \cup {None}]
        BY <1>5 DEF WorkerTypeOK, AbandonBucket
    <2> QED
        BY <1>2, <1>5, <2>1 DEF WorkerTypeOK, AbandonBucket, loopVars, coVars, outerVars, boundVars
<1> QED
    BY <1>3, <1>4, <1>5 DEF DispatchStep

Points == {"none"} \cup LivePoints \cup DonePoints

\* What the coroutine of t owns keeps its type when it moves on or ends.
CoTypes ==
    /\ held' \in [Tasks -> Holdings] /\ pool' \in [Tasks -> Providers \cup {None}]
    /\ co' \in [Tasks -> Points]
    /\ resumed' \in SUBSET Tasks /\ cancelReq' \in SUBSET Tasks

LEMMA LeaveType ==
    ASSUME WorkerTypeOK, NEW t \in Tasks, Leave(t, "returned") \/ Leave(t, "cancelled")
    PROVE  CoTypes
<1>1. "none" \in Points /\ "returned" \in Points /\ "cancelled" \in Points /\ "none" \in Holdings
    BY DEF Points, DonePoints, Holdings
<1> QED
    BY <1>1 DEF WorkerTypeOK, Leave, Move, At, CoTypes, slotVars, Points

LEMMA ReachType ==
    ASSUME WorkerTypeOK, NEW t \in Tasks, NEW point \in Points, Reach(t, point)
    PROVE  CoTypes
BY DEF WorkerTypeOK, Reach, At, CoTypes, slotVars, Points

\* The coroutines and their calls to providers.
LEMMA CoroutineTypeStep ==
    ASSUME WorkerTypeOK, TypeOK', NEW t \in Tasks,
           FailRefused(t) \/ ProviderStep(t) \/ CoStep(t) \/ CloseFault(t)
    PROVE  WorkerTypeOK'
<1>0. /\ {"routing", "calling", "submitted", "polling", "waiting", "succeeding", "failing",
          "cancelling"} \subseteq Points
      /\ "cancelled" \in Points
    BY DEF Points, LivePoints, DonePoints
<1>1. ASSUME CoTypes, UNCHANGED <<loopVars, signals, semCap, cap, calls, restarts>>,
             bills' \in [Tasks -> Nat], jobId' \in SUBSET Tasks, faults' \in 0..MaxFaults
      PROVE  WorkerTypeOK'
    BY <1>1 DEF WorkerTypeOK, CoTypes, Points, loopVars
<1>2. CASE FailRefused(t)
    <2>1. signals' \in SUBSET Tasks
        BY <1>2 DEF WorkerTypeOK, FailRefused, FailOrFinalize, Finalize, NoRows, CascadedRunning,
                    RunningDependents
    <2> QED
        BY <1>2, <2>1 DEF WorkerTypeOK, FailRefused, Move, Holdings, loopVars, coVars, outerVars, boundVars
<1>3. CASE Submit(t)
    <2>1. CoTypes
        BY <1>0, <1>3, ReachType DEF Submit
    <2>2. bills' \in [Tasks -> Nat]
        BY <1>3 DEF WorkerTypeOK, Submit
    <2> QED
        BY <1>1, <1>3, <2>1, <2>2 DEF WorkerTypeOK, Submit, NoRows, boundVars
<1>4. CASE Result(t) \/ FirstStep(t) \/ Route(t)
    <2>1. CoTypes
        <3>1. CASE FirstStep(t) /\ t \in cancelReq
            BY <1>0, <3>1 DEF WorkerTypeOK, FirstStep, At, CoTypes, slotVars, Points
        <3> QED
            BY <1>0, <1>4, <3>1, ReachType, LeaveType DEF Result, FirstStep, Route
    <2> QED
        BY <1>1, <1>4, <2>1 DEF WorkerTypeOK, Result, FirstStep, Route, NoRows, coFrame, outerVars
<1>5. CASE PersistJob(t)
    <2>1. CoTypes
        BY <1>0, <1>5, ReachType DEF PersistJob
    <2>2. jobId' \in SUBSET Tasks /\ faults' \in 0..MaxFaults
        BY <1>5, WorkerAssumption DEF WorkerTypeOK, PersistJob
    <2> QED
        BY <1>1, <1>5, <2>1, <2>2 DEF WorkerTypeOK, PersistJob, NoRows
<1>6. CASE Acquire(t) \/ Interrupted(t)
    <2>1. CoTypes
        <3>1. CASE Acquire(t) /\ ~stop
            BY <1>0, <3>1 DEF WorkerTypeOK, Acquire, Move, At, CoTypes, Holdings, SlotPhases, Points
        <3>2. CASE Acquire(t) /\ stop
            BY <3>2, LeaveType DEF Acquire
        <3>3. CASE Interrupted(t) /\ ~Leave(t, "cancelled")
            BY <1>0, <3>3 DEF WorkerTypeOK, Interrupted, At, CoTypes, slotVars, Points
        <3> QED
            BY <1>6, <3>1, <3>2, <3>3, LeaveType
    <2> QED
        BY <1>1, <1>6, <2>1 DEF WorkerTypeOK, Acquire, Interrupted, NoRows, coFrame, outerVars
<1>7. CASE Conclude(t)
    <2>1. CoTypes
        BY <1>7, LeaveType DEF Conclude
    <2>2. signals' \in SUBSET Tasks
        BY <1>7 DEF WorkerTypeOK, Conclude, SucceedOrFinalize, FailOrFinalize, Finalize, NoRows,
                    CascadedRunning, RunningDependents
    <2> QED
        BY <1>7, <2>1, <2>2 DEF WorkerTypeOK, Conclude, CoTypes, Points, coFrame, loopVars, outerVars
<1>8. CASE CloseFault(t)
    <2>1. CoTypes
        BY <1>8, LeaveType DEF CloseFault
    <2>2. faults' \in 0..MaxFaults
        BY <1>8, WorkerAssumption DEF WorkerTypeOK, CloseFault
    <2> QED
        BY <1>1, <1>8, <2>1, <2>2 DEF WorkerTypeOK, CloseFault, NoRows, coFrame, outerVars
<1> QED
    BY <1>2, <1>3, <1>4, <1>5, <1>6, <1>7, <1>8 DEF ProviderStep, CoStep

LEMMA WorkerTypeStep == WorkerTypeOK /\ TypeOK' /\ [WorkerNext]_vars => WorkerTypeOK'
<1> SUFFICES ASSUME WorkerTypeOK, TypeOK', [WorkerNext]_vars PROVE WorkerTypeOK'
    OBVIOUS
<1>1. CASE UNCHANGED vars
    BY <1>1 DEF WorkerTypeOK, vars, workerVars, loopVars, slotVars, coVars, outerVars, boundVars
<1> QED
    BY <1>1, UserTypeStep, ProcessTypeStep, LoopTypeStep, DispatchTypeStep, CoroutineTypeStep
    DEF WorkerNext

\* The worker keeps the types of its state: no slot without a provider of the
\* configuration, no capacity that is not a number, no phase off the map.
THEOREM WorkerTypeCorrect == WorkerSpec => []WorkerTypeOK
<1>1. ASSUME TypeOK, WorkerInit PROVE WorkerTypeOK
    <2>1. 1 \in 1..Len(LaneOrder)
        BY WorkerAssumption
    <2>2. /\ held \in [Tasks -> Holdings] /\ pool \in [Tasks -> Providers \cup {None}]
          /\ co \in [Tasks -> {"none"} \cup LivePoints \cup DonePoints]
        BY <1>1 DEF WorkerInit, Holdings
    <2>3. semCap \in [Providers -> Nat] /\ bills \in [Tasks -> Nat]
        BY <1>1 DEF WorkerInit
    <2>4. restarts \in 0..MaxRestarts /\ faults \in 0..MaxFaults
        BY <1>1, WorkerAssumption DEF WorkerInit
    <2> QED
        BY <1>1, <2>1, <2>2, <2>3, <2>4 DEF WorkerInit, WorkerTypeOK, LoopPoints
<1>2. WorkerSpec => []TypeOK
    BY WorkerKeepsQueuePromises, PTL
<1> QED
    BY <1>1, <1>2, WorkerTypeStep, PTL DEF WorkerSpec

-----------------------------------------------------------------------------
(* The inductive invariant.                                                *)

Unstarted == {"absent", "queued"}

\* A coroutine that exists, running or done, occupies a slot.
LedgerMatchesCoroutines == \A t \in Tasks : co[t] # "none" => held[t] \in SlotPhases

\* A resume never reaches a point from which the provider can be called, and
\* waits for its permit in the pending phase.
ResumesOnlyPoll ==
    \A t \in resumed :
        /\ co[t] \notin {"none", "routing", "calling", "returned"}
        /\ co[t] \in {"created", "waiting", "cancelled"} => held[t] = "pending"

\* What can still be submitted has not been: a task in the queue is in nobody's
\* hands, and neither a claimed task nor one on its way to the call is billed.
UnbilledBeforeCall ==
    \A t \in Tasks :
        /\ status[t] \in Unstarted => held[t] = "none" /\ bills[t] = 0
        /\ held[t] = "claimed" => bills[t] = 0
        /\ t \notin resumed /\ co[t] \in {"created", "routing", "calling"} => bills[t] = 0

BillingInv == LedgerMatchesCoroutines /\ ResumesOnlyPoll /\ UnbilledBeforeCall /\ BilledOnce

-----------------------------------------------------------------------------
(* Nothing goes back to the queue except in a bounce.                      *)

StaysStarted == \A u \in Tasks : status'[u] \in Unstarted => status[u] \in Unstarted

LEMMA CancelKeepsStarted ==
    ASSUME NEW t \in Tasks, NEW by, TypeOK, MarkCancelled(t, by) \/ MarkCancelling(t, by)
    PROVE  StaysStarted
BY DEF TypeOK, MarkCancelled, MarkCancelling, StaysStarted, Unstarted

LEMMA ClosingKeepsStarted ==
    ASSUME NEW t \in Tasks, TypeOK,
           \/ Finalize(t) \/ FailOrFinalize(t) \/ SucceedOrFinalize(t)
           \/ MarkFailed(t) \/ MarkSucceeded(t) \/ NoRows
    PROVE  StaysStarted
<1>1. CASE FinalizeCancelled(t)
    BY <1>1, CancelKeepsStarted DEF FinalizeCancelled
<1>2. CASE MarkFailed(t) \/ MarkSucceeded(t)
    BY <1>2 DEF TypeOK, MarkFailed, MarkSucceeded, SetStatus, StaysStarted, Unstarted
<1>3. CASE UNCHANGED status
    BY <1>3 DEF StaysStarted
<1> QED
    BY <1>1, <1>2, <1>3 DEF Finalize, FailOrFinalize, SucceedOrFinalize, NoRows, queueVars

LEMMA UserKeepsStarted ==
    ASSUME TypeOK, UserStep \/ CallStep
    PROVE  StaysStarted
<1>1. ASSUME NEW t \in Tasks, NEW seen, DispatchCancel(t, seen)
      PROVE  StaysStarted
    BY <1>1, CancelKeepsStarted DEF DispatchCancel, CancelTask, StaysStarted, queueVars
<1>2. ASSUME NEW t \in Tasks, NEW d, Enqueue(t, d)
      PROVE  StaysStarted
    BY <1>2 DEF TypeOK, Enqueue, StaysStarted, Unstarted
<1>3. ASSUME NEW p, UserCancelAll(p)
      PROVE  StaysStarted
    BY <1>3 DEF UserCancelAll, CancelAllQueued, SetStatus, StaysStarted, Unstarted
<1> QED
    BY <1>1, <1>2, <1>3 DEF UserStep, CallStep, WriteCancel, UserCancel, ReadCancel, UserEnqueue,
       ReloadLimits, StaysStarted, queueVars

-----------------------------------------------------------------------------
(* Steps on the slot ledger and the coroutines.                            *)

\* The loop and the dispatcher pass tasks without a coroutine from hand to hand.
LEMMA Handover ==
    ASSUME WorkerTypeOK, BillingInv, StaysStarted, UNCHANGED <<co, resumed, bills>>,
           \A u \in Tasks :
               \/ held'[u] = held[u]
               \/ /\ held[u] \notin SlotPhases /\ held'[u] \notin SlotPhases \cup {"claimed"}
                  /\ held'[u] = "none" \/ status[u] \notin Unstarted
    PROVE  BillingInv'
<1>1. LedgerMatchesCoroutines'
    BY DEF BillingInv, LedgerMatchesCoroutines
<1>2. ResumesOnlyPoll'
    <2>1. \A u \in resumed : u \in Tasks /\ held[u] \in SlotPhases
        BY DEF BillingInv, LedgerMatchesCoroutines, ResumesOnlyPoll, WorkerTypeOK
    <2> QED
        BY <2>1 DEF BillingInv, ResumesOnlyPoll
<1>3. UnbilledBeforeCall'
    BY DEF BillingInv, UnbilledBeforeCall, StaysStarted, SlotPhases
<1> QED
    BY <1>1, <1>2, <1>3 DEF BillingInv, BilledOnce

\* A coroutine moves on inside its slot.
LEMMA MovesOn ==
    ASSUME WorkerTypeOK, BillingInv, StaysStarted, NEW t \in Tasks, NEW point,
           co[t] # "none", point # "none",
           At(t, point), UNCHANGED <<held, resumed, bills>>,
           t \in resumed => \/ point \notin {"created", "waiting", "cancelled", "routing", "calling", "returned"}
                            \/ held[t] = "pending" /\ point \in {"waiting", "cancelled"},
           t \notin resumed /\ point \in {"created", "routing", "calling"} => bills[t] = 0
    PROVE  BillingInv'
<1>0. co' = [co EXCEPT ![t] = point] /\ co \in [Tasks -> Points]
    BY DEF At, WorkerTypeOK, Points
<1>1. LedgerMatchesCoroutines'
    BY <1>0 DEF BillingInv, LedgerMatchesCoroutines
<1>2. ResumesOnlyPoll'
    BY <1>0 DEF BillingInv, ResumesOnlyPoll, WorkerTypeOK
<1>3. UnbilledBeforeCall'
    BY <1>0 DEF BillingInv, UnbilledBeforeCall, StaysStarted
<1> QED
    BY <1>1, <1>2, <1>3 DEF BillingInv, BilledOnce

\* A coroutine ends.
LEMMA Leaves ==
    ASSUME WorkerTypeOK, BillingInv, StaysStarted, NEW t \in Tasks,
           co[t] # "none", UNCHANGED bills, Leave(t, "returned") \/ Leave(t, "cancelled")
    PROVE  BillingInv'
<1>1. CASE t \notin resumed
    BY <1>1, MovesOn DEF Leave, slotVars
<1>2. CASE t \in resumed
    <2>0. /\ held' = [held EXCEPT ![t] = "none"] /\ held \in [Tasks -> Holdings]
          /\ co' = [co EXCEPT ![t] = "none"] /\ co \in [Tasks -> Points]
          /\ resumed' = resumed \ {t} /\ resumed \subseteq Tasks
        BY <1>2 DEF Leave, Move, At, WorkerTypeOK, Points
    <2>1. LedgerMatchesCoroutines' /\ ResumesOnlyPoll'
        BY <2>0 DEF BillingInv, LedgerMatchesCoroutines, ResumesOnlyPoll
    <2>2. UnbilledBeforeCall'
        BY <2>0 DEF BillingInv, UnbilledBeforeCall, StaysStarted
    <2> QED
        BY <2>1, <2>2 DEF BillingInv, BilledOnce
<1> QED
    BY <1>1, <1>2

-----------------------------------------------------------------------------
(* Every step keeps the invariant.                                         *)

\* Users, callbacks, the life of the process.
LEMMA OuterKeepsBilling ==
    ASSUME WorkerTypeOK, BillingInv,
           \/ UserStep \/ CallStep \/ \E t \in Tasks : DeliverCancel(t)
           \/ Start \/ Crash \/ RequestStop \/ LoopFault \/ Stopped
    PROVE  BillingInv'
<1>1. CASE UserStep \/ CallStep
    <2>1. UNCHANGED <<held, co, resumed, bills>>
        BY <1>1 DEF UserStep, CallStep, WriteCancel, DispatchCancel, UserCancel, ReadCancel,
           UserEnqueue, UserCancelAll, ReloadLimits, workerVars, slotVars, coVars, outerVars
    <2> QED
        BY <1>1, <2>1, UserKeepsStarted, Handover DEF WorkerTypeOK
<1>2. CASE (\E t \in Tasks : DeliverCancel(t)) \/ Start \/ RequestStop
    BY <1>2, Handover DEF DeliverCancel, Start, RequestStop, slotVars, coVars, outerVars, StaysStarted,
       queueVars
<1>3. CASE Crash \/ Stopped
    <2>1. Forget
        BY <1>3 DEF Crash, Stopped
    <2>2. status' = status /\ bills' = bills
        BY <2>1 DEF Forget, AbandonClaim
    <2> QED
        BY <2>1, <2>2 DEF Forget, BillingInv, LedgerMatchesCoroutines, ResumesOnlyPoll,
           UnbilledBeforeCall, BilledOnce
<1>4. CASE LoopFault
    <2>1. UNCHANGED <<co, resumed, bills>> /\ StaysStarted
        BY <1>4 DEF LoopFault, coVars, outerVars, AbandonClaim, StaysStarted
    <2>2. \A u \in Tasks : held'[u] = held[u] \/ (held[u] \notin SlotPhases /\ held'[u] = "none")
        BY <1>4 DEF LoopFault, LoopLocal, SlotPhases
    <2>3. "none" \notin SlotPhases \cup {"claimed"}
        BY DEF SlotPhases
    <2> QED
        BY <2>1, <2>2, <2>3, Handover
<1> QED
    BY <1>1, <1>2, <1>3, <1>4

\* One task leaves the hands of the loop or the dispatcher, or changes them.
LEMMA HandsOn ==
    ASSUME WorkerTypeOK, BillingInv, StaysStarted, NEW t \in Tasks, NEW where \in {"none", "bucket"},
           UNCHANGED <<co, resumed, bills>>, Move(t, where),
           held[t] \notin SlotPhases \cup {"none"}
    PROVE  BillingInv'
<1>1. status[t] \notin Unstarted
    BY DEF BillingInv, UnbilledBeforeCall
<1>2. held' = [held EXCEPT ![t] = where] /\ held \in [Tasks -> Holdings]
    BY DEF Move, WorkerTypeOK
<1>3. where \notin SlotPhases \cup {"claimed"}
    BY DEF SlotPhases
<1> QED
    BY <1>1, <1>2, <1>3, Handover

\* The main loop.
LEMMA LoopKeepsBilling ==
    ASSUME WorkerTypeOK, BillingInv, LoopStep, ~Stopped
    PROVE  BillingInv'
<1> USE DEF SlotPhases
<1>0. TypeOK /\ held \in [Tasks -> Holdings] /\ co \in [Tasks -> Points]
    BY DEF WorkerTypeOK, Points
<1>1. CASE BeginStopping \/ DrainDone \/ RecoverDone
    BY <1>1, Handover DEF BeginStopping, DrainDone, RecoverDone, slotVars, coVars, outerVars,
       StaysStarted, queueVars
<1>2. CASE Drain
    <2>1. DEFINE done == {t \in Tasks : held[t] = "inflight" /\ co[t] \in DonePoints}
    <2>2. \A t \in done : t \notin resumed
        BY DEF BillingInv, ResumesOnlyPoll, DonePoints
    <2>3. \A t \in Tasks : /\ t \in done => co'[t] = "none" /\ held'[t] \in {"none", "drained"}
                           /\ t \notin done => co'[t] = co[t] /\ held'[t] = held[t]
        BY <1>2 DEF Drain
    <2>4. UNCHANGED <<status, resumed, bills>> /\ resumed \subseteq Tasks
        BY <1>2 DEF Drain, queueVars, outerVars, WorkerTypeOK
    <2>5. LedgerMatchesCoroutines' /\ ResumesOnlyPoll'
        BY <2>2, <2>3, <2>4 DEF BillingInv, LedgerMatchesCoroutines, ResumesOnlyPoll
    <2>6. UnbilledBeforeCall'
        BY <2>3, <2>4 DEF BillingInv, UnbilledBeforeCall
    <2> QED
        BY <2>4, <2>5, <2>6 DEF BillingInv, BilledOnce
<1>3. ASSUME NEW t \in Tasks, DrainCancelled(t) \/ RecoverCancelling(t)
      PROVE  BillingInv'
    <2>1. StaysStarted
        BY <1>0, <1>3, ClosingKeepsStarted DEF DrainCancelled, RecoverCancelling
    <2> QED
        BY <1>3, <2>1, HandsOn DEF DrainCancelled, RecoverCancelling, coVars, outerVars
<1>4. ASSUME NEW t \in Tasks, NEW p \in Providers, RecoverRunning(t, p)
      PROVE  BillingInv'
    <2>1. StaysStarted
        BY <1>0, <1>4, ClosingKeepsStarted DEF RecoverRunning
    <2> QED
        BY <1>4, <2>1, HandsOn DEF RecoverRunning, coVars, outerVars
<1>5. CASE ListOrphans
    <2>1. UNCHANGED <<co, resumed, bills, status>>
        BY <1>5 DEF ListOrphans, coVars, outerVars, queueVars
    <2>2. \A u \in Tasks :
              \/ held'[u] = held[u]
              \/ /\ held[u] \notin SlotPhases /\ held'[u] \in {"orphanRunning", "orphanCancelling"}
                 /\ status[u] \in {"running", "cancelling"}
        BY <1>5 DEF ListOrphans, SelfActive
    <2> QED
        BY <2>1, <2>2, Handover DEF StaysStarted, Unstarted
<1>6. ASSUME NEW t \in Tasks, SelectTask(t)
      PROVE  BillingInv'
    BY <1>6, Handover DEF SelectTask, PickNext, workerVars, slotVars, coVars, outerVars, StaysStarted
<1>7. ASSUME NEW t \in Tasks, Claim(t)
      PROVE  BillingInv'
    <2>1. /\ status[t] = "queued" /\ status' = [status EXCEPT ![t] = "running"]
          /\ held' = [held EXCEPT ![t] = "claimed"] /\ UNCHANGED <<co, resumed, bills>>
        BY <1>0, <1>7 DEF Claim, ClaimPicked, Move, coVars, outerVars, TypeOK
    <2>2. held[t] = "none" /\ co[t] = "none" /\ bills[t] = 0 /\ t \notin resumed
        BY <2>1 DEF BillingInv, LedgerMatchesCoroutines, ResumesOnlyPoll, UnbilledBeforeCall, Unstarted
    <2>3. LedgerMatchesCoroutines' /\ ResumesOnlyPoll'
        BY <1>0, <2>1, <2>2 DEF BillingInv, LedgerMatchesCoroutines, ResumesOnlyPoll, WorkerTypeOK
    <2>4. UnbilledBeforeCall'
        BY <1>0, <2>1, <2>2 DEF BillingInv, UnbilledBeforeCall, Unstarted, TypeOK
    <2> QED
        BY <2>1, <2>3, <2>4 DEF BillingInv, BilledOnce
<1>8. CASE NothingToClaim
    <2>1. StaysStarted
        BY <1>8 DEF NothingToClaim, ClaimPicked, queueVars, StaysStarted, Unstarted, TypeOK, WorkerTypeOK
    <2> QED
        BY <1>8, <2>1, Handover DEF NothingToClaim, slotVars, coVars, outerVars
<1>9. ASSUME NEW t \in Tasks, NEW p \in Providers, Unsupported(t, p)
      PROVE  BillingInv'
    <2>1. StaysStarted
        BY <1>0, <1>9, ClosingKeepsStarted DEF Unsupported, StaysStarted, queueVars
    <2> QED
        BY <1>9, <2>1, HandsOn DEF Unsupported, coVars, outerVars
<1>10. ASSUME NEW t \in Tasks, NEW p \in Providers, Bounce(t, p)
       PROVE  BillingInv'
    <2>1. /\ held[t] = "claimed" /\ held' = [held EXCEPT ![t] = "none"]
          /\ UNCHANGED <<co, resumed, bills>>
        BY <1>10 DEF Bounce, Move, coVars, outerVars
    <2>2. \A u \in Tasks \ {t} : status'[u] = status[u]
        BY <1>0, <1>10 DEF Bounce, RequeueSingle, TypeOK, queueVars
    <2>3. co[t] = "none" /\ bills[t] = 0 /\ t \notin resumed
        BY <2>1 DEF BillingInv, LedgerMatchesCoroutines, ResumesOnlyPoll, UnbilledBeforeCall
    <2>4. LedgerMatchesCoroutines' /\ ResumesOnlyPoll'
        BY <1>0, <2>1, <2>3 DEF BillingInv, LedgerMatchesCoroutines, ResumesOnlyPoll, WorkerTypeOK
    <2>5. UnbilledBeforeCall'
        BY <1>0, <2>1, <2>2, <2>3 DEF BillingInv, UnbilledBeforeCall
    <2> QED
        BY <2>1, <2>4, <2>5 DEF BillingInv, BilledOnce
<1>11. ASSUME NEW t \in Tasks, NEW p \in Providers, Register(t, p)
       PROVE  BillingInv'
    <2>1. /\ held[t] = "claimed" /\ held' = [held EXCEPT ![t] = "inflight"]
          /\ co' = [co EXCEPT ![t] = "created"] /\ UNCHANGED <<resumed, bills, status>>
        BY <1>11 DEF Register, Move, At, queueVars, outerVars
    <2>2. bills[t] = 0 /\ t \notin resumed /\ status[t] \notin Unstarted
        BY <2>1 DEF BillingInv, LedgerMatchesCoroutines, ResumesOnlyPoll, UnbilledBeforeCall
    <2>3. LedgerMatchesCoroutines' /\ ResumesOnlyPoll'
        BY <1>0, <2>1, <2>2 DEF BillingInv, LedgerMatchesCoroutines, ResumesOnlyPoll, WorkerTypeOK
    <2>4. UnbilledBeforeCall'
        BY <1>0, <2>1, <2>2 DEF BillingInv, UnbilledBeforeCall
    <2> QED
        BY <2>1, <2>3, <2>4 DEF BillingInv, BilledOnce
<1> QED
    BY <1>1, <1>2, <1>3, <1>4, <1>5, <1>6, <1>7, <1>8, <1>9, <1>10, <1>11 DEF LoopStep

\* The dispatcher of resumed orphans.
LEMMA DispatchKeepsBilling ==
    ASSUME WorkerTypeOK, BillingInv, NEW p \in Providers, DispatchStep(p)
    PROVE  BillingInv'
<1>0. UNCHANGED <<status, bills>> /\ held \in [Tasks -> Holdings]
    BY DEF DispatchStep, DispatchBucket, RefuseBucket, AbandonBucket, queueVars, outerVars, WorkerTypeOK
<1>1. \A t \in Bucket(p) : t \in Tasks /\ held[t] = "bucket"
    BY DEF Bucket
<1>2. \A t \in Bucket(p) : t \notin resumed /\ status[t] \notin Unstarted
    BY <1>1 DEF BillingInv, LedgerMatchesCoroutines, ResumesOnlyPoll, UnbilledBeforeCall, SlotPhases
<1>3. CASE DispatchBucket(p)
    <2>1. /\ resumed' = resumed \cup Bucket(p) /\ resumed \subseteq Tasks
          /\ \A t \in Tasks : /\ t \in Bucket(p) => co'[t] = "created" /\ held'[t] = "pending"
                              /\ t \notin Bucket(p) => co'[t] = co[t] /\ held'[t] = held[t]
        BY <1>3 DEF DispatchBucket, WorkerTypeOK
    <2>2. LedgerMatchesCoroutines' /\ ResumesOnlyPoll'
        BY <1>1, <2>1 DEF BillingInv, LedgerMatchesCoroutines, ResumesOnlyPoll, SlotPhases
    <2>3. UnbilledBeforeCall'
        BY <1>0, <1>2, <2>1 DEF BillingInv, UnbilledBeforeCall
    <2> QED
        BY <1>0, <2>2, <2>3 DEF BillingInv, BilledOnce
<1>4. CASE RefuseBucket(p) \/ AbandonBucket(p)
    <2>1. UNCHANGED <<co, resumed>>
        BY <1>4 DEF RefuseBucket, AbandonBucket, coVars
    <2>2. \A t \in Tasks :
              \/ held'[t] = held[t]
              \/ t \in Bucket(p) /\ held'[t] \in {"none", "refused"}
        BY <1>4 DEF RefuseBucket, AbandonBucket
    <2> QED
        BY <1>0, <1>1, <1>2, <2>1, <2>2, Handover DEF StaysStarted, SlotPhases
<1> QED
    BY <1>3, <1>4 DEF DispatchStep

\* A call to the provider is the first one of its task, and the last: the
\* coroutine is past the call and the task never returns to the queue.
LEMMA SubmitKeepsBilling ==
    ASSUME WorkerTypeOK, BillingInv, NEW t \in Tasks, Submit(t)
    PROVE  BillingInv'
<1>0. co \in [Tasks -> Points] /\ bills \in [Tasks -> Nat]
    BY DEF WorkerTypeOK, Points
<1>1. t \notin resumed /\ bills[t] = 0 /\ co[t] = "calling"
    BY DEF Submit, BillingInv, ResumesOnlyPoll, UnbilledBeforeCall
<1>2. held[t] \in SlotPhases /\ held[t] \notin {"none", "claimed"}
    BY <1>1 DEF BillingInv, LedgerMatchesCoroutines, SlotPhases
<1>3. /\ UNCHANGED <<status, held, resumed>>
      /\ bills' = [bills EXCEPT ![t] = bills[t] + 1]
      /\ co'[t] \in {"submitted", "polling"}
      /\ \A u \in Tasks \ {t} : co'[u] = co[u]
    BY <1>0 DEF Submit, Reach, At, NoRows, queueVars, slotVars
<1>4. LedgerMatchesCoroutines' /\ ResumesOnlyPoll'
    BY <1>1, <1>2, <1>3 DEF BillingInv, LedgerMatchesCoroutines, ResumesOnlyPoll, WorkerTypeOK
<1>5. UnbilledBeforeCall'
    BY <1>0, <1>2, <1>3 DEF BillingInv, UnbilledBeforeCall
<1>6. BilledOnce'
    BY <1>0, <1>1, <1>3 DEF BillingInv, BilledOnce
<1> QED
    BY <1>4, <1>5, <1>6 DEF BillingInv

\* The coroutines.
LEMMA CoroutineKeepsBilling ==
    ASSUME WorkerTypeOK, BillingInv, NEW t \in Tasks,
           FailRefused(t) \/ ProviderStep(t) \/ CoStep(t) \/ CloseFault(t)
    PROVE  BillingInv'
<1>0. TypeOK
    BY DEF WorkerTypeOK
<1>1. CASE FailRefused(t)
    <2>1. StaysStarted
        BY <1>0, <1>1, ClosingKeepsStarted DEF FailRefused
    <2> QED
        BY <1>1, <2>1, HandsOn DEF FailRefused, coVars, outerVars, SlotPhases
<1>2. CASE Submit(t)
    BY <1>2, SubmitKeepsBilling
<1>3. ASSUME NoRows, UNCHANGED bills
      PROVE  StaysStarted
    BY <1>3 DEF NoRows, queueVars, StaysStarted
<1>4. CASE Result(t)
    BY <1>3, <1>4, MovesOn DEF Result, Reach, slotVars, coFrame, outerVars
<1>5. CASE FirstStep(t)
    <2>1. t \in resumed => held[t] = "pending"
        BY <1>5 DEF FirstStep, BillingInv, ResumesOnlyPoll
    <2>2. t \notin resumed => bills[t] = 0
        BY <1>5 DEF FirstStep, BillingInv, UnbilledBeforeCall
    <2>3. PICK point \in {"cancelled", "waiting", "routing"} :
              /\ At(t, point) /\ UNCHANGED <<held, resumed, bills>>
              /\ t \in resumed => point # "routing"
              /\ t \notin resumed => point # "waiting"
        BY <1>5 DEF FirstStep, Reach, slotVars, coFrame, outerVars
    <2>4. co[t] # "none" /\ StaysStarted
        BY <1>3, <1>5, <2>3 DEF FirstStep
    <2> QED
        BY <2>1, <2>2, <2>3, <2>4, MovesOn
<1>6. CASE Route(t)
    <2>1. t \notin resumed /\ bills[t] = 0 /\ co[t] = "routing"
        BY <1>6 DEF Route, BillingInv, ResumesOnlyPoll, UnbilledBeforeCall
    <2>2. UNCHANGED bills /\ StaysStarted
        BY <1>3, <1>6 DEF Route, coFrame, outerVars
    <2> QED
        BY <1>6, <2>1, <2>2, MovesOn, Leaves DEF Route, Reach, slotVars
<1>7. CASE PersistJob(t)
    BY <1>3, <1>7, MovesOn DEF PersistJob, Reach, slotVars
<1>8. CASE Acquire(t)
    <2>1. co[t] = "waiting" /\ UNCHANGED bills /\ StaysStarted
        BY <1>3, <1>8 DEF Acquire, coFrame, outerVars
    <2>2. CASE stop
        BY <1>8, <2>1, <2>2, Leaves DEF Acquire
    <2>3. CASE ~stop
        <3>1. /\ held' = [held EXCEPT ![t] = "inflight"] /\ held \in [Tasks -> Holdings]
              /\ co' = [co EXCEPT ![t] = "polling"] /\ co \in [Tasks -> Points]
              /\ UNCHANGED <<resumed, status>>
            BY <1>8, <2>3 DEF Acquire, Move, At, NoRows, queueVars, WorkerTypeOK, Points
        <3>2. held[t] \in SlotPhases
            BY <2>1 DEF BillingInv, LedgerMatchesCoroutines
        <3>3. LedgerMatchesCoroutines' /\ ResumesOnlyPoll'
            BY <3>1, <3>2 DEF BillingInv, LedgerMatchesCoroutines, ResumesOnlyPoll, SlotPhases, WorkerTypeOK
        <3>4. UnbilledBeforeCall'
            BY <2>1, <3>1, <3>2 DEF BillingInv, UnbilledBeforeCall, SlotPhases
        <3> QED
            BY <2>1, <3>3, <3>4 DEF BillingInv, BilledOnce
    <2> QED
        BY <2>2, <2>3
<1>9. CASE Interrupted(t)
    <2>1. co[t] # "none" /\ UNCHANGED bills /\ StaysStarted
        BY <1>3, <1>9 DEF Interrupted, coFrame, outerVars
    <2> QED
        BY <1>9, <2>1, MovesOn, Leaves DEF Interrupted, slotVars
<1>10. CASE Conclude(t)
    <2>1. StaysStarted
        BY <1>0, <1>10, ClosingKeepsStarted DEF Conclude
    <2> QED
        BY <1>10, <2>1, Leaves DEF Conclude, coFrame, outerVars
<1>11. CASE CloseFault(t)
    BY <1>3, <1>11, Leaves DEF CloseFault, coFrame, outerVars
<1> QED
    BY <1>1, <1>2, <1>4, <1>5, <1>6, <1>7, <1>8, <1>9, <1>10, <1>11 DEF ProviderStep, CoStep

LEMMA BillingStep == WorkerTypeOK /\ BillingInv /\ [WorkerNext]_vars => BillingInv'
<1> SUFFICES ASSUME WorkerTypeOK, BillingInv, [WorkerNext]_vars PROVE BillingInv'
    OBVIOUS
<1>1. CASE UNCHANGED vars
    BY <1>1, Handover DEF vars, workerVars, queueVars, slotVars, coVars, outerVars, StaysStarted
<1> QED
    BY <1>1, OuterKeepsBilling, LoopKeepsBilling, DispatchKeepsBilling, CoroutineKeepsBilling
    DEF WorkerNext

\* Crashes, stops, faults, cancels at any point, bounces, requeues and resumes
\* included, no task is submitted to a provider a second time (ADR 0007).
THEOREM NeverBilledTwice == WorkerSpec => []BilledOnce
<1>1. WorkerInit => BillingInv
    BY DEF WorkerInit, Init, BillingInv, LedgerMatchesCoroutines, ResumesOnlyPoll, UnbilledBeforeCall,
       BilledOnce
<1>2. BillingInv => BilledOnce
    BY DEF BillingInv
<1> QED
    BY <1>1, <1>2, BillingStep, WorkerTypeCorrect, PTL DEF WorkerSpec
=============================================================================
