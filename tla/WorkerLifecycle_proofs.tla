------------------------ MODULE WorkerLifecycle_proofs ------------------------
(***************************************************************************)
(* What the worker keeps of a task from its claim to its end, for every    *)
(* instance: a row that runs is in somebody's hands, nobody ends a task    *)
(* under its coroutine, and the steps of the system are steps of the life  *)
(* cycle of TaskLifecycle.  The last two need one assumption, which the    *)
(* run cancel_race shows to be necessary: that no cancel writes after the  *)
(* task it saw queued was claimed.  And pools: no provider has more tasks  *)
(* at work than it may, fresh claims and resumed orphans together.         *)
(***************************************************************************)
EXTENDS GenerationWorker_proofs, FiniteSetTheorems

-----------------------------------------------------------------------------
(* Only a claim makes a task run.                                          *)

NothingStarts == \A u \in Tasks : status'[u] = "running" => status[u] = "running"

LEMMA ClosingStartsNothing ==
    ASSUME NEW t \in Tasks, TypeOK,
           \/ Finalize(t) \/ FailOrFinalize(t) \/ SucceedOrFinalize(t)
           \/ MarkFailed(t) \/ MarkSucceeded(t) \/ NoRows
    PROVE  NothingStarts
<1>1. CASE FinalizeCancelled(t)
    BY <1>1 DEF FinalizeCancelled, MarkCancelled, NothingStarts
<1>2. CASE MarkFailed(t) \/ MarkSucceeded(t)
    BY <1>2 DEF TypeOK, MarkFailed, MarkSucceeded, SetStatus, NothingStarts
<1>3. CASE UNCHANGED status
    BY <1>3 DEF NothingStarts
<1> QED
    BY <1>1, <1>2, <1>3 DEF Finalize, FailOrFinalize, SucceedOrFinalize, NoRows, queueVars

\* A closing write leaves its task ended, whatever it found.
LEMMA ClosingEnds ==
    ASSUME NEW t \in Tasks, TypeOK,
           Finalize(t) \/ FailOrFinalize(t) \/ SucceedOrFinalize(t)
    PROVE  status'[t] # "running"
<1>1. CASE FinalizeCancelled(t)
    BY <1>1 DEF FinalizeCancelled, MarkCancelled
<1>2. CASE MarkFailed(t) \/ MarkSucceeded(t)
    BY <1>2 DEF TypeOK, MarkFailed, MarkSucceeded, SetStatus
<1>3. CASE UNCHANGED status /\ status[t] # "running"
    BY <1>3
<1> QED
    BY <1>1, <1>2, <1>3
    DEF Finalize, FailOrFinalize, SucceedOrFinalize, NoRows, queueVars, Active

LEMMA UserStartsNothing ==
    ASSUME TypeOK, UserStep \/ CallStep
    PROVE  NothingStarts
<1>1. ASSUME NEW t \in Tasks, NEW seen, DispatchCancel(t, seen)
      PROVE  NothingStarts
    BY <1>1 DEF DispatchCancel, CancelTask, MarkCancelled, MarkCancelling, TypeOK, NothingStarts, queueVars
<1>2. ASSUME NEW t \in Tasks, NEW d, Enqueue(t, d)
      PROVE  NothingStarts
    BY <1>2 DEF TypeOK, Enqueue, NothingStarts
<1>3. ASSUME NEW p, UserCancelAll(p)
      PROVE  NothingStarts
    BY <1>3 DEF UserCancelAll, CancelAllQueued, SetStatus, NothingStarts
<1> QED
    BY <1>1, <1>2, <1>3 DEF UserStep, CallStep, WriteCancel, UserCancel, ReadCancel, UserEnqueue,
       ReloadLimits, NothingStarts, queueVars

-----------------------------------------------------------------------------
(* Nothing running is forgotten.                                           *)

Healthy == ~stop /\ worker # "dead" /\ faults = 0

\* The orphans have been listed since the start of the process.
Listed == scanned \/ worker = "recover"

\* While the orphans are being settled they are in the loop's hands already.
RunningIsHeld ==
    Healthy /\ Listed => \A t \in Tasks : status[t] = "running" => held[t] # "none"

\* A coroutine of a healthy process has closed its row before it returns, so
\* that the drain, which only gives the slot back, forgets nothing.
ReturnedIsClosed ==
    Healthy => \A t \in Tasks : co[t] = "returned" => status[t] # "running"

OwnedInv == RunningIsHeld /\ ReturnedIsClosed

\* Steps that neither start a task nor let go of one.
LEMMA Holds ==
    ASSUME OwnedInv, Healthy' => Healthy, Listed' => Listed, NothingStarts,
           \A u \in Tasks : held'[u] = "none" /\ held[u] # "none" => ~Healthy' \/ status'[u] # "running",
           \A u \in Tasks : co'[u] = "returned" /\ co[u] # "returned" => ~Healthy' \/ status'[u] # "running"
    PROVE  OwnedInv'
BY DEF OwnedInv, RunningIsHeld, ReturnedIsClosed, NothingStarts

LEMMA OuterKeepsOwned ==
    ASSUME WorkerTypeOK, OwnedInv,
           \/ UserStep \/ CallStep \/ \E t \in Tasks : DeliverCancel(t)
           \/ Start \/ Crash \/ RequestStop \/ LoopFault \/ Stopped
    PROVE  OwnedInv'
<1>1. CASE UserStep \/ CallStep
    <2>1. UNCHANGED <<held, co, worker, scanned, stop, faults>>
        BY <1>1 DEF UserStep, CallStep, WriteCancel, DispatchCancel, UserCancel, ReadCancel,
           UserEnqueue, UserCancelAll, ReloadLimits, workerVars, slotVars, coVars, loopVars, boundVars
    <2> QED
        BY <1>1, <2>1, UserStartsNothing, Holds DEF WorkerTypeOK, Healthy, Listed
<1>2. CASE (\E t \in Tasks : DeliverCancel(t)) \/ Start \/ RequestStop
    BY <1>2, Holds DEF DeliverCancel, Start, RequestStop, slotVars, coVars, loopVars, boundVars,
       NothingStarts, queueVars, Healthy, Listed
<1>3. CASE Crash \/ Stopped
    BY <1>3 DEF Crash, Stopped, Forget, OwnedInv, RunningIsHeld, ReturnedIsClosed, Listed
<1>4. CASE LoopFault
    BY <1>4 DEF LoopFault, OwnedInv, RunningIsHeld, ReturnedIsClosed, Healthy
<1> QED
    BY <1>1, <1>2, <1>3, <1>4

LEMMA LoopKeepsOwned ==
    ASSUME WorkerTypeOK, BillingInv, OwnedInv, LoopStep, ~Stopped
    PROVE  OwnedInv'
<1>0. TypeOK /\ held \in [Tasks -> Holdings] /\ co \in [Tasks -> Points] /\ faults \in Nat
    BY WorkerAssumption DEF WorkerTypeOK, Points
<1>1. CASE BeginStopping \/ DrainDone
    BY <1>1, Holds DEF BeginStopping, DrainDone, Seek, slotVars, coVars, boundVars,
       NothingStarts, queueVars, Healthy, Listed
<1>2. CASE RecoverDone
    BY <1>2, Holds DEF RecoverDone, Seek, slotVars, coVars, boundVars,
       NothingStarts, queueVars, Healthy, Listed
<1>3. CASE Drain
    <2>1. /\ UNCHANGED <<status, scanned, stop, faults>>
          /\ worker # "dead" /\ worker # "recover" /\ worker' = "drain"
        BY <1>3 DEF Drain, queueVars, boundVars
    <2>2. \A u \in Tasks : held'[u] = "none" /\ held[u] # "none" => co[u] = "returned"
        BY <1>3 DEF Drain, DonePoints
    <2>3. \A u \in Tasks : co'[u] = "returned" => co[u] = "returned"
        BY <1>3 DEF Drain
    <2> QED
        BY <2>1, <2>2, <2>3 DEF OwnedInv, RunningIsHeld, ReturnedIsClosed, Healthy, Listed
<1>4. ASSUME NEW t \in Tasks, DrainCancelled(t) \/ RecoverCancelling(t)
      PROVE  OwnedInv'
    <2>1. NothingStarts
        BY <1>0, <1>4, ClosingStartsNothing DEF DrainCancelled, RecoverCancelling
    <2>2. status'[t] # "running" \/ faults' # 0
        BY <1>0, <1>4, ClosingEnds DEF DrainCancelled, RecoverCancelling
    <2>3. /\ \A u \in Tasks \ {t} : held'[u] = held[u]
          /\ UNCHANGED <<worker, scanned, stop, co>> /\ faults' \in {faults, faults + 1}
        BY <1>0, <1>4 DEF DrainCancelled, RecoverCancelling, Move, loopVars, coVars, boundVars
    <2> QED
        BY <1>0, <2>1, <2>2, <2>3, Holds DEF Healthy, Listed
<1>5. ASSUME NEW t \in Tasks, NEW p \in Providers, RecoverRunning(t, p)
      PROVE  OwnedInv'
    <2>1. NothingStarts
        BY <1>0, <1>5, ClosingStartsNothing DEF RecoverRunning
    <2>2. held'[t] # "none" \/ status'[t] # "running"
        BY <1>0, <1>5, ClosingEnds DEF RecoverRunning, Move
    <2>3. /\ \A u \in Tasks \ {t} : held'[u] = held[u]
          /\ UNCHANGED <<worker, scanned, stop, co, faults>>
        BY <1>0, <1>5 DEF RecoverRunning, Move, loopVars, coVars, boundVars
    <2> QED
        BY <2>1, <2>2, <2>3, Holds DEF Healthy, Listed
<1>6. CASE ListOrphans
    <2>1. /\ UNCHANGED <<status, co, scanned, stop, faults>> /\ worker # "dead"
          /\ \A u \in Tasks : status[u] = "running" => held'[u] # "none"
        BY <1>6 DEF ListOrphans, SelfActive, SlotPhases, queueVars, coVars, boundVars
    <2> QED
        BY <2>1 DEF OwnedInv, RunningIsHeld, ReturnedIsClosed, Healthy
<1>7. ASSUME NEW t \in Tasks, SelectTask(t)
      PROVE  OwnedInv'
    BY <1>7, Holds DEF SelectTask, PickNext, workerVars, loopVars, slotVars, coVars, boundVars,
       NothingStarts, Healthy, Listed
<1>8. ASSUME NEW t \in Tasks, Claim(t)
      PROVE  OwnedInv'
    <2>1. /\ status[t] = "queued" /\ status' = [status EXCEPT ![t] = "running"]
          /\ held' = [held EXCEPT ![t] = "claimed"]
          /\ UNCHANGED <<co, scanned, stop, faults>> /\ worker = "claim" /\ worker' = "window"
        BY <1>0, <1>8 DEF Claim, ClaimPicked, Move, coVars, boundVars, TypeOK
    <2>2. co[t] = "none"
        BY <2>1 DEF BillingInv, LedgerMatchesCoroutines, UnbilledBeforeCall, Unstarted, SlotPhases
    <2>3. \A u \in Tasks : u # t => status'[u] = status[u] /\ held'[u] = held[u]
        BY <1>0, <2>1
    <2> QED
        BY <1>0, <2>1, <2>2, <2>3 DEF OwnedInv, RunningIsHeld, ReturnedIsClosed, Healthy, Listed
<1>9. CASE NothingToClaim
    <2>1. NothingStarts
        BY <1>0, <1>9 DEF NothingToClaim, ClaimPicked, queueVars, NothingStarts, TypeOK
    <2>2. /\ UNCHANGED <<held, co, scanned, stop, faults>>
          /\ worker = "claim" /\ worker' \in {"claim", "top"}
        BY <1>9 DEF NothingToClaim, NextLane, Seek, slotVars, coVars, boundVars
    <2> QED
        BY <2>1, <2>2, Holds DEF Healthy, Listed
<1>10. ASSUME NEW t \in Tasks, NEW p \in Providers,
              Unsupported(t, p) \/ Bounce(t, p) \/ Register(t, p)
       PROVE  OwnedInv'
    <2>1. NothingStarts
        <3>1. CASE Unsupported(t, p)
            BY <1>0, <3>1, ClosingStartsNothing DEF Unsupported, NothingStarts, queueVars
        <3>2. CASE Bounce(t, p) \/ Register(t, p)
            BY <1>0, <3>2 DEF Bounce, Register, RequeueSingle, TypeOK, NothingStarts, queueVars
        <3> QED
            BY <1>10, <3>1, <3>2
    <2>2. held'[t] # "none" \/ status'[t] # "running" \/ faults' # 0
        <3>1. CASE Unsupported(t, p)
            BY <1>0, <3>1 DEF Unsupported, MarkFailed, SetStatus, queueVars
        <3>2. CASE Bounce(t, p)
            BY <1>0, <3>2 DEF Bounce, RequeueSingle, TypeOK, queueVars
        <3>3. CASE Register(t, p)
            BY <1>0, <3>3 DEF Register, Move
        <3> QED
            BY <1>10, <3>1, <3>2, <3>3
    <2>3. /\ \A u \in Tasks \ {t} : held'[u] = held[u]
          /\ UNCHANGED <<scanned, stop>> /\ faults' \in {faults, faults + 1}
          /\ worker = "window" /\ worker' \in {"claim", "top"}
        BY <1>0, <1>10 DEF Unsupported, Bounce, Register, NextLane, Seek, Move, boundVars
    <2>4. \A u \in Tasks : co'[u] = "returned" => co[u] = "returned"
        BY <1>0, <1>10 DEF Unsupported, Bounce, Register, At, coVars
    <2> QED
        BY <1>0, <2>1, <2>2, <2>3, <2>4, Holds DEF Healthy, Listed
<1> QED
    BY <1>1, <1>2, <1>3, <1>4, <1>5, <1>6, <1>7, <1>8, <1>9, <1>10 DEF LoopStep

LEMMA DispatchKeepsOwned ==
    ASSUME WorkerTypeOK, OwnedInv, NEW p \in Providers, DispatchStep(p)
    PROVE  OwnedInv'
<1>1. NothingStarts /\ UNCHANGED <<worker, scanned, stop, faults>>
    BY DEF DispatchStep, DispatchBucket, RefuseBucket, AbandonBucket, queueVars, loopVars, boundVars,
       NothingStarts
<1>2. \A u \in Tasks : held'[u] = "none" /\ held[u] # "none" => stop
    BY DEF DispatchStep, DispatchBucket, RefuseBucket, AbandonBucket
<1>3. \A u \in Tasks : co'[u] = "returned" => co[u] = "returned"
    BY DEF DispatchStep, DispatchBucket, RefuseBucket, AbandonBucket, coVars
<1> QED
    BY <1>1, <1>2, <1>3, Holds DEF Healthy, Listed

LEMMA CoroutineKeepsOwned ==
    ASSUME WorkerTypeOK, BillingInv, OwnedInv, NEW t \in Tasks,
           FailRefused(t) \/ ProviderStep(t) \/ CoStep(t) \/ CloseFault(t)
    PROVE  OwnedInv'
<1>0. TypeOK /\ held \in [Tasks -> Holdings] /\ co \in [Tasks -> Points] /\ faults \in Nat
    BY WorkerAssumption DEF WorkerTypeOK, Points
<1>1. NothingStarts
    <2>1. CASE FailRefused(t) \/ Conclude(t)
        BY <1>0, <2>1, ClosingStartsNothing DEF FailRefused, Conclude
    <2> QED
        BY <2>1 DEF ProviderStep, CoStep, CloseFault, Submit, Result, FirstStep, Route, PersistJob,
           Acquire, Interrupted, NoRows, queueVars, NothingStarts
<1>2. UNCHANGED <<worker, scanned, stop>> /\ faults' \in {faults, faults + 1}
    BY DEF FailRefused, ProviderStep, CoStep, CloseFault, Submit, Result, FirstStep, Route, PersistJob,
           Acquire, Interrupted, Conclude, coFrame, loopVars, boundVars
<1>3. ASSUME NEW how \in {"returned", "cancelled"}, Leave(t, how)
      PROVE  /\ \A u \in Tasks \ {t} : held'[u] = held[u] /\ co'[u] = co[u]
             /\ t \notin resumed => held' = held
             /\ how = "cancelled" => co'[t] # "returned"
    BY <1>0, <1>3 DEF Leave, Move, At, slotVars
<1>4. ASSUME NEW point, point # "returned", Reach(t, point) \/ (At(t, point) /\ UNCHANGED held)
      PROVE  held' = held /\ \A u \in Tasks : co'[u] = "returned" => co[u] = "returned"
    BY <1>0, <1>4 DEF Reach, At, slotVars
<1>5. CASE FailRefused(t)
    <2>1. status'[t] # "running"
        BY <1>0, <1>5, ClosingEnds DEF FailRefused
    <2>2. (\A u \in Tasks \ {t} : held'[u] = held[u]) /\ UNCHANGED <<co, faults>>
        BY <1>0, <1>5 DEF FailRefused, Move, coVars, boundVars
    <2> QED
        BY <1>1, <1>2, <2>1, <2>2, Holds DEF Healthy, Listed
<1>6. CASE held' = held /\ \A u \in Tasks : co'[u] = "returned" => co[u] = "returned"
    BY <1>0, <1>1, <1>2, <1>6, Holds DEF Healthy, Listed
<1>7. CASE Submit(t) \/ Result(t) \/ FirstStep(t) \/ PersistJob(t)
    BY <1>4, <1>6, <1>7 DEF Submit, Result, FirstStep, PersistJob, slotVars
<1>8. CASE Route(t)
    <2>1. t \notin resumed
        BY <1>8 DEF Route, BillingInv, ResumesOnlyPoll
    <2> QED
        BY <1>3, <1>4, <1>6, <1>8, <2>1 DEF Route
<1>9. CASE Interrupted(t)
    BY <1>3, <1>4, <1>6, <1>9 DEF Interrupted, slotVars
<1>10. CASE Acquire(t)
    <2>1. CASE stop
        BY <1>1, <1>2, <2>1, Holds DEF Healthy, Listed, OwnedInv, RunningIsHeld, ReturnedIsClosed
    <2>2. CASE ~stop
        <3>1. /\ \A u \in Tasks : held'[u] = "none" => held[u] = "none"
              /\ \A u \in Tasks : co'[u] = "returned" => co[u] = "returned"
            BY <1>0, <1>10, <2>2 DEF Acquire, Move, At
        <3> QED
            BY <1>0, <1>1, <1>2, <3>1, Holds DEF Healthy, Listed
    <2> QED
        BY <2>1, <2>2
<1>11. CASE Conclude(t)
    <2>1. status'[t] # "running"
        BY <1>0, <1>11, ClosingEnds DEF Conclude
    <2>2. \A u \in Tasks \ {t} : held'[u] = held[u] /\ co'[u] = co[u]
        BY <1>3, <1>11 DEF Conclude
    <2> QED
        BY <1>0, <1>1, <1>2, <2>1, <2>2, Holds DEF Healthy, Listed
<1>12. CASE CloseFault(t)
    <2>1. faults' # 0
        BY <1>0, <1>12 DEF CloseFault
    <2> QED
        BY <2>1 DEF Healthy, OwnedInv, RunningIsHeld, ReturnedIsClosed
<1> QED
    BY <1>5, <1>7, <1>8, <1>9, <1>10, <1>11, <1>12 DEF ProviderStep, CoStep

LEMMA OwnedStep == WorkerTypeOK /\ BillingInv /\ OwnedInv /\ [WorkerNext]_vars => OwnedInv'
<1> SUFFICES ASSUME WorkerTypeOK, BillingInv, OwnedInv, [WorkerNext]_vars PROVE OwnedInv'
    OBVIOUS
<1>1. CASE UNCHANGED vars
    BY <1>1, Holds DEF vars, workerVars, queueVars, slotVars, coVars, loopVars, boundVars,
       NothingStarts, Healthy, Listed
<1> QED
    BY <1>1, OuterKeepsOwned, LoopKeepsOwned, DispatchKeepsOwned, CoroutineKeepsOwned
    DEF WorkerNext

\* In a healthy process that has scanned its orphans, every running row is in
\* the hands of the loop, the dispatcher or a coroutine: no restart is needed
\* to settle it.
THEOREM NothingRunningIsForgotten == WorkerSpec => []RunningIsOwned
<1>1. WorkerInit => BillingInv /\ OwnedInv
    BY DEF WorkerInit, Init, BillingInv, LedgerMatchesCoroutines, ResumesOnlyPoll, UnbilledBeforeCall,
       BilledOnce, OwnedInv, RunningIsHeld, ReturnedIsClosed
<1>2. OwnedInv => RunningIsOwned
    BY DEF OwnedInv, RunningIsHeld, RunningIsOwned, Healthy, Listed
<1> QED
    BY <1>1, <1>2, BillingStep, OwnedStep, WorkerTypeCorrect, PTL DEF WorkerSpec
-----------------------------------------------------------------------------
(* Nobody ends a task under its coroutine.                                 *)

Open(s) == s \in {"running", "cancelling"}
Asked(s) == s \in {"cancelling", "cancelled"}

\* No cancel writes after the task it saw queued was claimed.
NoStaleCancel ==
    \A t \in Tasks : <<t, "queued">> \in calls => ~Open(status[t])

\* Who holds a task to work on it, now or later.
ToBeWorkedOn(t) == co[t] \in LivePoints \/ held[t] \in {"claimed", "orphanRunning", "bucket"}

\* Who holds a task because it is cancelled.
ToBeCancelled(t) ==
    \/ t \in signals \cup cancelReq
    \/ co[t] \in {"cancelling", "cancelled"}
    \/ held[t] \in {"drained", "orphanCancelling"}

\* What is to be worked on is open, and what is treated as cancelled was asked
\* to stop: so the cancel of a running row always goes through cancelling.
OpenInv ==
    \A t \in Tasks : /\ ToBeWorkedOn(t) => Open(status[t])
                     /\ ToBeCancelled(t) => Asked(status[t])

\* No running row is cancelled at once.
SparesRunning == \A u \in Tasks : status[u] = "running" => status'[u] # "cancelled"

StaysOpen(u) == Open(status[u]) => Open(status'[u])

\* Signals are sent to tasks that are being cancelled.
SignalsAsked == \A u \in Tasks : u \in signals' => u \in signals \/ Asked(status'[u])

LEMMA AskedStays ==
    ASSUME TypeOK, [WorkerNext]_vars, NEW u \in Tasks, Asked(status[u])
    PROVE  Asked(status'[u])
<1>1. TaskStep(u)
    BY WorkerStepIsQueueStep, EveryTaskSteps
<1> QED
    BY <1>1 DEF TaskStep, Moves, Asked

\* A step of the holder of t: everything else stays open.
LEMMA OneTaskMoves ==
    ASSUME TypeOK, OpenInv, [WorkerNext]_vars, NEW t \in Tasks,
           \A u \in Tasks \ {t} : StaysOpen(u),
           SignalsAsked,
           \A u \in Tasks \ {t} : /\ ToBeWorkedOn(u)' => ToBeWorkedOn(u)
                                  /\ ToBeCancelled(u)' => ToBeCancelled(u) \/ u \in signals',
           ToBeWorkedOn(t)' => Open(status'[t]),
           ToBeCancelled(t)' => Asked(status'[t]) \/ Asked(status[t])
    PROVE  OpenInv'
<1> SUFFICES ASSUME NEW u \in Tasks
             PROVE  /\ ToBeWorkedOn(u)' => Open(status'[u])
                    /\ ToBeCancelled(u)' => Asked(status'[u])
    BY DEF OpenInv
<1>1. Asked(status[u]) => Asked(status'[u])
    BY AskedStays
<1>2. u \in signals => ToBeCancelled(u)
    BY DEF ToBeCancelled
<1> QED
    BY <1>1, <1>2 DEF OpenInv, StaysOpen, SignalsAsked

\* A cascade meets queued tasks, and turns running ones to cancelling.
LEMMA ClosingSparesOthers ==
    ASSUME TypeOK, NEW t \in Tasks,
           \/ Finalize(t) \/ FailOrFinalize(t) \/ SucceedOrFinalize(t) \/ NoRows
           \/ MarkFailed(t) /\ UNCHANGED signals
           \/ RequeueSingle(t) /\ UNCHANGED signals
    PROVE  (\A u \in Tasks \ {t} : StaysOpen(u)) /\ SignalsAsked
<1>1. CASE FinalizeCancelled(t) /\ signals' = signals \cup CascadedRunning(t)
    <2>1. QueuedBelow(t) \subseteq {v \in Tasks : status[v] = "queued"}
        BY QueuedBelowQueued
    <2> DEFINE ended == {t} \cup QueuedBelow(t)
    <2>2. \A u \in Tasks : status'[u] = IF u \in ended THEN "cancelled"
                                        ELSE IF u \in RunningDependents(ended) THEN "cancelling"
                                        ELSE status[u]
        BY <1>1 DEF FinalizeCancelled, MarkCancelled
    <2>3. \A u \in RunningDependents(ended) \ {t} : u \in Tasks /\ u \notin ended
        BY <2>1 DEF RunningDependents
    <2>4. CascadedRunning(t) = RunningDependents(ended) \ {t}
        BY DEF CascadedRunning
    <2> HIDE DEF ended
    <2>5. \A u \in Tasks \ {t} : u \in ended => status[u] = "queued"
        BY <2>1 DEF ended
    <2> QED
        BY <1>1, <2>2, <2>3, <2>4, <2>5 DEF StaysOpen, Open, SignalsAsked, Asked
<1>2. CASE MarkFailed(t) /\ UNCHANGED signals
    <2>1. QueuedBelow(t) \subseteq {v \in Tasks : status[v] = "queued"}
        BY QueuedBelowQueued
    <2> QED
        BY <1>2, <2>1 DEF MarkFailed, SetStatus, StaysOpen, Open, SignalsAsked
<1>3. CASE (MarkSucceeded(t) \/ RequeueSingle(t)) /\ UNCHANGED signals
    BY <1>3 DEF MarkSucceeded, RequeueSingle, TypeOK, StaysOpen, SignalsAsked
<1>4. CASE NoRows
    BY <1>4 DEF NoRows, queueVars, StaysOpen, SignalsAsked
<1> QED
    BY <1>1, <1>2, <1>3, <1>4 DEF Finalize, FailOrFinalize, SucceedOrFinalize, NoRows

\* The 0-rows protocol cancels nothing that runs, once the task it was asked
\* to cancel does not.
LEMMA ClosingSparesRunning ==
    ASSUME TypeOK, NEW t \in Tasks,
           \/ Finalize(t) /\ status[t] # "running"
           \/ FailOrFinalize(t) \/ SucceedOrFinalize(t) \/ MarkFailed(t) \/ RequeueSingle(t) \/ NoRows
    PROVE  SparesRunning
<1>1. CASE FinalizeCancelled(t) /\ status[t] # "running"
    <2>1. QueuedBelow(t) \subseteq {v \in Tasks : status[v] = "queued"}
        BY QueuedBelowQueued
    <2> QED
        BY <1>1, <2>1 DEF FinalizeCancelled, MarkCancelled, SparesRunning
<1>2. CASE MarkFailed(t) \/ MarkSucceeded(t) \/ RequeueSingle(t)
    BY <1>2 DEF MarkFailed, MarkSucceeded, RequeueSingle, SetStatus, TypeOK, SparesRunning
<1>3. CASE UNCHANGED status
    BY <1>3 DEF SparesRunning
<1> QED
    BY <1>1, <1>2, <1>3 DEF Finalize, FailOrFinalize, SucceedOrFinalize, NoRows, queueVars

\* After a closing write of a task that was asked to stop, it still is; one
\* that was not is not cancelled (a cascade apart).
LEMMA FinalizedIsAsked ==
    ASSUME TypeOK, NEW t \in Tasks, Finalize(t), Asked(status[t])
    PROVE  Asked(status'[t])
BY DEF Finalize, FinalizeCancelled, MarkCancelled, NoRows, queueVars, Asked, TypeOK

\* The cancel of a user.
LEMMA DispatchKeepsOpen ==
    ASSUME TypeOK, BillingInv, OpenInv, [WorkerNext]_vars, NEW t \in Tasks, NEW seen,
           DispatchCancel(t, seen), seen = "queued" => ~Open(status[t])
    PROVE  OpenInv' /\ SparesRunning
<1>1. QueuedBelow(t) \subseteq {v \in Tasks : status[v] = "queued"}
    BY QueuedBelowQueued
<1>2. /\ \A u \in Tasks : StaysOpen(u)
      /\ SparesRunning
    <2>1. CASE seen = "queued" /\ MarkCancelled(t, "user")
        BY <1>1, <2>1 DEF MarkCancelled, Active, Open, StaysOpen, SparesRunning
    <2>2. CASE MarkCancelling(t, "user")
        BY <2>2 DEF MarkCancelling, TypeOK, StaysOpen, Open, SparesRunning
    <2>3. CASE UNCHANGED queueVars
        BY <2>3 DEF queueVars, StaysOpen, SparesRunning
    <2> QED
        BY <2>1, <2>2, <2>3 DEF DispatchCancel, CancelTask
<1>3. UNCHANGED <<held, co, cancelReq>>
    BY DEF DispatchCancel, slotVars, coVars
<1>4. SignalsAsked
    <2>1. status[t] = "cancelling" => Asked(status'[t])
        BY AskedStays DEF Asked
    <2> QED
        BY <2>1 DEF DispatchCancel, Signalled, SignalsAsked, Asked
<1> QED
    BY <1>2, <1>3, <1>4, OneTaskMoves, AskedStays DEF ToBeWorkedOn, ToBeCancelled, OpenInv, StaysOpen, SignalsAsked
\* Users, callbacks, the life of the process.
LEMMA OuterKeepsOpen ==
    ASSUME WorkerTypeOK, BillingInv, OpenInv, NoStaleCancel, [WorkerNext]_vars,
           \/ UserStep \/ CallStep \/ \E t \in Tasks : DeliverCancel(t)
           \/ Start \/ Crash \/ RequestStop \/ LoopFault \/ Stopped
    PROVE  OpenInv' /\ SparesRunning
<1>0. TypeOK
    BY DEF WorkerTypeOK
<1>1. ASSUME NEW t \in Tasks, UserCancel(t)
      PROVE  OpenInv' /\ SparesRunning
    BY <1>0, <1>1, DispatchKeepsOpen DEF UserCancel, Open
<1>2. CASE CallStep
    BY <1>0, <1>2, DispatchKeepsOpen DEF CallStep, WriteCancel, NoStaleCancel
<1>3. ASSUME NEW t \in Tasks, NEW d \in Tasks \cup {None}, UserEnqueue(t, d)
      PROVE  OpenInv' /\ SparesRunning
    <2>1. /\ \A u \in Tasks : status[u] # "absent" => status'[u] = status[u]
          /\ UNCHANGED <<held, co, cancelReq, signals>>
        BY <1>0, <1>3 DEF UserEnqueue, Enqueue, TypeOK, workerVars, slotVars, coVars
    <2> QED
        BY <2>1 DEF OpenInv, ToBeWorkedOn, ToBeCancelled, Open, Asked, SparesRunning
<1>4. ASSUME NEW p \in Projects, UserCancelAll(p)
      PROVE  OpenInv' /\ SparesRunning
    <2>1. /\ \A u \in Tasks : status[u] # "queued" => status'[u] = status[u]
          /\ UNCHANGED <<held, co, cancelReq, signals>>
        BY <1>4 DEF UserCancelAll, CancelAllQueued, SetStatus, workerVars, slotVars, coVars
    <2> QED
        BY <2>1 DEF OpenInv, ToBeWorkedOn, ToBeCancelled, Open, Asked, SparesRunning
<1>5. ASSUME NEW t \in Tasks, DeliverCancel(t)
      PROVE  OpenInv' /\ SparesRunning
    <2>1. /\ UNCHANGED <<status, held, co>>
          /\ signals' \cup cancelReq' \subseteq signals \cup cancelReq
        BY <1>5 DEF DeliverCancel, queueVars, slotVars
    <2> QED
        BY <2>1 DEF OpenInv, ToBeWorkedOn, ToBeCancelled, SparesRunning
<1>6. CASE Start \/ RequestStop \/ ReloadLimits \/ \E t \in Tasks : ReadCancel(t)
    BY <1>6 DEF Start, RequestStop, ReloadLimits, ReadCancel, queueVars, slotVars, coVars,
       OpenInv, ToBeWorkedOn, ToBeCancelled, SparesRunning
<1>7. CASE Crash \/ Stopped
    <2>1. /\ UNCHANGED status /\ signals' = {} /\ cancelReq' = {}
          /\ \A u \in Tasks : held'[u] = "none" /\ co'[u] = "none"
        BY <1>7 DEF Crash, Stopped, Forget, AbandonClaim
    <2> QED
        BY <2>1 DEF OpenInv, ToBeWorkedOn, ToBeCancelled, LivePoints, SparesRunning
<1>8. CASE LoopFault
    <2>1. /\ UNCHANGED <<status, co, cancelReq, signals>>
          /\ \A u \in Tasks : held'[u] \in {held[u], "none"}
        BY <1>8 DEF LoopFault, AbandonClaim, coVars
    <2> QED
        BY <2>1 DEF OpenInv, ToBeWorkedOn, ToBeCancelled, SparesRunning
<1> QED
    BY <1>1, <1>2, <1>3, <1>4, <1>5, <1>6, <1>7, <1>8 DEF UserStep

\* The holder of t lets go of it with a closing write.
LEMMA LetsGo ==
    ASSUME WorkerTypeOK, BillingInv, OpenInv, [WorkerNext]_vars, NEW t \in Tasks,
           held[t] \notin SlotPhases, held'[t] = "none",
           \A u \in Tasks \ {t} : held'[u] = held[u],
           UNCHANGED <<co, cancelReq>>,
           \/ Finalize(t) /\ Asked(status[t])
           \/ FailOrFinalize(t) \/ NoRows
           \/ MarkFailed(t) /\ UNCHANGED signals
           \/ RequeueSingle(t) /\ UNCHANGED signals
    PROVE  OpenInv' /\ SparesRunning
<1>0. TypeOK
    BY DEF WorkerTypeOK
<1>1. co[t] = "none"
    BY DEF BillingInv, LedgerMatchesCoroutines
<1>2. SparesRunning /\ SignalsAsked /\ \A u \in Tasks \ {t} : StaysOpen(u)
    BY <1>0, ClosingSparesRunning, ClosingSparesOthers DEF Asked
<1>3. ~ToBeWorkedOn(t)' /\ (ToBeCancelled(t)' => Asked(status'[t]) \/ Asked(status[t]))
    BY <1>1, <1>2 DEF ToBeWorkedOn, ToBeCancelled, LivePoints, SignalsAsked, OpenInv
<1> QED
    BY <1>0, <1>2, <1>3, OneTaskMoves DEF ToBeWorkedOn, ToBeCancelled

\* The main loop.
LEMMA LoopKeepsOpen ==
    ASSUME WorkerTypeOK, BillingInv, OpenInv, [WorkerNext]_vars, LoopStep, ~Stopped
    PROVE  OpenInv' /\ SparesRunning
<1>0. TypeOK /\ held \in [Tasks -> Holdings] /\ co \in [Tasks -> Points]
    BY DEF WorkerTypeOK, Points
<1>1. CASE BeginStopping \/ DrainDone \/ RecoverDone
    BY <1>1 DEF BeginStopping, DrainDone, RecoverDone, queueVars, slotVars, coVars,
       OpenInv, ToBeWorkedOn, ToBeCancelled, SparesRunning
<1>2. CASE Drain
    <2>1. /\ UNCHANGED <<status, signals>> /\ cancelReq' \subseteq cancelReq
          /\ \A u \in Tasks :
                \/ held'[u] = held[u] /\ co'[u] = co[u]
                \/ co'[u] = "none" /\ held'[u] = "none"
                \/ co'[u] = "none" /\ held'[u] = "drained" /\ co[u] = "cancelled"
        BY <1>2 DEF Drain, queueVars
    <2> QED
        BY <2>1 DEF OpenInv, ToBeWorkedOn, ToBeCancelled, LivePoints, SparesRunning
<1>3. ASSUME NEW t \in Tasks, DrainCancelled(t) \/ RecoverCancelling(t)
      PROVE  OpenInv' /\ SparesRunning
    <2>1. Asked(status[t]) /\ held[t] \notin SlotPhases
        BY <1>3 DEF DrainCancelled, RecoverCancelling, OpenInv, ToBeCancelled, SlotPhases
    <2>2. (\A u \in Tasks \ {t} : held'[u] = held[u]) /\ held'[t] = "none" /\ UNCHANGED <<co, cancelReq>>
        BY <1>0, <1>3 DEF DrainCancelled, RecoverCancelling, Move, coVars
    <2> QED
        BY <1>3, <2>1, <2>2, LetsGo DEF DrainCancelled, RecoverCancelling
<1>4. ASSUME NEW t \in Tasks, NEW p \in Providers, RecoverRunning(t, p)
      PROVE  OpenInv' /\ SparesRunning
    <2>0. (\A u \in Tasks \ {t} : held'[u] = held[u]) /\ UNCHANGED <<co, cancelReq>>
        BY <1>0, <1>4 DEF RecoverRunning, Move, coVars
    <2>1. CASE CanResume(t, p)
        <3>1. UNCHANGED <<status, signals>> /\ held[t] = "orphanRunning" /\ held'[t] = "bucket"
            BY <1>0, <1>4, <2>1 DEF RecoverRunning, Move, NoRows, queueVars
        <3> QED
            BY <2>0, <3>1 DEF OpenInv, ToBeWorkedOn, ToBeCancelled, SparesRunning
    <2>2. CASE ~CanResume(t, p)
        <3>1. held[t] \notin SlotPhases /\ held'[t] = "none" /\ FailOrFinalize(t)
            BY <1>0, <1>4, <2>2 DEF RecoverRunning, Move, SlotPhases
        <3> QED
            BY <2>0, <3>1, LetsGo
    <2> QED
        BY <2>1, <2>2
<1>5. CASE ListOrphans
    <2>1. /\ UNCHANGED <<status, co, cancelReq, signals>>
          /\ \A u \in Tasks :
                \/ held'[u] = held[u]
                \/ held'[u] = "orphanRunning" /\ status[u] = "running"
                \/ held'[u] = "orphanCancelling" /\ status[u] = "cancelling"
        BY <1>5 DEF ListOrphans, queueVars, coVars
    <2> QED
        BY <2>1 DEF OpenInv, ToBeWorkedOn, ToBeCancelled, Open, Asked, SparesRunning
<1>6. ASSUME NEW t \in Tasks, SelectTask(t)
      PROVE  OpenInv' /\ SparesRunning
    BY <1>6 DEF SelectTask, PickNext, workerVars, slotVars, coVars,
       OpenInv, ToBeWorkedOn, ToBeCancelled, SparesRunning
<1>7. ASSUME NEW t \in Tasks, Claim(t)
      PROVE  OpenInv' /\ SparesRunning
    <2>1. /\ status[t] = "queued" /\ status' = [status EXCEPT ![t] = "running"]
          /\ held' = [held EXCEPT ![t] = "claimed"] /\ UNCHANGED <<co, cancelReq, signals>>
        BY <1>0, <1>7 DEF Claim, ClaimPicked, Move, coVars, TypeOK
    <2>2. ~ToBeCancelled(t)
        BY <2>1 DEF OpenInv, Asked
    <2>3. co[t] \notin {"cancelling", "cancelled"} /\ t \notin signals \cup cancelReq
        BY <2>2 DEF ToBeCancelled
    <2> QED
        BY <1>0, <2>1, <2>3 DEF OpenInv, ToBeWorkedOn, ToBeCancelled, Open, SparesRunning, TypeOK
<1>8. CASE NothingToClaim
    <2>1. \A u \in Tasks : status'[u] = status[u]
        BY <1>0, <1>8 DEF NothingToClaim, ClaimPicked, queueVars, TypeOK
    <2> QED
        BY <1>8, <2>1 DEF NothingToClaim, slotVars, coVars, OpenInv, ToBeWorkedOn, ToBeCancelled, SparesRunning
<1>9. ASSUME NEW t \in Tasks, NEW p \in Providers, Unsupported(t, p) \/ Bounce(t, p)
      PROVE  OpenInv' /\ SparesRunning
    <2>1. held[t] \notin SlotPhases
        BY <1>9 DEF Unsupported, Bounce, SlotPhases
    <2>2. (\A u \in Tasks \ {t} : held'[u] = held[u]) /\ held'[t] = "none" /\ UNCHANGED <<co, cancelReq>>
        BY <1>0, <1>9 DEF Unsupported, Bounce, Move, coVars
    <2>3. \/ NoRows
          \/ MarkFailed(t) /\ UNCHANGED signals
          \/ RequeueSingle(t) /\ UNCHANGED signals
        BY <1>9 DEF Unsupported, Bounce, NoRows
    <2> QED
        BY <2>1, <2>2, <2>3, LetsGo
<1>10. ASSUME NEW t \in Tasks, NEW p \in Providers, Register(t, p)
       PROVE  OpenInv' /\ SparesRunning
    <2>1. /\ UNCHANGED <<status, cancelReq, signals>> /\ held[t] = "claimed"
          /\ held'[t] = "inflight" /\ co'[t] = "created"
          /\ \A u \in Tasks \ {t} : held'[u] = held[u] /\ co'[u] = co[u]
        BY <1>0, <1>10 DEF Register, Move, At, queueVars
    <2> QED
        BY <2>1 DEF OpenInv, ToBeWorkedOn, ToBeCancelled, SparesRunning
<1> QED
    BY <1>1, <1>2, <1>3, <1>4, <1>5, <1>6, <1>7, <1>8, <1>9, <1>10 DEF LoopStep

\* The dispatcher.
LEMMA DispatcherKeepsOpen ==
    ASSUME WorkerTypeOK, OpenInv, NEW p \in Providers, DispatchStep(p)
    PROVE  OpenInv' /\ SparesRunning
<1>1. UNCHANGED <<status, cancelReq, signals>>
    BY DEF DispatchStep, DispatchBucket, RefuseBucket, AbandonBucket, queueVars, coVars
<1>2. \A u \in Tasks :
          \/ held'[u] = held[u] /\ co'[u] = co[u]
          \/ held[u] = "bucket" /\ held'[u] = "pending" /\ co'[u] = "created"
          \/ held'[u] \in {"none", "refused"} /\ co'[u] = co[u]
    BY DEF DispatchStep, DispatchBucket, RefuseBucket, AbandonBucket, Bucket, coVars
<1> QED
    BY <1>1, <1>2 DEF OpenInv, ToBeWorkedOn, ToBeCancelled, SparesRunning

\* The coroutines.
LEMMA CoroutineKeepsOpen ==
    ASSUME WorkerTypeOK, BillingInv, OpenInv, [WorkerNext]_vars, NEW t \in Tasks,
           FailRefused(t) \/ ProviderStep(t) \/ CoStep(t) \/ CloseFault(t)
    PROVE  OpenInv' /\ SparesRunning
<1>0. TypeOK /\ held \in [Tasks -> Holdings] /\ co \in [Tasks -> Points]
    BY DEF WorkerTypeOK, Points
<1>1. CASE FailRefused(t)
    <2>1. held[t] \notin SlotPhases /\ FailOrFinalize(t)
        BY <1>1 DEF FailRefused, SlotPhases
    <2>2. (\A u \in Tasks \ {t} : held'[u] = held[u]) /\ held'[t] = "none" /\ UNCHANGED <<co, cancelReq>>
        BY <1>0, <1>1 DEF FailRefused, Move, coVars
    <2> QED
        BY <2>1, <2>2, LetsGo
<1>2. ASSUME NoRows, NEW point,
             \A u \in Tasks \ {t} : held'[u] = held[u] /\ co'[u] = co[u],
             co'[t] = point, held'[t] \in {held[t], "none", "inflight"}, cancelReq' \subseteq cancelReq,
             co[t] \in LivePoints \/ point \notin LivePoints,
             point \in {"cancelling", "cancelled"} =>
                 t \in cancelReq \/ co[t] \in {"cancelling", "cancelled"}
      PROVE  OpenInv' /\ SparesRunning
    <2>1. UNCHANGED <<status, signals>>
        BY <1>2 DEF NoRows, queueVars
    <2> QED
        BY <1>2, <2>1 DEF OpenInv, ToBeWorkedOn, ToBeCancelled, SparesRunning
<1>3. ASSUME NEW how \in {"returned", "cancelled"}, Leave(t, how)
      PROVE  /\ \A u \in Tasks \ {t} : held'[u] = held[u] /\ co'[u] = co[u]
             /\ co'[t] \in {how, "none"} /\ held'[t] \in {held[t], "none"} /\ cancelReq' \subseteq cancelReq
    BY <1>0, <1>3 DEF Leave, Move, At, slotVars
<1>4. ASSUME NEW point, Reach(t, point)
      PROVE  /\ \A u \in Tasks \ {t} : held'[u] = held[u] /\ co'[u] = co[u]
             /\ co'[t] = point /\ held'[t] = held[t] /\ cancelReq' \subseteq cancelReq
    BY <1>0, <1>4 DEF Reach, At, slotVars
<1>5. "none" \notin LivePoints /\ "returned" \notin LivePoints /\ "cancelled" \notin LivePoints
    BY DEF LivePoints
<1>6. CASE Submit(t) \/ Result(t) \/ PersistJob(t)
    <2>1. co[t] \in LivePoints
        BY <1>6 DEF Submit, Result, PersistJob, LivePoints
    <2>2. NoRows /\ \E point \in {"submitted", "polling", "succeeding", "failing"} : Reach(t, point)
        BY <1>6 DEF Submit, Result, PersistJob
    <2> QED
        BY <1>2, <1>4, <2>1, <2>2
<1>7. CASE FirstStep(t)
    <2>1. co[t] \in LivePoints /\ NoRows
        BY <1>7 DEF FirstStep, LivePoints
    <2>2. CASE t \in cancelReq
        <3>1. /\ \A u \in Tasks \ {t} : held'[u] = held[u] /\ co'[u] = co[u]
              /\ co'[t] = "cancelled" /\ held'[t] = held[t] /\ cancelReq' \subseteq cancelReq
            BY <1>0, <1>7, <2>2 DEF FirstStep, At, slotVars
        <3> QED
            BY <1>2, <2>1, <2>2, <3>1
    <2>3. CASE t \notin cancelReq
        BY <1>2, <1>4, <1>7, <2>1, <2>3 DEF FirstStep
    <2> QED
        BY <2>2, <2>3
<1>8. CASE Route(t)
    <2>1. co[t] \in LivePoints /\ NoRows
        BY <1>8 DEF Route, LivePoints
    <2>2. CASE t \in cancelReq
        BY <1>2, <1>3, <1>5, <1>8, <2>1, <2>2 DEF Route
    <2>3. CASE t \notin cancelReq
        BY <1>2, <1>4, <1>8, <2>1, <2>3 DEF Route
    <2> QED
        BY <2>2, <2>3
<1>9. CASE Acquire(t)
    <2>1. co[t] \in LivePoints /\ NoRows
        BY <1>9 DEF Acquire, LivePoints
    <2>2. CASE stop
        BY <1>2, <1>3, <1>5, <1>9, <2>1, <2>2 DEF Acquire
    <2>3. CASE ~stop
        <3>1. /\ \A u \in Tasks \ {t} : held'[u] = held[u] /\ co'[u] = co[u]
              /\ co'[t] = "polling" /\ held'[t] = "inflight" /\ cancelReq' \subseteq cancelReq
            BY <1>0, <1>9, <2>3 DEF Acquire, Move, At
        <3> QED
            BY <1>2, <2>1, <3>1
    <2> QED
        BY <2>2, <2>3
<1>10. CASE Interrupted(t)
    <2>1. t \in cancelReq /\ co[t] \in LivePoints /\ NoRows
        BY <1>10 DEF Interrupted, LivePoints
    <2>2. CASE Leave(t, "cancelled")
        BY <1>2, <1>3, <1>5, <2>1, <2>2
    <2>3. CASE ~Leave(t, "cancelled")
        <3>1. /\ \A u \in Tasks \ {t} : held'[u] = held[u] /\ co'[u] = co[u]
              /\ co'[t] = "cancelling" /\ held'[t] = held[t] /\ cancelReq' \subseteq cancelReq
            BY <1>0, <1>10, <2>3 DEF Interrupted, At, slotVars
        <3> QED
            BY <1>2, <2>1, <3>1
    <2> QED
        BY <2>2, <2>3
<1>11. CASE CloseFault(t)
    BY <1>2, <1>3, <1>5, <1>11 DEF CloseFault
<1>12. CASE Conclude(t)
    <2>1. PICK how \in {"returned", "cancelled"} :
              /\ Leave(t, how)
              /\ how = "cancelled" => co[t] = "cancelling" /\ Finalize(t)
              /\ how = "returned" => SucceedOrFinalize(t) \/ FailOrFinalize(t)
        BY <1>12 DEF Conclude
    <2>2. co[t] = "cancelling" => Asked(status[t])
        BY DEF OpenInv, ToBeCancelled
    <2>3. SparesRunning /\ SignalsAsked /\ \A u \in Tasks \ {t} : StaysOpen(u)
        BY <1>0, <2>1, <2>2, ClosingSparesRunning, ClosingSparesOthers DEF Asked
    <2>4. ~ToBeWorkedOn(t)'
        <3>1. co'[t] \notin LivePoints
            BY <1>3, <1>5, <2>1
        <3>2. co[t] # "none"
            BY <1>12 DEF Conclude
        <3>3. held'[t] \notin {"claimed", "orphanRunning", "bucket"}
            BY <1>3, <2>1, <3>2 DEF BillingInv, LedgerMatchesCoroutines, SlotPhases
        <3> QED
            BY <3>1, <3>3 DEF ToBeWorkedOn
    <2>5. ToBeCancelled(t)' => ToBeCancelled(t) \/ t \in signals'
        BY <1>3, <2>1 DEF ToBeCancelled
    <2>6. \A u \in Tasks \ {t} : /\ ToBeWorkedOn(u)' => ToBeWorkedOn(u)
                                 /\ ToBeCancelled(u)' => ToBeCancelled(u) \/ u \in signals'
        BY <1>3, <2>1 DEF ToBeWorkedOn, ToBeCancelled
    <2>7. ToBeCancelled(t)' => Asked(status'[t]) \/ Asked(status[t])
        BY <2>3, <2>5 DEF OpenInv, SignalsAsked, ToBeCancelled
    <2> QED
        BY <1>0, <2>3, <2>4, <2>6, <2>7, OneTaskMoves
<1> QED
    BY <1>1, <1>6, <1>7, <1>8, <1>9, <1>10, <1>11, <1>12 DEF ProviderStep, CoStep

LEMMA OpenStep ==
    WorkerTypeOK /\ BillingInv /\ OpenInv /\ NoStaleCancel /\ [WorkerNext]_vars
        => OpenInv' /\ SparesRunning
<1> SUFFICES ASSUME WorkerTypeOK, BillingInv, OpenInv, NoStaleCancel, [WorkerNext]_vars
             PROVE  OpenInv' /\ SparesRunning
    OBVIOUS
<1>1. CASE UNCHANGED vars
    BY <1>1 DEF vars, workerVars, queueVars, slotVars, coVars, OpenInv, ToBeWorkedOn, ToBeCancelled,
       SparesRunning
<1> QED
    BY <1>1, OuterKeepsOpen, LoopKeepsOpen, DispatcherKeepsOpen, CoroutineKeepsOpen
    DEF WorkerNext

\* As long as no cancel writes after the task it saw queued was claimed, no
\* task is ended under the coroutine that works on it.
THEOREM NobodyEndsATaskAtWork == WorkerSpec /\ []NoStaleCancel => []WorkIsOpen
<1>1. WorkerInit => BillingInv /\ OpenInv
    BY DEF WorkerInit, Init, BillingInv, LedgerMatchesCoroutines, ResumesOnlyPoll, UnbilledBeforeCall,
       BilledOnce, OpenInv, ToBeWorkedOn, ToBeCancelled, LivePoints
<1>2. OpenInv => WorkIsOpen
    BY DEF OpenInv, ToBeWorkedOn, WorkIsOpen, Open
<1> QED
    BY <1>1, <1>2, BillingStep, OpenStep, WorkerTypeCorrect, PTL DEF WorkerSpec
-----------------------------------------------------------------------------
(* The refinement of TaskLifecycle.                                        *)

\* Only a submission is billed.
LEMMA BilledBySubmission ==
    ASSUME [WorkerNext]_vars
    PROVE  bills' = bills \/ \E t \in Tasks : Submit(t)
BY DEF WorkerNext, UserStep, UserEnqueue, UserCancel, ReadCancel, UserCancelAll, ReloadLimits,
   CallStep, WriteCancel, DispatchCancel, DeliverCancel, Start, Crash, RequestStop, LoopFault,
   Forget, LoopStep, BeginStopping, Stopped, Drain, DrainCancelled, DrainDone, ListOrphans,
   RecoverCancelling, RecoverRunning, RecoverDone, SelectTask, Claim, NothingToClaim, Unsupported,
   Bounce, Register, DispatchStep, DispatchBucket, RefuseBucket, AbandonBucket, FailRefused,
   ProviderStep, Result, CoStep, FirstStep, Route, PersistJob, Acquire, Interrupted, Conclude,
   CloseFault, coFrame, outerVars, workerVars, vars

LifeStep == [Lifecycle!LifeNext]_(Lifecycle!lifeVars)

\* A step on the table alone moves every task as the life cycle allows.
LEMMA TableStepIsLifeStep ==
    ASSUME TypeOK, TypeOK', BillingInv, BillingInv', RunsAfterDependencyInv, SparesRunning,
           [Next]_queueVars, [EndsWithDependency]_queueVars, UNCHANGED bills
    PROVE  LifeStep
<1>1. ASSUME NEW t \in Tasks, status'[t] # status[t]
      PROVE  Lifecycle!LegalMove(t)
    <2>1. TaskStep(t)
        BY EveryTaskSteps
    <2>2. <<status[t], status'[t]>> \in Lifecycle!Moves
        BY <1>1, <2>1 DEF TaskStep, Moves, Lifecycle!Moves, SparesRunning
    <2>3. status'[t] = "running" => Lifecycle!MayRun(t)
        BY <1>1, <2>1 DEF TaskStep, Moves, RunsAfterDependencyInv, PickedIsReady, DependencyMet,
           Lifecycle!MayRun
    <2>4. status[t] = "queued" /\ status'[t] = "failed" =>
              dep[t] \in Tasks /\ status'[dep[t]] = "failed"
        BY <1>1 DEF EndsWithDependency, queueVars
    <2>5. status'[t] = "queued" => bills[t] = 0
        BY DEF BillingInv, UnbilledBeforeCall, Unstarted
    <2> QED
        BY <2>2, <2>3, <2>4, <2>5 DEF Lifecycle!LegalMove
<1>2. \A t \in Tasks : status[t] # "absent" => dep'[t] = dep[t]
    BY EveryTaskSteps DEF TaskStep
<1>3. status' \in [Tasks -> {m[2] : m \in Lifecycle!Moves} \cup {"absent"}]
    <2>1. Status \subseteq {m[2] : m \in Lifecycle!Moves} \cup {"absent"}
        <3>1. \A s \in Active \cup Terminal : \E m \in Lifecycle!Moves : m[2] = s
            BY DEF Active, Terminal, Lifecycle!Moves
        <3> QED
            BY <3>1 DEF Status
    <2> QED
        BY <2>1 DEF TypeOK
<1> QED
    BY <1>1, <1>2, <1>3 DEF LifeStep, Lifecycle!LifeNext, Lifecycle!MoveTasks

\* A submission is the first one of a task that is open.
LEMMA SubmitIsLifeStep ==
    ASSUME WorkerTypeOK, BillingInv, OpenInv, NEW t \in Tasks, Submit(t)
    PROVE  LifeStep
<1>1. bills' = [bills EXCEPT ![t] = bills[t] + 1] /\ UNCHANGED <<status, dep>>
    BY DEF Submit, NoRows, queueVars
<1>2. bills[t] = 0
    BY DEF Submit, BillingInv, ResumesOnlyPoll, UnbilledBeforeCall
<1>3. status[t] \in {"running", "cancelling"}
    BY DEF Submit, OpenInv, ToBeWorkedOn, LivePoints, Open
<1>4. bills' = [bills EXCEPT ![t] = 1]
    BY <1>1, <1>2
<1> QED
    BY <1>1, <1>2, <1>3, <1>4 DEF LifeStep, Lifecycle!LifeNext, Lifecycle!SubmitTask

\* As long as no cancel writes after the task it saw queued was claimed, the
\* worker over the table does with a task what docs/adr/0006 and 0007 allow:
\* it starts after its dependency, leaves a running state by success, failure
\* or cancelling only, is submitted once and never queued after that.
THEOREM WorkerImplementsLifecycle ==
    WorkerSpec /\ []NoStaleCancel => ImplementsLifecycle
<1> DEFINE Inv == WorkerTypeOK /\ BillingInv /\ OpenInv /\ RunsAfterDependencyInv
<1>1. WorkerInit => BillingInv /\ OpenInv /\ RunsAfterDependencyInv
    BY TaskAssumption DEF WorkerInit, Init, BillingInv, LedgerMatchesCoroutines, ResumesOnlyPoll,
       UnbilledBeforeCall, BilledOnce, OpenInv, ToBeWorkedOn, ToBeCancelled, LivePoints,
       RunsAfterDependencyInv, RunsAfterDependency, PickedIsReady, Started
<1>2. WorkerInit => Lifecycle!LifeInit
    BY DEF WorkerInit, Init, Lifecycle!LifeInit
<1>3. WorkerTypeOK /\ RunsAfterDependencyInv /\ [WorkerNext]_vars => RunsAfterDependencyInv'
    BY WorkerStepIsQueueStep, RunsAfterDependencyKept DEF WorkerTypeOK
<1>4. Inv /\ WorkerTypeOK' /\ BillingInv' /\ NoStaleCancel
        /\ [WorkerNext]_vars /\ [EndsWithDependency]_queueVars => LifeStep
    <2> SUFFICES ASSUME Inv, WorkerTypeOK', BillingInv', NoStaleCancel, [WorkerNext]_vars,
                        [EndsWithDependency]_queueVars
                 PROVE  LifeStep
        OBVIOUS
    <2>1. CASE UNCHANGED bills
        BY <2>1, OpenStep, WorkerStepIsQueueStep, TableStepIsLifeStep DEF WorkerTypeOK
    <2>2. CASE \E t \in Tasks : Submit(t)
        BY <2>2, SubmitIsLifeStep
    <2> QED
        BY <2>1, <2>2, BilledBySubmission
<1>5. WorkerSpec => [][EndsWithDependency]_queueVars
    BY WorkerKeepsQueuePromises DEF CascadeIsComplete
<1> QED
    BY <1>1, <1>2, <1>3, <1>4, <1>5, BillingStep, OpenStep, WorkerTypeCorrect, PTL
    DEF WorkerSpec, ImplementsLifecycle, Lifecycle!LifeSpec, LifeStep

\* Cancels are atomic: nothing comes between the SELECT and the UPDATE.
AtomicCancels == MaxCalls = 0 /\ calls = {}

\* Which is the case when every cancel_task is one transaction, as in the run
\* worker_progress.
THEOREM AtomicCancelsSuffice ==
    MaxCalls = 0 /\ WorkerSpec => []WorkIsOpen /\ ImplementsLifecycle
<1>1. MaxCalls = 0 /\ WorkerInit => AtomicCancels
    BY DEF WorkerInit, AtomicCancels
<1>2. AtomicCancels /\ [WorkerNext]_vars => AtomicCancels'
    <2> SUFFICES ASSUME AtomicCancels, [WorkerNext]_vars PROVE calls' = {}
        BY DEF AtomicCancels
    <2>1. ASSUME NEW t \in Tasks PROVE ~ReadCancel(t)
        BY FS_EmptySet DEF ReadCancel, AtomicCancels
    <2>2. ASSUME NEW t \in Tasks, NEW seen PROVE ~WriteCancel(t, seen)
        BY DEF WriteCancel, AtomicCancels
    <2> QED
        BY <2>1, <2>2
        DEF AtomicCancels, WorkerNext, UserStep, UserEnqueue, UserCancel, UserCancelAll, ReloadLimits,
           CallStep, DeliverCancel, Start, Crash, RequestStop, LoopFault,
           Forget, LoopStep, BeginStopping, Stopped, Drain, DrainCancelled, DrainDone, ListOrphans,
           RecoverCancelling, RecoverRunning, RecoverDone, SelectTask, Claim, NothingToClaim, Unsupported,
           Bounce, Register, DispatchStep, DispatchBucket, RefuseBucket, AbandonBucket, FailRefused,
           ProviderStep, Submit, Result, CoStep, FirstStep, Route, PersistJob, Acquire, Interrupted, Conclude,
           CloseFault, coFrame, outerVars, workerVars, vars
<1>3. AtomicCancels => NoStaleCancel
    BY DEF AtomicCancels, NoStaleCancel
<1> QED
    BY <1>1, <1>2, <1>3, NobodyEndsATaskAtWork, WorkerImplementsLifecycle, PTL DEF WorkerSpec

-----------------------------------------------------------------------------
(* Pools are respected.                                                    *)

\* A reload resizes pools, but neither opens nor closes a provider's video lane.
VideoLanesStay == \A p \in Providers : cap'[p][VideoLane] = 0 <=> cap[p][VideoLane] = 0

\* Claimed tasks at work, which has_room admits; resumes go by the semaphore.
NoNewWork == \A t \in Tasks : held[t] # "claimed" /\ (held[t] \in SlotPhases => t \in resumed)

\* Nothing is claimed before the orphans of the last process were scanned, and
\* what they are put into waits for the end of the scan.
ScannedFirst ==
    /\ ~scanned => /\ picked = None /\ worker \notin {"claim", "window"}
                   /\ \A t \in Tasks : held[t] # "none" =>
                          /\ worker = "recover"
                          /\ held[t] \in {"orphanRunning", "orphanCancelling", "bucket"}
    /\ worker \in {"scan", "recover"} => ~scanned

\* What is to be dispatched goes first.
DispatchedFirst == DispatchPending => picked = None /\ worker # "window" /\ NoNewWork

\* A provider's orphans are dispatched at once, and are all videos.
OneDispatch == \A t, u \in Tasks : held[t] = "bucket" /\ u \in resumed => pool[t] # pool[u]
ResumesAreVideo ==
    \A t \in Tasks : held[t] = "bucket" \/ t \in resumed => LaneOf[t] = VideoLane /\ pool[t] \in Providers

\* A pool with new work in it is no fuller than some table allowed ...
RoomIsKept ==
    \A p \in Providers, lane \in Lanes :
        (\E t \in Occupants(p, lane) : t \notin resumed) =>
            \E table \in CapTables : Cardinality(Occupants(p, lane)) <= table[p][lane]

\* ... and neither is the semaphore of its resumes.
PermitsAreKept ==
    \A p \in Providers :
        /\ Cardinality(Permits(p)) <= semCap[p]
        /\ \E table \in CapTables : semCap[p] <= table[p][VideoLane]

FlowInv == ScannedFirst /\ DispatchedFirst
PoolInv == OneDispatch /\ ResumesAreVideo /\ RoomIsKept /\ PermitsAreKept
CapacityInv == FlowInv /\ PoolInv

\* What every step below starts from.
CapacityHyp == WorkerTypeOK /\ BillingInv /\ CapacityInv /\ IsFiniteSet(Tasks)

LEMMA ResumedHasSlot ==
    ASSUME CapacityHyp, NEW t \in resumed
    PROVE  t \in Tasks /\ held[t] \in SlotPhases
BY DEF CapacityHyp, WorkerTypeOK, BillingInv, ResumesOnlyPoll, LedgerMatchesCoroutines

\* Nobody comes into a slot or gets a permit.
NobodyEnters ==
    /\ \A u \in Tasks : held'[u] \in SlotPhases =>
           /\ held[u] \in SlotPhases /\ pool'[u] = pool[u]
           /\ u \in resumed' <=> u \in resumed
           /\ held'[u] = "inflight" /\ u \in resumed => held[u] = "inflight"
    /\ \A u \in resumed' : u \in resumed /\ pool'[u] = pool[u]
    /\ UNCHANGED semCap

LEMMA SmallerSet ==
    ASSUME NEW S, NEW T, T \subseteq S, S \subseteq Tasks, IsFiniteSet(Tasks)
    PROVE  IsFiniteSet(T) /\ Cardinality(T) \in Nat /\ Cardinality(S) \in Nat
           /\ Cardinality(T) <= Cardinality(S)
<1>1. IsFiniteSet(S)
    BY FS_Subset
<1>2. IsFiniteSet(T) /\ Cardinality(T) <= Cardinality(S)
    BY <1>1, FS_Subset
<1> QED
    BY <1>1, <1>2, FS_CardinalityType

LEMMA TablesAreNumbers ==
    ASSUME NEW table \in CapTables, NEW p \in Providers, NEW lane \in Lanes
    PROVE  table[p][lane] \in Nat
BY WorkerAssumption

LEMMA PermitsStay ==
    ASSUME CapacityHyp, UNCHANGED semCap, NEW p \in Providers, Permits(p)' \subseteq Permits(p)
    PROVE  (Cardinality(Permits(p)) <= semCap[p])'
<1>1. Permits(p) \subseteq Tasks
    BY DEF Permits, CapacityHyp, WorkerTypeOK
<1>2. Cardinality(Permits(p)') <= Cardinality(Permits(p)) /\ Cardinality(Permits(p)') \in Nat
      /\ Cardinality(Permits(p)) \in Nat
    BY <1>1, SmallerSet DEF CapacityHyp
<1>3. Cardinality(Permits(p)) <= semCap[p] /\ semCap[p] \in Nat
    BY DEF CapacityHyp, CapacityInv, PoolInv, PermitsAreKept, WorkerTypeOK
<1> QED
    BY <1>2, <1>3

LEMMA RoomStays ==
    ASSUME CapacityHyp, NEW p \in Providers, NEW lane \in Lanes,
           Occupants(p, lane)' \subseteq Occupants(p, lane),
           \E t \in Occupants(p, lane) : t \notin resumed
    PROVE  \E table \in CapTables : Cardinality(Occupants(p, lane)') <= table[p][lane]
<1>1. PICK table \in CapTables : Cardinality(Occupants(p, lane)) <= table[p][lane]
    BY DEF CapacityHyp, CapacityInv, PoolInv, RoomIsKept
<1>2. Occupants(p, lane) \subseteq Tasks
    BY DEF Occupants
<1>3. /\ Cardinality(Occupants(p, lane)') <= Cardinality(Occupants(p, lane))
      /\ Cardinality(Occupants(p, lane)') \in Nat /\ Cardinality(Occupants(p, lane)) \in Nat
    BY <1>2, SmallerSet DEF CapacityHyp
<1> QED
    BY <1>1, <1>3, TablesAreNumbers

LEMMA RoomAndPermitsStay ==
    ASSUME CapacityHyp, NobodyEnters
    PROVE  RoomIsKept' /\ PermitsAreKept'
<1>0. PoolInv /\ resumed \subseteq Tasks
    BY DEF CapacityHyp, CapacityInv, WorkerTypeOK
<1>1. ASSUME NEW p \in Providers, NEW lane \in Lanes, NEW t \in Occupants(p, lane)', t \notin resumed'
      PROVE  \E table \in CapTables : Cardinality(Occupants(p, lane)') <= table[p][lane]
    <2>1. Occupants(p, lane)' \subseteq Occupants(p, lane)
        BY DEF Occupants, NobodyEnters
    <2>2. t \in Occupants(p, lane) /\ t \notin resumed
        BY <1>1, <2>1 DEF Occupants, NobodyEnters
    <2> QED
        BY <2>1, <2>2, RoomStays
<1>2. RoomIsKept'
    BY <1>1 DEF RoomIsKept
<1>3. ASSUME NEW p \in Providers
      PROVE  Permits(p)' \subseteq Permits(p)
    BY <1>0, ResumedHasSlot DEF Permits, NobodyEnters, SlotPhases
<1>4. PermitsAreKept'
    BY <1>0, <1>3, PermitsStay DEF PermitsAreKept, PoolInv, NobodyEnters
<1> QED
    BY <1>2, <1>4

\* Nor are orphans put into a bucket.
NoneIsRouted == \A u \in Tasks : held'[u] = "bucket" => held[u] = "bucket" /\ pool'[u] = pool[u]

LEMMA QuietKeepsPools ==
    ASSUME CapacityHyp, NobodyEnters, NoneIsRouted
    PROVE  PoolInv'
<1>1. PoolInv /\ resumed \subseteq Tasks
    BY DEF CapacityHyp, CapacityInv, WorkerTypeOK
<1>2. OneDispatch' /\ ResumesAreVideo'
    BY <1>1 DEF NobodyEnters, NoneIsRouted, PoolInv, OneDispatch, ResumesAreVideo
<1> QED
    BY <1>2, RoomAndPermitsStay DEF PoolInv

\* The loop goes on, but not to a scan, nor from one to a claim.
LoopGoesOn ==
    \/ worker' = worker
    \/ /\ worker # "recover" /\ worker' \notin {"window", "recover"}
       /\ worker' = "claim" => scanned
       /\ worker' = "scan" => ~scanned

LEMMA PendingStays ==
    ASSUME VideoLanesStay, NoneIsRouted, stop => stop', WorkerTypeOK, cap' \in CapTables
    PROVE  DispatchPending' => DispatchPending
<1> SUFFICES ASSUME NEW p \in Providers, NEW t \in Tasks, ~stop', held'[t] = "bucket", pool'[t] = p,
                    cap'[p][VideoLane] > 0
             PROVE  DispatchPending
    BY DEF DispatchPending, Bucket
<1>1. t \in Bucket(p)
    BY DEF NoneIsRouted, Bucket
<1>2. cap[p][VideoLane] \in Nat /\ cap'[p][VideoLane] \in Nat
    BY WorkerAssumption DEF WorkerTypeOK
<1>3. cap[p][VideoLane] > 0
    BY <1>2 DEF VideoLanesStay
<1> QED
    BY <1>1, <1>3 DEF DispatchPending

LEMMA QuietKeepsFlow ==
    ASSUME CapacityHyp, VideoLanesStay, cap' \in CapTables, NobodyEnters, NoneIsRouted, LoopGoesOn,
           UNCHANGED scanned, picked' \in {picked, None}, stop => stop',
           \A u \in Tasks : \/ held'[u] \in {held[u], "none"}
                            \/ /\ held[u] # "none" /\ held'[u] # "claimed"
                               /\ scanned \/ worker # "recover"
    PROVE  FlowInv'
<1>0. ScannedFirst /\ DispatchedFirst /\ WorkerTypeOK
    BY DEF CapacityHyp, CapacityInv, FlowInv
<1>1. ScannedFirst'
    BY <1>0 DEF ScannedFirst, LoopGoesOn
<1>2. DispatchPending' => DispatchPending
    BY <1>0, PendingStays
<1>3. DispatchedFirst'
    <2>1. NoNewWork => NoNewWork'
        BY DEF NoNewWork, NobodyEnters
    <2>2. worker # "window" => worker' # "window"
        BY DEF LoopGoesOn
    <2> QED
        BY <1>0, <1>2, <2>1, <2>2 DEF DispatchedFirst
<1> QED
    BY <1>1, <1>3 DEF FlowInv

\* Users, callbacks, the life of the process.
LEMMA OuterKeepsCapacity ==
    ASSUME CapacityHyp, VideoLanesStay, WorkerTypeOK',
           \/ UserStep \/ CallStep \/ \E t \in Tasks : DeliverCancel(t)
           \/ Start \/ Crash \/ RequestStop \/ LoopFault \/ Stopped
    PROVE  CapacityInv'
<1>0. cap' \in CapTables
    BY DEF WorkerTypeOK
<1>1. CASE UserStep \/ CallStep \/ (\E t \in Tasks : DeliverCancel(t)) \/ Start \/ RequestStop
    <2>1. UNCHANGED <<held, pool, resumed, semCap, scanned, picked>>
        BY <1>1 DEF UserStep, CallStep, WriteCancel, DispatchCancel, UserCancel, ReadCancel, UserEnqueue,
           UserCancelAll, ReloadLimits, DeliverCancel, Start, RequestStop, workerVars, slotVars, coVars,
           loopVars, queueVars, Enqueue, CancelTask, MarkCancelled, MarkCancelling, CancelAllQueued, SetStatus
    <2>2. LoopGoesOn /\ (stop => stop')
        <3>1. CASE Start \/ RequestStop
            BY <3>1 DEF LoopGoesOn, Start, RequestStop
        <3>2. CASE UNCHANGED <<worker, stop>>
            BY <3>2 DEF LoopGoesOn
        <3> QED
            BY <1>1, <3>1, <3>2 DEF UserStep, CallStep, WriteCancel, DispatchCancel, UserCancel, ReadCancel,
               UserEnqueue, UserCancelAll, ReloadLimits, DeliverCancel, workerVars, loopVars
    <2>3. NobodyEnters /\ NoneIsRouted
        BY <2>1 DEF NobodyEnters, NoneIsRouted
    <2> QED
        BY <1>0, <2>1, <2>2, <2>3, QuietKeepsPools, QuietKeepsFlow DEF CapacityInv
<1>2. CASE Crash \/ Stopped
    <2>1. Forget
        BY <1>2 DEF Crash, Stopped
    <2>2. /\ worker' = "down" /\ scanned' = FALSE /\ resumed' = {} /\ picked' = None
          /\ held' = [t \in Tasks |-> "none"] /\ semCap' = [p \in Providers |-> 0]
        BY <2>1 DEF Forget, AbandonClaim
    <2>3. FlowInv' /\ OneDispatch' /\ ResumesAreVideo' /\ RoomIsKept'
        BY <2>2 DEF FlowInv, ScannedFirst, DispatchedFirst, DispatchPending, Bucket, OneDispatch,
           ResumesAreVideo, RoomIsKept, Occupants, SlotPhases
    <2>4. ASSUME NEW p \in Providers
          PROVE  /\ Cardinality(Permits(p)') <= semCap'[p]
                 /\ \E table \in CapTables : semCap'[p] <= table[p][VideoLane]
        <3>1. Permits(p)' = {} /\ semCap'[p] = 0
            BY <2>2 DEF Permits
        <3>2. PICK table \in CapTables : TRUE
            BY WorkerAssumption
        <3>3. table[p][VideoLane] \in Nat
            BY WorkerAssumption
        <3> QED
            BY <3>1, <3>3, FS_EmptySet
    <2> QED
        BY <2>3, <2>4 DEF CapacityInv, PoolInv, PermitsAreKept
<1>3. CASE LoopFault
    <2>0. ScannedFirst /\ ResumesAreVideo /\ held \in [Tasks -> Holdings] /\ resumed \subseteq Tasks
        BY DEF CapacityHyp, CapacityInv, FlowInv, PoolInv, WorkerTypeOK
    <2>1. /\ worker' = "dead" /\ picked' = None
          /\ UNCHANGED <<scanned, stop, resumed, semCap, cap>>
          /\ \A u \in Tasks : \/ held'[u] = held[u] /\ pool'[u] = pool[u] /\ ~LoopLocal(u)
                              \/ held'[u] = "none" /\ held[u] \notin SlotPhases
        BY <1>3 DEF LoopFault, AbandonClaim, coVars, LoopLocal, SlotPhases
    <2>2. NobodyEnters /\ NoneIsRouted
        BY <2>0, <2>1, ResumedHasSlot DEF NobodyEnters, NoneIsRouted, SlotPhases
    <2>3. CASE worker # "recover"
        BY <1>0, <2>1, <2>2, <2>3, QuietKeepsPools, QuietKeepsFlow DEF CapacityInv, LoopGoesOn
    <2>4. CASE worker = "recover"
        <3>1. \A u \in Tasks : held'[u] = "none"
            BY <2>0, <2>1, <2>4 DEF ScannedFirst, LoopLocal
        <3>2. FlowInv'
            BY <2>0, <2>1, <2>4, <3>1 DEF FlowInv, ScannedFirst, DispatchedFirst, DispatchPending, Bucket
        <3> QED
            BY <2>2, <3>2, QuietKeepsPools DEF CapacityInv
    <2> QED
        BY <2>3, <2>4
<1> QED
    BY <1>1, <1>2, <1>3

\* The main loop.
LEMMA LoopKeepsCapacity ==
    ASSUME CapacityHyp, VideoLanesStay, WorkerTypeOK', LoopStep, ~Stopped
    PROVE  CapacityInv'
<1>0. /\ cap' \in CapTables /\ ScannedFirst /\ DispatchedFirst /\ PoolInv
      /\ held \in [Tasks -> Holdings] /\ pool \in [Tasks -> Providers \cup {None}]
      /\ co \in [Tasks -> Points] /\ resumed \subseteq Tasks /\ cap \in CapTables
    BY DEF CapacityHyp, CapacityInv, FlowInv, WorkerTypeOK, Points
<1>1. CASE BeginStopping \/ DrainDone
    <2>1. UNCHANGED <<held, pool, resumed, semCap, scanned, picked, stop>>
        BY <1>1 DEF BeginStopping, DrainDone, slotVars, coVars, queueVars
    <2>2. LoopGoesOn
        BY <1>1 DEF LoopGoesOn, BeginStopping, DrainDone, Seek
    <2>3. NobodyEnters /\ NoneIsRouted
        BY <2>1 DEF NobodyEnters, NoneIsRouted
    <2> QED
        BY <1>0, <2>1, <2>2, <2>3, QuietKeepsPools, QuietKeepsFlow DEF CapacityInv
<1>2. CASE Drain
    <2>1. /\ worker = "top" /\ worker' = "drain"
          /\ UNCHANGED <<resumed, semCap, scanned, picked, stop>>
          /\ \A u \in Tasks :
                 \/ held'[u] = held[u] /\ pool'[u] = pool[u]
                 \/ held[u] = "inflight" /\ co[u] \in DonePoints /\ held'[u] \in {"none", "drained"}
        BY <1>2 DEF Drain, queueVars
    <2>2. \A u \in resumed : held[u] = "inflight" => co[u] \notin DonePoints
        BY DEF CapacityHyp, BillingInv, ResumesOnlyPoll, DonePoints
    <2>3. NobodyEnters /\ NoneIsRouted
        BY <1>0, <2>1, <2>2 DEF NobodyEnters, NoneIsRouted, SlotPhases
    <2>4. LoopGoesOn
        BY <2>1 DEF LoopGoesOn
    <2> QED
        BY <1>0, <2>1, <2>3, <2>4, QuietKeepsPools, QuietKeepsFlow DEF CapacityInv
<1>3. ASSUME NEW t \in Tasks, DrainCancelled(t) \/ RecoverCancelling(t)
      PROVE  CapacityInv'
    <2>1. /\ held[t] \notin SlotPhases
          /\ held' = [held EXCEPT ![t] = "none"]
          /\ UNCHANGED <<pool, resumed, semCap, scanned, stop, worker>>
        BY <1>3 DEF DrainCancelled, RecoverCancelling, Move, loopVars, coVars, SlotPhases
    <2>2. picked' = picked
        BY <1>3 DEF DrainCancelled, RecoverCancelling, Finalize, FinalizeCancelled, MarkCancelled,
           NoRows, queueVars
    <2>3. NobodyEnters /\ NoneIsRouted /\ LoopGoesOn
        BY <1>0, <2>1 DEF NobodyEnters, NoneIsRouted, LoopGoesOn, SlotPhases
    <2> QED
        BY <1>0, <2>1, <2>2, <2>3, QuietKeepsPools, QuietKeepsFlow DEF CapacityInv
<1>4. CASE ListOrphans
    <2>1. /\ worker = "scan" /\ worker' = "recover"
          /\ UNCHANGED <<pool, resumed, semCap, scanned, picked, stop>>
          /\ \A u \in Tasks : held'[u] \in {held[u], "orphanRunning", "orphanCancelling"}
        BY <1>4 DEF ListOrphans, coVars, queueVars
    <2>2. ~scanned /\ picked = None /\ \A u \in Tasks : held[u] = "none"
        BY <1>0, <2>1 DEF ScannedFirst
    <2>3. NobodyEnters /\ NoneIsRouted
        BY <2>1, <2>2 DEF NobodyEnters, NoneIsRouted, SlotPhases
    <2>4. FlowInv'
        BY <2>1, <2>2 DEF FlowInv, ScannedFirst, DispatchedFirst, DispatchPending, Bucket
    <2> QED
        BY <2>3, <2>4, QuietKeepsPools DEF CapacityInv
<1>5. ASSUME NEW t \in Tasks, NEW p \in Providers, RecoverRunning(t, p)
      PROVE  CapacityInv'
    <2>1. /\ worker = "recover" /\ held[t] = "orphanRunning"
          /\ UNCHANGED <<worker, resumed, semCap, scanned, stop>>
        BY <1>5 DEF RecoverRunning, loopVars, coVars
    <2>2. picked' = picked
        BY <1>5 DEF RecoverRunning, NoRows, FailOrFinalize, MarkFailed, SetStatus, Finalize,
           FinalizeCancelled, MarkCancelled, queueVars
    <2>3. /\ held' \in {[held EXCEPT ![t] = "bucket"], [held EXCEPT ![t] = "none"]}
          /\ pool' \in {pool, [pool EXCEPT ![t] = p]}
          /\ held' = [held EXCEPT ![t] = "bucket"] =>
                 pool' = [pool EXCEPT ![t] = p] /\ LaneOf[t] = VideoLane
        BY <1>0, <1>5 DEF RecoverRunning, Move, CanResume
    <2>4. ~scanned /\ picked = None /\ resumed = {}
          /\ \A u \in Tasks : held[u] \in {"none", "orphanRunning", "orphanCancelling", "bucket"}
        BY <1>0, <2>1, ResumedHasSlot DEF ScannedFirst, SlotPhases
    <2>5. NobodyEnters
        BY <1>0, <2>1, <2>3, <2>4 DEF NobodyEnters, SlotPhases
    <2>6. OneDispatch' /\ ResumesAreVideo'
        BY <1>0, <2>1, <2>3, <2>4 DEF OneDispatch, ResumesAreVideo, PoolInv
    <2>7. FlowInv'
        BY <1>0, <2>1, <2>2, <2>3, <2>4 DEF FlowInv, ScannedFirst, DispatchedFirst, NoNewWork, SlotPhases
    <2> QED
        BY <2>5, <2>6, <2>7, RoomAndPermitsStay DEF CapacityInv, PoolInv
<1>6. CASE RecoverDone
    <2>1. /\ worker = "recover" /\ worker' = "claim" /\ scanned' = TRUE
          /\ UNCHANGED <<held, pool, resumed, semCap, picked>>
        BY <1>6 DEF RecoverDone, Seek, slotVars, coVars, queueVars
    <2>2. NobodyEnters /\ NoneIsRouted
        BY <2>1 DEF NobodyEnters, NoneIsRouted
    <2>3. picked = None /\ NoNewWork
        BY <1>0, <2>1 DEF ScannedFirst, NoNewWork, SlotPhases
    <2>4. FlowInv'
        BY <2>1, <2>3 DEF FlowInv, ScannedFirst, DispatchedFirst, NoNewWork
    <2> QED
        BY <2>2, <2>4, QuietKeepsPools DEF CapacityInv
<1>7. ASSUME worker \in {"claim", "window"}, ~DispatchPending,
             UNCHANGED <<scanned, stop>>, NoneIsRouted, worker' \in {"claim", "top", "window"}
      PROVE  FlowInv'
    <2>1. scanned
        BY <1>0, <1>7 DEF ScannedFirst
    <2>2. ~DispatchPending'
        BY <1>0, <1>7, PendingStays DEF CapacityHyp
    <2> QED
        BY <1>7, <2>1, <2>2 DEF FlowInv, ScannedFirst, DispatchedFirst
<1>8. ASSUME NEW t \in Tasks, SelectTask(t)
      PROVE  CapacityInv'
    <2>1. worker = "claim" /\ ~DispatchPending /\ UNCHANGED <<held, pool, resumed, semCap, scanned, stop, worker>>
        BY <1>8 DEF SelectTask, workerVars, loopVars, slotVars, coVars
    <2>2. NobodyEnters /\ NoneIsRouted
        BY <2>1 DEF NobodyEnters, NoneIsRouted
    <2> QED
        BY <1>7, <2>1, <2>2, QuietKeepsPools DEF CapacityInv
<1>9. CASE NothingToClaim
    <2>1. /\ worker = "claim" /\ ~DispatchPending /\ worker' \in {"claim", "top"}
          /\ UNCHANGED <<held, pool, resumed, semCap, scanned, stop>>
        BY <1>9 DEF NothingToClaim, NextLane, Seek, slotVars, coVars
    <2>2. NobodyEnters /\ NoneIsRouted
        BY <2>1 DEF NobodyEnters, NoneIsRouted
    <2> QED
        BY <1>7, <2>1, <2>2, QuietKeepsPools DEF CapacityInv
<1>10. ASSUME NEW t \in Tasks, Claim(t)
       PROVE  CapacityInv'
    <2>1. /\ worker = "claim" /\ worker' = "window" /\ picked = t /\ status[t] = "queued"
          /\ held' = [held EXCEPT ![t] = "claimed"]
          /\ UNCHANGED <<pool, resumed, semCap, scanned, stop>>
        BY <1>10 DEF Claim, ClaimPicked, Move, coVars
    <2>2. held[t] = "none"
        BY <2>1 DEF CapacityHyp, BillingInv, UnbilledBeforeCall, Unstarted
    <2>3. NobodyEnters /\ NoneIsRouted
        BY <1>0, <2>1, <2>2 DEF NobodyEnters, NoneIsRouted, SlotPhases
    <2>4. ~DispatchPending
        BY <1>0, <2>1, TaskAssumption DEF DispatchedFirst
    <2> QED
        BY <1>7, <2>1, <2>3, <2>4, QuietKeepsPools DEF CapacityInv
<1>11. ASSUME NEW t \in Tasks, NEW p \in Providers, Unsupported(t, p) \/ Bounce(t, p)
       PROVE  CapacityInv'
    <2>1. /\ worker = "window" /\ worker' \in {"claim", "top"} /\ held[t] = "claimed"
          /\ held' = [held EXCEPT ![t] = "none"]
          /\ UNCHANGED <<pool, resumed, semCap, scanned, stop>>
        BY <1>11 DEF Unsupported, Bounce, NextLane, Seek, Move, coVars
    <2>2. NobodyEnters /\ NoneIsRouted
        BY <1>0, <2>1 DEF NobodyEnters, NoneIsRouted, SlotPhases
    <2>3. ~DispatchPending
        BY <1>0, <2>1 DEF DispatchedFirst
    <2> QED
        BY <1>7, <2>1, <2>2, <2>3, QuietKeepsPools DEF CapacityInv
<1>12. ASSUME NEW t \in Tasks, NEW p \in Providers, Register(t, p)
       PROVE  CapacityInv'
    <2>1. /\ worker = "window" /\ worker' = "claim" /\ held[t] = "claimed"
          /\ HasRoom(p, LaneOf[t])
          /\ held' = [held EXCEPT ![t] = "inflight"] /\ pool' = [pool EXCEPT ![t] = p]
          /\ UNCHANGED <<resumed, semCap, scanned, stop>>
        BY <1>12 DEF Register, Seek, Move
    <2>2. ~DispatchPending /\ NoneIsRouted
        BY <1>0, <2>1 DEF DispatchedFirst, NoneIsRouted
    <2>3. FlowInv'
        BY <1>7, <2>1, <2>2
    <2>4. t \notin resumed
        BY <2>1, ResumedHasSlot DEF SlotPhases
    <2>5. OneDispatch' /\ ResumesAreVideo'
        BY <1>0, <2>1, <2>4 DEF OneDispatch, ResumesAreVideo, PoolInv
    <2>6. ASSUME NEW q \in Providers
          PROVE  Permits(q)' \subseteq Permits(q)
        BY <1>0, <2>1, <2>4 DEF Permits
    <2>7. PermitsAreKept'
        BY <1>0, <2>1, <2>6, PermitsStay DEF PermitsAreKept, PoolInv
    <2>8. ASSUME NEW q \in Providers, NEW lane \in Lanes, NEW u \in Occupants(q, lane)', u \notin resumed'
          PROVE  \E table \in CapTables : Cardinality(Occupants(q, lane)') <= table[q][lane]
        <3>1. CASE q = p /\ lane = LaneOf[t]
            <4>1. Occupants(q, lane)' = Occupants(q, lane) \cup {t} /\ t \notin Occupants(q, lane)
                BY <1>0, <2>1, <3>1 DEF Occupants, SlotPhases
            <4>2. IsFiniteSet(Occupants(q, lane)) /\ Cardinality(Occupants(q, lane)) \in Nat
                BY SmallerSet DEF Occupants, CapacityHyp
            <4>3. Cardinality(Occupants(q, lane)') = Cardinality(Occupants(q, lane)) + 1
                BY <4>1, <4>2, FS_AddElement
            <4>4. Cardinality(Occupants(q, lane)) < cap[q][lane]
                BY <2>1, <3>1 DEF HasRoom
            <4> QED
                BY <1>0, <4>2, <4>3, <4>4, TablesAreNumbers
        <3>2. CASE ~(q = p /\ lane = LaneOf[t])
            <4>1. Occupants(q, lane)' \subseteq Occupants(q, lane)
                BY <1>0, <2>1, <3>2 DEF Occupants
            <4>2. u \in Occupants(q, lane) /\ u \notin resumed
                BY <2>1, <2>8, <4>1
            <4> QED
                BY <4>1, <4>2, RoomStays
        <3> QED
            BY <3>1, <3>2
    <2>9. RoomIsKept'
        BY <2>8 DEF RoomIsKept
    <2> QED
        BY <2>3, <2>5, <2>7, <2>9 DEF CapacityInv, PoolInv
<1> QED
    BY <1>1, <1>2, <1>3, <1>4, <1>5, <1>6, <1>8, <1>9, <1>10, <1>11, <1>12 DEF LoopStep

LEMMA DispatchKeepsCapacity ==
    ASSUME CapacityHyp, VideoLanesStay, WorkerTypeOK', NEW p \in Providers, DispatchStep(p)
    PROVE  CapacityInv'
<1>0. /\ cap' \in CapTables /\ ScannedFirst /\ DispatchedFirst /\ PoolInv
      /\ held \in [Tasks -> Holdings] /\ pool \in [Tasks -> Providers \cup {None}]
      /\ resumed \subseteq Tasks /\ cap \in CapTables /\ semCap \in [Providers -> Nat]
    BY DEF CapacityHyp, CapacityInv, FlowInv, WorkerTypeOK
<1>1. worker # "recover" /\ scanned /\ UNCHANGED <<worker, scanned, stop, picked>>
    <2>1. worker # "recover" /\ Bucket(p) # {} /\ UNCHANGED <<worker, scanned, stop, picked>>
        BY DEF DispatchStep, DispatchBucket, RefuseBucket, AbandonBucket, loopVars, queueVars
    <2> QED
        BY <1>0, <2>1 DEF Bucket, ScannedFirst
<1>2. CASE RefuseBucket(p) \/ AbandonBucket(p)
    <2>1. /\ UNCHANGED <<resumed, semCap>>
          /\ \A u \in Tasks : \/ held'[u] = held[u] /\ pool'[u] = pool[u]
                              \/ held[u] = "bucket" /\ held'[u] \in {"none", "refused"}
        BY <1>2 DEF RefuseBucket, AbandonBucket, Bucket, coVars
    <2>2. NobodyEnters /\ NoneIsRouted
        BY <1>0, <2>1, ResumedHasSlot DEF NobodyEnters, NoneIsRouted, SlotPhases
    <2>3. LoopGoesOn
        BY <1>1 DEF LoopGoesOn
    <2> QED
        BY <1>0, <1>1, <2>1, <2>2, <2>3, QuietKeepsPools, QuietKeepsFlow DEF CapacityInv
<1>3. CASE DispatchBucket(p)
    <2>1. PICK table \in CapTables : /\ table[p][VideoLane] > 0 /\ cap' = table
                                     /\ semCap' = [semCap EXCEPT ![p] = table[p][VideoLane]]
        BY <1>0, <1>3 DEF DispatchBucket, Reloaded
    <2>2. /\ Bucket(p) # {} /\ ~stop /\ resumed' = resumed \cup Bucket(p) /\ pool' = pool
          /\ held' = [t \in Tasks |-> IF t \in Bucket(p) THEN "pending" ELSE held[t]]
        BY <1>3 DEF DispatchBucket
    <2>3. /\ \A q \in Providers : cap[q][VideoLane] \in Nat /\ table[q][VideoLane] \in Nat
          /\ VideoLane \in Lanes
        BY <1>0, WorkerAssumption
    <2>4. cap[p][VideoLane] > 0
        BY <2>1, <2>3 DEF VideoLanesStay
    <2>5. DispatchPending
        BY <2>2, <2>4 DEF DispatchPending
    <2>6. picked = None /\ worker # "window" /\ NoNewWork
        BY <1>0, <2>5 DEF DispatchedFirst
    <2>7. NoNewWork'
        BY <2>2, <2>6 DEF NoNewWork, SlotPhases
    <2>8. FlowInv'
        BY <1>0, <1>1, <2>6, <2>7 DEF FlowInv, ScannedFirst, DispatchedFirst
    <2>9. OneDispatch' /\ ResumesAreVideo'
        BY <1>0, <2>2 DEF OneDispatch, ResumesAreVideo, PoolInv, Bucket
    <2>10. RoomIsKept'
        BY <2>7 DEF RoomIsKept, Occupants, NoNewWork
    <2>11. ASSUME NEW q \in Providers
           PROVE  /\ Cardinality(Permits(q)') <= semCap'[q]
                  /\ \E new \in CapTables : semCap'[q] <= new[q][VideoLane]
        <3>1. CASE q = p
            <4>1. Permits(q)' = {}
                BY <1>0, <2>2, <3>1 DEF Permits, Bucket, OneDispatch, PoolInv
            <4> QED
                BY <1>0, <2>1, <2>3, <3>1, <4>1, FS_EmptySet
        <3>2. CASE q # p
            <4>1. Permits(q)' \subseteq Permits(q) /\ semCap'[q] = semCap[q]
                BY <1>0, <2>1, <2>2, <3>2 DEF Permits, Bucket
            <4>2. Permits(q) \subseteq Tasks
                BY <1>0 DEF Permits
            <4>3. /\ Cardinality(Permits(q)') <= Cardinality(Permits(q)) /\ Cardinality(Permits(q)) \in Nat
                  /\ Cardinality(Permits(q)') \in Nat
                BY <4>1, <4>2, SmallerSet DEF CapacityHyp
            <4> QED
                BY <1>0, <4>1, <4>3 DEF PoolInv, PermitsAreKept
        <3> QED
            BY <3>1, <3>2
    <2> QED
        BY <2>8, <2>9, <2>10, <2>11 DEF CapacityInv, PoolInv, PermitsAreKept
<1> QED
    BY <1>2, <1>3 DEF DispatchStep

LEMMA CoroutineKeepsCapacity ==
    ASSUME CapacityHyp, VideoLanesStay, WorkerTypeOK', NEW t \in Tasks,
           FailRefused(t) \/ ProviderStep(t) \/ CoStep(t) \/ CloseFault(t)
    PROVE  CapacityInv'
<1>0. /\ cap' \in CapTables /\ PoolInv
      /\ held \in [Tasks -> Holdings] /\ pool \in [Tasks -> Providers \cup {None}]
      /\ resumed \subseteq Tasks /\ semCap \in [Providers -> Nat]
    BY DEF CapacityHyp, CapacityInv, WorkerTypeOK
<1>1. UNCHANGED <<worker, scanned, stop, semCap, picked>>
    <2>1. UNCHANGED <<worker, scanned, stop, semCap>>
        BY DEF FailRefused, ProviderStep, CoStep, CloseFault, Submit, Result, FirstStep, Route, PersistJob,
           Acquire, Interrupted, Conclude, coFrame, loopVars
    <2>2. CASE FailRefused(t) \/ Conclude(t)
        BY <2>1, <2>2 DEF FailRefused, Conclude, SucceedOrFinalize, FailOrFinalize, MarkFailed, MarkSucceeded,
           SetStatus, Finalize, FinalizeCancelled, MarkCancelled, NoRows, queueVars
    <2>3. CASE NoRows
        BY <2>1, <2>3 DEF NoRows, queueVars
    <2> QED
        BY <2>1, <2>2, <2>3 DEF ProviderStep, CoStep, CloseFault, Submit, Result, FirstStep, Route,
           PersistJob, Acquire, Interrupted
<1>2. ASSUME NobodyEnters, NoneIsRouted,
             \A u \in Tasks : \/ held'[u] \in {held[u], "none"}
                              \/ held[u] \in SlotPhases /\ held'[u] \in SlotPhases
      PROVE  CapacityInv'
    <2>1. \A u \in Tasks : held[u] \in SlotPhases => scanned
        BY DEF CapacityHyp, CapacityInv, FlowInv, ScannedFirst, SlotPhases
    <2>2. \A u \in Tasks : \/ held'[u] \in {held[u], "none"}
                           \/ held[u] # "none" /\ held'[u] # "claimed" /\ (scanned \/ worker # "recover")
        BY <1>2, <2>1 DEF SlotPhases
    <2>3. LoopGoesOn
        BY <1>1 DEF LoopGoesOn
    <2> QED
        BY <1>0, <1>1, <1>2, <2>2, <2>3, QuietKeepsPools, QuietKeepsFlow DEF CapacityInv
<1>3. CASE UNCHANGED <<held, pool, resumed>>
    BY <1>1, <1>2, <1>3 DEF NobodyEnters, NoneIsRouted
<1>4. ASSUME NEW how, Leave(t, how)
      PROVE  CapacityInv'
    <2>1. CASE t \notin resumed
        BY <1>3, <1>4, <2>1 DEF Leave, slotVars
    <2>2. CASE t \in resumed
        <3>1. /\ held' = [held EXCEPT ![t] = "none"] /\ pool' = [pool EXCEPT ![t] = None]
              /\ resumed' = resumed \ {t}
            BY <1>4, <2>2 DEF Leave, Move
        <3>2. NobodyEnters /\ NoneIsRouted
            BY <1>0, <1>1, <3>1 DEF NobodyEnters, NoneIsRouted, SlotPhases
        <3> QED
            BY <1>0, <1>2, <3>1, <3>2
    <2> QED
        BY <2>1, <2>2
<1>5. CASE FailRefused(t)
    <2>1. /\ held[t] = "refused" /\ held' = [held EXCEPT ![t] = "none"] /\ resumed' = resumed
          /\ pool' = [pool EXCEPT ![t] = None]
        BY <1>5 DEF FailRefused, Move, coVars
    <2>2. NobodyEnters /\ NoneIsRouted
        BY <1>0, <1>1, <2>1, ResumedHasSlot DEF NobodyEnters, NoneIsRouted, SlotPhases
    <2> QED
        BY <1>0, <1>2, <2>1, <2>2
<1>6. CASE Submit(t) \/ Result(t) \/ FirstStep(t) \/ PersistJob(t)
    BY <1>3, <1>6 DEF Submit, Result, FirstStep, PersistJob, Reach, slotVars
<1>7. CASE Route(t) \/ Interrupted(t) \/ Conclude(t) \/ CloseFault(t)
    BY <1>3, <1>4, <1>7 DEF Route, Interrupted, Conclude, CloseFault, Reach, slotVars
<1>8. CASE Acquire(t) /\ ~stop
    <2>1. /\ co[t] = "waiting" /\ held' = [held EXCEPT ![t] = "inflight"]
          /\ Cardinality(Permits(pool[t])) < semCap[pool[t]] /\ UNCHANGED <<pool, resumed>>
        BY <1>8 DEF Acquire, Move
    <2>2. held[t] \in SlotPhases
        BY <2>1 DEF CapacityHyp, BillingInv, LedgerMatchesCoroutines
    <2>3. OneDispatch' /\ ResumesAreVideo'
        BY <1>0, <2>1 DEF OneDispatch, ResumesAreVideo, PoolInv
    <2>4. ASSUME NEW p \in Providers, NEW lane \in Lanes
          PROVE  Occupants(p, lane)' = Occupants(p, lane)
        BY <1>0, <2>1, <2>2 DEF Occupants, SlotPhases
    <2>5. RoomIsKept'
        BY <1>0, <2>1, <2>4 DEF RoomIsKept, PoolInv
    <2>6. ASSUME NEW p \in Providers
          PROVE  (Cardinality(Permits(p)) <= semCap[p])'
        <3>1. IsFiniteSet(Permits(p)) /\ Cardinality(Permits(p)) \in Nat
            BY <1>0, SmallerSet DEF Permits, CapacityHyp
        <3>2. CASE pool[t] # p \/ t \notin resumed
            <4>1. Permits(p)' \subseteq Permits(p)
                BY <1>0, <2>1, <3>2 DEF Permits
            <4> QED
                BY <1>1, <4>1, PermitsStay
        <3>3. CASE pool[t] = p /\ t \in resumed
            <4>1. Permits(p)' = Permits(p) \cup {t}
                BY <1>0, <2>1, <3>3 DEF Permits
            <4>2. /\ Cardinality(Permits(p)') <= Cardinality(Permits(p)) + 1
                  /\ Cardinality(Permits(p)') \in Nat
                <5>1. Cardinality(Permits(p) \cup {t}) =
                        IF t \in Permits(p) THEN Cardinality(Permits(p)) ELSE Cardinality(Permits(p)) + 1
                    BY <3>1, FS_AddElement
                <5> QED
                    BY <3>1, <4>1, <5>1
            <4>3. Cardinality(Permits(p)) + 1 <= semCap[p]
                BY <1>0, <2>1, <3>1, <3>3
            <4> QED
                BY <1>0, <1>1, <3>1, <4>2, <4>3
        <3> QED
            BY <3>2, <3>3
    <2>7. PermitsAreKept'
        BY <1>0, <1>1, <2>6 DEF PermitsAreKept, PoolInv
    <2>8. FlowInv'
        <3>1. scanned
            BY <2>2 DEF CapacityHyp, CapacityInv, FlowInv, ScannedFirst, SlotPhases
        <3>2. NoneIsRouted /\ (NoNewWork => NoNewWork')
            BY <1>0, <2>1, <2>2 DEF NoneIsRouted, NoNewWork
        <3>3. DispatchPending' => DispatchPending
            BY <1>0, <1>1, <3>2, PendingStays DEF CapacityHyp
        <3> QED
            BY <1>1, <3>1, <3>2, <3>3 DEF CapacityHyp, CapacityInv, FlowInv, ScannedFirst, DispatchedFirst
    <2> QED
        BY <2>3, <2>5, <2>7, <2>8 DEF CapacityInv, PoolInv
<1>9. CASE Acquire(t) /\ stop
    BY <1>4, <1>9 DEF Acquire
<1> QED
    BY <1>5, <1>6, <1>7, <1>8, <1>9 DEF ProviderStep, CoStep

LEMMA CapacityStep ==
    ASSUME CapacityHyp, WorkerTypeOK', [WorkerNext]_vars, [VideoLanesStay]_cap
    PROVE  CapacityInv'
<1>1. VideoLanesStay
    BY DEF VideoLanesStay
<1>2. CASE UNCHANGED vars
    <2>1. /\ UNCHANGED <<held, pool, resumed, semCap, scanned, picked, stop, worker>>
          /\ cap' \in CapTables
        BY <1>2 DEF vars, workerVars, queueVars, slotVars, coVars, loopVars, WorkerTypeOK
    <2>2. NobodyEnters /\ NoneIsRouted /\ LoopGoesOn
        BY <2>1 DEF NobodyEnters, NoneIsRouted, LoopGoesOn
    <2> QED
        BY <1>1, <2>1, <2>2, QuietKeepsPools, QuietKeepsFlow DEF CapacityInv
<1> QED
    BY <1>1, <1>2, OuterKeepsCapacity, LoopKeepsCapacity, DispatchKeepsCapacity, CoroutineKeepsCapacity
    DEF WorkerNext

\* has_room and the dispatcher's semaphore together: for any finite number of
\* requests, any capacity tables and any crashes, stops and faults, no provider
\* has more tasks at work in a lane than some table allows, as long as no reload
\* opens or closes a video lane.  Reloads that do are the exception that
\* _dispatch_provider_bucket documents.
THEOREM PoolsAreRespected ==
    ASSUME IsFiniteSet(Tasks)
    PROVE  WorkerSpec /\ [][VideoLanesStay]_cap => []CapacityRespected
<1>1. WorkerInit => BillingInv
    BY DEF WorkerInit, Init, BillingInv, LedgerMatchesCoroutines, ResumesOnlyPoll, UnbilledBeforeCall,
       BilledOnce
<1>2. WorkerInit => CapacityInv
    <2> SUFFICES ASSUME WorkerInit PROVE CapacityInv
        OBVIOUS
    <2>1. /\ worker = "down" /\ scanned = FALSE /\ resumed = {} /\ picked = None
          /\ held = [t \in Tasks |-> "none"] /\ semCap = [p \in Providers |-> 0]
        BY DEF WorkerInit, Init
    <2>2. FlowInv /\ OneDispatch /\ ResumesAreVideo /\ RoomIsKept
        BY <2>1 DEF FlowInv, ScannedFirst, DispatchedFirst, DispatchPending, Bucket, OneDispatch,
           ResumesAreVideo, RoomIsKept, Occupants, SlotPhases
    <2>3. ASSUME NEW p \in Providers
          PROVE  /\ Cardinality(Permits(p)) <= semCap[p]
                 /\ \E table \in CapTables : semCap[p] <= table[p][VideoLane]
        <3>1. Permits(p) = {} /\ semCap[p] = 0
            BY <2>1 DEF Permits
        <3>2. \E table \in CapTables : table[p][VideoLane] \in Nat
            BY WorkerAssumption
        <3> QED
            BY <3>1, <3>2, FS_EmptySet
    <2> QED
        BY <2>2, <2>3 DEF CapacityInv, PoolInv, PermitsAreKept
<1>3. WorkerTypeOK /\ BillingInv /\ CapacityInv => CapacityRespected
    <2> SUFFICES ASSUME WorkerTypeOK, BillingInv, CapacityInv, NEW p \in Providers, NEW lane \in Lanes
                 PROVE  \E table \in CapTables : Cardinality(AtWork(p, lane)) <= table[p][lane]
        BY DEF CapacityRespected
    <2>0. CapacityHyp /\ resumed \subseteq Tasks /\ semCap \in [Providers -> Nat]
        BY DEF CapacityHyp, WorkerTypeOK
    <2>1. CASE \E t \in Occupants(p, lane) : t \notin resumed
        <3>1. PICK table \in CapTables : Cardinality(Occupants(p, lane)) <= table[p][lane]
            BY <2>1 DEF CapacityInv, PoolInv, RoomIsKept
        <3>2. /\ Cardinality(AtWork(p, lane)) <= Cardinality(Occupants(p, lane))
              /\ Cardinality(AtWork(p, lane)) \in Nat /\ Cardinality(Occupants(p, lane)) \in Nat
            BY SmallerSet DEF AtWork, Occupants
        <3> QED
            BY <3>1, <3>2, TablesAreNumbers
    <2>2. CASE (\A t \in Occupants(p, lane) : t \in resumed) /\ lane = VideoLane
        <3>1. PICK table \in CapTables : semCap[p] <= table[p][VideoLane]
            BY DEF CapacityInv, PoolInv, PermitsAreKept
        <3>2. Cardinality(Permits(p)) <= semCap[p]
            BY DEF CapacityInv, PoolInv, PermitsAreKept
        <3>3. AtWork(p, lane) \subseteq Permits(p) /\ Permits(p) \subseteq Tasks
            BY <2>0, <2>2 DEF AtWork, Occupants, Permits
        <3>4. /\ Cardinality(AtWork(p, lane)) <= Cardinality(Permits(p))
              /\ Cardinality(AtWork(p, lane)) \in Nat /\ Cardinality(Permits(p)) \in Nat
            BY <3>3, SmallerSet
        <3> QED
            BY <2>0, <2>2, <3>1, <3>2, <3>4, TablesAreNumbers
    <2>3. CASE (\A t \in Occupants(p, lane) : t \in resumed) /\ lane # VideoLane
        <3>1. AtWork(p, lane) = {}
            BY <2>3 DEF AtWork, Occupants, CapacityInv, PoolInv, ResumesAreVideo
        <3>2. \E table \in CapTables : table[p][lane] \in Nat
            BY WorkerAssumption
        <3> QED
            BY <3>1, <3>2, FS_EmptySet
    <2> QED
        BY <2>1, <2>2, <2>3
<1>4. WorkerTypeOK /\ BillingInv /\ CapacityInv /\ WorkerTypeOK' /\ [WorkerNext]_vars
        /\ [VideoLanesStay]_cap => CapacityInv'
    BY CapacityStep DEF CapacityHyp
<1>5. WorkerSpec /\ [][VideoLanesStay]_cap => []CapacityInv
    BY <1>1, <1>2, <1>4, BillingStep, WorkerTypeCorrect, PTL DEF WorkerSpec
<1>6. WorkerSpec => []BillingInv
    BY <1>1, BillingStep, WorkerTypeCorrect, PTL DEF WorkerSpec
<1> QED
    BY <1>3, <1>5, <1>6, WorkerTypeCorrect, PTL

=============================================================================
