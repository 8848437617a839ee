--------------------------- MODULE TaskQueue_proofs ---------------------------
(***************************************************************************)
(* What TaskQueue guarantees for any number of tasks, keys, projects,      *)
(* lanes and providers.                                                    *)
(*                                                                         *)
(* The argument rests on three lemmas about the cascade (it reaches queued *)
(* tasks only, every queued task that waits for one it reaches, and none   *)
(* but those) and on EveryTaskSteps, which says what any transaction does  *)
(* to one task.  TypeOK is inductive; so are, given TypeOK, the other      *)
(* invariants, except RunsAfterDependency: it needs PickedIsReady.         *)
(***************************************************************************)
EXTENDS TaskQueue, TLAPS

-----------------------------------------------------------------------------
(* The cascade.                                                            *)

\* A cascade reaches only queued tasks: the queued tasks themselves are a
\* closed set.
LEMMA QueuedBelowQueued ==
    ASSUME NEW t
    PROVE  QueuedBelow(t) \subseteq {u \in Tasks : status[u] = "queued"}
<1>1. ReachedBelow(t, {u \in Tasks : status[u] = "queued"})
    BY DEF ReachedBelow
<1>2. {u \in Tasks : status[u] = "queued"} \in SUBSET Tasks
    OBVIOUS
<1> QED
    BY <1>1, <1>2 DEF QueuedBelow

\* A cascade is closed: a queued task behind one it reaches is reached.
LEMMA QueuedBelowClosed ==
    ASSUME NEW t, NEW v \in Tasks, status[v] = "queued", dep[v] \in QueuedBelow(t) \cup {t}
    PROVE  v \in QueuedBelow(t)
<1> SUFFICES ASSUME NEW S \in SUBSET Tasks, ReachedBelow(t, S)
             PROVE  v \in S
    BY DEF QueuedBelow
<1>1. dep[v] \in S \cup {t}
    BY DEF QueuedBelow
<1> QED
    BY <1>1 DEF ReachedBelow

\* A cascade starts at t: whatever it reaches waits for t or for a task it
\* reaches.
LEMMA QueuedBelowRooted ==
    ASSUME NEW t, NEW u \in QueuedBelow(t)
    PROVE  dep[u] \in QueuedBelow(t) \cup {t}
<1> DEFINE S == {w \in QueuedBelow(t) : dep[w] \in QueuedBelow(t) \cup {t}}
<1>1. ReachedBelow(t, S)
    <2> SUFFICES ASSUME NEW v \in Tasks, status[v] = "queued", dep[v] \in S \cup {t}
                 PROVE  v \in S
        BY DEF ReachedBelow
    <2>1. dep[v] \in QueuedBelow(t) \cup {t}
        OBVIOUS
    <2> QED
        BY <2>1, QueuedBelowClosed
<1>2. S \in SUBSET Tasks
    BY DEF QueuedBelow
<1>3. u \in S
    BY <1>1, <1>2 DEF QueuedBelow
<1> QED
    BY <1>3

-----------------------------------------------------------------------------
(* Types.                                                                  *)

\* Publish keeps the feed well typed.
LEMMA PublishType ==
    ASSUME TypeOK, status' \in [Tasks -> Status], Publish
    PROVE  lastEvent' \in [Tasks -> Status]
BY DEF TypeOK, Publish

\* Every variable keeps its type, under every method of the repository.
THEOREM TypeCorrect == Spec => []TypeOK
<1> USE TaskAssumption DEF TypeOK, Status, Active, Terminal, Attribution
<1>1. Init => TypeOK
    BY DEF Init
<1>2. TypeOK /\ [Next]_queueVars => TypeOK'
    <2> SUFFICES ASSUME TypeOK, [Next]_queueVars
                 PROVE  TypeOK'
        OBVIOUS
    <2>1. CASE UNCHANGED queueVars
        BY <2>1 DEF queueVars
    <2>2. ASSUME NEW t \in Tasks, NEW d \in Tasks \cup {None}, Enqueue(t, d)
          PROVE  TypeOK'
        BY <2>2, PublishType DEF Enqueue
    <2>3. ASSUME NEW t \in Tasks, NEW lane \in Lanes, NEW full \in SUBSET Providers,
                 PickNext(t, lane, full)
          PROVE  TypeOK'
        BY <2>3 DEF PickNext
    <2>11. ASSUME NEW t \in Tasks, ClaimPicked(t)
           PROVE  TypeOK'
        BY <2>11, PublishType DEF ClaimPicked
    <2>12. CASE AbandonClaim
        BY <2>12 DEF AbandonClaim
    <2>4. ASSUME NEW t \in Tasks, MarkSucceeded(t)
          PROVE  TypeOK'
        BY <2>4, PublishType DEF MarkSucceeded
    <2>5. ASSUME NEW t \in Tasks, MarkFailed(t)
          PROVE  TypeOK'
        BY <2>5, PublishType DEF MarkFailed, SetStatus
    <2>6. ASSUME NEW t \in Tasks, NEW by \in {"user"}, MarkCancelled(t, by)
          PROVE  TypeOK'
        <3>1. status' \in [Tasks -> Status]
            BY <2>6 DEF MarkCancelled
        <3>2. cancelledBy' \in [Tasks -> Attribution]
            BY <2>6 DEF MarkCancelled
        <3> QED
            BY <2>6, <3>1, <3>2, PublishType DEF MarkCancelled
    <2>7. ASSUME NEW t \in Tasks, MarkCancelling(t, "user")
          PROVE  TypeOK'
        BY <2>7, PublishType DEF MarkCancelling
    <2>8. ASSUME NEW p \in Projects, NEW listed \in SUBSET Rows, CancelAllQueued(p, listed)
          PROVE  TypeOK'
        BY <2>8 DEF CancelAllQueued, SetStatus
    <2>9. ASSUME NEW t \in Tasks, RequeueSingle(t)
          PROVE  TypeOK'
        BY <2>9 DEF RequeueSingle
    <2>10. ASSUME NEW listed \in SUBSET Rows, RequeueRunning(listed)
           PROVE  TypeOK'
        BY <2>10 DEF RequeueRunning, SetStatus
    <2> QED
        BY <2>1, <2>2, <2>3, <2>4, <2>5, <2>6, <2>7, <2>8, <2>9, <2>10, <2>11, <2>12
        DEF Next, CancelTask, FinalizeCancelled
<1> QED
    BY <1>1, <1>2, PTL DEF Spec

-----------------------------------------------------------------------------
(* What one transaction does to one task.                                  *)

Moves ==
    {<<"absent", "queued">>, <<"queued", "running">>, <<"queued", "failed">>,
     <<"queued", "cancelled">>, <<"running", "succeeded">>, <<"running", "failed">>,
     <<"running", "queued">>, <<"running", "cancelling">>, <<"running", "cancelled">>,
     <<"cancelling", "cancelled">>}

CancelSeen(s) == s \in {"cancelling", "cancelled"}

TaskStep(u) ==
    /\ status'[u] # status[u] => <<status[u], status'[u]>> \in Moves
    /\ status[u] # "absent" => dep'[u] = dep[u]
    /\ status[u] = "queued" /\ status'[u] = "running" => picked = u
    /\ IF CancelSeen(status'[u]) /\ status'[u] # status[u]
       THEN /\ cancelledBy'[u] # None
            /\ status[u] = "cancelling" /\ cancelledBy[u] # None => cancelledBy'[u] = cancelledBy[u]
       ELSE cancelledBy'[u] = cancelledBy[u]

\* Every transaction moves every task along Moves, starts only the one that
\* was picked, and writes cancelled_by exactly on those it stops.
LEMMA EveryTaskSteps ==
    ASSUME TypeOK, [Next]_queueVars, NEW u \in Tasks
    PROVE  TaskStep(u)
<1> USE TaskAssumption DEF TypeOK, TaskStep, Moves, CancelSeen
<1>1. CASE UNCHANGED queueVars
    BY <1>1 DEF queueVars
<1>2. ASSUME NEW t \in Tasks, NEW d \in Tasks \cup {None}, Enqueue(t, d)
      PROVE  TaskStep(u)
    BY <1>2 DEF Enqueue
<1>3. ASSUME NEW t \in Tasks, ClaimPicked(t)
      PROVE  TaskStep(u)
    BY <1>3 DEF ClaimPicked
<1>4. ASSUME NEW t \in Tasks, MarkSucceeded(t)
      PROVE  TaskStep(u)
    BY <1>4 DEF MarkSucceeded
<1>5. ASSUME NEW t \in Tasks, MarkFailed(t)
      PROVE  TaskStep(u)
    <2>1. QueuedBelow(t) \subseteq {v \in Tasks : status[v] = "queued"}
        BY QueuedBelowQueued
    <2> QED
        BY <1>5, <2>1 DEF MarkFailed, SetStatus
<1>6. ASSUME NEW t \in Tasks, MarkCancelled(t, "user")
      PROVE  TaskStep(u)
    <2>1. QueuedBelow(t) \subseteq {v \in Tasks : status[v] = "queued"}
        BY QueuedBelowQueued
    <2> DEFINE ended    == {t} \cup QueuedBelow(t)
               stopping == RunningDependents(ended) \ ended
    <2>2. /\ status[t] \in Active
          /\ status'[u] = IF u \in ended THEN "cancelled"
                          ELSE IF u \in stopping THEN "cancelling" ELSE status[u]
          /\ cancelledBy'[u] = IF u \in ended \cup stopping /\ cancelledBy[u] = None
                               THEN IF u = t THEN "user" ELSE "cascade"
                               ELSE cancelledBy[u]
          /\ dep' = dep
        BY <1>6 DEF MarkCancelled
    <2>3. u \in ended => status[u] \in Active
        BY <2>1, <2>2 DEF Active
    <2>4. u \in stopping => status[u] = "running"
        BY DEF RunningDependents
    <2> HIDE DEF ended, stopping
    <2> QED
        BY <2>2, <2>3, <2>4 DEF Active
<1>7. ASSUME NEW t \in Tasks, MarkCancelling(t, "user")
      PROVE  TaskStep(u)
    BY <1>7 DEF MarkCancelling
<1>8. ASSUME NEW p \in Projects, NEW listed \in SUBSET Rows, CancelAllQueued(p, listed)
      PROVE  TaskStep(u)
    BY <1>8 DEF CancelAllQueued, SetStatus
<1>9. ASSUME NEW t \in Tasks, RequeueSingle(t)
      PROVE  TaskStep(u)
    BY <1>9 DEF RequeueSingle
<1>10. ASSUME NEW listed \in SUBSET Rows, RequeueRunning(listed)
       PROVE  TaskStep(u)
    BY <1>10 DEF RequeueRunning, SetStatus
<1>11. CASE (\E t \in Tasks, lane \in Lanes, full \in SUBSET Providers : PickNext(t, lane, full))
            \/ AbandonClaim
    BY <1>11 DEF PickNext, AbandonClaim
<1> QED
    BY <1>1, <1>2, <1>3, <1>4, <1>5, <1>6, <1>7, <1>8, <1>9, <1>10, <1>11
    DEF Next, CancelTask, FinalizeCancelled

-----------------------------------------------------------------------------
(* Invariants.                                                             *)

\* A dependency that is met stays met.
LEMMA DependencyStaysMet ==
    ASSUME TypeOK, [Next]_queueVars, NEW t \in Tasks, status[t] # "absent", DependencyMet(t)
    PROVE  DependencyMet(t)'
<1> USE DEF TypeOK, Moves
<1>1. dep'[t] = dep[t]
    BY EveryTaskSteps DEF TaskStep
<1>2. ASSUME dep[t] \in Tasks, status[dep[t]] = "succeeded"
      PROVE  status'[dep[t]] = "succeeded"
    BY <1>2, EveryTaskSteps DEF TaskStep
<1> QED
    BY <1>1, <1>2 DEF DependencyMet

\* What RunsAfterDependency needs of the gap inside claim_next: the task that
\* its SELECT returned is a row whose dependency is met.
PickedIsReady == picked \in Tasks => status[picked] # "absent" /\ DependencyMet(picked)

RunsAfterDependencyInv == RunsAfterDependency /\ PickedIsReady

\* What is picked, and what has started, had its dependency succeed first.
LEMMA RunsAfterDependencyKept ==
    ASSUME TypeOK, RunsAfterDependencyInv, [Next]_queueVars
    PROVE  RunsAfterDependencyInv'
<1>1. PickedIsReady'
    <2> SUFFICES ASSUME picked' \in Tasks
                 PROVE  (status[picked] # "absent" /\ DependencyMet(picked))'
        BY DEF PickedIsReady
    <2>1. CASE \E t \in Tasks, lane \in Lanes, full \in SUBSET Providers : PickNext(t, lane, full)
        <3>1. PICK t \in Tasks, lane \in Lanes, full \in SUBSET Providers : PickNext(t, lane, full)
            BY <2>1
        <3>2. picked' = t /\ status' = status /\ dep' = dep /\ status[t] = "queued" /\ DependencyMet(t)
            BY <3>1 DEF PickNext, Claimable
        <3> QED
            BY <3>2 DEF DependencyMet
    <2>2. CASE picked' = picked
        <3>1. status[picked] # "absent" /\ DependencyMet(picked)
            BY <2>2 DEF RunsAfterDependencyInv, PickedIsReady
        <3>2. DependencyMet(picked)' /\ TaskStep(picked')
            BY <2>2, <3>1, DependencyStaysMet, EveryTaskSteps DEF DependencyMet
        <3> QED
            BY <2>2, <3>1, <3>2 DEF TaskStep, Moves
    <2>3. picked' # None
        BY TaskAssumption
    <2> QED
        BY <2>1, <2>2, <2>3 DEF Next, queueVars, Enqueue, ClaimPicked, AbandonClaim,
           MarkSucceeded, MarkFailed, CancelTask, FinalizeCancelled, MarkCancelled,
           MarkCancelling, CancelAllQueued, RequeueSingle, RequeueRunning
<1>2. RunsAfterDependency'
    <2> SUFFICES ASSUME NEW t \in Tasks, Started(t)'
                 PROVE  DependencyMet(t)'
        BY DEF RunsAfterDependency
    <2> USE DEF TypeOK, Moves, Started
    <2>1. TaskStep(t)
        BY EveryTaskSteps
    <2>2. status[t] # "absent" /\ DependencyMet(t)
        BY <2>1 DEF RunsAfterDependencyInv, RunsAfterDependency, PickedIsReady, TaskStep
    <2> QED
        BY <2>2, DependencyStaysMet
<1> QED
    BY <1>1, <1>2 DEF RunsAfterDependencyInv

\* For every instance: what runs, or ran to success, had its dependency
\* succeed.
THEOREM DependencyFirst == Spec => []RunsAfterDependency
<1>1. Init => RunsAfterDependencyInv
    BY TaskAssumption DEF Init, RunsAfterDependencyInv, RunsAfterDependency, PickedIsReady, Started
<1>2. TypeOK /\ RunsAfterDependencyInv /\ [Next]_queueVars => RunsAfterDependencyInv'
    BY RunsAfterDependencyKept
<1>3. RunsAfterDependencyInv => RunsAfterDependency
    BY DEF RunsAfterDependencyInv
<1> QED
    BY <1>1, <1>2, <1>3, TypeCorrect, PTL DEF Spec

\* A task that succeeded is not active, hence no cascade has a running
\* dependent to interrupt.
LEMMA NoRunningDependents ==
    ASSUME RunsAfterDependency
    PROVE  NothingRunningToCascadeTo
<1> SUFFICES ASSUME NEW t \in Tasks, status[t] \in Active,
                    NEW u \in CascadedRunning(t)
             PROVE  FALSE
    BY DEF NothingRunningToCascadeTo
<1>1. QueuedBelow(t) \subseteq {v \in Tasks : status[v] = "queued"}
    BY QueuedBelowQueued
<1>2. /\ u \in Tasks /\ status[u] = "running"
      /\ dep[u] \in {t} \cup QueuedBelow(t)
    BY DEF CascadedRunning, RunningDependents
<1>3. dep[u] \in Tasks /\ status[dep[u]] \in Active
    BY <1>1, <1>2 DEF Active
<1>4. status[dep[u]] = "succeeded"
    BY <1>2, <1>3, TaskAssumption DEF RunsAfterDependency, Started, DependencyMet
<1> QED
    BY <1>3, <1>4 DEF Active

\* For every instance: no cascade ever meets a running dependent.
THEOREM CascadeSparesRunning == Spec => []NothingRunningToCascadeTo
BY NoRunningDependents, DependencyFirst, PTL

\* cancelled_by stays in step with the status.
LEMMA CancelAttributedKept ==
    ASSUME TypeOK, CancelAttributed, [Next]_queueVars
    PROVE  CancelAttributed'
<1> SUFFICES ASSUME NEW t \in Tasks
             PROVE  cancelledBy'[t] # None <=> status'[t] \in {"cancelling", "cancelled"}
    BY DEF CancelAttributed
<1>1. TaskStep(t)
    BY EveryTaskSteps
<1>2. cancelledBy[t] # None <=> status[t] \in {"cancelling", "cancelled"}
    BY DEF CancelAttributed
<1>3. CASE CancelSeen(status'[t]) /\ status'[t] # status[t]
    BY <1>1, <1>3 DEF TaskStep, CancelSeen
<1>4. CASE ~(CancelSeen(status'[t]) /\ status'[t] # status[t])
    <2>1. cancelledBy'[t] = cancelledBy[t]
        BY <1>1, <1>4 DEF TaskStep
    <2>2. status[t] \in {"cancelling", "cancelled"} => status'[t] \in {"cancelling", "cancelled"}
        BY <1>1 DEF TaskStep, Moves
    <2> QED
        BY <2>1, <2>2, <1>2, <1>4 DEF CancelSeen
<1> QED
    BY <1>3, <1>4

\* For every instance: exactly the tasks somebody asked to stop carry
\* cancelled_by.
THEOREM CancelsAreAttributed == Spec => []CancelAttributed
<1>1. Init => CancelAttributed
    BY DEF Init, CancelAttributed
<1>2. TypeOK /\ CancelAttributed /\ [Next]_queueVars => CancelAttributed'
    BY CancelAttributedKept
<1> QED
    BY <1>1, <1>2, TypeCorrect, PTL DEF Spec

\* For every instance: a cancel request wins, terminal states are final and
\* who cancelled a task is never rewritten.
THEOREM CancelIsFinal == Spec => CancelWins
<1>1. TypeOK /\ CancelAttributed /\ [Next]_queueVars => [CancelWinsStep]_queueVars
    <2> SUFFICES ASSUME TypeOK, CancelAttributed, [Next]_queueVars, NEW t \in Tasks
                 PROVE  /\ status[t] = "cancelling" => status'[t] \in {"cancelling", "cancelled"}
                        /\ status[t] \in Terminal => status'[t] = status[t]
                        /\ cancelledBy[t] # None => cancelledBy'[t] = cancelledBy[t]
        BY DEF CancelWinsStep
    <2>1. TaskStep(t)
        BY EveryTaskSteps
    <2>2. cancelledBy[t] # None => status[t] \in {"cancelling", "cancelled"}
        BY DEF CancelAttributed
    <2> QED
        BY <2>1, <2>2 DEF TaskStep, Moves, CancelSeen, Terminal
<1> QED
    BY <1>1, TypeCorrect, CancelsAreAttributed, PTL DEF Spec, CancelWins

\* Only an enqueue makes a task active, and only the task it inserts.
LEMMA ActiveOnlyByEnqueue ==
    ASSUME TypeOK, [Next]_queueVars
    PROVE  \/ \A u \in Tasks : status'[u] \in Active => status[u] \in Active
           \/ \E t \in Tasks : /\ KeyIsFree(t)
                               /\ status' = [status EXCEPT ![t] = "queued"]
<1>1. ASSUME NEW t \in Tasks, NEW d \in Tasks \cup {None}, Enqueue(t, d)
      PROVE  \E v \in Tasks : KeyIsFree(v) /\ status' = [status EXCEPT ![v] = "queued"]
    BY <1>1 DEF Enqueue
<1>2. CASE ~\E t \in Tasks, d \in Tasks \cup {None} : Enqueue(t, d)
    <2> SUFFICES ASSUME NEW u \in Tasks, status'[u] \in Active, status[u] \notin Active
                 PROVE  FALSE
        OBVIOUS
    <2>1. status[u] = "absent" /\ status'[u] = "queued"
        BY EveryTaskSteps DEF TaskStep, Moves, Active
    <2> QED
        BY <2>1, <1>2, QueuedBelowQueued DEF TypeOK, Next, queueVars, PickNext, ClaimPicked, AbandonClaim,
           MarkSucceeded, MarkFailed, SetStatus, CancelTask, FinalizeCancelled, MarkCancelled,
           MarkCancelling, RunningDependents, CancelAllQueued, RequeueSingle, RequeueRunning
<1> QED
    BY <1>1, <1>2

\* For every instance: at most one active task per key, whatever is
\* requeued, cancelled or enqueued again meanwhile.
THEOREM NoDuplicateWork == Spec => []OneActivePerKey
<1>1. Init => OneActivePerKey
    BY DEF Init, OneActivePerKey, Active
<1>2. TypeOK /\ OneActivePerKey /\ [Next]_queueVars => OneActivePerKey'
    <2> SUFFICES ASSUME TypeOK, OneActivePerKey, [Next]_queueVars,
                        NEW t \in Tasks, NEW u \in Tasks, t # u, KeyOf[t] = KeyOf[u],
                        status'[t] \in Active, status'[u] \in Active
                 PROVE  FALSE
        BY DEF OneActivePerKey, Active
    <2>1. CASE \A v \in Tasks : status'[v] \in Active => status[v] \in Active
        BY <2>1 DEF OneActivePerKey
    <2>2. CASE \E v \in Tasks : KeyIsFree(v) /\ status' = [status EXCEPT ![v] = "queued"]
        <3>1. PICK v \in Tasks : KeyIsFree(v) /\ status' = [status EXCEPT ![v] = "queued"]
            BY <2>2
        <3>2. status' = [w \in Tasks |-> IF w = v THEN "queued" ELSE status[w]]
            BY <3>1 DEF TypeOK
        <3>3. CASE t = v
            BY <3>1, <3>2, <3>3 DEF KeyIsFree
        <3>4. CASE u = v
            BY <3>1, <3>2, <3>4 DEF KeyIsFree
        <3>5. CASE t # v /\ u # v
            BY <3>2, <3>5 DEF OneActivePerKey
        <3> QED
            BY <3>3, <3>4, <3>5
    <2> QED
        BY <2>1, <2>2, ActiveOnlyByEnqueue
<1> QED
    BY <1>1, <1>2, TypeCorrect, PTL DEF Spec

-----------------------------------------------------------------------------
(* Cascades are complete.                                                  *)

SameProject == \A t \in Tasks : dep[t] \in Tasks => ProjectOf[dep[t]] = ProjectOf[t]

\* A dependency is a task of the same project (so that cancelling all queued
\* tasks of a project leaves nothing queued behind them).
LEMMA DependsInProject == Spec => []SameProject
<1>1. Init => SameProject
    BY TaskAssumption DEF Init, SameProject
<1>2. TypeOK /\ SameProject /\ [Next]_queueVars => SameProject'
    <2> SUFFICES ASSUME TypeOK, SameProject, [Next]_queueVars
                 PROVE  SameProject'
        OBVIOUS
    <2>1. ASSUME NEW t \in Tasks, NEW d \in Tasks \cup {None}, Enqueue(t, d)
          PROVE  SameProject'
        BY <2>1, TaskAssumption DEF Enqueue, SameProject, TypeOK
    <2>2. CASE UNCHANGED dep
        BY <2>2 DEF SameProject
    <2> QED
        BY <2>1, <2>2 DEF Next, queueVars, PickNext, ClaimPicked, AbandonClaim, MarkSucceeded, MarkFailed, CancelTask,
           FinalizeCancelled, MarkCancelled, MarkCancelling, CancelAllQueued, RequeueSingle,
           RequeueRunning
<1> QED
    BY <1>1, <1>2, TypeCorrect, PTL DEF Spec

\* For every instance: the tasks queued behind one that fails or is cancelled
\* end in the same transaction, and a queued task fails only with the task
\* it waits for.
THEOREM NothingLeftBehind == Spec => CascadeIsComplete
<1> DEFINE Together(t) ==
      /\ /\ dep[t] \in Tasks
         /\ status[dep[t]] \in Active
         /\ status'[dep[t]] \in {"failed", "cancelled"}
         => status'[t] = "cancelled" \/ status'[t] = status'[dep[t]]
      /\ status'[t] = "failed" => dep[t] \in Tasks /\ status'[dep[t]] = "failed"
<1>1. TypeOK /\ SameProject /\ [Next]_queueVars
        => [EndsWithDependency]_queueVars
    <2> SUFFICES ASSUME TypeOK, SameProject, [Next]_queueVars,
                        NEW t \in Tasks, status[t] = "queued"
                 PROVE  Together(t)
        BY DEF EndsWithDependency
    <2> USE DEF TypeOK, Active
    <2>1. ASSUME NEW v \in Tasks, MarkFailed(v)
          PROVE  Together(t)
        <3>1. QueuedBelow(v) \subseteq {w \in Tasks : status[w] = "queued"}
            BY QueuedBelowQueued
        <3>2. \A w \in Tasks : status'[w] = IF w \in {v} \cup QueuedBelow(v)
                                             THEN "failed" ELSE status[w]
            BY <2>1 DEF MarkFailed, SetStatus
        <3>3. dep[t] \in {v} \cup QueuedBelow(v) => t \in QueuedBelow(v)
            BY QueuedBelowClosed
        <3>4. t \in QueuedBelow(v) => dep[t] \in {v} \cup QueuedBelow(v)
            BY QueuedBelowRooted
        <3>5. t # v
            BY <2>1 DEF MarkFailed
        <3> QED
            BY <3>1, <3>2, <3>3, <3>4, <3>5, <2>1
    <2>2. ASSUME NEW v \in Tasks, MarkCancelled(v, "user")
          PROVE  Together(t)
        <3>1. \A w \in Tasks :
                 /\ w \in {v} \cup QueuedBelow(v) => status'[w] = "cancelled"
                 /\ w \notin {v} \cup QueuedBelow(v) => status'[w] \in {"cancelling", status[w]}
            BY <2>2 DEF MarkCancelled
        <3>2. dep[t] \in {v} \cup QueuedBelow(v) => t \in QueuedBelow(v)
            BY QueuedBelowClosed
        <3> QED
            BY <3>1, <3>2
    <2>3. ASSUME NEW p \in Projects, NEW listed \in SUBSET Rows, CancelAllQueued(p, listed)
          PROVE  Together(t)
        <3>1. \A w \in Tasks : status'[w] = IF ProjectOf[w] = p /\ status[w] = "queued"
                                             THEN "cancelled" ELSE status[w]
            BY <2>3 DEF CancelAllQueued, SetStatus
        <3> QED
            BY <3>1 DEF SameProject
    <2>4. CASE \A w \in Tasks : status[w] \in Active => status'[w] \notin {"failed", "cancelled"}
        BY <2>4
    <2> QED
        BY <2>1, <2>2, <2>3, <2>4 DEF Next, queueVars, Enqueue, PickNext, ClaimPicked,
           AbandonClaim, MarkSucceeded, CancelTask, FinalizeCancelled, MarkCancelling, RequeueSingle, RequeueRunning, SetStatus
<1> QED
    BY <1>1, TypeCorrect, DependsInProject, PTL DEF Spec, CascadeIsComplete

-----------------------------------------------------------------------------
(* The event feed.                                                         *)

\* For every instance: the newest event of a task is its status, unless the
\* worker put the task back silently or a bulk cancel had not listed it.
THEOREM FeedIsHonest == Spec => []FeedLagsOnlySilently
<1> DEFINE Lag(e, s, by) ==
      e # s => /\ e \in {"queued", "running"}
               /\ \/ e = "running" /\ s = "queued"
                  \/ s = "cancelled" /\ by = "user"
<1>1. Init => FeedLagsOnlySilently
    BY DEF Init, FeedLagsOnlySilently
<1>2. TypeOK /\ FeedLagsOnlySilently /\ [Next]_queueVars => FeedLagsOnlySilently'
    <2> SUFFICES ASSUME TypeOK, FeedLagsOnlySilently, [Next]_queueVars, NEW t \in Tasks
                 PROVE  Lag(lastEvent'[t], status'[t], cancelledBy'[t])
        BY DEF FeedLagsOnlySilently
    <2>1. Lag(lastEvent[t], status[t], cancelledBy[t])
        BY DEF FeedLagsOnlySilently
    <2>2. CASE Publish
        <3>1. status'[t] = status[t] => cancelledBy'[t] = cancelledBy[t]
            BY EveryTaskSteps DEF TaskStep
        <3> QED
            BY <2>1, <2>2, <3>1 DEF Publish
    <2>3. ASSUME NEW u \in Tasks, RequeueSingle(u)
          PROVE  Lag(lastEvent'[t], status'[t], cancelledBy'[t])
        BY <2>1, <2>3 DEF RequeueSingle, TypeOK
    <2>4. ASSUME NEW p \in Projects, NEW listed \in SUBSET Rows, CancelAllQueued(p, listed)
          PROVE  Lag(lastEvent'[t], status'[t], cancelledBy'[t])
        BY <2>1, <2>4 DEF CancelAllQueued, SetStatus
    <2>5. ASSUME NEW listed \in SUBSET Rows, RequeueRunning(listed)
          PROVE  Lag(lastEvent'[t], status'[t], cancelledBy'[t])
        BY <2>1, <2>5 DEF RequeueRunning, SetStatus
    <2>6. CASE UNCHANGED <<status, lastEvent, cancelledBy>>
        BY <2>1, <2>6
    <2> QED
        BY <2>2, <2>3, <2>4, <2>5, <2>6 DEF Next, queueVars, Enqueue, PickNext, ClaimPicked,
           AbandonClaim, MarkSucceeded, MarkFailed, CancelTask, FinalizeCancelled, MarkCancelled,
           MarkCancelling
<1> QED
    BY <1>1, <1>2, TypeCorrect, PTL DEF Spec
=============================================================================
