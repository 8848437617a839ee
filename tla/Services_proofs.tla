----------------------------- MODULE Services_proofs -----------------------------
(***************************************************************************)
(* Theorems about the services around the queue, one part per component,   *)
(* for any number of processes, tasks, events, accounts and calls.         *)
(***************************************************************************)
EXTENDS WorkerLease, TaskFeed, ToolGate, ProjectChannel, SequenceTheorems, OpenQuestions, ProviderCredentials, TLAPS

-----------------------------------------------------------------------------
(* WorkerLease: what the lease is good for, for any length of it.          *)
(*                                                                         *)
(* A process that keeps its time and is at work is the owner of the row,   *)
(* and the row has not expired (WorkersOwnIt): so no two of them are at    *)
(* work at once.  LeaseGuardsScan follows from that step by step, because  *)
(* a scan looks at running rows only and a row is never queued again.  The *)
(* coroutines of a loop that ended in an error run without the lease.      *)

\* A process is at work when its loop is past the renewal or a coroutine runs.
AtWork(w) == loop[w] \in {"scan", "judge", "claim"} \/ mine[w] # {}

DownIsEmpty == \A w \in Workers : loop[w] = "down" => mine[w] = {}
ScanAdopts == \A w \in Workers : adopted[w] # {} => loop[w] = "judge"
ScanJudges == \A w \in Workers : suspects[w] # {} => loop[w] = "judge"
NoQueuedSuspect == \A w \in Workers : \A t \in suspects[w] : taskRow[t] # "queued"
WorkersOwnIt ==
    \A w \in Workers :
        AtWork(w) /\ w \notin lapsed /\ loop[w] # "broken" => lease.owner = w /\ lease.left > 0

LeaseInv ==
    LeaseTypeOK /\ DownIsEmpty /\ ScanAdopts /\ ScanJudges /\ NoQueuedSuspect /\ WorkersOwnIt
    /\ LeaseGuardsScan

-----------------------------------------------------------------------------
LEMMA LeaseTypeInit == LeaseInit => LeaseTypeOK
BY LeaseAssumption DEF LeaseInit, LeaseTypeOK

\* Each action keeps the types.
LEMMA LeaseTypeStep == LeaseTypeOK /\ [LeaseNext]_leaseVars => LeaseTypeOK'
<1> SUFFICES ASSUME LeaseTypeOK, [LeaseNext]_leaseVars
             PROVE  LeaseTypeOK'
    OBVIOUS
<1> USE LeaseAssumption DEF LeaseTypeOK
<1>1. CASE UNCHANGED leaseVars
    BY <1>1 DEF leaseVars, process
<1>2. CASE Tick
    <2>1. lease' \in [owner : Workers \cup {NoOwner}, left : 0..Ttl]
        BY <1>2 DEF Tick
    <2>2. lostFor' \in [Workers -> 0 .. RescanAfter + 1]
        BY <1>2 DEF Tick
    <2>3. lapsed' \subseteq Workers
        BY <1>2 DEF Tick
    <2> QED
        BY <1>2, <2>1, <2>2, <2>3 DEF Tick
<1>3. ASSUME NEW w \in Workers, StartWorker(w) PROVE LeaseTypeOK'
    BY <1>3 DEF StartWorker, LoopAt
<1>4. ASSUME NEW w \in Workers, Renew(w) PROVE LeaseTypeOK'
    <2>1. lease' \in [owner : Workers \cup {NoOwner}, left : 0..Ttl]
        BY <1>4 DEF Renew
    <2>2. {owns', lost', scanned', lapsed'} \subseteq SUBSET Workers
        BY <1>4 DEF Renew, With
    <2>3. lostFor' \in [Workers -> 0 .. RescanAfter + 1]
        BY <1>4 DEF Renew
    <2>4. loop' \in [Workers -> {"down", "renew", "scan", "judge", "claim", "stopping", "broken"}]
        BY <1>4 DEF Renew, LoopAt
    <2> QED
        BY <1>4, <2>1, <2>2, <2>3, <2>4 DEF Renew
<1>5. ASSUME NEW w \in Workers, ListOrphans(w) PROVE LeaseTypeOK'
    BY <1>5 DEF ListOrphans, LoopAt, Running, process
<1>6. ASSUME NEW w \in Workers, EndScan(w) PROVE LeaseTypeOK'
    BY <1>6 DEF EndScan, LoopAt
<1>7. ASSUME NEW w \in Workers, EndCycle(w) PROVE LeaseTypeOK'
    BY <1>7 DEF EndCycle, LoopAt, process
<1>8. ASSUME NEW w \in Workers, StopWorker(w) PROVE LeaseTypeOK'
    BY <1>8 DEF StopWorker, LoopAt, process
<1>9. ASSUME NEW w \in Workers, ReleaseLease(w) PROVE LeaseTypeOK'
    BY <1>9 DEF ReleaseLease, Released, LoopAt, process
<1>14. ASSUME NEW w \in Workers, LoopFails(w) PROVE LeaseTypeOK'
    BY <1>14 DEF LoopFails, Released, LoopAt
<1>10. ASSUME NEW w \in Workers, CrashWorker(w) PROVE LeaseTypeOK'
    BY <1>10 DEF CrashWorker, LoopAt, process
<1>11. ASSUME NEW w \in Workers, NEW t \in LeaseTasks, JudgeOrphan(w, t) PROVE LeaseTypeOK'
    BY <1>11 DEF JudgeOrphan, process
<1>12. ASSUME NEW w \in Workers, NEW t \in LeaseTasks, ClaimTask(w, t) PROVE LeaseTypeOK'
    BY <1>12 DEF ClaimTask, process
<1>13. ASSUME NEW w \in Workers, NEW t \in LeaseTasks, TaskEnds(w, t) PROVE LeaseTypeOK'
    BY <1>13 DEF TaskEnds, process
<1> QED
    BY <1>1, <1>2, <1>3, <1>4, <1>5, <1>6, <1>7, <1>8, <1>9, <1>10, <1>11, <1>12, <1>13, <1>14
    DEF LeaseNext

-----------------------------------------------------------------------------
\* No two processes that keep their time are at work at once.
LEMMA OneAtWork ==
    ASSUME WorkersOwnIt, NEW v \in Workers, NEW w \in Workers,
           AtWork(v), AtWork(w), v # w
    PROVE  {v, w} \cap lapsed # {} \/ "broken" \in {loop[v], loop[w]}
BY DEF WorkersOwnIt

LEMMA LeaseInvInit == LeaseInit => LeaseInv
BY LeaseTypeInit
   DEF LeaseInv, LeaseInit, DownIsEmpty, ScanJudges, NoQueuedSuspect, WorkersOwnIt,
       ScanAdopts, AtWork, AtHand, LeaseGuardsScan

LEMMA LeaseInvStep == LeaseInv /\ [LeaseNext]_leaseVars => LeaseInv'
<1> SUFFICES ASSUME LeaseInv, [LeaseNext]_leaseVars
             PROVE  LeaseInv'
    OBVIOUS
<1>t. LeaseTypeOK /\ LeaseTypeOK'
    BY LeaseTypeStep DEF LeaseInv
<1> DEFINE Rest == DownIsEmpty /\ ScanAdopts /\ ScanJudges /\ NoQueuedSuspect /\ WorkersOwnIt
                   /\ LeaseGuardsScan
<1>r. Rest
    BY DEF LeaseInv
<1> USE LeaseAssumption, <1>t, <1>r
    DEF LeaseTypeOK, DownIsEmpty, ScanAdopts, ScanJudges, NoQueuedSuspect, WorkersOwnIt, AtWork,
        AtHand, LeaseGuardsScan
<1>1. CASE UNCHANGED leaseVars
    BY <1>1 DEF leaseVars, process, LeaseInv
<1>2. CASE Tick
    <2>1. lapsed \subseteq lapsed'
        BY <1>2 DEF Tick
    <2>2. WorkersOwnIt'
        <3> SUFFICES ASSUME NEW w \in Workers, AtWork(w)', w \notin lapsed', loop'[w] # "broken"
                     PROVE  lease'.owner = w /\ lease'.left > 0
            OBVIOUS
        <3>1. lease.owner = w /\ lease.left > 0 /\ Up(w)
            BY <1>2, <2>1 DEF Tick, Up
        <3>2. lease.left > 1
            BY <1>2, <3>1 DEF Tick
        <3> QED
            BY <1>2, <3>1, <3>2 DEF Tick
    <2>3. UNCHANGED <<loop, suspects, adopted, mine, taskRow>>
        BY <1>2 DEF Tick
    <2>4. DownIsEmpty' /\ ScanAdopts' /\ ScanJudges' /\ NoQueuedSuspect'
        BY <2>3
    <2>5. LeaseGuardsScan'
        BY <2>1, <2>3
    <2> QED
        BY <2>2, <2>4, <2>5 DEF LeaseInv
<1>3. ASSUME NEW w \in Workers, StartWorker(w) PROVE LeaseInv'
    <2>1. mine[w] = {} /\ adopted[w] = {} /\ suspects[w] = {} /\ ~AtWork(w)
        BY <1>3 DEF StartWorker
    <2>2. UNCHANGED <<lease, suspects, adopted, mine, taskRow>>
        BY <1>3 DEF StartWorker
    <2>3. lapsed' = lapsed \ {w} /\ loop' = [loop EXCEPT ![w] = "renew"]
        BY <1>3 DEF StartWorker, LoopAt
    <2>4. DownIsEmpty' /\ ScanAdopts' /\ ScanJudges' /\ NoQueuedSuspect'
        BY <2>1, <2>2, <2>3
    <2>5. WorkersOwnIt'
        BY <2>1, <2>2, <2>3
    <2>6. LeaseGuardsScan'
        <3> SUFFICES ASSUME NEW x \in Workers, NEW v \in Workers,
                            suspects[x] \cap AtHand(v) # {}
                     PROVE  v # x /\ ({x, v} \cap lapsed' # {} \/ loop'[v] = "broken")
            BY <2>2
        <3>1. x # w /\ v # w
            BY <2>1
        <3> QED
            BY <2>3, <3>1
    <2> QED
        BY <2>4, <2>5, <2>6 DEF LeaseInv
<1>4. ASSUME NEW w \in Workers, Renew(w) PROVE LeaseInv'
    <2>1. \A v \in Workers \ {w} : loop'[v] = loop[v]
        BY <1>4 DEF Renew, LoopAt
    <2>2. UNCHANGED <<suspects, adopted, mine, taskRow, lapsed>>
        BY <1>4 DEF Renew
    <2>3. loop[w] = "renew" /\ loop'[w] \in {"renew", "claim", "scan"}
        BY <1>4 DEF Renew, LoopAt
    <2>4. WorkersOwnIt'
        <3>1. CASE MayTake(w)
            <4>1. lease' = [owner |-> w, left |-> Ttl]
                BY <1>4, <3>1 DEF Renew
            <4>2. \A v \in Workers \ {w} : AtWork(v) /\ loop[v] # "broken" => v \in lapsed
                BY <3>1 DEF MayTake
            <4> QED
                BY <2>1, <2>2, <4>1, <4>2
        <3>2. CASE ~MayTake(w)
            <4>1. lease' = lease /\ loop' = loop
                BY <1>4, <3>2, <2>3 DEF Renew, LoopAt
            <4> QED
                BY <2>2, <4>1
        <3> QED
            BY <3>1, <3>2
    <2> QED
        BY <2>1, <2>2, <2>3, <2>4 DEF LeaseInv
<1>5. ASSUME NEW w \in Workers, ListOrphans(w) PROVE LeaseInv'
    <2>1. LeaseGuardsScan'
        <3> SUFFICES ASSUME NEW x \in Workers, NEW v \in Workers,
                            suspects'[x] \cap AtHand(v)' # {}
                     PROVE  v # x /\ ({x, v} \cap lapsed' # {} \/ loop'[v] = "broken")
            OBVIOUS
        <3>1. mine' = mine /\ adopted' = adopted /\ lapsed' = lapsed /\ loop[w] = "scan"
              /\ \A z \in Workers : loop'[z] = "broken" <=> loop[z] = "broken"
            BY <1>5 DEF ListOrphans, LoopAt
        <3>2. CASE x = w
            <4>1. suspects'[w] \cap mine[w] = {} /\ adopted[w] = {}
                BY <1>5, <3>1 DEF ListOrphans, Running
            <4>2. AtWork(w) /\ AtWork(v)
                BY <1>5, <3>1 DEF ListOrphans
            <4> QED
                BY <3>1, <3>2, <4>1, <4>2, OneAtWork
        <3>3. CASE x # w
            BY <1>5, <3>1, <3>3 DEF ListOrphans
        <3> QED
            BY <3>2, <3>3
    <2> QED
        BY <1>5, <2>1 DEF ListOrphans, LoopAt, Running, process, LeaseInv
<1>6. ASSUME NEW w \in Workers, EndScan(w) PROVE LeaseInv'
    <2>1. AtHand(w)' = AtHand(w) /\ \A v \in Workers \ {w} : AtHand(v)' = AtHand(v)
        BY <1>6 DEF EndScan
    <2>2. suspects' = suspects /\ lapsed' = lapsed /\ lease' = lease /\ taskRow' = taskRow
        BY <1>6 DEF EndScan
    <2>3. /\ loop[w] = "judge" /\ loop'[w] = "claim" /\ suspects[w] = {} /\ adopted'[w] = {}
          /\ \A v \in Workers \ {w} : loop'[v] = loop[v] /\ mine'[v] = mine[v] /\ adopted'[v] = adopted[v]
        BY <1>6 DEF EndScan, LoopAt
    <2>4. DownIsEmpty' /\ ScanAdopts' /\ ScanJudges' /\ NoQueuedSuspect'
        BY <2>2, <2>3
    <2>5. mine'[w] = mine[w] \cup adopted[w]
        BY <1>6 DEF EndScan
    <2>6. WorkersOwnIt'
        BY <2>2, <2>3, <2>5
    <2>7. LeaseGuardsScan'
        BY <2>1, <2>2, <2>3
    <2> QED
        BY <2>4, <2>6, <2>7 DEF LeaseInv
<1>7. ASSUME NEW w \in Workers, EndCycle(w) PROVE LeaseInv'
    BY <1>7 DEF EndCycle, LoopAt, process, LeaseInv
<1>8. ASSUME NEW w \in Workers, StopWorker(w) PROVE LeaseInv'
    BY <1>8 DEF StopWorker, LoopAt, process, LeaseInv
<1>9. ASSUME NEW w \in Workers, ReleaseLease(w) PROVE LeaseInv'
    <2>1. \A v \in Workers \ {w} : loop'[v] = loop[v] /\ mine'[v] = mine[v]
        BY <1>9 DEF ReleaseLease, LoopAt
    <2>2. loop'[w] = "down" /\ mine'[w] = {}
        BY <1>9 DEF ReleaseLease, LoopAt
    <2>3. lease.owner # w => lease' = lease
        BY <1>9 DEF ReleaseLease, Released
    <2>4. WorkersOwnIt'
        BY <1>9, <2>1, <2>2, <2>3 DEF ReleaseLease
    <2> QED
        BY <1>9, <2>1, <2>2, <2>4 DEF ReleaseLease, LoopAt, process, LeaseInv
<1>14. ASSUME NEW w \in Workers, LoopFails(w) PROVE LeaseInv'
    <2>1. /\ loop'[w] = "broken" /\ suspects'[w] = {} /\ adopted'[w] = {}
          /\ \A v \in Workers \ {w} :
                loop'[v] = loop[v] /\ suspects'[v] = suspects[v] /\ adopted'[v] = adopted[v]
          /\ mine' = mine /\ lapsed' = lapsed /\ taskRow' = taskRow
        BY <1>14 DEF LoopFails, LoopAt
    <2>2. lease.owner # w => lease' = lease
        BY <1>14 DEF LoopFails, Released
    <2>3. WorkersOwnIt'
        BY <2>1, <2>2
    <2>4. LeaseGuardsScan'
        BY <2>1
    <2>5. DownIsEmpty'
        BY <2>1
    <2>6. ScanAdopts' /\ ScanJudges'
        BY <2>1
    <2>7. NoQueuedSuspect'
        BY <2>1
    <2> QED
        BY <2>3, <2>4, <2>5, <2>6, <2>7 DEF LeaseInv
<1>10. ASSUME NEW w \in Workers, CrashWorker(w) PROVE LeaseInv'
    BY <1>10 DEF CrashWorker, LoopAt, process, LeaseInv
<1>11. ASSUME NEW w \in Workers, NEW t \in LeaseTasks, JudgeOrphan(w, t) PROVE LeaseInv'
    <2>1. loop' = loop /\ lapsed' = lapsed /\ lease' = lease /\ loop[w] = "judge"
        BY <1>11 DEF JudgeOrphan
    <2>2. suspects' = [suspects EXCEPT ![w] = @ \ {t}] /\ t \in suspects[w]
        BY <1>11 DEF JudgeOrphan
    <2>3. /\ mine' = mine
          /\ \/ adopted' = adopted /\ taskRow' = [taskRow EXCEPT ![t] = "ended"]
             \/ adopted' = [adopted EXCEPT ![w] = @ \cup {t}] /\ taskRow' = taskRow
        BY <1>11 DEF JudgeOrphan
    <2>4. LeaseGuardsScan'
        <3> SUFFICES ASSUME NEW x \in Workers, NEW v \in Workers, NEW u \in suspects'[x],
                            u \in AtHand(v)'
                     PROVE  v # x /\ ({x, v} \cap lapsed' # {} \/ loop'[v] = "broken")
            OBVIOUS
        <3>1. u \in suspects[x]
            BY <2>2
        <3>2. CASE u \in AtHand(v)
            BY <2>1, <3>1, <3>2
        <3>3. CASE u \notin AtHand(v)
            <4>1. v = w /\ u = t
                BY <2>3, <3>3
            <4>2. x # w
                BY <2>2, <4>1
            <4>3. AtWork(x) /\ AtWork(w)
                BY <2>1, <3>1
            <4> QED
                BY <2>1, <3>1, <4>1, <4>2, <4>3, OneAtWork
        <3> QED
            BY <3>2, <3>3
    <2>5. NoQueuedSuspect'
        BY <2>2, <2>3
    <2> QED
        BY <2>1, <2>2, <2>3, <2>4, <2>5, SMTT(20) DEF LeaseInv
<1>12. ASSUME NEW w \in Workers, NEW t \in LeaseTasks, ClaimTask(w, t) PROVE LeaseInv'
    <2>1. \A v \in Workers : t \notin suspects[v]
        BY <1>12 DEF ClaimTask
    <2> QED
        BY <1>12, <2>1 DEF ClaimTask, process, LeaseInv
<1>13. ASSUME NEW w \in Workers, NEW t \in LeaseTasks, TaskEnds(w, t) PROVE LeaseInv'
    BY <1>13 DEF TaskEnds, process, LeaseInv
<1> QED
    BY <1>1, <1>2, <1>3, <1>4, <1>5, <1>6, <1>7, <1>8, <1>9, <1>10, <1>11, <1>12, <1>13, <1>14
    DEF LeaseNext

-----------------------------------------------------------------------------
\* The processes keep the types of the lease, their loops and their tasks.
THEOREM LeaseTypeCorrect == LeaseSpec => []LeaseTypeOK
BY LeaseTypeInit, LeaseTypeStep, PTL DEF LeaseSpec

\* _handle_orphan_tasks_on_start never takes the row of a task that a process
\* runs for an orphan, its own process's least of all, unless one of the two
\* has let its lease expire or the loop of the other one ended in an error.
THEOREM ScanIsGuarded == LeaseSpec => []LeaseGuardsScan
<1>1. LeaseInv => LeaseGuardsScan
    BY DEF LeaseInv
<1> QED
    BY <1>1, LeaseInvInit, LeaseInvStep, PTL DEF LeaseSpec

-----------------------------------------------------------------------------
(* TaskFeed: the event stream converges.                                   *)
(*                                                                         *)
(* The heart of the invariant is NothingMissed: the client shows a task as *)
(* it is, or the task's last event is still ahead of the cursor.  It rests *)
(* on the order of one task's event ids, which its writers keep in both    *)
(* databases, and not on an order of all ids, which SQLite alone keeps.    *)
(* The maxima the code takes exist because each commit adds the greatest   *)
(* id of its task: that is part of the invariant, not of induction.        *)

Top(e, t, n) ==
    /\ e \in events /\ e.task = t /\ e.id <= n
    /\ \A f \in events : f.task = t /\ f.id <= n => f.id <= e.id

IdsAscend ==
    /\ cursor < nextEventId
    /\ \A t \in FeedTasks : open[t] < nextEventId
    /\ \A e \in events : e.id < nextEventId /\ (open[e.task] # 0 => e.id < open[e.task])
UniqueIds == \A e, f \in events : e.task = f.task /\ e.id = f.id => e = f
TopsExist ==
    \A t \in FeedTasks, n \in EventIds :
        (\E e \in events : e.task = t /\ e.id <= n) => \E e \in events : Top(e, t, n)
LatestExists == events # {} => \E e \in events : \A f \in events : f.id <= e.id
TopIsRow ==
    \A t \in FeedTasks \ silent : \A e \in events : Top(e, t, MaxEvents) => e.state = row[t]
NothingMissed ==
    stream = "stream" =>
        \A t \in FeedTasks \ (silent \cup overtaken) :
            view[t] = row[t] \/ \E e \in events : Top(e, t, MaxEvents) /\ e.id > cursor
SqliteInOrder ==
    database = "sqlite" =>
        /\ overtaken = {}
        /\ \A t, u \in FeedTasks : open[t] # 0 /\ open[u] # 0 => t = u
        /\ \A t \in FeedTasks : open[t] # 0 =>
              cursor < open[t] /\ \A e \in events : e.id < open[t]

Order == IdsAscend /\ UniqueIds /\ TopsExist /\ LatestExists
FeedInv == FeedTypeOK /\ Order /\ TopIsRow /\ NothingMissed /\ SqliteInOrder

-----------------------------------------------------------------------------
LEMMA LatestIs ==
    ASSUME FeedTypeOK, LatestExists
    PROVE  /\ Latest \in 0..MaxEvents
           /\ Latest = 0 \/ \E e \in events : e.id = Latest
           /\ \A e \in events : e.id <= Latest
<1> DEFINE P(n) == /\ n = 0 \/ \E e \in events : e.id = n
                   /\ \A e \in events : e.id <= n
<1>1. \E n \in 0..MaxEvents : P(n)
    <2>1. CASE events = {}
        BY <2>1, FeedAssumption
    <2>2. CASE events # {}
        <3>1. PICK e \in events : \A f \in events : f.id <= e.id
            BY <2>2 DEF LatestExists
        <3>2. e.id \in 0..MaxEvents
            BY FeedAssumption DEF FeedTypeOK, Event, EventIds
        <3> QED
            BY <3>1, <3>2
    <2> QED
        BY <2>1, <2>2
<1> HIDE DEF P
<1>2. Latest = CHOOSE n \in 0..MaxEvents : P(n)
    BY DEF Latest, P
<1>3. Latest \in 0..MaxEvents /\ P(Latest)
    BY <1>1, <1>2
<1> QED
    BY <1>3 DEF P

LEMMA FeedInvInit == FeedInit => FeedInv
<1> SUFFICES ASSUME FeedInit
             PROVE  FeedInv
    OBVIOUS
<1>1. FeedTypeOK
    BY FeedAssumption DEF FeedInit, FeedTypeOK
<1>2. Order
    BY DEF FeedInit, Order, IdsAscend, UniqueIds, TopsExist, LatestExists
<1>3. TopIsRow /\ NothingMissed /\ SqliteInOrder
    BY DEF FeedInit, TopIsRow, NothingMissed, SqliteInOrder
<1> QED
    BY <1>1, <1>2, <1>3 DEF FeedInv

\* A commit makes its event the last of its task.
LEMMA CommitMakesTop ==
    ASSUME FeedTypeOK, Order, NEW t \in FeedTasks, CommitEvent(t)
    PROVE  \E new \in Event :
              /\ new.id = open[t] /\ new.task = t /\ new.state = row'[t] /\ new \notin events
              /\ events' = events \cup {new}
              /\ \A e \in events : e.task = t => e.id < new.id
              /\ \A n \in EventIds : open[t] <= n => Top(new, t, n)'
<1>1. open[t] \in EventIds /\ row[t] \in Nat /\ row'[t] = row[t] + 1
    BY FeedAssumption DEF FeedTypeOK, CommitEvent, EventIds
<1>2. [id |-> open[t], task |-> t, state |-> row[t] + 1] \in Event
    BY <1>1 DEF Event
<1>3. PICK new \in Event : new = [id |-> open[t], task |-> t, state |-> row[t] + 1]
    BY <1>2
<1>4. /\ new.id = open[t] /\ new.task = t /\ new.state = row'[t]
      /\ events' = events \cup {new}
    BY <1>1, <1>3 DEF CommitEvent
<1>5. \A e \in events : e.id \in EventIds /\ (e.task = t => e.id < open[t])
    BY <1>1 DEF Order, IdsAscend, CommitEvent, FeedTypeOK, Event
<1>6. new \notin events
    BY <1>1, <1>4, <1>5 DEF EventIds
<1>7. \A n \in EventIds : open[t] <= n => Top(new, t, n)'
    BY <1>1, <1>4, <1>5 DEF Top, EventIds
<1> QED
    BY <1>4, <1>5, <1>6, <1>7

LEMMA OrderKept ==
    ASSUME FeedTypeOK, Order, NEW t \in FeedTasks, CommitEvent(t)
    PROVE  /\ Order'
           /\ \A u \in FeedTasks \ {t} : \A e \in events', n \in EventIds :
                 Top(e, u, n)' <=> e \in events /\ Top(e, u, n)
           /\ \A e \in events' : Top(e, t, MaxEvents)' =>
                 e.state = row'[t] /\ e.id = open[t]
<1>1. PICK new \in Event :
          /\ new.id = open[t] /\ new.task = t /\ new.state = row'[t] /\ new \notin events
          /\ events' = events \cup {new}
          /\ \A e \in events : e.task = t => e.id < new.id
          /\ \A n \in EventIds : open[t] <= n => Top(new, t, n)'
    BY CommitMakesTop
<1>2. open' = [open EXCEPT ![t] = 0] /\ nextEventId' = nextEventId /\ cursor' = cursor
      /\ open[t] # 0
    BY DEF CommitEvent, readerVars
<1>3. \A e \in events : e.id \in EventIds /\ e.task \in FeedTasks
    BY DEF FeedTypeOK, Event
<1>i. open[t] \in EventIds /\ MaxEvents \in EventIds
    BY <1>2, FeedAssumption DEF FeedTypeOK, EventIds
<1>4. IdsAscend'
    <2>1. \A e \in events' : e.id < nextEventId
        BY <1>1 DEF Order, IdsAscend
    <2>2. \A e \in events' : open'[e.task] # 0 => e.id < open'[e.task]
        BY <1>1, <1>2, <1>3 DEF Order, IdsAscend, FeedTypeOK
    <2>3. \A u \in FeedTasks : open'[u] < nextEventId
        BY <1>2 DEF Order, IdsAscend, FeedTypeOK
    <2> QED
        BY <1>2, <2>1, <2>2, <2>3 DEF Order, IdsAscend
<1>5. UniqueIds'
    BY <1>1, <1>3 DEF Order, UniqueIds, EventIds
<1>6. \A u \in FeedTasks \ {t} : \A e \in events', n \in EventIds :
          Top(e, u, n)' <=> e \in events /\ Top(e, u, n)
    BY <1>1 DEF Top
<1>7. TopsExist'
    <2> SUFFICES ASSUME NEW u \in FeedTasks, NEW n \in EventIds, NEW e \in events',
                        e.task = u, e.id <= n
                 PROVE  \E f \in events' : Top(f, u, n)'
        BY DEF TopsExist
    <2>1. CASE u # t
        <3>1. e \in events
            BY <1>1, <2>1
        <3>2. PICK f \in events : Top(f, u, n)
            BY <3>1 DEF Order, TopsExist
        <3> QED
            BY <1>1, <1>6, <2>1, <3>2
    <2>2. CASE u = t /\ open[t] <= n
        BY <1>1, <2>2
    <2>3. CASE u = t /\ ~(open[t] <= n)
        <3>1. e \in events
            BY <1>1, <2>3
        <3>2. PICK f \in events : Top(f, u, n)
            BY <3>1 DEF Order, TopsExist
        <3> QED
            BY <1>1, <2>3, <3>2 DEF Top
    <2> QED
        BY <2>1, <2>2, <2>3
<1>8. LatestExists'
    <2>1. CASE events = {}
        BY <1>1, <1>i, <2>1 DEF LatestExists, EventIds
    <2>2. CASE events # {}
        <3>1. PICK e \in events : \A f \in events : f.id <= e.id
            BY <2>2 DEF Order, LatestExists
        <3>2. e.id \in Nat /\ new.id \in Nat /\ \A f \in events : f.id \in Nat
            BY <1>1, <1>3, <1>i DEF EventIds
        <3>3. CASE new.id <= e.id
            BY <1>1, <3>1, <3>2, <3>3 DEF LatestExists
        <3>4. CASE e.id <= new.id
            <4>1. \A f \in events' : f.id <= new.id
                BY <1>1, <3>1, <3>2, <3>4
            <4> QED
                BY <1>1, <4>1 DEF LatestExists
        <3> QED
            BY <3>2, <3>3, <3>4
    <2> QED
        BY <2>1, <2>2
<1>9. \A e \in events' : Top(e, t, MaxEvents)' => e.state = row'[t] /\ e.id = open[t]
    <2> SUFFICES ASSUME NEW e \in events', Top(e, t, MaxEvents)'
                 PROVE  e = new
        BY <1>1
    <2>1. new.id <= e.id
        BY <1>1, <1>i DEF Top, EventIds
    <2> QED
        BY <1>1, <1>3, <1>i, <2>1 DEF Top, EventIds
<1> QED
    BY <1>4, <1>5, <1>6, <1>7, <1>8, <1>9 DEF Order

LEMMA FeedInvStep == FeedInv /\ [FeedNext]_feedVars => FeedInv'
<1> SUFFICES ASSUME FeedInv, [FeedNext]_feedVars
             PROVE  FeedInv'
    OBVIOUS
<1>t. FeedTypeOK
    BY DEF FeedInv
<1>k. Order /\ TopIsRow /\ NothingMissed /\ SqliteInOrder
    BY DEF FeedInv
<1>i. \A e \in events : e.id \in EventIds /\ e.task \in FeedTasks /\ e.state \in Nat
    BY <1>t DEF FeedTypeOK, Event
<1> USE FeedAssumption DEF EventIds
<1>0. CASE UNCHANGED feedVars
    <2> USE <1>0, <1>t, <1>k DEF feedVars, writerVars, readerVars
    <2>1. FeedTypeOK'
        BY DEF FeedTypeOK, Event
    <2>2. Order' /\ TopIsRow' /\ NothingMissed' /\ SqliteInOrder'
        BY DEF Order, IdsAscend, UniqueIds, TopsExist, LatestExists, TopIsRow, NothingMissed,
               SqliteInOrder, Top
    <2> QED
        BY <2>1, <2>2 DEF FeedInv
<1>1. ASSUME NEW t \in FeedTasks, AppendEvent(t) PROVE FeedInv'
    <2>1. /\ open' = [open EXCEPT ![t] = nextEventId] /\ nextEventId' = nextEventId + 1
          /\ nextEventId <= MaxEvents /\ MayWrite(t)
          /\ UNCHANGED <<database, row, events, silent, overtaken, stream, cursor, view>>
        BY <1>1 DEF AppendEvent, readerVars
    <2>2. FeedTypeOK'
        BY <1>t, <2>1 DEF FeedTypeOK, Event
    <2>3. IdsAscend'
        <3>1. \A e \in events : open'[e.task] # 0 => e.id < open'[e.task]
            BY <1>t, <1>k, <1>i, <2>1 DEF Order, IdsAscend, FeedTypeOK
        <3>2. \A u \in FeedTasks : open'[u] < nextEventId'
            BY <1>t, <1>k, <2>1 DEF Order, IdsAscend, FeedTypeOK
        <3> QED
            BY <1>t, <1>k, <1>i, <2>1, <3>1, <3>2 DEF Order, IdsAscend, FeedTypeOK
    <2>4. Order' /\ TopIsRow' /\ NothingMissed'
        BY <1>k, <2>1, <2>3
        DEF Order, UniqueIds, TopsExist, LatestExists, TopIsRow, NothingMissed, Top
    <2>5. SqliteInOrder'
        <3> SUFFICES ASSUME database = "sqlite"
                     PROVE  SqliteInOrder'
            BY <2>1 DEF SqliteInOrder
        <3>1. \A u \in FeedTasks : open[u] = 0
            BY <2>1 DEF MayWrite
        <3>2. \A u \in FeedTasks : open'[u] # 0 => u = t /\ open'[u] = nextEventId
            BY <1>t, <2>1, <3>1 DEF FeedTypeOK
        <3> QED
            BY <1>k, <2>1, <3>2 DEF SqliteInOrder, Order, IdsAscend
    <2> QED
        BY <2>2, <2>4, <2>5 DEF FeedInv
<1>2. ASSUME NEW t \in FeedTasks, CommitEvent(t) PROVE FeedInv'
    <2>1. /\ open[t] # 0 /\ open' = [open EXCEPT ![t] = 0] /\ row' = [row EXCEPT ![t] = @ + 1]
          /\ silent' = silent \ {t}
          /\ overtaken' = IF open[t] <= cursor THEN overtaken \cup {t} ELSE overtaken \ {t}
          /\ UNCHANGED <<database, nextEventId, stream, cursor, view>>
        BY <1>2 DEF CommitEvent, readerVars
    <2>2. PICK new \in Event :
              /\ new.id = open[t] /\ events' = events \cup {new} /\ Top(new, t, MaxEvents)'
        <3>1. MaxEvents \in EventIds /\ open[t] <= MaxEvents
            BY <1>t, <2>1 DEF FeedTypeOK
        <3> QED
            BY <1>2, <1>t, <1>k, <3>1, CommitMakesTop
    <2>3. /\ Order'
          /\ \A u \in FeedTasks \ {t} : \A e \in events' :
                Top(e, u, MaxEvents)' <=> e \in events /\ Top(e, u, MaxEvents)
          /\ \A e \in events' : Top(e, t, MaxEvents)' => e.state = row'[t] /\ e.id = open[t]
        <3>1. MaxEvents \in EventIds
            BY <1>t, <2>1 DEF FeedTypeOK
        <3> QED
            BY <1>2, <1>t, <1>k, <3>1, OrderKept
    <2>4. FeedTypeOK'
        BY <1>t, <2>1, <2>2 DEF FeedTypeOK
    <2>5. TopIsRow'
        BY <1>t, <1>k, <2>1, <2>3 DEF TopIsRow, FeedTypeOK
    <2>6. NothingMissed'
        <3> SUFFICES ASSUME stream = "stream", NEW u \in FeedTasks \ (silent' \cup overtaken')
                     PROVE  view[u] = row'[u]
                            \/ \E e \in events' : Top(e, u, MaxEvents)' /\ e.id > cursor
            BY <2>1 DEF NothingMissed
        <3>1. CASE u = t
            <4>1. open[t] > cursor
                BY <1>t, <2>1, <3>1 DEF FeedTypeOK
            <4> QED
                BY <2>2, <3>1, <4>1
        <3>2. CASE u # t
            <4>1. u \notin silent \cup overtaken /\ row'[u] = row[u]
                BY <1>t, <2>1, <3>2 DEF FeedTypeOK
            <4> QED
                BY <1>k, <2>2, <2>3, <3>2, <4>1 DEF NothingMissed
        <3> QED
            BY <3>1, <3>2
    <2>7. SqliteInOrder'
        <3> SUFFICES ASSUME database = "sqlite"
                     PROVE  SqliteInOrder'
            BY <2>1 DEF SqliteInOrder
        <3>1. \A u \in FeedTasks : open'[u] = 0
            BY <1>t, <1>k, <2>1 DEF SqliteInOrder, FeedTypeOK
        <3>2. overtaken' = {}
            BY <1>t, <1>k, <2>1 DEF SqliteInOrder, FeedTypeOK
        <3> QED
            BY <3>1, <3>2 DEF SqliteInOrder
    <2> QED
        BY <2>3, <2>4, <2>5, <2>6, <2>7 DEF FeedInv
<1>3. ASSUME NEW t \in FeedTasks, RollBack(t) PROVE FeedInv'
    <2>1. /\ open' = [open EXCEPT ![t] = 0]
          /\ UNCHANGED <<database, row, events, nextEventId, silent, overtaken, stream, cursor, view>>
        BY <1>3 DEF RollBack, readerVars
    <2>2. FeedTypeOK'
        BY <1>t, <2>1 DEF FeedTypeOK, Event
    <2>3. IdsAscend'
        <3>1. \A u \in FeedTasks : open'[u] \in {0, open[u]} /\ 0 < nextEventId
            BY <1>t, <2>1 DEF FeedTypeOK
        <3> QED
            BY <1>k, <1>i, <2>1, <3>1 DEF Order, IdsAscend
    <2>4. Order' /\ TopIsRow' /\ NothingMissed'
        BY <1>k, <2>1, <2>3
        DEF Order, UniqueIds, TopsExist, LatestExists, TopIsRow, NothingMissed, Top
    <2>5. SqliteInOrder'
        BY <1>t, <1>k, <2>1 DEF SqliteInOrder, FeedTypeOK
    <2> QED
        BY <2>2, <2>4, <2>5 DEF FeedInv
<1>4. ASSUME NEW t \in FeedTasks, ChangeSilently(t) PROVE FeedInv'
    <2>1. /\ row' = [row EXCEPT ![t] = @ + 1] /\ silent' = silent \cup {t}
          /\ UNCHANGED <<database, events, nextEventId, open, overtaken, stream, cursor, view>>
        BY <1>4 DEF ChangeSilently, readerVars
    <2>2. FeedTypeOK'
        BY <1>t, <2>1 DEF FeedTypeOK, Event
    <2>3. \A u \in FeedTasks \ silent' : u \notin silent /\ row'[u] = row[u]
        BY <1>t, <2>1 DEF FeedTypeOK
    <2>4. Order' /\ SqliteInOrder'
        BY <1>k, <2>1
        DEF Order, IdsAscend, UniqueIds, TopsExist, LatestExists, SqliteInOrder, Top
    <2>5. TopIsRow' /\ NothingMissed'
        BY <1>k, <2>1, <2>3 DEF TopIsRow, NothingMissed, Top
    <2> QED
        BY <2>2, <2>4, <2>5 DEF FeedInv
<1>5. ASSUME NEW seen \in 0..MaxEvents, Connect(seen) PROVE FeedInv'
    <2>1. /\ stream' = "tasks" /\ seen <= cursor
          /\ cursor' = IF seen > Latest THEN seen ELSE Latest
          /\ UNCHANGED <<database, row, events, nextEventId, open, silent, view, overtaken>>
        BY <1>5 DEF Connect, writerVars
    <2>2. /\ Latest \in 0..MaxEvents /\ cursor' \in 0..MaxEvents
          /\ Latest = 0 \/ \E e \in events : e.id = Latest
        BY <1>t, <1>k, <2>1, LatestIs DEF Order
    <2>3. FeedTypeOK'
        BY <1>t, <2>1, <2>2 DEF FeedTypeOK, Event
    <2>4. IdsAscend'
        BY <1>t, <1>k, <2>1, <2>2 DEF Order, IdsAscend, FeedTypeOK
    <2>5. Order' /\ TopIsRow' /\ NothingMissed'
        BY <1>k, <2>1, <2>4
        DEF Order, UniqueIds, TopsExist, LatestExists, TopIsRow, NothingMissed, Top
    <2>6. SqliteInOrder'
        BY <1>t, <1>k, <2>1, <2>2 DEF SqliteInOrder, FeedTypeOK
    <2> QED
        BY <2>3, <2>5, <2>6 DEF FeedInv
<1>6. CASE ReadTasks
    <2>1. /\ view' = row /\ overtaken' = {} /\ stream' = "stream"
          /\ UNCHANGED <<database, row, events, nextEventId, open, silent, cursor>>
        BY <1>6 DEF ReadTasks, writerVars
    <2>2. FeedTypeOK'
        BY <1>t, <2>1 DEF FeedTypeOK, Event
    <2>3. Order' /\ TopIsRow' /\ NothingMissed' /\ SqliteInOrder'
        BY <1>k, <2>1
        DEF Order, IdsAscend, UniqueIds, TopsExist, LatestExists, TopIsRow, NothingMissed,
            SqliteInOrder, Top
    <2> QED
        BY <2>2, <2>3 DEF FeedInv
<1>7. CASE Disconnect
    <2>1. /\ stream' = "off"
          /\ UNCHANGED <<database, row, events, nextEventId, open, silent, cursor, view, overtaken>>
        BY <1>7 DEF Disconnect, writerVars
    <2>2. FeedTypeOK'
        BY <1>t, <2>1 DEF FeedTypeOK, Event
    <2>3. Order' /\ TopIsRow' /\ NothingMissed' /\ SqliteInOrder'
        BY <1>k, <2>1
        DEF Order, IdsAscend, UniqueIds, TopsExist, LatestExists, TopIsRow, NothingMissed,
            SqliteInOrder, Top
    <2> QED
        BY <2>2, <2>3 DEF FeedInv
<1>8. ASSUME NEW n \in EventIds, ReadEvents(n) PROVE FeedInv'
    <2> DEFINE D == Delivered(n)
               Newest(t) == CHOOSE e \in D : e.task = t /\ \A f \in D : f.task = t => f.id <= e.id
    <2>1. /\ stream = "stream" /\ cursor' = n /\ n \in {e.id : e \in Unseen}
          /\ view' = [t \in FeedTasks |->
                         IF \E e \in D : e.task = t THEN Newest(t).state ELSE view[t]]
          /\ UNCHANGED <<database, row, events, nextEventId, open, silent, stream, overtaken>>
        BY <1>8 DEF ReadEvents, Shown, writerVars
    <2>2. \A e : e \in D <=> e \in events /\ cursor < e.id /\ e.id <= n
        BY <1>t, <1>i DEF Delivered, Unseen, FeedTypeOK
    <2>3. \E e \in events : e.id = n
        BY <2>1 DEF Unseen
    <2>4. ASSUME NEW t \in FeedTasks, \E e \in D : e.task = t
          PROVE  Newest(t) \in D /\ Top(Newest(t), t, n)
        <3>1. PICK d \in D : d.task = t
            BY <2>4
        <3>2. PICK e \in events : Top(e, t, n)
            BY <1>k, <2>2, <3>1 DEF Order, TopsExist
        <3>3. e \in D /\ e.task = t /\ \A f \in D : f.task = t => f.id <= e.id
            BY <1>t, <1>i, <2>2, <3>1, <3>2 DEF Top, FeedTypeOK
        <3>4. Newest(t) \in D /\ Newest(t).task = t /\ \A f \in D : f.task = t => f.id <= Newest(t).id
            BY <3>3
        <3>5. Newest(t).id = e.id
            BY <1>i, <2>2, <3>2, <3>3, <3>4 DEF Top
        <3>6. Newest(t) = e
            BY <1>k, <2>2, <3>2, <3>3, <3>4, <3>5 DEF Order, UniqueIds
        <3> QED
            BY <3>2, <3>3, <3>6
    <2> HIDE DEF D, Last
    <2>5. view' \in [FeedTasks -> Nat]
        BY <1>t, <1>i, <2>1, <2>2, <2>4 DEF FeedTypeOK
    <2>6. FeedTypeOK'
        BY <1>t, <2>1, <2>5 DEF FeedTypeOK, Event
    <2>7. IdsAscend'
        BY <1>k, <2>1, <2>3 DEF Order, IdsAscend
    <2>8. Order' /\ TopIsRow'
        BY <1>k, <2>1, <2>7
        DEF Order, UniqueIds, TopsExist, LatestExists, TopIsRow, Top
    <2>9. NothingMissed'
        <3> SUFFICES ASSUME NEW t \in FeedTasks \ (silent \cup overtaken)
                     PROVE  view'[t] = row[t] \/ \E e \in events : Top(e, t, MaxEvents) /\ e.id > n
            BY <2>1 DEF NothingMissed, Top
        <3>1. CASE \E e \in D : e.task = t
            <4>1. Newest(t) \in D /\ Newest(t) \in events /\ Top(Newest(t), t, n)
                BY <2>2, <2>4, <3>1
            <4>2. MaxEvents \in EventIds /\ Newest(t).id <= MaxEvents
                BY <1>i, <4>1
            <4>3. PICK e \in events : Top(e, t, MaxEvents)
                BY <1>k, <4>1, <4>2 DEF Order, TopsExist, Top
            <4>4. CASE e.id > n
                BY <4>3, <4>4
            <4>5. CASE e.id <= n
                <5>1. e = Newest(t)
                    BY <1>k, <1>i, <4>1, <4>2, <4>3, <4>5 DEF Top, Order, UniqueIds
                <5> QED
                    BY <1>k, <2>1, <3>1, <4>3, <5>1 DEF TopIsRow
            <4> QED
                BY <1>i, <4>4, <4>5
        <3>2. CASE ~\E e \in D : e.task = t
            <4>1. view'[t] = view[t]
                BY <2>1, <3>2
            <4>2. ASSUME NEW e \in events, Top(e, t, MaxEvents), e.id > cursor PROVE e.id > n
                BY <1>i, <2>2, <3>2, <4>2 DEF Top
            <4> QED
                BY <1>k, <2>1, <4>1, <4>2 DEF NothingMissed
        <3> QED
            BY <3>1, <3>2
    <2>10. SqliteInOrder'
        BY <1>k, <2>1, <2>3 DEF SqliteInOrder
    <2> QED
        BY <2>6, <2>8, <2>9, <2>10 DEF FeedInv
<1> QED
    BY <1>0, <1>1, <1>2, <1>3, <1>4, <1>5, <1>6, <1>7, <1>8 DEF FeedNext

-----------------------------------------------------------------------------
\* The writers and the stream keep the types of the tables and of the client.
THEOREM FeedTypeCorrect == FeedSpec => []FeedTypeOK
<1>1. FeedInv => FeedTypeOK
    BY DEF FeedInv
<1> QED
    BY <1>1, FeedInvInit, FeedInvStep, PTL DEF FeedSpec

\* stream_tasks loses nothing between its snapshot, its cursor and the batches
\* of get_events_since: a client that has been sent every event behind its
\* cursor shows every task as it is, but for changes without an event and, with
\* PostgreSQL only, events committed behind the cursor.
THEOREM StreamConverges == FeedSpec => []FeedConverges
<1>1. FeedInv => FeedConverges
    <2> SUFFICES ASSUME FeedInv
                 PROVE  FeedConverges
        OBVIOUS
    <2>1. database = "sqlite" => overtaken = {}
        BY DEF FeedInv, SqliteInOrder
    <2>2. ASSUME stream = "stream", Unseen = {}, NEW t \in FeedTasks
          PROVE  view[t] = row[t] \/ t \in silent \cup overtaken
        BY <2>2 DEF FeedInv, NothingMissed, Unseen
    <2> QED
        BY <2>1, <2>2 DEF FeedConverges
<1> QED
    BY <1>1, FeedInvInit, FeedInvStep, PTL DEF FeedSpec

-----------------------------------------------------------------------------
(* ToolGate: a broken ledger has a reason that is settled for good or one  *)
(* that its call will still see to (Reason); a copy of a ledger that was   *)
(* broken already has somebody else's reason behind it, so that putting    *)
(* it back loses none.                                                     *)

Items == ToolCalls \cup 1..MaxSaves
TextStates == [whole : BOOLEAN, has : SUBSET Items]
UseStates ==
    [at : {"new", "running", "ran", "checked", "cut", "done"},
     asks : ToolRequests \cup {[tool |-> "none"]}, copy : {NoText} \cup TextStates,
     verdict : {"none", "denied", "fine", "damaged", "restored"}]

GateTypeOK ==
    /\ sandboxed \in BOOLEAN /\ json \in [Json -> {NoText} \cup TextStates]
    /\ use \in [ToolCalls -> UseStates] /\ before \in [ToolCalls -> {NoText} \cup TextStates]
    /\ saver \in [Json -> {NoText} \cup SUBSET Items] /\ saves \in [Json -> 0..MaxSaves]
    /\ \A f \in Json : saver[f] # NoText => saves[f] < MaxSaves
    /\ {disturbed, unlucky} \subseteq SUBSET ToolCalls

\* What the server keeps for itself, and what a save of it has read.
ServerKeeps ==
    /\ json["script"] = Text(TRUE, 1..saves["script"])
    /\ saver["script"] # NoText => saver["script"] = 1..saves["script"]

At(c, steps) == use[c].at \in steps
Writes(c) == use[c].asks.tool \in WriteTools
Undisturbed(c) == c \notin disturbed
Checked(c) == ChecksJson(use[c].asks)
Patches(c) == use[c].asks.tool = "Edit" /\ use[c].asks.old # "blank" /\ Checked(c)
Broken == json["ledger"] # NoText /\ ~json["ledger"].whole

\* A call that writes was let through to the ledger, by that name or by one that
\* no hook looks at.
Admitted(r) ==
    /\ r.name \in [says : {"ledger", "notes"}, leads : {"ledger"}]
    /\ ChecksJson(r) <=> r.name.says = "ledger"
    /\ r.tool = "Write" => r.old = "all" /\ (ChecksJson(r) => r.effect = "sound")
    /\ r.tool = "Edit" => r.old \in {"found", "loose", "blank"}

\* A reason for a broken ledger that stays one, and one that may yet be settled.
Settled(c) ==
    \/ use[c].asks.tool = "Bash"
    \/ /\ Writes(c)
       /\ \/ At(c, {"cut"})
          \/ At(c, {"ran", "checked", "done"}) /\ c \in disturbed
          \/ At(c, {"ran", "checked", "done"}) /\ ~Checked(c)
          \/ At(c, {"done"}) /\ use[c].asks.tool = "Edit" /\ use[c].asks.old = "blank"
          \/ At(c, {"done"}) /\ c \in unlucky /\ use[c].verdict = "damaged"
Reason(c) == Settled(c) \/ (Writes(c) /\ At(c, {"ran", "checked"}))

CallIsTrue(c) ==
    /\ Writes(c) => Admitted(use[c].asks)
    /\ At(c, {"new"}) => use[c].asks.tool = "none"
    /\ At(c, {"ran", "checked", "cut"}) => Writes(c)
    /\ At(c, {"running", "ran", "checked"}) => use[c].verdict = "none"
    /\ At(c, {"checked"}) => use[c].copy # NoText
    /\ Writes(c) /\ ~Patches(c) => use[c].copy = NoText
    /\ At(c, {"running"}) /\ Patches(c) /\ Undisturbed(c) => use[c].copy = json["ledger"]
    /\ At(c, {"ran"}) /\ use[c].asks.tool = "Write" /\ Checked(c) /\ Undisturbed(c) => ~Broken
    /\ At(c, {"ran", "checked"}) /\ Patches(c) /\ Undisturbed(c) =>
         /\ use[c].copy # NoText /\ use[c].copy = before[c]
         /\ ~use[c].copy.whole => \E d \in ToolCalls : d # c /\ Settled(d)
    /\ use[c].verdict = "restored" => c \in disturbed \/ use[c].copy = before[c]

GateInv ==
    /\ GateTypeOK /\ ServerKeeps
    /\ \A c \in ToolCalls : CallIsTrue(c)
    /\ Broken => \E c \in ToolCalls : Reason(c)

LEMMA TextFacts ==
  /\ NoText \notin TextStates /\ NoText \notin SUBSET Items
  /\ \A whole \in BOOLEAN, has \in SUBSET Items :
       /\ Text(whole, has) \in TextStates
       /\ Text(whole, has).whole = whole /\ Text(whole, has).has = has
  /\ \A has \in SUBSET Items :
       Text(TRUE, has) # NoText /\ Text(TRUE, has).whole /\ Text(TRUE, has).has = has
  <1>1. \A t \in TextStates : t = [whole |-> t.whole, has |-> t.has]
                              /\ t.whole \in BOOLEAN /\ t.has \in SUBSET Items
    BY DEF TextStates
  <1> QED BY <1>1, GateAssumption DEF TextStates, Items, Text

LEMMA GateInvInit == GateInit => GateInv
  <1> SUFFICES ASSUME GateInit PROVE GateInv
    OBVIOUS
  <1>1. {} \in SUBSET Items /\ Text(TRUE, {}) \in TextStates /\ Text(TRUE, {}).whole = TRUE
    BY TextFacts
  <1>2. PICK kept \in {NoText, Text(TRUE, {})} :
          json = [f \in Json |-> IF f \in Guarded THEN Text(TRUE, {}) ELSE kept]
    BY DEF GateInit
  <1>3. NewCall \in UseStates /\ NewCall.asks.tool = "none" /\ NewCall.verdict = "none"
        /\ NewCall.at = "new"
    BY DEF NewCall, UseStates
  <1>4. GateTypeOK
    <2>1. json \in [Json -> {NoText} \cup TextStates]
      BY <1>1, <1>2
    <2>2. 0 \in 0..MaxSaves
      BY GateAssumption
    <2> QED BY <1>3, <2>1, <2>2 DEF GateInit, GateTypeOK
  <1>5. ServerKeeps
    BY <1>2 DEF GateInit, ServerKeeps, Json, Guarded
  <1>6. ~Broken
    BY <1>1, <1>2, TextFacts DEF Broken, Json, Guarded
  <1>7. \A c \in ToolCalls : CallIsTrue(c)
    BY <1>3 DEF GateInit, CallIsTrue, At, Writes, WriteTools, Patches
  <1> QED BY <1>4, <1>5, <1>6, <1>7 DEF GateInv

\* The fence lets a tool write to the ledger only.
LEMMA OnlyTheLedger ==
  ASSUME NEW r \in ToolRequests, Permitted(r), r.tool \in WriteTools
  PROVE  Admitted(r)
  <1>1. /\ r.name \in Straight \cup Links
        /\ r.tool = "Write" => r.old = "all" /\ r.effect \in {"sound", "breaks"}
        /\ r.tool = "Edit" => r.old \in {"found", "loose", "blank"}
    BY DEF ToolRequests, WriteTools
  <1>2. WriteAllowed(r.name) /\ ~HookRefuses(r)
    BY DEF Permitted, PathAllowed, WriteTools, PathTools
  <1>3. r.name \in [says : {"ledger", "notes"}, leads : {"ledger"}]
    BY <1>1, <1>2 DEF WriteAllowed, IsProtected, Straight, Links, Guarded, Inside, Json, Places
  <1>4. ChecksJson(r) <=> r.name.says = "ledger"
    BY <1>3 DEF ChecksJson, NamesJson, Json
  <1> QED BY <1>1, <1>2, <1>3, <1>4 DEF Admitted, HookRefuses

\* What goes on standing for a call that nobody touches.
LEMMA OthersStay ==
  ASSUME GateInv, NEW c \in ToolCalls, use'[c] = use[c], before'[c] = before[c],
         disturbed \subseteq disturbed', unlucky \subseteq unlucky',
         \A d \in ToolCalls : Settled(d) => Settled(d)',
         \/ json'["ledger"] = json["ledger"]
         \/ Writes(c) /\ At(c, {"running", "ran", "checked"}) => c \in disturbed'
  PROVE  CallIsTrue(c)'
  <1>1. /\ Writes(c)' = Writes(c) /\ Patches(c)' = Patches(c)
        /\ \A steps : At(c, steps)' = At(c, steps)
        /\ Undisturbed(c)' => Undisturbed(c)
    BY DEF Writes, Patches, Checked, At, Undisturbed
  <1>2. CallIsTrue(c)
    BY DEF GateInv
  <1>3. CASE Undisturbed(c)' /\ Writes(c) /\ At(c, {"running", "ran", "checked"})
    <2>1. json'["ledger"] = json["ledger"]
      BY <1>3 DEF Undisturbed
    <2>2. Broken' = Broken
      BY <2>1 DEF Broken
    <2>3. (\E d \in ToolCalls : d # c /\ Settled(d)) => \E d \in ToolCalls : d # c /\ Settled(d)'
      OBVIOUS
    <2>4. /\ At(c, {"new"})' = At(c, {"new"}) /\ At(c, {"running"})' = At(c, {"running"})
          /\ At(c, {"ran"})' = At(c, {"ran"}) /\ At(c, {"checked"})' = At(c, {"checked"})
          /\ At(c, {"ran", "checked"})' = At(c, {"ran", "checked"})
          /\ At(c, {"ran", "checked", "cut"})' = At(c, {"ran", "checked", "cut"})
          /\ At(c, {"running", "ran", "checked"})' = At(c, {"running", "ran", "checked"})
          /\ Checked(c)' = Checked(c)
      BY DEF At, Checked
    <2> QED BY <1>1, <1>2, <2>1, <2>2, <2>3, <2>4 DEF CallIsTrue
  <1>4. CASE ~(Undisturbed(c)' /\ Writes(c) /\ At(c, {"running", "ran", "checked"}))
    <2>1. At(c, {"running", "ran", "checked"}) = (At(c, {"running"}) \/ At(c, {"ran"}) \/ At(c, {"checked"}))
          /\ At(c, {"ran", "checked"}) = (At(c, {"ran"}) \/ At(c, {"checked"}))
          /\ (use[c].asks.tool = "Write" => Writes(c)) /\ (Patches(c) => Writes(c))
      BY DEF At, Writes, Patches, Checked, WriteTools
    <2> QED BY <1>1, <1>2, <1>4, <2>1 DEF CallIsTrue
  <1> QED BY <1>3, <1>4

OwnSteps(a) ==
    \/ AskTool(a) \/ ToolWrites(a) \/ CommandRuns(a) \/ ToolDoesNotWrite(a)
    \/ UseIsCut(a) \/ PostCheck(a) \/ PutBack(a) \/ PutBackFails(a)

\* A step is one call's, or a save's; it leaves the others where they are.
LEMMA OneMoves ==
  ASSUME GateInv, GateNext
  PROVE  \/ \E a \in ToolCalls :
              /\ OwnSteps(a)
              /\ \A c \in ToolCalls \ {a} : use'[c] = use[c] /\ before'[c] = before[c]
         \/ /\ \E f \in Json : SaverReads(f) \/ SaverWrites(f)
            /\ UNCHANGED <<use, before>>
  <1>1. use \in [ToolCalls -> UseStates] /\ before \in [ToolCalls -> {NoText} \cup TextStates]
    BY DEF GateInv, GateTypeOK
  <1>2. ASSUME NEW a \in ToolCalls, OwnSteps(a)
        PROVE  \A c \in ToolCalls \ {a} : use'[c] = use[c] /\ before'[c] = before[c]
    <2>1. before' = before \/ before' = [before EXCEPT ![a] = json[use[a].asks.name.leads]]
      BY <1>2 DEF OwnSteps, AskTool, ToolWrites, CommandRuns, ToolDoesNotWrite, UseIsCut,
         PostCheck, PutBack, PutBackFails
    <2>2. \E u : use' = [use EXCEPT ![a] = u]
      <3>1. CASE AskTool(a)
        BY <3>1 DEF AskTool
      <3>2. CASE ToolWrites(a) \/ CommandRuns(a)
        BY <3>2 DEF ToolWrites, CommandRuns
      <3>3. CASE ToolDoesNotWrite(a) \/ UseIsCut(a)
        BY <3>3 DEF ToolDoesNotWrite, UseIsCut
      <3>4. CASE PostCheck(a)
        BY <3>4 DEF PostCheck
      <3>5. CASE PutBack(a) \/ PutBackFails(a)
        BY <3>5 DEF PutBack, PutBackFails
      <3> QED BY <1>2, <3>1, <3>2, <3>3, <3>4, <3>5 DEF OwnSteps
    <2> QED BY <1>1, <2>1, <2>2
  <1>3. ASSUME NEW f \in Json, SaverReads(f) \/ SaverWrites(f)
        PROVE  UNCHANGED <<use, before>>
    BY <1>3 DEF SaverReads, SaverWrites
  <1> QED BY <1>2, <1>3 DEF GateNext, OwnSteps

\* A reason is settled for good.
LEMMA SettledStays ==
  ASSUME GateInv, GateNext
  PROVE  /\ \A c \in ToolCalls : Settled(c) => Settled(c)'
         /\ disturbed \subseteq disturbed' /\ unlucky \subseteq unlucky'
  <1>1. disturbed \subseteq disturbed' /\ unlucky \subseteq unlucky'
    BY DEF GateNext, AskTool, ToolWrites, CommandRuns, ToolDoesNotWrite, UseIsCut, PostCheck,
       PutBack, PutBackFails, SaverReads, SaverWrites, Lands
  <1>2. ASSUME NEW c \in ToolCalls, Settled(c), use'[c] = use[c]
        PROVE  Settled(c)'
    BY <1>1, <1>2 DEF Settled, Checked, At, Writes
  <1>3. ASSUME NEW c \in ToolCalls, Settled(c),
               OwnSteps(c)
        PROVE  Settled(c)'
    <2>1. use[c] \in UseStates /\ use \in [ToolCalls -> UseStates] /\ CallIsTrue(c)
      BY DEF GateInv, GateTypeOK
    <2>2. ~AskTool(c) /\ ~ToolWrites(c) /\ ~ToolDoesNotWrite(c)
      BY <1>3, <2>1 DEF Settled, Checked, AskTool, ToolWrites, ToolDoesNotWrite, CallIsTrue, At, Writes,
         WriteTools
    <2>3. CASE CommandRuns(c)
      <3>1. use[c].asks.tool = "Bash" /\ use'[c].asks = use[c].asks
        BY <2>1, <2>3 DEF CommandRuns, UseStates
      <3> QED BY <3>1 DEF Settled, Checked
    <2>4. CASE UseIsCut(c)
      <3>1. use[c].at = "ran" /\ use'[c].asks = use[c].asks /\ use'[c].at = "cut"
        BY <2>1, <2>4 DEF UseIsCut, UseStates
      <3> QED BY <1>3, <3>1 DEF Settled, Checked, At, Writes
    <2>5. CASE PostCheck(c)
      <3>1. use[c].at = "ran" /\ use'[c].asks = use[c].asks /\ use'[c].at \in {"done", "checked"}
        BY <2>1, <2>5 DEF PostCheck, UseStates
      <3> QED BY <1>1, <1>3, <3>1 DEF Settled, Checked, At, Writes
    <2>6. CASE PutBack(c)
      <3>1. use[c].at = "checked" /\ use'[c].asks = use[c].asks /\ use'[c].at = "done"
        BY <2>1, <2>6 DEF PutBack, UseStates
      <3> QED BY <1>1, <1>3, <3>1 DEF Settled, Checked, At, Writes
    <2>7. CASE PutBackFails(c)
      <3>1. use[c].at = "checked" /\ use'[c].asks = use[c].asks /\ use'[c].at = "done"
        BY <2>1, <2>7 DEF PutBackFails, UseStates
      <3> QED BY <1>1, <1>3, <3>1 DEF Settled, Checked, At, Writes
    <2> QED BY <1>3, <2>2, <2>3, <2>4, <2>5, <2>6, <2>7 DEF OwnSteps
  <1>4. ASSUME NEW c \in ToolCalls, Settled(c)
        PROVE  Settled(c)'
    <2>1. CASE use'[c] = use[c]
      BY <1>2, <1>4, <2>1
    <2>2. CASE use'[c] # use[c]
      <3>1. OwnSteps(c)
        BY <2>2, OneMoves
      <3> QED BY <1>3, <1>4, <3>1
    <2> QED BY <2>1, <2>2
  <1> QED BY <1>1, <1>4

\* Whoever has the ledger open is told of a write to it.
Disturbs(a) ==
    \/ json'["ledger"] = json["ledger"]
    \/ \A c \in ToolCalls \ {a} :
         Writes(c) /\ At(c, {"running", "ran", "checked"}) => c \in disturbed'

LEMMA StepOfOne ==
  ASSUME GateInv, GateNext, NEW a \in ToolCalls,
         \A c \in ToolCalls \ {a} : use'[c] = use[c] /\ before'[c] = before[c],
         GateTypeOK', ServerKeeps', Disturbs(a), CallIsTrue(a)',
         Broken' => \/ Reason(a)'
                    \/ \E c \in ToolCalls \ {a} : Settled(c)
                    \/ Broken /\ ~Reason(a)
  PROVE  GateInv'
  <1>1. ASSUME NEW c \in ToolCalls, c # a
        PROVE  CallIsTrue(c)'
    BY <1>1, SettledStays, OthersStay DEF Disturbs
  <1>2. ASSUME NEW c \in ToolCalls, c # a, Reason(c)
        PROVE  Reason(c)'
    BY <1>2, SettledStays DEF Reason, Writes, At
  <1>3. Broken' => \E c \in ToolCalls : Reason(c)'
    <2>1. CASE Broken /\ ~Reason(a)
      BY <1>2, <2>1 DEF GateInv
    <2>2. CASE \E c \in ToolCalls \ {a} : Settled(c)
      BY <1>2, <2>2 DEF Reason
    <2> QED BY <2>1, <2>2
  <1> QED BY <1>1, <1>3 DEF GateInv

LEMMA CallFacts ==
  ASSUME GateInv, NEW c \in ToolCalls
  PROVE  /\ use \in [ToolCalls -> UseStates] /\ use[c] \in UseStates /\ CallIsTrue(c)
         /\ json["ledger"] \in {NoText} \cup TextStates
         /\ Writes(c) => use[c].asks.name.leads = "ledger"
  <1>1. use \in [ToolCalls -> UseStates] /\ use[c] \in UseStates /\ CallIsTrue(c)
    BY DEF GateInv, GateTypeOK
  <1>2. json["ledger"] \in {NoText} \cup TextStates
    BY DEF GateInv, GateTypeOK, Json
  <1>3. Writes(c) => use[c].asks.name.leads = "ledger"
    BY <1>1 DEF CallIsTrue, Admitted
  <1> QED BY <1>1, <1>2, <1>3

\* What a write to the ledger leaves of the types, of the server's file and of
\* the others.
LEMMA LandsOnLedger ==
  ASSUME GateInv, NEW a \in ToolCalls, NEW text \in TextStates, Lands("ledger", text, a)
  PROVE  /\ json' \in [Json -> {NoText} \cup TextStates] /\ disturbed' \in SUBSET ToolCalls
         /\ json'["ledger"] = text /\ json'["script"] = json["script"]
         /\ \A c \in ToolCalls \ {a} :
              Writes(c) /\ At(c, {"running", "ran", "checked"}) => c \in disturbed'
         /\ disturbed \subseteq disturbed' /\ (a \in disturbed' => a \in disturbed)
  <1>1. /\ json' = [json EXCEPT !["ledger"] = text]
        /\ disturbed' = disturbed \cup (OpenOn("ledger") \ {a})
    BY DEF Lands
  <1>2. ASSUME NEW c \in ToolCalls, Writes(c), At(c, {"running", "ran", "checked"})
        PROVE  c \in OpenOn("ledger")
    BY <1>2, CallFacts DEF OpenOn, At, Writes
  <1> QED BY <1>1, <1>2 DEF GateInv, GateTypeOK, Json, OpenOn

LEMMA AskKeeps ==
  ASSUME GateInv, GateNext, NEW a \in ToolCalls, AskTool(a)
  PROVE  GateInv'
  <1>1. PICK r \in ToolRequests :
          use' = [use EXCEPT ![a] =
              IF Permitted(r)
              THEN [at |-> "running", asks |-> r, verdict |-> "none",
                    copy |-> IF r.tool = "Edit" THEN CopyOf(r) ELSE NoText]
              ELSE [NewCall EXCEPT !.at = "done", !.verdict = "denied"]]
    BY DEF AskTool
  <1>2. /\ use[a].at = "new"
        /\ UNCHANGED <<sandboxed, json, saver, saves, toolFaults, before, disturbed, unlucky>>
    BY DEF AskTool
  <1>3. use \in [ToolCalls -> UseStates] /\ CallIsTrue(a) /\ json["ledger"] \in {NoText} \cup TextStates
    BY CallFacts
  <1>4. ~Reason(a)
    BY <1>2, <1>3 DEF Reason, Settled, Checked, CallIsTrue, At, Writes, WriteTools
  <1>5. /\ use'[a] \in UseStates /\ CallIsTrue(a)'
        /\ \A c \in ToolCalls \ {a} : use'[c] = use[c]
    <2>1. CASE ~Permitted(r)
      <3> DEFINE new == [NewCall EXCEPT !.at = "done", !.verdict = "denied"]
      <3>1. /\ new \in UseStates /\ new.at = "done" /\ new.asks.tool = "none"
            /\ new.verdict = "denied"
        BY DEF NewCall, UseStates
      <3>2. use' = [use EXCEPT ![a] = new]
        BY <1>1, <2>1
      <3> HIDE DEF new
      <3>3. use'[a] = new /\ \A c \in ToolCalls \ {a} : use'[c] = use[c]
        BY <1>3, <3>2
      <3> QED BY <3>1, <3>3 DEF CallIsTrue, At, Writes, WriteTools, Patches, Checked
    <2>2. CASE Permitted(r)
      <3> DEFINE copy == IF r.tool = "Edit" THEN CopyOf(r) ELSE NoText
                 new == [at |-> "running", asks |-> r, verdict |-> "none", copy |-> copy]
      <3>1. r.tool \in WriteTools => Admitted(r)
        BY <2>2, OnlyTheLedger
      <3>2. /\ r.tool = "Edit" /\ r.old # "blank" /\ ChecksJson(r) => copy = json["ledger"]
            /\ ~(r.tool = "Edit" /\ r.old # "blank" /\ ChecksJson(r)) => copy = NoText
        BY <3>1 DEF CopyOf, Current, Admitted, WriteTools
      <3> HIDE DEF copy
      <3>3. /\ new \in UseStates /\ new.at = "running" /\ new.asks = r /\ new.verdict = "none"
            /\ new.copy = copy
        BY <1>3, <3>2 DEF UseStates
      <3>4. use' = [use EXCEPT ![a] = new]
        BY <1>1, <2>2 DEF copy
      <3> HIDE DEF new
      <3>5. use'[a] = new /\ \A c \in ToolCalls \ {a} : use'[c] = use[c]
        BY <1>3, <3>4
      <3>6. json' = json
        BY <1>2
      <3> QED BY <3>1, <3>2, <3>3, <3>5, <3>6
              DEF CallIsTrue, At, Writes, WriteTools, Patches, Checked, Undisturbed
    <2> QED BY <2>1, <2>2
  <1>6. GateTypeOK'
    <2>1. use' \in [ToolCalls -> UseStates]
      BY <1>1, <1>3, <1>5
    <2> QED BY <1>2, <2>1 DEF GateInv, GateTypeOK
  <1>7. ServerKeeps' /\ Disturbs(a) /\ Broken' = Broken
    BY <1>2 DEF GateInv, ServerKeeps, Disturbs, Broken
  <1> QED BY <1>2, <1>4, <1>5, <1>6, <1>7, StepOfOne

LEMMA WriteKeeps ==
  ASSUME GateInv, GateNext, NEW a \in ToolCalls, ToolWrites(a)
  PROVE  GateInv'
  <1> DEFINE r == use[a].asks
             new == [use[a] EXCEPT !.at = "ran"]
  <1>1. /\ use[a].at = "running" /\ Writes(a) /\ use' = [use EXCEPT ![a] = new]
        /\ UNCHANGED <<sandboxed, saver, saves, unlucky>>
    BY DEF ToolWrites, Writes
  <1>2. /\ use \in [ToolCalls -> UseStates] /\ CallIsTrue(a) /\ use[a] \in UseStates
        /\ json["ledger"] \in {NoText} \cup TextStates
        /\ r.name.leads = "ledger" /\ Admitted(r)
    BY <1>1, CallFacts DEF CallIsTrue
  <1>3. /\ new \in UseStates /\ new.at = "ran" /\ new.asks = r /\ new.copy = use[a].copy
        /\ new.verdict = use[a].verdict
    BY <1>2 DEF UseStates
  <1> HIDE DEF new
  <1>4. PICK text \in TextStates :
          /\ Lands("ledger", text, a) /\ before' = [before EXCEPT ![a] = json["ledger"]]
          /\ r.tool = "Write" /\ ChecksJson(r) => text.whole
          /\ Patches(a) => json["ledger"] # NoText
    <2>1. /\ {a} \in SUBSET Items
          /\ json["ledger"] # NoText => json["ledger"].has \cup {a} \in SUBSET Items
      BY <1>2 DEF Items, TextStates
    <2>2. before' = [before EXCEPT ![a] = json["ledger"]]
      BY <1>2 DEF ToolWrites
    <2>3. CASE r.old \in {"all", "blank"}
      <3>1. Lands("ledger", Text(r.effect \notin Breaking, {a}), a)
        BY <1>2, <2>3 DEF ToolWrites
      <3>2. r.tool = "Write" /\ ChecksJson(r) => r.effect \notin Breaking
        BY <1>2 DEF Admitted, Breaking
      <3>3. ~Patches(a)
        BY <1>1, <1>2, <2>3 DEF Patches, Checked, Admitted, Writes
      <3> DEFINE whole == r.effect \notin Breaking
      <3>4. whole \in BOOLEAN
        OBVIOUS
      <3> HIDE DEF whole
      <3>5. Text(whole, {a}) \in TextStates /\ Text(whole, {a}).whole = whole
        BY <2>1, <3>4, TextFacts
      <3> USE DEF whole
      <3> QED BY <2>2, <3>1, <3>2, <3>3, <3>5
    <2>4. CASE r.old \in {"found", "loose"}
      <3>1. /\ json["ledger"] # NoText
            /\ \E whole \in (IF a \in disturbed THEN BOOLEAN ELSE {After(json["ledger"], r.effect)}) :
                  Lands("ledger", Text(whole, json["ledger"].has \cup {a}), a)
        BY <1>2, <2>4 DEF ToolWrites
      <3>2. After(json["ledger"], r.effect) \in BOOLEAN
        BY <1>2, <3>1 DEF After, TextStates
      <3>3. PICK whole \in BOOLEAN : Lands("ledger", Text(whole, json["ledger"].has \cup {a}), a)
        BY <3>1, <3>2
      <3>4. Text(whole, json["ledger"].has \cup {a}) \in TextStates
        BY <2>1, <3>1, TextFacts
      <3>5. r.tool # "Write"
        BY <1>2, <2>4 DEF Admitted
      <3> QED BY <2>2, <3>1, <3>3, <3>4, <3>5
    <2> QED BY <1>1, <1>2, <2>3, <2>4 DEF Admitted, Writes, WriteTools
  <1>5. /\ json' \in [Json -> {NoText} \cup TextStates] /\ disturbed' \in SUBSET ToolCalls
        /\ json'["ledger"] = text /\ json'["script"] = json["script"]
        /\ \A c \in ToolCalls \ {a} :
             Writes(c) /\ At(c, {"running", "ran", "checked"}) => c \in disturbed'
        /\ a \in disturbed' => a \in disturbed
        /\ disturbed \subseteq disturbed'
    BY <1>4, LandsOnLedger
  <1>6. /\ use'[a] = new /\ before'[a] = json["ledger"]
        /\ \A c \in ToolCalls \ {a} : use'[c] = use[c] /\ before'[c] = before[c]
        /\ use' \in [ToolCalls -> UseStates]
        /\ before' \in [ToolCalls -> {NoText} \cup TextStates]
    BY <1>1, <1>2, <1>3, <1>4 DEF GateInv, GateTypeOK
  <1>7. GateTypeOK' /\ ServerKeeps' /\ Disturbs(a)
    BY <1>1, <1>5, <1>6 DEF GateInv, GateTypeOK, ServerKeeps, Disturbs
  <1>8. /\ Writes(a)' /\ (Patches(a)' <=> Patches(a)) /\ Undisturbed(a)' = Undisturbed(a)
        /\ use'[a].at = "ran" /\ use'[a].asks = r /\ use'[a].copy = use[a].copy
        /\ use'[a].verdict = "none"
    BY <1>1, <1>2, <1>3, <1>5, <1>6 DEF Writes, Patches, Checked, Undisturbed, CallIsTrue, At
  <1>9. ASSUME Patches(a), Undisturbed(a)
        PROVE  /\ use[a].copy # NoText /\ use[a].copy = json["ledger"]
               /\ ~use[a].copy.whole => \E d \in ToolCalls : d # a /\ Settled(d)'
    <2>1. use[a].copy = json["ledger"] /\ json["ledger"] # NoText
      BY <1>1, <1>2, <1>4, <1>9 DEF CallIsTrue, At
    <2>2. ASSUME ~use[a].copy.whole
          PROVE  \E d \in ToolCalls : d # a /\ Settled(d)'
      <3>1. PICK d \in ToolCalls : Reason(d)
        BY <2>1, <2>2 DEF GateInv, Broken
      <3>2. d # a
        BY <1>1, <3>1 DEF Reason, Settled, Checked, At, Writes, WriteTools
      <3>3. CASE Settled(d)
        BY <3>2, <3>3, SettledStays
      <3>4. CASE Writes(d) /\ At(d, {"ran", "checked"})
        <4>1. d \in disturbed' /\ use'[d] = use[d]
          BY <1>5, <1>6, <3>2, <3>4 DEF At
        <4> QED BY <3>2, <3>4, <4>1 DEF Settled, Checked, At, Writes
      <3> QED BY <3>1, <3>3, <3>4 DEF Reason
    <2> QED BY <2>1, <2>2
  <1>10. CallIsTrue(a)'
    <2>1. use[a].asks.tool = "Write" /\ Checked(a) => ~Broken'
      BY <1>4, <1>5 DEF Broken, Checked
    <2>2. ~Patches(a) => use[a].copy = NoText
      BY <1>1, <1>2 DEF CallIsTrue
    <2>3. before'[a] = json["ledger"]
      BY <1>6
    <2>4. /\ At(a, {"ran"})' /\ ~At(a, {"new"})' /\ ~At(a, {"running"})' /\ ~At(a, {"checked"})'
          /\ (Checked(a)' <=> Checked(a)) /\ use'[a].asks = use[a].asks
      BY <1>1, <1>8 DEF At, Checked
    <2>5. Admitted(use[a].asks)
      BY <1>1, <1>2, <1>8, <2>4 DEF CallIsTrue, Writes
    <2> QED BY <1>8, <1>9, <2>1, <2>2, <2>3, <2>4, <2>5 DEF CallIsTrue
  <1>11. Reason(a)'
    BY <1>8 DEF Reason, At
  <1> QED BY <1>6, <1>7, <1>10, <1>11, StepOfOne

LEMMA CommandKeeps ==
  ASSUME GateInv, GateNext, NEW a \in ToolCalls, CommandRuns(a)
  PROVE  GateInv'
  <1> DEFINE new == [use[a] EXCEPT !.at = "done"]
  <1>1. /\ use[a].at = "running" /\ use[a].asks.tool = "Bash"
        /\ use' = [use EXCEPT ![a] = new]
        /\ UNCHANGED <<sandboxed, saver, saves, unlucky, before>>
    BY DEF CommandRuns
  <1>2. use \in [ToolCalls -> UseStates] /\ use[a] \in UseStates /\ CallIsTrue(a)
    BY CallFacts
  <1>3. /\ new \in UseStates /\ new.at = "done" /\ new.asks = use[a].asks
        /\ new.verdict = use[a].verdict
    BY <1>2 DEF UseStates
  <1> HIDE DEF new
  <1>4. /\ use'[a] = new /\ \A c \in ToolCalls \ {a} : use'[c] = use[c]
        /\ use' \in [ToolCalls -> UseStates]
    BY <1>1, <1>2, <1>3
  <1>5. CallIsTrue(a)' /\ Reason(a)'
    BY <1>1, <1>2, <1>3, <1>4 DEF CallIsTrue, Reason, Settled, Checked, At, Writes, WriteTools, Patches
  <1>6. /\ json' \in [Json -> {NoText} \cup TextStates] /\ disturbed' \in SUBSET ToolCalls
        /\ json'["script"] = json["script"] /\ Disturbs(a)
    <2>1. CASE UNCHANGED <<json, disturbed>>
      BY <2>1 DEF GateInv, GateTypeOK, Disturbs
    <2>2. CASE sandboxed /\ \E f \in Json \ DeniedWrites, whole \in BOOLEAN :
                               Lands(f, Text(whole, {a}), a)
      <3>1. PICK whole \in BOOLEAN : Lands("ledger", Text(whole, {a}), a)
        BY <2>2 DEF DeniedWrites, Json, Guarded
      <3>2. Text(whole, {a}) \in TextStates
        BY TextFacts DEF Items
      <3> QED BY <3>1, <3>2, LandsOnLedger DEF Disturbs
    <2> QED BY <2>1, <2>2 DEF CommandRuns
  <1>7. GateTypeOK' /\ ServerKeeps'
    BY <1>1, <1>4, <1>6 DEF GateInv, GateTypeOK, ServerKeeps
  <1> QED BY <1>1, <1>4, <1>5, <1>6, <1>7, StepOfOne

\* A step that leaves the files and the ghosts alone.
LEMMA QuietStep ==
  ASSUME GateInv, GateNext, NEW a \in ToolCalls, NEW new \in UseStates,
         use' = [use EXCEPT ![a] = new],
         UNCHANGED <<sandboxed, json, saver, saves, before, disturbed>>,
         unlucky' \in SUBSET ToolCalls,
         use'[a] = new => CallIsTrue(a)',
         use'[a] = new /\ Broken /\ Reason(a) => Reason(a)'
  PROVE  GateInv'
  <1>1. /\ use'[a] = new /\ \A c \in ToolCalls \ {a} : use'[c] = use[c]
        /\ use' \in [ToolCalls -> UseStates]
    BY CallFacts
  <1>2. GateTypeOK' /\ ServerKeeps' /\ Disturbs(a) /\ Broken' = Broken
    BY <1>1 DEF GateInv, GateTypeOK, ServerKeeps, Disturbs, Broken
  <1> QED BY <1>1, <1>2, StepOfOne

LEMMA QuietKeeps ==
  ASSUME GateInv, GateNext, NEW a \in ToolCalls,
         ToolDoesNotWrite(a) \/ UseIsCut(a) \/ PostCheck(a) \/ PutBackFails(a)
  PROVE  GateInv'
  <1>1. /\ use \in [ToolCalls -> UseStates] /\ use[a] \in UseStates /\ CallIsTrue(a)
        /\ json["ledger"] \in {NoText} \cup TextStates
        /\ Writes(a) => use[a].asks.name.leads = "ledger"
    BY CallFacts
  <1>2. CASE ToolDoesNotWrite(a)
    <2> DEFINE new == [NewCall EXCEPT !.at = "done"]
    <2>1. /\ use' = [use EXCEPT ![a] = new] /\ use[a].at = "running" /\ use[a].asks.tool # "Bash"
          /\ UNCHANGED <<sandboxed, json, saver, saves, before, disturbed, unlucky>>
      BY <1>2 DEF ToolDoesNotWrite
    <2>2. new \in UseStates /\ new.at = "done" /\ new.asks.tool = "none" /\ new.verdict = "none"
      BY DEF NewCall, UseStates
    <2> HIDE DEF new
    <2>3. ~Reason(a)
      BY <2>1 DEF Reason, Settled, Checked, At
    <2>4. use'[a] = new => CallIsTrue(a)'
      BY <2>2 DEF CallIsTrue, At, Writes, WriteTools, Patches, Checked
    <2> QED BY <2>1, <2>2, <2>3, <2>4, QuietStep DEF GateInv, GateTypeOK
  <1>3. CASE UseIsCut(a)
    <2> DEFINE new == [use[a] EXCEPT !.at = "cut"]
    <2>1. /\ use' = [use EXCEPT ![a] = new] /\ use[a].at = "ran"
          /\ UNCHANGED <<sandboxed, json, saver, saves, before, disturbed, unlucky>>
      BY <1>3 DEF UseIsCut
    <2>2. /\ new \in UseStates /\ new.at = "cut" /\ new.asks = use[a].asks
          /\ new.copy = use[a].copy /\ new.verdict = use[a].verdict /\ Writes(a)
          /\ use[a].verdict = "none"
      BY <1>1, <2>1 DEF UseStates, CallIsTrue, At
    <2> HIDE DEF new
    <2>3. use'[a] = new => CallIsTrue(a)' /\ Reason(a)'
      BY <1>1, <2>1, <2>2 DEF CallIsTrue, At, Writes, WriteTools, Patches, Checked, Reason, Settled
    <2> QED BY <2>1, <2>2, <2>3, QuietStep DEF GateInv, GateTypeOK
  <1>4. CASE PostCheck(a)
    <2> DEFINE fine == ~ChecksJson(use[a].asks) \/ Current(use[a].asks).whole
               phase == IF fine \/ use[a].copy = NoText THEN "done" ELSE "checked"
               verdict == IF fine THEN "fine"
                          ELSE IF use[a].copy = NoText THEN "damaged" ELSE use[a].verdict
               new == [use[a] EXCEPT !.at = phase, !.verdict = verdict]
    <2>1. /\ use' = [use EXCEPT ![a] = new] /\ use[a].at = "ran"
          /\ UNCHANGED <<sandboxed, json, saver, saves, before, disturbed, unlucky>>
      BY <1>4 DEF PostCheck
    <2>2. Writes(a) /\ use[a].verdict = "none" /\ (Checked(a) => (fine <=> json["ledger"].whole))
      BY <1>1, <2>1 DEF CallIsTrue, At, Current, Checked
    <2>3. /\ phase \in {"done", "checked"} /\ (phase = "checked" => use[a].copy # NoText)
          /\ verdict \in {"none", "fine", "damaged"} /\ (phase = "checked" => verdict = "none")
          /\ Broken /\ phase = "done" /\ Checked(a) => use[a].copy = NoText
      BY <2>2 DEF Broken
    <2> HIDE DEF phase, verdict, fine
    <2>4. /\ new \in UseStates /\ new.at = phase /\ new.asks = use[a].asks
          /\ new.copy = use[a].copy /\ new.verdict = verdict
      BY <1>1, <2>3 DEF UseStates
    <2> HIDE DEF new
    <2>5. ASSUME use'[a] = new
          PROVE  CallIsTrue(a)'
      <3>1. /\ Writes(a)' /\ (Patches(a)' <=> Patches(a)) /\ (Undisturbed(a)' <=> Undisturbed(a))
            /\ use'[a].asks = use[a].asks /\ use'[a].copy = use[a].copy /\ before'[a] = before[a]
        BY <2>1, <2>2, <2>4, <2>5 DEF Writes, Patches, Checked, Undisturbed
      <3>2. /\ use'[a].verdict # "restored" /\ ~At(a, {"new"})' /\ ~At(a, {"running"})'
            /\ ~At(a, {"ran"})'
            /\ At(a, {"checked"})' => use[a].copy # NoText /\ use'[a].verdict = "none"
            /\ At(a, {"running", "ran", "checked"})' => At(a, {"checked"})'
        BY <2>3, <2>4, <2>5 DEF At
      <3>3. At(a, {"ran", "checked"})
        BY <2>1 DEF At
      <3>4. /\ Admitted(use[a].asks) /\ (~Patches(a) => use[a].copy = NoText)
            /\ Patches(a) /\ Undisturbed(a) =>
                 /\ use[a].copy # NoText /\ use[a].copy = before[a]
                 /\ ~use[a].copy.whole => \E d \in ToolCalls : d # a /\ Settled(d)
        BY <1>1, <2>2, <3>3 DEF CallIsTrue
      <3>5. \A d \in ToolCalls : Settled(d) => Settled(d)'
        BY SettledStays
      <3> QED BY <3>1, <3>2, <3>4, <3>5 DEF CallIsTrue
    <2>6. ASSUME use'[a] = new, Broken
          PROVE  Reason(a)'
      <3>1. Writes(a)' /\ use'[a].asks = use[a].asks
        BY <2>2, <2>4, <2>6 DEF Writes
      <3>2. CASE phase = "checked"
        BY <2>4, <2>6, <3>1, <3>2 DEF Reason, At
      <3>3. CASE phase = "done" /\ ~Undisturbed(a)
        BY <2>1, <2>4, <2>6, <3>1, <3>3 DEF Reason, Settled, Checked, At, Undisturbed
      <3>4. CASE phase = "done" /\ ~Checked(a)
        BY <2>4, <2>6, <3>1, <3>4 DEF Reason, Settled, At, Checked
      <3>5. CASE phase = "done" /\ Undisturbed(a) /\ Checked(a)
        <4>1. use[a].copy = NoText
          BY <2>3, <2>6, <3>5
        <4>2. ~Patches(a) /\ use[a].asks.tool # "Write"
          BY <1>1, <2>1, <2>6, <3>5, <4>1 DEF CallIsTrue, At
        <4>3. use[a].asks.tool = "Edit" /\ use[a].asks.old = "blank"
          BY <2>2, <3>5, <4>2 DEF Patches, Writes, WriteTools
        <4>4. At(a, {"done"})'
          BY <2>4, <2>6, <3>5 DEF At
        <4> QED BY <3>1, <4>3, <4>4 DEF Reason, Settled
      <3> QED BY <2>3, <3>2, <3>3, <3>4, <3>5
    <2> QED BY <2>1, <2>4, <2>5, <2>6, QuietStep DEF GateInv, GateTypeOK
  <1>5. CASE PutBackFails(a)
    <2> DEFINE new == [use[a] EXCEPT !.at = "done", !.verdict = "damaged"]
    <2>1. /\ use' = [use EXCEPT ![a] = new] /\ use[a].at = "checked" /\ unlucky' = unlucky \cup {a}
          /\ UNCHANGED <<sandboxed, json, saver, saves, before, disturbed>>
      BY <1>5 DEF PutBackFails
    <2>2. /\ new \in UseStates /\ new.at = "done" /\ new.asks = use[a].asks
          /\ new.copy = use[a].copy /\ new.verdict = "damaged" /\ Writes(a)
      BY <1>1, <2>1 DEF UseStates, CallIsTrue, At
    <2> HIDE DEF new
    <2>3. use'[a] = new => CallIsTrue(a)' /\ Reason(a)'
      BY <1>1, <2>1, <2>2 DEF CallIsTrue, At, Writes, WriteTools, Patches, Checked, Reason, Settled
    <2> QED BY <2>1, <2>2, <2>3, QuietStep DEF GateInv, GateTypeOK
  <1> QED BY <1>2, <1>3, <1>4, <1>5

\* A copy that was broken itself has somebody else to answer for it.
LEMMA PutBackKeeps ==
  ASSUME GateInv, GateNext, NEW a \in ToolCalls, PutBack(a)
  PROVE  GateInv'
  <1> DEFINE new == [use[a] EXCEPT !.at = "done", !.verdict = "restored"]
             text == use[a].copy
  <1>1. /\ use[a].at = "checked" /\ use' = [use EXCEPT ![a] = new]
        /\ UNCHANGED <<sandboxed, saver, saves, unlucky, before>>
    BY DEF PutBack
  <1>2. /\ use \in [ToolCalls -> UseStates] /\ use[a] \in UseStates /\ CallIsTrue(a) /\ Writes(a)
        /\ use[a].asks.name.leads = "ledger" /\ text \in TextStates
    BY <1>1, CallFacts DEF CallIsTrue, At, UseStates
  <1>3. /\ new \in UseStates /\ new.at = "done" /\ new.asks = use[a].asks
        /\ new.verdict = "restored" /\ new.copy = text
    BY <1>2 DEF UseStates
  <1> HIDE DEF new
  <1>4. /\ use'[a] = new /\ \A c \in ToolCalls \ {a} : use'[c] = use[c]
        /\ use' \in [ToolCalls -> UseStates]
    BY <1>1, <1>2, <1>3
  <1>5. Lands("ledger", text, a)
    BY <1>2 DEF PutBack
  <1>6. /\ json' \in [Json -> {NoText} \cup TextStates] /\ disturbed' \in SUBSET ToolCalls
        /\ json'["ledger"] = text /\ json'["script"] = json["script"]
        /\ \A c \in ToolCalls \ {a} :
             Writes(c) /\ At(c, {"running", "ran", "checked"}) => c \in disturbed'
        /\ disturbed \subseteq disturbed' /\ (a \in disturbed' => a \in disturbed)
    BY <1>2, <1>5, LandsOnLedger
  <1>7. GateTypeOK' /\ ServerKeeps' /\ Disturbs(a)
    BY <1>1, <1>4, <1>6 DEF GateInv, GateTypeOK, ServerKeeps, Disturbs
  <1>8. At(a, {"ran", "checked"}) /\ Patches(a)
    BY <1>1, <1>2 DEF CallIsTrue, At
  <1>9. Undisturbed(a) => /\ text = before[a]
                          /\ ~text.whole => \E d \in ToolCalls : d # a /\ Settled(d)
    BY <1>2, <1>8 DEF CallIsTrue
  <1>10. CallIsTrue(a)'
    <2>1. Admitted(use[a].asks)
      BY <1>2 DEF CallIsTrue
    <2>2. Writes(a)' /\ Patches(a)' /\ use'[a].asks = use[a].asks /\ use'[a].copy = text
          /\ use'[a].verdict = "restored" /\ use'[a].at = "done"
      BY <1>2, <1>3, <1>4, <1>8 DEF Writes, Patches, Checked
    <2>3. a \in disturbed' \/ text = before'[a]
      BY <1>1, <1>6, <1>9 DEF Undisturbed
    <2> QED BY <2>1, <2>2, <2>3 DEF CallIsTrue, At
  <1>11. Broken' => Reason(a)' \/ \E c \in ToolCalls \ {a} : Settled(c)
    <2>1. CASE Undisturbed(a)
      BY <1>6, <1>9, <2>1 DEF Broken
    <2>2. CASE ~Undisturbed(a)
      BY <1>2, <1>3, <1>4, <1>6, <2>2 DEF Undisturbed, Reason, Settled, Checked, Writes, At
    <2> QED BY <2>1, <2>2
  <1> QED BY <1>1, <1>4, <1>7, <1>10, <1>11, StepOfOne

LEMMA SaverKeeps ==
  ASSUME GateInv, GateNext, NEW f \in Json, SaverReads(f) \/ SaverWrites(f)
  PROVE  GateInv'
  <1>1. UNCHANGED <<sandboxed, use, before, unlucky>>
    BY DEF SaverReads, SaverWrites
  <1>2. /\ saver \in [Json -> {NoText} \cup SUBSET Items] /\ saves \in [Json -> 0..MaxSaves]
        /\ json \in [Json -> {NoText} \cup TextStates] /\ MaxSaves \in Nat
    BY GateAssumption DEF GateInv, GateTypeOK
  <1>3. CASE SaverReads(f)
    <2>1. /\ UNCHANGED <<sandboxed, use, before, unlucky, json, saves, disturbed>>
          /\ saver' = [saver EXCEPT ![f] = IF json[f] = NoText THEN {} ELSE json[f].has]
          /\ saves[f] < MaxSaves
      BY <1>3 DEF SaverReads
    <2>2. (IF json[f] = NoText THEN {} ELSE json[f].has) \in SUBSET Items
      BY <1>2 DEF TextStates
    <2>3. GateTypeOK'
      BY <1>2, <2>1, <2>2 DEF GateInv, GateTypeOK
    <2>4. f = "script" => json[f] # NoText /\ json[f].has = 1..saves[f]
      <3>1. 1..saves["script"] \in SUBSET Items
        BY <1>2 DEF Items, Json
      <3>2. Text(TRUE, 1..saves["script"]) # NoText
            /\ Text(TRUE, 1..saves["script"]).has = 1..saves["script"]
        BY <3>1, TextFacts
      <3> QED BY <3>2 DEF GateInv, ServerKeeps
    <2>5. ServerKeeps'
      BY <1>2, <2>1, <2>4 DEF GateInv, ServerKeeps, Json
    <2>6. \A c \in ToolCalls : CallIsTrue(c)' /\ (Reason(c)' <=> Reason(c))
      BY <2>1 DEF GateInv, CallIsTrue, Reason, Settled, Checked, At, Writes, Patches, Undisturbed, Broken
    <2> QED BY <2>1, <2>3, <2>5, <2>6 DEF GateInv, Broken
  <1>4. CASE SaverWrites(f)
    <2>1. /\ saver[f] # NoText /\ saves' = [saves EXCEPT ![f] = saves[f] + 1]
          /\ saver' = [saver EXCEPT ![f] = NoText]
          /\ Lands(f, Text(TRUE, saver[f] \cup {saves'[f]}), "server")
      BY <1>4 DEF SaverWrites
    <2>2. /\ saves[f] < MaxSaves /\ saves'[f] = saves[f] + 1 /\ saves' \in [Json -> 0..MaxSaves]
          /\ saver[f] \cup {saves'[f]} \in SUBSET Items
      BY <1>2, <2>1 DEF GateInv, GateTypeOK, Items
    <2> DEFINE text == Text(TRUE, saver[f] \cup {saves'[f]})
    <2>3. text \in TextStates /\ text.whole = TRUE
      BY <2>2, TextFacts
    <2> HIDE DEF text
    <2>4. /\ json' = [json EXCEPT ![f] = text]
          /\ disturbed' = disturbed \cup (OpenOn(f) \ {"server"})
      BY <2>1 DEF Lands, text
    <2>5. GateTypeOK'
      BY <1>1, <1>2, <2>1, <2>2, <2>3, <2>4 DEF GateInv, GateTypeOK, OpenOn
    <2>6. ServerKeeps'
      <3>1. CASE f = "script"
        <4>1. saver[f] = 1..saves[f]
          BY <2>1, <3>1 DEF GateInv, ServerKeeps
        <4>2. saver[f] \cup {saves'[f]} = 1..saves'[f]
          BY <1>2, <2>2, <4>1
        <4> QED BY <1>2, <2>1, <2>4, <3>1, <4>2 DEF ServerKeeps, text
      <3>2. CASE f # "script"
        BY <1>2, <2>1, <2>4, <3>2 DEF GateInv, ServerKeeps, Json
      <3> QED BY <3>1, <3>2
    <2>7. ASSUME NEW c \in ToolCalls
          PROVE  CallIsTrue(c)'
      <3>1. CASE f = "ledger"
        <4>1. Writes(c) /\ At(c, {"running", "ran", "checked"}) => c \in disturbed'
          BY <2>4, <3>1, CallFacts, GateAssumption DEF OpenOn, At, Writes
        <4> QED BY <1>1, <4>1, SettledStays, OthersStay
      <3>2. CASE f # "ledger"
        BY <1>1, <1>2, <2>4, <3>2, SettledStays, OthersStay DEF Json
      <3> QED BY <3>1, <3>2
    <2>8. Broken' => f # "ledger" /\ Broken
      BY <1>2, <2>3, <2>4 DEF Broken, Json
    <2>9. \A c \in ToolCalls : Reason(c) => Reason(c)'
      BY <1>1, SettledStays DEF Reason, Writes, At
    <2> QED BY <2>5, <2>6, <2>7, <2>8, <2>9 DEF GateInv
  <1> QED BY <1>3, <1>4

LEMMA GateInvStep == GateInv /\ [GateNext]_gateVars => GateInv'
  <1> SUFFICES ASSUME GateInv, [GateNext]_gateVars PROVE GateInv'
    OBVIOUS
  <1>1. CASE UNCHANGED gateVars
    <2>1. UNCHANGED <<sandboxed, json, use, saver, saves, before, disturbed, unlucky>>
      BY <1>1 DEF gateVars
    <2>2. \A c \in ToolCalls : CallIsTrue(c)' /\ (Reason(c)' <=> Reason(c))
      BY <2>1 DEF GateInv, CallIsTrue, Reason, Settled, Checked, At, Writes, Patches, Undisturbed, Broken
    <2>3. GateTypeOK' /\ ServerKeeps'
      BY <2>1 DEF GateInv, GateTypeOK, ServerKeeps
    <2> QED BY <2>1, <2>2, <2>3 DEF GateInv, Broken
  <1>2. CASE GateNext
    BY <1>2, AskKeeps, WriteKeeps, CommandKeeps, QuietKeeps, PutBackKeeps, SaverKeeps
       DEF GateNext
  <1> QED BY <1>1, <1>2

\* session_manager's hooks, fence and sandbox: no tool call touches the JSON the
\* server keeps, a ledger left broken has one of the reasons named, and who is told
\* that a file was put back has it as it was: for any number of calls and saves that
\* cross in any way.
THEOREM JsonStaysKept == GateSpec => []JsonIsKept
  <1>1. ASSUME GateInv PROVE JsonIsKept
    <2>1. \A f \in Guarded : json[f] = Text(TRUE, 1..saves[f])
      BY <1>1 DEF GateInv, ServerKeeps, Guarded
    <2>2. ASSUME NEW f \in Json, json[f] # NoText, ~json[f].whole
          PROVE  \E c \in ToolCalls : AnswersFor(c, f)
      <3>1. f = "ledger"
        <4>1. 1..saves["script"] \in SUBSET Items
          BY <1>1, GateAssumption DEF GateInv, GateTypeOK, Items, Json
        <4>2. json["script"].whole
          BY <1>1, <4>1, TextFacts DEF GateInv, ServerKeeps
        <4> QED BY <2>2, <4>2 DEF Json
      <3>2. PICK c \in ToolCalls : Reason(c)
        BY <1>1, <2>2, <3>1 DEF GateInv, Broken
      <3>3. Writes(c) => use[c].asks.name.leads = "ledger"
        BY <1>1, CallFacts
      <3>4. AnswersFor(c, "ledger")
        BY <3>2, <3>3 DEF AnswersFor, Reason, Settled, At, Writes, Checked
      <3> QED BY <3>1, <3>4
    <2>3. \A c \in ToolCalls : use[c].verdict = "restored" => c \in disturbed \/ use[c].copy = before[c]
      BY <1>1 DEF GateInv, CallIsTrue
    <2> QED BY <2>1, <2>2, <2>3 DEF JsonIsKept
  <1> QED BY <1>1, GateInvInit, GateInvStep, PTL DEF GateSpec

-----------------------------------------------------------------------------
(* ProjectChannel: who follows the files of a project, for any number of   *)
(* browsers, channels and batch tasks. A channel somebody is on is         *)
(* watched, and one whose watch is being cancelled has a stream about to   *)
(* free its name (ChannelsLive); what a subscriber has waiting ends with   *)
(* the channel's snapshot, or one it came from unseen, and what it was     *)
(* told is that or nothing (Hears).                                        *)

Following == {"joining", "live"}
WatchStates == {"none", "scanning", "waiting", "cancelled", "done"}
StreamStates == {"away", "joining", "live", "leaving", "gone"}

LoopTypes ==
    /\ files \in Versions /\ channel \in 0..MaxChannels /\ opened \in 0..MaxChannels
    /\ channel <= opened
    /\ subscribers \in [Channels -> SUBSET Subscribers] /\ watch \in [Channels -> WatchStates]
    /\ reading \in [Channels -> {0} \cup Versions] /\ snapshotOf \in [Channels -> {0} \cup Versions]
    /\ batches \in Seq(Channels \X ({0} \cup Versions))
StreamTypes ==
    /\ at \in [Subscribers -> StreamStates] /\ chan \in [Subscribers -> 0..MaxChannels]
    /\ told \in [Subscribers -> {0} \cup Versions] /\ inbox \in [Subscribers -> Seq(Versions)]
    /\ dropped \in SUBSET Subscribers

\* A channel that somebody is on is watched; one whose watch is being cancelled
\* has somebody who is about to free its name.
ChannelsLive ==
    /\ \A k \in Channels : k > opened => watch[k] = "none"
    /\ ~orphaned =>
         /\ \A k \in Channels : subscribers[k] # {} => Alive(k)
         /\ channel # 0 /\ watch[channel] = "cancelled" =>
              \E o \in Subscribers : at[o] = "leaving" /\ chan[o] = channel

\* What a subscriber has waiting ends with the snapshot, or with what it came
\* from unseen; what it was told is that or nothing.
Hears(s) ==
    /\ inbox[s] # <<>> => BecameUnseen(inbox[s][Len(inbox[s])], snapshotOf[chan[s]])
    /\ at[s] = "live" /\ inbox[s] = <<>> /\ told[s] # 0 =>
          BecameUnseen(told[s], snapshotOf[chan[s]])

Follows(s) ==
    /\ at[s] = "away" => inbox[s] = <<>> /\ \A k \in Channels : s \notin subscribers[k]
    /\ at[s] \in Following =>
         /\ chan[s] \in Channels /\ (s \in dropped \/ s \in subscribers[chan[s]])
         /\ \A k \in Channels : s \in subscribers[k] => k = chan[s]
         /\ s \in subscribers[chan[s]] => Hears(s)

ChannelInv ==
    /\ LoopTypes /\ StreamTypes /\ ChannelsLive
    /\ \A s \in Subscribers : Follows(s)

LEMMA UnseenChains ==
  /\ \A v : BecameUnseen(v, v)
  /\ \A v, a, b \in Versions :
        BecameUnseen(v, a) /\ <<a, b>> \in Undiffed => BecameUnseen(v, b)
  /\ \A v \in Versions : \A w : BecameUnseen(v, w) => w \in Versions
  <1>1. \A v : BecameUnseen(v, v)
    BY DEF BecameUnseen
  <1>2. ASSUME NEW v \in Versions, NEW a \in Versions, NEW b \in Versions,
               BecameUnseen(v, a), <<a, b>> \in Undiffed
        PROVE  BecameUnseen(v, b)
    <2> SUFFICES ASSUME NEW S \in SUBSET Versions, v \in S, Closed(S) PROVE b \in S
      BY DEF BecameUnseen
    <2>1. a \in S
      BY <1>2 DEF BecameUnseen
    <2> QED BY <2>1, <1>2 DEF Closed
  <1>3. ASSUME NEW v \in Versions, NEW w, BecameUnseen(v, w) PROVE w \in Versions
    <2>1. Versions \in SUBSET Versions /\ Closed(Versions)
      BY DEF Closed
    <2> QED BY <2>1, <1>3 DEF BecameUnseen
  <1> QED BY <1>1, <1>2, <1>3

LEMMA ChannelInvInit == ChannelInit => ChannelInv
  <1> SUFFICES ASSUME ChannelInit PROVE ChannelInv
    OBVIOUS
  <1>1. 1 \in Versions /\ 0 \in 0..MaxChannels /\ MaxChannels \in Nat
    BY ChannelAssumption DEF Versions
  <1>2. LoopTypes
    BY <1>1 DEF ChannelInit, LoopTypes, WatchStates
  <1>3. StreamTypes
    BY <1>1 DEF ChannelInit, StreamTypes, StreamStates
  <1>4. ChannelsLive
    BY DEF ChannelInit, ChannelsLive, Alive
  <1>5. \A s \in Subscribers : Follows(s)
    BY DEF ChannelInit, Follows, Following
  <1> QED BY <1>2, <1>3, <1>4, <1>5 DEF ChannelInv

\* A subscriber nothing has happened to.
LEMMA FollowsStays ==
  ASSUME NEW s \in Subscribers, Follows(s), at'[s] = at[s], chan'[s] = chan[s],
         inbox'[s] = inbox[s], told'[s] = told[s], dropped \subseteq dropped',
         \A k \in Channels : (s \in subscribers'[k]) <=> (s \in subscribers[k]),
         at[s] \in Following => snapshotOf'[chan[s]] = snapshotOf[chan[s]]
  PROVE  Follows(s)'
  BY DEF Follows, Hears, Following

\* The tasks that leave the subscribers alone.
LEMMA WatchKeeps ==
  ASSUME ChannelInv,
         channel' = channel, opened' = opened, subscribers' = subscribers,
         snapshotOf' = snapshotOf, at' = at, chan' = chan, inbox' = inbox, told' = told,
         dropped' = dropped, orphaned' = orphaned,
         LoopTypes',
         \A k \in Channels :
            \/ watch'[k] = watch[k]
            \/ Alive(k) /\ watch'[k] \in {"scanning", "waiting"}
            \/ /\ watch[k] \in {"waiting", "cancelled"} /\ watch'[k] = "done"
               /\ orphaned \/ subscribers[k] = {}
  PROVE  ChannelInv'
  <1>1. \A k \in Channels : k > opened => watch'[k] = "none"
    BY DEF ChannelInv, ChannelsLive, Alive
  <1>2. ~orphaned => \A k \in Channels : subscribers[k] # {} => Alive(k)'
    BY DEF ChannelInv, ChannelsLive, Alive
  <1>3. channel # 0 => channel \in Channels
    BY DEF ChannelInv, LoopTypes, Channels
  <1>4. ~orphaned /\ channel # 0 /\ watch'[channel] = "cancelled" =>
           \E o \in Subscribers : at[o] = "leaving" /\ chan[o] = channel
    BY <1>3 DEF ChannelInv, ChannelsLive, Alive
  <1>5. ChannelsLive'
    BY <1>1, <1>2, <1>4 DEF ChannelsLive
  <1>6. StreamTypes'
    BY DEF ChannelInv, StreamTypes
  <1>7. \A s \in Subscribers : Follows(s)'
    BY DEF ChannelInv, Follows, Hears
  <1> QED BY <1>5, <1>6, <1>7 DEF ChannelInv

LEMMA VersionsOfFiles == Versions \subseteq Nat /\ 0 \notin Versions
  BY ChannelAssumption DEF Versions

LEMMA QuietChannel ==
  ASSUME ChannelInv,
         \/ ChangeFiles \/ EmitBatch
         \/ \E k \in Channels : ReadFiles(k) \/ ScanFails(k) \/ WakeWatch(k) \/ EndWatch(k)
         \/ \E i \in 1..Len(batches) : ReadBatch(i)
  PROVE  ChannelInv'
  <1> USE VersionsOfFiles
  <1>t. LoopTypes /\ StreamTypes
    BY DEF ChannelInv
  <1>1. CASE ChangeFiles
    <2>1. files' \in Versions
      BY <1>1, <1>t, ChannelAssumption DEF ChangeFiles, LoopTypes, Versions
    <2>2. LoopTypes'
      BY <1>1, <1>t, <2>1 DEF ChangeFiles, LoopTypes, loopVars, batchTasks
    <2> QED BY <1>1, <2>2, WatchKeeps DEF ChangeFiles, loopVars, streams
  <1>2. CASE EmitBatch
    <2>1. channel \in Channels
      BY <1>2, <1>t DEF EmitBatch, LoopTypes, Channels
    <2>2. batches' \in Seq(Channels \X ({0} \cup Versions))
      BY <1>2, <1>t, <2>1 DEF EmitBatch, LoopTypes
    <2>3. LoopTypes'
      BY <1>2, <1>t, <2>2 DEF EmitBatch, LoopTypes, loopVars
    <2> QED BY <1>2, <2>3, WatchKeeps DEF EmitBatch, loopVars, streams
  <1>3. ASSUME NEW i \in 1..Len(batches), ReadBatch(i) PROVE ChannelInv'
    <2> DEFINE read == [batches[i] EXCEPT ![2] = files]
    <2>a. batches[i] \in Channels \X ({0} \cup Versions) /\ files \in Versions
      BY <1>t DEF LoopTypes
    <2>b. read \in Channels \X ({0} \cup Versions)
      BY <2>a
    <2>c. batches' = [batches EXCEPT ![i] = read]
      BY <1>3 DEF ReadBatch
    <2> HIDE DEF read
    <2>1. batches' \in Seq(Channels \X ({0} \cup Versions))
      BY <2>b, <2>c, <1>t DEF LoopTypes
    <2>3. LoopTypes'
      BY <1>3, <1>t, <2>1 DEF ReadBatch, LoopTypes, loopVars
    <2> QED BY <1>3, <2>3, WatchKeeps DEF ReadBatch, loopVars, streams
  <1>4. ASSUME NEW k \in Channels, ReadFiles(k) PROVE ChannelInv'
    <2>3. LoopTypes'
      BY <1>4, <1>t DEF ReadFiles, LoopTypes, batchTasks
    <2> QED BY <1>4, <2>3, WatchKeeps DEF ReadFiles, batchTasks, streams
  <1>5. ASSUME NEW k \in Channels, ScanFails(k) PROVE ChannelInv'
    <2>3. LoopTypes'
      BY <1>5, <1>t DEF ScanFails, LoopTypes, batchTasks, WatchStates
    <2>4. \A j \in Channels : watch'[j] = watch[j] \/ (Alive(j) /\ watch'[j] \in {"scanning", "waiting"})
      BY <1>5, <1>t DEF ScanFails, LoopTypes, Alive
    <2> QED BY <1>5, <2>3, <2>4, WatchKeeps DEF ScanFails, batchTasks, streams
  <1>6. ASSUME NEW k \in Channels, WakeWatch(k) PROVE ChannelInv'
    <2>3. LoopTypes'
      BY <1>6, <1>t DEF WakeWatch, LoopTypes, batchTasks, WatchStates
    <2>4. \A j \in Channels :
            \/ watch'[j] = watch[j]
            \/ Alive(j) /\ watch'[j] \in {"scanning", "waiting"}
            \/ watch[j] = "waiting" /\ watch'[j] = "done" /\ subscribers[j] = {}
      BY <1>6, <1>t DEF WakeWatch, LoopTypes, Alive
    <2> QED BY <1>6, <2>3, <2>4, WatchKeeps DEF WakeWatch, batchTasks, streams
  <1>7. ASSUME NEW k \in Channels, EndWatch(k) PROVE ChannelInv'
    <2>3. LoopTypes'
      BY <1>7, <1>t DEF EndWatch, LoopTypes, batchTasks, WatchStates
    <2>4. orphaned \/ subscribers[k] = {}
      BY <1>7 DEF EndWatch, ChannelInv, ChannelsLive, Alive
    <2>5. \A j \in Channels :
            \/ watch'[j] = watch[j]
            \/ watch[j] = "cancelled" /\ watch'[j] = "done" /\ (orphaned \/ subscribers[j] = {})
      BY <1>7, <1>t, <2>4 DEF EndWatch, LoopTypes
    <2> QED BY <1>7, <2>3, <2>5, WatchKeeps DEF EndWatch, batchTasks, streams
  <1> QED BY <1>1, <1>2, <1>3, <1>4, <1>5, <1>6, <1>7

\* What a broadcast does to the subscribers of its channel, and to the others.
LEMMA WhatABroadcastDoes ==
  ASSUME LoopTypes, StreamTypes, NEW k \in Channels, NEW v \in Versions, Broadcast(k, v)
  PROVE  /\ snapshotOf' \in [Channels -> {0} \cup Versions] /\ dropped' \in SUBSET Subscribers
         /\ subscribers' \in [Channels -> SUBSET Subscribers]
         /\ inbox' \in [Subscribers -> Seq(Versions)]
         /\ snapshotOf'[k] = v /\ dropped \subseteq dropped'
         /\ \A j \in Channels \ {k} : subscribers'[j] = subscribers[j] /\ snapshotOf'[j] = snapshotOf[j]
         /\ subscribers'[k] \subseteq subscribers[k]
         /\ \A s \in subscribers[k] : s \in dropped' \/ s \in subscribers'[k]
         /\ \A s \in subscribers'[k] : inbox'[s] # <<>> /\ inbox'[s][Len(inbox'[s])] = v
         /\ \A s \in Subscribers \ subscribers[k] : inbox'[s] = inbox[s]
  <1> DEFINE full == {s \in subscribers[k] : Len(inbox[s]) = QueueCap}
  <1>1. /\ snapshotOf' = [snapshotOf EXCEPT ![k] = v]
        /\ subscribers' = [subscribers EXCEPT ![k] = @ \ full]
        /\ dropped' = dropped \cup full
        /\ inbox' = [s \in Subscribers |->
                       IF s \in subscribers[k] \ full THEN Append(inbox[s], v) ELSE inbox[s]]
    BY DEF Broadcast
  <1>2. full \subseteq subscribers[k] /\ subscribers[k] \subseteq Subscribers
    BY DEF LoopTypes
  <1> HIDE DEF full
  <1>3. \A s \in Subscribers : inbox[s] \in Seq(Versions)
    BY DEF StreamTypes
  <1>4. \A s \in Subscribers :
           /\ Append(inbox[s], v) \in Seq(Versions) /\ Append(inbox[s], v) # <<>>
           /\ Append(inbox[s], v)[Len(Append(inbox[s], v))] = v
    <2> TAKE s \in Subscribers
    <2>1. inbox[s] \in Seq(Versions)
      BY <1>3
    <2> DEFINE q == inbox[s]
    <2> HIDE DEF q
    <2>2. q \in Seq(Versions)
      BY <2>1 DEF q
    <2>3. /\ Append(q, v) \in Seq(Versions) /\ Append(q, v) # <<>>
          /\ Append(q, v)[Len(Append(q, v))] = v
      BY <2>2, AppendProperties, LenProperties
    <2> QED BY <2>3 DEF q
  <1>5. inbox' \in [Subscribers -> Seq(Versions)]
    BY <1>1, <1>3, <1>4
  <1>6. /\ snapshotOf' \in [Channels -> {0} \cup Versions] /\ snapshotOf'[k] = v
        /\ \A j \in Channels \ {k} : snapshotOf'[j] = snapshotOf[j]
    BY <1>1 DEF LoopTypes
  <1>7. /\ subscribers' \in [Channels -> SUBSET Subscribers]
        /\ \A j \in Channels \ {k} : subscribers'[j] = subscribers[j]
        /\ subscribers'[k] = subscribers[k] \ full
    BY <1>1, <1>2 DEF LoopTypes
  <1>8. dropped' \in SUBSET Subscribers /\ dropped \subseteq dropped'
    BY <1>1, <1>2 DEF StreamTypes
  <1>9. \A s \in subscribers'[k] : inbox'[s] # <<>> /\ inbox'[s][Len(inbox'[s])] = v
    BY <1>1, <1>2, <1>4, <1>7
  <1>10. \A s \in Subscribers \ subscribers[k] : inbox'[s] = inbox[s]
    BY <1>1
  <1> QED BY <1>1, <1>5, <1>6, <1>7, <1>8, <1>9, <1>10

LEMMA BroadcastKeeps ==
  ASSUME ChannelInv, NEW k \in Channels, NEW v \in Versions, Broadcast(k, v),
         files' = files, channel' = channel, opened' = opened, at' = at, chan' = chan,
         told' = told, orphaned' = orphaned,
         watch' \in [Channels -> WatchStates], reading' \in [Channels -> {0} \cup Versions],
         batches' \in Seq(Channels \X ({0} \cup Versions)),
         \A j \in Channels : \/ watch'[j] = watch[j]
                             \/ Alive(j) /\ watch'[j] \in {"scanning", "waiting"}
  PROVE  ChannelInv'
  <1>t. LoopTypes /\ StreamTypes
    BY DEF ChannelInv
  <1>b. /\ snapshotOf' \in [Channels -> {0} \cup Versions] /\ dropped' \in SUBSET Subscribers
        /\ subscribers' \in [Channels -> SUBSET Subscribers]
        /\ inbox' \in [Subscribers -> Seq(Versions)]
        /\ snapshotOf'[k] = v /\ dropped \subseteq dropped'
        /\ \A j \in Channels \ {k} : subscribers'[j] = subscribers[j] /\ snapshotOf'[j] = snapshotOf[j]
        /\ subscribers'[k] \subseteq subscribers[k]
        /\ \A s \in subscribers[k] : s \in dropped' \/ s \in subscribers'[k]
        /\ \A s \in subscribers'[k] : inbox'[s] # <<>> /\ inbox'[s][Len(inbox'[s])] = v
        /\ \A s \in Subscribers \ subscribers[k] : inbox'[s] = inbox[s]
    BY <1>t, WhatABroadcastDoes
  <1>1. LoopTypes'
    BY <1>t, <1>b DEF LoopTypes
  <1>2. StreamTypes'
    BY <1>t, <1>b DEF StreamTypes
  <1>c. \A j \in Channels : subscribers'[j] \subseteq subscribers[j]
    BY <1>b
  <1>3. \A j \in Channels : j > opened => watch'[j] = "none"
    BY DEF ChannelInv, ChannelsLive, Alive
  <1>4. ~orphaned => \A j \in Channels : subscribers'[j] # {} => Alive(j)'
    <2> SUFFICES ASSUME ~orphaned, NEW j \in Channels, subscribers'[j] # {} PROVE Alive(j)'
      OBVIOUS
    <2>1. subscribers[j] # {}
      BY <1>c
    <2> QED BY <2>1 DEF ChannelInv, ChannelsLive, Alive
  <1>5. channel # 0 => channel \in Channels
    BY <1>t DEF LoopTypes, Channels
  <1>6. ~orphaned /\ channel # 0 /\ watch'[channel] = "cancelled" =>
           \E o \in Subscribers : at[o] = "leaving" /\ chan[o] = channel
    BY <1>5 DEF ChannelInv, ChannelsLive, Alive
  <1>7. ChannelsLive'
    BY <1>3, <1>4, <1>6 DEF ChannelsLive
  <1>8. ASSUME NEW s \in Subscribers PROVE Follows(s)'
    <2>f. Follows(s)
      BY DEF ChannelInv
    <2>1. at[s] = "away" => inbox'[s] = <<>> /\ \A j \in Channels : s \notin subscribers'[j]
      BY <2>f, <1>b, <1>c DEF Follows
    <2>2. ASSUME at[s] \in Following
          PROVE  /\ chan[s] \in Channels /\ (s \in dropped' \/ s \in subscribers'[chan[s]])
                 /\ \A j \in Channels : s \in subscribers'[j] => j = chan[s]
      BY <2>2, <2>f, <1>b, <1>c DEF Follows
    <2>3. ASSUME at[s] \in Following, s \in subscribers'[chan[s]]
          PROVE  Hears(s)'
      <3>1. s \in subscribers[chan[s]] /\ Hears(s) /\ chan[s] \in Channels
        BY <2>2, <2>3, <2>f, <1>c DEF Follows
      <3>2. CASE chan[s] = k
        BY <3>2, <2>3, <1>b, UnseenChains DEF Hears
      <3>3. CASE chan[s] # k
        <4>1. s \notin subscribers[k]
          BY <2>f, <2>3, <3>3 DEF Follows
        <4>2. inbox'[s] = inbox[s] /\ snapshotOf'[chan[s]] = snapshotOf[chan[s]]
          BY <4>1, <3>1, <3>3, <1>b
        <4> QED BY <4>2, <3>1 DEF Hears
      <3> QED BY <3>2, <3>3
    <2> QED BY <2>1, <2>2, <2>3 DEF Follows
  <1> QED BY <1>1, <1>2, <1>7, <1>8 DEF ChannelInv

\* EndBatch and ApplyScan.
LEMMA EndBatchStep ==
  ASSUME ChannelInv, NEW i \in 1..Len(batches), EndBatch(i)
  PROVE  ChannelInv'
  <1>t. LoopTypes /\ StreamTypes
    BY DEF ChannelInv
  <1> DEFINE Entry == Channels \X ({0} \cup Versions)
  <1>1. batches \in Seq(Entry) /\ batches[i] \in Entry
    BY <1>t DEF LoopTypes
  <1>2. batches[i][1] \in Channels /\ batches[i][2] \in Versions
    BY <1>1 DEF EndBatch
  <1>3. \A j \in 1..Len(batches) : batches[j] \in Entry
    BY <1>1
  <1> HIDE DEF Entry
  <1>4. Len(batches) \in Nat
    BY <1>1, LenProperties
  <1>5. \A j \in 1..(i - 1) : batches[j] \in Entry
    BY <1>3, <1>4
  <1>6. \A j \in (i + 1)..Len(batches) : batches[j] \in Entry
    BY <1>3, <1>4
  <1>7. SubSeq(batches, 1, i - 1) \in Seq(Entry)
    BY <1>4, <1>5, SubSeqProperties
  <1>8. SubSeq(batches, i + 1, Len(batches)) \in Seq(Entry)
    BY <1>4, <1>6, SubSeqProperties
  <1>9. batches' \in Seq(Entry)
    BY <1>7, <1>8, ConcatProperties DEF EndBatch
  <1>10. batches' \in Seq(Channels \X ({0} \cup Versions))
    BY <1>9 DEF Entry
  <1>11. /\ Broadcast(batches[i][1], batches[i][2])
         /\ files' = files /\ channel' = channel /\ opened' = opened /\ at' = at /\ chan' = chan
         /\ told' = told /\ orphaned' = orphaned /\ watch' = watch /\ reading' = reading
    BY DEF EndBatch
  <1>12. watch' \in [Channels -> WatchStates] /\ reading' \in [Channels -> {0} \cup Versions]
    BY <1>11, <1>t DEF LoopTypes
  <1> QED BY <1>2, <1>10, <1>11, <1>12, BroadcastKeeps

LEMMA ApplyScanStep ==
  ASSUME ChannelInv, NEW k \in Channels, ApplyScan(k)
  PROVE  ChannelInv'
  <1>t. LoopTypes /\ StreamTypes
    BY DEF ChannelInv
  <1>1. reading[k] \in Versions /\ Alive(k)
    BY <1>t DEF ApplyScan, LoopTypes, Alive
  <1>2. /\ watch' \in [Channels -> WatchStates] /\ reading' \in [Channels -> {0} \cup Versions]
        /\ batches' \in Seq(Channels \X ({0} \cup Versions))
    BY <1>t DEF ApplyScan, LoopTypes, WatchStates, batchTasks
  <1>3. \A j \in Channels : watch'[j] = watch[j] \/ (Alive(j) /\ watch'[j] \in {"scanning", "waiting"})
    BY <1>1, <1>t DEF ApplyScan, LoopTypes
  <1>4. /\ files' = files /\ channel' = channel /\ opened' = opened /\ at' = at /\ chan' = chan
        /\ told' = told /\ orphaned' = orphaned
    BY DEF ApplyScan
  <1> DEFINE quiet == snapshotOf[k] \in {0, reading[k]} \/ <<snapshotOf[k], reading[k]>> \in Undiffed
  <1>5. CASE ~quiet
    <2>1. Broadcast(k, reading[k])
      BY <1>5 DEF ApplyScan
    <2> QED BY <2>1, <1>1, <1>2, <1>3, <1>4, BroadcastKeeps
  <1>6. CASE quiet
    <2>1. /\ snapshotOf' = [snapshotOf EXCEPT ![k] = reading[k]]
          /\ inbox' = inbox /\ dropped' = dropped /\ subscribers' = subscribers
      BY <1>6 DEF ApplyScan
    <2>2. LoopTypes'
      BY <1>t, <1>1, <1>2, <1>4, <2>1 DEF LoopTypes
    <2>3. StreamTypes'
      BY <1>t, <1>4, <2>1 DEF StreamTypes
    <2>4. \A j \in Channels : j > opened => watch'[j] = "none"
      BY <1>3 DEF ChannelInv, ChannelsLive, Alive
    <2>5. ~orphaned => \A j \in Channels : subscribers[j] # {} => Alive(j)'
      BY <1>3 DEF ChannelInv, ChannelsLive, Alive
    <2>6. channel # 0 => channel \in Channels
      BY <1>t DEF LoopTypes, Channels
    <2>7. ~orphaned /\ channel # 0 /\ watch'[channel] = "cancelled" =>
             \E o \in Subscribers : at[o] = "leaving" /\ chan[o] = channel
      BY <1>3, <2>6 DEF ChannelInv, ChannelsLive, Alive
    <2>8. ChannelsLive'
      BY <2>4, <2>5, <2>7, <2>1, <1>4 DEF ChannelsLive
    <2>9. ASSUME NEW s \in Subscribers PROVE Follows(s)'
      <3>1. Follows(s) /\ inbox[s] \in Seq(Versions)
        BY <1>t DEF ChannelInv, StreamTypes
      <3>2. at[s] \in Following /\ Hears(s) => Hears(s)'
        <4> SUFFICES ASSUME at[s] \in Following, Hears(s) PROVE Hears(s)'
          OBVIOUS
        <4>1. chan[s] \in Channels
          BY <3>1 DEF Follows
        <4>2. snapshotOf[chan[s]] \in {0} \cup Versions /\ snapshotOf'[chan[s]] \in {0} \cup Versions
          BY <2>2, <1>t, <4>1 DEF LoopTypes
        <4>3. ASSUME NEW v \in Versions, BecameUnseen(v, snapshotOf[chan[s]])
              PROVE  BecameUnseen(v, snapshotOf'[chan[s]])
          <5>1. snapshotOf[chan[s]] \in Versions
            BY <4>3, UnseenChains
          <5>2. CASE chan[s] # k
            BY <5>2, <4>3, <2>1, <1>t DEF LoopTypes
          <5>3. CASE chan[s] = k
            <6>1. snapshotOf'[k] = reading[k]
              BY <2>1, <1>t DEF LoopTypes
            <6>2. snapshotOf[k] # 0
              BY <5>1, <5>3, VersionsOfFiles
            <6>3. snapshotOf[k] = reading[k] \/ <<snapshotOf[k], reading[k]>> \in Undiffed
              BY <6>2, <1>6
            <6> QED BY <6>1, <6>3, <5>1, <5>3, <4>3, <1>1, UnseenChains
          <5> QED BY <5>2, <5>3
        <4>4. inbox[s] # <<>> => inbox[s][Len(inbox[s])] \in Versions
          BY <3>1, LenProperties
        <4>5. told[s] \in {0} \cup Versions
          BY <1>t DEF StreamTypes
        <4>6. inbox[s] # <<>> => BecameUnseen(inbox[s][Len(inbox[s])], snapshotOf'[chan[s]])
          BY <4>3, <4>4 DEF Hears
        <4>7. at[s] = "live" /\ inbox[s] = <<>> /\ told[s] # 0 => BecameUnseen(told[s], snapshotOf'[chan[s]])
          BY <4>3, <4>5 DEF Hears
        <4>8. Hears(s)' <=> /\ inbox[s] # <<>> => BecameUnseen(inbox[s][Len(inbox[s])], snapshotOf'[chan[s]])
                            /\ at[s] = "live" /\ inbox[s] = <<>> /\ told[s] # 0 =>
                                  BecameUnseen(told[s], snapshotOf'[chan[s]])
          BY <2>1, <1>4 DEF Hears, BecameUnseen
        <4> QED BY <4>6, <4>7, <4>8
      <3> QED BY <3>1, <3>2, <2>1, <1>4 DEF Follows
    <2> QED BY <2>2, <2>3, <2>8, <2>9 DEF ChannelInv
  <1> QED BY <1>5, <1>6

\* What is left to show when a stream moves.
LEMMA OthersFollow ==
  ASSUME ChannelInv, NEW s \in Subscribers, Follows(s)',
         snapshotOf' = snapshotOf, dropped' = dropped,
         \A r \in Subscribers \ {s} :
            /\ at'[r] = at[r] /\ chan'[r] = chan[r] /\ inbox'[r] = inbox[r] /\ told'[r] = told[r]
            /\ \A k \in Channels : (r \in subscribers'[k]) <=> (r \in subscribers[k])
  PROVE  \A r \in Subscribers : Follows(r)'
  BY FollowsStays DEF ChannelInv

\* One more subscriber; a channel whose watch has ended is watched again.
LEMMA JoinStep ==
  ASSUME ChannelInv, NEW s \in Subscribers, Join(s)
  PROVE  ChannelInv'
  <1>t. LoopTypes /\ StreamTypes
    BY DEF ChannelInv
  <1> DEFINE fresh == channel = 0
             k == IF fresh THEN opened + 1 ELSE channel
             start == NeedsWatch(k)
  <1>1. /\ at[s] = "away" /\ k \in Channels
        /\ channel' = k /\ opened' = IF fresh THEN k ELSE opened
        /\ subscribers' = [subscribers EXCEPT ![k] = @ \cup {s}]
        /\ watch' = [watch EXCEPT ![k] = IF start THEN "scanning" ELSE @]
        /\ chan' = [chan EXCEPT ![s] = k] /\ at' = [at EXCEPT ![s] = "joining"]
        /\ orphaned' = (orphaned \/ \E o \in Subscribers : at[o] = "leaving" /\ chan[o] = k)
    BY DEF Join
  <1>u. start <=> watch[k] \in {"none", "done"}
    BY DEF NeedsWatch
  <1>2. /\ files' = files /\ reading' = reading /\ snapshotOf' = snapshotOf /\ batches' = batches
        /\ inbox' = inbox /\ told' = told /\ dropped' = dropped
    BY DEF Join, batchTasks
  <1>3. k \in Nat /\ opened \in Nat /\ channel \in Nat /\ MaxChannels \in Nat /\ k <= MaxChannels
    BY <1>1, <1>t, ChannelAssumption DEF Channels, LoopTypes
  <1>4. fresh => k = opened + 1 /\ k > opened
    BY <1>3
  <1>5. ~fresh => k = channel
    OBVIOUS
  <1>6. fresh => watch[k] = "none"
    BY <1>1, <1>4 DEF ChannelInv, ChannelsLive
  <1> HIDE DEF k
  <1>7. /\ subscribers' \in [Channels -> SUBSET Subscribers] /\ watch' \in [Channels -> WatchStates]
        /\ chan' \in [Subscribers -> 0..MaxChannels] /\ at' \in [Subscribers -> StreamStates]
    BY <1>1, <1>3, <1>t DEF LoopTypes, StreamTypes, WatchStates, StreamStates, Channels
  <1>8. channel' \in 0..MaxChannels /\ opened' \in 0..MaxChannels /\ channel' <= opened'
    BY <1>1, <1>3, <1>4, <1>5, <1>t DEF LoopTypes
  <1>9. LoopTypes'
    BY <1>2, <1>7, <1>8, <1>t DEF LoopTypes
  <1>10. StreamTypes'
    BY <1>2, <1>7, <1>t DEF StreamTypes
  <1>11. \A j \in Channels : j > opened' => watch'[j] = "none"
    <2> SUFFICES ASSUME NEW j \in Channels, j > opened' PROVE watch'[j] = "none"
      OBVIOUS
    <2>1. j > opened /\ j # k
      BY <1>1, <1>3, <1>4, <1>5, <1>t DEF LoopTypes, Channels
    <2>2. watch'[j] = watch[j]
      BY <2>1, <1>1, <1>t DEF LoopTypes
    <2> QED BY <2>1, <2>2 DEF ChannelInv, ChannelsLive
  <1>12. ASSUME ~orphaned' PROVE ~orphaned /\ watch'[k] \in {"scanning", "waiting"}
    <2>1. ~orphaned /\ \A o \in Subscribers : ~(at[o] = "leaving" /\ chan[o] = k)
      BY <1>1, <1>12
    <2>2. watch[k] # "cancelled"
      <3>1. CASE fresh
        BY <3>1, <1>6
      <3>2. CASE ~fresh
        BY <3>2, <2>1, <1>5 DEF ChannelInv, ChannelsLive
      <3> QED BY <3>1, <3>2
    <2>3. watch[k] \in WatchStates /\ watch'[k] = IF start THEN "scanning" ELSE watch[k]
      BY <1>1, <1>t DEF LoopTypes
    <2> QED BY <2>1, <2>2, <2>3, <1>u DEF WatchStates
  <1>13. ~orphaned' => \A j \in Channels : subscribers'[j] # {} => Alive(j)'
    <2> SUFFICES ASSUME ~orphaned', NEW j \in Channels, subscribers'[j] # {} PROVE Alive(j)'
      OBVIOUS
    <2>1. CASE j = k
      BY <2>1, <1>12 DEF Alive
    <2>2. CASE j # k
      <3>1. subscribers'[j] = subscribers[j] /\ watch'[j] = watch[j]
        BY <2>2, <1>1, <1>t DEF LoopTypes
      <3> QED BY <3>1, <1>12 DEF ChannelInv, ChannelsLive, Alive
    <2> QED BY <2>1, <2>2
  <1>14. ChannelsLive'
    BY <1>1, <1>11, <1>12, <1>13 DEF ChannelsLive
  <1>15. Follows(s)'
    <2>1. at'[s] = "joining" /\ chan'[s] = k /\ s \in subscribers'[k]
      BY <1>1, <1>t DEF LoopTypes, StreamTypes
    <2>2. inbox[s] = <<>> /\ \A j \in Channels : s \notin subscribers[j]
      BY <1>1 DEF ChannelInv, Follows
    <2>3. \A j \in Channels : s \in subscribers'[j] => j = k
      BY <2>2, <1>1, <1>t DEF LoopTypes
    <2> QED BY <2>1, <2>2, <2>3, <1>1, <1>2 DEF Follows, Hears
  <1>16. \A r \in Subscribers \ {s} :
            /\ at'[r] = at[r] /\ chan'[r] = chan[r]
            /\ \A j \in Channels : (r \in subscribers'[j]) <=> (r \in subscribers[j])
    BY <1>1, <1>t DEF LoopTypes, StreamTypes
  <1>17. \A r \in Subscribers : Follows(r)'
    BY <1>2, <1>15, <1>16, OthersFollow
  <1> QED BY <1>9, <1>10, <1>14, <1>17 DEF ChannelInv

\* One fewer: BreakOff from the channel it was on, Leave from the one registered.
LEMMA Parts ==
  ASSUME ChannelInv, NEW s \in Subscribers, NEW k \in Channels,
         NEW end \in {"leaving", "gone"}, at[s] \in Following,
         subscribers' = [subscribers EXCEPT ![k] = @ \ {s}],
         watch' = [watch EXCEPT ![k] = IF subscribers[k] \ {s} = {} /\ Alive(k) THEN "cancelled" ELSE @],
         inbox' = [inbox EXCEPT ![s] = <<>>], at' = [at EXCEPT ![s] = end],
         chan' = [chan EXCEPT ![s] = k],
         channel' \in {0, channel},
         channel' = k /\ subscribers[k] \ {s} = {} => end = "leaving",
         files' = files, opened' = opened, reading' = reading, snapshotOf' = snapshotOf,
         batches' = batches, told' = told, dropped' = dropped, orphaned' = orphaned
  PROVE  ChannelInv'
  <1>t. LoopTypes /\ StreamTypes
    BY DEF ChannelInv
  <1>1. k \in 0..MaxChannels /\ MaxChannels \in Nat
    BY ChannelAssumption DEF Channels
  <1>2. /\ subscribers' \in [Channels -> SUBSET Subscribers] /\ watch' \in [Channels -> WatchStates]
        /\ \A j \in Channels \ {k} : subscribers'[j] = subscribers[j] /\ watch'[j] = watch[j]
        /\ subscribers'[k] = subscribers[k] \ {s}
        /\ watch'[k] = IF subscribers[k] \ {s} = {} /\ Alive(k) THEN "cancelled" ELSE watch[k]
    BY <1>t DEF LoopTypes, WatchStates
  <1>3. channel' \in 0..MaxChannels /\ channel' <= opened'
    BY <1>1, <1>t DEF LoopTypes
  <1>4. LoopTypes'
    BY <1>2, <1>3, <1>t DEF LoopTypes
  <1>5. /\ inbox' \in [Subscribers -> Seq(Versions)] /\ at' \in [Subscribers -> StreamStates]
        /\ chan' \in [Subscribers -> 0..MaxChannels]
    BY <1>1, <1>t DEF StreamTypes, StreamStates
  <1>6. StreamTypes'
    BY <1>5, <1>t DEF StreamTypes
  <1>7. \A j \in Channels : j > opened' => watch'[j] = "none"
    BY <1>2 DEF ChannelInv, ChannelsLive, Alive
  <1>8. ~orphaned' => \A j \in Channels : subscribers'[j] # {} => Alive(j)'
    <2> SUFFICES ASSUME ~orphaned, NEW j \in Channels, subscribers'[j] # {} PROVE Alive(j)'
      OBVIOUS
    <2>1. subscribers[j] # {} /\ Alive(j)
      BY <1>2 DEF ChannelInv, ChannelsLive
    <2> QED BY <2>1, <1>2 DEF Alive
  <1>9. ASSUME ~orphaned', channel' # 0, watch'[channel'] = "cancelled"
        PROVE  \E o \in Subscribers : at'[o] = "leaving" /\ chan'[o] = channel'
    <2>1. channel' = channel /\ channel \in Channels /\ ~orphaned
      BY <1>9, <1>t DEF LoopTypes, Channels
    <2>2. CASE channel = k /\ subscribers[k] \ {s} = {}
      BY <2>2, <2>1, <1>t DEF StreamTypes
    <2>3. CASE ~(channel = k /\ subscribers[k] \ {s} = {})
      <3>1. watch[channel] = "cancelled"
        BY <2>1, <2>3, <1>2, <1>9
      <3>2. PICK o \in Subscribers : at[o] = "leaving" /\ chan[o] = channel
        BY <3>1, <2>1, <1>9 DEF ChannelInv, ChannelsLive
      <3>3. o # s
        BY <3>2 DEF Following
      <3> QED BY <3>2, <3>3, <2>1, <1>t DEF StreamTypes
    <2> QED BY <2>2, <2>3
  <1>10. ChannelsLive'
    BY <1>7, <1>8, <1>9 DEF ChannelsLive
  <1>11. Follows(s)'
    BY <1>t DEF Follows, Following, StreamTypes
  <1>12. \A r \in Subscribers \ {s} :
            /\ at'[r] = at[r] /\ chan'[r] = chan[r] /\ inbox'[r] = inbox[r] /\ told'[r] = told[r]
            /\ \A j \in Channels : (r \in subscribers'[j]) <=> (r \in subscribers[j])
    BY <1>2, <1>t DEF StreamTypes
  <1>13. \A r \in Subscribers : Follows(r)'
    BY <1>11, <1>12, OthersFollow
  <1> QED BY <1>4, <1>6, <1>10, <1>13 DEF ChannelInv

LEMMA BreakOffStep ==
  ASSUME ChannelInv, NEW s \in Subscribers, BreakOff(s)
  PROVE  ChannelInv'
  <1>t. LoopTypes /\ StreamTypes
    BY DEF ChannelInv
  <1> DEFINE k == chan[s]
  <1>1. k \in Channels /\ at[s] \in Following
    BY DEF BreakOff, ChannelInv, Follows, Following
  <1>2. chan' = [chan EXCEPT ![s] = k]
    BY <1>t DEF BreakOff, StreamTypes
  <1>3. /\ subscribers' = [subscribers EXCEPT ![k] = @ \ {s}]
        /\ watch' = [watch EXCEPT ![k] = IF subscribers[k] \ {s} = {} /\ Alive(k)
                                         THEN "cancelled" ELSE @]
        /\ channel' = IF subscribers[k] \ {s} = {} THEN 0 ELSE channel
        /\ inbox' = [inbox EXCEPT ![s] = <<>>] /\ at' = [at EXCEPT ![s] = "gone"]
    BY DEF BreakOff
  <1>4. /\ files' = files /\ opened' = opened /\ reading' = reading /\ snapshotOf' = snapshotOf
        /\ batches' = batches /\ told' = told /\ dropped' = dropped /\ orphaned' = orphaned
    BY DEF BreakOff, batchTasks
  <1> HIDE DEF k
  <1>5. k # 0
    BY <1>1 DEF Channels
  <1>6. channel' \in {0, channel} /\ ~(channel' = k /\ subscribers[k] \ {s} = {})
    BY <1>3, <1>5
  <1> QED BY <1>1, <1>2, <1>3, <1>4, <1>6, Parts

LEMMA LeaveStep ==
  ASSUME ChannelInv, NEW s \in Subscribers, Leave(s)
  PROVE  ChannelInv'
  <1>t. LoopTypes /\ StreamTypes
    BY DEF ChannelInv
  <1>1. /\ files' = files /\ opened' = opened /\ reading' = reading /\ snapshotOf' = snapshotOf
        /\ batches' = batches /\ told' = told /\ dropped' = dropped /\ orphaned' = orphaned
        /\ channel' = channel /\ inbox' = [inbox EXCEPT ![s] = <<>>]
    BY DEF Leave, batchTasks
  <1>2. at[s] = "live" /\ at[s] \in Following
    BY DEF Leave, Following
  <1>3. CASE channel # 0
    <2> DEFINE end == IF subscribers[channel] \ {s} = {} THEN "leaving" ELSE "gone"
    <2>1. /\ subscribers' = [subscribers EXCEPT ![channel] = @ \ {s}]
          /\ chan' = [chan EXCEPT ![s] = channel] /\ at' = [at EXCEPT ![s] = end]
          /\ watch' = [watch EXCEPT ![channel] =
                         IF subscribers[channel] \ {s} = {} /\ Alive(channel) THEN "cancelled" ELSE @]
      BY <1>3 DEF Leave
    <2>2. channel \in Channels
      BY <1>3, <1>t DEF LoopTypes, Channels
    <2>3. end \in {"leaving", "gone"} /\ (subscribers[channel] \ {s} = {} => end = "leaving")
      OBVIOUS
    <2> HIDE DEF end
    <2> QED BY <1>1, <1>2, <2>1, <2>2, <2>3, Parts
  <1>4. CASE channel = 0
    <2>1. /\ at' = [at EXCEPT ![s] = "gone"]
          /\ subscribers' = subscribers /\ watch' = watch /\ chan' = chan
      BY <1>4 DEF Leave
    <2>2. LoopTypes'
      BY <1>1, <2>1, <1>t DEF LoopTypes
    <2>3. StreamTypes'
      BY <1>1, <2>1, <1>t DEF StreamTypes, StreamStates
    <2>4. ChannelsLive'
      BY <1>1, <1>4, <2>1 DEF ChannelInv, ChannelsLive, Alive
    <2>5. Follows(s)'
      BY <2>1, <1>t DEF Follows, Following, StreamTypes
    <2>6. \A r \in Subscribers : Follows(r)'
      BY <1>1, <2>1, <2>5, <1>t, OthersFollow DEF StreamTypes
    <2> QED BY <2>2, <2>3, <2>4, <2>6 DEF ChannelInv
  <1> QED BY <1>3, <1>4

\* The steps of a stream that touch only its own queue and place.
LEMMA StreamMoves ==
  ASSUME ChannelInv, NEW s \in Subscribers,
         \/ SendSnapshot(s) \/ Take(s) \/ Unregister(s)
  PROVE  ChannelInv'
  <1>t. LoopTypes /\ StreamTypes
    BY DEF ChannelInv
  <1>f. Follows(s)
    BY DEF ChannelInv
  <1>1. /\ files' = files /\ opened' = opened /\ subscribers' = subscribers /\ watch' = watch
        /\ reading' = reading /\ snapshotOf' = snapshotOf /\ batches' = batches
        /\ chan' = chan /\ dropped' = dropped /\ orphaned' = orphaned
    BY DEF SendSnapshot, Take, Unregister, loopVars, batchTasks
  <1>2. channel' \in {0, channel} /\ \A r \in Subscribers \ {s} :
            at'[r] = at[r] /\ inbox'[r] = inbox[r] /\ told'[r] = told[r]
    BY <1>t DEF SendSnapshot, Take, Unregister, loopVars, StreamTypes
  <1>3. channel' # 0 => \A r \in Subscribers : at[r] = "leaving" => at'[r] = "leaving"
    BY <1>t DEF SendSnapshot, Take, Unregister, loopVars, StreamTypes
  <1>4. LoopTypes'
    BY <1>1, <1>2, <1>t, ChannelAssumption DEF LoopTypes
  <1>5. ChannelsLive'
    BY <1>1, <1>2, <1>3 DEF ChannelInv, ChannelsLive, Alive
  <1>6. StreamTypes' /\ Follows(s)'
    <2>1. CASE SendSnapshot(s)
      <3>1. at[s] = "joining" /\ at' = [at EXCEPT ![s] = "live"] /\ inbox' = inbox
            /\ told' = [told EXCEPT ![s] = snapshotOf[chan[s]]]
        BY <2>1 DEF SendSnapshot
      <3>2. chan[s] \in Channels
        BY <3>1, <1>f DEF Follows, Following
      <3>3. snapshotOf[chan[s]] \in {0} \cup Versions
        BY <3>2, <1>t DEF LoopTypes
      <3>4. StreamTypes'
        BY <3>1, <3>3, <1>1, <1>t DEF StreamTypes, StreamStates
      <3>5. at'[s] = "live" /\ told'[s] = snapshotOf[chan[s]]
        BY <3>1, <1>t DEF StreamTypes
      <3> QED BY <3>1, <3>4, <3>5, <1>1, <1>f, UnseenChains DEF Follows, Following, Hears
    <2>2. CASE Take(s)
      <3>1. at[s] = "live" /\ inbox[s] # <<>> /\ at' = at
            /\ told' = [told EXCEPT ![s] = Head(inbox[s])] /\ inbox' = [inbox EXCEPT ![s] = Tail(@)]
        BY <2>2 DEF Take
      <3> DEFINE q == inbox[s]
      <3>2. q \in Seq(Versions) /\ q # <<>>
        BY <3>1, <1>t DEF StreamTypes
      <3>3. told'[s] = Head(q) /\ inbox'[s] = Tail(q)
        BY <3>1, <1>t DEF StreamTypes
      <3> HIDE DEF q
      <3>4. Head(q) \in Versions /\ Tail(q) \in Seq(Versions)
        BY <3>2, HeadTailProperties
      <3>5. StreamTypes'
        BY <3>1, <3>4, <1>1, <1>t DEF StreamTypes, q
      <3>6. Tail(q) = <<>> => Head(q) = q[Len(q)]
        <4>1. Len(Tail(q)) = Len(q) - 1 /\ Len(q) \in Nat
          BY <3>2, HeadTailProperties, LenProperties
        <4>2. Tail(q) = <<>> => Len(Tail(q)) = 0
          BY EmptySeq
        <4>3. Tail(q) = <<>> => Len(q) = 1
          BY <4>1, <4>2
        <4> QED BY <4>3
      <3>7. Tail(q) # <<>> => Tail(q)[Len(Tail(q))] = q[Len(q)]
        BY <3>2
      <3>8. s \in subscribers[chan[s]] => BecameUnseen(q[Len(q)], snapshotOf[chan[s]])
        BY <3>1, <1>f DEF Follows, Following, Hears, q
      <3>9. s \in subscribers[chan[s]] => Hears(s)'
        BY <3>3, <3>6, <3>7, <3>8, <1>1 DEF Hears
      <3> QED BY <3>1, <3>5, <3>9, <1>1, <1>f DEF Follows, Following
    <2>3. CASE Unregister(s)
      <3>1. at' = [at EXCEPT ![s] = "gone"] /\ inbox' = inbox /\ told' = told
        BY <2>3 DEF Unregister
      <3>2. StreamTypes'
        BY <3>1, <1>1, <1>t DEF StreamTypes, StreamStates
      <3> QED BY <3>1, <3>2, <1>t DEF Follows, Following, StreamTypes
    <2> QED BY <2>1, <2>2, <2>3
  <1>7. \A r \in Subscribers : Follows(r)'
    BY <1>1, <1>2, <1>6, OthersFollow
  <1> QED BY <1>4, <1>5, <1>6, <1>7 DEF ChannelInv

LEMMA ChannelInvStep == ChannelInv /\ [ChannelNext]_channelVars => ChannelInv'
  <1> SUFFICES ASSUME ChannelInv, [ChannelNext]_channelVars PROVE ChannelInv'
    OBVIOUS
  <1>1. CASE UNCHANGED channelVars
    <2>1. LoopTypes'
      BY <1>1 DEF channelVars, loopVars, batchTasks, ChannelInv, LoopTypes
    <2> QED BY <1>1, <2>1, WatchKeeps DEF channelVars, loopVars, streams
  <1>2. CASE ChannelNext
    BY <1>2, QuietChannel, JoinStep, BreakOffStep, LeaveStep, StreamMoves, ApplyScanStep, EndBatchStep
       DEF ChannelNext
  <1> QED BY <1>1, <1>2

\* Whoever follows the project's files, and was not removed for a full queue, is
\* on a channel whose watch lives and has been told, or has waiting, its last
\* snapshot or one it came from by changes no scan finds: for any number of browsers, channels and batches.
THEOREM EveryFollowerIsServed == ChannelSpec => []FollowersAreServed
  <1>1. ChannelInv => FollowersAreServed
    <2> SUFFICES ASSUME ChannelInv, ~orphaned, NEW s \in Subscribers \ dropped, at[s] = "live"
                 PROVE  /\ s \in subscribers[chan[s]] /\ Alive(chan[s])
                        /\ LastWord(s) # 0 => BecameUnseen(LastWord(s), snapshotOf[chan[s]])
      BY DEF FollowersAreServed
    <2>1. chan[s] \in Channels /\ s \in subscribers[chan[s]] /\ Hears(s)
      BY DEF ChannelInv, Follows, Following
    <2>2. Alive(chan[s])
      BY <2>1 DEF ChannelInv, ChannelsLive
    <2> QED BY <2>1, <2>2 DEF Hears, LastWord
  <1>2. ChannelSpec => []ChannelInv
    BY ChannelInvInit, ChannelInvStep, PTL DEF ChannelSpec
  <1> QED BY <1>1, <1>2, PTL

-----------------------------------------------------------------------------
(* OpenQuestions: who asks is heard, for any number of questions and       *)
(* queues of any length. The register holds what waits and nothing else    *)
(* (Registered); and of the questions in a page's queue the last is the    *)
(* one that waits (EndsIn), so that a page which takes them in order ends  *)
(* up showing it.                                                          *)

Messages == {"delta", "reply", "result", "ended"}

QuestionTypes ==
    /\ fate \in [Questions -> {"new", "waiting", "answered", "refused", "cut"}]
    /\ pending \in Seq(Questions) /\ line \in Seq(Questions \cup Messages)
    /\ onScreen \in Questions \cup {NoQuestion}
    /\ reply \in [at : {"none", "sent", "accepted", "rejected"}, to : Questions \cup {NoQuestion}]
    /\ registered \in BOOLEAN

\* The register holds what waits, and a session that has something pending runs
\* or has had an interrupt fail.
Registered ==
    /\ \A q \in Questions : IsWaiting(q) => registered /\ \E i \in DOMAIN pending : pending[i] = q
    /\ \A i, j \in DOMAIN pending : i # j => pending[i] # pending[j]
    /\ registered => \A i \in DOMAIN pending : IsWaiting(pending[i])
    /\ registered /\ turn = "running" => status = "running" \/ unstopped
    /\ \A q \in Questions : IsWaiting(q) => status = "running" \/ unstopped

AnswersCount == reply.at = "accepted" => reply.to \in Questions /\ fate[reply.to] = "answered"

\* The last question in a stream's queue is the one that waits.
Has(l, q) == \E i \in DOMAIN l : l[i] = q
EndsIn(l, q) == \A i \in DOMAIN l : l[i] \in Questions \ {q} => \E j \in DOMAIN l : i < j /\ l[j] = q
OnItsWay(q) ==
    /\ EndsIn(line, q)
    /\ page = "live" => onScreen = q \/ Has(line, q) \/ outrun

PagesFollow ==
    page # "off" /\ ~several =>
       /\ Len(pending) <= 1
       /\ \A q \in Questions \ missed : IsWaiting(q) => OnItsWay(q)

QuestionsInv == QuestionTypes /\ Registered /\ AnswersCount /\ PagesFollow

-----------------------------------------------------------------------------
\* What RemoveAt leaves.
LEMMA RemoveAtProperties ==
  ASSUME NEW S, NEW s \in Seq(S), NEW i \in DOMAIN s
  PROVE  /\ RemoveAt(s, i) \in Seq(S) /\ Len(RemoveAt(s, i)) = Len(s) - 1
         /\ DOMAIN RemoveAt(s, i) = 1..(Len(s) - 1)
         /\ \A j \in 1..(Len(s) - 1) : RemoveAt(s, i)[j] = IF j < i THEN s[j] ELSE s[j + 1]
  <1>1. Len(s) \in Nat /\ i \in 1..Len(s) /\ \A j \in 1..Len(s) : s[j] \in S
    BY LenProperties, ElementOfSeq
  <1> DEFINE a == SubSeq(s, 1, i - 1)
             b == SubSeq(s, i + 1, Len(s))
  <1>2. a \in Seq(S) /\ Len(a) = i - 1 /\ \A j \in 1..(i - 1) : a[j] = s[j]
    <2>1. \A j \in 1..(i - 1) : s[j] \in S
      BY <1>1
    <2> QED BY <1>1, <2>1, SubSeqProperties
  <1>3. b \in Seq(S) /\ Len(b) = Len(s) - i /\ \A j \in 1..(Len(s) - i) : b[j] = s[i + j]
    <2>1. \A j \in (i + 1)..Len(s) : s[j] \in S
      BY <1>1
    <2>2. /\ b \in Seq(S)
          /\ Len(b) = IF i + 1 <= Len(s) THEN Len(s) - (i + 1) + 1 ELSE 0
          /\ \A j \in 1..(Len(s) - (i + 1) + 1) : b[j] = s[(i + 1) + j - 1]
      BY <1>1, <2>1, SubSeqProperties
    <2> QED BY <1>1, <2>2
  <1> HIDE DEF a, b
  <1>4. /\ a \o b \in Seq(S) /\ Len(a \o b) = Len(a) + Len(b)
        /\ \A j \in 1..(Len(a) + Len(b)) : (a \o b)[j] = IF j <= Len(a) THEN a[j] ELSE b[j - Len(a)]
    BY <1>2, <1>3, ConcatProperties
  <1>5. RemoveAt(s, i) = a \o b
    BY DEF RemoveAt, a, b
  <1>6. Len(a \o b) = Len(s) - 1
    BY <1>1, <1>2, <1>3, <1>4
  <1>7. DOMAIN (a \o b) = 1..(Len(s) - 1)
    BY <1>4, <1>6, LenProperties
  <1>8. ASSUME NEW j \in 1..(Len(s) - 1) PROVE (a \o b)[j] = IF j < i THEN s[j] ELSE s[j + 1]
    <2>0. Len(a) = i - 1 /\ Len(a) + Len(b) = Len(s) - 1 /\ j \in 1..(Len(a) + Len(b))
      BY <1>1, <1>2, <1>3
    <2>a. (a \o b)[j] = IF j <= Len(a) THEN a[j] ELSE b[j - Len(a)]
      BY <1>4, <2>0
    <2>1. CASE j < i
      <3>1. j <= Len(a) /\ j \in 1..(i - 1)
        BY <2>0, <2>1, <1>1
      <3> QED BY <3>1, <2>a, <2>1, <1>2
    <2>2. CASE ~(j < i)
      <3>1. (a \o b)[j] = b[j - (i - 1)]
        <4>1. ~(j <= Len(a))
          BY <2>0, <2>2, <1>1
        <4> QED BY <4>1, <2>a, <2>0
      <3>2. b[j - (i - 1)] = s[i + (j - (i - 1))] /\ i + (j - (i - 1)) = j + 1
        BY <2>2, <1>1, <1>3
      <3> QED BY <2>2, <3>1, <3>2
    <2> QED BY <2>1, <2>2
  <1> QED BY <1>4, <1>5, <1>6, <1>7, <1>8

LEMMA QuestionsInvInit == QuestionsInit => QuestionsInv
  <1> SUFFICES ASSUME QuestionsInit PROVE QuestionsInv
    OBVIOUS
  <1>1. QuestionTypes
    BY DEF QuestionsInit, QuestionTypes, NoReply
  <1>2. Registered
    BY DEF QuestionsInit, Registered, IsWaiting
  <1>3. AnswersCount
    BY DEF QuestionsInit, AnswersCount, NoReply
  <1>4. PagesFollow
    BY DEF QuestionsInit, PagesFollow
  <1> QED BY <1>1, <1>2, <1>3, <1>4 DEF QuestionsInv

\* What comes to a queue, and what leaves it.
LEMMA QueueGrows ==
  ASSUME NEW S, NEW l \in Seq(S), NEW q \in Questions, NEW m \in S
  PROVE  /\ Has(Append(l, q), q) /\ EndsIn(Append(l, q), q)
         /\ m \notin Questions => /\ Has(l, q) => Has(Append(l, m), q)
                                  /\ EndsIn(l, q) => EndsIn(Append(l, m), q)
  <1>1. ASSUME NEW x
        PROVE  /\ Len(l) \in Nat /\ DOMAIN l = 1..Len(l) /\ DOMAIN Append(l, x) = 1..(Len(l) + 1)
               /\ \A i \in 1..Len(l) : Append(l, x)[i] = l[i]
               /\ Append(l, x)[Len(l) + 1] = x
    <2>1. l \in Seq(S \cup {x}) /\ x \in S \cup {x}
      OBVIOUS
    <2>2. Append(l, x) \in Seq(S \cup {x}) /\ Len(Append(l, x)) = Len(l) + 1
      BY <2>1, AppendProperties
    <2> QED BY <2>1, <2>2, AppendProperties, LenProperties
  <1>2. Has(Append(l, q), q)
    BY <1>1 DEF Has
  <1>3. EndsIn(Append(l, q), q)
    <2> DEFINE n == Len(l) + 1
               a == Append(l, q)
    <2>1. DOMAIN a = 1..n /\ n \in Nat /\ n \in 1..n /\ a[n] = q
      BY <1>1
    <2> HIDE DEF n, a
    <2> SUFFICES ASSUME NEW i \in DOMAIN a, a[i] \in Questions \ {q}
                 PROVE  \E j \in DOMAIN a : i < j /\ a[j] = q
      BY DEF EndsIn, a
    <2>2. i # n /\ i < n
      BY <2>1
    <2> QED BY <2>1, <2>2
  <1>4. ASSUME m \notin Questions, Has(l, q) PROVE Has(Append(l, m), q)
    <2>1. PICK i \in DOMAIN l : l[i] = q
      BY <1>4 DEF Has
    <2>2. i \in DOMAIN Append(l, m) /\ Append(l, m)[i] = q
      BY <1>1, <2>1
    <2> QED BY <2>2 DEF Has
  <1>5. ASSUME m \notin Questions, EndsIn(l, q) PROVE EndsIn(Append(l, m), q)
    <2> DEFINE a == Append(l, m)
    <2> SUFFICES ASSUME NEW i \in DOMAIN a, a[i] \in Questions \ {q}
                 PROVE  \E j \in DOMAIN a : i < j /\ a[j] = q
      BY DEF EndsIn
    <2>1. i \in 1..Len(l) /\ a[i] = l[i]
      BY <1>1, <1>5
    <2>2. PICK j \in DOMAIN l : i < j /\ l[j] = q
      BY <1>1, <1>5, <2>1 DEF EndsIn
    <2>3. j \in DOMAIN a /\ a[j] = q
      BY <1>1, <2>2
    <2> QED BY <2>2, <2>3
  <1> QED BY <1>2, <1>3, <1>4, <1>5

LEMMA QueueLoses ==
  ASSUME NEW S, NEW l \in Seq(S), NEW q \in Questions, NEW k \in DOMAIN l, l[k] # q
  PROVE  /\ Has(l, q) => Has(RemoveAt(l, k), q)
         /\ EndsIn(l, q) => EndsIn(RemoveAt(l, k), q)
  <1> DEFINE r == RemoveAt(l, k)
             n == Len(l)
  <1>1. n \in Nat /\ DOMAIN l = 1..n /\ k \in 1..n
    BY LenProperties
  <1>2. /\ DOMAIN r = 1..(n - 1)
        /\ \A j \in 1..(n - 1) : r[j] = IF j < k THEN l[j] ELSE l[j + 1]
    BY RemoveAtProperties
  <1> HIDE DEF r, n
  <1>3. ASSUME NEW j \in DOMAIN l, l[j] = q
        PROVE  \E i \in DOMAIN r : r[i] = q /\ i = IF j < k THEN j ELSE j - 1
    <2>1. j # k /\ j \in 1..n
      BY <1>1, <1>3
    <2>2. CASE j < k
      BY <2>1, <2>2, <1>1, <1>2, <1>3
    <2>3. CASE j > k
      <3>1. j - 1 \in 1..(n - 1) /\ ~(j - 1 < k) /\ (j - 1) + 1 = j
        BY <2>1, <2>3, <1>1
      <3>2. r[j - 1] = q
        BY <3>1, <1>2, <1>3
      <3> QED BY <3>1, <3>2, <1>1, <1>2, <2>1, <2>3
    <2> QED BY <2>1, <2>2, <2>3, <1>1
  <1>4. Has(l, q) => Has(r, q)
    BY <1>3 DEF Has
  <1>5. ASSUME EndsIn(l, q) PROVE EndsIn(r, q)
    <2> SUFFICES ASSUME NEW i \in DOMAIN r, r[i] \in Questions \ {q}
                 PROVE  \E j \in DOMAIN r : i < j /\ r[j] = q
      BY DEF EndsIn
    <2> DEFINE o == IF i < k THEN i ELSE i + 1
    <2>1. i \in 1..(n - 1) /\ o \in DOMAIN l /\ l[o] = r[i] /\ o # k
      BY <1>1, <1>2
    <2>2. PICK j \in DOMAIN l : o < j /\ l[j] = q
      BY <1>5, <2>1 DEF EndsIn
    <2>3. PICK h \in DOMAIN r : r[h] = q /\ h = IF j < k THEN j ELSE j - 1
      BY <1>3, <2>2
    <2>4. j # k /\ j \in 1..n
      BY <1>1, <2>2
    <2>5. i < h
      BY <2>1, <2>2, <2>3, <2>4, <1>1
    <2> QED BY <2>3, <2>5
  <1> QED BY <1>4, <1>5 DEF r

LEMMA QueueMoves ==
  ASSUME NEW S, NEW l \in Seq(S), NEW q \in Questions, l # <<>>
  PROVE  /\ EndsIn(l, q) => EndsIn(Tail(l), q)
         /\ Has(l, q) /\ Head(l) # q => Has(Tail(l), q)
         /\ EndsIn(l, q) /\ Head(l) \in Questions \ {q} => Has(Tail(l), q)
  <1> DEFINE t == Tail(l)
             n == Len(l)
  <1>1. n \in Nat /\ n > 0 /\ DOMAIN l = 1..n /\ Head(l) = l[1]
    BY LenProperties, EmptySeq
  <1>2. /\ t \in Seq(S) /\ Len(t) = n - 1 /\ DOMAIN t = 1..(n - 1)
        /\ \A i \in 1..(n - 1) : t[i] = l[i + 1]
    BY HeadTailProperties, LenProperties
  <1> HIDE DEF t, n
  <1>3. ASSUME NEW j \in DOMAIN l, j > 1 PROVE j - 1 \in DOMAIN t /\ t[j - 1] = l[j]
    BY <1>1, <1>2, <1>3
  <1>4. ASSUME EndsIn(l, q) PROVE EndsIn(t, q)
    <2> SUFFICES ASSUME NEW i \in DOMAIN t, t[i] \in Questions \ {q}
                 PROVE  \E j \in DOMAIN t : i < j /\ t[j] = q
      BY DEF EndsIn
    <2>1. i \in 1..(n - 1) /\ i + 1 \in DOMAIN l /\ l[i + 1] = t[i]
      BY <1>1, <1>2
    <2>2. PICK j \in DOMAIN l : i + 1 < j /\ l[j] = q
      BY <1>4, <2>1 DEF EndsIn
    <2>3. j > 1 /\ i < j - 1
      BY <2>1, <2>2, <1>1
    <2> QED BY <2>2, <2>3, <1>3
  <1>5. ASSUME Has(l, q), Head(l) # q PROVE Has(t, q)
    <2>1. PICK j \in DOMAIN l : l[j] = q
      BY <1>5 DEF Has
    <2>2. j > 1
      BY <1>1, <1>5, <2>1
    <2> QED BY <2>1, <2>2, <1>3 DEF Has
  <1>6. ASSUME EndsIn(l, q), Head(l) \in Questions \ {q} PROVE Has(t, q)
    <2>1. PICK j \in DOMAIN l : 1 < j /\ l[j] = q
      BY <1>1, <1>6 DEF EndsIn
    <2> QED BY <2>1, <1>3 DEF Has
  <1> QED BY <1>4, <1>5, <1>6 DEF t

\* What telling the pages does to a question that is not missed.
LEMMA WhatPagesHear ==
  ASSUME QuestionTypes, NEW m \in Questions \cup Messages, TellPages(m)
  PROVE  /\ line' \in Seq(Questions \cup Messages) /\ page' \in {page, "off"}
         /\ missed \subseteq missed'
         /\ \A q \in Questions \ missed' : page' # "off" =>
               /\ m = q => Has(line, q)' /\ EndsIn(line, q)'
               /\ m \notin Questions => /\ Has(line, q) => Has(line, q)'
                                        /\ EndsIn(line, q) => EndsIn(line, q)'
  <1> DEFINE S == Questions \cup Messages
             loose == {i \in DOMAIN line : line[i] \notin Critical}
  <1>1. line \in Seq(S) /\ m \in S /\ Questions \cap Messages = {} /\ Critical \subseteq Messages
    BY QuestionsAssumption DEF QuestionTypes, Messages, Critical
  <1> HIDE DEF S
  <1>2. CASE page = "off"
    <2>1. line' = line /\ page' = page /\ missed' = missed
      BY <1>2 DEF TellPages
    <2> QED BY <2>1, <1>1, <1>2 DEF S
  <1>3. CASE page # "off" /\ Len(line) < StreamCap
    <2>1. line' = Append(line, m) /\ page' = page /\ missed' = missed
      BY <1>3 DEF TellPages
    <2>2. line' \in Seq(S)
      BY <2>1, <1>1, AppendProperties
    <2>3. ASSUME NEW q \in Questions
          PROVE  /\ m = q => Has(line', q) /\ EndsIn(line', q)
                 /\ m \notin Questions => /\ Has(line, q) => Has(line', q)
                                          /\ EndsIn(line, q) => EndsIn(line', q)
      BY <2>1, <1>1, QueueGrows
    <2> QED BY <2>1, <2>2, <2>3 DEF S, Has, EndsIn
  <1>4. CASE page # "off" /\ ~(Len(line) < StreamCap) /\ m \notin Critical
    <2>1. line' = line /\ page' = page /\ missed' = missed \cup ({m} \cap Questions)
      BY <1>4 DEF TellPages
    <2> QED BY <2>1, <1>1, <1>4 DEF S, Has, EndsIn
  <1>5. CASE page # "off" /\ ~(Len(line) < StreamCap) /\ m \in Critical /\ loose # {}
    <2>1. PICK k \in loose : /\ line' = Append(RemoveAt(line, k), m) /\ page' = page
                             /\ missed' = missed \cup ({line[k]} \cap Questions)
      BY <1>5 DEF TellPages
    <2> DEFINE r == RemoveAt(line, k)
    <2>2. k \in DOMAIN line /\ r \in Seq(S)
      BY <1>1, RemoveAtProperties
    <2>3. m \notin Questions
      BY <1>1, <1>5
    <2>4. ASSUME NEW q \in Questions \ missed'
          PROVE  (Has(line, q) => Has(r, q)) /\ (EndsIn(line, q) => EndsIn(r, q))
      <3>1. line[k] # q
        BY <2>1
      <3> QED BY <3>1, <2>2, <1>1, QueueLoses
    <2> HIDE DEF r
    <2>5. line' = Append(r, m)
      BY <2>1 DEF r
    <2>6. ASSUME NEW q \in Questions \ missed'
          PROVE  (Has(r, q) => Has(line', q)) /\ (EndsIn(r, q) => EndsIn(line', q))
      BY <2>2, <2>3, <2>5, <1>1, QueueGrows
    <2>7. line' \in Seq(S)
      BY <2>2, <2>5, <1>1, AppendProperties
    <2> QED BY <2>1, <2>3, <2>4, <2>6, <2>7 DEF S, Has, EndsIn
  <1>6. CASE page # "off" /\ ~(Len(line) < StreamCap) /\ m \in Critical /\ loose = {}
    <2>1. line' = <<>> /\ page' = "off" /\ missed' = missed
      BY <1>6 DEF TellPages
    <2> QED BY <2>1 DEF S
  <1> QED BY <1>2, <1>3, <1>4, <1>5, <1>6

\* Questions that wait keep their place in what the pages see, if they are told
\* of nothing but chatter.
LEMMA PagesStay ==
  ASSUME QuestionsInv, QuestionTypes',
         \A q \in Questions : IsWaiting(q)' => IsWaiting(q),
         Len(pending') <= Len(pending), several' = several,
         \/ line' = line /\ page' = page /\ missed' = missed
         \/ \E m \in Messages : TellPages(m),
         outrun' = outrun /\ onScreen' = onScreen
  PROVE  PagesFollow'
  <1> SUFFICES ASSUME page' # "off", ~several'
               PROVE  /\ Len(pending') <= 1
                      /\ \A q \in Questions \ missed' : IsWaiting(q)' => OnItsWay(q)'
    BY DEF PagesFollow
  <1>1. /\ page' = page /\ missed \subseteq missed'
        /\ \A q \in Questions \ missed' : /\ Has(line, q) => Has(line, q)'
                                          /\ EndsIn(line, q) => EndsIn(line, q)'
    <2>1. CASE line' = line /\ page' = page /\ missed' = missed
      BY <2>1 DEF Has, EndsIn
    <2>2. CASE \E m \in Messages : TellPages(m)
      <3>1. PICK m \in Messages : TellPages(m)
        BY <2>2
      <3>2. m \notin Questions /\ m \in Questions \cup Messages
        BY QuestionsAssumption DEF Messages
      <3> QED BY <3>1, <3>2, WhatPagesHear DEF QuestionsInv
    <2> QED BY <2>1, <2>2
  <1>2. Len(pending) <= 1 /\ \A q \in Questions \ missed : IsWaiting(q) => OnItsWay(q)
    BY <1>1 DEF QuestionsInv, PagesFollow
  <1>3. Len(pending') \in Nat /\ Len(pending) \in Nat
    BY LenProperties DEF QuestionsInv, QuestionTypes
  <1>4. Len(pending') <= 1
    BY <1>2, <1>3
  <1>5. ASSUME NEW q \in Questions \ missed', IsWaiting(q)' PROVE OnItsWay(q)'
    <2>1. OnItsWay(q)
      BY <1>1, <1>2, <1>5
    <2> QED BY <2>1, <1>1 DEF OnItsWay
  <1> QED BY <1>4, <1>5

-----------------------------------------------------------------------------
\* The register.

LEMMA AskStep ==
  ASSUME QuestionsInv, NEW q \in Questions, AskUser(q)
  PROVE  QuestionsInv'
  <1> DEFINE n == Len(pending)
  <1>t. QuestionTypes /\ Registered
    BY DEF QuestionsInv
  <1>a. /\ turn = "running" /\ registered /\ fate[q] = "new"
        /\ pending' = Append(pending, q) /\ fate' = [fate EXCEPT ![q] = "waiting"]
        /\ TellPages(q) /\ several' = (several \/ pending # <<>>)
        /\ status' = status /\ registered' = registered /\ turn' = turn /\ onScreen' = onScreen
        /\ reply' = reply /\ unstopped' = unstopped /\ outrun' = outrun
    BY DEF AskUser
  <1>b. q \in Questions \cup Messages /\ q \notin Messages
    BY QuestionsAssumption DEF Messages
  <1>c. n \in Nat /\ DOMAIN pending = 1..n /\ \A i \in 1..n : pending[i] \in Questions
    BY <1>t, LenProperties, ElementOfSeq DEF QuestionTypes
  <1>d. /\ pending' \in Seq(Questions) /\ Len(pending') = n + 1 /\ DOMAIN pending' = 1..(n + 1)
        /\ \A i \in 1..n : pending'[i] = pending[i]
        /\ pending'[n + 1] = q
    BY <1>a, <1>t, AppendProperties, LenProperties DEF QuestionTypes
  <1> HIDE DEF n
  <1>1. QuestionTypes'
    BY <1>a, <1>b, <1>d, <1>t, WhatPagesHear DEF QuestionTypes
  <1>e. fate'[q] = "waiting" /\ \A p \in Questions \ {q} : fate'[p] = fate[p]
    BY <1>a, <1>t DEF QuestionTypes
  <1>f. \A i \in 1..n : IsWaiting(pending[i]) /\ pending[i] # q
    BY <1>a, <1>c, <1>t DEF Registered, IsWaiting
  <1>2. Registered'
    <2>1. ASSUME NEW p \in Questions, IsWaiting(p)'
          PROVE  registered' /\ \E i \in DOMAIN pending' : pending'[i] = p
      <3>1. CASE p = q
        BY <3>1, <1>a, <1>c, <1>d
      <3>2. CASE p # q
        <4>1. PICK i \in 1..n : pending[i] = p
          BY <3>2, <2>1, <1>c, <1>e, <1>t DEF Registered, IsWaiting
        <4>2. i \in 1..(n + 1) /\ pending'[i] = p
          BY <4>1, <1>c, <1>d
        <4> QED BY <4>2, <1>a, <1>d
      <3> QED BY <3>1, <3>2
    <2>2. \A i, j \in 1..(n + 1) : i # j => pending'[i] # pending'[j]
      <3> SUFFICES ASSUME NEW i \in 1..(n + 1), NEW j \in 1..(n + 1), i # j
                   PROVE  pending'[i] # pending'[j]
        OBVIOUS
      <3>1. CASE i \in 1..n /\ j \in 1..n
        BY <3>1, <1>c, <1>d, <1>t DEF Registered
      <3>2. CASE i = n + 1
        BY <3>2, <1>c, <1>d, <1>f
      <3>3. CASE j = n + 1
        BY <3>3, <1>c, <1>d, <1>f
      <3> QED BY <3>1, <3>2, <3>3, <1>c
    <2>3. \A i \in 1..(n + 1) : fate'[pending'[i]] = "waiting"
      <3>1. ASSUME NEW i \in 1..n PROVE fate'[pending'[i]] = "waiting"
        <4>1. pending'[i] = pending[i] /\ pending[i] \in Questions \ {q} /\ IsWaiting(pending[i])
          BY <1>c, <1>d, <1>f
        <4> QED BY <4>1, <1>e DEF IsWaiting
      <3>2. \A i \in 1..(n + 1) : i \in 1..n \/ i = n + 1
        BY <1>c
      <3> QED BY <3>1, <3>2, <1>d, <1>e
    <2>4. status' = "running" \/ unstopped'
      BY <1>a, <1>t DEF Registered
    <2>5. \A i \in DOMAIN pending' : fate'[pending'[i]] = "waiting"
      BY <1>d, <2>3
    <2> QED BY <1>d, <2>1, <2>2, <2>4, <2>5 DEF Registered, IsWaiting
  <1>3. AnswersCount'
    BY <1>a, <1>e DEF QuestionsInv, AnswersCount
  <1>4. PagesFollow'
    <2> SUFFICES ASSUME page' # "off", ~several'
                 PROVE  /\ Len(pending') <= 1
                        /\ \A p \in Questions \ missed' : IsWaiting(p)' => OnItsWay(p)'
      BY DEF PagesFollow
    <2>1. pending = <<>> /\ n = 0
      BY <1>a, EmptySeq DEF n
    <2>2. ASSUME NEW p \in Questions, IsWaiting(p)' PROVE p = q
      <3>1. ~IsWaiting(p)
        BY <1>c, <2>1, <1>t DEF Registered
      <3> QED BY <3>1, <2>2, <1>e DEF IsWaiting
    <2>3. ASSUME q \notin missed' PROVE OnItsWay(q)'
      BY <2>3, <1>a, <1>b, <1>t, WhatPagesHear DEF OnItsWay
    <2> QED BY <2>1, <2>2, <2>3, <1>d
  <1> QED BY <1>1, <1>2, <1>3, <1>4 DEF QuestionsInv

\* A question is answered, from here or from elsewhere.
LEMMA ResolveStep ==
  ASSUME QuestionsInv, NEW q \in Questions, Resolve(q), QuestionTypes' => AnswersCount',
         reply' \in [at : {"none", "sent", "accepted", "rejected"}, to : Questions \cup {NoQuestion}],
         status' = status, registered' = registered, turn' = turn, line' = line, page' = page,
         onScreen' = onScreen, unstopped' = unstopped, missed' = missed, outrun' = outrun,
         several' = several
  PROVE  QuestionsInv'
  <1> DEFINE n == Len(pending)
  <1>t. QuestionTypes /\ Registered
    BY DEF QuestionsInv
  <1>a. registered /\ status = "running" /\ fate' = [fate EXCEPT ![q] = "answered"]
    BY DEF Resolve, CanAnswer
  <1>b. PICK k \in DOMAIN pending : pending[k] = q /\ pending' = RemoveAt(pending, k)
    BY DEF Resolve
  <1>c. n \in Nat /\ DOMAIN pending = 1..n /\ k \in 1..n /\ \A i \in 1..n : pending[i] \in Questions
    BY <1>t, LenProperties, ElementOfSeq DEF QuestionTypes
  <1>d. /\ pending' \in Seq(Questions) /\ Len(pending') = n - 1 /\ DOMAIN pending' = 1..(n - 1)
        /\ \A i \in 1..(n - 1) : pending'[i] = IF i < k THEN pending[i] ELSE pending[i + 1]
    BY <1>b, <1>t, RemoveAtProperties DEF QuestionTypes
  <1> HIDE DEF n
  <1>e. fate'[q] = "answered" /\ \A p \in Questions \ {q} : fate'[p] = fate[p]
    BY <1>a, <1>t DEF QuestionTypes
  <1>1. QuestionTypes'
    BY <1>a, <1>d, <1>t DEF QuestionTypes
  <1>f. \A i, j \in 1..n : i # j => pending[i] # pending[j]
    BY <1>c, <1>t DEF Registered
  <1>2. Registered'
    <2>1. ASSUME NEW p \in Questions, IsWaiting(p)'
          PROVE  IsWaiting(p) /\ \E i \in DOMAIN pending' : pending'[i] = p
      <3>1. p # q /\ IsWaiting(p)
        BY <2>1, <1>e DEF IsWaiting
      <3>2. PICK i \in 1..n : pending[i] = p
        BY <3>1, <1>c, <1>t DEF Registered
      <3>3. i # k
        BY <3>1, <3>2, <1>b
      <3>4. CASE i < k
        BY <3>1, <3>2, <3>4, <1>c, <1>d
      <3>5. CASE i > k
        <4>1. i - 1 \in 1..(n - 1) /\ ~(i - 1 < k) /\ (i - 1) + 1 = i
          BY <3>5, <1>c
        <4>2. pending'[i - 1] = p
          BY <4>1, <3>2, <1>d
        <4> QED BY <4>1, <4>2, <3>1, <1>d
      <3> QED BY <3>3, <3>4, <3>5, <1>c
    <2>2. \A i, j \in 1..(n - 1) : i # j => pending'[i] # pending'[j]
      <3> SUFFICES ASSUME NEW i \in 1..(n - 1), NEW j \in 1..(n - 1), i # j
                   PROVE  pending'[i] # pending'[j]
        OBVIOUS
      <3> DEFINE o(x) == IF x < k THEN x ELSE x + 1
      <3>1. o(i) \in 1..n /\ o(j) \in 1..n /\ o(i) # o(j)
        BY <1>c
      <3>2. pending'[i] = pending[o(i)] /\ pending'[j] = pending[o(j)]
        BY <1>d
      <3> HIDE DEF o
      <3> QED BY <3>1, <3>2, <1>f
    <2>3. \A i \in 1..(n - 1) : fate'[pending'[i]] = "waiting"
      <3> SUFFICES ASSUME NEW i \in 1..(n - 1) PROVE fate'[pending'[i]] = "waiting"
        OBVIOUS
      <3> DEFINE o == IF i < k THEN i ELSE i + 1
      <3>1. o \in 1..n /\ o # k
        BY <1>c
      <3>2. pending'[i] = pending[o]
        BY <1>d
      <3> HIDE DEF o
      <3>3. pending[o] # q /\ pending[o] \in Questions /\ IsWaiting(pending[o])
        BY <3>1, <1>a, <1>b, <1>c, <1>f, <1>t DEF Registered
      <3> QED BY <3>2, <3>3, <1>e DEF IsWaiting
    <2> QED BY <1>a, <1>d, <2>1, <2>2, <2>3, <1>t DEF Registered, IsWaiting
  <1>3. \A p \in Questions : IsWaiting(p)' => IsWaiting(p)
    BY <1>e DEF IsWaiting
  <1>4. Len(pending') <= Len(pending)
    BY <1>c, <1>d DEF n
  <1>5. PagesFollow'
    BY <1>1, <1>3, <1>4, PagesStay
  <1> QED BY <1>1, <1>2, <1>5 DEF QuestionsInv

\* All that waits is refused or cut: nothing waits any more.
LEMMA CancelStep ==
  ASSUME QuestionsInv, NEW as \in {"refused", "cut"}, CancelPending(as),
         reply' = reply, registered' = registered, onScreen' = onScreen,
         outrun' = outrun, several' = several,
         registered /\ turn' = "running" => status' = "running" \/ unstopped',
         \/ line' = line /\ page' = page /\ missed' = missed
         \/ \E m \in Messages : TellPages(m)
  PROVE  QuestionsInv'
  <1>t. QuestionTypes /\ Registered
    BY DEF QuestionsInv
  <1>a. /\ pending' = <<>>
        /\ fate' = [q \in Questions |-> IF Contains(pending, q) /\ IsWaiting(q) THEN as ELSE fate[q]]
    BY DEF CancelPending
  <1>b. \A q \in Questions : IsWaiting(q) => Contains(pending, q)
    <2> SUFFICES ASSUME NEW q \in Questions, IsWaiting(q) PROVE Contains(pending, q)
      OBVIOUS
    <2>1. PICK i \in DOMAIN pending : pending[i] = q
      BY <1>t DEF Registered
    <2>2. DOMAIN pending = 1..Len(pending)
      BY <1>t, LenProperties DEF QuestionTypes
    <2> QED BY <2>1, <2>2 DEF Contains
  <1>c. \A q \in Questions : fate'[q] = IF IsWaiting(q) THEN as ELSE fate[q]
    BY <1>a, <1>b
  <1>d. \A q \in Questions : ~IsWaiting(q)'
    BY <1>c DEF IsWaiting
  <1>e. pending' \in Seq(Questions) /\ Len(pending') = 0 /\ DOMAIN pending' = {}
    BY <1>a
  <1>f. line' \in Seq(Questions \cup Messages)
    <2>1. \A m \in Messages : TellPages(m) => line' \in Seq(Questions \cup Messages)
      BY <1>t, WhatPagesHear
    <2> QED BY <2>1, <1>t DEF QuestionTypes
  <1>g. fate' \in [Questions -> {"new", "waiting", "answered", "refused", "cut"}]
    BY <1>a, <1>t DEF QuestionTypes
  <1>1. QuestionTypes'
    BY <1>e, <1>f, <1>g, <1>t DEF QuestionTypes
  <1>2. Registered'
    BY <1>d, <1>e DEF Registered
  <1>3. AnswersCount'
    BY <1>c DEF QuestionsInv, AnswersCount, IsWaiting
  <1>4. PagesFollow'
    BY <1>d, <1>e DEF PagesFollow
  <1> QED BY <1>1, <1>2, <1>3, <1>4 DEF QuestionsInv

\* The messages of a turn, its result, and the steps of one page.
LEMMA RegisterStays ==
  ASSUME QuestionsInv, pending' = pending, fate' = fate, registered' = registered,
         status' = status, unstopped' = unstopped, turn' \in {turn, "over", "dead"}
  PROVE  Registered' /\ (reply' = reply => AnswersCount')
         /\ \A q \in Questions : IsWaiting(q)' <=> IsWaiting(q)
  BY DEF QuestionsInv, Registered, AnswersCount, IsWaiting

LEMMA SpeakStep ==
  ASSUME QuestionsInv, Speak \/ TurnEnds
  PROVE  QuestionsInv'
  <1>1. \E m \in Messages : TellPages(m)
    BY DEF Speak, TurnEnds, Messages
  <1>2. /\ pending' = pending /\ fate' = fate /\ registered' = registered /\ status' = status
        /\ unstopped' = unstopped /\ turn' \in {turn, "over"} /\ reply' = reply
        /\ onScreen' = onScreen /\ outrun' = outrun /\ several' = several
    BY DEF Speak, TurnEnds
  <1>3. QuestionTypes'
    <2>1. \A m \in Messages : TellPages(m) => line' \in Seq(Questions \cup Messages)
      BY WhatPagesHear DEF QuestionsInv
    <2> QED BY <1>1, <1>2, <2>1 DEF QuestionsInv, QuestionTypes
  <1>4. /\ Registered' /\ AnswersCount'
        /\ \A q \in Questions : IsWaiting(q)' => IsWaiting(q)
    BY <1>2, RegisterStays
  <1>5. Len(pending') <= Len(pending)
    BY <1>2, LenProperties DEF QuestionsInv, QuestionTypes
  <1>6. PagesFollow'
    BY <1>1, <1>2, <1>3, <1>4, <1>5, PagesStay
  <1> QED BY <1>3, <1>4, <1>6 DEF QuestionsInv

LEMMA PageStep ==
  ASSUME QuestionsInv, OpenStream \/ ShowSnapshot \/ DropStream \/ TakeMessage
  PROVE  QuestionsInv'
  <1>t. QuestionTypes /\ Registered
    BY DEF QuestionsInv
  <1>1. /\ pending' = pending /\ fate' = fate /\ registered' = registered /\ status' = status
        /\ unstopped' = unstopped /\ turn' = turn /\ reply' = reply
    BY DEF OpenStream, ShowSnapshot, DropStream, TakeMessage
  <1>2. /\ Registered' /\ AnswersCount'
        /\ \A q \in Questions : IsWaiting(q)' <=> IsWaiting(q)
    BY <1>1, RegisterStays
  <1>3. /\ Len(pending) \in Nat /\ DOMAIN pending = 1..Len(pending)
        /\ \A i \in DOMAIN pending : pending[i] \in Questions
    BY <1>t, LenProperties, ElementOfSeq DEF QuestionTypes
  <1>4. CASE OpenStream
    <2>1. page' = "opened" /\ line' = <<>> /\ several' = (Len(pending) > 1) /\ onScreen' = onScreen
      BY <1>4 DEF OpenStream
    <2>2. QuestionTypes'
      BY <1>1, <2>1, <1>t DEF QuestionTypes
    <2>3. \A q \in Questions : OnItsWay(q)'
      BY <2>1 DEF OnItsWay, EndsIn
    <2>a. ~several' => Len(pending') <= 1
      <3>1. ~several' => ~(Len(pending) > 1)
        BY <2>1, Zenon
      <3> QED BY <1>1, <1>3, <3>1
    <2>4. PagesFollow'
      BY <2>3, <2>a DEF PagesFollow
    <2> QED BY <1>2, <2>2, <2>4 DEF QuestionsInv
  <1>5. CASE DropStream
    <2>1. page' = "off" /\ line' = <<>> /\ onScreen' = onScreen
      BY <1>5 DEF DropStream
    <2>2. QuestionTypes'
      BY <1>1, <2>1, <1>t DEF QuestionTypes
    <2>3. PagesFollow'
      BY <2>1 DEF PagesFollow
    <2> QED BY <1>2, <2>2, <2>3 DEF QuestionsInv
  <1>6. CASE ShowSnapshot
    <2> DEFINE atHand == IF status = "running" /\ registered THEN pending ELSE <<>>
    <2>1. /\ page = "opened" /\ onScreen' = IF atHand = <<>> THEN NoQuestion ELSE Head(atHand)
          /\ page' = IF status = "running" THEN "live" ELSE "off"
          /\ line' = IF status = "running" THEN line ELSE <<>>
          /\ missed' = missed /\ several' = several
      BY <1>6 DEF ShowSnapshot
    <2>2. pending # <<>> => pending[1] \in Questions /\ Head(pending) = pending[1]
      BY <1>3, <1>t, HeadTailProperties DEF QuestionTypes
    <2>3. onScreen' \in Questions \cup {NoQuestion} /\ line' \in Seq(Questions \cup Messages)
      BY <2>1, <2>2, <1>t DEF QuestionTypes
    <2>4. QuestionTypes'
      BY <1>1, <2>3, <1>t DEF QuestionTypes
    <2>5. ASSUME page' # "off", ~several', NEW q \in Questions \ missed', IsWaiting(q)'
          PROVE  OnItsWay(q)'
      <3>1. IsWaiting(q) /\ status = "running" /\ line' = line
        BY <1>2, <2>1, <2>5
      <3>2. registered /\ Len(pending) <= 1 /\ OnItsWay(q)
        BY <2>1, <2>5, <3>1, <1>t DEF QuestionsInv, PagesFollow, Registered
      <3>3. PICK i \in DOMAIN pending : pending[i] = q
        BY <3>1, <1>t DEF Registered
      <3>4. i = 1 /\ pending # <<>>
        BY <3>2, <3>3, <1>3
      <3>5. onScreen' = q
        BY <2>1, <2>2, <3>1, <3>2, <3>3, <3>4
      <3> QED BY <3>1, <3>2, <3>5 DEF OnItsWay, EndsIn
    <2>6. page' # "off" /\ ~several' => Len(pending') <= 1
      BY <1>1, <2>1 DEF QuestionsInv, PagesFollow
    <2>7. PagesFollow'
      BY <2>5, <2>6 DEF PagesFollow
    <2> QED BY <1>2, <2>4, <2>7 DEF QuestionsInv
  <1>7. CASE TakeMessage
    <2> DEFINE message == Head(line)
    <2>1. /\ page = "live" /\ line # <<>> /\ missed' = missed /\ several' = several /\ outrun' = outrun
          /\ onScreen' = IF message \in Questions THEN message
                         ELSE IF message \in {"result", "ended"} THEN NoQuestion ELSE onScreen
          /\ IF message \in {"result", "ended"}
             THEN page' = "off" /\ line' = <<>>
             ELSE line' = Tail(line) /\ page' = page
      BY <1>7 DEF TakeMessage
    <2>2. message \in Questions \cup Messages /\ Tail(line) \in Seq(Questions \cup Messages)
      BY <2>1, <1>t, HeadTailProperties DEF QuestionTypes
    <2> HIDE DEF message
    <2>a. onScreen' \in Questions \cup {NoQuestion} /\ line' \in Seq(Questions \cup Messages)
      <3>1. CASE message \in {"result", "ended"}
        BY <3>1, <2>1, <1>t DEF QuestionTypes
      <3>2. CASE message \notin {"result", "ended"}
        BY <3>2, <2>1, <2>2, <1>t DEF QuestionTypes
      <3> QED BY <3>1, <3>2
    <2>3. QuestionTypes'
      BY <1>1, <2>a, <1>t DEF QuestionTypes
    <2>4. ASSUME page' # "off", ~several', NEW q \in Questions \ missed', IsWaiting(q)'
          PROVE  OnItsWay(q)'
      <3>1. OnItsWay(q) /\ line' = Tail(line)
        BY <1>2, <2>1, <2>4 DEF QuestionsInv, PagesFollow
      <3>2. /\ EndsIn(line, q) => EndsIn(Tail(line), q)
            /\ Has(line, q) /\ message # q => Has(Tail(line), q)
            /\ EndsIn(line, q) /\ message \in Questions \ {q} => Has(Tail(line), q)
        BY <2>1, <1>t, QueueMoves DEF QuestionTypes, message
      <3>3. EndsIn(line, q)' <=> EndsIn(Tail(line), q)
        BY <3>1 DEF EndsIn
      <3>4. Has(line, q)' <=> Has(Tail(line), q)
        BY <3>1 DEF Has
      <3>5. onScreen = q \/ Has(line, q) \/ outrun
        BY <3>1, <2>1 DEF OnItsWay
      <3>6. CASE message \in Questions
        BY <2>1, <3>1, <3>2, <3>3, <3>4, <3>6 DEF OnItsWay
      <3>7. CASE message \notin Questions
        <4>1. onScreen' = onScreen /\ message # q
          BY <2>1, <2>4, <3>7
        <4> QED BY <2>1, <3>1, <3>2, <3>3, <3>4, <3>5, <4>1 DEF OnItsWay
      <3> QED BY <3>6, <3>7
    <2>5. page' # "off" /\ ~several' => Len(pending') <= 1
      BY <1>1, <2>1 DEF QuestionsInv, PagesFollow
    <2>6. PagesFollow'
      BY <2>4, <2>5 DEF PagesFollow
    <2> QED BY <1>2, <2>3, <2>6 DEF QuestionsInv
  <1> QED BY <1>4, <1>5, <1>6, <1>7

LEMMA AnswerStep ==
  ASSUME QuestionsInv,
         \/ SendAnswer \/ TakeAnswer \/ HearResponse
         \/ \E q \in Questions : AnswerElsewhere(q)
  PROVE  QuestionsInv'
  <1> DEFINE Replies == [at : {"none", "sent", "accepted", "rejected"}, to : Questions \cup {NoQuestion}]
  <1>t. QuestionTypes /\ Registered /\ reply \in Replies
    BY DEF QuestionsInv, QuestionTypes
  <1>n. Len(pending) <= Len(pending)
    BY <1>t, LenProperties DEF QuestionTypes
  <1>1. CASE SendAnswer
    <2>1. /\ onScreen # NoQuestion /\ reply' = [at |-> "sent", to |-> onScreen]
          /\ pending' = pending /\ fate' = fate /\ registered' = registered /\ status' = status
          /\ unstopped' = unstopped /\ turn' = turn /\ line' = line /\ page' = page
          /\ missed' = missed /\ onScreen' = onScreen /\ outrun' = outrun /\ several' = several
      BY <1>1 DEF SendAnswer
    <2>2. QuestionTypes' /\ AnswersCount'
      BY <2>1, <1>t DEF QuestionTypes, AnswersCount
    <2>3. Registered' /\ \A q \in Questions : IsWaiting(q)' => IsWaiting(q)
      BY <2>1, RegisterStays
    <2>4. PagesFollow'
      BY <1>n, <2>1, <2>2, <2>3, PagesStay
    <2> QED BY <2>2, <2>3, <2>4 DEF QuestionsInv
  <1>2. CASE TakeAnswer /\ CanAnswer(reply.to)
    <2>1. /\ Resolve(reply.to) /\ reply' = [reply EXCEPT !.at = "accepted"]
          /\ registered' = registered /\ status' = status
          /\ unstopped' = unstopped /\ turn' = turn /\ line' = line /\ page' = page
          /\ missed' = missed /\ onScreen' = onScreen /\ outrun' = outrun /\ several' = several
      BY <1>2 DEF TakeAnswer
    <2>2. reply.to \in Questions
      <3>1. PICK i \in 1..Len(pending) : pending[i] = reply.to
        BY <1>2 DEF CanAnswer, Contains
      <3> QED BY <3>1, <1>t, ElementOfSeq DEF QuestionTypes
    <2>3. reply' \in Replies /\ reply'.to = reply.to
      BY <2>1, <1>t
    <2>4. fate' = [fate EXCEPT ![reply.to] = "answered"]
      BY <2>1 DEF Resolve
    <2>5. AnswersCount'
      BY <2>2, <2>3, <2>4, <1>t DEF AnswersCount, QuestionTypes
    <2> QED BY <2>1, <2>2, <2>3, <2>5, ResolveStep
  <1>3. CASE TakeAnswer /\ ~CanAnswer(reply.to)
    <2>1. /\ reply' = [reply EXCEPT !.at = "rejected"]
          /\ pending' = pending /\ fate' = fate /\ registered' = registered /\ status' = status
          /\ unstopped' = unstopped /\ turn' = turn /\ line' = line /\ page' = page
          /\ missed' = missed /\ onScreen' = onScreen /\ outrun' = outrun /\ several' = several
      BY <1>3 DEF TakeAnswer
    <2>2. QuestionTypes' /\ AnswersCount'
      BY <2>1, <1>t DEF QuestionTypes, AnswersCount
    <2>3. Registered' /\ \A q \in Questions : IsWaiting(q)' => IsWaiting(q)
      BY <2>1, RegisterStays
    <2>4. PagesFollow'
      BY <1>n, <2>1, <2>2, <2>3, PagesStay
    <2> QED BY <2>2, <2>3, <2>4 DEF QuestionsInv
  <1>4. CASE HearResponse
    <2>1. /\ reply' = NoReply
          /\ pending' = pending /\ fate' = fate /\ registered' = registered /\ status' = status
          /\ unstopped' = unstopped /\ turn' = turn /\ line' = line /\ page' = page
          /\ missed' = missed /\ several' = several
          /\ \/ onScreen' = onScreen /\ outrun' = outrun
             \/ /\ reply.at = "accepted" /\ onScreen' = NoQuestion
                /\ outrun' = (outrun \/ onScreen \notin {NoQuestion, reply.to})
      BY <1>4 DEF HearResponse
    <2>2. onScreen' \in Questions \cup {NoQuestion} /\ reply' \in Replies
      BY <2>1, <1>t DEF QuestionTypes, NoReply
    <2>3. QuestionTypes' /\ AnswersCount'
      BY <2>1, <2>2, <1>t DEF QuestionTypes, AnswersCount, NoReply
    <2>4. Registered' /\ \A q \in Questions : IsWaiting(q)' <=> IsWaiting(q)
      BY <2>1, RegisterStays
    <2>5. ASSUME page' # "off", ~several', NEW q \in Questions \ missed', IsWaiting(q)'
          PROVE  OnItsWay(q)'
      <3>1. OnItsWay(q)
        BY <2>1, <2>4, <2>5 DEF QuestionsInv, PagesFollow
      <3>2. reply.at = "accepted" => reply.to # q
        BY <2>4, <2>5 DEF QuestionsInv, AnswersCount, IsWaiting
      <3>3. q # NoQuestion
        BY QuestionsAssumption
      <3>4. onScreen = q \/ outrun => onScreen' = q \/ outrun'
        BY <2>1, <3>2, <3>3
      <3>5. (Has(line, q)' <=> Has(line, q)) /\ (EndsIn(line, q)' <=> EndsIn(line, q))
        BY <2>1 DEF Has, EndsIn
      <3> QED BY <2>1, <3>1, <3>4, <3>5 DEF OnItsWay
    <2>6. page' # "off" /\ ~several' => Len(pending') <= 1
      BY <2>1 DEF QuestionsInv, PagesFollow
    <2>7. PagesFollow'
      BY <2>5, <2>6 DEF PagesFollow
    <2> QED BY <2>3, <2>4, <2>7 DEF QuestionsInv
  <1>5. ASSUME NEW q \in Questions, AnswerElsewhere(q) PROVE QuestionsInv'
    <2>1. /\ Resolve(q) /\ reply' = reply
          /\ registered' = registered /\ status' = status
          /\ unstopped' = unstopped /\ turn' = turn /\ line' = line /\ page' = page
          /\ missed' = missed /\ onScreen' = onScreen /\ outrun' = outrun /\ several' = several
      BY <1>5 DEF AnswerElsewhere
    <2>2. fate' = [fate EXCEPT ![q] = "answered"]
      BY <2>1 DEF Resolve
    <2>3. AnswersCount'
      BY <2>1, <2>2, <1>t DEF AnswersCount, QuestionsInv, QuestionTypes
    <2> QED BY <2>1, <2>3, <1>t, ResolveStep
  <1> QED BY <1>1, <1>2, <1>3, <1>4, <1>5

LEMMA EndStep ==
  ASSUME QuestionsInv,
         FinalizeTurn \/ InterruptSession \/ SessionFails \/ CloseSession \/ Disconnected
  PROVE  QuestionsInv'
  <1>t. QuestionTypes /\ Registered
    BY DEF QuestionsInv
  <1>1. CASE FinalizeTurn
    <2>1. /\ CancelPending("refused") /\ turn = "over" /\ turn' = turn
          /\ reply' = reply /\ registered' = registered /\ onScreen' = onScreen
          /\ outrun' = outrun /\ several' = several
          /\ line' = line /\ page' = page /\ missed' = missed
      BY <1>1 DEF FinalizeTurn
    <2> QED BY <2>1, CancelStep
  <1>2. CASE InterruptSession
    <2>1. /\ CancelPending("refused") /\ status = "running" /\ turn' = turn
          /\ status' = status \/ unstopped' = TRUE
          /\ reply' = reply /\ registered' = registered /\ onScreen' = onScreen
          /\ outrun' = outrun /\ several' = several
          /\ line' = line /\ page' = page /\ missed' = missed
      BY <1>2 DEF InterruptSession
    <2> QED BY <2>1, CancelStep
  <1>3. CASE SessionFails
    <2>1. /\ CancelPending("cut") /\ turn' = "dead" /\ TellPages("ended")
          /\ reply' = reply /\ registered' = registered /\ onScreen' = onScreen
          /\ outrun' = outrun /\ several' = several
      BY <1>3 DEF SessionFails
    <2>2. "ended" \in Messages
      BY DEF Messages
    <2> QED BY <2>1, <2>2, CancelStep
  <1>4. CASE CloseSession
    <2>1. /\ CancelPending("refused") /\ turn' = turn /\ status' = status /\ unstopped' = unstopped
          /\ reply' = reply /\ registered' = registered /\ onScreen' = onScreen
          /\ outrun' = outrun /\ several' = several
          /\ line' = line /\ page' = page /\ missed' = missed
      BY <1>4 DEF CloseSession
    <2>2. registered /\ turn' = "running" => status' = "running" \/ unstopped'
      BY <2>1, <1>t DEF Registered
    <2> QED BY <2>1, <2>2, CancelStep
  <1>5. CASE Disconnected
    <2>1. /\ fate' = [q \in Questions |-> IF IsWaiting(q) THEN "cut" ELSE fate[q]]
          /\ registered' = FALSE /\ page' = "off" /\ line' = <<>>
          /\ pending' = pending /\ onScreen' = onScreen /\ reply' = reply
      BY <1>5 DEF Disconnected
    <2>a. fate' \in [Questions -> {"new", "waiting", "answered", "refused", "cut"}]
      BY <2>1, <1>t DEF QuestionTypes
    <2>b. registered' \in BOOLEAN
      BY <2>1, Zenon
    <2>c. line' \in Seq(Questions \cup Messages)
      BY <2>1
    <2>2. QuestionTypes'
      BY <2>1, <2>a, <2>b, <2>c, <1>t DEF QuestionTypes
    <2>3. \A q \in Questions : ~IsWaiting(q)' /\ (fate[q] = "answered" => fate'[q] = "answered")
      BY <2>1 DEF IsWaiting
    <2>4. Registered'
      BY <2>1, <2>3, <1>t DEF Registered
    <2>5. AnswersCount' /\ PagesFollow'
      BY <2>1, <2>3 DEF QuestionsInv, AnswersCount, PagesFollow
    <2> QED BY <2>2, <2>4, <2>5 DEF QuestionsInv
  <1> QED BY <1>1, <1>2, <1>3, <1>4, <1>5

LEMMA QuestionsInvStep == QuestionsInv /\ [QuestionsNext]_questionVars => QuestionsInv'
  <1> SUFFICES ASSUME QuestionsInv, [QuestionsNext]_questionVars PROVE QuestionsInv'
    OBVIOUS
  <1>1. CASE UNCHANGED questionVars
    BY <1>1 DEF questionVars, QuestionsInv, QuestionTypes, Registered, AnswersCount, PagesFollow,
                OnItsWay, Has, EndsIn, IsWaiting
  <1>2. CASE QuestionsNext
    BY <1>2, AskStep, SpeakStep, PageStep, AnswerStep, EndStep DEF QuestionsNext
  <1> QED BY <1>1, <1>2

\* While an agent waits for an answer the server would take one, and a page that
\* has caught up shows a question that waits, outside of the cases named in
\* QuestionsAreAnswerable: for any number of questions and any queue.
THEOREM WhoAsksIsHeard == QuestionsSpec => []QuestionsAreAnswerable
  <1>1. QuestionsInv => QuestionsAreAnswerable
    <2> SUFFICES ASSUME QuestionsInv PROVE QuestionsAreAnswerable
      OBVIOUS
    <2>t. QuestionTypes /\ Registered
      BY DEF QuestionsInv
    <2>1. ASSUME NEW q \in Questions, IsWaiting(q), ~unstopped PROVE CanAnswer(q)
      <3>1. registered /\ status = "running" /\ \E i \in DOMAIN pending : pending[i] = q
        BY <2>1, <2>t DEF Registered
      <3>2. DOMAIN pending = 1..Len(pending)
        BY <2>t, LenProperties DEF QuestionTypes
      <3> QED BY <3>1, <3>2 DEF CanAnswer, Contains
    <2>2. ASSUME NEW q \in Questions, IsWaiting(q), page = "live", line = <<>>
          PROVE  onScreen = q \/ several \/ q \in missed \/ outrun
      BY <2>2 DEF QuestionsInv, PagesFollow, OnItsWay, Has
    <2> QED BY <2>1, <2>2 DEF QuestionsAreAnswerable
  <1>2. QuestionsSpec => []QuestionsInv
    BY QuestionsInvInit, QuestionsInvStep, PTL DEF QuestionsSpec
  <1> QED BY <1>1, <1>2, PTL

-----------------------------------------------------------------------------
(* ProviderCredentials: the active credential is the one in use, for any   *)
(* number of requests, rows and builds. Ids ascend, so an id names one     *)
(* row (Ascending); a request nobody has outrun still knows what it has    *)
(* read (RequestsKnow); and once every request has emptied the cache,      *)
(* what was built, and what is being built, comes from the active row      *)
(* (BackendsServe).                                                        *)

\* Ids are given in order, and an id says which row it is.
Ascending(rows) == \A i, j \in DOMAIN rows : i < j => rows[i].id < rows[j].id

CredentialTypes ==
    /\ creds \in Seq(Credential) /\ Ascending(creds)
    /\ keyFiles \in [CredIds -> 0..MaxCredRequests]
    /\ credReqs \in [CredRequests -> CredRequest \cup {NoRequest}]
    /\ backend = NoBackend \/ backend \in [secret : Secrets, missed : BOOLEAN]
    /\ building \in [Builds -> [id : CredIds, secret : Secrets, file : BOOLEAN, missed : BOOLEAN]
                                  \cup {NoBuild}]
    /\ asked \in [requests : 0..MaxCredRequests, builds : Nat] /\ raced \in BOOLEAN
    /\ \A r \in CredRequests : credReqs[r].op = "create" => ~credReqs[r].file

\* The files: one that was swept is gone, and its row is there.
FilesAreThere ==
    /\ \A c \in CredRows : c.file => keyFiles[c.id] = c.secret \/ c.id \in swept
    /\ \A id \in swept : id \in CredIds /\ keyFiles[id] = 0 /\ RowsOf(creds, id) # {}

\* A request that nobody has outrun still knows what it has read.
Accurate(q) ==
    IF q.op \in {"create", "upload"} THEN q.was <=> ActiveOf(creds) # {}
    ELSE \E c \in CredRows : c.id = q.id /\ (c.active <=> q.was) /\ (c.file <=> q.file)
RequestsKnow ==
    \A r \in CredRequests : credReqs[r] # NoRequest /\ credReqs[r].at = "read" /\ ~credReqs[r].outrun
        => Accurate(credReqs[r])
OneServes == creds # <<>> => ActiveOf(creds) # {} \/ raced

\* What was built, and what is being built, comes from the active credential,
\* once the cache has been emptied.
BuiltFrom(x) == \E c \in ActiveOf(creds) : c.secret = x.secret
BuildingFrom(x) == \E c \in ActiveOf(creds) : c.id = x.id /\ c.secret = x.secret /\ (c.file <=> x.file)
BackendsServe ==
    Announced =>
        /\ backend # NoBackend => backend.missed \/ BuiltFrom(backend)
        /\ \A b \in Builds : building[b] # NoBuild => building[b].missed \/ BuildingFrom(building[b])

CredentialInv == CredentialTypes /\ FilesAreThere /\ RequestsKnow /\ OneServes /\ BackendsServe

LEMMA CredentialInvInit == CredentialsInit => CredentialInv
  <1> SUFFICES ASSUME CredentialsInit PROVE CredentialInv
    OBVIOUS
  <1>0. {0} \subseteq 0..MaxCredRequests /\ 0 \in 0..MaxCredRequests
    BY CredentialsAssumption
  <1>e. DOMAIN creds = {} /\ CredRows = {} /\ ActiveOf(creds) = {}
    BY DEF CredentialsInit, CredRows, ActiveOf, ToSet
  <1>a. creds \in Seq(Credential) /\ Ascending(creds)
    BY <1>e DEF CredentialsInit, Ascending
  <1>b. asked \in [requests : 0..MaxCredRequests, builds : Nat]
    BY <1>0 DEF CredentialsInit
  <1>1. CredentialTypes
    BY <1>0, <1>a, <1>b DEF CredentialsInit, CredentialTypes, NoRequest
  <1>2. FilesAreThere /\ OneServes /\ RequestsKnow
    BY <1>e DEF CredentialsInit, FilesAreThere, OneServes, RequestsKnow
  <1>3. BackendsServe
    BY DEF CredentialsInit, BackendsServe
  <1> QED BY <1>1, <1>2, <1>3 DEF CredentialInv

LEMMA RequestsAreRequests ==
  /\ \A q \in CredRequest : q # NoRequest
  /\ \A x \in [id : CredIds, secret : Secrets, file : BOOLEAN, missed : BOOLEAN] : x # NoBuild
  <1>1. ASSUME NEW q \in CredRequest PROVE q # NoRequest
    <2>1. q.op \in {"create", "upload", "update", "delete", "activate"}
      BY DEF CredRequest
    <2>2. NoRequest.op = "none"
      BY DEF NoRequest
    <2> QED BY <2>1, <2>2
  <1>2. ASSUME NEW x \in [id : CredIds, secret : Secrets, file : BOOLEAN, missed : BOOLEAN]
        PROVE  x # NoBuild
    <2>1. x.id # 0
      BY DEF CredIds
    <2>2. NoBuild.id = 0
      BY DEF NoBuild
    <2> QED BY <2>1, <2>2
  <1> QED BY <1>1, <1>2

\* The id of a new row is no row's.
LEMMA FreeIdIsFree ==
  ASSUME creds \in Seq(Credential), Ascending(creds)
  PROVE  FreeId \in Nat /\ FreeId > 0 /\ \A i \in DOMAIN creds : creds[i].id < FreeId
  <1> DEFINE ids == {c.id : c \in CredRows} \cup {0}
             n == Len(creds)
  <1>1. n \in Nat /\ DOMAIN creds = 1..n /\ \A i \in 1..n : creds[i] \in Credential
    BY LenProperties, ElementOfSeq
  <1>2. \A i \in 1..n : creds[i].id \in Nat /\ creds[i].id > 0
    BY <1>1 DEF Credential, CredIds
  <1>3. \A x \in ids : x = 0 \/ \E i \in 1..n : x = creds[i].id
    BY <1>1 DEF CredRows, ToSet
  <1>4. 0 \in ids /\ \A i \in 1..n : creds[i].id \in ids
    BY <1>1 DEF CredRows, ToSet
  <1> HIDE DEF ids, n
  <1>5. \E x \in ids : \A y \in ids : x >= y
    <2>1. CASE n = 0
      BY <2>1, <1>3, <1>4
    <2>2. CASE n # 0
      <3>1. n \in 1..n
        BY <2>2, <1>1
      <3>2. \A i \in 1..n : creds[n].id >= creds[i].id
        <4> SUFFICES ASSUME NEW i \in 1..n PROVE creds[n].id >= creds[i].id
          OBVIOUS
        <4>1. i < n \/ i = n
          BY <1>1
        <4>2. i < n => creds[i].id < creds[n].id
          BY <3>1, <1>1 DEF Ascending
        <4> QED BY <4>1, <4>2, <3>1, <1>2
      <3>3. creds[n].id >= 0
        BY <3>1, <1>2
      <3>4. \A y \in ids : creds[n].id >= y
        BY <3>2, <3>3, <1>3
      <3> QED BY <3>1, <3>4, <1>4
    <2> QED BY <2>1, <2>2
  <1>6. Max(ids) \in ids /\ \A y \in ids : Max(ids) >= y
    BY <1>5 DEF Max
  <1>7. Max(ids) \in Nat
    BY <1>6, <1>3, <1>2
  <1>8. FreeId = Max(ids) + 1
    BY DEF FreeId, ids
  <1>9. \A i \in 1..n : Max(ids) >= creds[i].id
    BY <1>4, <1>6
  <1> QED BY <1>1, <1>2, <1>7, <1>8, <1>9

\* The rows a request leaves.
NewRow(q) == [id |-> FreeId, active |-> ~q.was, secret |-> q.secret, file |-> q.file]
Rows(rows) == rows \in Seq(Credential) /\ Ascending(rows)

LEMMA RowFacts ==
  ASSUME NEW rows, Rows(rows)
  PROVE  /\ Len(rows) \in Nat /\ DOMAIN rows = 1..Len(rows)
         /\ \A i \in DOMAIN rows : rows[i] \in Credential /\ rows[i].id \in Nat
         /\ \A c, d \in ToSet(rows) : c.id = d.id => c = d
         /\ (rows = <<>> <=> Len(rows) = 0)
  <1>1. Len(rows) \in Nat /\ DOMAIN rows = 1..Len(rows) /\ \A i \in 1..Len(rows) : rows[i] \in Credential
    BY LenProperties, ElementOfSeq DEF Rows
  <1>2. \A i \in 1..Len(rows) : rows[i].id \in Nat
    BY <1>1 DEF Credential, CredIds
  <1>3. ASSUME NEW i \in DOMAIN rows, NEW j \in DOMAIN rows, rows[i].id = rows[j].id PROVE i = j
    <2>1. ~(i < j) /\ ~(j < i)
      BY <1>1, <1>2, <1>3 DEF Rows, Ascending
    <2> QED BY <2>1, <1>1
  <1>4. \A c, d \in ToSet(rows) : c.id = d.id => c = d
    BY <1>3 DEF ToSet
  <1>5. rows = <<>> <=> Len(rows) = 0
    BY EmptySeq DEF Rows
  <1> QED BY <1>1, <1>2, <1>4, <1>5

LEMMA CreatedRows ==
  ASSUME Rows(creds), NEW q \in CredRequest, FreeId \in CredIds
  PROVE  /\ Rows(Created(q)) /\ ToSet(Created(q)) = CredRows \cup {NewRow(q)}
         /\ NewRow(q) \in Credential
  <1> DEFINE n == Len(creds)
             rows == Created(q)
  <1>1. n \in Nat /\ DOMAIN creds = 1..n
    BY RowFacts
  <1>2. NewRow(q) \in Credential
    BY DEF NewRow, Credential, CredRequest, Secrets
  <1>3. /\ rows \in Seq(Credential) /\ Len(rows) = n + 1 /\ rows[n + 1] = NewRow(q)
        /\ \A i \in 1..n : rows[i] = creds[i]
    BY <1>2, AppendProperties DEF Rows, Created, NewRow
  <1>4. DOMAIN rows = 1..(n + 1)
    BY <1>3, LenProperties
  <1>5. NewRow(q).id = FreeId
    BY DEF NewRow
  <1>6. \A i \in 1..n : creds[i].id < FreeId
    BY <1>1, FreeIdIsFree DEF Rows
  <1> HIDE DEF n, rows
  <1>7. Ascending(rows)
    <2> SUFFICES ASSUME NEW i \in 1..(n + 1), NEW j \in 1..(n + 1), i < j PROVE rows[i].id < rows[j].id
      BY <1>4 DEF Ascending
    <2>1. i \in 1..n
      BY <1>1
    <2>2. CASE j \in 1..n
      BY <2>1, <2>2, <1>1, <1>3 DEF Rows, Ascending
    <2>3. CASE j = n + 1
      BY <2>1, <2>3, <1>3, <1>5, <1>6
    <2> QED BY <2>2, <2>3, <1>1
  <1>8. ToSet(rows) = CredRows \cup {NewRow(q)}
    <2>1. \A i \in 1..(n + 1) : i \in 1..n \/ i = n + 1
      BY <1>1
    <2>2. n + 1 \in 1..(n + 1) /\ \A i \in 1..n : i \in 1..(n + 1)
      BY <1>1
    <2> QED BY <2>1, <2>2, <1>1, <1>3, <1>4 DEF ToSet, CredRows
  <1> QED BY <1>2, <1>3, <1>7, <1>8 DEF Rows, rows

\* An update and an activation keep every row where it is.
LEMMA RowsKept ==
  ASSUME Rows(creds), NEW rows, rows = [i \in DOMAIN creds |-> rows[i]],
         \A i \in DOMAIN creds : rows[i] \in Credential /\ rows[i].id = creds[i].id
  PROVE  Rows(rows) /\ DOMAIN rows = DOMAIN creds /\ (rows = <<>> <=> creds = <<>>)
  <1> DEFINE n == Len(creds)
  <1>1. n \in Nat /\ DOMAIN creds = 1..n
    BY RowFacts
  <1>e. creds = <<>> <=> n = 0
    BY RowFacts
  <1> HIDE DEF n
  <1>2. rows \in Seq(Credential) /\ Len(rows) = n /\ DOMAIN rows = 1..n
    BY <1>1
  <1>3. Ascending(rows)
    BY <1>1, <1>2 DEF Rows, Ascending
  <1>4. rows = <<>> <=> n = 0
    BY <1>2, <1>3, RowFacts DEF Rows
  <1> QED BY <1>1, <1>2, <1>3, <1>4, <1>e DEF Rows

LEMMA UpdatedRows ==
  ASSUME Rows(creds), NEW q \in CredRequest
  PROVE  /\ Rows(Updated(q)) /\ DOMAIN Updated(q) = DOMAIN creds /\ (Updated(q) = <<>> <=> creds = <<>>)
         /\ \A i \in DOMAIN creds :
               /\ Updated(q)[i].id = creds[i].id /\ (Updated(q)[i].file <=> creds[i].file)
               /\ Updated(q)[i].active <=> creds[i].active
               /\ creds[i].file \/ creds[i].id # q.id => Updated(q)[i] = creds[i]
  <1> DEFINE n == Len(creds)
             rows == Updated(q)
  <1>1. DOMAIN creds = 1..n /\ \A i \in 1..n : creds[i] \in Credential
    BY RowFacts
  <1> HIDE DEF n
  <1>2. q.secret \in Secrets
    BY DEF CredRequest
  <1>3. \A i \in 1..n : rows[i] = IF creds[i].id = q.id /\ ~creds[i].file
                                  THEN [creds[i] EXCEPT !.secret = q.secret] ELSE creds[i]
    BY <1>1 DEF Updated
  <1>4. rows = [i \in DOMAIN creds |-> rows[i]]
    BY DEF Updated
  <1> HIDE DEF rows
  <1>5. \A i \in 1..n :
          /\ rows[i] \in Credential /\ rows[i].id = creds[i].id /\ (rows[i].file <=> creds[i].file)
          /\ rows[i].active <=> creds[i].active
          /\ creds[i].file \/ creds[i].id # q.id => rows[i] = creds[i]
    BY <1>1, <1>2, <1>3 DEF Credential
  <1>6. Rows(rows) /\ DOMAIN rows = DOMAIN creds /\ (rows = <<>> <=> creds = <<>>)
    BY <1>1, <1>4, <1>5, RowsKept
  <1> QED BY <1>1, <1>5, <1>6 DEF rows

LEMMA ActivatedRows ==
  ASSUME Rows(creds), NEW q \in CredRequest
  PROVE  /\ Rows(Activated(q)) /\ DOMAIN Activated(q) = DOMAIN creds
         /\ Activated(q) = <<>> <=> creds = <<>>
         /\ \A i \in DOMAIN creds :
               /\ Activated(q)[i].id = creds[i].id /\ (Activated(q)[i].file <=> creds[i].file)
               /\ Activated(q)[i].secret = creds[i].secret
               /\ Activated(q)[i].active <=> creds[i].id = q.id
  <1> DEFINE n == Len(creds)
             rows == Activated(q)
  <1>1. DOMAIN creds = 1..n /\ \A i \in 1..n : creds[i] \in Credential
    BY RowFacts
  <1> HIDE DEF n
  <1>3. \A i \in 1..n : rows[i] = [creds[i] EXCEPT !.active = creds[i].id = q.id]
    BY <1>1 DEF Activated
  <1>4. rows = [i \in DOMAIN creds |-> rows[i]]
    BY DEF Activated
  <1> HIDE DEF rows
  <1>5. \A i \in 1..n :
          /\ rows[i] \in Credential /\ rows[i].id = creds[i].id /\ (rows[i].file <=> creds[i].file)
          /\ rows[i].secret = creds[i].secret
          /\ rows[i].active <=> creds[i].id = q.id
    <2> SUFFICES ASSUME NEW i \in 1..n
                 PROVE  /\ rows[i] \in Credential /\ rows[i].id = creds[i].id
                        /\ rows[i].file <=> creds[i].file
                        /\ rows[i].secret = creds[i].secret
                        /\ rows[i].active <=> creds[i].id = q.id
      OBVIOUS
    <2>1. CASE creds[i].id = q.id
      <3>1. (creds[i].id = q.id) = TRUE
        BY <2>1
      <3>2. rows[i] = [creds[i] EXCEPT !.active = TRUE]
        BY <1>3, <3>1
      <3> QED BY <1>1, <2>1, <3>2 DEF Credential
    <2>2. CASE creds[i].id # q.id
      <3>1. (creds[i].id = q.id) = FALSE
        BY <2>2
      <3>2. rows[i] = [creds[i] EXCEPT !.active = FALSE]
        BY <1>3, <3>1
      <3> QED BY <1>1, <2>2, <3>2 DEF Credential
    <2> QED BY <2>1, <2>2
  <1>6. Rows(rows) /\ DOMAIN rows = DOMAIN creds /\ (rows = <<>> <=> creds = <<>>)
    BY <1>1, <1>4, <1>5, RowsKept
  <1> QED BY <1>1, <1>5, <1>6 DEF rows

\* A deletion takes one row out; the first of the others may be promoted.
LEMMA RowsWithout ==
  ASSUME Rows(creds), NEW id
  PROVE  Rows(Without(creds, id)) /\ ToSet(Without(creds, id)) = {c \in CredRows : c.id # id}
  <1> DEFINE n == Len(creds)
             rest == Without(creds, id)
  <1>1. /\ n \in Nat /\ DOMAIN creds = 1..n
        /\ \A i \in DOMAIN creds : creds[i] \in Credential /\ creds[i].id \in Nat
    BY RowFacts
  <1>2. CASE RowsOf(creds, id) = {}
    <2>1. rest = creds
      BY <1>2 DEF Without
    <2>2. \A c \in CredRows : c.id # id
      BY <1>2 DEF RowsOf, CredRows
    <2> QED BY <2>1, <2>2 DEF CredRows
  <1>3. CASE RowsOf(creds, id) # {}
    <2> DEFINE k == CHOOSE i \in DOMAIN creds : creds[i].id = id
    <2>1. \E i \in DOMAIN creds : creds[i].id = id
      BY <1>3 DEF RowsOf, ToSet
    <2>2. k \in DOMAIN creds /\ creds[k].id = id
      BY <2>1
    <2>3. rest = RemoveAt(creds, k)
      BY <1>3 DEF Without
    <2> HIDE DEF k, rest
    <2>4. /\ rest \in Seq(Credential) /\ DOMAIN rest = 1..(n - 1)
          /\ \A j \in 1..(n - 1) : rest[j] = IF j < k THEN creds[j] ELSE creds[j + 1]
      BY <2>2, <2>3, RemoveAtProperties DEF Rows
    <2> HIDE DEF n
    <2> DEFINE o(j) == IF j < k THEN j ELSE j + 1
    <2>5. \A j \in 1..(n - 1) : o(j) \in 1..n /\ o(j) # k /\ rest[j] = creds[o(j)]
      BY <1>1, <2>2, <2>4
    <2>6. \A i, j \in 1..(n - 1) : i < j => o(i) < o(j)
      BY <1>1, <2>2
    <2>7. \A i \in 1..n : i # k => \E j \in 1..(n - 1) : o(j) = i
      <3> SUFFICES ASSUME NEW i \in 1..n, i # k PROVE \E j \in 1..(n - 1) : o(j) = i
        OBVIOUS
      <3>1. CASE i < k
        BY <3>1, <1>1, <2>2
      <3>2. CASE i > k
        <4>1. i - 1 \in 1..(n - 1) /\ o(i - 1) = i
          BY <3>2, <1>1, <2>2
        <4> QED BY <4>1
      <3> QED BY <3>1, <3>2, <1>1, <2>2
    <2> HIDE DEF o
    <2>8. Ascending(rest)
      BY <1>1, <2>4, <2>5, <2>6 DEF Rows, Ascending
    <2>9. \A i \in 1..n : i # k => creds[i].id # id
      <3> SUFFICES ASSUME NEW i \in 1..n, i # k PROVE creds[i].id # creds[k].id
        BY <2>2
      <3>1. i < k \/ k < i
        BY <1>1, <2>2
      <3> QED BY <3>1, <1>1, <2>2 DEF Rows, Ascending
    <2>10. ToSet(rest) = {c \in CredRows : c.id # id}
      <3>1. ASSUME NEW c \in ToSet(rest) PROVE c \in CredRows /\ c.id # id
        <4>1. PICK j \in 1..(n - 1) : c = rest[j]
          BY <2>4, <3>1 DEF ToSet
        <4> QED BY <4>1, <1>1, <2>5, <2>9 DEF ToSet, CredRows
      <3>2. ASSUME NEW c \in CredRows, c.id # id PROVE c \in ToSet(rest)
        <4>1. PICK i \in 1..n : c = creds[i]
          BY <1>1, <3>2 DEF ToSet, CredRows
        <4>2. i # k
          BY <2>2, <3>2, <4>1
        <4>3. PICK j \in 1..(n - 1) : o(j) = i
          BY <2>7, <4>2
        <4> QED BY <2>4, <2>5, <4>1, <4>3 DEF ToSet
      <3> QED BY <3>1, <3>2
    <2> QED BY <2>4, <2>8, <2>10 DEF Rows, rest
  <1> QED BY <1>2, <1>3

LEMMA PromotedRows ==
  ASSUME Rows(creds), NEW q \in CredRequest
  PROVE  /\ Rows(PromotedAfter(q))
         /\ \A c \in ToSet(PromotedAfter(q)) : \E d \in CredRows :
               /\ d.id # q.id /\ c.id = d.id /\ c.secret = d.secret /\ (c.file <=> d.file)
         /\ \A d \in CredRows : d.id # q.id => \E c \in ToSet(PromotedAfter(q)) :
               c.id = d.id /\ (d.active => c.active)
         /\ q.was /\ PromotedAfter(q) # <<>> => ActiveOf(PromotedAfter(q)) # {}
  <1> DEFINE rest == Without(creds, q.id)
             rows == PromotedAfter(q)
  <1>1. Rows(rest) /\ ToSet(rest) = {c \in CredRows : c.id # q.id}
    BY RowsWithout
  <1>2. rows = IF q.was /\ rest # <<>> THEN [rest EXCEPT ![1].active = TRUE] ELSE rest
    BY DEF PromotedAfter
  <1> HIDE DEF rest, rows
  <1>3. CASE ~(q.was /\ rest # <<>>)
    BY <1>1, <1>2, <1>3 DEF rows
  <1>4. CASE q.was /\ rest # <<>>
    <2> DEFINE m == Len(rest)
               first == [rest[1] EXCEPT !.active = TRUE]
    <2>1. /\ m \in Nat /\ DOMAIN rest = 1..m /\ m # 0
          /\ \A i \in 1..m : rest[i] \in Credential
      BY <1>1, <1>4, RowFacts
    <2>2. rows = [rest EXCEPT ![1] = first] /\ 1 \in 1..m
      BY <1>2, <1>4, <2>1
    <2> HIDE DEF m
    <2>3. /\ first \in Credential /\ first.id = rest[1].id /\ first.secret = rest[1].secret
          /\ (first.file <=> rest[1].file) /\ first.active
      BY <2>1, <2>2 DEF Credential
    <2> HIDE DEF first
    <2>4. /\ rows \in Seq(Credential) /\ DOMAIN rows = 1..m
          /\ \A i \in 1..m : rows[i] = IF i = 1 THEN first ELSE rest[i]
      BY <1>1, <2>1, <2>2, <2>3 DEF Rows
    <2>5. \A i \in 1..m : /\ rows[i].id = rest[i].id /\ rows[i].secret = rest[i].secret
                          /\ (rows[i].file <=> rest[i].file) /\ (rest[i].active => rows[i].active)
      BY <2>3, <2>4
    <2>6. Ascending(rows)
      BY <1>1, <2>1, <2>4, <2>5 DEF Rows, Ascending
    <2>7. first \in ActiveOf(rows)
      BY <2>2, <2>3, <2>4 DEF ActiveOf, ToSet
    <2>8. ASSUME NEW c \in ToSet(rows)
          PROVE  \E d \in CredRows : d.id # q.id /\ c.id = d.id /\ c.secret = d.secret /\ (c.file <=> d.file)
      <3>1. PICK i \in 1..m : c = rows[i]
        BY <2>4, <2>8 DEF ToSet
      <3>2. rest[i] \in CredRows /\ rest[i].id # q.id
        BY <1>1, <2>1, <3>1 DEF ToSet
      <3> QED BY <2>5, <3>1, <3>2
    <2>9. ASSUME NEW d \in CredRows, d.id # q.id
          PROVE  \E c \in ToSet(rows) : c.id = d.id /\ (d.active => c.active)
      <3>1. d \in ToSet(rest)
        BY <1>1, <2>9
      <3>2. PICK i \in 1..m : d = rest[i]
        BY <2>1, <3>1 DEF ToSet
      <3>3. rows[i] \in ToSet(rows)
        BY <2>4, <3>2 DEF ToSet
      <3> QED BY <2>5, <3>2, <3>3
    <2> QED BY <2>4, <2>6, <2>7, <2>8, <2>9 DEF Rows, rows
  <1> QED BY <1>3, <1>4

-----------------------------------------------------------------------------
\* What a write keeps, whatever it is: the rows, the files and the promise that
\* one of them serves.
LEMMA RowsWritten ==
  ASSUME CredentialTypes, NEW q \in CredRequest,
         q.op \in {"create", "upload"} => FreeId \in CredIds
  PROVE  Rows(Written(q))
  <1>1. Rows(creds)
    BY DEF CredentialTypes, Rows
  <1>2. q.op \in {"create", "upload", "update", "delete", "activate"}
    BY DEF CredRequest
  <1> QED BY <1>1, <1>2, CreatedRows, UpdatedRows, ActivatedRows, PromotedRows DEF Written

LEMMA FilesWritten ==
  ASSUME CredentialTypes, NEW q \in CredRequest,
         q.op \in {"create", "upload"} => FreeId \in CredIds,
         NEW c \in ToSet(Written(q)), c.file
  PROVE  \/ \E d \in CredRows : d.file /\ c.id = d.id /\ c.secret = d.secret
         \/ q.op \in {"create", "upload"} /\ c = NewRow(q)
  <1>1. Rows(creds)
    BY DEF CredentialTypes, Rows
  <1>2. CASE q.op \in {"create", "upload"}
    BY <1>1, <1>2, CreatedRows DEF Written
  <1>3. CASE q.op = "update"
    <2>1. PICK i \in DOMAIN creds : c = Updated(q)[i]
      BY <1>1, <1>3, UpdatedRows DEF Written, ToSet
    <2>2. creds[i].file
      BY <1>1, <2>1, UpdatedRows
    <2>3. c = creds[i]
      BY <1>1, <2>1, <2>2, UpdatedRows
    <2> QED BY <2>2, <2>3 DEF CredRows, ToSet
  <1>4. CASE q.op = "activate"
    <2>1. PICK i \in DOMAIN creds : c = Activated(q)[i]
      BY <1>1, <1>4, ActivatedRows DEF Written, ToSet
    <2>2. creds[i].file /\ c.id = creds[i].id /\ c.secret = creds[i].secret
      BY <1>1, <2>1, ActivatedRows
    <2> QED BY <2>2 DEF CredRows, ToSet
  <1>5. CASE q.op = "delete"
    <2>1. c \in ToSet(PromotedAfter(q))
      BY <1>5 DEF Written
    <2>2. PICK d \in CredRows : c.id = d.id /\ c.secret = d.secret /\ (c.file <=> d.file)
      BY <1>1, <2>1, PromotedRows
    <2> QED BY <2>2
  <1>6. q.op \in {"create", "upload", "update", "delete", "activate"}
    BY DEF CredRequest
  <1> QED BY <1>2, <1>3, <1>4, <1>5, <1>6

LEMMA OneServesWritten ==
  ASSUME CredentialTypes, OneServes, NEW q \in CredRequest, ~raced, Accurate(q),
         q.op \in {"create", "upload"} => FreeId \in CredIds,
         Written(q) # <<>>
  PROVE  ActiveOf(Written(q)) # {}
  <1>1. Rows(creds)
    BY DEF CredentialTypes, Rows
  <1>2. CASE q.op \in {"create", "upload"}
    <2>1. Written(q) = Created(q)
      BY <1>2 DEF Written
    <2>2. ToSet(Created(q)) = CredRows \cup {NewRow(q)}
      BY <1>1, <1>2, CreatedRows
    <2>3. CASE q.was
      <3>1. ActiveOf(creds) # {}
        BY <1>2, <2>3 DEF Accurate
      <3> QED BY <2>1, <2>2, <3>1 DEF ActiveOf, CredRows
    <2>4. CASE ~q.was
      <3>1. NewRow(q).active
        BY <2>4 DEF NewRow
      <3> QED BY <2>1, <2>2, <3>1 DEF ActiveOf
    <2> QED BY <2>3, <2>4
  <1>3. CASE q.op = "update"
    <2>1. Written(q) = Updated(q) /\ creds # <<>>
      BY <1>1, <1>3, UpdatedRows DEF Written
    <2>2. PICK i \in DOMAIN creds : creds[i].active
      BY <2>1 DEF OneServes, ActiveOf, ToSet
    <2>3. i \in DOMAIN Updated(q) /\ Updated(q)[i].active
      BY <1>1, <2>2, UpdatedRows
    <2> QED BY <2>1, <2>3 DEF ActiveOf, ToSet
  <1>4. CASE q.op = "activate"
    <2>1. PICK i \in DOMAIN creds : creds[i].id = q.id
      BY <1>4 DEF Accurate, CredRows, ToSet
    <2>2. i \in DOMAIN Activated(q) /\ Activated(q)[i].active
      BY <1>1, <2>1, ActivatedRows
    <2> QED BY <1>4, <2>2 DEF Written, ActiveOf, ToSet
  <1>5. CASE q.op = "delete"
    <2>1. Written(q) = PromotedAfter(q)
      BY <1>5 DEF Written
    <2>2. CASE q.was
      BY <1>1, <2>1, <2>2, PromotedRows
    <2>3. CASE ~q.was
      <3>1. PICK c \in CredRows : c.id = q.id /\ (c.active <=> q.was)
        BY <1>5 DEF Accurate
      <3>2. creds # <<>>
        BY <3>1 DEF CredRows, ToSet
      <3>3. PICK d \in CredRows : d.active
        BY <3>2 DEF OneServes, ActiveOf, CredRows
      <3>4. d.id # q.id
        BY <1>1, <2>3, <3>1, <3>3, RowFacts DEF CredRows
      <3>5. PICK e \in ToSet(PromotedAfter(q)) : e.active
        BY <1>1, <3>3, <3>4, PromotedRows
      <3> QED BY <2>1, <3>5 DEF ActiveOf
    <2> QED BY <2>2, <2>3
  <1>6. q.op \in {"create", "upload", "update", "delete", "activate"}
    BY DEF CredRequest
  <1> QED BY <1>2, <1>3, <1>4, <1>5, <1>6

\* An update that the caches do not hear of changes no active row.
LEMMA HushedUpdate ==
  ASSUME CredentialTypes, NEW q \in CredRequest, q.op = "update",
         \A c \in RowsOf(Written(q), q.id) : ~c.active
  PROVE  ActiveOf(creds) \subseteq ActiveOf(Written(q))
  <1>1. Rows(creds) /\ Written(q) = Updated(q)
    BY DEF CredentialTypes, Rows, Written
  <1>2. SUFFICES ASSUME NEW i \in DOMAIN creds, creds[i].active
                 PROVE  creds[i] \in ActiveOf(Updated(q))
    BY <1>1 DEF ActiveOf, ToSet
  <1>3. i \in DOMAIN Updated(q) /\ Updated(q)[i].id = creds[i].id /\ Updated(q)[i].active
    BY <1>1, <1>2, UpdatedRows
  <1>4. creds[i].id # q.id
    BY <1>1, <1>3 DEF RowsOf, ToSet
  <1>5. Updated(q)[i] = creds[i]
    BY <1>1, <1>4, UpdatedRows
  <1> QED BY <1>3, <1>5 DEF ActiveOf, ToSet

-----------------------------------------------------------------------------
\* The steps.

BuildStates == [id : CredIds, secret : Secrets, file : BOOLEAN, missed : BOOLEAN] \cup {NoBuild}

LEMMA WriteStep ==
  ASSUME CredentialInv, NEW r \in CredRequests, WriteAndCommit(r)
  PROVE  CredentialInv'
  <1> DEFINE q == credReqs[r]
             rows == Written(q)
             next == IF Invalidates(q) THEN [q EXCEPT !.at = "committed"] ELSE NoRequest
             hushed == q.op = "update" /\ ~q.was /\ \E c \in RowsOf(rows, q.id) : c.active
             unserved == rows # <<>> /\ ActiveOf(rows) = {}
  <1>t. CredentialTypes /\ FilesAreThere
    BY DEF CredentialInv
  <1>1. /\ q \in CredRequest /\ q.at = "read"
        /\ q.op \in {"create", "upload"} => FreeId \in CredIds
    BY <1>t DEF WriteAndCommit, CredentialTypes
  <1>2. /\ creds' = rows /\ credReqs' = OutrunBy(r, next) /\ asked' = asked
        /\ keyFiles' = IF q.op = "upload" THEN [keyFiles EXCEPT ![FreeId] = q.secret] ELSE keyFiles
        /\ raced' = (unserved /\ (raced \/ q.outrun))
        /\ swept' = {id \in swept : RowsOf(rows, id) # {}}
        /\ backend' = IF hushed /\ backend # NoBackend THEN [backend EXCEPT !.missed = TRUE] ELSE backend
        /\ building' = IF hushed THEN AllMiss ELSE building
    BY DEF WriteAndCommit
  <1>3. Rows(rows)
    BY <1>1, <1>t, RowsWritten
  <1>4. next \in CredRequest \cup {NoRequest} /\ (next # NoRequest => next.at = "committed")
    BY <1>1 DEF CredRequest
  <1>i. Invalidates(q) => next \in CredRequest /\ next.at = "committed"
    BY <1>1 DEF CredRequest
  <1>n. ~Invalidates(q) => next = NoRequest
    OBVIOUS
  <1>q. credReqs[r] = q /\ q # NoRequest
    BY <1>1, RequestsAreRequests
  <1>f. \A c \in ToSet(rows) : c.file =>
            \/ \E d \in CredRows : d.file /\ c.id = d.id /\ c.secret = d.secret
            \/ q.op \in {"create", "upload"} /\ c = NewRow(q)
    BY <1>1, <1>t, FilesWritten
  <1>o. raced \/ q.outrun \/ ~unserved
    <2> SUFFICES ASSUME ~raced, ~q.outrun, rows # <<>> PROVE ActiveOf(rows) # {}
      OBVIOUS
    <2>1. Accurate(q) /\ OneServes
      BY <1>1, <1>q DEF CredentialInv, RequestsKnow
    <2> QED BY <2>1, <1>1, <1>t, OneServesWritten
  <1>h. q.op = "update" /\ ~hushed /\ ~q.was => ActiveOf(creds) \subseteq ActiveOf(rows)
    BY <1>1, <1>t, HushedUpdate
  <1> HIDE DEF next, rows, hushed, unserved
  <1>5. \A s \in CredRequests :
           /\ s = r => credReqs'[s] = next
           /\ s # r => IF credReqs[s] # NoRequest /\ credReqs[s].at = "read"
                       THEN credReqs'[s] = [credReqs[s] EXCEPT !.outrun = TRUE]
                       ELSE credReqs'[s] = credReqs[s]
    BY <1>2 DEF OutrunBy
  <1>6. \A s \in CredRequests \ {r} :
           /\ credReqs'[s] \in CredRequest \cup {NoRequest}
           /\ credReqs'[s] # NoRequest => credReqs[s] # NoRequest /\ credReqs'[s].at = credReqs[s].at
           /\ credReqs[s] # NoRequest => credReqs'[s] # NoRequest
           /\ credReqs'[s] # NoRequest /\ credReqs'[s].at = "read" => credReqs'[s].outrun
    <2> SUFFICES ASSUME NEW s \in CredRequests \ {r}
                 PROVE  /\ credReqs'[s] \in CredRequest \cup {NoRequest}
                        /\ credReqs'[s] # NoRequest => credReqs[s] # NoRequest /\ credReqs'[s].at = credReqs[s].at
                        /\ credReqs[s] # NoRequest => credReqs'[s] # NoRequest
                        /\ credReqs'[s] # NoRequest /\ credReqs'[s].at = "read" => credReqs'[s].outrun
      OBVIOUS
    <2>1. credReqs[s] \in CredRequest \cup {NoRequest}
      BY <1>t DEF CredentialTypes
    <2>2. CASE credReqs[s] # NoRequest /\ credReqs[s].at = "read"
      <3>1. credReqs[s] \in CredRequest /\ credReqs'[s] = [credReqs[s] EXCEPT !.outrun = TRUE]
        BY <1>5, <2>1, <2>2
      <3>2. /\ credReqs'[s] \in CredRequest /\ credReqs'[s].at = credReqs[s].at
            /\ credReqs'[s].outrun
        BY <3>1 DEF CredRequest
      <3> QED BY <2>2, <3>2, RequestsAreRequests
    <2>3. CASE ~(credReqs[s] # NoRequest /\ credReqs[s].at = "read")
      BY <1>5, <2>1, <2>3
    <2> QED BY <2>2, <2>3
  <1>7. credReqs' \in [CredRequests -> CredRequest \cup {NoRequest}]
    <2>1. credReqs' = [s \in CredRequests |-> credReqs'[s]]
      BY <1>2 DEF OutrunBy
    <2>2. \A s \in CredRequests : credReqs'[s] \in CredRequest \cup {NoRequest}
      BY <1>4, <1>5, <1>6
    <2> QED BY <2>1, <2>2
  <1>8. backend' = NoBackend \/ backend' \in [secret : Secrets, missed : BOOLEAN]
    BY <1>2, <1>t DEF CredentialTypes
  <1>9. building' \in [Builds -> BuildStates]
    <2>1. AllMiss \in [Builds -> BuildStates]
      <3>1. ASSUME NEW b \in Builds
            PROVE  (IF building[b] = NoBuild THEN NoBuild ELSE [building[b] EXCEPT !.missed = TRUE])
                     \in BuildStates
        BY <1>t DEF CredentialTypes, BuildStates
      <3> QED BY <3>1 DEF AllMiss
    <2> QED BY <2>1, <1>2, <1>t DEF CredentialTypes, BuildStates
  <1>10. keyFiles' \in [CredIds -> 0..MaxCredRequests]
    <2>1. q.secret \in 0..MaxCredRequests
      BY <1>1, CredentialsAssumption DEF CredRequest, Secrets
    <2> QED BY <2>1, <1>1, <1>2, <1>t DEF CredentialTypes
  <1>11. raced' \in BOOLEAN
    BY <1>2
  <1>c. \A s \in CredRequests : credReqs'[s].op = "create" => ~credReqs'[s].file
    <2> SUFFICES ASSUME NEW s \in CredRequests, credReqs'[s].op = "create" PROVE ~credReqs'[s].file
      OBVIOUS
    <2>1. credReqs[s] \in CredRequest \cup {NoRequest} /\ NoRequest.op = "none"
          /\ (credReqs[s].op = "create" => ~credReqs[s].file)
      BY <1>t DEF CredentialTypes, NoRequest
    <2>2. CASE s = r
      BY <2>1, <2>2, <1>1, <1>5 DEF next, CredRequest
    <2>3. CASE s # r
      BY <2>1, <2>3, <1>5 DEF CredRequest
    <2> QED BY <2>2, <2>3
  <1>12. CredentialTypes'
    BY <1>c, <1>2, <1>3, <1>7, <1>8, <1>9, <1>10, <1>11, <1>t DEF CredentialTypes, Rows, BuildStates
  <1>13. FilesAreThere'
    <2>1. q.op \in {"create", "upload"} => \A d \in CredRows : d.id # FreeId
      <3>1. \A i \in DOMAIN creds : creds[i].id < FreeId /\ creds[i].id \in Nat /\ FreeId \in Nat
        BY <1>t, FreeIdIsFree, RowFacts DEF CredentialTypes, Rows
      <3>2. \A i \in DOMAIN creds : creds[i].id # FreeId
        BY <3>1
      <3> QED BY <3>2 DEF CredRows, ToSet
    <2>2. \A id \in CredIds : keyFiles'[id] = IF q.op = "upload" /\ id = FreeId THEN q.secret ELSE keyFiles[id]
      BY <1>1, <1>2, <1>t DEF CredentialTypes
    <2>3. ASSUME NEW c \in ToSet(rows), c.file PROVE keyFiles'[c.id] = c.secret \/ c.id \in swept'
      <3>1. CASE \E d \in CredRows : d.file /\ c.id = d.id /\ c.secret = d.secret
        <4>1. PICK d \in CredRows : d.file /\ c.id = d.id /\ c.secret = d.secret
          BY <3>1
        <4>2. d.id \in CredIds
          <5>1. PICK i \in DOMAIN creds : d = creds[i]
            BY DEF CredRows, ToSet
          <5>2. creds[i] \in Credential
            BY <1>t, RowFacts DEF CredentialTypes, Rows
          <5> QED BY <5>1, <5>2 DEF Credential
        <4>3. keyFiles'[d.id] = keyFiles[d.id]
          BY <4>1, <4>2, <2>1, <2>2
        <4>4. keyFiles[d.id] = d.secret \/ d.id \in swept
          BY <4>1, <1>t DEF FilesAreThere
        <4>5. d.id \in swept => d.id \in swept'
          BY <4>1, <1>2, <2>3 DEF RowsOf
        <4> QED BY <4>1, <4>3, <4>4, <4>5
      <3>2. CASE q.op \in {"create", "upload"} /\ c = NewRow(q)
        <4>1. c.id = FreeId /\ c.secret = q.secret /\ (c.file <=> q.file)
          BY <3>2 DEF NewRow
        <4>2. q.op = "upload"
          BY <3>2, <4>1, <2>3, <1>t DEF CredentialTypes
        <4> QED BY <3>2, <4>1, <4>2, <1>1, <2>2
      <3> QED BY <3>1, <3>2, <2>3, <1>f
    <2>4. ASSUME NEW id \in swept' PROVE id \in CredIds /\ keyFiles'[id] = 0 /\ RowsOf(rows, id) # {}
      <3>1. id \in swept /\ RowsOf(rows, id) # {}
        BY <1>2, <2>4
      <3>2. id \in CredIds /\ keyFiles[id] = 0 /\ RowsOf(creds, id) # {}
        BY <3>1, <1>t DEF FilesAreThere
      <3>3. q.op = "upload" => id # FreeId
        BY <3>2, <2>1 DEF RowsOf, CredRows
      <3> QED BY <3>1, <3>2, <3>3, <2>2
    <2> QED BY <2>3, <2>4, <1>2 DEF FilesAreThere, CredRows
  <1>14. RequestsKnow'
    <2> SUFFICES ASSUME NEW s \in CredRequests, credReqs'[s] # NoRequest, credReqs'[s].at = "read",
                        ~credReqs'[s].outrun
                 PROVE  FALSE
      BY DEF RequestsKnow
    <2>1. CASE s = r
      BY <2>1, <1>4, <1>5
    <2>2. CASE s # r
      BY <2>2, <1>6
    <2> QED BY <2>1, <2>2
  <1>15. OneServes'
    BY <1>2, <1>o DEF OneServes, unserved
  <1>16. BackendsServe'
    <2> SUFFICES ASSUME Announced'
                 PROVE  /\ backend' # NoBackend => backend'.missed \/ BuiltFrom(backend)'
                        /\ \A b \in Builds : building'[b] # NoBuild =>
                              building'[b].missed \/ BuildingFrom(building[b])'
      BY DEF BackendsServe
    <2>1. ~Invalidates(q)
      BY <1>5, <1>i, RequestsAreRequests DEF Announced
    <2>2. q.op = "update" /\ ~q.was
      BY <2>1 DEF Invalidates
    <2>3. Announced
      <3> SUFFICES ASSUME NEW s \in CredRequests, credReqs[s] # NoRequest PROVE credReqs[s].at # "committed"
        BY DEF Announced
      <3>1. s = r => credReqs[s].at = "read"
        BY <1>1
      <3>2. s # r => credReqs[s].at # "committed"
        BY <1>6 DEF Announced
      <3> QED BY <3>1, <3>2
    <2>4. CASE hushed
      <3>1. building' = AllMiss /\ (backend # NoBackend => backend' = [backend EXCEPT !.missed = TRUE])
            /\ (backend = NoBackend => backend' = NoBackend)
        BY <2>4, <1>2
      <3>2. backend' # NoBackend => backend'.missed
        BY <3>1, <1>t DEF CredentialTypes
      <3>3. \A b \in Builds : building'[b] # NoBuild => building'[b].missed
        <4> SUFFICES ASSUME NEW b \in Builds, building'[b] # NoBuild PROVE building'[b].missed
          OBVIOUS
        <4>1. building[b] # NoBuild /\ building'[b] = [building[b] EXCEPT !.missed = TRUE]
          BY <3>1 DEF AllMiss
        <4> QED BY <4>1, <1>t DEF CredentialTypes
      <3> QED BY <3>2, <3>3
    <2>5. CASE ~hushed
      <3>1. backend' = backend /\ building' = building /\ ActiveOf(creds) \subseteq ActiveOf(creds')
        BY <2>2, <2>5, <1>2, <1>h
      <3>2. backend # NoBackend => backend.missed \/ BuiltFrom(backend)
        BY <2>3 DEF CredentialInv, BackendsServe
      <3>3. \A b \in Builds : building[b] # NoBuild => building[b].missed \/ BuildingFrom(building[b])
        BY <2>3 DEF CredentialInv, BackendsServe
      <3>4. BuiltFrom(backend) => BuiltFrom(backend)'
        BY <3>1 DEF BuiltFrom
      <3>5. \A b \in Builds : BuildingFrom(building[b]) => BuildingFrom(building[b])'
        BY <3>1 DEF BuildingFrom
      <3> QED BY <3>1, <3>2, <3>3, <3>4, <3>5
    <2> QED BY <2>4, <2>5
  <1> QED BY <1>12, <1>13, <1>14, <1>15, <1>16 DEF CredentialInv

\* What is left to show when the rows and the files stay.
LEMMA RowsStay ==
  ASSUME CredentialInv, CredentialTypes', creds' = creds, keyFiles' = keyFiles,
         raced' = raced, swept' = swept, RequestsKnow', BackendsServe'
  PROVE  CredentialInv'
  <1>1. CredRows' = CredRows /\ ActiveOf(creds') = ActiveOf(creds)
    BY DEF CredRows
  <1>2. FilesAreThere'
    BY <1>1 DEF CredentialInv, FilesAreThere, RowsOf
  <1>3. OneServes'
    BY <1>1 DEF CredentialInv, OneServes
  <1> QED BY <1>2, <1>3 DEF CredentialInv

\* One request changes and nothing that was built does.
LEMMA RequestMoves ==
  ASSUME CredentialTypes, NEW r \in CredRequests, NEW q \in CredRequest \cup {NoRequest},
         credReqs' = [credReqs EXCEPT ![r] = q],
         q.op = "create" => ~q.file
  PROVE  /\ credReqs' \in [CredRequests -> CredRequest \cup {NoRequest}]
         /\ \A s \in CredRequests : credReqs'[s].op = "create" => ~credReqs'[s].file
         /\ credReqs'[r] = q /\ \A s \in CredRequests \ {r} : credReqs'[s] = credReqs[s]
  <1>1. credReqs \in [CredRequests -> CredRequest \cup {NoRequest}]
    BY DEF CredentialTypes
  <1>2. credReqs'[r] = q /\ \A s \in CredRequests \ {r} : credReqs'[s] = credReqs[s]
    BY <1>1
  <1>3. \A s \in CredRequests : credReqs'[s].op = "create" => ~credReqs'[s].file
    BY <1>2 DEF CredentialTypes
  <1> QED BY <1>1, <1>2, <1>3

LEMMA ReadStep ==
  ASSUME CredentialInv, NEW r \in CredRequests, ReadForCreate(r) \/ ReadForChange(r)
  PROVE  CredentialInv'
  <1>t. CredentialTypes
    BY DEF CredentialInv
  <1>1. PICK op, id, was, file :
           /\ Reads(r, op, id, was, file)
           /\ \/ /\ op \in {"create", "upload"} /\ id = 0 /\ was = (ActiveOf(creds) # {})
                 /\ file = (op = "upload")
              \/ /\ op \in {"update", "delete", "activate"}
                 /\ \E c \in CredRows : id = c.id /\ was = c.active /\ file = c.file
    <2>1. CASE ReadForCreate(r)
      <3>1. PICK op \in {"create", "upload"} : Reads(r, op, 0, ActiveOf(creds) # {}, op = "upload")
        BY <2>1, Zenon DEF ReadForCreate
      <3> QED BY <3>1, Zenon
    <2>2. CASE ReadForChange(r)
      <3>1. PICK op \in {"update", "delete", "activate"}, c \in CredRows :
                Reads(r, op, c.id, c.active, c.file)
        BY <2>2, Zenon DEF ReadForChange
      <3>2. \E d \in CredRows : c.id = d.id /\ c.active = d.active /\ c.file = d.file
        OBVIOUS
      <3>3. op \in {"update", "delete", "activate"}
        OBVIOUS
      <3>4. \E o, id, was, file : Reads(r, o, id, was, file) /\ o = op
                /\ id = c.id /\ was = c.active /\ file = c.file
        BY <3>1, Zenon
      <3> QED BY <3>3, <3>4, SMT
    <2> QED BY <2>1, <2>2
  <1> DEFINE q == [op |-> op, at |-> "read", id |-> id, was |-> was, file |-> file,
                   secret |-> asked.requests + 1, outrun |-> FALSE]
  <1>2. /\ credReqs[r] = NoRequest /\ asked.requests < MaxCredRequests
        /\ asked' = [asked EXCEPT !.requests = @ + 1] /\ credReqs' = [credReqs EXCEPT ![r] = q]
        /\ creds' = creds /\ keyFiles' = keyFiles /\ backend' = backend /\ building' = building
        /\ raced' = raced /\ swept' = swept
    BY <1>1 DEF Reads
  <1>3. asked.requests + 1 \in Secrets /\ asked' \in [requests : 0..MaxCredRequests, builds : Nat]
    BY <1>2, <1>t, CredentialsAssumption DEF CredentialTypes, Secrets
  <1>4. \A c \in CredRows : c \in Credential /\ c.id \in CredIds
    <2>1. \A i \in DOMAIN creds : creds[i] \in Credential
      BY <1>t, RowFacts DEF CredentialTypes, Rows
    <2> QED BY <2>1 DEF CredRows, ToSet, Credential
  <1>5. /\ id \in 0..MaxCreds /\ was \in BOOLEAN /\ file \in BOOLEAN
        /\ op \in {"create", "upload", "update", "delete", "activate"}
        /\ (op = "create" => ~file)
    <2>1. CASE op \in {"create", "upload"}
      <3>1. id = 0 /\ was = (ActiveOf(creds) # {}) /\ file = (op = "upload")
        BY <1>1, <2>1
      <3>2. was \in BOOLEAN /\ file \in BOOLEAN /\ (op = "create" => ~file)
        BY <3>1
      <3> QED BY <2>1, <3>1, <3>2, CredentialsAssumption
    <2>2. CASE op \notin {"create", "upload"}
      <3>1. PICK c \in CredRows : id = c.id /\ was = c.active /\ file = c.file
        BY <1>1, <2>2
      <3>2. id \in CredIds /\ was \in BOOLEAN /\ file \in BOOLEAN
        BY <3>1, <1>4 DEF Credential
      <3> QED BY <1>1, <2>2, <3>2, CredentialsAssumption DEF CredIds
    <2> QED BY <2>1, <2>2
  <1>6. q \in CredRequest /\ (q.op = "create" => ~q.file) /\ q.at = "read" /\ q.op = op
        /\ q.id = id /\ (q.was <=> was) /\ (q.file <=> file)
    BY <1>3, <1>5 DEF CredRequest
  <1> HIDE DEF q
  <1>7. /\ credReqs' \in [CredRequests -> CredRequest \cup {NoRequest}]
        /\ \A s \in CredRequests : credReqs'[s].op = "create" => ~credReqs'[s].file
        /\ credReqs'[r] = q /\ \A s \in CredRequests \ {r} : credReqs'[s] = credReqs[s]
    BY <1>2, <1>6, <1>t, RequestMoves
  <1>8. CredentialTypes'
    BY <1>2, <1>3, <1>7, <1>t DEF CredentialTypes
  <1>9. Accurate(q)
    <2>1. CASE op \in {"create", "upload"}
      <3>1. was = (ActiveOf(creds) # {})
        BY <1>1, <2>1
      <3>2. was <=> ActiveOf(creds) # {}
        BY <3>1, Zenon
      <3> QED BY <1>6, <2>1, <3>2 DEF Accurate
    <2>2. CASE op \notin {"create", "upload"}
      <3>1. PICK c \in CredRows : id = c.id /\ was = c.active /\ file = c.file
        BY <1>1, <2>2
      <3>2. c.id = id /\ (c.active <=> was) /\ (c.file <=> file)
        BY <3>1
      <3> QED BY <1>6, <2>2, <3>2 DEF Accurate
    <2> QED BY <2>1, <2>2
  <1>10. RequestsKnow'
    <2> SUFFICES ASSUME NEW s \in CredRequests, credReqs'[s] # NoRequest, credReqs'[s].at = "read",
                        ~credReqs'[s].outrun
                 PROVE  Accurate(credReqs'[s])
      BY <1>2 DEF RequestsKnow, Accurate, CredRows
    <2>1. CASE s = r
      BY <2>1, <1>7, <1>9
    <2>2. CASE s # r
      BY <2>2, <1>7 DEF CredentialInv, RequestsKnow
    <2> QED BY <2>1, <2>2
  <1>11. Announced' => Announced
    <2> SUFFICES ASSUME Announced', NEW s \in CredRequests, credReqs[s] # NoRequest
                 PROVE  credReqs[s].at # "committed"
      BY DEF Announced
    <2>1. s # r
      BY <1>2
    <2> QED BY <2>1, <1>7 DEF Announced
  <1>12. BackendsServe'
    BY <1>2, <1>11 DEF CredentialInv, BackendsServe, BuiltFrom, BuildingFrom
  <1> QED BY <1>2, <1>8, <1>10, <1>12, RowsStay

\* A request is gone, or has one step behind it; it read nothing anew.
LEMMA RequestsKnowLess ==
  ASSUME CredentialInv, NEW r \in CredRequests, creds' = creds,
         credReqs'[r] # NoRequest => credReqs'[r].at # "read",
         \A s \in CredRequests \ {r} : credReqs'[s] = credReqs[s]
  PROVE  RequestsKnow'
  BY DEF CredentialInv, RequestsKnow, Accurate, CredRows

LEMMA RefusedStep ==
  ASSUME CredentialInv, NEW r \in CredRequests, RefusedByIndex(r)
  PROVE  CredentialInv'
  <1>t. CredentialTypes
    BY DEF CredentialInv
  <1>1. /\ credReqs[r].at = "read" /\ credReqs' = [credReqs EXCEPT ![r] = NoRequest]
        /\ creds' = creds /\ keyFiles' = keyFiles /\ backend' = backend /\ building' = building
        /\ raced' = raced /\ swept' = swept /\ asked' = asked
    BY DEF RefusedByIndex
  <1>2. /\ credReqs' \in [CredRequests -> CredRequest \cup {NoRequest}]
        /\ \A s \in CredRequests : credReqs'[s].op = "create" => ~credReqs'[s].file
        /\ credReqs'[r] = NoRequest /\ \A s \in CredRequests \ {r} : credReqs'[s] = credReqs[s]
    BY <1>1, <1>t, RequestMoves DEF NoRequest
  <1>3. CredentialTypes'
    BY <1>1, <1>2, <1>t DEF CredentialTypes
  <1>4. RequestsKnow'
    BY <1>1, <1>2, RequestsKnowLess
  <1>5. Announced' => Announced
    <2> SUFFICES ASSUME Announced', NEW s \in CredRequests, credReqs[s] # NoRequest
                 PROVE  credReqs[s].at # "committed"
      BY DEF Announced
    <2>1. s # r => credReqs'[s] = credReqs[s]
      BY <1>2
    <2> QED BY <2>1, <1>1 DEF Announced
  <1>6. BackendsServe'
    BY <1>1, <1>5 DEF CredentialInv, BackendsServe, BuiltFrom, BuildingFrom
  <1> QED BY <1>1, <1>3, <1>4, <1>6, RowsStay

LEMMA InvalidateStep ==
  ASSUME CredentialInv, NEW r \in CredRequests, InvalidateBackends(r)
  PROVE  CredentialInv'
  <1> DEFINE q == credReqs[r]
             next == IF q.op = "delete" /\ q.file THEN [q EXCEPT !.at = "cleared"] ELSE NoRequest
  <1>t. CredentialTypes
    BY DEF CredentialInv
  <1>1. /\ q # NoRequest /\ credReqs' = [credReqs EXCEPT ![r] = next]
        /\ backend' = NoBackend /\ building' = AllMiss
        /\ creds' = creds /\ keyFiles' = keyFiles /\ raced' = raced /\ swept' = swept /\ asked' = asked
    BY DEF InvalidateBackends
  <1>2. q \in CredRequest
    BY <1>1, <1>t DEF CredentialTypes
  <1>3. next \in CredRequest \cup {NoRequest} /\ next.op # "create" /\ (next # NoRequest => next.at = "cleared")
    BY <1>2 DEF CredRequest, NoRequest
  <1> HIDE DEF next
  <1>4. /\ credReqs' \in [CredRequests -> CredRequest \cup {NoRequest}]
        /\ \A s \in CredRequests : credReqs'[s].op = "create" => ~credReqs'[s].file
        /\ credReqs'[r] = next /\ \A s \in CredRequests \ {r} : credReqs'[s] = credReqs[s]
    BY <1>1, <1>3, <1>t, RequestMoves
  <1>5. building' \in [Builds -> BuildStates]
    <2>1. ASSUME NEW b \in Builds
          PROVE  (IF building[b] = NoBuild THEN NoBuild ELSE [building[b] EXCEPT !.missed = TRUE])
                   \in BuildStates
      BY <1>t DEF CredentialTypes, BuildStates
    <2> QED BY <2>1, <1>1 DEF AllMiss
  <1>6. CredentialTypes'
    BY <1>1, <1>4, <1>5, <1>t DEF CredentialTypes, BuildStates
  <1>7. RequestsKnow'
    BY <1>1, <1>3, <1>4, RequestsKnowLess
  <1>8. \A b \in Builds : building'[b] # NoBuild => building'[b].missed
    <2> SUFFICES ASSUME NEW b \in Builds, building'[b] # NoBuild PROVE building'[b].missed
      OBVIOUS
    <2>1. building[b] # NoBuild /\ building'[b] = [building[b] EXCEPT !.missed = TRUE]
      BY <1>1 DEF AllMiss
    <2> QED BY <2>1, <1>t DEF CredentialTypes
  <1>9. BackendsServe'
    BY <1>1, <1>8 DEF BackendsServe
  <1> QED BY <1>1, <1>6, <1>7, <1>9, RowsStay

LEMMA UnlinkStep ==
  ASSUME CredentialInv, NEW r \in CredRequests, UnlinkKeyFile(r)
  PROVE  CredentialInv'
  <1> DEFINE q == credReqs[r]
             gone == {c.id : c \in {d \in RowsOf(creds, q.id) : d.file}}
  <1>t. CredentialTypes
    BY DEF CredentialInv
  <1>1. /\ q.at = "cleared" /\ credReqs' = [credReqs EXCEPT ![r] = NoRequest]
        /\ keyFiles' = [keyFiles EXCEPT ![q.id] = 0] /\ swept' = swept \cup gone
        /\ backend' = backend /\ building' = building
        /\ creds' = creds /\ raced' = raced /\ asked' = asked
    BY DEF UnlinkKeyFile
  <1>2. /\ credReqs' \in [CredRequests -> CredRequest \cup {NoRequest}]
        /\ \A s \in CredRequests : credReqs'[s].op = "create" => ~credReqs'[s].file
        /\ credReqs'[r] = NoRequest /\ \A s \in CredRequests \ {r} : credReqs'[s] = credReqs[s]
    BY <1>1, <1>t, RequestMoves DEF NoRequest
  <1>0. 0 \in 0..MaxCredRequests /\ keyFiles \in [CredIds -> 0..MaxCredRequests]
    BY <1>t, CredentialsAssumption DEF CredentialTypes
  <1>3. /\ keyFiles' \in [CredIds -> 0..MaxCredRequests]
        /\ \A id \in CredIds : keyFiles'[id] = IF id = q.id THEN 0 ELSE keyFiles[id]
    BY <1>0, <1>1
  <1>4. CredentialTypes'
    BY <1>1, <1>2, <1>3, <1>t DEF CredentialTypes
  <1>5. RequestsKnow'
    BY <1>1, <1>2, RequestsKnowLess
  <1>6. Announced' => Announced
    <2> SUFFICES ASSUME Announced', NEW s \in CredRequests, credReqs[s] # NoRequest
                 PROVE  credReqs[s].at # "committed"
      BY DEF Announced
    <2>1. s # r => credReqs'[s] = credReqs[s]
      BY <1>2
    <2> QED BY <2>1, <1>1 DEF Announced
  <1>7. BackendsServe'
    BY <1>1, <1>6 DEF CredentialInv, BackendsServe, BuiltFrom, BuildingFrom
  <1>8. \A c \in CredRows : c.id \in CredIds
    <2>1. \A i \in DOMAIN creds : creds[i] \in Credential
      BY <1>t, RowFacts DEF CredentialTypes, Rows
    <2> QED BY <2>1 DEF CredRows, ToSet, Credential
  <1>9. \A id \in gone : id = q.id /\ id \in CredIds /\ RowsOf(creds, id) # {}
    BY <1>8 DEF RowsOf, CredRows
  <1>10. \A c \in CredRows : c.file /\ c.id = q.id => c.id \in gone
    BY DEF RowsOf, CredRows
  <1> HIDE DEF gone, q
  <1>11. ASSUME NEW c \in CredRows, c.file PROVE keyFiles'[c.id] = c.secret \/ c.id \in swept'
    BY <1>1, <1>3, <1>8, <1>10, <1>11 DEF CredentialInv, FilesAreThere
  <1>12. ASSUME NEW id \in swept' PROVE id \in CredIds /\ keyFiles'[id] = 0 /\ RowsOf(creds, id) # {}
    BY <1>1, <1>3, <1>9, <1>12 DEF CredentialInv, FilesAreThere
  <1>13. FilesAreThere'
    BY <1>1, <1>11, <1>12 DEF FilesAreThere, CredRows
  <1>14. OneServes'
    BY <1>1 DEF CredentialInv, OneServes
  <1> QED BY <1>4, <1>5, <1>7, <1>13, <1>14 DEF CredentialInv

LEMMA BuildStep ==
  ASSUME CredentialInv, NEW b \in Builds, LookForBackend(b) \/ KeepBackend(b)
  PROVE  CredentialInv'
  <1>t. CredentialTypes /\ FilesAreThere
    BY DEF CredentialInv
  <1>1. /\ creds' = creds /\ keyFiles' = keyFiles /\ credReqs' = credReqs /\ raced' = raced /\ swept' = swept
    BY DEF LookForBackend, KeepBackend
  <1>2. RequestsKnow' /\ (Announced' <=> Announced)
    BY <1>1 DEF CredentialInv, RequestsKnow, Accurate, CredRows, Announced
  <1>c. \A c \in CredRows : c \in Credential
    <2>1. \A i \in DOMAIN creds : creds[i] \in Credential
      BY <1>t, RowFacts DEF CredentialTypes, Rows
    <2> QED BY <2>1 DEF CredRows, ToSet
  <1>3. CASE LookForBackend(b)
    <2>1. PICK c \in ActiveOf(creds) : building' = [building EXCEPT ![b] =
                [id |-> c.id, secret |-> c.secret, file |-> c.file, missed |-> FALSE]]
      BY <1>3 DEF LookForBackend
    <2>2. backend' = backend /\ asked' = [asked EXCEPT !.builds = @ + 1]
      BY <1>3 DEF LookForBackend
    <2> DEFINE x == [id |-> c.id, secret |-> c.secret, file |-> c.file, missed |-> FALSE]
    <2>3. c \in Credential
      BY <1>c DEF ActiveOf, CredRows
    <2>4. x \in BuildStates /\ x.id = c.id /\ x.secret = c.secret /\ (x.file <=> c.file)
      BY <2>3 DEF BuildStates, Credential
    <2>5. building' = [building EXCEPT ![b] = x]
      BY <2>1
    <2> HIDE DEF x
    <2>6. building' \in [Builds -> BuildStates] /\ building'[b] = x
          /\ \A d \in Builds \ {b} : building'[d] = building[d]
      BY <2>4, <2>5, <1>t DEF CredentialTypes, BuildStates
    <2>7. asked' \in [requests : 0..MaxCredRequests, builds : Nat]
      BY <2>2, <1>t DEF CredentialTypes
    <2>8. CredentialTypes'
      BY <1>1, <2>2, <2>6, <2>7, <1>t DEF CredentialTypes, BuildStates
    <2>9. BuildingFrom(x)
      BY <2>4 DEF BuildingFrom
    <2>10. ASSUME Announced
           PROVE  \A d \in Builds : building'[d] # NoBuild => building'[d].missed \/ BuildingFrom(building'[d])
      BY <2>6, <2>9, <2>10 DEF CredentialInv, BackendsServe
    <2>11. BackendsServe'
      BY <1>1, <1>2, <2>2, <2>10 DEF CredentialInv, BackendsServe, BuiltFrom, BuildingFrom
    <2> QED BY <1>1, <1>2, <2>8, <2>11, RowsStay
  <1>4. CASE KeepBackend(b)
    <2> DEFINE c == building[b]
               secret == IF c.file THEN keyFiles[c.id] ELSE c.secret
               new == [secret |-> secret, missed |-> c.missed]
    <2>1. /\ c # NoBuild /\ building' = [building EXCEPT ![b] = NoBuild] /\ asked' = asked
          /\ secret = 0 => backend' = backend
          /\ secret # 0 => backend' = new
      BY <1>4 DEF KeepBackend
    <2>2. c.id \in CredIds /\ c.secret \in Secrets /\ c.missed \in BOOLEAN /\ c.file \in BOOLEAN
      BY <2>1, <1>t DEF CredentialTypes
    <2>3. secret # 0 => secret \in Secrets
      BY <2>2, <1>t, CredentialsAssumption DEF CredentialTypes, Secrets
    <2>4. building' \in [Builds -> BuildStates] /\ \A d \in Builds : building'[d] # NoBuild => building'[d] = building[d]
      BY <2>1, <1>t DEF CredentialTypes, BuildStates
    <2>5. secret # 0 => new \in [secret : Secrets, missed : BOOLEAN] /\ new.secret = secret
                        /\ (new.missed <=> c.missed)
      BY <2>2, <2>3
    <2> HIDE DEF new
    <2>6. backend' = NoBackend \/ backend' \in [secret : Secrets, missed : BOOLEAN]
      BY <2>1, <2>5, <1>t DEF CredentialTypes
    <2>7. CredentialTypes'
      BY <1>1, <2>1, <2>4, <2>6, <1>t DEF CredentialTypes, BuildStates
    <2>8. ASSUME Announced, secret # 0 PROVE new.missed \/ BuiltFrom(new)
      <3>1. c.missed \/ BuildingFrom(c)
        BY <2>1, <2>8 DEF CredentialInv, BackendsServe
      <3>2. ASSUME BuildingFrom(c) PROVE BuiltFrom(new)
        <4>1. PICK d \in ActiveOf(creds) : d.id = c.id /\ d.secret = c.secret /\ (d.file <=> c.file)
          BY <3>2 DEF BuildingFrom
        <4>2. d.file => keyFiles[d.id] = d.secret \/ keyFiles[d.id] = 0
          BY <4>1, <1>t DEF FilesAreThere, ActiveOf, CredRows
        <4>3. secret = d.secret
          BY <2>8, <4>1, <4>2
        <4> QED BY <2>5, <2>8, <4>1, <4>3 DEF BuiltFrom
      <3> QED BY <2>5, <2>8, <3>1, <3>2
    <2>9. ASSUME Announced, backend' # NoBackend PROVE backend'.missed \/ BuiltFrom(backend')
      <3>1. CASE secret = 0
        BY <2>1, <2>9, <3>1 DEF CredentialInv, BackendsServe
      <3>2. CASE secret # 0
        BY <2>1, <2>8, <2>9, <3>2
      <3> QED BY <3>1, <3>2
    <2>10. BackendsServe'
      BY <1>1, <1>2, <2>4, <2>9 DEF CredentialInv, BackendsServe, BuiltFrom, BuildingFrom
    <2> QED BY <1>1, <1>2, <2>7, <2>10, RowsStay
  <1> QED BY <1>3, <1>4

LEMMA CredentialInvStep == CredentialInv /\ [CredentialsNext]_credentialVars => CredentialInv'
  <1> SUFFICES ASSUME CredentialInv, [CredentialsNext]_credentialVars PROVE CredentialInv'
    OBVIOUS
  <1>1. CASE UNCHANGED credentialVars
    <2>1. /\ creds' = creds /\ keyFiles' = keyFiles /\ credReqs' = credReqs /\ backend' = backend
          /\ building' = building /\ asked' = asked /\ raced' = raced /\ swept' = swept
      BY <1>1 DEF credentialVars
    <2>2. CredentialTypes'
      BY <2>1 DEF CredentialInv, CredentialTypes
    <2>3. RequestsKnow' /\ BackendsServe'
      BY <2>1 DEF CredentialInv, RequestsKnow, Accurate, CredRows, BackendsServe, Announced,
                  BuiltFrom, BuildingFrom
    <2> QED BY <2>1, <2>2, <2>3, RowsStay
  <1>2. CASE CredentialsNext
    BY <1>2, ReadStep, WriteStep, RefusedStep, InvalidateStep, UnlinkStep, BuildStep DEF CredentialsNext
  <1> QED BY <1>1, <1>2

\* One credential serves, its file is there, and what tasks find is built from
\* it, outside of the four races: for any number of requests and credentials.
THEOREM TheActiveOneIsUsed == CredentialsSpec => []ActiveIsUsed
  <1>1. CredentialInv => ActiveIsUsed
    BY DEF CredentialInv, ActiveIsUsed, OneServes, FilesAreThere, BackendsServe, BuiltFrom
  <1>2. CredentialsSpec => []CredentialInv
    BY CredentialInvInit, CredentialInvStep, PTL DEF CredentialsSpec
  <1> QED BY <1>1, <1>2, PTL

=============================================================================
