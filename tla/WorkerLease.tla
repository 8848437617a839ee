----------------------------- MODULE WorkerLease -----------------------------
(***************************************************************************)
(* The lease of the generation worker (task_repo.py, worker_leases) and    *)
(* what its owner does with it in _run_loop: renew, look at the running    *)
(* rows it takes for orphans, claim.  Two processes may be alive at once:  *)
(* the one that is being stopped, which waits for its coroutines without   *)
(* renewing, and the one that replaces it.  An error ends a loop for good: *)
(* the lease is given back while the coroutines of the process go on.      *)
(*                                                                         *)
(* Time is the age of the lease and of a loss, counted in ticks; a step of *)
(* a loop may come arbitrarily late.                                       *)
(***************************************************************************)
EXTENDS Naturals

CONSTANTS
    Workers,
    LeaseTasks,
    NoOwner,
    Ttl,          \* lease_ttl in ticks
    RescanAfter   \* _ORPHAN_RESCAN_LEASE_LOST_MULT * lease_ttl

ASSUME LeaseAssumption ==
    NoOwner \notin Workers /\ Ttl \in Nat \ {0} /\ RescanAfter \in Nat

VARIABLES
    lease,        \* the row: its owner and the ticks it is still good for
    loop,         \* program point of a process
    owns,         \* processes whose _owns_lease is set
    lostFor,      \* ticks since _lease_lost_monotonic
    lost,         \* processes that have a _lease_lost_monotonic
    scanned,      \* processes whose _orphan_handled_once is set
    suspects,     \* the rows a scan has still to judge
    adopted,      \* resumable_by_provider: rows a scan has collected to resume
    mine,         \* the task ids of a process's SlotTable
    taskRow,      \* the status column of a task
    lapsed        \* processes that let a lease of theirs expire (history)

leaseVars == <<lease, loop, owns, lostFor, lost, scanned, suspects, adopted, mine, taskRow, lapsed>>
process   == <<owns, lostFor, lost, scanned>>

LeaseTypeOK ==
    /\ lease \in [owner : Workers \cup {NoOwner}, left : 0..Ttl]
    /\ loop \in [Workers -> {"down", "renew", "scan", "judge", "claim", "stopping", "broken"}]
    /\ {owns, lost, scanned, lapsed} \subseteq SUBSET Workers
    /\ lostFor \in [Workers -> 0 .. RescanAfter + 1]
    /\ suspects \in [Workers -> SUBSET LeaseTasks]
    /\ {adopted, mine} \subseteq [Workers -> SUBSET LeaseTasks]
    /\ taskRow \in [LeaseTasks -> {"queued", "running", "ended"}]

LeaseInit ==
    /\ lease = [owner |-> NoOwner, left |-> 0]
    /\ loop = [w \in Workers |-> "down"]
    /\ owns = {} /\ lost = {} /\ scanned = {} /\ lapsed = {}
    /\ lostFor = [w \in Workers |-> 0]
    /\ suspects = [w \in Workers |-> {}] /\ adopted = suspects /\ mine = suspects
    /\ taskRow = [t \in LeaseTasks |-> "queued"]

LoopAt(w, p) == loop' = [loop EXCEPT ![w] = p]
Up(w) == loop[w] # "down"
With(S, w, yes) == IF yes THEN S \cup {w} ELSE S \ {w}

-----------------------------------------------------------------------------
Tick ==
    /\ lease' = [lease EXCEPT !.left = IF @ = 0 THEN 0 ELSE @ - 1]
    /\ lostFor' = [w \in Workers |-> IF w \in lost /\ lostFor[w] <= RescanAfter
                                     THEN lostFor[w] + 1 ELSE lostFor[w]]
    /\ lapsed' = IF lease.left <= 1 /\ lease.owner # NoOwner
                 THEN lapsed \cup {w \in {lease.owner} : Up(w)} ELSE lapsed
    /\ UNCHANGED <<loop, owns, lost, scanned, suspects, adopted, mine, taskRow>>

StartWorker(w) ==
    /\ loop[w] = "down" /\ LoopAt(w, "renew")
    /\ owns' = owns \ {w} /\ lost' = lost \ {w} /\ scanned' = scanned \ {w}
    /\ lostFor' = [lostFor EXCEPT ![w] = 0] /\ lapsed' = lapsed \ {w}
    /\ UNCHANGED <<lease, suspects, adopted, mine, taskRow>>

\* Mutant: the WHERE clause without the owner and the time.
MayTakeAnyway(w) == TRUE

\* The WHERE clause of acquire_or_renew_lease, or a fresh row.
MayTake(w) == lease.owner \in {w, NoOwner} \/ lease.left = 0

\* The head of a cycle: a loss is dated when it is noticed, and a lease that
\* was away for long makes the process scan again.
Renew(w) ==
    LET got == MayTake(w)
        again == got /\ w \in lost /\ lostFor[w] > RescanAfter
        done == w \in scanned /\ ~again
    IN  /\ loop[w] = "renew"
        /\ lease' = IF got THEN [owner |-> w, left |-> Ttl] ELSE lease
        /\ owns' = With(owns, w, got)
        /\ lost' = With(lost, w, ~got /\ (w \in owns \cup lost))
        /\ lostFor' = IF got \/ w \notin lost THEN [lostFor EXCEPT ![w] = 0] ELSE lostFor
        /\ scanned' = With(scanned, w, done)
        /\ LoopAt(w, IF ~got THEN "renew" ELSE IF done THEN "claim" ELSE "scan")
        /\ UNCHANGED <<suspects, adopted, mine, taskRow, lapsed>>

Running == {t \in LeaseTasks : taskRow[t] = "running"}

\* list_orphan_tasks_on_start without self_active_task_ids.
ListOrphans(w) ==
    /\ loop[w] = "scan" /\ LoopAt(w, "judge")
    /\ suspects' = [suspects EXCEPT ![w] = Running \ mine[w]]
    /\ UNCHANGED <<lease, process, adopted, mine, taskRow, lapsed>>

\* A row is failed, or collected to be resumed.
JudgeOrphan(w, t) ==
    /\ loop[w] = "judge" /\ t \in suspects[w]
    /\ suspects' = [suspects EXCEPT ![w] = @ \ {t}]
    /\ \/ taskRow' = [taskRow EXCEPT ![t] = "ended"] /\ UNCHANGED adopted
       \/ adopted' = [adopted EXCEPT ![w] = @ \cup {t}] /\ UNCHANGED taskRow
    /\ UNCHANGED <<lease, loop, process, mine, lapsed>>

EndScan(w) ==
    /\ loop[w] = "judge" /\ suspects[w] = {} /\ LoopAt(w, "claim")
    /\ scanned' = scanned \cup {w}
    /\ mine' = [mine EXCEPT ![w] = @ \cup adopted[w]] /\ adopted' = [adopted EXCEPT ![w] = {}]
    /\ UNCHANGED <<lease, owns, lostFor, lost, suspects, taskRow, lapsed>>

ClaimTask(w, t) ==
    /\ loop[w] = "claim" /\ taskRow[t] = "queued"
    /\ taskRow' = [taskRow EXCEPT ![t] = "running"]
    /\ mine' = [mine EXCEPT ![w] = @ \cup {t}]
    /\ UNCHANGED <<lease, loop, process, suspects, adopted, lapsed>>

EndCycle(w) ==
    /\ loop[w] = "claim" /\ LoopAt(w, "renew")
    /\ UNCHANGED <<lease, process, suspects, adopted, mine, taskRow, lapsed>>

\* A coroutine ends; its UPDATE does nothing to a row that has ended.
TaskEnds(w, t) ==
    /\ t \in mine[w] /\ mine' = [mine EXCEPT ![w] = @ \ {t}]
    /\ taskRow' = [taskRow EXCEPT ![t] = "ended"]
    /\ UNCHANGED <<lease, loop, process, suspects, adopted, lapsed>>

Released(w) == IF w \in owns /\ lease.owner = w THEN [owner |-> NoOwner, left |-> 0] ELSE lease

\* stop(): the loop ends, waits for its coroutines, and gives the lease back.
StopWorker(w) ==
    /\ loop[w] = "renew" /\ LoopAt(w, "stopping")
    /\ UNCHANGED <<lease, process, suspects, adopted, mine, taskRow, lapsed>>
ReleaseLease(w) ==
    /\ loop[w] = "stopping" /\ mine[w] = {} /\ LoopAt(w, "down")
    /\ lease' \in {Released(w), lease}
    /\ UNCHANGED <<process, suspects, adopted, mine, taskRow, lapsed>>

\* A database error in a call of the loop, which has a finally clause and no
\* handler: what a scan had collected is lost, coroutines go on, and giving the
\* lease back may fail as well.
LoopFails(w) ==
    /\ loop[w] \in {"renew", "scan", "judge", "claim"} /\ LoopAt(w, "broken")
    /\ suspects' = [suspects EXCEPT ![w] = {}] /\ adopted' = [adopted EXCEPT ![w] = {}]
    /\ \/ lease' = Released(w) /\ owns' = owns \ {w}
       \/ UNCHANGED <<lease, owns>>
    /\ UNCHANGED <<lostFor, lost, scanned, mine, taskRow, lapsed>>

CrashWorker(w) ==
    /\ Up(w) /\ LoopAt(w, "down")
    /\ mine' = [mine EXCEPT ![w] = {}] /\ suspects' = [suspects EXCEPT ![w] = {}]
    /\ adopted' = [adopted EXCEPT ![w] = {}]
    /\ UNCHANGED <<lease, process, taskRow, lapsed>>

LeaseNext ==
    \/ Tick
    \/ \E w \in Workers :
        \/ StartWorker(w) \/ Renew(w) \/ ListOrphans(w) \/ EndScan(w) \/ EndCycle(w)
        \/ StopWorker(w) \/ ReleaseLease(w) \/ LoopFails(w) \/ CrashWorker(w)
        \/ \E t \in LeaseTasks : JudgeOrphan(w, t) \/ ClaimTask(w, t) \/ TaskEnds(w, t)

LeaseSpec == LeaseInit /\ [][LeaseNext]_leaseVars

-----------------------------------------------------------------------------
\* What a process is working on, or about to resume.
AtHand(w) == mine[w] \cup adopted[w]

\* A scan never judges a row that a living process has at hand, its own
\* process least of all, unless one of the two has let its lease expire, by a
\* cycle that took longer than the time to live or by waiting for its
\* coroutines after stop(), or the loop of the other one has ended in an error
\* over its coroutines (the finally clause of _run_loop).  So a process alone
\* never preempts itself, and two that keep their time and their loops never
\* share a task.
LeaseGuardsScan ==
    \A v, w \in Workers :
        suspects[v] \cap AtHand(w) # {} => w # v /\ ({v, w} \cap lapsed # {} \/ loop[w] = "broken")
=============================================================================
