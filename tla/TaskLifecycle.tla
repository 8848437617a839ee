---------------------------- MODULE TaskLifecycle ----------------------------
(***************************************************************************)
(* What the generation queue and its worker together promise about tasks   *)
(* (docs/adr/0006 and 0007), without queue order, slots, coroutines and    *)
(* restarts.                                                               *)
(*                                                                         *)
(*   - a task moves along Moves only: a running task is never taken to     *)
(*     cancelled directly, and cancelling leads to cancelled only;         *)
(*   - it starts only after the task it depends on has succeeded, and      *)
(*     while it is queued it fails only together with that task;           *)
(*   - it is submitted to a provider at most once, while it is running or  *)
(*     being cancelled, and never goes back to the queue after that.       *)
(*                                                                         *)
(* One step may move several tasks: cascades and bulk cancels are atomic.  *)
(***************************************************************************)
EXTENDS Naturals

CONSTANTS Tasks, None

VARIABLES
    life,       \* life cycle state of each task
    after,      \* the task it waits for, or None
    submitted   \* number of submissions to a provider

lifeVars == <<life, after, submitted>>

Ended == {"succeeded", "failed", "cancelled"}

Moves ==
    {<<"absent", "queued">>,
     <<"queued", "running">>, <<"queued", "failed">>, <<"queued", "cancelled">>,
     <<"running", "queued">>, <<"running", "cancelling">>,
     <<"running", "succeeded">>, <<"running", "failed">>,
     <<"cancelling", "cancelled">>}

LifeInit ==
    /\ life = [t \in Tasks |-> "absent"]
    /\ after = [t \in Tasks |-> None]
    /\ submitted = [t \in Tasks |-> 0]

\* What waits for nothing, or for a task that has succeeded, may run.
MayRun(t) == after[t] = None \/ (after[t] \in Tasks /\ life[after[t]] = "succeeded")

LegalMove(t) ==
    /\ <<life[t], life'[t]>> \in Moves
    /\ life'[t] = "running" => MayRun(t)
    /\ life[t] = "queued" /\ life'[t] = "failed" =>
           after[t] \in Tasks /\ life'[after[t]] = "failed"
    /\ life'[t] = "queued" => submitted[t] = 0

\* Some tasks move; only a new task chooses what it waits for.
MoveTasks ==
    /\ life' \in [Tasks -> {m[2] : m \in Moves}  \cup {"absent"}]
    /\ \A t \in Tasks : life'[t] # life[t] => LegalMove(t)
    /\ \A t \in Tasks : life[t] # "absent" => after'[t] = after[t]
    /\ UNCHANGED submitted

SubmitTask(t) ==
    /\ life[t] \in {"running", "cancelling"} /\ submitted[t] = 0
    /\ submitted' = [submitted EXCEPT ![t] = 1]
    /\ UNCHANGED <<life, after>>

LifeNext == MoveTasks \/ \E t \in Tasks : SubmitTask(t)

LifeSpec == LifeInit /\ [][LifeNext]_lifeVars
=============================================================================
