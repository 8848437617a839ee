------------------------------- MODULE MCAgent -------------------------------
(***************************************************************************)
(* A small instance of the parts of the assistant's runtime and of the     *)
(* queue client its tools call.  They are checked side by side: `part`     *)
(* says which one this behaviour is about, the others keep their initial   *)
(* state.  The event streams and the snapshot cache share the session's    *)
(* turns only, so they are parts of their own.                             *)
(***************************************************************************)
EXTENDS SessionActor, SessionManager, AssistantStream, QueueClient, TLC

CONSTANTS q1, q2, q3, i1, d1, a, b, c1, c2, NoCommand, Parts,
          t1, t2, t3, k1, k2, image, demo

VARIABLE part

MCCommands == {q1, q2, q3, i1, d1}
MCKindOf == q1 :> "query" @@ q2 :> "query" @@ q3 :> "query" @@
            i1 :> "interrupt" @@ d1 :> "disconnect"

Job(kind, sid) == [kind |-> kind, sid |-> sid]
\* Every pair of a send with another call on its session, and with a new
\* session that competes for the only place.
MCPlans == {c1 :> Job("send", a) @@ c2 :> Job(k, a) : k \in {"send", "close", "interrupt"}}
             \cup {c1 :> Job("send", a) @@ c2 :> Job("new", b)}

\* c1 enqueues a chain of two, c2 the first of them; k1 can be enqueued twice.
MCKeyOf == t1 :> k1 @@ t2 :> k2 @@ t3 :> k1
MCProjectOf == [t \in Tasks |-> demo]
MCLaneOf == [t \in Tasks |-> image]
MCProviderOf == [t \in Tasks |-> None]
MCBatchOf == c1 :> <<k1, k2>> @@ c2 :> <<k1>>
MCAfter == k1 :> None @@ k2 :> k1
\* Bound: of the two requests for k1 t1 is the first.
FirstComesFirst == status[t3] # "absent" => status[t1] # "absent"

toolVars == <<queueVars, callerVars>>
agentVars == <<part, actorVars, managerVars, streamVars, toolVars>>

\* Bound: nothing fails while two sessions compete for the place.
NoFaultsInContest == plan[c2].kind = "new" => faults' = 0

\* The plan of the calls matters to the manager alone.
AnyPlan == CHOOSE p \in MCPlans : TRUE
MCInit ==
    /\ part \in Parts /\ ActorInit /\ ManagerInit /\ StreamInit
    /\ BatchInit
    /\ part # "manager" => plan = AnyPlan
    /\ part # "tool" => online

ActorPart   == part = "actor" /\ UNCHANGED <<part, managerVars, streamVars, toolVars>>
ManagerPart == part = "manager" /\ UNCHANGED <<part, actorVars, streamVars, toolVars>>
StreamPart  == part \in {"stream", "cache"} /\ UNCHANGED <<part, actorVars, managerVars, toolVars>>
ToolPart    == part = "tool" /\ UNCHANGED <<part, actorVars, managerVars, streamVars>>

MCNext ==
    \/ ActorPart /\ ActorNext
    \/ ManagerPart /\ ManagerNext /\ NoFaultsInContest
    \/ StreamPart /\ SessionTurn
    \/ StreamPart /\ part = "stream" /\ ClientActs
    \/ StreamPart /\ part = "cache" /\ ReaderActs
    \/ ToolPart /\ BatchNext /\ FirstComesFirst'

MCSpec == MCInit /\ [][MCNext]_agentVars

\* As long as anything of what ActorFair, ManagerFair, StreamFair and BatchFair
\* name can
\* go on, something does.  In an instance with finitely many commands, calls
\* and messages this weaker assumption is enough, and far cheaper to check.
MCProgress ==
    \/ ActorPart /\ (ActorStep \/ \E how \in {"end", "raised"} : StreamEnds(how))
    \/ ManagerPart /\ ManagerProgress /\ NoFaultsInContest
    \/ StreamPart /\ (TurnEnding \/ \E c \in Clients : ClientStep(c))
    \/ ToolPart /\ (\E c \in Callers : BatchStep(c)) /\ FirstComesFirst'
MCFair == WF_agentVars(MCProgress)

FairMCSpec == MCSpec /\ MCFair

=============================================================================
