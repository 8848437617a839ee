---------------------------- MODULE SessionActor ----------------------------
(***************************************************************************)
(* server/agent_runtime/session_actor.py: one asyncio task owns one SDK    *)
(* client and serves the commands of its queue; while a response streams,  *)
(* it waits for the next message and for the next command at once.         *)
(*                                                                         *)
(* An action is the code between two awaits.  The client is external: a    *)
(* call of it returns or raises.  `hand` is the result of cmd_task: a      *)
(* command that left the queue and that the task has not looked at yet.    *)
(***************************************************************************)
EXTENDS Naturals, Sequences

CONSTANTS
    Cmds,          \* SessionCommand objects
    KindOf,        \* their type
    NoCmd,         \* None
    MayRaise,      \* client calls that may raise: query, interrupt, receive
    MayCancel      \* whether cancel_and_wait may be called

ActorFaults == {"query", "interrupt", "receive"}

ASSUME ActorAssumption ==
    /\ KindOf \in [Cmds -> {"query", "interrupt", "disconnect"}]
    /\ NoCmd \notin Cmds
    /\ MayRaise \subseteq ActorFaults
    /\ MayCancel \in BOOLEAN

VARIABLES
    actorAt,     \* where _run, _command_loop or _drive_query stands
    cmdQueue,    \* _cmd_queue
    turn,        \* query_cmd: the query whose response streams
    hand,        \* the result of a finished cmd_task
    aside,       \* pending_query
    stream,      \* what msg_task has: nothing yet, the end, an exception
    handed,      \* commands given to enqueue
    sentCmds,    \* commands with `sent` set
    doneCmds,    \* commands with `done` set
    failedCmds,  \* commands with an error
    cancelActor, \* an asyncio cancellation of the actor task is pending
    lostInHand   \* commands in `hand` when the task ended (history)

actorVars == <<actorAt, cmdQueue, turn, hand, aside, stream, handed,
               sentCmds, doneCmds, failedCmds, cancelActor, lostInHand>>

ActorPoints == {"connecting", "idle", "querying", "driving", "interrupting",
                "closing", "exiting", "ended"}

ActorTypeOK ==
    /\ actorAt \in ActorPoints
    /\ cmdQueue \in Seq(Cmds)
    /\ {turn, hand, aside} \subseteq Cmds \cup {NoCmd}
    /\ stream \in {"none", "end", "raised"}
    /\ handed \subseteq Cmds /\ sentCmds \subseteq handed
    /\ doneCmds \subseteq handed /\ failedCmds \subseteq handed
    /\ cancelActor \in BOOLEAN
    /\ lostInHand \subseteq Cmds

ActorInit ==
    /\ actorAt = "connecting" /\ cmdQueue = <<>>
    /\ turn = NoCmd /\ hand = NoCmd /\ aside = NoCmd
    /\ stream = "none"
    /\ handed = {} /\ sentCmds = {} /\ doneCmds = {} /\ failedCmds = {}
    /\ cancelActor = FALSE /\ lostInHand = {}

Real(c) == {c} \ {NoCmd}
Queued == {cmdQueue[i] : i \in DOMAIN cmdQueue}

-----------------------------------------------------------------------------
(* Answering.  SessionCommand.complete sets both events, with or without   *)
(* an error; a query is `sent` when the client took its prompt.            *)

Complete(cs) ==
    /\ sentCmds' = sentCmds \cup cs
    /\ doneCmds' = doneCmds \cup cs
    /\ UNCHANGED failedCmds

Fail(cs) ==
    /\ sentCmds' = sentCmds \cup cs
    /\ doneCmds' = doneCmds \cup cs
    /\ failedCmds' = failedCmds \cup cs

Unanswered == UNCHANGED <<sentCmds, doneCmds, failedCmds>>

\* What a task that forgets pending_query on its way out would do.
DieForgetful(cs) ==
    /\ Fail((cs \cup Queued) \ (doneCmds \cup {NoCmd}))
    /\ lostInHand' = lostInHand \cup Real(hand)
    /\ actorAt' = "ended" /\ cmdQueue' = <<>> /\ stream' = "none"
    /\ turn' = NoCmd /\ hand' = NoCmd /\ aside' = NoCmd
    /\ cancelActor' = FALSE
    /\ UNCHANGED handed

\* The task leaves by an exception: the command it works on (cs) and
\* pending_query are completed on the way out, _drain_pending_commands takes
\* the queue.  Nobody looks at the result of cmd_task any more.
Die(cs) ==
    /\ Fail((cs \cup Real(aside) \cup Queued) \ (doneCmds \cup {NoCmd}))
    /\ lostInHand' = lostInHand \cup Real(hand)
    /\ actorAt' = "ended" /\ cmdQueue' = <<>> /\ stream' = "none"
    /\ turn' = NoCmd /\ hand' = NoCmd /\ aside' = NoCmd
    /\ cancelActor' = FALSE
    /\ UNCHANGED handed

-----------------------------------------------------------------------------
(* Callers.  The commands are fresh objects; a new interrupt is not sent    *)
(* while one is unanswered (ManagedSession._interrupting).                  *)

EnqueueBlindly(c) ==
    /\ c \notin handed
    /\ handed' = handed \cup {c}
    /\ cmdQueue' = Append(cmdQueue, c) /\ Unanswered
    /\ UNCHANGED <<actorAt, turn, hand, aside, stream, cancelActor, lostInHand>>

EnqueueCmd(c) ==
    /\ c \notin handed
    /\ actorAt # "connecting"     \* commands follow actor.start()
    /\ KindOf[c] = "interrupt" =>
         \A d \in handed \ doneCmds : KindOf[d] # "interrupt"
    /\ handed' = handed \cup {c}
    /\ IF actorAt = "ended"
       THEN Fail({c}) /\ UNCHANGED cmdQueue
       ELSE cmdQueue' = Append(cmdQueue, c) /\ Unanswered
    /\ UNCHANGED <<actorAt, turn, hand, aside, stream, cancelActor, lostInHand>>

\* cancel_and_wait, the fallback of an eviction whose disconnect was not
\* answered in time.
CancelActor ==
    /\ MayCancel /\ ~cancelActor /\ actorAt # "ended"
    /\ \E d \in handed \ doneCmds : KindOf[d] = "disconnect"
    /\ cancelActor' = TRUE
    /\ UNCHANGED <<actorAt, cmdQueue, turn, hand, aside, stream, handed,
                   sentCmds, doneCmds, failedCmds, lostInHand>>

-----------------------------------------------------------------------------
(* The actor task.                                                         *)

\* `async with client_factory()`: connected, or the task dies with _fatal.
ActorConnects ==
    /\ actorAt = "connecting" /\ actorAt' = "idle"
    /\ UNCHANGED <<cmdQueue, turn, hand, aside, stream, handed, sentCmds,
                   doneCmds, failedCmds, cancelActor, lostInHand>>

ActorCannotConnect == actorAt = "connecting" /\ Die({})

\* _command_loop with a command: from the queue, or handed over by a turn.
Serve(c) ==
    CASE KindOf[c] = "disconnect" ->
            actorAt' = "exiting" /\ turn' = NoCmd /\ Complete({c})
      [] KindOf[c] = "query" ->
            actorAt' = "querying" /\ turn' = c /\ Unanswered
      [] KindOf[c] = "interrupt" ->      \* no turn to interrupt
            actorAt' = "idle" /\ turn' = NoCmd /\ Complete({c})

TakeCommand ==
    /\ actorAt = "idle" /\ cmdQueue # <<>> /\ ~cancelActor
    /\ cmdQueue' = Tail(cmdQueue)
    /\ Serve(Head(cmdQueue))
    /\ UNCHANGED <<hand, aside, stream, handed, cancelActor, lostInHand>>

\* client.query returns: the prompt is sent, the response begins to stream.
PromptTaken ==
    /\ actorAt = "querying" /\ ~cancelActor
    /\ actorAt' = "driving" /\ stream' = "none"
    /\ sentCmds' = sentCmds \cup {turn}
    /\ UNCHANGED <<cmdQueue, turn, hand, aside, handed, doneCmds, failedCmds,
                   cancelActor, lostInHand>>

PromptRaises == "query" \in MayRaise /\ actorAt = "querying" /\ Die({turn})

\* msg_task finishes: the response is complete, or the SDK raises.  Messages
\* before the end change nothing here.
StreamEnds(how) ==
    /\ actorAt \in {"driving", "interrupting", "closing"} /\ stream = "none"
    /\ how = "raised" => "receive" \in MayRaise
    /\ stream' = how
    /\ UNCHANGED <<actorAt, cmdQueue, turn, hand, aside, handed, sentCmds,
                   doneCmds, failedCmds, cancelActor, lostInHand>>

\* cmd_task finishes: queue.get() returns a command.
CommandArrives ==
    /\ actorAt = "driving" /\ hand = NoCmd /\ cmdQueue # <<>>
    /\ hand' = Head(cmdQueue) /\ cmdQueue' = Tail(cmdQueue)
    /\ UNCHANGED <<actorAt, turn, aside, stream, handed, sentCmds, doneCmds,
                   failedCmds, cancelActor, lostInHand>>

\* StopAsyncIteration: a query set aside goes first and a command at hand
\* goes back to the end of the queue; otherwise the command at hand is next.
TurnEnds ==
    /\ actorAt = "driving" /\ stream = "end" /\ ~cancelActor
    /\ stream' = "none" /\ hand' = NoCmd /\ aside' = NoCmd
    /\ IF aside # NoCmd
       THEN /\ cmdQueue' = IF hand = NoCmd THEN cmdQueue ELSE Append(cmdQueue, hand)
            /\ actorAt' = "querying" /\ turn' = aside
            /\ doneCmds' = doneCmds \cup {turn} /\ UNCHANGED <<sentCmds, failedCmds>>
       ELSE /\ UNCHANGED cmdQueue
            /\ IF hand = NoCmd
               THEN /\ actorAt' = "idle" /\ turn' = NoCmd
                    /\ doneCmds' = doneCmds \cup {turn}
                    /\ UNCHANGED <<sentCmds, failedCmds>>
               ELSE /\ actorAt' = CASE KindOf[hand] = "disconnect" -> "exiting"
                                    [] KindOf[hand] = "query" -> "querying"
                                    [] KindOf[hand] = "interrupt" -> "idle"
                    /\ turn' = IF KindOf[hand] = "query" THEN hand ELSE NoCmd
                    /\ doneCmds' = doneCmds \cup {turn} \cup
                          (IF KindOf[hand] = "query" THEN {} ELSE {hand})
                    /\ sentCmds' = sentCmds \cup
                          (IF KindOf[hand] = "query" THEN {} ELSE {hand})
                    /\ UNCHANGED failedCmds
    /\ UNCHANGED <<handed, cancelActor, lostInHand>>

\* msg_task.result() raises: out through the finally clause.
TurnRaises ==
    /\ actorAt = "driving" /\ stream = "raised"
    /\ Die({turn})

\* The message side is looked at first, so the rest needs stream = "none".
SetAside ==
    /\ actorAt = "driving" /\ stream = "none" /\ ~cancelActor
    /\ hand # NoCmd /\ KindOf[hand] = "query"
    /\ hand' = NoCmd
    /\ IF aside = NoCmd THEN aside' = hand /\ Unanswered
                        ELSE Fail({hand}) /\ UNCHANGED aside   \* session busy
    /\ UNCHANGED <<actorAt, cmdQueue, turn, stream, handed, cancelActor, lostInHand>>

BeginInterrupt ==
    /\ actorAt = "driving" /\ stream = "none" /\ ~cancelActor
    /\ hand # NoCmd /\ KindOf[hand] # "query"
    /\ actorAt' = IF KindOf[hand] = "interrupt" THEN "interrupting" ELSE "closing"
    /\ UNCHANGED <<cmdQueue, turn, hand, aside, stream, handed, sentCmds,
                   doneCmds, failedCmds, cancelActor, lostInHand>>

InterruptDone ==
    /\ actorAt = "interrupting" /\ ~cancelActor
    /\ actorAt' = "driving" /\ hand' = NoCmd
    /\ Complete({hand})
    /\ UNCHANGED <<cmdQueue, turn, aside, stream, handed, cancelActor, lostInHand>>

\* An interrupt that raises is answered with the error before the task dies.
InterruptRaises ==
    /\ "interrupt" \in MayRaise /\ actorAt = "interrupting"
    /\ Fail(({turn, hand} \cup Real(aside) \cup Queued) \ doneCmds)
    /\ actorAt' = "ended" /\ cmdQueue' = <<>> /\ stream' = "none"
    /\ turn' = NoCmd /\ hand' = NoCmd /\ aside' = NoCmd
    /\ cancelActor' = FALSE
    /\ UNCHANGED <<handed, lostInHand>>

\* A disconnect during a turn: interrupt, then hand the command back to the
\* loop, which completes it; a query set aside is answered with an error.
TurnClosed ==
    /\ actorAt = "closing" /\ ~cancelActor
    /\ actorAt' = "exiting"
    /\ sentCmds' = sentCmds \cup {hand} \cup Real(aside)
    /\ doneCmds' = doneCmds \cup {turn, hand} \cup Real(aside)
    /\ failedCmds' = failedCmds \cup Real(aside)
    /\ turn' = NoCmd /\ hand' = NoCmd /\ aside' = NoCmd /\ stream' = "none"
    /\ UNCHANGED <<cmdQueue, handed, cancelActor, lostInHand>>

CloseRaises == "interrupt" \in MayRaise /\ actorAt = "closing" /\ Die({turn})

\* __aexit__ returns (or raises: the same to the callers), then the drain.
Exit == actorAt = "exiting" /\ Die({})

\* A pending cancellation surfaces at the await.  An interrupt in progress is
\* completed by its own finally clause, without an error.
CancelSurfaces ==
    /\ cancelActor
    /\ IF actorAt = "interrupting"
       THEN /\ sentCmds' = sentCmds \cup {turn, hand} \cup Real(aside) \cup Queued
            /\ doneCmds' = doneCmds \cup {turn, hand} \cup Real(aside) \cup Queued
            /\ failedCmds' = failedCmds \cup
                 (({turn} \cup Real(aside) \cup Queued) \ doneCmds)
            /\ actorAt' = "ended" /\ cmdQueue' = <<>> /\ stream' = "none"
            /\ turn' = NoCmd /\ hand' = NoCmd /\ aside' = NoCmd
            /\ cancelActor' = FALSE
            /\ UNCHANGED <<handed, lostInHand>>
       ELSE actorAt # "ended" /\ Die(Real(turn))

ActorStep ==
    \/ ActorConnects \/ ActorCannotConnect \/ TakeCommand \/ PromptTaken \/ PromptRaises
    \/ CommandArrives \/ TurnEnds \/ TurnRaises \/ SetAside
    \/ BeginInterrupt \/ InterruptDone \/ InterruptRaises
    \/ TurnClosed \/ CloseRaises \/ Exit \/ CancelSurfaces

ActorNext ==
    \/ ActorStep
    \/ \E c \in Cmds : EnqueueCmd(c)
    \/ \E how \in {"end", "raised"} : StreamEnds(how)
    \/ CancelActor

ActorSpec == ActorInit /\ [][ActorNext]_actorVars

\* The task runs when it can, and the SDK ends every response, by its end or
\* by an exception.  Nobody has to send, to cancel or to raise.
ActorFair ==
    /\ WF_actorVars(ActorStep)
    /\ WF_actorVars(\E how \in {"end", "raised"} : StreamEnds(how))

-----------------------------------------------------------------------------
(* Properties.                                                             *)

\* _run: the drain on the way out keeps callers from hanging, with one
\* exception.  An unanswered command of an ended actor was the result of
\* cmd_task when the task left the turn, and there is at most one.
OnlyTheGrabbedHangs ==
    /\ actorAt = "ended" => handed \ doneCmds \subseteq lostInHand
    /\ \A c, d \in lostInHand : c = d

\* Every command is somewhere: answered, in the queue, worked on, set aside or
\* at hand; in one place only; and complete() never sets half of the events
\* (a query under way, sent and not done, is the only exception).
EveryCommandIsKept ==
    /\ handed \subseteq
         doneCmds \cup Queued \cup {turn, aside, hand} \cup lostInHand
    /\ doneCmds \cap (Queued \cup {turn, aside, hand} \cup lostInHand) = {}
    /\ Real(turn) \cap Real(aside) = {} /\ Real(turn) \cap Real(hand) = {}
    /\ Real(aside) \cap Real(hand) = {}
    /\ Queued \cap {turn, aside, hand} = {}
    /\ \A i, j \in DOMAIN cmdQueue : cmdQueue[i] = cmdQueue[j] => i = j
    /\ doneCmds \subseteq sentCmds
    /\ sentCmds \ doneCmds \subseteq {turn}

\* Whatever the SDK raises, the callers that wait get their answers in the
\* end, unless a command was grabbed in the moment the task died.
EveryCallerIsAnswered ==
    handed # doneCmds ~> handed \subseteq doneCmds \cup lostInHand
=============================================================================
