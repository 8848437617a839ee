--------------------------- MODULE OpenQuestions ---------------------------
(***************************************************************************)
(* Questions an agent puts to its user in the middle of a turn: the        *)
(* callback that waits for the answer, the session's register of pending   *)
(* questions, and what a browser shows of them                             *)
(* (server/agent_runtime/session_manager.py, service.py, and the page's    *)
(* useAssistantSession.ts).                                                *)
(*                                                                         *)
(* A browser hears of a question through the session's stream, or finds it *)
(* in the snapshot a new stream begins with; it shows one at a time.       *)
(***************************************************************************)
EXTENDS Naturals, Sequences, SequencesExt

CONSTANTS Questions, NoQuestion, StreamCap, MaxChatter

ASSUME QuestionsAssumption ==
    /\ {StreamCap, MaxChatter} \subseteq Nat /\ NoQuestion \notin Questions
    /\ Questions \cap {"delta", "reply", "result", "ended"} = {}

VARIABLES
    status,      \* of the session, as the server has it
    registered,  \* is the session among those the manager holds?
    turn,        \* "running", "over" once the SDK has sent its result, or "dead"
    ending,      \* "closing": a close has refused what was pending and disconnects
    pending,     \* the register: questions in the order they came
    fate,        \* question -> "new", "waiting", "answered", "refused" or "cut"
    line,        \* what waits in the stream's queue
    page,        \* its stream: "off", "opened" (subscribed, no snapshot yet) or "live"
    onScreen,    \* the question shown
    reply,       \* the answer on its way: to the server, then its response back
    chatter,
    unstopped,   \* ghost: an interrupt failed, the turn goes on
    missed,      \* ghost: questions a full queue dropped
    outrun,      \* ghost: a response took a newer question off the screen
    several      \* ghost: two questions waited at once while this stream was open

questionVars ==
    <<status, registered, turn, ending, pending, fate, line, page, onScreen, reply, chatter,
      unstopped, missed, outrun, several>>

NoReply == [at |-> "none", to |-> NoQuestion]

QuestionsInit ==
    /\ status = "running" /\ registered = TRUE /\ turn = "running" /\ ending = "no"
    /\ pending = <<>> /\ fate = [q \in Questions |-> "new"]
    /\ line = <<>> /\ page = "off" /\ onScreen = NoQuestion /\ reply = NoReply
    /\ chatter = 0 /\ unstopped = FALSE /\ missed = {} /\ outrun = FALSE /\ several = FALSE

IsWaiting(q) == fate[q] = "waiting"

-----------------------------------------------------------------------------
(* The session's stream                                                    *)

Critical == {"reply", "result", "ended"}

\* A full queue drops what is not critical; what is takes the place of the first
\* message that is not, or costs the browser its stream.
TellPages(message) ==
    LET loose == {i \in DOMAIN line : line[i] \notin Critical}
    IN  IF page = "off" THEN UNCHANGED <<line, page, missed>>
        ELSE IF Len(line) < StreamCap
             THEN line' = Append(line, message) /\ UNCHANGED <<page, missed>>
        ELSE IF message \notin Critical
             THEN missed' = missed \cup ({message} \cap Questions) /\ UNCHANGED <<line, page>>
        ELSE IF loose # {}
             THEN \E first \in loose :
                      /\ \A i \in loose : first <= i
                      /\ line' = Append(RemoveAt(line, first), message)
                      /\ missed' = missed \cup ({line[first]} \cap Questions)
                      /\ UNCHANGED page
             ELSE line' = <<>> /\ page' = "off" /\ UNCHANGED missed

\* A page subscribes to a running session.
OpenStream ==
    /\ page = "off" /\ registered /\ status = "running"
    /\ page' = "opened" /\ line' = <<>> /\ missed' = {} /\ several' = (Len(pending) > 1)
    /\ UNCHANGED <<status, registered, turn, ending, pending, fate, onScreen, reply, chatter, unstopped, outrun>>

\* The snapshot has what is pending if the session still runs; the page shows
\* the first of it.
ShowSnapshot ==
    LET open == IF status = "running" /\ registered THEN pending ELSE <<>>
    IN  /\ page = "opened"
        /\ onScreen' = IF open = <<>> THEN NoQuestion ELSE Head(open)
        /\ page' = IF status = "running" THEN "live" ELSE "off"
        /\ line' = IF status = "running" THEN line ELSE <<>>
        /\ outrun' = FALSE
        /\ UNCHANGED <<status, registered, turn, ending, pending, fate, reply, chatter, unstopped, missed, several>>

DropStream ==
    /\ page = "live"
    /\ page' = "off" /\ line' = <<>>
    /\ UNCHANGED <<status, registered, turn, ending, pending, fate, onScreen, reply, chatter, unstopped, missed, outrun, several>>

TakeMessage ==
    /\ page = "live" /\ line # <<>>
    /\ LET message == Head(line)
       IN  /\ onScreen' = IF message \in Questions THEN message
                          ELSE IF message \in {"result", "ended"} THEN NoQuestion ELSE onScreen
           /\ IF message \in {"result", "ended"}
              THEN page' = "off" /\ line' = <<>>
              ELSE line' = Tail(line) /\ UNCHANGED page
    /\ UNCHANGED <<status, registered, turn, ending, pending, fate, reply, chatter, unstopped, missed, outrun, several>>

-----------------------------------------------------------------------------
(* Asking and answering                                                    *)

\* The callback registers the question, tells the browsers and waits.
AskUser(q) ==
    /\ turn = "running" /\ registered /\ fate[q] = "new"
    /\ pending' = Append(pending, q)
    /\ fate' = [fate EXCEPT ![q] = "waiting"]
    /\ TellPages(q)
    /\ several' = (several \/ pending # <<>>)
    /\ UNCHANGED <<status, registered, turn, ending, onScreen, reply, chatter, unstopped, outrun>>

\* Another message of the turn.
Speak ==
    /\ turn = "running" /\ registered /\ chatter < MaxChatter
    /\ chatter' = chatter + 1
    /\ \E message \in {"delta", "reply"} : TellPages(message)
    /\ UNCHANGED <<status, registered, turn, ending, pending, fate, onScreen, reply, unstopped, outrun, several>>

SendAnswer ==
    /\ onScreen # NoQuestion /\ reply = NoReply
    /\ reply' = [at |-> "sent", to |-> onScreen]
    /\ UNCHANGED <<status, registered, turn, ending, pending, fate, line, page, onScreen, chatter, unstopped, missed, outrun, several>>

\* Only a running session takes an answer, and only to what is pending.
CanAnswer(q) == registered /\ status = "running" /\ Contains(pending, q)
Resolve(q) ==
    /\ CanAnswer(q)
    /\ \E i \in DOMAIN pending : pending[i] = q /\ pending' = RemoveAt(pending, i)
    /\ fate' = [fate EXCEPT ![q] = "answered"]

TakeAnswer ==
    /\ reply.at = "sent"
    /\ IF CanAnswer(reply.to)
       THEN Resolve(reply.to) /\ reply' = [reply EXCEPT !.at = "accepted"]
       ELSE reply' = [reply EXCEPT !.at = "rejected"] /\ UNCHANGED <<pending, fate>>
    /\ UNCHANGED <<status, registered, turn, ending, line, page, onScreen, chatter, unstopped, missed, outrun, several>>

\* The same question answered on another page.
AnswerElsewhere(q) ==
    /\ Resolve(q)
    /\ UNCHANGED <<status, registered, turn, ending, line, page, onScreen, reply, chatter, unstopped, missed, outrun, several>>

\* An accepted answer takes off the screen whatever is there by then.
HearResponse ==
    /\ reply.at \in {"accepted", "rejected"}
    /\ reply' = NoReply
    /\ IF reply.at = "rejected" THEN UNCHANGED <<onScreen, outrun>>
       ELSE /\ onScreen' = NoQuestion
            /\ outrun' = (outrun \/ onScreen \notin {NoQuestion, reply.to})
    /\ UNCHANGED <<status, registered, turn, ending, pending, fate, line, page, chatter, unstopped, missed, several>>

-----------------------------------------------------------------------------
(* The end of a turn                                                       *)

\* Bug: the questions of the turn stay.
ForgetPending(as) == UNCHANGED <<pending, fate>>

\* Whoever still waits is refused; a callback whose process is gone is cut.
CancelPending(as) ==
    /\ pending' = <<>>
    /\ fate' = [q \in Questions |-> IF Contains(pending, q) /\ IsWaiting(q) THEN as ELSE fate[q]]

\* The turn's result is told first and settled later.
TurnEnds ==
    /\ turn = "running" /\ registered
    /\ turn' = "over"
    /\ TellPages("result")
    /\ UNCHANGED <<status, registered, ending, pending, fate, onScreen, reply, chatter, unstopped, outrun, several>>

FinalizeTurn ==
    /\ turn = "over" /\ registered /\ status \in {"running", "error"}
    /\ CancelPending("refused")
    /\ status' = "completed"
    /\ unstopped' = FALSE
    /\ UNCHANGED <<registered, turn, ending, line, page, onScreen, reply, chatter, missed, outrun, several>>

\* An interrupt refuses first; if the SDK does not take it the session is in
\* error while its turn goes on.
InterruptSession ==
    /\ registered /\ status = "running"
    /\ CancelPending("refused")
    /\ \/ UNCHANGED <<status, unstopped>>
       \/ status' = "error" /\ unstopped' = TRUE
    /\ UNCHANGED <<registered, turn, ending, line, page, onScreen, reply, chatter, missed, outrun, several>>

\* The actor dies; what it runs dies with it.
SessionFails ==
    /\ turn = "running" /\ registered
    /\ turn' = "dead"
    /\ CancelPending("cut")
    /\ status' = "error"
    /\ unstopped' = FALSE
    /\ TellPages("ended")
    /\ UNCHANGED <<registered, ending, onScreen, reply, chatter, outrun, several>>

CloseSession ==
    /\ registered /\ ending = "no"
    /\ CancelPending("refused")
    /\ ending' = "closing"
    /\ UNCHANGED <<status, registered, turn, line, page, onScreen, reply, chatter, unstopped, missed, outrun, several>>

\* The disconnected client takes along what was asked since.
Disconnected ==
    /\ ending = "closing" /\ registered
    /\ fate' = [q \in Questions |-> IF IsWaiting(q) THEN "cut" ELSE fate[q]]
    /\ turn' = "dead" /\ registered' = FALSE /\ status' = "closed"
    /\ line' = <<>> /\ page' = "off"
    /\ UNCHANGED <<ending, pending, onScreen, reply, chatter, unstopped, missed, outrun, several>>

QuestionsNext ==
    \/ \E q \in Questions : AskUser(q) \/ AnswerElsewhere(q)
    \/ OpenStream \/ ShowSnapshot \/ DropStream \/ TakeMessage
    \/ Speak \/ SendAnswer \/ TakeAnswer \/ HearResponse
    \/ TurnEnds \/ FinalizeTurn \/ InterruptSession \/ SessionFails \/ CloseSession \/ Disconnected

QuestionsSpec == QuestionsInit /\ [][QuestionsNext]_questionVars

-----------------------------------------------------------------------------
\* While an agent waits for an answer the server would take it, however turns,
\* interrupts, closes and answers cross, unless an interrupt has failed; and a
\* page that has caught up shows a question that waits, unless several waited
\* at once, a full queue dropped it or the response to another took it down.
QuestionsAreAnswerable ==
    /\ \A q \in Questions : IsWaiting(q) => CanAnswer(q) \/ unstopped
    /\ LET open == {q \in Questions : IsWaiting(q)}
       IN  /\ page = "live" /\ line = <<>> /\ reply = NoReply /\ open # {} /\ ~unstopped
           => onScreen \in open \/ several \/ open \cap missed # {} \/ outrun
=============================================================================
