------------------------------ MODULE TurnView ------------------------------
(***************************************************************************)
(* What a browser shows of one assistant session.  The SDK emits messages; *)
(* each reaches the server's buffer and the live stream at one moment and  *)
(* the transcript in the database at another, the flush being eager but    *)
(* not awaited.  A browser that connects is given the turns of transcript  *)
(* and buffer together, and then patches.                                  *)
(*                                                                         *)
(* A message is its kind, its key (a text, or the tool call it is about),  *)
(* its round and its place in `emitted`, which stands for its uuid (0 for  *)
(* the local echo of what the user typed).  A content block is one         *)
(* message's content.  The round also stands for the timestamp.            *)
(***************************************************************************)
EXTENDS Naturals, Sequences, SequencesExt

CONSTANTS
    Says,                     \* texts a user or the model may use
    MaxRounds, MaxEmitted     \* bounds

ASSUME ViewAssumption == MaxRounds \in Nat /\ MaxEmitted \in Nat /\ 0 \notin Says

\* tool and reply are assistant messages; toolresult and halt are user messages
\* the CLI injects; task is a system message about a tool call.
PersistedKinds == {"user", "tool", "reply", "toolresult", "halt"}
MessageKinds == PersistedKinds \cup {"echo", "task", "result", "draft"}

VARIABLES
    uuids,         \* the SDK's assistant messages carry a uuid
    replays,       \* the SDK plays user messages back
    emitted,       \* what the SDK has emitted, in order
    delivered,     \* how much of it the actor has handed over
    inTurn,        \* status = "running"
    pendingEcho,   \* the head of pending_user_echoes, or Silence
    backlog,       \* message_buffer
    viewer,        \* where stream_events stands
    replayed,      \* the copy of the buffer taken by _subscribe
    incoming,      \* the subscriber's queue
    held,          \* _groupable_messages
    drafted,       \* the draft: the message being streamed, or 0
    shown,         \* the browser: turns and draft
    since,         \* delivered, and the round, at the subscription (history)
    readUpTo       \* how much of it the transcript held when it was read (history)

sdkState  == <<uuids, replays, emitted, delivered>>
turnSide  == <<inTurn, pendingEcho, backlog>>
viewSide  == <<viewer, replayed, held, drafted, shown, since, readUpTo>>
viewVars  == <<sdkState, turnSide, incoming, viewSide>>

Silence == 0         \* no text, and no draft
Nowhere == [place |-> 0, round |-> 0]
Blank == [turns |-> <<>>, draft |-> 0]
Round == Len(SelectSeq(emitted, LAMBDA m : m.kind = "user"))

Message == [kind : MessageKinds, key : Says \cup 0..MaxEmitted, round : 0..MaxRounds,
            uuid : 0..MaxEmitted]

ViewTypeOK ==
    /\ {uuids, replays, inTurn} \subseteq BOOLEAN
    /\ emitted \in Seq(Message) /\ delivered \in 0..Len(emitted)
    /\ pendingEcho \in Says \cup {Silence}
    /\ {ToSet(s) : s \in {backlog, replayed, incoming, held}} \subseteq SUBSET Message
    /\ viewer \in {"away", "subscribed", "live"}
    /\ drafted \in Says \cup 0..MaxEmitted
    /\ since \in [place : 0..MaxEmitted, round : 0..MaxRounds] /\ readUpTo \in 0..MaxEmitted

ViewInit ==
    /\ uuids \in BOOLEAN /\ replays \in BOOLEAN
    /\ emitted = <<>> /\ delivered = 0
    /\ inTurn = FALSE /\ pendingEcho = Silence /\ backlog = <<>>
    /\ viewer = "away" /\ replayed = <<>> /\ incoming = <<>> /\ held = <<>>
    /\ drafted = 0 /\ shown = Blank /\ since = Nowhere /\ readUpTo = 0

-----------------------------------------------------------------------------
(* group_messages_into_turns.  `turns` are closed, `open` is current_turn. *)

NoTurn == [who |-> "nobody", blocks |-> <<>>]
Turn(who, block) == [who |-> who, blocks |-> <<block>>]
Block(m) == [kind |-> m.kind, key |-> m.key, answered |-> FALSE]

Close(g) == IF g.open = NoTurn THEN g ELSE [turns |-> Append(g.turns, g.open), open |-> NoTurn]
Start(g, who, block) == [Close(g) EXCEPT !.open = Turn(who, block)]
Extend(g, block) == [g EXCEPT !.open.blocks = Append(@, block)]

\* _attach_tool_result: to its tool call if the turn holds it.
Answer(g, m) ==
    LET Mine(j) == g.open.blocks[j].kind = "tool" /\ g.open.blocks[j].key = m.key IN
    IF \E j \in DOMAIN g.open.blocks : Mine(j)
    THEN [g EXCEPT !.open.blocks = [j \in DOMAIN @ |->
             IF Mine(j) THEN [@[j] EXCEPT !.answered = TRUE] ELSE @[j]]]
    ELSE Extend(g, Block(m))

AttachTask(g, m) == Extend(g, Block(m))

\* System-injected content goes to the assistant's turn, or makes a system turn.
Inject(g, m) ==
    CASE g.open.who # "assistant" -> Start(g, "system", Block(m))
      [] m.kind = "toolresult" -> Answer(g, m)
      [] OTHER -> AttachTask(g, m)

\* Adjacent notices are one.
Notice(g, m) ==
    IF g.open.who = "system" /\ Last(g.open.blocks).kind = "halt" THEN g
    ELSE Start(g, "system", Block(m))

\* The text of the user, whoever brought it.
Spoken(m) == [kind |-> "user", key |-> m.key, answered |-> FALSE]

GroupOne(g, m) ==
    CASE m.kind = "result" -> Close(g)
      [] m.kind \in {"user", "echo"} -> Start(g, "user", Spoken(m))
      [] m.kind = "halt" -> Notice(g, m)
      [] m.kind \in {"toolresult", "task"} -> Inject(g, m)
      [] OTHER -> IF g.open.who = "assistant" THEN Extend(g, Block(m))
                  ELSE Start(g, "assistant", Block(m))

Grouped(messages) == Close(FoldLeft(GroupOne, [turns |-> <<>>, open |-> NoTurn], messages)).turns

\* build_turn_patch, and what the browser makes of it.
Patch(old, new) ==
    CASE old = new -> [op |-> "none"]
      [] Len(new) = Len(old) + 1 /\ Front(new) = old -> [op |-> "append", turn |-> Last(new)]
      [] new # <<>> /\ Len(new) = Len(old) /\ Front(new) = Front(old) ->
             [op |-> "replace_last", turn |-> Last(new)]
      [] OTHER -> [op |-> "reset", turns |-> new]

Patched(turns, patch) ==
    CASE patch.op = "none" -> turns
      [] patch.op = "append" -> Append(turns, patch.turn)
      [] patch.op = "replace_last" -> IF turns = <<>> THEN <<patch.turn>>
                                      ELSE Append(Front(turns), patch.turn)
      [] OTHER -> patch.turns

\* _hide_stale_draft_turn: a draft that the last assistant turn already holds.
Visible(draft, turns) ==
    LET said == SelectSeq(turns, LAMBDA t : t.who = "assistant")
        Repeated == said # <<>> /\ \E j \in DOMAIN Last(said).blocks :
                        /\ Last(said).blocks[j].kind \in {"tool", "reply"}
                        /\ Last(said).blocks[j].key = draft
    IN  IF Repeated THEN Silence ELSE draft

\* apply_message: what it does to the messages held and to the draft.
Held(messages, m) == IF m.kind = "draft" THEN messages ELSE Append(messages, m)
Drafted(draft, m) ==
    CASE m.kind = "draft" -> m.key
      [] m.kind \in {"tool", "reply", "result"} -> Silence
      [] OTHER -> draft

-----------------------------------------------------------------------------
(* _build_projector: the transcript, and what of the buffer it lacks.  Of   *)
(* what has been emitted the transcript holds the first n messages, n being *)
(* anything: it is chosen when the transcript is read.                      *)

Transcript(n) == SelectSeq(SubSeq(emitted, 1, n), LAMBDA m : m.kind \in PersistedKinds)

Spoke(messages) == {j \in DOMAIN messages : messages[j].kind = "user"}
LastSpoke(messages) == CHOOSE j \in Spoke(messages) : \A k \in Spoke(messages) : k <= j

\* _fingerprint_tail: what the assistant has said since the user last spoke.
TailFingerprints(messages) ==
    LET from == IF Spoke(messages) = {} THEN 1 ELSE LastSpoke(messages)
    IN  {<<messages[j].kind, messages[j].key>> :
            j \in {k \in from..Len(messages) : messages[k].kind \in {"tool", "reply"}}}

\* A comparison of the texts alone.
EchoInTranscriptByText(m, history) ==
    Spoke(history) # {} /\ history[LastSpoke(history)].key = m.key

\* _echo_in_transcript: the last words of the user are these, and not older.
EchoInTranscript(m, history) ==
    /\ Spoke(history) # {}
    /\ LET last == history[LastSpoke(history)] IN last.key = m.key /\ last.round >= m.round

HasUuid(m) == m.kind \in {"user", "toolresult", "halt"} \/ uuids

\* _is_buffer_duplicate.
Duplicate(m, history, fingerprints, buffer) ==
    \/ HasUuid(m) /\ \E j \in DOMAIN history : history[j].uuid = m.uuid
    \/ m.kind = "echo" /\ ( \/ EchoInTranscript(m, history)
                            \/ \E j \in Spoke(buffer) : buffer[j].key = m.key )
    \/ ~HasUuid(m) /\ <<m.kind, m.key>> \in fingerprints

\* One message of the buffer.  A new round forgets the fingerprints.
Replay(p, m, history, buffer) ==
    LET known == IF m.kind = "user" THEN {} ELSE p.fingerprints
        Skip  == m.kind \notin {"task", "draft"} /\ Duplicate(m, history, known, buffer)
    IN  IF Skip THEN [p EXCEPT !.fingerprints = known]
        ELSE [held |-> Held(p.held, m), draft |-> Drafted(p.draft, m),
              fingerprints |-> IF m.kind = "echo" THEN {} ELSE known]

Projected(history, buffer) ==
    FoldLeft(LAMBDA p, m : Replay(p, m, history, buffer),
             [held |-> history, draft |-> Silence, fingerprints |-> TailFingerprints(history)],
             buffer)

Snapshot(messages, draft) ==
    [turns |-> Grouped(messages), draft |-> Visible(draft, Grouped(messages))]

-----------------------------------------------------------------------------
(* The session.                                                            *)

AddToLive(m) == incoming' = IF viewer = "away" THEN incoming ELSE Append(incoming, m)

Emission(kind, key) ==
    emitted' = Append(emitted, [kind |-> kind, key |-> key, uuid |-> Len(emitted) + 1,
                                round |-> IF kind = "user" THEN Round + 1 ELSE Round])

\* send_message: prune, echo, query.  A task message outlives the pruning.
Say(text) ==
    /\ ~inTurn /\ Round < MaxRounds /\ Len(emitted) + 1 < MaxEmitted
    /\ LET echo == [kind |-> "echo", key |-> text, round |-> Round + 1, uuid |-> 0] IN
       /\ backlog' = Append(SelectSeq(backlog, LAMBDA m : m.kind = "task"), echo)
       /\ AddToLive(echo)
    /\ inTurn' = TRUE /\ pendingEcho' = text /\ Emission("user", text)
    /\ UNCHANGED <<uuids, replays, delivered, viewSide>>

\* What the SDK emits: a draft before its message, the result of a tool after
\* its call, and a result to end the turn.
NextCall == Len(SelectSeq(emitted, LAMBDA m : m.kind = "tool")) + 1
Called == {emitted[j].key : j \in {k \in DOMAIN emitted :
                emitted[k].kind = "tool" /\ emitted[k].round = Round}}
Answered == {m.key : m \in {n \in ToSet(emitted) : n.kind = "toolresult"}}

Emit(kind, key) ==
    LET last == Last(emitted) IN
    /\ inTurn /\ last.kind # "result"
    /\ last.kind = "draft" => key = last.key \/ kind \in {"halt", "result"}
    /\ last.kind = "halt" => kind = "result"
    /\ Len(emitted) + (IF kind = "result" THEN 0 ELSE 1) < MaxEmitted
    /\ CASE kind = "tool" -> key = NextCall
         [] kind = "reply" -> key \in Says
         [] kind = "draft" -> last.kind # "draft" /\ key \in Says \cup {NextCall}
         [] kind = "toolresult" -> key \in Called \ Answered
         [] kind = "task" -> key \in Called
         [] OTHER -> kind \in {"halt", "result"} /\ key = Silence
    /\ Emission(kind, key)
    /\ UNCHANGED <<uuids, replays, delivered, turnSide, incoming, viewSide>>

\* The user's own message is not played back, or recognised as its echo.
Swallowed(m) == m.kind = "user" /\ (~replays \/ pendingEcho = m.key)

Deliver ==
    /\ delivered < Len(emitted) /\ delivered' = delivered + 1
    /\ LET m == emitted[delivered'] IN
       IF Swallowed(m)
       THEN /\ pendingEcho' = IF replays THEN Silence ELSE pendingEcho
            /\ UNCHANGED <<backlog, incoming>>
       ELSE backlog' = Append(backlog, m) /\ AddToLive(m) /\ UNCHANGED pendingEcho
    /\ UNCHANGED <<uuids, replays, emitted, inTurn, viewSide>>

\* _finalize_turn prunes the buffer, whatever the transcript holds by then.
EndOfTurn ==
    /\ inTurn /\ delivered = Len(emitted) /\ Last(emitted).kind = "result"
    /\ inTurn' = FALSE /\ pendingEcho' = Silence
    /\ backlog' = SelectSeq(backlog, LAMBDA m : m.kind = "task")
    /\ UNCHANGED <<sdkState, incoming, viewSide>>

-----------------------------------------------------------------------------
(* stream_events, seen from the browser.                                   *)

OpenView ==
    /\ viewer = "away" /\ inTurn
    /\ viewer' = "subscribed" /\ replayed' = backlog /\ incoming' = <<>>
    /\ since' = [place |-> delivered, round |-> Round]
    /\ UNCHANGED <<sdkState, turnSide, held, drafted, shown, readUpTo>>

Gone ==
    /\ viewer' = "away" /\ incoming' = <<>> /\ replayed' = <<>> /\ held' = <<>>
    /\ drafted' = Silence /\ shown' = Blank /\ since' = Nowhere /\ readUpTo' = 0

\* The transcript is read after the buffer was copied; a session that has ended
\* meanwhile gets a snapshot, its status, and no more.
BuildView ==
    /\ viewer = "subscribed"
    /\ \/ /\ inTurn /\ viewer' = "live"
          /\ \E n \in 0..Len(emitted) :
               LET p == Projected(Transcript(n), replayed) IN
               /\ held' = p.held /\ drafted' = p.draft /\ shown' = Snapshot(p.held, p.draft)
               /\ readUpTo' = n
          /\ replayed' = <<>> /\ UNCHANGED <<incoming, since>>
       \/ ~inTurn /\ Gone
    /\ UNCHANGED <<sdkState, turnSide>>

\* A live message is applied as it is; a result ends the stream.
Show ==
    /\ viewer = "live" /\ incoming # <<>>
    /\ LET m == Head(incoming)
           messages == Held(held, m)
           turns == Grouped(messages)
           draft == Drafted(drafted, m)
           patch == Patch(shown.turns, turns)
       IN  IF m.kind = "result" THEN Gone
           ELSE /\ held' = messages /\ drafted' = draft /\ incoming' = Tail(incoming)
                /\ shown' = IF m.kind # "draft" /\ patch.op = "none" THEN shown
                            ELSE [turns |-> Patched(shown.turns, patch),
                                  draft |-> Visible(draft, turns)]
                /\ UNCHANGED <<viewer, replayed, since, readUpTo>>
    /\ UNCHANGED <<sdkState, turnSide>>

CloseView == viewer # "away" /\ Gone /\ UNCHANGED <<sdkState, turnSide>>

ViewNext ==
    \/ \E text \in Says : Say(text)
    \/ \E kind \in MessageKinds, key \in Says \cup 0..MaxEmitted : Emit(kind, key)
    \/ Deliver \/ EndOfTurn
    \/ OpenView \/ BuildView \/ Show \/ CloseView

ViewSpec == ViewInit /\ [][ViewNext]_viewVars

-----------------------------------------------------------------------------
(* Properties.                                                             *)

\* Task messages are shown by the browsers that were there, and left out here.
NoTasks(turns) ==
    LET Rest(t) == [t EXCEPT !.blocks = SelectSeq(@, LAMBDA b : b.kind # "task")]
    IN  SelectSeq([j \in DOMAIN turns |-> Rest(turns[j])], LAMBDA t : t.blocks # <<>>)

SpokeAt == LastSpoke(emitted)
Due == IF delivered < SpokeAt THEN SpokeAt ELSE delivered

\* What everybody should see of the first n messages.
Ideal(n) ==
    LET messages == SubSeq(emitted, 1, n) IN
    Snapshot(SelectSeq(messages, LAMBDA m : m.kind # "draft"), FoldLeft(Drafted, Silence, messages))

\* The transcript was ahead of the buffer when it was read, or a round ahead of
\* it, or it lacked an earlier round; without uuids, the model repeats itself.
PersistedIn(from, to) == \E j \in from..to : emitted[j].kind \in PersistedKinds \ {"user"}
Raced  == since.round # Round \/ PersistedIn(since.place + 1, readUpTo)
Behind == \E j \in readUpTo + 1 .. SpokeAt - 1 : emitted[j].kind \in PersistedKinds
Twins  == ~uuids /\ \E j, k \in DOMAIN emitted :
            /\ j < k /\ emitted[j].round = Round /\ emitted[k].round = Round
            /\ emitted[j].kind = "reply" /\ emitted[k].kind = "reply"
            /\ emitted[j].key = emitted[k].key

\* _build_projector and the patches: whenever a browser connects, and whatever
\* has been flushed by then, once it has caught up it shows every message of
\* the session once, the draft if it is news, and nothing else; and so does the
\* snapshot of a session that is not running and wholly flushed.
ShownOnce ==
    /\ viewer = "live" /\ incoming = <<>> /\ ~Raced /\ ~Behind /\ ~Twins =>
         /\ NoTasks(shown.turns) = NoTasks(Ideal(Due).turns)
         /\ shown.draft = Ideal(Due).draft
    /\ ~inTurn => NoTasks(Grouped(Projected(Transcript(Len(emitted)), backlog).held))
                     = NoTasks(Ideal(Len(emitted)).turns)
=============================================================================
