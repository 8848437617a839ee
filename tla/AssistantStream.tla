--------------------------- MODULE AssistantStream ---------------------------
(***************************************************************************)
(* What the browser sees of one assistant session: the message buffer and  *)
(* the bounded subscriber queues of ManagedSession, the event stream that  *)
(* AssistantService.stream_events makes of them, and its snapshot cache.   *)
(*                                                                         *)
(* A message is its position in `log`; the log gives its kind.  Contents,  *)
(* the projector and the merging of transcript and buffer are data.        *)
(***************************************************************************)
EXTENDS Naturals, FiniteSets, Sequences, SequencesExt

CONSTANTS
    Clients,     \* event streams
    Readers,     \* snapshot requests
    QueueMax,    \* size of a subscriber queue
    BufferMax,   \* ManagedSession.buffer_max_size
    MaxLog,      \* bound on messages
    MaxTurns     \* bound on turns

ASSUME StreamAssumption ==
    /\ QueueMax \in Nat \ {0} /\ BufferMax \in Nat \ {0}
    /\ MaxLog \in Nat /\ MaxTurns \in Nat

\* question stands for the types that are neither critical nor transient.
Kinds == {"stream_event", "question", "assistant", "user", "result", "runtime_status"}
Critical == {"result", "runtime_status", "user", "assistant"}
Pruned == {"stream_event", "runtime_status", "user", "assistant", "result"}
Overflow == 0        \* the _queue_overflow signal

VARIABLES
    log,         \* kinds of the messages broadcast so far
    running,     \* status = "running"
    buffer,      \* message_buffer
    queue,       \* the queue of each client
    subscribers, \* clients whose queue is registered
    client,      \* where stream_events stands
    since,       \* length of the log when the client subscribed
    got,         \* messages the client took from its queue
    told,        \* clients that were sent a final status
    transcript,  \* number of turns in the SDK's transcript
    cached,      \* the cached snapshot: its number of turns, or NoSnapshot
    sender,      \* send_or_create: between dropping the cache and the turn
    reader,      \* where get_snapshot stands
    read         \* number of turns get_snapshot found

streamVars == <<log, running, buffer, queue, subscribers, client, since, got,
                told, transcript, cached, sender, reader, read>>
turnState  == <<log, running, buffer, queue, subscribers>>
clientVars == <<client, since, got, told>>
cacheVars  == <<transcript, cached, sender, reader, read>>

NoSnapshot == MaxTurns + 1   \* no cached snapshot

StreamTypeOK ==
    /\ log \in Seq(Kinds) /\ running \in BOOLEAN
    /\ buffer \in Seq(1..MaxLog) /\ Len(buffer) <= BufferMax
    /\ queue \in [Clients -> Seq(0..MaxLog)]
    /\ subscribers \subseteq Clients /\ told \subseteq Clients
    /\ client \in [Clients -> {"away", "opening", "replay", "live", "over"}]
    /\ since \in [Clients -> 0..MaxLog] /\ got \in [Clients -> Seq(1..MaxLog)]
    /\ transcript \in 0..MaxTurns /\ cached \in 0..NoSnapshot
    /\ sender \in {"ready", "sending"}
    /\ reader \in [Readers -> {"away", "building", "over"}]
    /\ read \in [Readers -> 0..MaxTurns]

StreamInit ==
    /\ log = <<>> /\ running = FALSE /\ buffer = <<>>
    /\ queue = [c \in Clients |-> <<>>] /\ subscribers = {}
    /\ client = [c \in Clients |-> "away"]
    /\ since = [c \in Clients |-> 0] /\ got = [c \in Clients |-> <<>>]
    /\ told = {}
    /\ transcript = 0 /\ cached = NoSnapshot /\ sender = "ready"
    /\ reader = [r \in Readers |-> "away"] /\ read = [r \in Readers |-> 0]

-----------------------------------------------------------------------------
(* The buffer and the queues.  i is the new message, kinds the log with it. *)

DropFirst(seq, hits) == RemoveAt(seq, CHOOSE j \in hits : \A k \in hits : j <= k)

\* The newest entry is never the one that makes room for itself, unless the
\* buffer has room for one entry only.
Buffered(old, i, kinds) ==
    LET full == Append(old, i)
        transient == {j \in DOMAIN old : kinds[old[j]] = "stream_event"}
    IN  IF Len(full) <= BufferMax THEN full
        ELSE IF transient # {} THEN DropFirst(full, transient)
        ELSE Tail(full)

\* _try_enqueue: a full queue drops the newcomer or, if that is critical,
\* an older message that is not; a queue full of critical ones is hopeless.
Hopeless(q, kinds) ==
    Len(q) >= QueueMax /\ \A j \in DOMAIN q : kinds[q[j]] \in Critical

\* What a queue that drops its oldest message, of whatever kind, would do.
EnqueuedDroppingOldest(q, i, kinds) ==
    IF Len(q) < QueueMax THEN Append(q, i)
    ELSE IF kinds[i] \notin Critical THEN q ELSE Append(Tail(q), i)

Enqueued(q, i, kinds) ==
    LET droppable == {j \in DOMAIN q : kinds[q[j]] \notin Critical}
    IN  IF Len(q) < QueueMax THEN Append(q, i)
        ELSE IF kinds[i] \notin Critical THEN q
        ELSE IF droppable = {} THEN <<Overflow>>
        ELSE Append(DropFirst(q, droppable), i)

Broadcast(kind) ==
    LET i == Len(log) + 1
        kinds == Append(log, kind)
        lost == {c \in subscribers : kind \in Critical /\ Hopeless(queue[c], kinds)}
    IN  /\ Len(log) < MaxLog
        /\ log' = kinds
        /\ queue' = [c \in Clients |->
                        IF c \in subscribers THEN Enqueued(queue[c], i, kinds) ELSE queue[c]]
        /\ subscribers' = subscribers \ lost

AddMessage(kind) == Broadcast(kind) /\ buffer' = Buffered(buffer, Len(log) + 1, Append(log, kind))

\* A question stays in the buffer, everything else leaves it with the turn.
Keep(seq) == SelectSeq(seq, LAMBDA i : log[i] \notin Pruned)

-----------------------------------------------------------------------------
(* The session: sends, messages and the ends of a turn.                    *)

\* send_or_create drops the cached snapshot, then connects, which may take long.
BeginSend ==
    /\ sender = "ready" /\ ~running /\ transcript < MaxTurns
    /\ sender' = "sending" /\ cached' = NoSnapshot
    /\ UNCHANGED <<turnState, clientVars, transcript, reader, read>>

\* send_message: prune, echo, running.
BeginTurn ==
    /\ sender = "sending" /\ sender' = "ready"
    /\ Broadcast("user")
    /\ buffer' = Buffered(Keep(buffer), Len(log) + 1, Append(log, "user"))
    /\ running' = TRUE
    /\ UNCHANGED <<clientVars, transcript, cached, reader, read>>

Message(kind) ==
    /\ running /\ kind \in {"stream_event", "question", "assistant"}
    /\ Len(log) + 1 < MaxLog     \* room for what ends the turn
    /\ AddMessage(kind)
    /\ UNCHANGED <<running, clientVars, cacheVars>>

\* The result message; _finalize_turn ends the turn later.
ResultMessage ==
    /\ running /\ log[Len(log)] # "result"
    /\ AddMessage("result")
    /\ UNCHANGED <<running, clientVars, cacheVars>>

EndTurn ==
    /\ running' = FALSE /\ transcript' = transcript + 1
    /\ UNCHANGED <<clientVars, cached, sender, reader, read>>

FinalizeTurn ==
    /\ running /\ log[Len(log)] = "result"
    /\ buffer' = Keep(buffer) /\ EndTurn
    /\ UNCHANGED <<log, queue, subscribers>>

\* The actor died: its done callback broadcasts the status.
ErrorStatus ==
    /\ running /\ AddMessage("runtime_status") /\ EndTurn

\* An eviction or a failing interrupt changes the status and broadcasts nothing.
SilentEnd ==
    /\ running /\ EndTurn
    /\ UNCHANGED <<log, buffer, queue, subscribers>>

-----------------------------------------------------------------------------
(* stream_events.                                                          *)

\* A session that is not running is answered by a snapshot and its status.
OpenStream(c) ==
    /\ client[c] = "away"
    /\ IF running
       THEN client' = [client EXCEPT ![c] = "opening"] /\ UNCHANGED told
       ELSE client' = [client EXCEPT ![c] = "over"] /\ told' = told \cup {c}
    /\ UNCHANGED <<turnState, since, got, cacheVars>>

\* _subscribe: snapshot of the buffer and registration in one piece.
Subscribe(c) ==
    /\ client[c] = "opening"
    /\ client' = [client EXCEPT ![c] = "replay"]
    /\ subscribers' = subscribers \cup {c}
    /\ since' = [since EXCEPT ![c] = Len(log)]
    /\ UNCHANGED <<log, running, buffer, queue, got, told, cacheVars>>

Hangup(c) ==
    /\ client' = [client EXCEPT ![c] = "over"]
    /\ subscribers' = subscribers \ {c}
    /\ queue' = [queue EXCEPT ![c] = <<>>]

\* The replay is over: the snapshot event, and the status if it is final.
Replayed(c) ==
    /\ client[c] = "replay"
    /\ IF running
       THEN client' = [client EXCEPT ![c] = "live"] /\ UNCHANGED <<told, subscribers, queue>>
       ELSE Hangup(c) /\ told' = told \cup {c}
    /\ UNCHANGED <<log, running, buffer, since, got, cacheVars>>

Receive(c) ==
    /\ client[c] = "live" /\ queue[c] # <<>>
    /\ LET i == Head(queue[c]) IN
       IF i = Overflow THEN Hangup(c) /\ UNCHANGED <<told, got>>
       ELSE /\ got' = [got EXCEPT ![c] = Append(@, i)]
            /\ IF log[i] \in {"result", "runtime_status"}
               THEN Hangup(c) /\ told' = told \cup {c}
               ELSE /\ queue' = [queue EXCEPT ![c] = Tail(@)]
                    /\ UNCHANGED <<client, subscribers, told>>
    /\ UNCHANGED <<log, running, buffer, since, cacheVars>>

\* A heartbeat that only keeps the connection open.
HeartbeatOnly(c) ==
    /\ client[c] = "live" /\ queue[c] = <<>> /\ ~running
    /\ UNCHANGED streamVars

\* Nothing for a heartbeat: look at the status.
Heartbeat(c) ==
    /\ client[c] = "live" /\ queue[c] = <<>> /\ ~running
    /\ Hangup(c) /\ told' = told \cup {c}
    /\ UNCHANGED <<log, running, buffer, since, got, cacheVars>>

Leave(c) ==
    /\ client[c] \in {"replay", "live"} /\ Hangup(c)
    /\ UNCHANGED <<log, running, buffer, since, got, told, cacheVars>>

-----------------------------------------------------------------------------
(* get_snapshot of a session that is not running.                          *)

ReadSnapshot(r) ==
    /\ reader[r] = "away" /\ ~running
    /\ IF cached # NoSnapshot
       THEN reader' = [reader EXCEPT ![r] = "over"] /\ read' = [read EXCEPT ![r] = cached]
       ELSE reader' = [reader EXCEPT ![r] = "building"] /\ read' = [read EXCEPT ![r] = transcript]
    /\ UNCHANGED <<turnState, clientVars, transcript, cached, sender>>

\* The status was read before the transcript, and the cache is written after.
CacheSnapshot(r) ==
    /\ reader[r] = "building"
    /\ reader' = [reader EXCEPT ![r] = "over"] /\ cached' = read[r]
    /\ UNCHANGED <<turnState, clientVars, transcript, sender, read>>

-----------------------------------------------------------------------------
SessionTurn ==
    \/ BeginSend \/ BeginTurn \/ ResultMessage \/ FinalizeTurn \/ ErrorStatus \/ SilentEnd
    \/ \E k \in Kinds : Message(k)
ClientStep(c) == Subscribe(c) \/ Replayed(c) \/ Receive(c) \/ Heartbeat(c)

ClientActs == \E c \in Clients : OpenStream(c) \/ ClientStep(c) \/ Leave(c)
ReaderActs == \E r \in Readers : ReadSnapshot(r) \/ CacheSnapshot(r)

StreamNext == SessionTurn \/ ClientActs \/ ReaderActs

StreamSpec == StreamInit /\ [][StreamNext]_streamVars

\* A stream goes on while it can; a turn ends, by its result or otherwise.
TurnEnding == ResultMessage \/ FinalizeTurn \/ ErrorStatus \/ SilentEnd
StreamFair ==
    /\ \A c \in Clients : WF_streamVars(ClientStep(c))
    /\ WF_streamVars(TurnEnding)

-----------------------------------------------------------------------------
(* Properties.                                                             *)

\* _CRITICAL_MESSAGE_TYPES: no critical message is dropped silently.  What a
\* subscribed client has taken and what waits for it are in order and hold
\* every critical message since it subscribed; a client whose queue was given
\* up finds the overflow signal, and nothing else.
NoSilentGap ==
    /\ \A c \in subscribers :
        LET has == got[c] \o queue[c] IN
        /\ \A j, k \in DOMAIN has : j < k => has[j] < has[k]
        /\ \A i \in since[c] + 1 .. Len(log) :
             log[i] \in Critical => \E j \in DOMAIN has : has[j] = i
    /\ \A c \in Clients : client[c] \in {"replay", "live"} =>
        (c \notin subscribers <=> queue[c] = <<Overflow>>)

\* A client that follows a session is not left behind when its turn ends, be
\* it by a result, a lost actor or an eviction that broadcasts nothing.
StreamsEnd == \A c \in Clients : client[c] = "live" ~> client[c] = "over"

=============================================================================
