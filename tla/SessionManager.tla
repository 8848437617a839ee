--------------------------- MODULE SessionManager ---------------------------
(***************************************************************************)
(* server/agent_runtime/session_manager.py: the registry of live sessions. *)
(* HTTP calls connect, send, create and close; capacity and clean-up evict;*)
(* each session has an inbox processor that settles its turns.             *)
(*                                                                         *)
(* An action is the code between two awaits.  A write to the meta store    *)
(* and the code that follows it are one action.  The actor of a session is *)
(* seen through what SessionActor answers: a query is taken when no turn   *)
(* streams, and everything fails once the actor is gone.  Delays are       *)
(* abstracted: a time-out, a clean-up timer or the patrol may fire at any  *)
(* moment its other conditions allow.                                      *)
(***************************************************************************)
EXTENDS Naturals, FiniteSets

CONSTANTS
    Sids,           \* sdk session ids
    MaxManaged,     \* bound on ManagedSession objects made
    Calls,          \* HTTP calls
    Plans,          \* what the calls are: their kinds and their sessions
    MaxConcurrent,  \* agent_max_concurrent_sessions
    MaxFaults       \* bound on starts that fail, actors that die and
                    \* meta store writes that fail at the end of a turn

Managed == 1..MaxManaged
NoObj == 0

ASSUME ManagerAssumption ==
    /\ Plans \subseteq [Calls -> [kind : {"send", "new", "close", "interrupt"}, sid : Sids]]
    /\ MaxConcurrent \in Nat \ {0} /\ MaxManaged \in Nat
    /\ MaxFaults \in Nat

VARIABLES
    plan,       \* the calls of this behaviour, one of Plans
    registry,   \* self.sessions
    disc,       \* self._disconnecting
    lockOf,     \* self._connect_locks: the lock's number, 0 for none
    db,         \* status column of the meta store, "absent" without a row
    made,       \* objects made so far
    sessionStatus,     \* ManagedSession.status
    actor,      \* its actor
    sidOf,      \* the session it was made for
    ready,      \* objects with sdk_id_event set
    turns,      \* number of turns begun
    results,    \* number of result messages put into the inbox
    settled,    \* number of results finalized
    proc,       \* _process_inbox
    evict,      \* _evict_one
    at,         \* program point of a call
    own,        \* the object a call works with, or waits to see evicted
    held,       \* number of the lock a call holds or waits for
    seen,       \* meta.status as the call read it
    stranded,   \* sessions that were left as running although nobody will
                \* settle them (history)
    faults

tableVars == <<registry, disc, lockOf>>
turnVars  == <<turns, results, settled, proc>>
objVars   == <<made, sessionStatus, actor, sidOf, ready>>
callVars  == <<at, own, held, seen>>
endVars   == <<stranded, faults>>
managerVars == <<plan, tableVars, db, objVars, turnVars, evict, callVars, endVars>>

Quiet == {"idle", "completed", "error", "interrupted", "closed"}
Statuses == Quiet \cup {"running"}
CallPoints == {"new", "sending", "locking", "capacity", "evicting", "options", "starting",
               "marking", "asking", "failing", "waitId", "cleanup",
               "done", "refused"}
Over == {"done", "refused"}

ManagerTypeOK ==
    /\ plan \in Plans
    /\ registry \in [Sids -> Managed \cup {NoObj}]
    /\ disc \subseteq Sids /\ lockOf \in [Sids -> Nat]
    /\ db \in [Sids -> Statuses \cup {"absent"}]
    /\ made \in 0..MaxManaged
    /\ sessionStatus \in [Managed -> Statuses]
    /\ actor \in [Managed -> {"unused", "starting", "idle", "busy", "gone"}]
    /\ sidOf \in [Managed -> Sids \cup {NoObj}] /\ ready \subseteq Managed
    /\ turns \in [Managed -> Nat] /\ results \in [Managed -> Nat]
    /\ settled \in [Managed -> Nat]
    /\ proc \in [Managed -> {"none", "waiting", "creating", "finalizing", "done"}]
    /\ evict \in [Managed -> {"none", "disconnect", "drain"}]
    /\ at \in [Calls -> CallPoints] /\ own \in [Calls -> Managed \cup {NoObj}]
    /\ held \in [Calls -> Nat] /\ seen \in [Calls -> Statuses]
    /\ stranded \subseteq Sids /\ faults \in 0..MaxFaults

\* Sessions that a `new` call will create have no row yet.
CallKind == [c \in Calls |-> plan[c].kind]
CallSid == [c \in Calls |-> plan[c].sid]
NewSids == {CallSid[c] : c \in {d \in Calls : CallKind[d] = "new"}}

ManagerInit ==
    /\ plan \in Plans
    /\ registry = [s \in Sids |-> NoObj] /\ disc = {}
    /\ lockOf = [s \in Sids |-> 0]
    /\ db = [s \in Sids |-> IF s \in NewSids THEN "absent" ELSE "idle"]
    /\ made = 0
    /\ sessionStatus = [m \in Managed |-> "idle"]
    /\ actor = [m \in Managed |-> "unused"]
    /\ sidOf = [m \in Managed |-> NoObj]
    /\ ready = {} /\ proc = [m \in Managed |-> "none"]
    /\ turns = [m \in Managed |-> 0] /\ results = [m \in Managed |-> 0]
    /\ settled = [m \in Managed |-> 0]
    /\ evict = [m \in Managed |-> "none"]
    /\ at = [c \in Calls |-> "new"] /\ own = [c \in Calls |-> NoObj]
    /\ held = [c \in Calls |-> 0] /\ seen = [c \in Calls |-> "idle"]
    /\ stranded = {} /\ faults = 0

Goto(c, p) == at' = [at EXCEPT ![c] = p]
\* update_status hits no row when the session has none.
Record(s, st) == db' = IF db[s] = "absent" THEN db ELSE [db EXCEPT ![s] = st]
\* The row of s says running from here on, and no turn and no call stands for it.
Strand(s) == stranded' = stranded \cup {s}
Connected(s) == registry[s] # NoObj /\ s \notin disc

-----------------------------------------------------------------------------
(* get_or_connect.                                                         *)

\* The lock of a session is made on demand; an eviction throws it away, held
\* or not, and the next caller makes another one.
FreshLock ==
    CHOOSE n \in 1..(Cardinality(Calls) + Cardinality(Sids) + 1) :
        (\A c \in Calls : held[c] # n) /\ (\A s \in Sids : lockOf[s] # n)
LockFor(s) == IF lockOf[s] = 0 THEN FreshLock ELSE lockOf[s]
LockIsFree(n) == \A c \in Calls : held[c] = n => at[c] = "locking"

\* send_message with the session at hand: refused while a turn runs.
Proceed(c, m) ==
    /\ Goto(c, IF sessionStatus[m] = "running" THEN "refused" ELSE "marking")
    /\ own' = [own EXCEPT ![c] = m]
    /\ held' = [held EXCEPT ![c] = 0]

\* With the lock: look again.
UnderLock(c, n) ==
    IF Connected(CallSid[c]) THEN Proceed(c, registry[CallSid[c]])
    ELSE Goto(c, "capacity") /\ held' = [held EXCEPT ![c] = n] /\ UNCHANGED own

\* send_or_create reads the row, and passes on what it read.
Send(c) ==
    /\ CallKind[c] = "send" /\ at[c] = "new"
    /\ IF db[CallSid[c]] = "absent" THEN Goto(c, "refused") /\ UNCHANGED seen
       ELSE Goto(c, "sending") /\ seen' = [seen EXCEPT ![c] = db[CallSid[c]]]
    /\ UNCHANGED <<plan, tableVars, db, objVars, turnVars, evict, own, held, endVars>>

GetOrConnect(c) ==
    /\ at[c] = "sending"
    /\ LET s == CallSid[c]  n == LockFor(s) IN
       IF Connected(s)
       THEN Proceed(c, registry[s]) /\ UNCHANGED lockOf
       ELSE /\ lockOf' = [lockOf EXCEPT ![s] = n]
            /\ IF LockIsFree(n) THEN UnderLock(c, n)
               ELSE /\ Goto(c, "locking") /\ held' = [held EXCEPT ![c] = n]
                    /\ UNCHANGED own
    /\ UNCHANGED <<plan, registry, disc, db, objVars, turnVars, evict, seen, endVars>>

LockGranted(c) ==
    /\ at[c] = "locking" /\ LockIsFree(held[c])
    /\ UnderLock(c, held[c])
    /\ UNCHANGED <<plan, tableVars, db, objVars, turnVars, evict, seen, endVars>>

\* send_new_session has no key to lock yet.
New(c) ==
    /\ CallKind[c] = "new" /\ at[c] = "new"
    /\ Goto(c, "capacity")
    /\ UNCHANGED <<plan, tableVars, db, objVars, turnVars, evict, own, held, seen, endVars>>

-----------------------------------------------------------------------------
(* _ensure_capacity and _evict_one.                                        *)

BeginEvict(m) ==
    /\ disc' = disc \cup {sidOf[m]}
    /\ evict' = [evict EXCEPT ![m] = "disconnect"]

ActiveSessions == {registry[s] : s \in {t \in Sids : Connected(t)}}
Evictable == {m \in ActiveSessions : sessionStatus[m] # "running"}

\* Counted after an await, used before the next one.  Which of the idle
\* sessions goes (the least recently active) is data.
EnsureCapacity(c) ==
    /\ at[c] = "capacity"
    /\ \/ /\ Cardinality(ActiveSessions) < MaxConcurrent
          /\ Goto(c, "options") /\ UNCHANGED <<disc, evict, own, held>>
       \/ /\ Cardinality(ActiveSessions) >= MaxConcurrent
          /\ \E m \in Evictable : BeginEvict(m) /\ own' = [own EXCEPT ![c] = m]
          /\ Goto(c, "evicting") /\ UNCHANGED held
       \/ /\ Cardinality(ActiveSessions) >= MaxConcurrent /\ Evictable = {}
          /\ Goto(c, "refused") /\ held' = [held EXCEPT ![c] = 0]
          /\ UNCHANGED <<disc, evict, own>>
    /\ UNCHANGED <<plan, registry, lockOf, db, objVars, turnVars, seen, endVars>>

VictimGone(c) ==
    /\ at[c] = "evicting" /\ evict[own[c]] = "none" /\ CallKind[c] # "close"
    /\ Goto(c, "options")
    /\ UNCHANGED <<plan, tableVars, db, objVars, turnVars, evict, own, held, seen, endVars>>

\* The clean-up timer of a finished session, or the patrol.
Expire(m) ==
    /\ sidOf[m] # NoObj /\ registry[sidOf[m]] = m
    /\ sessionStatus[m] # "running" /\ sidOf[m] \notin disc
    /\ BeginEvict(m)
    /\ UNCHANGED <<plan, registry, lockOf, db, objVars, turnVars, callVars, endVars>>

\* send_disconnect: also a dead actor answers it, and the status is closed.
Disconnected(m) ==
    /\ evict[m] = "disconnect" /\ actor[m] \in {"idle", "busy", "gone"}
    /\ actor' = [actor EXCEPT ![m] = "gone"]
    /\ sessionStatus' = [sessionStatus EXCEPT ![m] = "closed"]
    /\ evict' = [evict EXCEPT ![m] = "drain"]
    /\ UNCHANGED <<plan, tableVars, db, made, sidOf, ready, turnVars, callVars, endVars>>

DisconnectTimesOut(m) ==
    /\ evict[m] = "disconnect"
    /\ actor' = [actor EXCEPT ![m] = "gone"]
    /\ sessionStatus' = [sessionStatus EXCEPT ![m] = "interrupted"]
    /\ evict' = [evict EXCEPT ![m] = "drain"]
    /\ UNCHANGED <<plan, tableVars, db, made, sidOf, ready, turnVars, callVars, endVars>>

\* The processor has five seconds to finish what it is writing; the row of a
\* new session may be there by then, and gets the status of the eviction.
ProcessorTimesOut(m) ==
    LET row == IF sessionStatus[m] = "closed" THEN "running" ELSE sessionStatus[m] IN
    /\ evict[m] = "drain" /\ proc[m] \in {"creating", "finalizing"}
    /\ proc' = [proc EXCEPT ![m] = "done"]
    /\ \/ UNCHANGED db
       \/ proc[m] = "creating" /\ db' = [db EXCEPT ![sidOf[m]] = row]
    /\ UNCHANGED <<plan, tableVars, objVars, turns, results, settled, evict, callVars, endVars>>

\* A status that says how the turn ended is persisted; a session that was closed
\* in the midst of a turn keeps the row that send_message wrote.  Whatever is
\* registered under the key goes.
Evicted(m) ==
    /\ evict[m] = "drain" /\ proc[m] \in {"none", "done"}
    /\ LET s == sidOf[m]
           st == IF sessionStatus[m] = "running" THEN "interrupted" ELSE sessionStatus[m] IN
       /\ IF m \in ready
          THEN /\ sessionStatus' = [sessionStatus EXCEPT ![m] = st]
               /\ IF st \in {"interrupted", "error"} THEN Record(s, st) ELSE UNCHANGED db
          ELSE UNCHANGED <<sessionStatus, db>>
       /\ IF db'[s] = "running" THEN Strand(s) ELSE UNCHANGED stranded
       /\ registry' = [registry EXCEPT ![s] = NoObj]
       /\ lockOf' = [lockOf EXCEPT ![s] = 0]
       /\ disc' = disc \ {s}
    /\ evict' = [evict EXCEPT ![m] = "none"]
    /\ UNCHANGED <<plan, made, actor, sidOf, ready, turnVars, callVars, faults>>

-----------------------------------------------------------------------------
(* Starting an actor and sending a query.                                  *)

\* The status that was read is the status of the new object, although its actor
\* has no turn to work on.
Connect(c) ==
    /\ at[c] = "options" /\ made < MaxManaged
    /\ LET s == CallSid[c]  m == made + 1  fresh == CallKind[c] = "new" IN
       /\ made' = m
       /\ sidOf' = [sidOf EXCEPT ![m] = s]
       /\ actor' = [actor EXCEPT ![m] = "starting"]
       /\ sessionStatus' = [sessionStatus EXCEPT ![m] =
                       IF fresh THEN "running"
                       ELSE IF seen[c] = "completed" THEN "idle" ELSE seen[c]]
       /\ ready' = IF fresh THEN ready ELSE ready \cup {m}
       /\ registry' = [registry EXCEPT ![s] = m]
       /\ own' = [own EXCEPT ![c] = m]
    /\ IF CallKind[c] # "new" /\ seen[c] = "running" THEN Strand(CallSid[c]) ELSE UNCHANGED stranded
    /\ Goto(c, "starting")
    /\ UNCHANGED <<plan, disc, lockOf, db, turnVars, evict, held, seen, faults>>

SessionStarted(c) ==
    /\ at[c] = "starting" /\ actor[own[c]] = "starting"
    /\ actor' = [actor EXCEPT ![own[c]] = "idle"]
    /\ proc' = [proc EXCEPT ![own[c]] = "waiting"]
    /\ IF CallKind[c] = "new"
       THEN Goto(c, "asking") /\ UNCHANGED <<own, held>>
       ELSE Proceed(c, own[c])
    /\ UNCHANGED <<plan, tableVars, db, made, sessionStatus, sidOf, ready, turns, results,
                   settled, evict, seen, endVars>>

StartFailsHoldingLock(c) ==
    /\ at[c] = "starting" /\ actor[own[c]] = "starting" /\ faults < MaxFaults
    /\ actor' = [actor EXCEPT ![own[c]] = "gone"]
    /\ registry' = [registry EXCEPT ![CallSid[c]] = NoObj]
    /\ Goto(c, "refused")
    /\ faults' = faults + 1
    /\ UNCHANGED <<plan, disc, lockOf, db, made, sessionStatus, sidOf, ready, turnVars, evict,
                   own, held, seen, stranded>>

\* start() raises: the key is removed.
StartFails(c) ==
    /\ at[c] = "starting" /\ actor[own[c]] = "starting" /\ faults < MaxFaults
    /\ actor' = [actor EXCEPT ![own[c]] = "gone"]
    /\ registry' = [registry EXCEPT ![CallSid[c]] = NoObj]
    /\ Goto(c, "refused") /\ held' = [held EXCEPT ![c] = 0]
    /\ faults' = faults + 1
    /\ UNCHANGED <<plan, disc, lockOf, db, made, sessionStatus, sidOf, ready, turnVars, evict,
                   own, seen, stranded>>

\* An eviction cancelled the actor while it started.
StartCancelled(c) ==
    /\ at[c] = "starting" /\ actor[own[c]] = "gone"
    /\ Goto(c, "refused") /\ held' = [held EXCEPT ![c] = 0]
    /\ UNCHANGED <<plan, tableVars, db, objVars, turnVars, evict, own, seen, endVars>>

\* The row says running, then send_query does; a dead actor answers at once.
MarkRunning(c) ==
    /\ at[c] = "marking"
    /\ Record(CallSid[c], "running")
    /\ IF actor[own[c]] = "gone"
       THEN sessionStatus' = [sessionStatus EXCEPT ![own[c]] = "error"] /\ Goto(c, "failing")
       ELSE sessionStatus' = [sessionStatus EXCEPT ![own[c]] = "running"] /\ Goto(c, "asking")
    /\ UNCHANGED <<plan, tableVars, made, actor, sidOf, ready, turnVars, evict, own,
                   held, seen, endVars>>

QueryTaken(c) ==
    /\ at[c] = "asking" /\ actor[own[c]] = "idle"
    /\ actor' = [actor EXCEPT ![own[c]] = "busy"]
    /\ turns' = [turns EXCEPT ![own[c]] = @ + 1]
    /\ Goto(c, IF CallKind[c] = "new" THEN "waitId" ELSE "done")
    /\ UNCHANGED <<plan, tableVars, db, made, sessionStatus, sidOf, ready, results, settled,
                   proc, evict, own, held, seen, endVars>>

QueryFails(c) ==
    /\ at[c] = "asking" /\ actor[own[c]] = "gone"
    /\ sessionStatus' = [sessionStatus EXCEPT ![own[c]] = "error"]
    /\ IF CallKind[c] = "new"
       THEN /\ Goto(c, "cleanup")
            /\ registry' = [registry EXCEPT ![CallSid[c]] = NoObj]
       ELSE Goto(c, "failing") /\ UNCHANGED registry
    /\ UNCHANGED <<plan, disc, lockOf, db, made, actor, sidOf, ready, turnVars, evict,
                   own, held, seen, endVars>>

RecordFailure(c) ==
    /\ at[c] = "failing"
    /\ Record(CallSid[c], "error") /\ Goto(c, "refused")
    /\ UNCHANGED <<plan, tableVars, objVars, turnVars, evict, own, held, seen, endVars>>

-----------------------------------------------------------------------------
(* The rest of send_new_session, and close_session as delete_session uses it. *)

IdArrives(c) ==
    /\ at[c] = "waitId" /\ own[c] \in ready
    /\ Goto(c, "done")
    /\ UNCHANGED <<plan, tableVars, db, objVars, turnVars, evict, own, held, seen, endVars>>

\* Time-out, or the actor ended first.
IdMissing(c) ==
    /\ at[c] = "waitId" /\ own[c] \notin ready
    /\ registry' = [registry EXCEPT ![CallSid[c]] = NoObj]
    /\ Goto(c, "cleanup")
    /\ UNCHANGED <<plan, disc, lockOf, db, objVars, turnVars, evict, own, held, seen, endVars>>

CleanedUp(c) ==
    /\ at[c] = "cleanup"
    /\ actor' = [actor EXCEPT ![own[c]] = "gone"]
    /\ sessionStatus' = [sessionStatus EXCEPT ![own[c]] = "closed"]
    /\ proc' = [proc EXCEPT ![own[c]] = "done"]
    /\ Goto(c, "refused")
    /\ \/ UNCHANGED <<db, stranded>>
       \/ /\ proc[own[c]] = "creating"        \* the row is there, and stays
          /\ db' = [db EXCEPT ![CallSid[c]] = "running"] /\ Strand(CallSid[c])
    /\ UNCHANGED <<plan, tableVars, made, sidOf, ready, turns, results, settled,
                   evict, own, held, seen, faults>>

Close(c) ==
    /\ CallKind[c] = "close" /\ at[c] = "new"
    /\ LET s == CallSid[c] IN
       IF Connected(s)
       THEN /\ BeginEvict(registry[s]) /\ own' = [own EXCEPT ![c] = registry[s]]
            /\ Goto(c, "evicting") /\ UNCHANGED db
       ELSE /\ db' = [db EXCEPT ![s] = "absent"] /\ Goto(c, "done")
            /\ UNCHANGED <<disc, evict, own>>
    /\ UNCHANGED <<plan, registry, lockOf, objVars, turnVars, held, seen, endVars>>

\* interrupt_session: without a live session only the row is corrected; the
\* actor answers the command, and the result of the turn does the rest.
InterruptSession(c) ==
    /\ CallKind[c] = "interrupt" /\ at[c] = "new"
    /\ Goto(c, "done")
    /\ LET s == CallSid[c]  m == registry[s] IN
       \/ /\ m = NoObj /\ UNCHANGED sessionStatus
          /\ IF db[s] = "running" THEN Record(s, "interrupted") ELSE UNCHANGED db
       \/ /\ m # NoObj /\ UNCHANGED db
          /\ sessionStatus' = IF sessionStatus[m] = "running" /\ actor[m] = "gone"
                       THEN [sessionStatus EXCEPT ![m] = "error"] ELSE sessionStatus
    /\ UNCHANGED <<plan, tableVars, made, actor, sidOf, ready, turnVars, evict,
                   own, held, seen, endVars>>

Deleted(c) ==
    /\ CallKind[c] = "close" /\ at[c] = "evicting" /\ evict[own[c]] = "none"
    /\ db' = [db EXCEPT ![CallSid[c]] = "absent"] /\ Goto(c, "done")
    /\ UNCHANGED <<plan, tableVars, objVars, turnVars, evict, own, held, seen, endVars>>

-----------------------------------------------------------------------------
(* The actor and the inbox processor of one session.                       *)

\* A call that has given up on its new session has removed the key.
GivenUp(m) == \E c \in Calls : at[c] = "cleanup" /\ own[c] = m

\* The first message of a new session: the row is created, the key swapped if
\* it is still there.
IdSeen(m) ==
    /\ actor[m] = "busy" /\ m \notin ready /\ proc[m] = "waiting"
    /\ proc' = [proc EXCEPT ![m] = "creating"]
    /\ UNCHANGED <<plan, tableVars, db, objVars, turns, results, settled, evict, callVars, endVars>>

RowCreated(m) ==
    /\ proc[m] = "creating"
    /\ proc' = [proc EXCEPT ![m] = "waiting"]
    /\ db' = [db EXCEPT ![sidOf[m]] = "running"]
    /\ IF GivenUp(m) THEN Strand(sidOf[m]) ELSE UNCHANGED stranded
    /\ ready' = ready \cup {m}
    /\ UNCHANGED <<plan, tableVars, made, sessionStatus, actor, sidOf, turns, results,
                   settled, evict, callVars, faults>>

\* The SDK ends a response by its result message and nothing else.
ResultArrives(m) ==
    /\ actor[m] = "busy" /\ results[m] < turns[m]
    /\ results' = [results EXCEPT ![m] = @ + 1]
    /\ UNCHANGED <<plan, tableVars, db, objVars, turns, settled, proc, evict, callVars, endVars>>

TurnOver(m) ==
    /\ actor[m] = "busy" /\ results[m] = turns[m]
    /\ actor' = [actor EXCEPT ![m] = "idle"]
    /\ UNCHANGED <<plan, tableVars, db, made, sessionStatus, sidOf, ready, turnVars, evict,
                   callVars, endVars>>

ActorDiesQuietly(m) ==
    /\ actor[m] \in {"idle", "busy"} /\ faults < MaxFaults
    /\ actor' = [actor EXCEPT ![m] = "gone"]
    /\ faults' = faults + 1
    /\ UNCHANGED <<plan, tableVars, db, made, sessionStatus, sidOf, ready, turnVars, evict,
                   callVars, stranded>>

\* The actor task raises; its done callback flips the status and persists it.
ActorDies(m) ==
    /\ actor[m] \in {"idle", "busy"} /\ faults < MaxFaults
    /\ actor' = [actor EXCEPT ![m] = "gone"]
    /\ sessionStatus' = [sessionStatus EXCEPT ![m] = "error"]
    /\ Record(sidOf[m], "error")
    /\ faults' = faults + 1
    /\ UNCHANGED <<plan, tableVars, made, sidOf, ready, turnVars, evict,
                   callVars, stranded>>

\* _finalize_turn up to its first await.  "completed" stands for what
\* _resolve_result_status says: completed, error or interrupted.
Finalize(m) ==
    /\ proc[m] = "waiting" /\ settled[m] < results[m] /\ m \in ready
    /\ sessionStatus' = [sessionStatus EXCEPT ![m] = "completed"]
    /\ proc' = [proc EXCEPT ![m] = "finalizing"]
    /\ UNCHANGED <<plan, tableVars, db, made, actor, sidOf, ready, turns, results,
                   settled, evict, callVars, endVars>>

Finalized(m) ==
    /\ proc[m] = "finalizing"
    /\ proc' = [proc EXCEPT ![m] = "waiting"]
    /\ settled' = [settled EXCEPT ![m] = @ + 1]
    /\ IF GivenUp(m) THEN UNCHANGED db ELSE Record(sidOf[m], "completed")
    /\ UNCHANGED <<plan, tableVars, objVars, turns, results, evict, callVars, endVars>>

\* The write fails: terminal error, and the processor returns.
FinalizeFails(m) ==
    /\ proc[m] = "finalizing" /\ faults < MaxFaults
    /\ faults' = faults + 1
    /\ sessionStatus' = [sessionStatus EXCEPT ![m] = "error"]
    /\ proc' = [proc EXCEPT ![m] = "done"]
    /\ UNCHANGED db \/ Record(sidOf[m], "error")
    /\ Strand(sidOf[m])
    /\ UNCHANGED <<plan, tableVars, made, actor, sidOf, ready, turns, results, settled,
                   evict, callVars>>

\* The sentinel of the done callback, behind everything else.
ProcessorEnds(m) ==
    /\ proc[m] = "waiting" /\ actor[m] = "gone"
    /\ settled[m] = results[m] \/ m \notin ready
    /\ proc' = [proc EXCEPT ![m] = "done"]
    /\ UNCHANGED <<plan, tableVars, db, objVars, turns, results, settled, evict, callVars, endVars>>

-----------------------------------------------------------------------------
CallStep(c) ==
    \/ Send(c) \/ GetOrConnect(c) \/ New(c) \/ Close(c) \/ LockGranted(c) \/ EnsureCapacity(c)
    \/ VictimGone(c) \/ Deleted(c) \/ InterruptSession(c) \/ Connect(c)
    \/ SessionStarted(c) \/ StartFails(c)
    \/ StartCancelled(c) \/ MarkRunning(c) \/ QueryTaken(c) \/ QueryFails(c)
    \/ RecordFailure(c) \/ IdArrives(c) \/ IdMissing(c) \/ CleanedUp(c)

EvictStep(m) ==
    \/ Disconnected(m) \/ DisconnectTimesOut(m) \/ ProcessorTimesOut(m) \/ Evicted(m)
ProcStep(m) ==
    \/ IdSeen(m) \/ RowCreated(m) \/ Finalize(m) \/ Finalized(m)
    \/ FinalizeFails(m) \/ ProcessorEnds(m)
SdkStep(m) == ResultArrives(m) \/ TurnOver(m)

ManagerNext ==
    \/ \E c \in Calls : CallStep(c)
    \/ \E m \in Managed : EvictStep(m) \/ ProcStep(m) \/ SdkStep(m)
                            \/ ActorDies(m) \/ Expire(m)

ManagerSpec == ManagerInit /\ [][ManagerNext]_managerVars

\* asyncio runs what is ready, and the SDK ends its turns: as long as a call
\* that has begun, an eviction, a processor or a turn can go on, something
\* does.  Nobody has to send, to expire or to fail.
ManagerProgress ==
    \/ \E c \in Calls : at[c] # "new" /\ CallStep(c)
    \/ \E m \in Managed : EvictStep(m) \/ ProcStep(m) \/ SdkStep(m)
ManagerFair == WF_managerVars(ManagerProgress)

-----------------------------------------------------------------------------
(* Properties.                                                             *)

\* The calls that have begun return: locks are released, evictions end although
\* a disconnect is not answered, and whoever waits for an actor hears of its end.
UnderWay == {c \in Calls : at[c] \notin {"new"} \cup Over}
EveryCallReturns == UnderWay # {} ~> UnderWay = {}

\* A session is taken while its row or the object registered for it says running:
\* it takes no message, or will take none once it is connected again.
Taken(s) ==
    \/ db[s] = "running"
    \/ registry[s] # NoObj /\ sessionStatus[registry[s]] = "running"

\* No session stays taken: the result of its turn, the end of its actor or its
\* eviction reaches the object and the row, whoever writes them in whatever
\* order, and it takes messages again.  The code leaves it as running in four
\* ways, each an exception: an eviction that closes it in the midst of a turn, or
\* cuts a write of its processor short, and so leaves the row; a connect that
\* goes by a status that says running; a processor that returned after a write
\* it could not make; and the row of a new session whose caller has given up.
TurnSettles == \A s \in Sids : Taken(s) ~> ~Taken(s) \/ s \in stranded

\* Both: no HTTP call stays open, and no session stays taken.
SessionsSettle == EveryCallReturns /\ TurnSettles
=============================================================================
