--------------------------- MODULE ProjectChannel ---------------------------
(***************************************************************************)
(* server/services/project_events.py, for one project: browsers follow its *)
(* files over a channel.  A watch task scans the files while the channel   *)
(* has subscribers, keeps the last snapshot and tells them when it has     *)
(* changed; a worker that has changed something itself has a batch task    *)
(* take the snapshot and tell them.  Files are read in a thread, all else  *)
(* runs in the event loop.                                                 *)
(*                                                                         *)
(* A snapshot is the version of the files it was taken of.  Not all that   *)
(* is in a snapshot is compared: that an episode is gone, or that a script *)
(* file has come or gone, is a change no scan finds.                       *)
(***************************************************************************)
EXTENDS Naturals, Sequences

CONSTANTS
    Subscribers,
    QueueCap,                  \* capacity of a subscriber's queue
    Undiffed,                  \* <<previous, current>>: _diff_snapshots finds no change
    MaxChannels, MaxVersionsOfFiles, MaxBatches, MaxScanErrors    \* bounds

ASSUME ChannelAssumption ==
    /\ {MaxVersionsOfFiles, MaxBatches, MaxScanErrors} \subseteq Nat
    /\ {MaxChannels, QueueCap} \subseteq Nat \ {0}
    /\ Undiffed \subseteq Nat \X Nat

VARIABLES
    files,        \* the version of the project's files
    channel,      \* the registered channel, 0 if there is none
    opened,       \* how many channels there have been
    subscribers,  \* per channel: the queues it broadcasts to
    watch,        \* per channel: its watch task
    reading,      \* per channel: what the scan under way has read
    readyEvent,   \* per channel
    snapshotOf,   \* per channel: the version of its snapshot, 0 for None
    batches,      \* the batch tasks: <<channel, version read or 0>>
    batchCount, scanErrors,
    at,           \* per subscriber: where its stream is
    chan,         \* per subscriber: its channel
    inbox,        \* per subscriber: its queue
    told,         \* per subscriber: the version it was told last
    dropped,      \* subscribers removed because their queue was full
    orphaned       \* one joined while the last one was leaving (history)

loopVars == <<channel, opened, subscribers, watch, reading, readyEvent, snapshotOf>>
batchTasks == <<batches, batchCount>>
streams  == <<at, chan, inbox, told, dropped, orphaned>>
channelVars == <<files, loopVars, batchTasks, scanErrors, streams>>

Channels == 1..MaxChannels
Versions == 1..(1 + MaxVersionsOfFiles)
Alive(k) == watch[k] \in {"scanning", "waiting"}

ChannelTypeOK ==
    /\ files \in Versions /\ channel \in 0..MaxChannels /\ opened \in 0..MaxChannels
    /\ subscribers \in [Channels -> SUBSET Subscribers]
    /\ watch \in [Channels -> {"none", "scanning", "waiting", "cancelled", "done"}]
    /\ {reading, snapshotOf} \subseteq [Channels -> {0} \cup Versions]
    /\ readyEvent \in [Channels -> BOOLEAN]
    /\ batchCount \in 0..MaxBatches /\ scanErrors \in 0..MaxScanErrors
    /\ \A i \in 1..Len(batches) : batches[i] \in Channels \X ({0} \cup Versions)
    /\ at \in [Subscribers -> {"away", "joining", "live", "leaving", "gone"}]
    /\ chan \in [Subscribers -> 0..MaxChannels] /\ told \in [Subscribers -> {0} \cup Versions]
    /\ \A s \in Subscribers : inbox[s] \in Seq(Versions) /\ Len(inbox[s]) <= QueueCap
    /\ dropped \subseteq Subscribers /\ orphaned \in BOOLEAN

ChannelInit ==
    /\ files = 1 /\ channel = 0 /\ opened = 0
    /\ subscribers = [k \in Channels |-> {}] /\ watch = [k \in Channels |-> "none"]
    /\ reading = [k \in Channels |-> 0] /\ snapshotOf = [k \in Channels |-> 0]
    /\ readyEvent = [k \in Channels |-> FALSE]
    /\ batches = <<>> /\ batchCount = 0 /\ scanErrors = 0
    /\ at = [s \in Subscribers |-> "away"] /\ chan = [s \in Subscribers |-> 0]
    /\ inbox = [s \in Subscribers |-> <<>>] /\ told = [s \in Subscribers |-> 0]
    /\ dropped = {} /\ orphaned = FALSE

ChangeFiles ==
    /\ files < 1 + MaxVersionsOfFiles /\ files' = files + 1
    /\ UNCHANGED <<loopVars, batchTasks, scanErrors, streams>>

-----------------------------------------------------------------------------
(* The streams.                                                            *)

\* Mutant: a watch that has ended is taken for one that is at work.
NeedsFirstWatch(k) == watch[k] = "none"
NeedsWatch(k) == watch[k] \in {"none", "done"}

\* _subscribe: the queue is registered before the first scan; the watch is
\* started again if it has ended.
Join(s) ==
    /\ at[s] = "away"
    /\ LET fresh == channel = 0
           k == IF fresh THEN opened + 1 ELSE channel
           start == NeedsWatch(k)
       IN  /\ k \in Channels
           /\ channel' = k /\ opened' = IF fresh THEN k ELSE opened
           /\ subscribers' = [subscribers EXCEPT ![k] = @ \cup {s}]
           /\ watch' = [watch EXCEPT ![k] = IF start THEN "scanning" ELSE @]
           /\ readyEvent' = [readyEvent EXCEPT ![k] = @ /\ ~start]
           /\ chan' = [chan EXCEPT ![s] = k] /\ at' = [at EXCEPT ![s] = "joining"]
           /\ orphaned' = (orphaned \/ \E o \in Subscribers : at[o] = "leaving" /\ chan[o] = k)
           /\ UNCHANGED <<reading, snapshotOf>>
    /\ UNCHANGED <<files, batchTasks, scanErrors, inbox, told, dropped>>

\* The first item of the stream is the channel's snapshot, now.
SendSnapshot(s) ==
    /\ at[s] = "joining" /\ readyEvent[chan[s]]
    /\ at' = [at EXCEPT ![s] = "live"] /\ told' = [told EXCEPT ![s] = snapshotOf[chan[s]]]
    /\ UNCHANGED <<files, loopVars, batchTasks, scanErrors, chan, inbox, dropped, orphaned>>

\* Disconnected while it waits for the first scan: it cleans up at once.
BreakOff(s) ==
    /\ at[s] = "joining" /\ at' = [at EXCEPT ![s] = "gone"]
    /\ LET k == chan[s]
           last == subscribers[k] \ {s} = {}
       IN  /\ subscribers' = [subscribers EXCEPT ![k] = @ \ {s}]
           /\ watch' = [watch EXCEPT ![k] = IF last /\ Alive(k) THEN "cancelled" ELSE @]
           /\ channel' = IF last THEN 0 ELSE channel
    /\ inbox' = [inbox EXCEPT ![s] = <<>>]
    /\ UNCHANGED <<files, opened, reading, readyEvent, snapshotOf, batchTasks, scanErrors,
                   chan, told, dropped, orphaned>>

Take(s) ==
    /\ at[s] = "live" /\ inbox[s] # <<>>
    /\ told' = [told EXCEPT ![s] = Head(inbox[s])] /\ inbox' = [inbox EXCEPT ![s] = Tail(@)]
    /\ UNCHANGED <<files, loopVars, batchTasks, scanErrors, at, chan, dropped, orphaned>>

\* _unsubscribe looks the channel up by the project's name.  The last one waits
\* for the watch to end.
Leave(s) ==
    /\ at[s] = "live" /\ inbox' = [inbox EXCEPT ![s] = <<>>]
    /\ LET rest == subscribers[channel] \ {s} IN
        IF channel = 0
        THEN at' = [at EXCEPT ![s] = "gone"] /\ UNCHANGED <<subscribers, watch, chan>>
        ELSE /\ subscribers' = [subscribers EXCEPT ![channel] = rest]
             /\ chan' = [chan EXCEPT ![s] = channel]
             /\ at' = [at EXCEPT ![s] = IF rest = {} THEN "leaving" ELSE "gone"]
             /\ watch' = [watch EXCEPT ![channel] = IF rest = {} /\ Alive(channel)
                                                    THEN "cancelled" ELSE @]
    /\ UNCHANGED <<files, channel, opened, reading, readyEvent, snapshotOf, batchTasks,
                   scanErrors, told, dropped, orphaned>>

\* Then the name is freed, whoever has it by now.
Unregister(s) ==
    /\ at[s] = "leaving" /\ watch[chan[s]] \in {"none", "done"}
    /\ at' = [at EXCEPT ![s] = "gone"] /\ channel' = 0
    /\ UNCHANGED <<files, opened, subscribers, watch, reading, readyEvent, snapshotOf,
                   batchTasks, scanErrors, chan, inbox, told, dropped, orphaned>>

-----------------------------------------------------------------------------
(* The watch and the batch tasks.                                          *)

\* _broadcast: a subscriber whose queue is full is removed, without a word.
Broadcast(k, version) ==
    LET full == {s \in subscribers[k] : Len(inbox[s]) = QueueCap} IN
    /\ snapshotOf' = [snapshotOf EXCEPT ![k] = version]
    /\ inbox' = [s \in Subscribers |->
                    IF s \in subscribers[k] \ full THEN Append(inbox[s], version) ELSE inbox[s]]
    /\ subscribers' = [subscribers EXCEPT ![k] = @ \ full]
    /\ dropped' = dropped \cup full

ReadFiles(k) ==
    /\ watch[k] = "scanning" /\ reading[k] = 0 /\ subscribers[k] # {}
    /\ reading' = [reading EXCEPT ![k] = files]
    /\ UNCHANGED <<files, channel, opened, subscribers, watch, readyEvent, snapshotOf,
                   batchTasks, scanErrors, streams>>

\* Nobody is told of the first snapshot, nor of one that is no other or in which
\* no change is found: it is kept all the same.
ApplyScan(k) ==
    /\ watch[k] = "scanning" /\ reading[k] # 0
    /\ IF snapshotOf[k] \in {0, reading[k]} \/ <<snapshotOf[k], reading[k]>> \in Undiffed
       THEN snapshotOf' = [snapshotOf EXCEPT ![k] = reading[k]]
            /\ UNCHANGED <<inbox, dropped, subscribers>>
       ELSE Broadcast(k, reading[k])
    /\ watch' = [watch EXCEPT ![k] = "waiting"] /\ reading' = [reading EXCEPT ![k] = 0]
    /\ readyEvent' = [readyEvent EXCEPT ![k] = TRUE]
    /\ UNCHANGED <<files, channel, opened, batchTasks, scanErrors, at, chan, told, orphaned>>

ScanFails(k) ==
    /\ watch[k] = "scanning" /\ scanErrors < MaxScanErrors /\ scanErrors' = scanErrors + 1
    /\ watch' = [watch EXCEPT ![k] = "waiting"] /\ reading' = [reading EXCEPT ![k] = 0]
    /\ readyEvent' = [readyEvent EXCEPT ![k] = TRUE]
    /\ UNCHANGED <<files, channel, opened, subscribers, snapshotOf, batchTasks, streams>>

\* By a hint, or by the poll interval; without a subscriber the loop ends.
WakeWatch(k) ==
    /\ watch[k] = "waiting"
    /\ watch' = [watch EXCEPT ![k] = IF subscribers[k] = {} THEN "done" ELSE "scanning"]
    /\ UNCHANGED <<files, channel, opened, subscribers, reading, readyEvent, snapshotOf,
                   batchTasks, scanErrors, streams>>

\* The cancelled task gets to see it; its finally sets the event.
EndWatch(k) ==
    /\ watch[k] = "cancelled" /\ watch' = [watch EXCEPT ![k] = "done"]
    /\ reading' = [reading EXCEPT ![k] = 0] /\ readyEvent' = [readyEvent EXCEPT ![k] = TRUE]
    /\ UNCHANGED <<files, channel, opened, subscribers, snapshotOf, batchTasks, scanErrors,
                   streams>>

\* A worker has changed the files and says so itself.
EmitBatch ==
    /\ channel # 0 /\ batchCount < MaxBatches /\ batchCount' = batchCount + 1
    /\ batches' = Append(batches, <<channel, 0>>)
    /\ UNCHANGED <<files, loopVars, scanErrors, streams>>

ReadBatch(i) ==
    /\ batches[i][2] = 0 /\ batches' = [batches EXCEPT ![i][2] = files]
    /\ UNCHANGED <<files, loopVars, batchCount, scanErrors, streams>>

\* Threads may end in any order: an older snapshot may come after a newer one.
EndBatch(i) ==
    /\ batches[i][2] # 0
    /\ Broadcast(batches[i][1], batches[i][2])
    /\ batches' = SubSeq(batches, 1, i - 1) \o SubSeq(batches, i + 1, Len(batches))
    /\ UNCHANGED <<files, channel, opened, watch, reading, readyEvent, batchCount, scanErrors,
                   at, chan, told, orphaned>>

ChannelNext ==
    \/ ChangeFiles \/ EmitBatch
    \/ \E s \in Subscribers :
        Join(s) \/ SendSnapshot(s) \/ BreakOff(s) \/ Take(s) \/ Leave(s) \/ Unregister(s)
    \/ \E k \in Channels : ReadFiles(k) \/ ApplyScan(k) \/ ScanFails(k) \/ WakeWatch(k) \/ EndWatch(k)
    \/ \E i \in 1..Len(batches) : ReadBatch(i) \/ EndBatch(i)

ChannelSpec == ChannelInit /\ [][ChannelNext]_channelVars

-----------------------------------------------------------------------------
(* Properties.                                                             *)

LastWord(s) == IF inbox[s] = <<>> THEN told[s] ELSE inbox[s][Len(inbox[s])]

\* What has become of version v by changes no scan finds.
Closed(S) == \A a, b \in Versions : a \in S /\ <<a, b>> \in Undiffed => b \in S
BecameUnseen(v, w) == \A S \in SUBSET Versions : v \in S /\ Closed(S) => w \in S

\* Whoever follows the project, and was not removed, is on a channel whose watch
\* lives, and the last it was told or has waiting is the channel's snapshot (or
\* None, when the first scan failed), whoever joins, leaves, breaks off or is
\* removed: so that the next scan tells it what has changed.  The exception: what
\* the snapshot took in by changes no scan finds nobody hears of, not even later.
\* All bets are off once a stream joins while the last one is leaving: it is left
\* on a channel nobody watches any more.
FollowersAreServed ==
    ~orphaned => \A s \in Subscribers \ dropped :
        at[s] = "live" =>
            /\ s \in subscribers[chan[s]] /\ Alive(chan[s])
            /\ LastWord(s) # 0 => BecameUnseen(LastWord(s), snapshotOf[chan[s]])
=============================================================================
