--------------------------- MODULE Assistant_proofs ---------------------------
(***************************************************************************)
(* Theorems about the assistant's runtime, for any number of commands,     *)
(* messages and browsers, and about the agent's files in a project, for    *)
(* any number of files and releases.                                       *)
(*                                                                         *)
(* SessionActor: what a caller may rely on is the place of its command     *)
(* (EveryCommandIsKept).  ActorInv adds where the task can stand with      *)
(* which commands, so that no exit forgets one of them.                    *)
(***************************************************************************)
EXTENDS SessionActor, AssistantStream, ProfileSync, WellFoundedInduction, TLAPS

Members(q) == {q[i] : i \in DOMAIN q}
Distinct(q) == \A i, j \in DOMAIN q : q[i] = q[j] => i = j

\* EveryCommandIsKept in terms of Members and Distinct.
Kept ==
    /\ handed \subseteq
         doneCmds \cup Members(cmdQueue) \cup {turn, aside, hand} \cup lostInHand
    /\ doneCmds \cap Members(cmdQueue) = {} /\ doneCmds \cap lostInHand = {}
    /\ turn \notin doneCmds /\ aside \notin doneCmds /\ hand \notin doneCmds
    /\ turn = aside => turn = NoCmd
    /\ turn = hand => turn = NoCmd
    /\ aside = hand => aside = NoCmd
    /\ turn \notin Members(cmdQueue) /\ aside \notin Members(cmdQueue)
    /\ hand \notin Members(cmdQueue)
    /\ Distinct(cmdQueue)
    /\ doneCmds \subseteq sentCmds /\ sentCmds \subseteq doneCmds \cup {turn}

\* Where the actor stands says which commands it holds; what was lost in a
\* hand was lost by the end of the task.
Places ==
    /\ turn # NoCmd <=> actorAt \in {"querying", "driving", "interrupting", "closing"}
    /\ hand # NoCmd => actorAt \in {"driving", "interrupting", "closing"}
    /\ actorAt \in {"interrupting", "closing"} => hand # NoCmd
    /\ aside # NoCmd => actorAt \in {"driving", "interrupting", "closing"}
    /\ actorAt = "ended" => cmdQueue = <<>>
    /\ lostInHand # {} => actorAt = "ended"
    /\ \A c, d \in lostInHand : c = d
    /\ Members(cmdQueue) \subseteq handed /\ lostInHand \subseteq handed
    /\ NoCmd \notin handed /\ NoCmd \notin sentCmds /\ NoCmd \notin doneCmds
    /\ turn \in handed \cup {NoCmd} /\ aside \in handed \cup {NoCmd}
    /\ hand \in handed \cup {NoCmd}
    /\ actorAt \in {"driving", "interrupting", "closing"} => turn \in sentCmds

ActorInv == ActorTypeOK /\ Kept /\ Places

-----------------------------------------------------------------------------
(* The queue as a set.                                                     *)

LEMMA QueueEmpty == Members(<<>>) = {} /\ Distinct(<<>>) /\ \A S : <<>> \in Seq(S)
  BY DEF Members, Distinct

\* put() adds its command, and nothing twice if it was not there.
LEMMA QueueAppended ==
  ASSUME NEW S, NEW q \in Seq(S), NEW c \in S
  PROVE  /\ Append(q, c) \in Seq(S)
         /\ Members(Append(q, c)) = Members(q) \cup {c}
         /\ Distinct(q) /\ c \notin Members(q) => Distinct(Append(q, c))
  <1>1. /\ Append(q, c) \in Seq(S) /\ Len(q) \in Nat
        /\ DOMAIN q = 1..Len(q) /\ DOMAIN Append(q, c) = 1..(Len(q) + 1)
        /\ \A i \in 1..Len(q) : Append(q, c)[i] = q[i]
        /\ Append(q, c)[Len(q) + 1] = c
    OBVIOUS
  <1>2. \A i \in 1..(Len(q) + 1) : i \in 1..Len(q) \/ i = Len(q) + 1
    BY <1>1
  <1>3. \A i \in 1..Len(q) : i \in 1..(Len(q) + 1)
    BY <1>1
  <1>4. Len(q) + 1 \in 1..(Len(q) + 1)
    BY <1>1
  <1>5. Members(Append(q, c)) = Members(q) \cup {c}
    <2>1. \A i \in DOMAIN q : q[i] \in Members(Append(q, c))
      BY <1>1, <1>3 DEF Members
    <2>2. \A i \in DOMAIN Append(q, c) : Append(q, c)[i] \in Members(q) \cup {c}
      BY <1>1, <1>2 DEF Members
    <2>3. c \in Members(Append(q, c))
      BY <1>1, <1>4 DEF Members
    <2> QED BY <2>1, <2>2, <2>3 DEF Members
  <1>6. ASSUME Distinct(q), c \notin Members(q),
               NEW i \in DOMAIN Append(q, c), NEW j \in DOMAIN Append(q, c),
               Append(q, c)[i] = Append(q, c)[j]
        PROVE  i = j
    BY <1>1, <1>2, <1>6 DEF Distinct, Members
  <1> QED BY <1>1, <1>5, <1>6 DEF Distinct

\* get() takes one command out, and the rest stays.
LEMMA QueueTaken ==
  ASSUME NEW S, NEW q \in Seq(S), q # <<>>, Distinct(q)
  PROVE  /\ Tail(q) \in Seq(S) /\ Head(q) \in S
         /\ Members(q) = Members(Tail(q)) \cup {Head(q)}
         /\ Head(q) \notin Members(Tail(q))
         /\ Distinct(Tail(q))
  <1>1. /\ Tail(q) \in Seq(S) /\ Head(q) \in S /\ Head(q) = q[1]
        /\ Len(q) \in Nat /\ Len(q) > 0
        /\ DOMAIN q = 1..Len(q) /\ DOMAIN Tail(q) = 1..(Len(q) - 1)
        /\ \A i \in 1..(Len(q) - 1) : Tail(q)[i] = q[i + 1]
    OBVIOUS
  <1>2. \A i \in 1..(Len(q) - 1) : i + 1 \in 1..Len(q) /\ i + 1 # 1
    BY <1>1
  <1>3. \A i \in 1..Len(q) : i = 1 \/ (i - 1 \in 1..(Len(q) - 1) /\ (i - 1) + 1 = i)
    BY <1>1
  <1>4. 1 \in 1..Len(q)
    BY <1>1
  <1>5. \A i \in 1..Len(q) : i = 1 \/ q[i] = Tail(q)[i - 1]
    BY <1>1, <1>3
  <1>6. Members(q) = Members(Tail(q)) \cup {Head(q)}
    <2>1. \A i \in DOMAIN q : q[i] \in Members(Tail(q)) \cup {Head(q)}
      BY <1>1, <1>3, <1>5 DEF Members
    <2>2. \A i \in DOMAIN Tail(q) : Tail(q)[i] \in Members(q)
      BY <1>1, <1>2 DEF Members
    <2>3. Head(q) \in Members(q)
      BY <1>1, <1>4 DEF Members
    <2> QED BY <2>1, <2>2, <2>3 DEF Members
  <1>7. \A i \in DOMAIN Tail(q) : Tail(q)[i] # Head(q)
    BY <1>1, <1>2, <1>4 DEF Distinct
  <1>8. ASSUME NEW i \in DOMAIN Tail(q), NEW j \in DOMAIN Tail(q), Tail(q)[i] = Tail(q)[j]
        PROVE  i = j
    <2>1. q[i + 1] = q[j + 1]
      BY <1>1, <1>8
    <2>2. i + 1 = j + 1
      BY <2>1, <1>1, <1>2 DEF Distinct
    <2> QED BY <2>2, <1>1
  <1>9. Head(q) \notin Members(Tail(q))
    BY <1>7 DEF Members
  <1> QED BY <1>1, <1>6, <1>8, <1>9 DEF Distinct

-----------------------------------------------------------------------------
(* The actor.                                                              *)

LEMMA KeptIsKept == ActorInv => EveryCommandIsKept
  BY ActorAssumption DEF ActorInv, ActorTypeOK, Kept, EveryCommandIsKept, Members, Distinct,
                         Queued, Real, Places

LEMMA ActorInvInit == ActorInit => ActorInv
  <1> SUFFICES ASSUME ActorInit PROVE ActorInv
    OBVIOUS
  <1>1. ActorTypeOK
    BY ActorAssumption, QueueEmpty DEF ActorInit, ActorTypeOK, ActorPoints
  <1>2. Kept /\ Places
    BY ActorAssumption, QueueEmpty DEF ActorInit, Kept, Places
  <1> QED BY <1>1, <1>2 DEF ActorInv

\* Leaving answers what the task holds and what is queued, but perhaps what is
\* at hand.
LEMMA EndKeeps ==
  ASSUME ActorInv,
         NEW lost \in SUBSET Real(hand), lostInHand' = lostInHand \cup lost,
         failedCmds' \subseteq handed,
         doneCmds' = (doneCmds \cup Members(cmdQueue) \cup Real(turn) \cup Real(aside)
                        \cup Real(hand)) \ lost,
         sentCmds' = sentCmds \cup doneCmds',
         actorAt' = "ended", cmdQueue' = <<>>, stream' = "none", cancelActor' = FALSE,
         turn' = NoCmd, hand' = NoCmd, aside' = NoCmd, UNCHANGED handed,
         lost # {} => actorAt # "ended"
  PROVE  ActorInv'
  <1> USE ActorAssumption
  <1>1. cmdQueue' \in Seq(Cmds) /\ Members(cmdQueue') = {} /\ Distinct(cmdQueue')
    BY QueueEmpty
  <1>2. lost \subseteq {hand} /\ NoCmd \notin lost
    BY DEF Real
  <1>3. ActorTypeOK'
    BY <1>1, <1>2 DEF ActorInv, ActorTypeOK, Places, Real, ActorPoints
  <1>4. Kept'
    BY <1>1, <1>2 DEF ActorInv, ActorTypeOK, Kept, Places, Real
  <1>5. Places'
    BY <1>1, <1>2 DEF ActorInv, ActorTypeOK, Kept, Places, Real
  <1> QED BY <1>3, <1>4, <1>5 DEF ActorInv

LEMMA DieKeeps ==
  ASSUME ActorInv, Die(Real(turn))
  PROVE  ActorInv'
  <1> USE ActorAssumption
  <1>1. /\ doneCmds' = (doneCmds \cup Members(cmdQueue) \cup Real(turn) \cup Real(aside)
                          \cup Real(hand)) \ Real(hand)
        /\ sentCmds' = sentCmds \cup doneCmds'
        /\ failedCmds' \subseteq handed
    <2>1. Queued = Members(cmdQueue)
      BY DEF Queued, Members
    <2> QED BY <2>1 DEF Die, Fail, ActorInv, ActorTypeOK, Kept, Places, Real
  <1>2. Real(hand) # {} => actorAt # "ended"
    BY DEF ActorInv, Places, Real
  <1> QED BY <1>1, <1>2, EndKeeps DEF Die

\* What is queued is taken, and what is taken goes to one place.
LEMMA TakenKeeps ==
  ASSUME ActorInv, cmdQueue # <<>>, cmdQueue' = Tail(cmdQueue)
  PROVE  /\ cmdQueue' \in Seq(Cmds) /\ Head(cmdQueue) \in Cmds
         /\ Members(cmdQueue) = Members(cmdQueue') \cup {Head(cmdQueue)}
         /\ Head(cmdQueue) \notin Members(cmdQueue')
         /\ Distinct(cmdQueue')
  BY QueueTaken DEF ActorInv, ActorTypeOK, Kept

LEMMA TakeCommandKeeps ==
  ASSUME ActorInv, TakeCommand
  PROVE  ActorInv'
  <1> USE ActorAssumption
  <1> DEFINE c == Head(cmdQueue)
  <1>1. /\ cmdQueue' \in Seq(Cmds) /\ c \in Cmds
        /\ Members(cmdQueue) = Members(cmdQueue') \cup {c}
        /\ c \notin Members(cmdQueue') /\ Distinct(cmdQueue')
    BY TakenKeeps DEF TakeCommand
  <1>2. KindOf[c] \in {"query", "interrupt", "disconnect"}
    BY <1>1
  <1>3. /\ Serve(c) /\ actorAt = "idle"
        /\ UNCHANGED <<hand, aside, stream, handed, cancelActor, lostInHand>>
    BY DEF TakeCommand
  <1> HIDE DEF c
  <1>4. CASE KindOf[c] = "query"
    <2>1. actorAt' = "querying" /\ turn' = c /\ Unanswered
      BY <1>3, <1>4 DEF Serve
    <2>2. ActorTypeOK'
      BY <1>1, <1>3, <2>1 DEF Unanswered, ActorInv, ActorTypeOK, ActorPoints
    <2>3. Kept' /\ Places'
      <3>1. Kept'
        BY <1>1, <1>3, <2>1 DEF Unanswered, ActorInv, Kept, Places
      <3>2. Places'
        BY <1>1, <1>3, <2>1 DEF Unanswered, ActorInv, Kept, Places
      <3> QED BY <3>1, <3>2
    <2> QED BY <2>2, <2>3 DEF ActorInv
  <1>5. CASE KindOf[c] # "query"
    <2>1. actorAt' \in {"exiting", "idle"} /\ turn' = NoCmd /\ Complete({c})
      BY <1>2, <1>3, <1>5 DEF Serve
    <2>2. ActorTypeOK'
      BY <1>1, <1>3, <2>1 DEF Complete, ActorInv, ActorTypeOK, ActorPoints, Places
    <2>3. Kept' /\ Places'
      <3>1. Kept'
        BY <1>1, <1>3, <2>1 DEF Complete, ActorInv, Kept, Places
      <3>2. Places'
        BY <1>1, <1>3, <2>1 DEF Complete, ActorInv, Kept, Places
      <3> QED BY <3>1, <3>2
    <2> QED BY <2>2, <2>3 DEF ActorInv
  <1> QED BY <1>4, <1>5

LEMMA EnqueueKeeps ==
  ASSUME ActorInv, NEW c \in Cmds, EnqueueCmd(c)
  PROVE  ActorInv'
  <1> USE ActorAssumption
  <1>1. CASE actorAt = "ended"
    <2>1. cmdQueue' = cmdQueue /\ Fail({c})
      BY <1>1 DEF EnqueueCmd
    <2>2. ActorTypeOK'
      BY <2>1 DEF EnqueueCmd, Fail, ActorInv, ActorTypeOK
    <2>3. Kept' /\ Places'
      <3>1. Kept'
        BY <1>1, <2>1 DEF EnqueueCmd, Fail, ActorInv, Kept, Places, ActorTypeOK
      <3>2. Places'
        BY <1>1, <2>1 DEF EnqueueCmd, Fail, ActorInv, Kept, Places, ActorTypeOK
      <3> QED BY <3>1, <3>2
    <2> QED BY <2>2, <2>3 DEF ActorInv
  <1>2. CASE actorAt # "ended"
    <2>1. cmdQueue' = Append(cmdQueue, c) /\ Unanswered
      BY <1>2 DEF EnqueueCmd
    <2>2. c \notin Members(cmdQueue)
      BY DEF EnqueueCmd, ActorInv, Places
    <2>3. /\ cmdQueue' \in Seq(Cmds) /\ Members(cmdQueue') = Members(cmdQueue) \cup {c}
          /\ Distinct(cmdQueue')
      BY <2>1, <2>2, QueueAppended DEF ActorInv, ActorTypeOK, Kept
    <2>4. ActorTypeOK'
      BY <2>1, <2>3 DEF EnqueueCmd, Unanswered, ActorInv, ActorTypeOK
    <2>5. Kept' /\ Places'
      <3>1. Kept'
        BY <1>2, <2>1, <2>3 DEF EnqueueCmd, Unanswered, ActorInv, Kept, Places, ActorTypeOK
      <3>2. Places'
        BY <1>2, <2>1, <2>3 DEF EnqueueCmd, Unanswered, ActorInv, Kept, Places, ActorTypeOK
      <3> QED BY <3>1, <3>2
    <2> QED BY <2>4, <2>5 DEF ActorInv
  <1> QED BY <1>1, <1>2

\* The end of a response: a query set aside goes first and what is at hand goes
\* back to the queue; otherwise what is at hand is next.
LEMMA TurnEndsKeeps ==
  ASSUME ActorInv, TurnEnds
  PROVE  ActorInv'
  <1> USE ActorAssumption
  <1>0. /\ actorAt = "driving" /\ turn \in Cmds /\ turn \in handed /\ lostInHand = {}
        /\ stream' = "none" /\ hand' = NoCmd /\ aside' = NoCmd
        /\ UNCHANGED <<handed, cancelActor, lostInHand>>
    BY DEF TurnEnds, ActorInv, ActorTypeOK, Places
  <1>1. CASE aside # NoCmd
    <2>1. /\ cmdQueue' = IF hand = NoCmd THEN cmdQueue ELSE Append(cmdQueue, hand)
          /\ actorAt' = "querying" /\ turn' = aside /\ doneCmds' = doneCmds \cup {turn}
          /\ UNCHANGED <<sentCmds, failedCmds>>
      BY <1>1 DEF TurnEnds
    <2>2. /\ cmdQueue' \in Seq(Cmds)
          /\ Members(cmdQueue') = Members(cmdQueue) \cup Real(hand)
          /\ Distinct(cmdQueue')
      BY <2>1, QueueAppended DEF ActorInv, ActorTypeOK, Kept, Real
    <2>3. turn \in sentCmds
      BY <1>0 DEF ActorInv, Places
    <2>4. ActorTypeOK'
      BY <1>0, <1>1, <2>1, <2>2 DEF ActorInv, ActorTypeOK, ActorPoints
    <2>5. Kept' /\ Places'
      <3>1. Kept'
        BY <1>0, <1>1, <2>1, <2>2, <2>3 DEF ActorInv, Kept, Places, Real
      <3>2. Places'
        BY <1>0, <1>1, <2>1, <2>2, <2>3 DEF ActorInv, Kept, Places, Real
      <3> QED BY <3>1, <3>2
    <2> QED BY <2>4, <2>5 DEF ActorInv
  <1>2. CASE aside = NoCmd /\ hand = NoCmd
    <2>1. /\ actorAt' = "idle" /\ turn' = NoCmd /\ doneCmds' = doneCmds \cup {turn}
          /\ UNCHANGED <<cmdQueue, sentCmds, failedCmds>>
      BY <1>2 DEF TurnEnds
    <2>2. ActorTypeOK'
      BY <1>0, <2>1 DEF ActorInv, ActorTypeOK, ActorPoints
    <2>3. Kept' /\ Places'
      <3>1. Kept'
        BY <1>0, <1>2, <2>1 DEF ActorInv, Kept, Places
      <3>2. Places'
        BY <1>0, <1>2, <2>1 DEF ActorInv, Kept, Places
      <3> QED BY <3>1, <3>2
    <2> QED BY <2>2, <2>3 DEF ActorInv
  <1>3. CASE aside = NoCmd /\ hand # NoCmd
    <2>1. hand \in Cmds /\ hand \in handed
      BY <1>3 DEF ActorInv, ActorTypeOK, Places
    <2>2. UNCHANGED <<cmdQueue, failedCmds>>
      BY <1>3 DEF TurnEnds
    <2>3. CASE KindOf[hand] = "query"
      <3>1. /\ actorAt' = "querying" /\ turn' = hand /\ doneCmds' = doneCmds \cup {turn}
            /\ sentCmds' = sentCmds
        BY <1>3, <2>3 DEF TurnEnds
      <3>2. ActorTypeOK'
        BY <1>0, <2>1, <2>2, <3>1 DEF ActorInv, ActorTypeOK, ActorPoints
      <3>3. Kept' /\ Places'
        <4>1. Kept'
          BY <1>0, <1>3, <2>1, <2>2, <3>1 DEF ActorInv, Kept, Places
        <4>2. Places'
          BY <1>0, <1>3, <2>1, <2>2, <3>1 DEF ActorInv, Kept, Places
        <4> QED BY <4>1, <4>2
      <3> QED BY <3>2, <3>3 DEF ActorInv
    <2>4. CASE KindOf[hand] # "query"
      <3>1. KindOf[hand] \in {"disconnect", "interrupt"}
        BY <2>1, <2>4
      <3>2. /\ actorAt' \in {"exiting", "idle"} /\ turn' = NoCmd
            /\ doneCmds' = doneCmds \cup {turn, hand} /\ sentCmds' = sentCmds \cup {hand}
        BY <1>3, <2>4, <3>1 DEF TurnEnds
      <3>3. ActorTypeOK'
        BY <1>0, <2>1, <2>2, <3>2 DEF ActorInv, ActorTypeOK, ActorPoints
      <3>4. Kept' /\ Places'
        <4>1. Kept'
          BY <1>0, <1>3, <2>1, <2>2, <3>2 DEF ActorInv, Kept, Places
        <4>2. Places'
          BY <1>0, <1>3, <2>1, <2>2, <3>2 DEF ActorInv, Kept, Places
        <4> QED BY <4>1, <4>2
      <3> QED BY <3>3, <3>4 DEF ActorInv
    <2> QED BY <2>3, <2>4
  <1> QED BY <1>1, <1>2, <1>3

LEMMA ActorInvStep == ActorInv /\ [ActorNext]_actorVars => ActorInv'
  <1> SUFFICES ASSUME ActorInv, [ActorNext]_actorVars PROVE ActorInv'
    OBVIOUS
  <1> USE ActorAssumption
  <1>1. CASE UNCHANGED actorVars
    BY <1>1 DEF actorVars, ActorInv, ActorTypeOK, Kept, Places
  <1>2. ASSUME NEW c \in Cmds, EnqueueCmd(c)
        PROVE  ActorInv'
    BY <1>2, EnqueueKeeps
  <1>3. ASSUME NEW how \in {"end", "raised"}, StreamEnds(how)
        PROVE  ActorInv'
    BY <1>3 DEF StreamEnds, ActorInv, ActorTypeOK, Kept, Places
  <1>4. CASE CancelActor
    BY <1>4 DEF CancelActor, ActorInv, ActorTypeOK, Kept, Places
  <1>5. CASE ActorConnects
    BY <1>5 DEF ActorConnects, ActorInv, ActorTypeOK, Kept, Places, ActorPoints
  <1>6. CASE ActorCannotConnect \/ PromptRaises \/ TurnRaises \/ CloseRaises \/ Exit
    <2>1. Die(Real(turn))
      BY <1>6 DEF ActorCannotConnect, PromptRaises, TurnRaises, CloseRaises, Exit, Real,
                  ActorInv, Places
    <2> QED BY <2>1, DieKeeps
  <1>7. CASE TakeCommand
    BY <1>7, TakeCommandKeeps
  <1>8. CASE PromptTaken
    BY <1>8 DEF PromptTaken, ActorInv, ActorTypeOK, Kept, Places, ActorPoints
  <1>9. CASE CommandArrives
    <2> DEFINE c == Head(cmdQueue)
    <2>1. /\ cmdQueue' \in Seq(Cmds) /\ c \in Cmds
          /\ Members(cmdQueue) = Members(cmdQueue') \cup {c}
          /\ c \notin Members(cmdQueue') /\ Distinct(cmdQueue')
      BY <1>9, TakenKeeps DEF CommandArrives
    <2>2. /\ actorAt = "driving" /\ hand = NoCmd /\ hand' = c
          /\ UNCHANGED <<actorAt, turn, aside, stream, handed, sentCmds, doneCmds,
                         failedCmds, cancelActor, lostInHand>>
      BY <1>9 DEF CommandArrives
    <2> HIDE DEF c
    <2>3. ActorTypeOK'
      BY <2>1, <2>2 DEF ActorInv, ActorTypeOK
    <2>4. Kept' /\ Places'
      <3>1. Kept'
        BY <2>1, <2>2 DEF ActorInv, Kept, Places
      <3>2. Places'
        BY <2>1, <2>2 DEF ActorInv, Kept, Places
      <3> QED BY <3>1, <3>2
    <2> QED BY <2>3, <2>4 DEF ActorInv
  <1>10. CASE TurnEnds
    BY <1>10, TurnEndsKeeps
  <1>11. CASE SetAside
    <2>1. ActorTypeOK'
      BY <1>11 DEF SetAside, Fail, Unanswered, ActorInv, ActorTypeOK, Places
    <2>2. Kept' /\ Places'
      <3>1. Kept'
        BY <1>11 DEF SetAside, Fail, Unanswered, ActorInv, Kept, Places
      <3>2. Places'
        BY <1>11 DEF SetAside, Fail, Unanswered, ActorInv, Kept, Places
      <3> QED BY <3>1, <3>2
    <2> QED BY <2>1, <2>2 DEF ActorInv
  <1>12. CASE BeginInterrupt
    BY <1>12 DEF BeginInterrupt, ActorInv, ActorTypeOK, Kept, Places, ActorPoints
  <1>13. CASE InterruptDone
    <2>1. ActorTypeOK'
      BY <1>13 DEF InterruptDone, Complete, ActorInv, ActorTypeOK, Places, ActorPoints
    <2>2. Kept' /\ Places'
      <3>1. Kept'
        BY <1>13 DEF InterruptDone, Complete, ActorInv, Kept, Places
      <3>2. Places'
        BY <1>13 DEF InterruptDone, Complete, ActorInv, Kept, Places
      <3> QED BY <3>1, <3>2
    <2> QED BY <2>1, <2>2 DEF ActorInv
  <1>14. CASE TurnClosed
    <2>1. ActorTypeOK'
      BY <1>14 DEF TurnClosed, ActorInv, ActorTypeOK, Places, ActorPoints, Real
    <2>2. Kept' /\ Places'
      <3>1. Kept'
        BY <1>14 DEF TurnClosed, ActorInv, Kept, Places, Real
      <3>2. Places'
        BY <1>14 DEF TurnClosed, ActorInv, Kept, Places, Real
      <3> QED BY <3>1, <3>2
    <2> QED BY <2>1, <2>2 DEF ActorInv
  <1>15. CASE InterruptRaises \/ CancelSurfaces
    <2>1. CASE actorAt = "interrupting"
      <3>1. Queued = Members(cmdQueue)
        BY DEF Queued, Members
      <3>2. /\ doneCmds' = (doneCmds \cup Members(cmdQueue) \cup Real(turn) \cup Real(aside)
                              \cup Real(hand)) \ {}
            /\ sentCmds' = sentCmds \cup doneCmds'
            /\ failedCmds' \subseteq handed
        BY <1>15, <2>1, <3>1 DEF InterruptRaises, CancelSurfaces, Fail, ActorInv, ActorTypeOK,
                                 Kept, Places, Real
      <3>3. /\ actorAt' = "ended" /\ cmdQueue' = <<>> /\ stream' = "none" /\ cancelActor' = FALSE
            /\ turn' = NoCmd /\ hand' = NoCmd /\ aside' = NoCmd /\ UNCHANGED handed
            /\ lostInHand' = lostInHand \cup {}
        BY <1>15, <2>1 DEF InterruptRaises, CancelSurfaces
      <3> QED BY <3>2, <3>3, EndKeeps
    <2>2. CASE actorAt # "interrupting"
      BY <1>15, <2>2, DieKeeps DEF InterruptRaises, CancelSurfaces
    <2> QED BY <2>1, <2>2
  <1> QED BY <1>1, <1>2, <1>3, <1>4, <1>5, <1>6, <1>7, <1>8, <1>9, <1>10, <1>11, <1>12,
             <1>13, <1>14, <1>15 DEF ActorNext, ActorStep

LEMMA ActorInvariant == ActorSpec => []ActorInv
  BY ActorInvInit, ActorInvStep, PTL DEF ActorSpec

\* What a caller relies on: its command is answered or in exactly one place, and
\* nobody is told that a prompt was taken which was not (SessionCommand.complete).
THEOREM EveryCommandHasAPlace == ActorSpec => []EveryCommandIsKept
  BY ActorInvariant, KeptIsKept, PTL

\* _run drains its queue on the way out: of an ended actor only a command that
\* was at hand in that moment is unanswered, and there is at most one.
THEOREM DrainLeavesOne == ActorSpec => []OnlyTheGrabbedHangs
  <1>1. ActorInv => OnlyTheGrabbedHangs
    BY QueueEmpty DEF ActorInv, Kept, Places, OnlyTheGrabbedHangs
  <1> QED BY <1>1, ActorInvariant, PTL

-----------------------------------------------------------------------------
(* Queues of messages.                                                     *)

Ascends(q) == \A j, k \in DOMAIN q : j < k => q[j] < q[k]

LEMMA FirstHit ==
  ASSUME NEW q \in Seq(Nat), NEW hits \in SUBSET DOMAIN q, hits # {}
  PROVE  \E k \in hits : DropFirst(q, hits) = RemoveAt(q, k)
  <1>1. hits \subseteq Nat
    OBVIOUS
  <1>2. \E j \in hits : \A k \in hits : j <= k
    <2> DEFINE R == OpToRel(<, Nat)
    <2>1. \E x \in hits : \A y \in hits : ~ (<<y, x>> \in R)
      <3> HIDE DEF R
      <3>1. IsWellFoundedOn(R, Nat)
        BY NatLessThanWellFounded, Zenon DEF R
      <3> QED BY <3>1, <1>1, WFMin
    <2>2. \A x, y \in Nat : y < x => <<y, x>> \in R
      BY DEF OpToRel
    <2> HIDE DEF R
    <2>3. \A x, y \in hits : ~(y < x) => x <= y
      BY <1>1
    <2> QED BY <2>1, <2>2, <2>3, <1>1
  <1> QED BY <1>2 DEF DropFirst

LEMMA Joined ==
  ASSUME NEW a \in Seq(Nat), NEW b \in Seq(Nat)
  PROVE  /\ a \o b \in Seq(Nat) /\ Len(a \o b) = Len(a) + Len(b)
         /\ DOMAIN (a \o b) = 1..(Len(a) + Len(b))
         /\ \A j \in 1..(Len(a) + Len(b)) :
              (a \o b)[j] = IF j <= Len(a) THEN a[j] ELSE b[j - Len(a)]
  OBVIOUS

LEMMA Removed ==
  ASSUME NEW q \in Seq(Nat), NEW k \in DOMAIN q
  PROVE  /\ RemoveAt(q, k) \in Seq(Nat) /\ Len(RemoveAt(q, k)) = Len(q) - 1
         /\ \A j \in 1..(Len(q) - 1) : RemoveAt(q, k)[j] = IF j < k THEN q[j] ELSE q[j + 1]
  <1>1. /\ Len(q) \in Nat /\ k \in 1..Len(q) /\ DOMAIN q = 1..Len(q)
    OBVIOUS
  <1>2. /\ SubSeq(q, 1, k - 1) \in Seq(Nat) /\ Len(SubSeq(q, 1, k - 1)) = k - 1
        /\ \A j \in 1..(k - 1) : SubSeq(q, 1, k - 1)[j] = q[j]
    BY <1>1
  <1>3. /\ SubSeq(q, k + 1, Len(q)) \in Seq(Nat) /\ Len(SubSeq(q, k + 1, Len(q))) = Len(q) - k
    BY <1>1
  <1>4. \A j \in 1..(Len(q) - k) : SubSeq(q, k + 1, Len(q))[j] = q[k + j]
    BY <1>1, SMTT(40)
  <1> DEFINE a == SubSeq(q, 1, k - 1)
             b == SubSeq(q, k + 1, Len(q))
  <1>5. RemoveAt(q, k) = a \o b
    BY DEF RemoveAt
  <1> HIDE DEF a, b
  <1>6. a \in Seq(Nat) /\ b \in Seq(Nat) /\ Len(a) = k - 1 /\ Len(b) = Len(q) - k
    BY <1>2, <1>3 DEF a, b
  <1>7. /\ a \o b \in Seq(Nat) /\ Len(a \o b) = Len(q) - 1
        /\ \A j \in 1..(Len(q) - 1) :
             (a \o b)[j] = IF j <= k - 1 THEN a[j] ELSE b[j - (k - 1)]
    <2>1. Len(a) + Len(b) = Len(q) - 1
      BY <1>1, <1>6
    <2>2. /\ a \o b \in Seq(Nat) /\ Len(a \o b) = Len(a) + Len(b)
          /\ \A j \in 1..(Len(a) + Len(b)) :
               (a \o b)[j] = IF j <= Len(a) THEN a[j] ELSE b[j - Len(a)]
      BY <1>6, Joined
    <2> HIDE DEF a, b
    <2>3. \A j \in 1..(Len(q) - 1) :
               (a \o b)[j] = IF j <= k - 1 THEN a[j] ELSE b[j - (k - 1)]
      BY <2>1, <2>2, <1>6
    <2> QED BY <2>1, <2>2, <2>3
  <1>8. ASSUME NEW j \in 1..(Len(q) - 1)
        PROVE  (a \o b)[j] = IF j < k THEN q[j] ELSE q[j + 1]
    <2>1. CASE j < k
      <3>1. j <= k - 1 /\ j \in 1..(k - 1)
        BY <1>1, <2>1
      <3> QED BY <3>1, <2>1, <1>7, <1>2 DEF a
    <2>2. CASE ~(j < k)
      <3>1. /\ ~(j <= k - 1) /\ j - (k - 1) \in 1..(Len(q) - k)
            /\ k + (j - (k - 1)) = j + 1
        BY <1>1, <2>2
      <3>2. (a \o b)[j] = b[j - (k - 1)]
        BY <3>1, <1>7
      <3>3. b[j - (k - 1)] = q[j + 1]
        BY <3>1, <1>4 DEF b
      <3> QED BY <3>2, <3>3, <2>2
    <2> QED BY <2>1, <2>2
  <1> QED BY <1>5, <1>7, <1>8

LEMMA AscendsAppended ==
  ASSUME NEW q \in Seq(Nat), NEW x \in Nat, Ascends(q), \A y \in Members(q) : y < x
  PROVE  /\ Append(q, x) \in Seq(Nat) /\ Ascends(Append(q, x))
         /\ Members(Append(q, x)) = Members(q) \cup {x}
  <1>1. /\ Append(q, x) \in Seq(Nat) /\ Members(Append(q, x)) = Members(q) \cup {x}
    BY QueueAppended
  <1>2. /\ Len(q) \in Nat /\ DOMAIN q = 1..Len(q) /\ DOMAIN Append(q, x) = 1..(Len(q) + 1)
        /\ \A j \in 1..Len(q) : Append(q, x)[j] = q[j]
        /\ Append(q, x)[Len(q) + 1] = x
    OBVIOUS
  <1>3. ASSUME NEW j \in DOMAIN Append(q, x), NEW k \in DOMAIN Append(q, x), j < k
        PROVE  Append(q, x)[j] < Append(q, x)[k]
    <2>1. j \in 1..Len(q) /\ (k \in 1..Len(q) \/ k = Len(q) + 1)
      BY <1>2, <1>3
    <2> QED BY <2>1, <1>2, <1>3 DEF Ascends, Members
  <1> QED BY <1>1, <1>3 DEF Ascends

LEMMA AscendsTaken ==
  ASSUME NEW q \in Seq(Nat), q # <<>>, Ascends(q)
  PROVE  /\ Tail(q) \in Seq(Nat) /\ Head(q) \in Nat /\ Ascends(Tail(q))
         /\ Members(q) = Members(Tail(q)) \cup {Head(q)}
         /\ \A y \in Members(Tail(q)) : Head(q) < y
  <1>1. /\ Tail(q) \in Seq(Nat) /\ Head(q) \in Nat /\ Head(q) = q[1]
        /\ Len(q) \in Nat /\ Len(q) > 0
        /\ DOMAIN q = 1..Len(q) /\ DOMAIN Tail(q) = 1..(Len(q) - 1)
        /\ \A i \in 1..(Len(q) - 1) : Tail(q)[i] = q[i + 1]
    OBVIOUS
  <1>2. Distinct(q)
    <2>1. ASSUME NEW i \in DOMAIN q, NEW j \in DOMAIN q, q[i] = q[j]
          PROVE  i = j
      <3>1. i \in Nat /\ j \in Nat /\ q[i] \in Nat
        BY <1>1
      <3>2. ~(i < j) /\ ~(j < i)
        BY <2>1, <3>1 DEF Ascends
      <3> QED BY <3>1, <3>2
    <2> QED BY <2>1 DEF Distinct
  <1>3. Members(q) = Members(Tail(q)) \cup {Head(q)}
    BY <1>2, QueueTaken
  <1>4. \A i \in 1..(Len(q) - 1) : i + 1 \in 1..Len(q) /\ 1 < i + 1 /\ 1 \in 1..Len(q)
    BY <1>1
  <1>5. \A i \in 1..(Len(q) - 1) : Head(q) < Tail(q)[i]
    BY <1>1, <1>4 DEF Ascends
  <1>6. ASSUME NEW i \in 1..(Len(q) - 1), NEW j \in 1..(Len(q) - 1), i < j
        PROVE  Tail(q)[i] < Tail(q)[j]
    <2>1. i + 1 < j + 1
      BY <1>6, <1>1
    <2> QED BY <2>1, <1>1, <1>4 DEF Ascends
  <1> QED BY <1>1, <1>3, <1>5, <1>6 DEF Ascends, Members

LEMMA AscendsRemoved ==
  ASSUME NEW q \in Seq(Nat), NEW k \in DOMAIN q, Ascends(q)
  PROVE  /\ RemoveAt(q, k) \in Seq(Nat) /\ Ascends(RemoveAt(q, k))
         /\ Members(RemoveAt(q, k)) \subseteq Members(q)
         /\ Members(q) \ {q[k]} \subseteq Members(RemoveAt(q, k))
  <1> DEFINE r == RemoveAt(q, k)
  <1>1. Len(q) \in Nat /\ DOMAIN q = 1..Len(q) /\ k \in 1..Len(q)
    OBVIOUS
  <1>2. /\ r \in Seq(Nat) /\ Len(r) = Len(q) - 1
        /\ \A j \in 1..(Len(q) - 1) : r[j] = IF j < k THEN q[j] ELSE q[j + 1]
    BY Removed
  <1> HIDE DEF r
  <1>3. DOMAIN r = 1..(Len(q) - 1)
    BY <1>2
  <1>4. ASSUME NEW i \in DOMAIN r, NEW j \in DOMAIN r, i < j
        PROVE  r[i] < r[j]
    <2> DEFINE a == IF i < k THEN i ELSE i + 1
               b == IF j < k THEN j ELSE j + 1
    <2> DEFINE n == Len(q)
    <2>0. n \in Nat /\ k \in 1..n /\ i \in 1..(n - 1) /\ j \in 1..(n - 1) /\ i < j
      BY <1>1, <1>3, <1>4
    <2> HIDE DEF n
    <2>1. a \in 1..n /\ b \in 1..n /\ a < b
      BY <2>0
    <2> USE DEF n
    <2>2. r[i] = q[a] /\ r[j] = q[b]
      BY <1>2, <1>3
    <2> QED BY <1>1, <2>1, <2>2 DEF Ascends
  <1>5. ASSUME NEW i \in DOMAIN r
        PROVE  r[i] \in Members(q)
    <2>1. i \in 1..Len(q) /\ i + 1 \in 1..Len(q)
      BY <1>1, <1>3
    <2> QED BY <1>1, <1>2, <1>3, <2>1 DEF Members
  <1>6. ASSUME NEW i \in DOMAIN q, i # k
        PROVE  q[i] \in Members(r)
    <2> DEFINE a == IF i < k THEN i ELSE i - 1
    <2>1. /\ a \in 1..(Len(q) - 1)
          /\ (a < k /\ i = a) \/ (~(a < k) /\ i = a + 1)
      BY <1>1, <1>6
    <2>2. r[a] = q[i]
      BY <1>2, <2>1
    <2> QED BY <1>3, <2>1, <2>2 DEF Members
  <1>7. Members(r) \subseteq Members(q)
    BY <1>5 DEF Members
  <1>8. Members(q) \ {q[k]} \subseteq Members(r)
    BY <1>6 DEF Members
  <1>9. Ascends(r)
    BY <1>4 DEF Ascends
  <1> QED BY <1>2, <1>7, <1>8, <1>9 DEF r

LEMMA AscendsJoined ==
  ASSUME NEW a \in Seq(Nat), NEW b \in Seq(Nat), Ascends(a), Ascends(b),
         \A x \in Members(a), y \in Members(b) : x < y
  PROVE  Ascends(a \o b) /\ Members(a) \cup Members(b) \subseteq Members(a \o b)
  <1>1. /\ Len(a) \in Nat /\ Len(b) \in Nat /\ DOMAIN a = 1..Len(a) /\ DOMAIN b = 1..Len(b)
    OBVIOUS
  <1> DEFINE r == a \o b
  <1>2. /\ DOMAIN r = 1..(Len(a) + Len(b))
        /\ \A j \in 1..(Len(a) + Len(b)) : r[j] = IF j <= Len(a) THEN a[j] ELSE b[j - Len(a)]
    BY Joined
  <1> HIDE DEF r
  <1>3. ASSUME NEW i \in DOMAIN r, NEW j \in DOMAIN r, i < j
        PROVE  r[i] < r[j]
    <2>1. CASE j <= Len(a)
      <3>1. i \in DOMAIN a /\ j \in DOMAIN a
        BY <1>1, <1>2, <1>3, <2>1
      <3> QED BY <1>1, <1>2, <1>3, <3>1 DEF Ascends
    <2>2. CASE ~(j <= Len(a)) /\ i <= Len(a)
      <3>1. i \in DOMAIN a /\ j - Len(a) \in DOMAIN b
        BY <1>1, <1>2, <1>3, <2>2
      <3>2. r[i] = a[i] /\ r[j] = b[j - Len(a)]
        BY <1>2, <2>2
      <3>3. r[i] \in Members(a) /\ r[j] \in Members(b)
        BY <3>1, <3>2 DEF Members
      <3> QED BY <3>3
    <2>3. CASE ~(j <= Len(a)) /\ ~(i <= Len(a))
      <3>1. /\ i - Len(a) \in DOMAIN b /\ j - Len(a) \in DOMAIN b
            /\ i - Len(a) < j - Len(a)
        BY <1>1, <1>2, <1>3, <2>3
      <3>2. r[i] = b[i - Len(a)] /\ r[j] = b[j - Len(a)]
        BY <1>2, <2>3
      <3> QED BY <3>1, <3>2 DEF Ascends
    <2> QED BY <2>1, <2>2, <2>3
  <1>4. ASSUME NEW j \in DOMAIN a
        PROVE  a[j] \in Members(r)
    <2>1. j \in 1..(Len(a) + Len(b)) /\ j <= Len(a)
      BY <1>1
    <2> QED BY <2>1, <1>2 DEF Members
  <1>5. ASSUME NEW j \in DOMAIN b
        PROVE  b[j] \in Members(r)
    <2>1. /\ j + Len(a) \in 1..(Len(a) + Len(b)) /\ ~(j + Len(a) <= Len(a))
          /\ (j + Len(a)) - Len(a) = j
      BY <1>1
    <2>2. r[j + Len(a)] = b[j]
      BY <2>1, <1>2
    <2> QED BY <2>1, <2>2, <1>2 DEF Members
  <1>6. Members(a) \cup Members(b) \subseteq Members(r)
    BY <1>4, <1>5 DEF Members
  <1>7. Ascends(r)
    BY <1>3 DEF Ascends
  <1> QED BY <1>6, <1>7 DEF r

-----------------------------------------------------------------------------
(* The streams of a session.  NoSilentGap is kept by what a client holds:  *)
(* every critical message since it subscribed is among those it has taken  *)
(* or those that wait, and all of them are numbers of the log, ascending.  *)

Follows(c) ==
    /\ Ascends(got[c]) /\ Ascends(queue[c])
    /\ \A x \in Members(got[c]), y \in Members(queue[c]) : x < y
    /\ Members(got[c]) \cup Members(queue[c]) \subseteq 1..Len(log)
    /\ \A i \in since[c] + 1 .. Len(log) :
         log[i] \in Critical => i \in Members(got[c]) \cup Members(queue[c])

StreamInv ==
    /\ log \in Seq(Kinds) /\ subscribers \subseteq Clients
    /\ queue \in [Clients -> Seq(Nat)] /\ got \in [Clients -> Seq(Nat)]
    /\ client \in [Clients -> {"away", "opening", "replay", "live", "over"}]
    /\ since \in [Clients -> Nat]
    /\ \A c \in subscribers : client[c] \in {"replay", "live"} /\ Follows(c)
    /\ \A c \in Clients \ subscribers :
         queue[c] = IF client[c] \in {"replay", "live"} THEN <<Overflow>> ELSE <<>>
    /\ \A c \in Clients : client[c] \in {"away", "opening"} => got[c] = <<>>

LEMMA StreamInvInit == StreamInit => StreamInv
  <1> SUFFICES ASSUME StreamInit PROVE StreamInv
    OBVIOUS
  <1>1. \A S : <<>> \in Seq(S)
    BY QueueEmpty
  <1> QED BY <1>1 DEF StreamInit, StreamInv

\* _try_enqueue: whatever is dropped is not critical, and the order stays.
LEMMA EnqueuedKeeps ==
  ASSUME log \in Seq(Kinds), NEW q \in Seq(Nat), NEW kind \in Kinds,
         Ascends(q), Members(q) \subseteq 1..Len(log),
         ~(kind \in Critical /\ Hopeless(q, Append(log, kind)))
  PROVE  LET r == Enqueued(q, Len(log) + 1, Append(log, kind)) IN
         /\ r \in Seq(Nat) /\ Ascends(r) /\ Members(r) \subseteq Members(q) \cup {Len(log) + 1}
         /\ \A x \in Members(q) : log[x] \in Critical => x \in Members(r)
         /\ kind \in Critical => Len(log) + 1 \in Members(r)
  <1> DEFINE i == Len(log) + 1
             kinds == Append(log, kind)
             new == Enqueued(q, i, kinds)
  <1> SUFFICES /\ new \in Seq(Nat) /\ Ascends(new) /\ Members(new) \subseteq Members(q) \cup {i}
               /\ \A x \in Members(q) : log[x] \in Critical => x \in Members(new)
               /\ kind \in Critical => i \in Members(new)
    OBVIOUS
  <1>1. /\ Len(log) \in Nat /\ i \in Nat /\ kinds[i] = kind
        /\ \A x \in 1..Len(log) : kinds[x] = log[x]
    OBVIOUS
  <1> HIDE DEF i, kinds, new
  <1>2. \A y \in Members(q) : y < i
    BY <1>1 DEF i
  <1>3. CASE Len(q) < QueueMax
    <2>1. new = Append(q, i)
      BY <1>3 DEF Enqueued, new
    <2> QED BY <2>1, <1>1, <1>2, AscendsAppended
  <1>4. CASE ~(Len(q) < QueueMax) /\ kind \notin Critical
    <2>1. new = q
      BY <1>1, <1>4 DEF Enqueued, new
    <2> QED BY <2>1, <1>4
  <1>5. CASE ~(Len(q) < QueueMax) /\ kind \in Critical
    <2> DEFINE hits == {j \in DOMAIN q : kinds[q[j]] \notin Critical}
    <2>1. hits # {}
      <3>1. Len(q) >= QueueMax
        BY <1>5, StreamAssumption
      <3> QED BY <3>1, <1>5 DEF Hopeless, kinds
    <2>2. new = Append(DropFirst(q, hits), i)
      BY <1>1, <1>5, <2>1 DEF Enqueued, new
    <2>3. PICK k \in hits : DropFirst(q, hits) = RemoveAt(q, k)
      BY <2>1, FirstHit
    <2> DEFINE r == RemoveAt(q, k)
    <2>4. k \in DOMAIN q /\ kinds[q[k]] \notin Critical
      OBVIOUS
    <2>5. /\ r \in Seq(Nat) /\ Ascends(r) /\ Members(r) \subseteq Members(q)
          /\ Members(q) \ {q[k]} \subseteq Members(r)
      BY <2>4, AscendsRemoved
    <2>6. /\ Append(r, i) \in Seq(Nat) /\ Ascends(Append(r, i))
          /\ Members(Append(r, i)) = Members(r) \cup {i}
      <3> HIDE DEF r
      <3>1. \A y \in Members(r) : y < i
        BY <1>2, <2>5
      <3> QED BY <3>1, <1>1, <2>5, AscendsAppended
    <2>7. q[k] \in Members(q)
      BY <2>4 DEF Members
    <2> HIDE DEF r, hits
    <2> QED BY <1>1, <2>2, <2>3, <2>4, <2>5, <2>6, <2>7 DEF r
  <1> QED BY <1>3, <1>4, <1>5

\* One message to all: whoever stays subscribed follows on, and the queue of
\* whoever does not holds the overflow signal.
LEMMA BroadcastKeeps ==
  ASSUME StreamInv, NEW kind \in Kinds, Broadcast(kind), UNCHANGED <<client, since, got>>
  PROVE  StreamInv'
  <1> DEFINE i == Len(log) + 1
             kinds == Append(log, kind)
             lost == {c \in subscribers : kind \in Critical /\ Hopeless(queue[c], kinds)}
  <1>1. /\ log' = kinds /\ subscribers' = subscribers \ lost
        /\ queue' = [c \in Clients |->
                       IF c \in subscribers THEN Enqueued(queue[c], i, kinds) ELSE queue[c]]
    BY DEF Broadcast
  <1>2. /\ log' \in Seq(Kinds) /\ Len(log') = i /\ Len(log) \in Nat /\ log'[i] = kind
        /\ \A x \in 1..Len(log) : log'[x] = log[x]
    BY <1>1 DEF StreamInv
  <1>3. ASSUME NEW c \in lost
        PROVE  queue'[c] = <<Overflow>>
    <2>1. c \in subscribers /\ c \in Clients /\ kind \in Critical /\ Hopeless(queue[c], kinds)
      BY <1>3 DEF StreamInv
    <2>2. /\ ~(Len(queue[c]) < QueueMax)
          /\ {j \in DOMAIN queue[c] : kinds[queue[c][j]] \notin Critical} = {}
      <3>1. Len(queue[c]) \in Nat
        BY <2>1 DEF StreamInv
      <3> HIDE DEF kinds, lost
      <3> QED BY <2>1, <3>1, StreamAssumption DEF Hopeless
    <2>3. kinds[i] = kind
      BY <1>1, <1>2
    <2> QED BY <1>1, <2>1, <2>2, <2>3 DEF Enqueued
  <1>4. ASSUME NEW c \in subscribers, c \notin lost
        PROVE  queue'[c] \in Seq(Nat) /\ Follows(c)'
    <2> DEFINE q == queue[c]
               r == Enqueued(q, i, kinds)
    <2>1. c \in Clients /\ q \in Seq(Nat) /\ Follows(c) /\ got'[c] = got[c] /\ since'[c] = since[c]
      BY DEF StreamInv
    <2>2. queue'[c] = r
      BY <1>1, <2>1
    <2>3. /\ r \in Seq(Nat) /\ Ascends(r) /\ Members(r) \subseteq Members(q) \cup {i}
          /\ \A x \in Members(q) : log[x] \in Critical => x \in Members(r)
          /\ kind \in Critical => i \in Members(r)
      <3>1. ~(kind \in Critical /\ Hopeless(q, kinds))
        BY <1>4
      <3>2. log \in Seq(Kinds) /\ Ascends(q) /\ Members(q) \subseteq 1..Len(log)
        BY <2>1 DEF Follows, StreamInv
      <3> HIDE DEF q, lost
      <3> QED BY <2>1, <3>1, <3>2, EnqueuedKeeps
    <2> HIDE DEF r, i, kinds
    <2>4. i \in Nat /\ \A x \in 1..Len(log) : x < i /\ x \in 1..i
      BY <1>2 DEF i
    <2>5. Members(got[c]) \cup Members(r) \subseteq 1..Len(log')
      <3>1. Members(got[c]) \cup Members(q) \subseteq 1..Len(log)
        BY <2>1 DEF Follows
      <3>2. i \in 1..i
        BY <1>2 DEF i
      <3> QED BY <1>2, <2>3, <2>4, <3>1, <3>2
    <2>6. \A x \in Members(got[c]), y \in Members(r) : x < y
      BY <2>1, <2>3, <2>4 DEF Follows
    <2>7. ASSUME NEW x \in since[c] + 1 .. Len(log'), log'[x] \in Critical
          PROVE  x \in Members(got[c]) \cup Members(r)
      <3>1. since[c] \in Nat
        BY <2>1 DEF StreamInv
      <3>2. CASE x = i
        BY <1>2, <2>3, <2>7, <3>2
      <3>3. CASE x # i
        <4>1. x \in since[c] + 1 .. Len(log) /\ x \in 1..Len(log)
          BY <1>2, <2>7, <3>1, <3>3 DEF i
        <4>2. log[x] \in Critical
          BY <1>2, <2>7, <4>1
        <4> QED BY <2>1, <2>3, <4>1, <4>2 DEF Follows
      <3> QED BY <3>2, <3>3
    <2> QED BY <2>1, <2>2, <2>3, <2>5, <2>6, <2>7 DEF Follows
  <1>5. \A c \in Clients \ subscribers : queue'[c] = queue[c]
    BY <1>1
  <1>6. <<Overflow>> \in Seq(Nat)
    BY DEF Overflow
  <1>7. queue' \in [Clients -> Seq(Nat)]
    <2>1. \A c \in Clients : queue'[c] \in Seq(Nat)
      BY <1>3, <1>4, <1>5, <1>6 DEF StreamInv
    <2> QED BY <1>1, <2>1
  <1> HIDE DEF lost, kinds, i
  <1>8. subscribers' = subscribers \ lost /\ lost \subseteq subscribers
    BY <1>1 DEF lost
  <1> QED BY <1>2, <1>3, <1>4, <1>5, <1>7, <1>8 DEF StreamInv

LEMMA StreamInvStep == StreamInv /\ [StreamNext]_streamVars => StreamInv'
  <1> SUFFICES ASSUME StreamInv, [StreamNext]_streamVars PROVE StreamInv'
    OBVIOUS
  <1>1. CASE UNCHANGED <<log, queue, subscribers, client, since, got>>
    BY <1>1 DEF StreamInv, Follows
  <1>2. CASE SessionTurn
    <2>1. CASE \E kind \in Kinds : Broadcast(kind) /\ UNCHANGED clientVars
      BY <2>1, BroadcastKeeps DEF clientVars
    <2>2. CASE BeginSend \/ FinalizeTurn \/ SilentEnd
      BY <1>1, <2>2 DEF BeginSend, FinalizeTurn, SilentEnd, EndTurn, turnState, clientVars
    <2>3. CASE BeginTurn \/ ResultMessage \/ ErrorStatus \/ \E k \in Kinds : Message(k)
      BY <2>1, <2>3 DEF BeginTurn, ResultMessage, ErrorStatus, EndTurn, Message, AddMessage,
                        Kinds
    <2> QED BY <1>2, <2>2, <2>3 DEF SessionTurn
  <1>3. ASSUME NEW c \in Clients, OpenStream(c)
        PROVE  StreamInv'
    <2>1. UNCHANGED <<log, queue, subscribers, since, got>> /\ client[c] = "away"
      BY <1>3 DEF OpenStream, turnState
    <2>2. \E p \in {"opening", "over"} : client' = [client EXCEPT ![c] = p]
      BY <1>3 DEF OpenStream
    <2> QED BY <2>1, <2>2 DEF StreamInv, Follows
  <1>4. ASSUME NEW c \in Clients, Subscribe(c)
        PROVE  StreamInv'
    <2>1. /\ UNCHANGED <<log, queue, got>> /\ client[c] = "opening"
          /\ client' = [client EXCEPT ![c] = "replay"]
          /\ subscribers' = subscribers \cup {c} /\ since' = [since EXCEPT ![c] = Len(log)]
      BY <1>4 DEF Subscribe
    <2>2. Len(log) \in Nat
      BY DEF StreamInv
    <2>3. queue[c] = <<>> /\ got[c] = <<>> /\ c \notin subscribers
      BY <2>1 DEF StreamInv
    <2>4. Follows(c)'
      <3>1. Ascends(<<>>) /\ Members(<<>>) = {}
        BY QueueEmpty DEF Ascends
      <3>2. got'[c] = <<>> /\ queue'[c] = <<>> /\ since'[c] = Len(log) /\ log' = log
        BY <2>1, <2>3 DEF StreamInv
      <3> QED BY <2>2, <3>1, <3>2 DEF Follows
    <2>5. \A d \in Clients \ {c} : since'[d] = since[d]
      BY <2>1 DEF StreamInv
    <2>6. \A d \in subscribers : Follows(d)'
      BY <2>1, <2>3, <2>5 DEF StreamInv, Follows
    <2> QED BY <2>1, <2>2, <2>4, <2>6 DEF StreamInv
  \* Whoever hangs up is out.
  <1>5. ASSUME NEW c \in Clients, Hangup(c), UNCHANGED <<log, since>>,
               client[c] \in {"replay", "live"},
               got' \in [Clients -> Seq(Nat)], \A d \in Clients \ {c} : got'[d] = got[d]
        PROVE  StreamInv'
    <2>1. /\ client' = [client EXCEPT ![c] = "over"] /\ subscribers' = subscribers \ {c}
          /\ queue' = [queue EXCEPT ![c] = <<>>]
      BY <1>5 DEF Hangup
    <2>2. queue' \in [Clients -> Seq(Nat)]
      BY <2>1, QueueEmpty DEF StreamInv
    <2>3. \A d \in Clients \ {c} : queue'[d] = queue[d] /\ client'[d] = client[d]
      BY <2>1 DEF StreamInv
    <2>4. \A d \in subscribers' : Follows(d)'
      BY <1>5, <2>1, <2>3 DEF StreamInv, Follows
    <2>5. queue'[c] = <<>> /\ client'[c] = "over"
      BY <2>1 DEF StreamInv
    <2> QED BY <1>5, <2>1, <2>2, <2>3, <2>4, <2>5 DEF StreamInv
  <1>6. ASSUME NEW c \in Clients, Replayed(c)
        PROVE  StreamInv'
    <2>1. CASE running
      BY <1>6, <2>1 DEF Replayed, StreamInv, Follows
    <2>2. CASE ~running
      BY <1>5, <1>6, <2>2 DEF Replayed, StreamInv
    <2> QED BY <2>1, <2>2
  <1>7. ASSUME NEW c \in Clients, Heartbeat(c) \/ Leave(c)
        PROVE  StreamInv'
    BY <1>5, <1>7 DEF Heartbeat, Leave, StreamInv
  <1>8. ASSUME NEW c \in Clients, Receive(c)
        PROVE  StreamInv'
    <2> DEFINE i == Head(queue[c])
    <2>1. /\ client[c] = "live" /\ queue[c] # <<>> /\ UNCHANGED <<log, since>>
          /\ queue[c] \in Seq(Nat) /\ got[c] \in Seq(Nat)
      BY <1>8 DEF Receive, StreamInv
    <2>2. CASE i = Overflow
      BY <1>5, <1>8, <2>1, <2>2 DEF Receive, StreamInv
    <2>3. CASE i # Overflow
      <3>1. got' = [got EXCEPT ![c] = Append(got[c], i)]
        BY <1>8, <2>3 DEF Receive
      <3>2. i \in Nat /\ Append(got[c], i) \in Seq(Nat)
        BY <2>1
      <3>3. got' \in [Clients -> Seq(Nat)] /\ \A d \in Clients \ {c} : got'[d] = got[d]
        BY <3>1, <3>2 DEF StreamInv
      <3>4. CASE log[i] \in {"result", "runtime_status"}
        BY <1>5, <1>8, <2>1, <2>3, <3>3, <3>4 DEF Receive
      <3>5. CASE log[i] \notin {"result", "runtime_status"}
        <4>1. queue' = [queue EXCEPT ![c] = Tail(queue[c])] /\ UNCHANGED <<client, subscribers>>
          BY <1>8, <2>3, <3>5 DEF Receive
        <4>2. c \in subscribers
          <5>1. Head(<<Overflow>>) = Overflow
            OBVIOUS
          <5> QED BY <2>1, <2>3, <5>1 DEF StreamInv
        <4>3. Follows(c)
          BY <4>2 DEF StreamInv
        <4>4. /\ Tail(queue[c]) \in Seq(Nat) /\ Ascends(Tail(queue[c]))
              /\ Members(queue[c]) = Members(Tail(queue[c])) \cup {i}
              /\ \A y \in Members(Tail(queue[c])) : i < y
          BY <2>1, <4>3, AscendsTaken DEF Follows
        <4>5. \A x \in Members(got[c]) : x < i
          BY <4>3, <4>4 DEF Follows
        <4>6. /\ Ascends(Append(got[c], i))
              /\ Members(Append(got[c], i)) = Members(got[c]) \cup {i}
          BY <2>1, <3>2, <4>3, <4>5, AscendsAppended DEF Follows
        <4>7. /\ got'[c] = Append(got[c], i) /\ queue'[c] = Tail(queue[c])
              /\ queue' \in [Clients -> Seq(Nat)]
              /\ \A d \in Clients \ {c} : queue'[d] = queue[d]
          BY <3>1, <4>1, <4>4 DEF StreamInv
        <4> HIDE DEF i
        <4>8. Follows(c)'
          BY <2>1, <4>3, <4>4, <4>6, <4>7 DEF Follows
        <4>9. \A d \in subscribers \ {c} : Follows(d)'
          BY <2>1, <3>3, <4>7 DEF StreamInv, Follows
        <4> QED BY <2>1, <3>3, <4>1, <4>2, <4>7, <4>8, <4>9 DEF StreamInv
      <3> QED BY <3>4, <3>5
    <2> QED BY <2>2, <2>3
  <1>9. CASE ReaderActs
    BY <1>1, <1>9 DEF ReaderActs, ReadSnapshot, CacheSnapshot, turnState, clientVars
  <1> QED BY <1>1, <1>2, <1>3, <1>4, <1>6, <1>7, <1>8, <1>9
         DEF StreamNext, ClientActs, ClientStep, streamVars

\* _CRITICAL_MESSAGE_TYPES: no critical message is dropped silently, for queues of
\* any size and any number of browsers; one whose queue is given up is told so.
THEOREM NoGapIsSilent == StreamSpec => []NoSilentGap
  <1>1. StreamInv => NoSilentGap
    <2> SUFFICES ASSUME StreamInv PROVE NoSilentGap
      OBVIOUS
    <2>1. ASSUME NEW c \in subscribers
          PROVE  LET has == got[c] \o queue[c] IN
                 /\ \A j, k \in DOMAIN has : j < k => has[j] < has[k]
                 /\ \A i \in since[c] + 1 .. Len(log) :
                      log[i] \in Critical => \E j \in DOMAIN has : has[j] = i
      <3>1. got[c] \in Seq(Nat) /\ queue[c] \in Seq(Nat) /\ Follows(c)
        BY DEF StreamInv
      <3>2. /\ Ascends(got[c] \o queue[c])
            /\ Members(got[c]) \cup Members(queue[c]) \subseteq Members(got[c] \o queue[c])
        BY <3>1, AscendsJoined DEF Follows
      <3> DEFINE has == got[c] \o queue[c]
      <3> HIDE DEF has
      <3>3. \A j, k \in DOMAIN has : j < k => has[j] < has[k]
        BY <3>2 DEF Ascends, has
      <3>4. \A i \in since[c] + 1 .. Len(log) :
              log[i] \in Critical => \E j \in DOMAIN has : has[j] = i
        <4>1. \A i \in since[c] + 1 .. Len(log) : log[i] \in Critical => i \in Members(has)
          BY <3>1, <3>2 DEF Follows, has
        <4> QED BY <4>1 DEF Members
      <3> QED BY <3>3, <3>4 DEF has
    <2>2. ASSUME NEW c \in Clients, client[c] \in {"replay", "live"}
          PROVE  c \notin subscribers <=> queue[c] = <<Overflow>>
      <3>1. c \notin subscribers => queue[c] = <<Overflow>>
        BY <2>2 DEF StreamInv
      <3>2. ASSUME c \in subscribers, queue[c] = <<Overflow>>
            PROVE  FALSE
        <4>1. Overflow \in Members(<<Overflow>>)
          <5>1. 1 \in DOMAIN <<Overflow>> /\ <<Overflow>>[1] = Overflow
            OBVIOUS
          <5> QED BY <5>1 DEF Members
        <4>2. Members(queue[c]) \subseteq 1..Len(log) /\ Len(log) \in Nat
          <5>1. Follows(c) /\ log \in Seq(Kinds)
            BY <3>2 DEF StreamInv
          <5> QED BY <5>1 DEF Follows
        <4> QED BY <4>1, <4>2, <3>2 DEF Overflow
      <3> QED BY <3>1, <3>2
    <2> QED BY <2>1, <2>2 DEF NoSilentGap
  <1> QED BY <1>1, StreamInvInit, StreamInvStep, PTL DEF StreamSpec

-----------------------------------------------------------------------------
(* ProfileSync: what the user has left alone arrives at the release, and   *)
(* what was deleted stays away.  The argument is a chain per file the      *)
(* user has left alone: the manifest on disk tells what it holds, then     *)
(* the one in memory, then the release; what breaks a link (an edit, a     *)
(* fault half-way, a release that takes the file back) is what the         *)
(* property names.                                                         *)

Clean(f) == f \notin touched /\ f \notin hurt /\ f \notin retired
Pending(f) == f \in todo \/ hashed.file = f

\* What the user has left alone is there only if the release has it ...
NothingUnasked == \A f \in Files : Clean(f) /\ profile[f] = "none" => dest[f] = "none"
\* ... holds what the manifest says, at rest and until a sync comes to it ...
ManifestTells ==
    trusted => \A f \in Files : Clean(f) /\ (mode = "idle" \/ Pending(f)) => dest[f] = manifest[f]
\* ... and what the manifest in memory says while one is at work (a forced one
\* begins with an empty manifest if the one on disk is lost), ...
EntriesTell ==
    mode # "idle" => \A f \in Files :
        IF mode = "force" /\ ~trusted /\ Pending(f) THEN entries[f] = "none"
        ELSE Clean(f) => dest[f] = entries[f]
\* ... was as it is when the sync looked at it, ...
SeenAsItIs ==
    mode = "sync" => \A f \in Files : Clean(f) /\ Pending(f) =>
        (f \in listed <=> dest[f] # "none") /\ (hashed.file = f => hashed.hash = dest[f])
\* ... and is at the release once the sync has passed it.
PassedIsDone ==
    mode \in {"sync", "reset"} => \A f \in Files : Clean(f) /\ ~Pending(f) => dest[f] = profile[f]

\* What the user has deleted is remembered: it is not there, and has an entry.
StaysAway ==
    \A f \in gone : /\ dest[f] = "none" /\ trusted /\ manifest[f] # "none" /\ mode # "reset"
                    /\ mode # "idle" => entries[f] # "none" /\ f \notin listed
                    /\ hashed.file = f => hashed.hash = "none"

SyncFlow ==
    /\ mode = "idle" => hashed = NoHash
    /\ mode = "reset" => ~trusted
    /\ mode = "sync" => trusted
    /\ settledSync => mode = "idle"
    /\ hashed.file \notin todo

Known ==
    settledSync => \A f \in Files : Clean(f) => dest[f] = profile[f]

SyncInv ==
    SyncTypeOK /\ NothingUnasked /\ ManifestTells /\ EntriesTell /\ SeenAsItIs /\ PassedIsDone
    /\ StaysAway /\ SyncFlow /\ Known

-----------------------------------------------------------------------------
LEMMA SyncInvInit == SyncInit => SyncInv
  <1> SUFFICES ASSUME SyncInit PROVE SyncInv
    OBVIOUS
  <1> USE SyncAssumption DEF SyncInit, Empty, NoHash, Entry, Contents
  <1>1. SyncTypeOK
    <2>1. MaxDeploys \in Nat /\ MaxUserActs \in Nat /\ MaxSyncFaults \in Nat /\ MaxSyncs \in Nat
      OBVIOUS
    <2>2. manifest \in [Files -> Entry] /\ entries \in [Files -> Entry]
      OBVIOUS
    <2>3. dest \in [Files -> Contents \cup {"none"}] /\ {todo, listed, touched, gone, hurt, retired} \subseteq SUBSET Files
      OBVIOUS
    <2>4. trusted \in BOOLEAN /\ settledSync \in BOOLEAN
      OBVIOUS
    <2> QED BY <2>1, <2>2, <2>3, <2>4 DEF SyncTypeOK
  <1>2. NothingUnasked /\ ManifestTells /\ EntriesTell /\ SeenAsItIs /\ PassedIsDone
    BY DEF NothingUnasked, ManifestTells, EntriesTell, SeenAsItIs, PassedIsDone
  <1>3. StaysAway /\ SyncFlow /\ Known
    BY DEF StaysAway, SyncFlow, Known
  <1> QED BY <1>1, <1>2, <1>3 DEF SyncInv

LEMMA DeployKeeps ==
    ASSUME NEW f \in Files, NEW r \in Releases \cup {"none"}, SyncInv, Deploy(f, r) PROVE SyncInv'
  <1> USE SyncAssumption DEF SyncInv, Deploy, Spend, syncWork, history, budget, NoHash, Empty,
      Entry, Contents
  <1>1. SyncTypeOK'
    <2> USE DEF SyncTypeOK
    <2>1. MaxDeploys \in Nat /\ MaxUserActs \in Nat /\ MaxSyncFaults \in Nat /\ MaxSyncs \in Nat
      OBVIOUS
    <2>2. profile' \in [Files -> Releases \cup {"none"}] OBVIOUS
    <2>3. dest' \in [Files -> Contents \cup {"none"}] OBVIOUS
    <2>4. manifest' \in [Files -> Entry] OBVIOUS
    <2>5. entries' \in [Files -> Entry] OBVIOUS
    <2>6. trusted' \in BOOLEAN /\ settledSync' \in BOOLEAN OBVIOUS
    <2>7. mode' \in {"idle", "sync", "reset", "force"} OBVIOUS
    <2>8. {todo, listed, touched, gone, hurt, retired}' \subseteq SUBSET Files OBVIOUS
    <2>9. hashed' = NoHash \/ hashed' \in [file : Files, hash : Contents \cup {"none"}] OBVIOUS
    <2>10. /\ deploys' \in 0..MaxDeploys /\ userActs' \in 0..MaxUserActs
           /\ syncFaults' \in 0..MaxSyncFaults /\ syncs' \in 0..MaxSyncs
      BY <2>1
    <2> QED BY <2>2, <2>3, <2>4, <2>5, <2>6, <2>7, <2>8, <2>9, <2>10
  <1>2. NothingUnasked'
    BY DEF SyncTypeOK, NothingUnasked, Clean, Pending, SyncFlow
  <1>3. ManifestTells'
    BY DEF SyncTypeOK, ManifestTells, Clean, Pending, SyncFlow
  <1>4. EntriesTell'
    BY DEF SyncTypeOK, EntriesTell, Clean, Pending, SyncFlow
  <1>5. SeenAsItIs'
    BY DEF SyncTypeOK, SeenAsItIs, Clean, Pending, SyncFlow
  <1>6. PassedIsDone'
    BY DEF SyncTypeOK, PassedIsDone, Clean, Pending, SyncFlow
  <1>7. StaysAway'
    BY DEF SyncTypeOK, StaysAway, Clean, Pending, SyncFlow
  <1>8. SyncFlow'
    BY DEF SyncTypeOK, SyncFlow, Clean, Pending
  <1>9. Known'
    BY DEF SyncTypeOK, Known, Clean, Pending, SyncFlow
  <1> QED BY <1>1, <1>2, <1>3, <1>4, <1>5, <1>6, <1>7, <1>8, <1>9

LEMMA UserChangesKeeps ==
    ASSUME NEW f \in Files, NEW c \in {"user", "none"}, SyncInv, UserChanges(f, c) PROVE SyncInv'
  <1> USE SyncAssumption DEF SyncInv, UserChanges, Spend, syncWork, history, budget, NoHash,
      Empty, Entry, Contents
  <1>1. SyncTypeOK'
    <2> USE DEF SyncTypeOK
    <2>1. MaxDeploys \in Nat /\ MaxUserActs \in Nat /\ MaxSyncFaults \in Nat /\ MaxSyncs \in Nat
      OBVIOUS
    <2>2. profile' \in [Files -> Releases \cup {"none"}] OBVIOUS
    <2>3. dest' \in [Files -> Contents \cup {"none"}] OBVIOUS
    <2>4. manifest' \in [Files -> Entry] OBVIOUS
    <2>5. entries' \in [Files -> Entry] OBVIOUS
    <2>6. trusted' \in BOOLEAN /\ settledSync' \in BOOLEAN OBVIOUS
    <2>7. mode' \in {"idle", "sync", "reset", "force"} OBVIOUS
    <2>8. {todo, listed, touched, gone, hurt, retired}' \subseteq SUBSET Files OBVIOUS
    <2>9. hashed' = NoHash \/ hashed' \in [file : Files, hash : Contents \cup {"none"}] OBVIOUS
    <2>10. /\ deploys' \in 0..MaxDeploys /\ userActs' \in 0..MaxUserActs
           /\ syncFaults' \in 0..MaxSyncFaults /\ syncs' \in 0..MaxSyncs
      BY <2>1
    <2> QED BY <2>2, <2>3, <2>4, <2>5, <2>6, <2>7, <2>8, <2>9, <2>10
  <1>2. NothingUnasked'
    BY DEF SyncTypeOK, NothingUnasked, Clean, Pending, SyncFlow
  <1>3. ManifestTells'
    BY DEF SyncTypeOK, ManifestTells, Clean, Pending, SyncFlow
  <1>4. EntriesTell'
    BY DEF SyncTypeOK, EntriesTell, Clean, Pending, SyncFlow
  <1>5. SeenAsItIs'
    BY DEF SyncTypeOK, SeenAsItIs, Clean, Pending, SyncFlow
  <1>6. PassedIsDone'
    BY DEF SyncTypeOK, PassedIsDone, Clean, Pending, SyncFlow
  <1>7. StaysAway'
    BY DEF SyncTypeOK, StaysAway, Clean, Pending, SyncFlow
  <1>8. SyncFlow'
    BY DEF SyncTypeOK, SyncFlow, Clean, Pending
  <1>9. Known'
    BY DEF SyncTypeOK, Known, Clean, Pending, SyncFlow
  <1> QED BY <1>1, <1>2, <1>3, <1>4, <1>5, <1>6, <1>7, <1>8, <1>9

LEMMA LoseManifestKeeps ==
    ASSUME SyncInv, LoseManifest PROVE SyncInv'
  <1> USE SyncAssumption DEF SyncInv, LoseManifest, Spend, syncWork, history, budget, NoHash,
      Empty, Entry, Contents
  <1>1. SyncTypeOK'
    <2> USE DEF SyncTypeOK
    <2>1. MaxDeploys \in Nat /\ MaxUserActs \in Nat /\ MaxSyncFaults \in Nat /\ MaxSyncs \in Nat
      OBVIOUS
    <2>2. profile' \in [Files -> Releases \cup {"none"}] OBVIOUS
    <2>3. dest' \in [Files -> Contents \cup {"none"}] OBVIOUS
    <2>4. manifest' \in [Files -> Entry] OBVIOUS
    <2>5. entries' \in [Files -> Entry] OBVIOUS
    <2>6. trusted' \in BOOLEAN /\ settledSync' \in BOOLEAN OBVIOUS
    <2>7. mode' \in {"idle", "sync", "reset", "force"} OBVIOUS
    <2>8. {todo, listed, touched, gone, hurt, retired}' \subseteq SUBSET Files OBVIOUS
    <2>9. hashed' = NoHash \/ hashed' \in [file : Files, hash : Contents \cup {"none"}] OBVIOUS
    <2>10. /\ deploys' \in 0..MaxDeploys /\ userActs' \in 0..MaxUserActs
           /\ syncFaults' \in 0..MaxSyncFaults /\ syncs' \in 0..MaxSyncs
      BY <2>1
    <2> QED BY <2>2, <2>3, <2>4, <2>5, <2>6, <2>7, <2>8, <2>9, <2>10
  <1>2. NothingUnasked'
    BY DEF SyncTypeOK, NothingUnasked, Clean, Pending, SyncFlow
  <1>3. ManifestTells'
    BY DEF SyncTypeOK, ManifestTells, Clean, Pending, SyncFlow
  <1>4. EntriesTell'
    BY DEF SyncTypeOK, EntriesTell, Clean, Pending, SyncFlow
  <1>5. SeenAsItIs'
    BY DEF SyncTypeOK, SeenAsItIs, Clean, Pending, SyncFlow
  <1>6. PassedIsDone'
    BY DEF SyncTypeOK, PassedIsDone, Clean, Pending, SyncFlow
  <1>7. StaysAway'
    BY DEF SyncTypeOK, StaysAway, Clean, Pending, SyncFlow
  <1>8. SyncFlow'
    BY DEF SyncTypeOK, SyncFlow, Clean, Pending
  <1>9. Known'
    BY DEF SyncTypeOK, Known, Clean, Pending, SyncFlow
  <1> QED BY <1>1, <1>2, <1>3, <1>4, <1>5, <1>6, <1>7, <1>8, <1>9

LEMMA BeginSyncKeeps ==
    ASSUME SyncInv, BeginSync PROVE SyncInv'
  <1> USE SyncAssumption DEF SyncInv, BeginSync, Begin, Spend, syncWork, history, budget,
      NoHash, Empty, Entry, Contents
  <1>1. SyncTypeOK'
    <2> USE DEF SyncTypeOK
    <2>1. MaxDeploys \in Nat /\ MaxUserActs \in Nat /\ MaxSyncFaults \in Nat /\ MaxSyncs \in Nat
      OBVIOUS
    <2>2. profile' \in [Files -> Releases \cup {"none"}] OBVIOUS
    <2>3. dest' \in [Files -> Contents \cup {"none"}] OBVIOUS
    <2>4. manifest' \in [Files -> Entry] OBVIOUS
    <2>5. entries' \in [Files -> Entry] OBVIOUS
    <2>6. trusted' \in BOOLEAN /\ settledSync' \in BOOLEAN OBVIOUS
    <2>7. mode' \in {"idle", "sync", "reset", "force"} OBVIOUS
    <2>8. {todo, listed, touched, gone, hurt, retired}' \subseteq SUBSET Files OBVIOUS
    <2>9. hashed' = NoHash \/ hashed' \in [file : Files, hash : Contents \cup {"none"}] OBVIOUS
    <2>10. /\ deploys' \in 0..MaxDeploys /\ userActs' \in 0..MaxUserActs
           /\ syncFaults' \in 0..MaxSyncFaults /\ syncs' \in 0..MaxSyncs
      BY <2>1
    <2> QED BY <2>2, <2>3, <2>4, <2>5, <2>6, <2>7, <2>8, <2>9, <2>10
  <1>2. NothingUnasked'
    BY DEF SyncTypeOK, NothingUnasked, Clean, Pending, SyncFlow
  <1>3. ManifestTells'
    BY DEF SyncTypeOK, ManifestTells, Clean, Pending, SyncFlow
  <1>4. EntriesTell'
    BY DEF SyncTypeOK, NothingUnasked, ManifestTells, EntriesTell, SeenAsItIs, PassedIsDone,
        StaysAway, SyncFlow, Known, Clean, Pending
  <1>5. SeenAsItIs'
    BY DEF SyncTypeOK, SeenAsItIs, Clean, Pending, SyncFlow
  <1>6. PassedIsDone'
    BY DEF SyncTypeOK, PassedIsDone, Clean, Pending, SyncFlow
  <1>7. StaysAway'
    BY DEF SyncTypeOK, StaysAway, Clean, Pending, SyncFlow
  <1>8. SyncFlow'
    BY DEF SyncTypeOK, SyncFlow, Clean, Pending
  <1>9. Known'
    BY DEF SyncTypeOK, Known, Clean, Pending, SyncFlow
  <1> QED BY <1>1, <1>2, <1>3, <1>4, <1>5, <1>6, <1>7, <1>8, <1>9

LEMMA BeginForceKeeps ==
    ASSUME NEW files \in SUBSET Files, SyncInv, BeginForce(files) PROVE SyncInv'
  <1> USE SyncAssumption DEF SyncInv, BeginForce, Begin, Spend, syncWork, history, budget,
      NoHash, Empty, Entry, Contents
  <1>1. SyncTypeOK'
    <2> USE DEF SyncTypeOK
    <2>1. MaxDeploys \in Nat /\ MaxUserActs \in Nat /\ MaxSyncFaults \in Nat /\ MaxSyncs \in Nat
      OBVIOUS
    <2>2. profile' \in [Files -> Releases \cup {"none"}] OBVIOUS
    <2>3. dest' \in [Files -> Contents \cup {"none"}] OBVIOUS
    <2>4. manifest' \in [Files -> Entry] OBVIOUS
    <2>5. entries' \in [Files -> Entry] OBVIOUS
    <2>6. trusted' \in BOOLEAN /\ settledSync' \in BOOLEAN OBVIOUS
    <2>7. mode' \in {"idle", "sync", "reset", "force"} OBVIOUS
    <2>8. {todo, listed, touched, gone, hurt, retired}' \subseteq SUBSET Files OBVIOUS
    <2>9. hashed' = NoHash \/ hashed' \in [file : Files, hash : Contents \cup {"none"}] OBVIOUS
    <2>10. /\ deploys' \in 0..MaxDeploys /\ userActs' \in 0..MaxUserActs
           /\ syncFaults' \in 0..MaxSyncFaults /\ syncs' \in 0..MaxSyncs
      BY <2>1
    <2> QED BY <2>2, <2>3, <2>4, <2>5, <2>6, <2>7, <2>8, <2>9, <2>10
  <1>2. NothingUnasked'
    BY DEF SyncTypeOK, NothingUnasked, Clean, Pending, SyncFlow
  <1>3. ManifestTells'
    BY DEF SyncTypeOK, ManifestTells, Clean, Pending, SyncFlow
  <1>4. EntriesTell'
    BY DEF SyncTypeOK, NothingUnasked, ManifestTells, EntriesTell, SeenAsItIs, PassedIsDone,
        StaysAway, SyncFlow, Known, Clean, Pending
  <1>5. SeenAsItIs'
    BY DEF SyncTypeOK, SeenAsItIs, Clean, Pending, SyncFlow
  <1>6. PassedIsDone'
    BY DEF SyncTypeOK, PassedIsDone, Clean, Pending, SyncFlow
  <1>7. StaysAway'
    BY DEF SyncTypeOK, StaysAway, Clean, Pending, SyncFlow
  <1>8. SyncFlow'
    BY DEF SyncTypeOK, SyncFlow, Clean, Pending
  <1>9. Known'
    BY DEF SyncTypeOK, Known, Clean, Pending, SyncFlow
  <1> QED BY <1>1, <1>2, <1>3, <1>4, <1>5, <1>6, <1>7, <1>8, <1>9

LEMMA HashKeeps ==
    ASSUME NEW f \in Files, SyncInv, Hash(f) PROVE SyncInv'
  <1> USE SyncAssumption DEF SyncInv, Hash, syncWork, history, budget, NoHash, Empty, Entry,
      Contents
  <1>1. SyncTypeOK'
    BY DEF SyncTypeOK, Clean, Pending, SyncFlow
  <1>2. NothingUnasked'
    BY DEF SyncTypeOK, NothingUnasked, Clean, Pending, SyncFlow
  <1>3. ManifestTells'
    BY DEF SyncTypeOK, ManifestTells, Clean, Pending, SyncFlow
  <1>4. EntriesTell'
    BY DEF SyncTypeOK, EntriesTell, Clean, Pending, SyncFlow
  <1>5. SeenAsItIs'
    BY DEF SyncTypeOK, SeenAsItIs, Clean, Pending, SyncFlow
  <1>6. PassedIsDone'
    BY DEF SyncTypeOK, PassedIsDone, Clean, Pending, SyncFlow
  <1>7. StaysAway'
    BY DEF SyncTypeOK, StaysAway, Clean, Pending, SyncFlow
  <1>8. SyncFlow'
    BY DEF SyncTypeOK, SyncFlow, Clean, Pending
  <1>9. Known'
    BY DEF SyncTypeOK, Known, Clean, Pending, SyncFlow
  <1> QED BY <1>1, <1>2, <1>3, <1>4, <1>5, <1>6, <1>7, <1>8, <1>9

LEMMA ApplyKeeps ==
    ASSUME SyncInv, Apply PROVE SyncInv'
  <1> USE SyncAssumption DEF SyncInv, Apply, Chosen, Decision, Do, Vanished, syncWork, history,
      budget, NoHash, Empty, Entry, Contents
  <1>1. SyncTypeOK'
    <2> USE DEF SyncTypeOK
    <2>1. MaxDeploys \in Nat /\ MaxUserActs \in Nat /\ MaxSyncFaults \in Nat /\ MaxSyncs \in Nat
      OBVIOUS
    <2>2. profile' \in [Files -> Releases \cup {"none"}] OBVIOUS
    <2>3. dest' \in [Files -> Contents \cup {"none"}] OBVIOUS
    <2>4. manifest' \in [Files -> Entry] OBVIOUS
    <2>5. entries' \in [Files -> Entry] OBVIOUS
    <2>6. trusted' \in BOOLEAN /\ settledSync' \in BOOLEAN OBVIOUS
    <2>7. mode' \in {"idle", "sync", "reset", "force"} OBVIOUS
    <2>8. {todo, listed, touched, gone, hurt, retired}' \subseteq SUBSET Files OBVIOUS
    <2>9. hashed' = NoHash \/ hashed' \in [file : Files, hash : Contents \cup {"none"}] OBVIOUS
    <2>10. /\ deploys' \in 0..MaxDeploys /\ userActs' \in 0..MaxUserActs
           /\ syncFaults' \in 0..MaxSyncFaults /\ syncs' \in 0..MaxSyncs
      BY <2>1
    <2> QED BY <2>2, <2>3, <2>4, <2>5, <2>6, <2>7, <2>8, <2>9, <2>10
  <1>2. NothingUnasked'
    BY DEF SyncTypeOK, NothingUnasked, Clean, Pending, SyncFlow
  <1>3. ManifestTells'
    BY DEF SyncTypeOK, ManifestTells, Clean, Pending, SyncFlow
  <1>4. EntriesTell'
    BY DEF SyncTypeOK, NothingUnasked, ManifestTells, EntriesTell, SeenAsItIs, PassedIsDone,
        StaysAway, SyncFlow, Known, Clean, Pending
  <1>5. SeenAsItIs'
    BY DEF SyncTypeOK, SeenAsItIs, Clean, Pending, SyncFlow
  <1>6. PassedIsDone'
    BY DEF SyncTypeOK, NothingUnasked, ManifestTells, EntriesTell, SeenAsItIs, PassedIsDone,
        StaysAway, SyncFlow, Known, Clean, Pending
  <1>7. StaysAway'
    BY DEF SyncTypeOK, StaysAway, Clean, Pending, SyncFlow
  <1>8. SyncFlow'
    BY DEF SyncTypeOK, SyncFlow, Clean, Pending
  <1>9. Known'
    BY DEF SyncTypeOK, Known, Clean, Pending, SyncFlow
  <1> QED BY <1>1, <1>2, <1>3, <1>4, <1>5, <1>6, <1>7, <1>8, <1>9

LEMMA CopyFailsKeeps ==
    ASSUME SyncInv, CopyFails PROVE SyncInv'
  <1> USE SyncAssumption DEF SyncInv, CopyFails, Chosen, Decision, Do, Vanished, Spend,
      syncWork, history, budget, NoHash, Empty, Entry, Contents
  <1>1. SyncTypeOK'
    <2> USE DEF SyncTypeOK
    <2>1. MaxDeploys \in Nat /\ MaxUserActs \in Nat /\ MaxSyncFaults \in Nat /\ MaxSyncs \in Nat
      OBVIOUS
    <2>2. profile' \in [Files -> Releases \cup {"none"}] OBVIOUS
    <2>3. dest' \in [Files -> Contents \cup {"none"}] OBVIOUS
    <2>4. manifest' \in [Files -> Entry] OBVIOUS
    <2>5. entries' \in [Files -> Entry] OBVIOUS
    <2>6. trusted' \in BOOLEAN /\ settledSync' \in BOOLEAN OBVIOUS
    <2>7. mode' \in {"idle", "sync", "reset", "force"} OBVIOUS
    <2>8. {todo, listed, touched, gone, hurt, retired}' \subseteq SUBSET Files OBVIOUS
    <2>9. hashed' = NoHash \/ hashed' \in [file : Files, hash : Contents \cup {"none"}] OBVIOUS
    <2>10. /\ deploys' \in 0..MaxDeploys /\ userActs' \in 0..MaxUserActs
           /\ syncFaults' \in 0..MaxSyncFaults /\ syncs' \in 0..MaxSyncs
      BY <2>1
    <2> QED BY <2>2, <2>3, <2>4, <2>5, <2>6, <2>7, <2>8, <2>9, <2>10
  <1>2. NothingUnasked'
    BY DEF SyncTypeOK, NothingUnasked, Clean, Pending, SyncFlow
  <1>3. ManifestTells'
    BY DEF SyncTypeOK, ManifestTells, Clean, Pending, SyncFlow
  <1>4. EntriesTell'
    BY DEF SyncTypeOK, EntriesTell, Clean, Pending, SyncFlow
  <1>5. SeenAsItIs'
    BY DEF SyncTypeOK, SeenAsItIs, Clean, Pending, SyncFlow
  <1>6. PassedIsDone'
    BY DEF SyncTypeOK, PassedIsDone, Clean, Pending, SyncFlow
  <1>7. StaysAway'
    BY DEF SyncTypeOK, StaysAway, Clean, Pending, SyncFlow
  <1>8. SyncFlow'
    BY DEF SyncTypeOK, SyncFlow, Clean, Pending
  <1>9. Known'
    BY DEF SyncTypeOK, Known, Clean, Pending, SyncFlow
  <1> QED BY <1>1, <1>2, <1>3, <1>4, <1>5, <1>6, <1>7, <1>8, <1>9

LEMMA SaveManifestKeeps ==
    ASSUME SyncInv, SaveManifest PROVE SyncInv'
  <1> USE SyncAssumption DEF SyncInv, SaveManifest, syncWork, history, budget, NoHash, Empty,
      Entry, Contents
  <1>1. SyncTypeOK'
    BY DEF SyncTypeOK, Clean, Pending, SyncFlow
  <1>2. NothingUnasked'
    BY DEF SyncTypeOK, NothingUnasked, Clean, Pending, SyncFlow
  <1>3. ManifestTells'
    BY DEF SyncTypeOK, ManifestTells, EntriesTell, Clean, Pending, SyncFlow
  <1>4. EntriesTell'
    BY DEF SyncTypeOK, EntriesTell, Clean, Pending, SyncFlow
  <1>5. SeenAsItIs'
    BY DEF SyncTypeOK, SeenAsItIs, Clean, Pending, SyncFlow
  <1>6. PassedIsDone'
    BY DEF SyncTypeOK, PassedIsDone, Clean, Pending, SyncFlow
  <1>7. StaysAway'
    BY DEF SyncTypeOK, StaysAway, Clean, Pending, SyncFlow
  <1>8. SyncFlow'
    BY DEF SyncTypeOK, SyncFlow, Clean, Pending
  <1>9. Known'
    <2>1. settledSync' => mode # "force" BY Zenon DEF SaveManifest
    <2>2. mode # "force" => mode \in {"sync", "reset"} BY DEF SyncTypeOK
    <2> QED BY <2>1, <2>2 DEF Known, PassedIsDone, Clean, Pending, SyncFlow
  <1> QED BY <1>1, <1>2, <1>3, <1>4, <1>5, <1>6, <1>7, <1>8, <1>9

LEMMA CrashSyncKeeps ==
    ASSUME SyncInv, CrashSync PROVE SyncInv'
  <1> USE SyncAssumption DEF SyncInv, CrashSync, Chosen, Decision, Do, Vanished, Spend,
      syncWork, history, budget, NoHash, Empty, Entry, Contents
  <1>1. SyncTypeOK'
    BY DEF SyncTypeOK, Clean, Pending, SyncFlow
  <1>2. NothingUnasked'
    BY DEF SyncTypeOK, NothingUnasked, Clean, Pending, SyncFlow
  <1>3. ManifestTells'
    BY DEF SyncTypeOK, ManifestTells, Clean, Pending, SyncFlow
  <1>4. EntriesTell'
    BY DEF SyncTypeOK, EntriesTell, Clean, Pending, SyncFlow
  <1>5. SeenAsItIs'
    BY DEF SyncTypeOK, SeenAsItIs, Clean, Pending, SyncFlow
  <1>6. PassedIsDone'
    BY DEF SyncTypeOK, PassedIsDone, Clean, Pending, SyncFlow
  <1>7. StaysAway'
    BY DEF SyncTypeOK, StaysAway, Clean, Pending, SyncFlow
  <1>8. SyncFlow'
    BY DEF SyncTypeOK, SyncFlow, Clean, Pending
  <1>9. Known'
    <2>1. ~settledSync BY Zenon DEF SyncFlow
    <2>2. ~settledSync' BY <2>1
    <2> QED BY <2>2 DEF Known
  <1> QED BY <1>1, <1>2, <1>3, <1>4, <1>5, <1>6, <1>7, <1>8, <1>9

LEMMA SyncInvStep == SyncInv /\ [SyncNext]_syncVars => SyncInv'
  <1> SUFFICES ASSUME SyncInv, [SyncNext]_syncVars PROVE SyncInv'
    OBVIOUS
  <1>1. CASE \E f \in Files, r \in Releases \cup {"none"} : Deploy(f, r)
    BY <1>1, DeployKeeps
  <1>2. CASE \E f \in Files, c \in {"user", "none"} : UserChanges(f, c)
    BY <1>2, UserChangesKeeps
  <1>3. CASE LoseManifest \/ BeginSync
    BY <1>3, LoseManifestKeeps, BeginSyncKeeps
  <1>4. CASE \E files \in SUBSET Files : files # {} /\ BeginForce(files)
    BY <1>4, BeginForceKeeps
  <1>5. CASE \E f \in Files : Hash(f)
    BY <1>5, HashKeeps
  <1>6. CASE Apply \/ CopyFails \/ SaveManifest \/ CrashSync
    BY <1>6, ApplyKeeps, CopyFailsKeeps, SaveManifestKeeps, CrashSyncKeeps
  <1>7. CASE UNCHANGED syncVars
    BY <1>7 DEF SyncInv, SyncTypeOK, NothingUnasked, ManifestTells, EntriesTell, SeenAsItIs,
                PassedIsDone, StaysAway, SyncFlow, Known, Clean, Pending,
                syncVars, syncWork, history, budget
  <1> QED BY <1>1, <1>2, <1>3, <1>4, <1>5, <1>6, <1>7 DEF SyncNext

\* The sync keeps its word for any number of files, releases, acts of the user,
\* faults and syncs: what nobody else has met is at the release, and what the user has
\* deleted stays away.
THEOREM ReleasesArrive == SyncSpec => []SyncKeepsItsWord
  <1>1. SyncInv => SyncKeepsItsWord
    BY DEF SyncInv, SyncKeepsItsWord, Known, StaysAway, Clean
  <1>2. SyncSpec => []SyncInv
    BY SyncInvInit, SyncInvStep, PTL DEF SyncSpec
  <1> QED BY <1>1, <1>2, PTL
=============================================================================
