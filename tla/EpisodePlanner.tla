--------------------------- MODULE EpisodePlanner ---------------------------
(***************************************************************************)
(* lib/episode_planner.py and lib/episode_ledger.py: the source text of a  *)
(* project is cut into episodes by a text model.  The ledger, in           *)
(* project.json, says which range of the text each episode is; a file      *)
(* source/episode_N.txt is derived from each entry and is what scripts are *)
(* written from.                                                           *)
(*                                                                         *)
(* plan and replan read the ledger, wait for the model without a lock, and *)
(* commit under the project's lock: they read the ledger again, refuse to  *)
(* go on if it has moved, rewrite the files and save project.json last.    *)
(*                                                                         *)
(* The source files are laid end to end: a position is a number, FileEnds  *)
(* are the positions where a file ends.  No two ranges have the same text, *)
(* so that a derived file is found in the source in one place, and no text *)
(* is blank.                                                               *)
(***************************************************************************)
EXTENDS Naturals, FiniteSets

CONSTANTS
    Total, FileEnds,       \* length of the source and where its files end
    Window, MaxBatch,      \* planning_window_chars, planning_max_episodes
    Callers,               \* sessions that may plan at the same time
    NoText, Unmatched,     \* no file; a file whose text is not in the source
    MaxEpisodes, MaxPlans, MaxPlanFaults       \* bounds

ASSUME PlannerAssumption ==
    /\ {Total, Window, MaxBatch, MaxEpisodes} \subseteq Nat \ {0}
    /\ {MaxPlans, MaxPlanFaults} \subseteq Nat
    /\ FileEnds \subseteq 1..Total /\ Total \in FileEnds
    /\ NoText \notin [start : Nat, end : Nat] /\ Unmatched \notin [start : Nat, end : Nat]
    /\ NoText # Unmatched

VARIABLES
    entryOf,       \* project.json: the entry of each episode
    planCursor,    \* project.json: planning_cursor
    texts,         \* source/episode_N.txt
    remaining,     \* source/_remaining.txt of the splitting of old: where it begins
    splitAt,       \* where the splitting of old had stopped (history)
    scriptOf,      \* the text the script of an episode was written from
    plans,         \* what each session has read and is waiting for
    commit,        \* the commit that holds the project's lock
    cutOff,        \* a commit was cut off that had damaged files (history)
    planCount, planFaults

plannerVars == <<entryOf, planCursor, texts, remaining, splitAt, scriptOf, plans, commit,
                 cutOff, planCount, planFaults>>

Episodes == 1..MaxEpisodes
Span == {r \in [start : 0..Total, end : 0..Total] : r.start < r.end}
NoSpan == [start |-> 0, end |-> 0]
Least(S) == CHOOSE x \in S : \A y \in S : x <= y
NoCursor == Total + 1
Anchored == {"planned", "consumed", "stale"}
Item(status, span) == [status |-> status, span |-> span]
Items == [status : Anchored, span : Span]
         \cup {Item(s, NoSpan) : s \in {"absent", "unset", "unanchored"}}
Ledgers == [Episodes -> Items]

NoPlan == [kind |-> "none", from |-> 0, start |-> 0, seen |-> {}, agreed |-> {}]
NoLedger == [n \in Episodes |-> Item("absent", NoSpan)]
NoCommit == [by |-> {}, kind |-> "none", ledger |-> NoLedger, cursor |-> 0, todo |-> {},
             step |-> "none"]

Plan == [kind : {"none", "plan", "replan"}, from : 0..MaxEpisodes, start : 0..Total,
         seen : SUBSET (Episodes \X Span), agreed : SUBSET Episodes]
Commit == [by : SUBSET Callers, kind : {"none", "plan", "replan"}, ledger : Ledgers,
           cursor : 0..NoCursor, todo : SUBSET Episodes, step : {"none", "write", "save"}]

PlannerTypeOK ==
    /\ entryOf \in Ledgers /\ planCursor \in 0..NoCursor
    /\ splitAt \in 0..NoCursor /\ remaining \in {splitAt, NoCursor}
    /\ {texts, scriptOf} \subseteq [Episodes -> Span \cup {NoText, Unmatched}]
    /\ plans \in [Callers -> Plan] /\ commit \in Commit
    /\ commit = NoCommit \/ /\ \E c \in Callers : commit.by = {c} /\ plans[c].kind = commit.kind
                            /\ commit.kind # "none" /\ commit.step # "none"
    /\ cutOff \in BOOLEAN /\ planCount \in 0..MaxPlans /\ planFaults \in 0..MaxPlanFaults

\* A new project, or one of the time before the ledger, with one episode; then the
\* rest of the text may be in a file of its own, as the splitting of old left it,
\* and the user may have changed the episode's file since.
PlannerInit ==
    /\ \E text \in {NoText, Unmatched} \cup {r \in Span : r.start = 0 /\ r.end <= Least(FileEnds)},
          status \in {"absent", "unset"}, scripted \in BOOLEAN :
        /\ text = NoText => ~scripted
        /\ scripted = (status = "unset")
        /\ splitAt \in {NoCursor} \cup (IF text = NoText THEN {} ELSE 1..(Least(FileEnds) - 1))
        /\ entryOf = [n \in Episodes |-> Item(IF n = 1 THEN status ELSE "absent", NoSpan)]
        /\ texts = [n \in Episodes |-> IF n = 1 THEN text ELSE NoText]
        /\ scriptOf = [n \in Episodes |-> IF n = 1 /\ scripted THEN text ELSE NoText]
    /\ remaining = splitAt
    /\ planCursor = NoCursor /\ plans = [c \in Callers |-> NoPlan] /\ commit = NoCommit
    /\ cutOff = FALSE /\ planCount = 0 /\ planFaults = 0

-----------------------------------------------------------------------------
(* Reading the ledger.                                                     *)

\* backfill_episode_ledger: entries without a status, and files without an
\* entry, get their range from the text of the file.
Backfilled ==
    [n \in Episodes |->
        IF entryOf[n].status \notin {"absent", "unset"} THEN entryOf[n]
        ELSE IF entryOf[n].status = "absent" /\ texts[n] = NoText THEN entryOf[n]
        ELSE IF texts[n] \in Span
        THEN Item(IF scriptOf[n] = NoText THEN "planned" ELSE "consumed", texts[n])
        ELSE Item("unanchored", NoSpan)]

Present(book) == {n \in Episodes : book[n].status # "absent"}
Placed(book) == {n \in Episodes : book[n].status \in Anchored}
Greatest(S) == CHOOSE x \in S : \A y \in S : y <= x
LastEnd(book) == book[Greatest(Placed(book))].span.end
FileEndAfter(p) == Least({e \in FileEnds : e > p})
FileOf(span) == FileEndAfter(span.start)

\* The old rest begins in what is an episode by now, so that it says nothing.
Rewinds(book) ==
    /\ Placed(book) # {} /\ remaining < LastEnd(book)
    /\ FileEndAfter(remaining) = FileOf(book[Greatest(Placed(book))].span)

\* _derive_cursor, unless project.json has one.
CursorOf(book) ==
    IF planCursor # NoCursor THEN planCursor
    ELSE IF remaining # NoCursor /\ ~Rewinds(book) THEN remaining
    ELSE IF Placed(book) # {} THEN LastEnd(book) ELSE NoCursor

\* _effective_start: the end of the last anchored episode, or the cursor if it
\* is further on.
EffectiveStart(book, cursor) ==
    LET known == (IF Placed(book) = {} THEN {} ELSE {LastEnd(book)})
                 \cup (IF cursor = NoCursor THEN {} ELSE {cursor})
    IN  IF known = {} THEN 0 ELSE Greatest(known)

-----------------------------------------------------------------------------
(* plan and replan: what they read, and when they refuse.                  *)

\* _replan_scope: every entry from the given one on is anchored, entries of a
\* file follow each other without a gap, and no file comes back.
Follows(book, a, b) ==
    IF FileOf(book[a].span) = FileOf(book[b].span)
    THEN book[b].span.start = book[a].span.end
    ELSE \A k \in Present(book) : a <= k /\ k < b => FileOf(book[k].span) # FileOf(book[b].span)
NextIn(S, a, b) == a \in S /\ b \in S /\ a < b /\ \A k \in S : ~(a < k /\ k < b)

Affected(book, from) == {n \in Present(book) : n >= from}
CanReplan(book, from) ==
    LET affected == Affected(book, from) IN
    /\ from \in affected /\ affected \subseteq Placed(book)
    /\ \A a, b \in affected : NextIn(affected, a, b) => Follows(book, a, b)

Consumed(book, from) == {n \in Affected(book, from) : book[n].status = "consumed"}
SpansFrom(book, from) == {<<n, book[n].span>> : n \in Affected(book, from)}

Ask(c, request) ==
    /\ plans[c].kind = "none" /\ planCount < MaxPlans
    /\ planCount' = planCount + 1
    /\ plans' = [plans EXCEPT ![c] = request]
    /\ UNCHANGED <<entryOf, planCursor, texts, remaining, splitAt, scriptOf, commit, cutOff, planFaults>>

AskPlan(c) ==
    LET start == EffectiveStart(Backfilled, CursorOf(Backfilled)) IN
    /\ start < Total       \* else source_exhausted
    /\ Ask(c, [NoPlan EXCEPT !.kind = "plan", !.start = start])

\* Without confirm_consumed it goes on only if no episode is consumed.
AskReplan(c, from, confirmConsumed) ==
    LET book == Backfilled IN
    /\ CanReplan(book, from)
    /\ Consumed(book, from) = {} \/ confirmConsumed
    /\ Ask(c, [NoPlan EXCEPT !.kind = "replan", !.from = from,
                             !.seen = SpansFrom(book, from), !.agreed = Consumed(book, from)])

\* Mutant: the commit does not look at the ledger again.
StillTheSameTrusting(plan) == TRUE

\* What commit finds in the ledger now is what the call has read.
StillTheSame(plan) ==
    LET book == Backfilled IN
    IF plan.kind = "plan" THEN EffectiveStart(book, CursorOf(book)) = plan.start
    ELSE /\ CanReplan(book, plan.from) /\ SpansFrom(book, plan.from) = plan.seen
         /\ Consumed(book, plan.from) \subseteq plan.agreed

-----------------------------------------------------------------------------
(* The commit.                                                             *)

\* The episodes cut at the positions `cuts` of the text from `start` on.
SpanTo(cut, start, cuts) ==
    [start |-> Greatest({start} \cup {x \in cuts : x < cut}), end |-> cut]
Rank(cut, cuts) == Cardinality({x \in cuts : x < cut})

\* plan's window, up to the end of the file; max_episodes cuts the batch short.
PlanCuts(start) ==
    {cuts \in SUBSET {p \in 1..Total : start < p /\ p <= start + Window /\ p <= FileEndAfter(start)} :
        cuts # {} /\ Cardinality(cuts) <= MaxBatch}

Covered(seen) == UNION {(x[2].start + 1)..x[2].end : x \in seen}
ReplanCuts(seen) ==
    {cuts \in SUBSET Covered(seen) :
        {p \in Covered(seen) : p + 1 \notin Covered(seen) \/ p \in FileEnds} \subseteq cuts}

Laid(book, from, start, cuts, status) ==
    [n \in Episodes |->
        IF \E cut \in cuts : n = from + Rank(cut, cuts)
        THEN LET cut == CHOOSE x \in cuts : n = from + Rank(x, cuts)
             IN  Item(status[n], SpanTo(cut, start, cuts))
        ELSE IF n < from THEN book[n] ELSE Item("absent", NoSpan)]

Hold(c, book, cursor) ==
    commit' = [by |-> {c}, kind |-> plans[c].kind, ledger |-> book, cursor |-> cursor,
               todo |-> Placed(book), step |-> "write"]

\* New numbers come after the greatest one in the ledger.
BeginPlan(c) ==
    LET book == Backfilled
        next == 1 + Greatest({0} \cup Present(book))
        start == plans[c].start
    IN  /\ plans[c].kind = "plan" /\ commit = NoCommit /\ StillTheSame(plans[c])
        /\ \E cuts \in PlanCuts(start) :
            /\ next + Cardinality(cuts) - 1 <= MaxEpisodes
            /\ Hold(c, Laid(book, next, start, cuts, [n \in Episodes |-> "planned"]),
                    Greatest(cuts))
        /\ UNCHANGED <<entryOf, planCursor, texts, remaining, splitAt, scriptOf, plans, cutOff, planCount, planFaults>>

\* Each source file is cut anew, to its end; numbers run on.
BeginReplan(c) ==
    LET book == Backfilled
        plan == plans[c]
        start == Least({x[2].start : x \in plan.seen})
        status == [n \in Episodes |->
                    IF book[n].status \in {"consumed", "stale"} THEN "stale" ELSE "planned"]
    IN  /\ plan.kind = "replan" /\ commit = NoCommit /\ StillTheSame(plan)
        /\ \E cuts \in ReplanCuts(plan.seen) :
            /\ plan.from + Cardinality(cuts) - 1 <= MaxEpisodes
            /\ Hold(c, Laid(book, plan.from, start, cuts, status), CursorOf(book))
        /\ UNCHANGED <<entryOf, planCursor, texts, remaining, splitAt, scriptOf, plans, cutOff, planCount, planFaults>>

\* PlanningConflictError, or three drafts that were all refused.
GiveUpPlan(c) ==
    /\ plans[c].kind # "none" /\ commit.by # {c}
    /\ plans' = [plans EXCEPT ![c] = NoPlan]
    /\ UNCHANGED <<entryOf, planCursor, texts, remaining, splitAt, scriptOf, commit, cutOff, planCount, planFaults>>

\* _reconcile_derived_files, in the order of the numbers.
WriteText ==
    /\ commit.step = "write" /\ commit.todo # {}
    /\ LET n == Least(commit.todo) IN
        /\ texts' = [texts EXCEPT ![n] = commit.ledger[n].span]
        /\ commit' = [commit EXCEPT !.todo = @ \ {n}]
    /\ UNCHANGED <<entryOf, planCursor, remaining, splitAt, scriptOf, plans, cutOff, planCount, planFaults>>

\* A file left over that cannot be deleted is only logged, and so is the old rest.
Leftover == {n \in Episodes : commit.ledger[n].status = "absent" /\ texts[n] # NoText}
RemoveTexts(undeleted) ==
    /\ commit.step = "write" /\ commit.todo = {} /\ undeleted \subseteq Leftover
    /\ IF undeleted = {} THEN UNCHANGED planFaults
       ELSE planFaults < MaxPlanFaults /\ planFaults' = planFaults + 1
    /\ texts' = [n \in Episodes |-> IF n \in Leftover \ undeleted THEN NoText ELSE texts[n]]
    /\ remaining' \in {remaining, NoCursor}
    /\ commit' = [commit EXCEPT !.step = "save"]
    /\ cutOff' = (cutOff \/ undeleted # {})   \* the next backfill brings it back
    /\ UNCHANGED <<entryOf, planCursor, splitAt, scriptOf, plans, planCount>>

SaveLedger ==
    /\ commit.step = "save"
    /\ entryOf' = commit.ledger /\ planCursor' = commit.cursor /\ commit' = NoCommit
    /\ plans' = [c \in Callers |-> IF c \in commit.by THEN NoPlan ELSE plans[c]]
    /\ UNCHANGED <<texts, remaining, splitAt, scriptOf, cutOff, planCount, planFaults>>

\* An episode that the ledger does not tell the range of is found by its file: it
\* is lost when a replan has rewritten files like it, and when the file is cut
\* short while others like it follow.
Unrecorded(n) == entryOf[n].status \in {"absent", "unset"}
Damaged(files) ==
    \/ commit.kind = "replan" /\ \E n \in Episodes : Unrecorded(n) /\ files[n] # NoText
    \/ \E n, k \in Episodes : /\ n < k /\ Unrecorded(n) /\ Unrecorded(k)
                             /\ files[n] # texts[n] /\ files[k] # NoText

\* A full disk ends the commit, a crash ends every call; project.json stays as
\* it was, the file under way may be cut short, to nothing even.
CutOffCommit ==
    /\ commit # NoCommit /\ planFaults < MaxPlanFaults /\ planFaults' = planFaults + 1
    /\ commit' = NoCommit
    /\ plans' \in {[c \in Callers |-> NoPlan],
                   [c \in Callers |-> IF c \in commit.by THEN NoPlan ELSE plans[c]]}
    /\ IF commit.step = "write" /\ commit.todo # {}
       THEN LET n == Least(commit.todo)
                whole == commit.ledger[n].span
            IN  \/ UNCHANGED texts
                \/ \E text \in {Unmatched} \cup {[whole EXCEPT !.end = e] : e \in whole.start + 1 .. whole.end} :
                    texts' = [texts EXCEPT ![n] = text]
       ELSE UNCHANGED texts
    /\ cutOff' = (cutOff \/ Damaged(texts'))
    /\ UNCHANGED <<entryOf, planCursor, remaining, splitAt, scriptOf, planCount>>

-----------------------------------------------------------------------------
(* Around the planner: scripts are written from the derived files, and put *)
(* into the index by their number (_apply_episode_sync), under the lock.   *)

Indexed(n) == [entryOf EXCEPT ![n] = IF @.status = "absent" THEN Item("unset", NoSpan) ELSE @]

WriteScript(n) ==
    /\ commit = NoCommit /\ texts[n] # NoText /\ scriptOf[n] # texts[n]
    /\ scriptOf' = [scriptOf EXCEPT ![n] = texts[n]] /\ entryOf' = Indexed(n)
    /\ UNCHANGED <<planCursor, texts, remaining, splitAt, plans, commit, cutOff, planCount, planFaults>>

\* The events service finds a script that is not in the index.
IndexScript(n) ==
    /\ commit = NoCommit /\ scriptOf[n] # NoText /\ entryOf[n].status = "absent"
    /\ entryOf' = Indexed(n)
    /\ UNCHANGED <<planCursor, texts, remaining, splitAt, scriptOf, plans, commit, cutOff, planCount, planFaults>>

PlannerNext ==
    \/ \E c \in Callers :
        \/ AskPlan(c) \/ \E n \in Episodes, b \in BOOLEAN : AskReplan(c, n, b)
        \/ BeginPlan(c) \/ BeginReplan(c) \/ GiveUpPlan(c)
    \/ WriteText \/ (\E undeleted \in SUBSET Episodes : RemoveTexts(undeleted))
    \/ SaveLedger \/ CutOffCommit
    \/ \E n \in Episodes : WriteScript(n) \/ IndexScript(n)

PlannerSpec == PlannerInit /\ [][PlannerNext]_plannerVars

-----------------------------------------------------------------------------
(* Properties.                                                             *)

\* The anchored episodes, in the order of their numbers, are the text from its
\* beginning on: each starts where the one before ends, or where the splitting of
\* old had stopped, `at`, if that is further on.
Joins(end, start, at) == start = end \/ (start = at /\ end < start)
Tiles(book, at) ==
    /\ \A n \in Placed(book) :
         (\A k \in Placed(book) : n <= k) => Joins(0, book[n].span.start, at)
    /\ \A a, b \in Placed(book) :
         NextIn(Placed(book), a, b) => Joins(book[a].span.end, book[b].span.start, at)

\* No sentence of the source is in two episodes or in none, in what the next
\* call will read, whatever sessions plan at once and wherever a plan is cut
\* off, unless it had damaged a file that is the only record.  Of a project of
\* old, what was split off before and is not found in the source any more, since
\* the user has changed the file, stays that file's (Joins).  And as long as
\* nothing fails, the files that scripts are written from are those of the ledger.
LedgerTiles ==
    commit = NoCommit =>
        /\ ~cutOff => Tiles(Backfilled, splitAt)
        /\ planFaults = 0 => \A n \in Placed(entryOf) : texts[n] = entryOf[n].span
=============================================================================
