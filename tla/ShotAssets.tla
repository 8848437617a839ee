----------------------------- MODULE ShotAssets -----------------------------
(***************************************************************************)
(* The shots of a script and what is generated for them.  An id names the  *)
(* files of a shot (storyboards/scene_<id>.png, videos/scene_<id>.mp4) and *)
(* the tasks that make them; the script says which of the files the shot   *)
(* has taken over.  The agent inserts, removes and splits shots while      *)
(* tasks of the queue are at work, a grid is cut into the boards of many   *)
(* shots, and a tool waits for a batch of clips with a checkpoint.         *)
(*                                                                         *)
(* An id is a stem and a suffix, 0 for none.  A removed shot leaves its    *)
(* files, and its id may be given to a new shot; so each shot has a number *)
(* of its own, `born`, which the code does not know, and the content of a  *)
(* file is the number of the shot it was asked for.                        *)
(***************************************************************************)
EXTENDS Naturals, Sequences, FiniteSets, SequencesExt

CONSTANTS
    StartIds,            \* the ids of the script as it was generated
    MaxSuffix,
    NoClip, NoJob, NoCheckpoint,
    MaxEdits, MaxAsks, MaxGrids, MaxTools, MaxFails,
    MaxMoves             \* bounds: of each kind, and of all together

ASSUME ShotsAssumption ==
    /\ StartIds \in Seq(STRING \X (0..MaxSuffix)) /\ IsInjective(StartIds)
    /\ {MaxSuffix, MaxEdits, MaxAsks, MaxGrids, MaxTools, MaxFails, MaxMoves} \subseteq Nat
    /\ NoClip \notin [of : Nat, from : Nat]

VARIABLES
    shots,         \* the script: the shots in their order
    boards,        \* the files storyboards/scene_<id>.png: whose, 0 for none
    clips,         \* the files videos/scene_<id>.mp4: whose, and of whose board
    assetJobs,     \* the active tasks, one for each type and id
    grid,          \* the record of a grid and its task
    tool,          \* a batch tool of the agent
    checkpoint,    \* videos/.checkpoint_ep<n>.json
    born,          \* how many shots there have been
    left,          \* what was left under an id when its shot was removed (history)
    reported,      \* the shots whose clips a batch has reported as done (history)
    counts         \* of what is bounded

shotVars ==
    <<shots, boards, clips, assetJobs, grid, tool, checkpoint, born, left, reported, counts>>

ShotIds == {StartIds[i][1] : i \in DOMAIN StartIds} \X (0..MaxSuffix)
MaxBorn == Len(StartIds) + MaxEdits
AssetKinds == {"board", "clip"}
Remnants == {"board", "clip", "boardJob", "clipJob"}
Moves == {"edits", "asks", "grids", "tools", "fails"}

Shot == [id : ShotIds, born : 1..MaxBorn, board : BOOLEAN, clip : BOOLEAN]
Claim == ShotIds \X (0..MaxBorn)

NewShot(id, n) == [id |-> id, born |-> n, board |-> FALSE, clip |-> FALSE]
IdleTool == [kind |-> "none", waits |-> {}, done |-> {}, counted |-> {}, failed |-> FALSE]
NoGrid == [cells |-> {}, job |-> "none", hit |-> {}]

ShotsTypeOK ==
    /\ shots \in Seq(Shot) /\ boards \in [ShotIds -> 0..MaxBorn]
    /\ \A id \in ShotIds : clips[id] = NoClip \/ clips[id] \in [of : 0..MaxBorn, from : 1..MaxBorn]
    /\ \A k \in AssetKinds \X ShotIds :
          assetJobs[k] = NoJob \/ assetJobs[k] \in [for : 0..MaxBorn, frame : 0..MaxBorn,
                                                at : {"queued", "running", "written"}]
    /\ grid.cells \subseteq Claim /\ grid.hit \subseteq grid.cells
    /\ grid.job \in {"none", "queued", "running", "cut"}
    /\ tool.kind \in {"none", "boards", "all", "episode"}
    /\ tool.waits \subseteq AssetKinds \X ShotIds
    /\ tool.done \subseteq ShotIds /\ tool.counted \subseteq Claim /\ tool.failed \in BOOLEAN
    /\ checkpoint = NoCheckpoint \/ checkpoint \subseteq ShotIds
    /\ born \in 0..MaxBorn /\ left \in [ShotIds -> SUBSET Remnants]
    /\ reported \subseteq Claim /\ counts \in [Moves -> Nat]

\* The boards of the script have been made.
ShotsInit ==
    /\ shots = [i \in DOMAIN StartIds |-> [NewShot(StartIds[i], i) EXCEPT !.board = TRUE]]
    /\ boards = [id \in ShotIds |->
                    IF id \in Range(StartIds)
                    THEN CHOOSE i \in DOMAIN StartIds : StartIds[i] = id ELSE 0]
    /\ clips = [id \in ShotIds |-> NoClip]
    /\ assetJobs = [k \in AssetKinds \X ShotIds |-> NoJob]
    /\ grid = NoGrid /\ tool = IdleTool /\ checkpoint = NoCheckpoint
    /\ born = Len(StartIds) /\ left = [id \in ShotIds |-> {}] /\ reported = {}
    /\ counts = [c \in Moves |-> 0]

Count(c, max) ==
    /\ counts[c] < max
    /\ MapThenSumSet(LAMBDA m : counts[m], Moves) < MaxMoves
    /\ counts' = [counts EXCEPT ![c] = @ + 1]

InScript(id) == \E s \in ToSet(shots) : s.id = id
\* The number of the shot an id names now, 0 for none.
BornOf(id) == IF InScript(id) THEN (CHOOSE s \in ToSet(shots) : s.id = id).born ELSE 0
Active(k) == assetJobs[k] # NoJob

\* update_scene_asset and batch_update_scene_assets.
Took(ids, kind) ==
    [i \in DOMAIN shots |->
        IF shots[i].id \in ids
        THEN IF kind = "board" THEN [shots[i] EXCEPT !.board = TRUE]
                               ELSE [shots[i] EXCEPT !.clip = TRUE]
        ELSE shots[i]]

-----------------------------------------------------------------------------
(* Editing the script.                                                     *)

\* Mutant: the suffix is the number of shots, whatever their suffixes are.
NextIdByCount(base, taken) == <<base[1], Cardinality(taken) - 1>>

\* The stem of the anchor with the smallest suffix no shot of the script has.
NextSuffixedId(base, taken) ==
    LET free == {k \in 1..MaxSuffix : <<base[1], k>> \notin taken}
    IN  <<base[1], CHOOSE k \in free : \A j \in free : k <= j>>

CanMint(base) == \E k \in 1..MaxSuffix : ~InScript(<<base[1], k>>)
ExistingIds == {shots[i].id : i \in DOMAIN shots}

InsertShot(i) ==
    /\ Count("edits", MaxEdits) /\ CanMint(shots[i].id)
    /\ shots' = InsertAt(shots, i + 1, NewShot(NextSuffixedId(shots[i].id, ExistingIds), born + 1))
    /\ born' = born + 1
    /\ UNCHANGED <<boards, clips, assetJobs, grid, tool, checkpoint, left, reported>>

\* The files of the shot, its tasks and its cell of a grid stay.
LeftUnder(id) ==
    {r \in Remnants :
        \/ r = "board" /\ boards[id] # 0
        \/ r = "clip" /\ clips[id] # NoClip
        \/ r = "boardJob" /\ (Active(<<"board", id>>) \/ \E c \in grid.cells : c[1] = id)
        \/ r = "clipJob" /\ Active(<<"clip", id>>)}

RemoveShot(i) ==
    /\ Count("edits", MaxEdits) /\ Len(shots) > 1
    /\ shots' = RemoveAt(shots, i)
    /\ left' = [left EXCEPT ![shots[i].id] = @ \cup LeftUnder(shots[i].id)]
    /\ UNCHANGED <<boards, clips, assetJobs, grid, tool, checkpoint, born, reported>>

\* The first part keeps the id and the assets, the others start without any.
SplitParts(s, id) == <<s, NewShot(id, born + 1)>>

SplitShot(i) ==
    /\ Count("edits", MaxEdits) /\ CanMint(shots[i].id)
    /\ shots' = SubSeq(shots, 1, i - 1)
                  \o SplitParts(shots[i], NextSuffixedId(shots[i].id, ExistingIds))
                  \o SubSeq(shots, i + 1, Len(shots))
    /\ born' = born + 1
    /\ UNCHANGED <<boards, clips, assetJobs, grid, tool, checkpoint, left, reported>>

-----------------------------------------------------------------------------
(* Requests.                                                               *)

\* enqueue_task: an active task of the same type and id is joined instead.
Enqueued(ks) ==
    [k \in AssetKinds \X ShotIds |->
        IF k \in ks /\ ~Active(k) THEN [for |-> BornOf(k[2]), frame |-> 0, at |-> "queued"]
                                  ELSE assetJobs[k]]

AskBoard(id) ==
    /\ Count("asks", MaxAsks) /\ InScript(id)
    /\ assetJobs' = Enqueued({<<"board", id>>})
    /\ UNCHANGED <<shots, boards, clips, grid, tool, checkpoint, born, left, reported>>

\* The board is looked for in the script and, where that names none, under the
\* id; a shot that is not in the script is not refused.
AskClip(id) ==
    /\ Count("asks", MaxAsks) /\ boards[id] # 0
    /\ assetJobs' = Enqueued({<<"clip", id>>})
    /\ left' = [left EXCEPT ![id] = IF InScript(id) THEN @ ELSE @ \cup {"clipJob"}]
    /\ UNCHANGED <<shots, boards, clips, grid, tool, checkpoint, born, reported>>

\* One grid for the shots as they are; the least number of shots a grid takes
\* is left out.
AskGrid ==
    /\ Count("grids", MaxGrids) /\ grid.cells = {}
    /\ grid' = [cells |-> {<<s.id, s.born>> : s \in ToSet(shots)}, job |-> "queued", hit |-> {}]
    /\ UNCHANGED <<shots, boards, clips, assetJobs, tool, checkpoint, born, left, reported>>

\* With the ids and prompts of the record, whatever the script has become.
RegenerateGrid ==
    /\ Count("grids", MaxGrids) /\ grid.cells # {} /\ grid.job = "none"
    /\ grid' = [grid EXCEPT !.job = "queued"]
    /\ UNCHANGED <<shots, boards, clips, assetJobs, tool, checkpoint, born, left, reported>>

-----------------------------------------------------------------------------
(* The executors of the tasks.                                             *)

\* What a batch hears of the end of a task; its checkpoint is saved per success.
Heard(k, ok) ==
    IF k \notin tool.waits THEN UNCHANGED <<tool, checkpoint>>
    ELSE /\ tool' = [tool EXCEPT !.waits = @ \ {k}, !.failed = @ \/ ~ok,
                                 !.done = IF ok THEN @ \cup {k[2]} ELSE @]
         /\ checkpoint' = IF ok /\ tool.kind = "episode" THEN tool.done \cup {k[2]} ELSE checkpoint

EndJob(k, ok) == assetJobs' = [assetJobs EXCEPT ![k] = NoJob] /\ Heard(k, ok)
JobAt(k, point) == Active(k) /\ assetJobs[k].at = point

\* A board needs its shot in the script from the start.
StartBoard(id) ==
    LET k == <<"board", id>> IN
    /\ JobAt(k, "queued")
    /\ IF InScript(id)
       THEN assetJobs' = [assetJobs EXCEPT ![k].at = "running"] /\ UNCHANGED <<tool, checkpoint>>
       ELSE EndJob(k, FALSE)
    /\ UNCHANGED <<shots, boards, clips, grid, born, left, reported, counts>>

\* A clip needs the file of a board only.
StartClip(id) ==
    LET k == <<"clip", id>> IN
    /\ JobAt(k, "queued")
    /\ IF boards[id] # 0
       THEN /\ assetJobs' = [assetJobs EXCEPT ![k].at = "running", ![k].frame = boards[id]]
            /\ UNCHANGED <<tool, checkpoint>>
       ELSE EndJob(k, FALSE)
    /\ UNCHANGED <<shots, boards, clips, grid, born, left, reported, counts>>

WriteFile(k) ==
    /\ JobAt(k, "running")
    /\ assetJobs' = [assetJobs EXCEPT ![k].at = "written"]
    /\ IF k[1] = "board"
       THEN boards' = [boards EXCEPT ![k[2]] = assetJobs[k].for] /\ UNCHANGED clips
       ELSE /\ clips' = [clips EXCEPT ![k[2]] = [of |-> assetJobs[k].for, from |-> assetJobs[k].frame]]
            /\ UNCHANGED boards
    /\ UNCHANGED <<shots, grid, tool, checkpoint, born, left, reported, counts>>

\* A task whose shot is gone by now fails with its file written.
RecordFile(k) ==
    /\ JobAt(k, "written")
    /\ shots' = Took({k[2]}, k[1])
    /\ EndJob(k, InScript(k[2]))
    /\ UNCHANGED <<boards, clips, grid, born, left, reported, counts>>

\* The provider refuses, the user cancels, or a write fails.
FailJob(k) ==
    /\ Active(k) /\ Count("fails", MaxFails) /\ EndJob(k, FALSE)
    /\ UNCHANGED <<shots, boards, clips, grid, born, left, reported>>

StartGrid ==
    /\ grid.job = "queued" /\ grid' = [grid EXCEPT !.job = "running"]
    /\ UNCHANGED <<shots, boards, clips, assetJobs, tool, checkpoint, born, left, reported, counts>>

\* The cells whose shots are still there are written to their boards.
CutGrid ==
    LET hit == {c \in grid.cells : InScript(c[1])} IN
    /\ grid.job = "running" /\ grid' = [grid EXCEPT !.job = "cut", !.hit = hit]
    /\ boards' = [id \in ShotIds |->
                     IF \E c \in hit : c[1] = id THEN (CHOOSE c \in hit : c[1] = id)[2]
                                                 ELSE boards[id]]
    /\ UNCHANGED <<shots, clips, assetJobs, tool, checkpoint, born, left, reported, counts>>

\* One update of the script for all of them, or none if a shot has gone since.
RecordGrid ==
    /\ grid.job = "cut" /\ grid' = [grid EXCEPT !.job = "none", !.hit = {}]
    /\ LET ids == {c[1] : c \in grid.hit} IN
       IF \A id \in ids : InScript(id) THEN shots' = Took(ids, "board") ELSE UNCHANGED shots
    /\ UNCHANGED <<boards, clips, assetJobs, tool, checkpoint, born, left, reported, counts>>

FailGrid ==
    /\ grid.job \in {"queued", "running", "cut"} /\ Count("fails", MaxFails)
    /\ grid' = [grid EXCEPT !.job = "none", !.hit = {}]
    /\ UNCHANGED <<shots, boards, clips, assetJobs, tool, checkpoint, born, left, reported>>

-----------------------------------------------------------------------------
(* Batches.                                                                *)

WithBoard == {s.id : s \in {u \in ToSet(shots) : u.board /\ boards[u.id] # 0}}

StartBatch(kind, ks, done, already) ==
    /\ tool.kind = "none" /\ Count("tools", MaxTools) /\ (ks # {} \/ already # {})
    /\ tool' = [kind |-> kind, waits |-> ks, done |-> done, failed |-> FALSE,
                counted |-> {<<id, BornOf(id)>> : id \in already \cup {k[2] : k \in ks}}]
    /\ assetJobs' = Enqueued(ks)
    /\ UNCHANGED <<shots, boards, clips, grid, checkpoint, born, left, reported>>

\* generate_storyboards without a selection.
BoardsTool ==
    StartBatch("boards", {<<"board", s.id>> : s \in {u \in ToSet(shots) : ~u.board}}, {}, {})

\* generate_video_all: the shots without a clip that have a board.
AllClipsTool ==
    StartBatch("all", {<<"clip", s.id>> : s \in {u \in ToSet(shots) : ~u.clip /\ u.id \in WithBoard}},
          {}, {})

\* generate_video_scene.
SceneTool(id) == id \in WithBoard /\ StartBatch("all", {<<"clip", id>>}, {}, {})

\* _scan_completed_items: what the checkpoint names and the disk has.
AlreadyDone(done) == {id \in ExistingIds \cap done : clips[id] # NoClip}
Stale(done) == {id \in ExistingIds \cap done : clips[id] = NoClip}

\* generate_video_episode and generate_video_selected.
EpisodeTool(resume) ==
    LET done == IF resume /\ checkpoint # NoCheckpoint THEN checkpoint ELSE {}
        already == AlreadyDone(done)
    IN  StartBatch("episode", {<<"clip", id>> : id \in WithBoard \ already}, done \ Stale(done), already)

\* Without a failure the checkpoint goes and the clips are reported.
EndTool ==
    /\ tool.kind # "none" /\ tool.waits = {}
    /\ tool' = IdleTool
    /\ IF tool.kind = "episode" /\ ~tool.failed THEN checkpoint' = NoCheckpoint
                                                ELSE UNCHANGED checkpoint
    /\ reported' = IF tool.kind = "boards" \/ tool.failed THEN reported
                                                          ELSE reported \cup tool.counted
    /\ UNCHANGED <<shots, boards, clips, assetJobs, grid, born, left, counts>>

\* The agent is interrupted: its tasks go on.
KillTool ==
    /\ tool.waits # {} /\ Count("fails", MaxFails) /\ tool' = IdleTool
    /\ UNCHANGED <<shots, boards, clips, assetJobs, grid, checkpoint, born, left, reported>>

EditorEdits == \E i \in DOMAIN shots : InsertShot(i) \/ RemoveShot(i) \/ SplitShot(i)
UserAsks == (\E id \in ShotIds : AskBoard(id) \/ AskClip(id)) \/ AskGrid \/ RegenerateGrid
WorkerRuns ==
    \/ \E id \in ShotIds : StartBoard(id) \/ StartClip(id)
    \/ \E k \in AssetKinds \X ShotIds : WriteFile(k) \/ RecordFile(k) \/ FailJob(k)
    \/ StartGrid \/ CutGrid \/ RecordGrid \/ FailGrid
AgentRuns ==
    \/ BoardsTool \/ AllClipsTool \/ (\E id \in ShotIds : SceneTool(id))
    \/ (\E resume \in BOOLEAN : EpisodeTool(resume)) \/ EndTool \/ KillTool

ShotsNext == EditorEdits \/ UserAsks \/ WorkerRuns \/ AgentRuns
ShotsSpec == ShotsInit /\ [][ShotsNext]_shotVars

-----------------------------------------------------------------------------
(* Properties.                                                             *)

\* A board a shot has taken over was made for it, and so was a clip, from a
\* board of its own.  ADR 0003 has a new shot start without assets; the
\* exceptions are those of an id that was removed and given away again: a task
\* or a grid that was active when its shot was removed records its result in the
\* new shot, and a board left on the disk is the first frame of a new clip.
BoardsBelong ==
    \A s \in ToSet(shots) :
        s.board => boards[s.id] = s.born \/ "boardJob" \in left[s.id]
ClipsBelong ==
    \A s \in ToSet(shots) :
        s.clip => /\ clips[s.id] # NoClip
                  /\ clips[s.id].of = s.born \/ "clipJob" \in left[s.id]
                  /\ \/ clips[s.id].from = s.born
                     \/ left[s.id] \cap {"board", "boardJob", "clipJob"} # {}

\* What a batch has reported as done is in the script, unless a clip of the id
\* was left on the disk: resume takes the checkpoint and the file at their word.
ReportsHold ==
    \A c \in reported : \A s \in ToSet(shots) :
        <<s.id, s.born>> = c => s.clip \/ left[s.id] \cap {"clip", "clipJob"} # {}

AssetsBelong == BoardsBelong /\ ClipsBelong /\ ReportsHold
=============================================================================
