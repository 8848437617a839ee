--------------------------- MODULE EpisodeWriting ---------------------------
(***************************************************************************)
(* How an episode is written: its source text, the draft of step 1, the    *)
(* script a text model makes of the draft (lib/script_generator.py, the    *)
(* tools of sdk_tools/text_generation.py), the handlers that edit each of  *)
(* them (routers/files.py, routers/projects.py), and what the application  *)
(* then shows of the episode (lib/status_calculator.py) and exports of it  *)
(* (services/jianying_draft_service.py).                                   *)
(*                                                                         *)
(* One episode of one project.  A text is the number of its version, 0 is  *)
(* none.  The mode grid is treated like storyboard everywhere here.  A     *)
(* writer waits for the model without a lock, and looks at the project     *)
(* once, before: what moves meanwhile it does not see.                     *)
(***************************************************************************)
EXTENDS Naturals

CONSTANTS
    ContentModes,           \* "narration", "drama", "ad"
    Writers,                \* requests that wait for the text model
    MaxChanges, MaxTexts,   \* bounds: changes by hand, versions of a text
    MaxFaults               \* model calls that fail

ASSUME WritingAssumption ==
    /\ ContentModes \subseteq {"narration", "drama", "ad"} /\ ContentModes # {}
    /\ {MaxChanges, MaxTexts, MaxFaults} \subseteq Nat /\ MaxTexts > 0

VARIABLES
    contentMode,      \* project.json: content_mode, never changed
    genMode,          \* project.json: generation_mode of project and episode
    outline,          \* project.json: hook and ledger_status of the episode
    novel,            \* source/*.txt
    overview,         \* project.json: overview, and the text it is about
    drafts,           \* drafts/episode_1/step1_*.md
    written,          \* scripts/episode_1.json
    writers,
    changes, faults

writingVars == <<contentMode, genMode, outline, novel, overview, drafts, written,
                 writers, changes, faults>>

GenModes == {"unset", "storyboard", "reference_video"}
StepFiles == {"segments", "normalized", "reference_units"}
Shapes == {"segments", "scenes", "shots", "video_units"}
Progress == {"none", "some", "all"}
Texts == 0..MaxTexts

NoDraft == [ver |-> 0, of |-> 0]
\* A script: is it well formed, which of its items have a clip, which units of
\* the index (of an ad) have one; `good` remembers that it has been well formed.
NotWritten == [state |-> "missing", shape |-> "segments", hook |-> 0, step |-> 0,
             clips |-> "none", units |-> "none", good |-> FALSE]
Unoccupied == [kind |-> "none", at |-> "idle", mode |-> "unset", hook |-> 0, step |-> 0,
         text |-> 0, moved |-> FALSE]

WritingTypeOK ==
    /\ contentMode \in ContentModes /\ genMode \in [{"project", "episode"} -> GenModes]
    /\ outline \in [hook : Texts, status : {"planned", "consumed", "stale"}]
    /\ novel \in Texts /\ overview \in [by : {"none", "model", "hand"}, of : Texts]
    /\ drafts \in [StepFiles -> [ver : Texts, of : Texts]]
    /\ written \in [state : {"missing", "corrupt", "invalid", "valid"}, shape : Shapes,
                    hook : Texts, step : Texts, clips : Progress, units : Progress,
                    good : BOOLEAN]
    /\ writers \in [Writers -> [kind : {"none", "script", "step", "overview"},
                                at : {"idle", "checked", "loaded", "read", "saved", "missing"},
                                mode : GenModes, hook : Texts, step : Texts, text : Texts,
                                moved : BOOLEAN]]
    /\ changes \in 0..MaxChanges /\ faults \in 0..MaxFaults

-----------------------------------------------------------------------------
(* Which file and which shape a mode asks for: written down four times.    *)

\* effective_mode: the episode's, else the project's, else storyboard.
EffectiveMode ==
    IF genMode["episode"] # "unset" THEN genMode["episode"]
    ELSE IF genMode["project"] # "unset" THEN genMode["project"]
    ELSE "storyboard"

\* files.py, _get_step_files.  An ad has the file of a drama.
EditorFile(mode) ==
    IF mode = "reference_video" THEN "reference_units"
    ELSE IF contentMode = "narration" THEN "segments" ELSE "normalized"

\* text_generation.py, _resolve_step1_path (not asked for an ad).
ToolFile(mode) ==
    IF mode = "reference_video" THEN "reference_units"
    ELSE IF contentMode = "drama" THEN "normalized" ELSE "segments"

\* A mutant: by the content mode alone, as the status does.
GeneratorFileByContent(mode) ==
    IF contentMode = "narration" THEN "segments" ELSE "normalized"

\* script_generator.py, _load_step1: the file of the mode and no other.
GeneratorFile(mode) ==
    IF mode = "reference_video" THEN "reference_units"
    ELSE IF contentMode = "narration" THEN "segments" ELSE "normalized"

\* status_calculator.py, _DRAFT_FILENAMES: by the content mode alone.
ProbedFiles ==
    CASE contentMode = "narration" -> {"segments"}
      [] contentMode = "drama" -> {"normalized"}
      [] contentMode = "ad" -> {}

\* The shape of a script: an ad has shots, whatever the mode.
ShapeOf(mode) ==
    CASE contentMode = "ad" -> "shots"
      [] contentMode # "ad" /\ mode = "reference_video" -> "video_units"
      [] contentMode = "narration" /\ mode # "reference_video" -> "segments"
      [] contentMode = "drama" /\ mode # "reference_video" -> "scenes"

HasDraft(file) == drafts[file].ver # 0

\* files.py, _resolve_step1_path: what is read and deleted is another mode's
\* draft if the current mode has none.
ReachedFiles ==
    IF HasDraft(EditorFile(EffectiveMode)) THEN {EditorFile(EffectiveMode)}
    ELSE LET order == <<"reference_units", "segments", "normalized">>
             found == {i \in 1..3 : HasDraft(order[i])}
         IN  {order[i] : i \in {j \in found : \A k \in found : j <= k}}

-----------------------------------------------------------------------------
\* A project that has been made and planned; its script may be one of an older
\* version of the program, or damaged.  An ad has its one entry from the start.
WritingInit ==
    /\ contentMode \in ContentModes
    /\ genMode \in {[project |-> m, episode |-> "unset"] : m \in GenModes}
    /\ outline \in {[hook |-> IF contentMode = "ad" THEN 0 ELSE 1, status |-> s] :
                    s \in IF contentMode = "ad" THEN {"planned"} ELSE {"planned", "consumed"}}
    /\ novel = 1 /\ overview = [by |-> "none", of |-> 0]
    /\ drafts = [f \in StepFiles |-> NoDraft]
    /\ written \in {[NotWritten EXCEPT !.state = s, !.shape = ShapeOf(EffectiveMode)] :
                    s \in {"missing", "corrupt", "invalid"}}
    /\ writers = [w \in Writers |-> Unoccupied]
    /\ changes = 0 /\ faults = 0

\* Whoever waits has missed a change.
Moved(except) ==
    [v \in Writers |-> IF v \in except \/ writers[v] = Unoccupied THEN writers[v]
                       ELSE [writers[v] EXCEPT !.moved = TRUE]]
ByHand == changes < MaxChanges /\ changes' = changes + 1 /\ UNCHANGED <<contentMode, faults>>
-----------------------------------------------------------------------------
(* Changes by hand.                                                        *)

\* PATCH /projects/{name}: generation_mode of the project or of an episode,
\* null clears it.  One read-modify-write under the project's lock.
PatchMode(level, mode) ==
    /\ ByHand /\ genMode[level] # mode
    /\ genMode' = [genMode EXCEPT ![level] = mode]
    /\ writers' = Moved({})
    /\ UNCHANGED <<outline, novel, overview, drafts, written>>

\* replan: a new cut of the episode.  Its files stay where they are.
Recut ==
    /\ ByHand /\ contentMode # "ad" /\ outline.hook < MaxTexts
    /\ outline' = [hook |-> outline.hook + 1,
                   status |-> IF outline.status = "planned" THEN "planned" ELSE "stale"]
    /\ writers' = Moved({})
    /\ UNCHANGED <<genMode, novel, overview, drafts, written>>

\* PUT of a source file, or an upload that replaces it.
PutSource ==
    /\ ByHand /\ novel < MaxTexts
    /\ novel' = novel + 1
    /\ writers' = Moved({})
    /\ UNCHANGED <<genMode, outline, overview, drafts, written>>

DeleteSource ==
    /\ ByHand /\ novel # 0
    /\ novel' = 0
    /\ writers' = Moved({})
    /\ UNCHANGED <<genMode, outline, overview, drafts, written>>

NextDraft(file, text) ==
    /\ drafts[file].ver < MaxTexts
    /\ drafts' = [drafts EXCEPT ![file] = [ver |-> @.ver + 1, of |-> text]]

\* PUT of a draft: always into the file of the current mode.
PutDraft ==
    /\ ByHand
    /\ NextDraft(EditorFile(EffectiveMode), 0)
    /\ writers' = Moved({})
    /\ UNCHANGED <<genMode, outline, novel, overview, written>>

DeleteDraft ==
    /\ ByHand
    /\ \E file \in ReachedFiles : drafts' = [drafts EXCEPT ![file] = NoDraft]
    /\ writers' = Moved({})
    /\ UNCHANGED <<genMode, outline, novel, overview, written>>

\* PATCH of the overview: some of its fields.
EditOverview ==
    /\ ByHand /\ overview.by # "hand"
    /\ overview' = [overview EXCEPT !.by = "hand"]
    /\ UNCHANGED <<genMode, outline, novel, drafts, written, writers>>

\* The handlers that edit an item write the fields of a list, which
\* generated_assets is not in, and may not make the script worse; each wants a
\* script that has items of its kind.
EditScript(shape) ==
    /\ ByHand /\ written.state \in {"invalid", "valid"} /\ written.shape = shape
    /\ \E s \in IF written.state = "valid" THEN {"valid"} ELSE {"invalid", "valid"} :
           written' = [written EXCEPT !.state = s, !.good = @ \/ s = "valid"]
    /\ UNCHANGED <<genMode, outline, novel, overview, drafts, writers>>

UpdateScene == EditScript("scenes")
UpdateShot == contentMode = "ad" /\ EditScript("shots")
ReorderShots == contentMode = "ad" /\ EditScript("shots")
UpdateSegment == contentMode = "narration" /\ EditScript("segments")

-----------------------------------------------------------------------------
(* The tasks that make the clips.                                          *)

More(p) == IF p = "none" THEN {"some", "all"} ELSE {"all"}

\* The executor of a video task records the clip in its item.
RecordClip ==
    /\ written.state \in {"invalid", "valid"} /\ written.clips # "all"
    /\ \E p \in More(written.clips) : written' = [written EXCEPT !.clips = p]
    /\ UNCHANGED <<contentMode, genMode, outline, novel, overview, drafts, writers,
                   changes, faults>>

\* An ad's shots are grouped into units, which have the clips in reference mode;
\* the index stays in the script when the mode is changed back.
RecordUnitClip ==
    /\ written.state \in {"invalid", "valid"} /\ written.shape = "shots"
    /\ EffectiveMode = "reference_video" /\ written.units # "all"
    /\ \E p \in More(written.units) : written' = [written EXCEPT !.units = p]
    /\ UNCHANGED <<contentMode, genMode, outline, novel, overview, drafts, writers,
                   changes, faults>>

-----------------------------------------------------------------------------
(* The writers.                                                            *)

Stay == UNCHANGED <<contentMode, genMode, outline, novel, changes>>
Keep(w, r) == writers' = [writers EXCEPT ![w] = r]

\* Nothing tells an answer that is late from a new one: a writer that has missed
\* a change puts what it read in the place of what another has just saved.
Land(w) ==
    writers' = [(IF writers[w].moved THEN Moved({w}) ELSE writers) EXCEPT ![w].at = "saved"]

\* generate_episode_script: the tool reads project.json and looks for the draft.
ToolCheck(w) ==
    /\ writers[w] = Unoccupied
    /\ Keep(w, [Unoccupied EXCEPT !.kind = "script",
                            !.at = IF contentMode # "ad" /\ ~HasDraft(ToolFile(EffectiveMode))
                                   THEN "missing" ELSE "checked"])
    /\ Stay /\ UNCHANGED <<overview, drafts, written, faults>>

\* ScriptGenerator.create: the text backend is made, project.json read again and
\* kept: mode and hook are those of now.
LoadProject(w) ==
    /\ writers[w].at = "checked" /\ writers[w].kind = "script"
    /\ Keep(w, [writers[w] EXCEPT !.at = "loaded", !.mode = EffectiveMode,
                                  !.hook = IF contentMode = "ad" THEN 0 ELSE outline.hook])
    /\ Stay /\ UNCHANGED <<overview, drafts, written, faults>>

\* generate, after the capabilities of the video model are known: an ad is made of
\* its brief, any other script of the draft.
ReadStep(w) ==
    LET file == GeneratorFile(writers[w].mode) IN
    /\ writers[w].at = "loaded"
    /\ Keep(w, IF contentMode = "ad" THEN [writers[w] EXCEPT !.at = "read"]
               ELSE IF HasDraft(file)
               THEN [writers[w] EXCEPT !.at = "read", !.step = drafts[file].ver]
               ELSE [writers[w] EXCEPT !.at = "missing"])
    /\ Stay /\ UNCHANGED <<overview, drafts, written, faults>>

\* _guard_no_worse: a script that is not well formed replaces only one that was
\* there, could be read and was not either.
MayReplace(state) == state = "valid" \/ written.state = "invalid"

\* The answer is parsed, completed from the project that was read, and saved
\* under the lock of the script, over the edits and clips of the old one.
SaveEpisodeScript(w) ==
    /\ writers[w].at = "read" /\ writers[w].kind = "script"
    /\ \E state \in {"valid", "invalid"} :
        /\ MayReplace(state)
        /\ written' = [NotWritten EXCEPT !.state = state, !.shape = ShapeOf(writers[w].mode),
                                       !.hook = writers[w].hook, !.step = writers[w].step,
                                       !.good = written.good \/ state = "valid"]
    /\ Land(w)
    /\ Stay /\ UNCHANGED <<overview, drafts, faults>>

\* normalize_drama_script reads all of source/, and generate_overview does.
ReadSource(w, kind) ==
    /\ writers[w] = Unoccupied
    /\ Keep(w, [Unoccupied EXCEPT !.kind = kind, !.text = novel,
                            !.at = IF novel = 0 THEN "missing" ELSE "read"])
    /\ Stay /\ UNCHANGED <<overview, drafts, written, faults>>

\* The normalized script is written without a lock, whatever the mode is and
\* whatever was put there meanwhile.
SaveStep(w) ==
    /\ writers[w].at = "read" /\ writers[w].kind = "step"
    /\ NextDraft("normalized", writers[w].text)
    /\ writers' = [Moved({w}) EXCEPT ![w].at = "saved"]
    /\ Stay /\ UNCHANGED <<overview, written, faults>>

\* The overview is replaced under the project's lock, an edit by hand with it.
SaveOverview(w) ==
    /\ writers[w].at = "read" /\ writers[w].kind = "overview"
    /\ overview' = [by |-> "model", of |-> writers[w].text]
    /\ Land(w)
    /\ Stay /\ UNCHANGED <<drafts, written, faults>>

\* The model fails, its answer is not JSON, or the script is refused.
WritingFails(w) ==
    /\ writers[w].at \in {"checked", "loaded", "read"} /\ faults < MaxFaults
    /\ faults' = faults + 1 /\ Keep(w, Unoccupied)
    /\ Stay /\ UNCHANGED <<overview, drafts, written>>

\* dry_run: the prompt is put together and returned.
PromptOnly(w) ==
    /\ writers[w].at = "read" /\ writers[w].kind # "overview"
    /\ Keep(w, Unoccupied)
    /\ Stay /\ UNCHANGED <<overview, drafts, written, faults>>

Answered(w) ==
    /\ writers[w].at \in {"saved", "missing"}
    /\ Keep(w, Unoccupied)
    /\ Stay /\ UNCHANGED <<overview, drafts, written, faults>>

HandChanges ==
    \/ \E level \in {"project", "episode"}, mode \in GenModes : PatchMode(level, mode)
    \/ Recut \/ PutSource \/ DeleteSource \/ PutDraft \/ DeleteDraft \/ EditOverview
    \/ UpdateScene \/ UpdateShot \/ ReorderShots \/ UpdateSegment
WriterSteps ==
    \E w \in Writers :
        \/ ToolCheck(w) \/ LoadProject(w) \/ ReadStep(w) \/ SaveEpisodeScript(w)
        \/ ReadSource(w, "step") \/ SaveStep(w) \/ ReadSource(w, "overview") \/ SaveOverview(w)
        \/ WritingFails(w) \/ PromptOnly(w) \/ Answered(w)

WritingNext == HandChanges \/ RecordClip \/ RecordUnitClip \/ WriterSteps
WritingSpec == WritingInit /\ [][WritingNext]_writingVars

-----------------------------------------------------------------------------
(* What is shown and exported.                                             *)

Scored(p, none) == CASE p = "all" -> "completed" [] p = "some" -> "in_production" [] p = "none" -> none

\* A mutant: the units count as soon as the index has a clip of one.
VideoProgressByIndex ==
    IF written.shape = "shots" /\ written.units # "none" THEN written.units
    ELSE written.clips

\* calculate_episode_stats: clips of the units in the reference mode of an ad, of
\* the script's own items otherwise.
VideoProgress ==
    IF written.shape = "shots" /\ EffectiveMode = "reference_video" THEN written.units
    ELSE written.clips

\* _load_episode_script: a damaged script counts as one.
ScriptStatus ==
    IF written.state # "missing" THEN "generated"
    ELSE IF \E f \in ProbedFiles : HasDraft(f) THEN "segmented" ELSE "none"

\* _build_episodes_stats: <<script_status, status>> of the episode.
EpisodeShown ==
    IF outline.status = "stale" THEN <<"none", "draft">>
    ELSE <<ScriptStatus, IF written.state \in {"missing", "corrupt"} THEN "draft"
                         ELSE Scored(VideoProgress, "scripted")>>

\* calculate_current_phase, of a project of one episode.
PhaseShown ==
    CASE EpisodeShown = <<"generated", "completed">> -> "completed"
      [] EpisodeShown[1] = "generated" /\ EpisodeShown[2] # "completed" -> "production"
      [] EpisodeShown[1] = "segmented" -> "worldbuilding"
      [] EpisodeShown[1] = "none" -> IF overview.by # "none" THEN "worldbuilding" ELSE "setup"

\* _collect_video_clips: of the items the content mode names, or of an ad's
\* units.  The units of other scripts it does not know.
CollectedClips ==
    IF contentMode = "ad" /\ EffectiveMode = "reference_video" THEN written.units
    ELSE IF written.shape = "video_units" THEN "none" ELSE written.clips

\* export_episode_draft: without a script that can be read, or a clip, it refuses.
ExportedClips == IF written.state \in {"invalid", "valid"} THEN CollectedClips ELSE "none"

-----------------------------------------------------------------------------
(* Properties.                                                             *)

\* A request that has been answered, while nothing it depends on was changed
\* since it came, has left what the project prescribes: a script of the shape of
\* the mode, of the draft of the mode and with the hook of the ledger, a draft or
\* an overview of the text there is.  One that found nothing to read was right.
WrittenAsPrescribed ==
    \A w \in Writers : LET r == writers[w] IN
        r.at = "saved" /\ ~r.moved =>
            CASE r.kind = "script" ->
                    /\ written.shape = ShapeOf(EffectiveMode)
                    /\ contentMode # "ad" => /\ written.hook = outline.hook
                                             /\ written.step = drafts[EditorFile(EffectiveMode)].ver
              [] r.kind = "step" -> drafts["normalized"].of = novel
              [] r.kind = "overview" -> overview.of = novel
MissingIsMissing ==
    \A w \in Writers : LET r == writers[w] IN
        r.at = "missing" /\ ~r.moved =>
            IF r.kind = "script" THEN ~HasDraft(EditorFile(EffectiveMode)) ELSE novel = 0

\* A script that has once been well formed stays well formed, whatever the model
\* answers and whoever edits.
StaysWellFormed == written.good => written.state = "valid"

WritingFollows == WrittenAsPrescribed /\ MissingIsMissing /\ StaysWellFormed

\* What is shown as completed can be exported whole, and what can be exported
\* whole is shown as completed: the two count clips each on its own.  A script of
\* video units is never exported, though its episode is shown as completed, and
\* an episode that was cut again is never shown as written, though it is.
ShownIsExportable ==
    written.shape # "video_units" /\ outline.status # "stale" =>
        ((PhaseShown = "completed") <=> (ExportedClips = "all"))

\* Both: an episode is written as prescribed, and shown as it can be exported.
EpisodeIsSound == WritingFollows /\ ShownIsExportable
=============================================================================
