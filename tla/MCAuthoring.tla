---------------------------- MODULE MCAuthoring ----------------------------
(***************************************************************************)
(* A small instance of what stands on a project's files: episodes, their   *)
(* drafts and scripts, shots, units, assets and archives.  They are        *)
(* checked side by side: `part` says which one a behaviour is about, the   *)
(* others keep their initial state.                                        *)
(***************************************************************************)
EXTENDS EpisodePlanner, ArchiveInstall, ShotAssets, ReferenceUnits, ArchiveRepair,
        EpisodeWriting

CONSTANTS q1, q2, l1, w1, w2, AuthoringParts

\* The script had one insertion before.
MCStartIds == <<<<"s1", 0>>, <<"s1", 1>>>>
MCStartShots == <<1, 2>>
MCCasts == {<<>>, <<"n">>}
MCStartCast == <<"n">>

MCAssets == {<<"character", "n">>, <<"character", "n (2)">>, <<"scene", "n">>, <<"scene", "n_v2">>,
             <<"product", "n">>, <<"storyboard", "s1">>}
MCNamesakes == [a \in MCAssets |-> IF a = <<"scene", "n">> THEN {<<"scene", "n_v2">>} ELSE {}]
MCFirstFreeName ==
    [a \in MCAssets |-> IF a = <<"character", "n">> THEN <<<<"character", "n (2)">>>> ELSE <<>>]
AuthoringSymmetry == Permutations(AssetRequests) \cup Permutations(Writers)

VARIABLE part

authoringVars ==
    <<part, plannerVars, archiveVars, shotVars, unitVars, assetVars, repairVars,
      writingVars>>

\* Of the initial states of a part the others need one only.
MCInit ==
    /\ part \in AuthoringParts
    /\ PlannerInit /\ (part # "planner" => texts[1] = NoText)
    /\ ArchiveInit /\ (part # "archive" => dirs[CHOOSE n \in ProjectNames : TRUE] # NoDir)
    /\ ShotsInit
    /\ UnitsInit /\ (part # "units" => isAd)
    /\ AssetsInit
    /\ DOMAIN entries = IF part = "repair" THEN {<<"scene", "n">>} ELSE {<<"character", "n">>}
    /\ part # "assets" => rows = <<>>
    /\ RepairInit /\ (part # "repair" => layout = CHOOSE k \in ScriptKinds : TRUE)
    /\ WritingInit
    /\ IF part = "writing" THEN /\ genMode["project"] # "unset"
                                /\ outline.status = "consumed" => written.state = "missing"
       ELSE contentMode = "ad" /\ genMode["project"] = "unset" /\ written.state = "missing"

\* A step of one part.
OthersRest(p) ==
    /\ part = p /\ UNCHANGED part
    /\ IF p = "planner" THEN TRUE ELSE UNCHANGED plannerVars
    /\ IF p = "archive" THEN TRUE ELSE UNCHANGED archiveVars
    /\ IF p = "shots" THEN TRUE ELSE UNCHANGED shotVars
    /\ IF p = "units" THEN TRUE ELSE UNCHANGED unitVars
    /\ IF p \in {"assets", "repair"} THEN TRUE ELSE UNCHANGED assetVars
    /\ IF p = "repair" THEN TRUE ELSE UNCHANGED repairVars
    /\ IF p = "writing" THEN TRUE ELSE UNCHANGED writingVars

Writing == {w \in Writers : writers[w] # Unoccupied}
AtRest(r) == work[r].at \notin {"begun", "saved"}

\* An asset that the requests of a part leave alone.
LeftOut == IF part = "assets" THEN <<"scene", "n_v2">> ELSE <<"character", "n (2)">>

\* The other asset of the name has a version and the first has lost its picture.
NamesakeAlone ==
    /\ lost = {Png(<<"scene", "n">>)}
    /\ SavedVersions(Here, Namesakes[<<"scene", "n">>]) # {}
    /\ layout = "segments" /\ ~script.there

\* Bounds: one edit or one lost file of the assets, two if the first is a script
\* that was saved, with one request then, or if the second is the loss of a picture
\* next to the versions of a namesake; each part has one of the two assets "n_v2" and
\* "n (2)"; while a project is exported its requests follow one another.  Once two
\* requests are at work on one project name nothing more is claimed of the
\* behaviour, and it is not followed further.
\* An episode is changed once while two writers are at work, or twice while one
\* is (a failed call counts); its clips are made while none is, and its overview
\* while there is neither a draft nor a clip nor another writer.
Bounds ==
    /\ ~overlap
    /\ written.clips # "none" \/ written.units # "none" => Writing = {}
    /\ overview.by # "none" \/ (\E w \in Writing : writers[w].kind = "overview") =>
           /\ written.clips = "none" /\ written.units = "none"
           /\ \A f \in StepFiles : ~HasDraft(f)
           /\ \A w \in Writing : writers[w].kind = "overview"
    /\ changes + faults < 3
    /\ changes + faults = 2 => \E w \in Writers : Writing \subseteq {w}
    /\ tally.edits + tally.faults < (IF script.there \/ NamesakeAlone THEN 3 ELSE 2)
    /\ script.there => \E r \in AssetRequests : \A q \in AssetRequests \ {r} : work[q] = Unused
    /\ parcel.at \in {"packed", "accepted", "refused"} => parcel.quiet
    /\ LeftOut \notin DOMAIN entries
    /\ \A r \in AssetRequests : work[r] = Unused \/ work[r].asset # LeftOut
    /\ part = "repair" => \A r, q \in AssetRequests : AtRest(r) \/ AtRest(q) \/ r = q

\* Nor is anything claimed of an export during which the project has changed.  It
\* changes after its root was copied or not at all, and then the export is
\* followed until it is packed.
ExportsGoOn ==
    (parcel.at = "root" /\ parcel.origin # Here) \/ parcel.at \in {"pictures", "script", "packed"} =>
        parcel' # parcel

MCNext ==
    \/ OthersRest("planner") /\ PlannerNext /\ Bounds'
    \/ OthersRest("archive") /\ ArchiveNext /\ Bounds'
    \/ OthersRest("shots") /\ ShotsNext /\ Bounds'
    \/ OthersRest("units") /\ UnitsNext /\ Bounds'
    \/ OthersRest("assets") /\ AssetsNext /\ Bounds'
    \/ OthersRest("repair") /\ RepairNext /\ ExportsGoOn /\ Bounds'
    \/ OthersRest("writing") /\ WritingNext /\ Bounds'

MCSpec == MCInit /\ [][MCNext]_authoringVars
=============================================================================
