--------------------------- MODULE ProjectFiles_proofs ---------------------------
(***************************************************************************)
(* What a project's files, entries and library hold, for any number of     *)
(* editors, scripts, assets and requests.                                  *)
(*                                                                         *)
(* ProjectFiles: the invariant says which locks an editor holds at each    *)
(* point of its work (ProjectHeld, ScriptHeld) and that what it has read   *)
(* is still what is in the file when it writes (FreshRead): that an edit   *)
(* is in its file once it was reported, and the order of the locks,        *)
(* follow.                                                                 *)
(*                                                                         *)
(* ProjectAssets: the library's part (LibraryInv) ties each row and each   *)
(* file to the one request that brought it; the entries' part (ShownInv)   *)
(* says that a picture still to be recorded was never replaced, and that   *)
(* what is put back no longer counts as replaced.                          *)
(*                                                                         *)
(* ArchiveRepair: a tree that was repaired and is in order has nothing     *)
(* left to repair (NothingToRepair), and what it shows goes along in       *)
(* either kind of archive (NamedGoesAlong); the parcel of a project that   *)
(* nobody works on is, piece by piece, that project (ParcelHolds).         *)
(***************************************************************************)
EXTENDS ProjectFiles, ArchiveRepair, FiniteSetTheorems, TLAPS

InProject(e) == editor[e].step \in {"bothLocked", "projectLocked"}
InScript(e) ==
    \/ editor[e].kind \in {"script", "replace"}
       /\ editor[e].step \in {"scriptLocked", "written", "projectLocked"}
    \/ editor[e].kind = "episode"
       /\ editor[e].step \in {"scriptLocked", "bothLocked", "projectLocked"}

\* Which kinds of edit reach which step, and that a target has been chosen.
KindOfStep ==
    \A e \in Editors :
        /\ editor[e].step # "start" => editor[e].target \in ScriptFiles
        /\ editor[e].step = "bothLocked" => editor[e].kind = "episode"
        /\ editor[e].step = "written" => editor[e].kind \in {"script", "replace"}
        /\ editor[e].step = "scriptLocked" => editor[e].kind \in {"script", "replace", "episode"}
ProjectHeld == \A e \in Editors : projectLock = e <=> InProject(e)
ScriptHeld ==
    \A e \in Editors, f \in ScriptFiles :
        scriptLock[f] = e <=> editor[e].target = f /\ InScript(e)
FreshRead ==
    \A e \in Editors :
        /\ InProject(e) => editor[e].edits = project.edits /\ editor[e].bound = project.bound
        /\ editor[e].step = "scriptLocked" /\ editor[e].kind = "script"
             => editor[e].script = scripts[editor[e].target]
        /\ editor[e].step = "bothLocked"
             => /\ editor[e].script = scripts[editor[e].target]
                /\ editor[e].target = project.bound
        /\ editor[e].kind \in {"script", "replace"}
             /\ editor[e].step \in {"written", "projectLocked"}
             => e \in scripts[editor[e].target]
Landing ==
    \A x \in landed : x[1] \in (IF x[2] = "project" THEN project.edits ELSE scripts[x[2]])
NoRing ==
    \A e \in Editors : WaitsFor(e) # Nobody =>
        WaitsFor(WaitsFor(e)) = Nobody \/ WaitsFor(WaitsFor(WaitsFor(e))) = Nobody

FilesInv ==
    FilesTypeOK /\ KindOfStep /\ ProjectHeld /\ ScriptHeld /\ FreshRead /\ Landing
    /\ astray = {}

-----------------------------------------------------------------------------
LEMMA FilesTypeInit == FilesInit => FilesTypeOK
BY FilesAssumption DEF FilesInit, FilesTypeOK, Edit, AtRest, EditSteps

\* What the steps do to the editor that makes them, and to its record only.
Does(e, step, kind, target) ==
    /\ editor' \in [Editors -> Edit]
    /\ \A d \in Editors \ {e} : editor'[d] = editor[d]
    /\ editor'[e].step = step /\ editor'[e].kind = kind /\ editor'[e].target = target
Keeps(e) ==
    /\ editor'[e].script = editor[e].script /\ editor'[e].edits = editor[e].edits
    /\ editor'[e].bound = editor[e].bound
GoesTo(e, step) == Does(e, step, editor[e].kind, editor[e].target) /\ Keeps(e)

LEMMA StepGoes ==
    ASSUME FilesTypeOK, NEW e \in Editors, NEW s \in EditSteps, Step(e, s)
    PROVE  GoesTo(e, s)
BY DEF Step, GoesTo, Does, Keeps, FilesTypeOK, Edit

\* Two editors never hold the same lock.
LEMMA SoleEditor ==
    ASSUME ProjectHeld, NEW d \in Editors, NEW e \in Editors, InProject(d), InProject(e)
    PROVE  d = e
BY DEF ProjectHeld
LEMMA SoleScriptEditor ==
    ASSUME KindOfStep, ScriptHeld, NEW d \in Editors, NEW e \in Editors,
           InScript(d), InScript(e), editor[d].target = editor[e].target
    PROVE  d = e
<1>1. editor[e].target \in ScriptFiles
    BY DEF KindOfStep, InScript
<1> QED
    BY <1>1 DEF ScriptHeld

LEMMA FilesInvInit == FilesInit => FilesInv
<1> SUFFICES ASSUME FilesInit
             PROVE  FilesInv
    OBVIOUS
<1>1. \A e \in Editors : editor[e].step = "start" /\ editor[e].kind = "none"
    BY DEF FilesInit, AtRest
<1>2. \A e \in Editors : ~InProject(e) /\ ~InScript(e)
    BY <1>1 DEF InProject, InScript
<1>3. KindOfStep /\ FreshRead
    BY <1>1, <1>2 DEF KindOfStep, FreshRead
<1>4. ProjectHeld /\ ScriptHeld
    BY <1>2, FilesAssumption DEF ProjectHeld, ScriptHeld, FilesInit
<1> QED
    BY <1>3, <1>4, FilesTypeInit DEF FilesInv, Landing, FilesInit

LEMMA FilesInvStep == FilesInv /\ [FilesNext]_filesVars => FilesInv'
<1> SUFFICES ASSUME FilesInv, [FilesNext]_filesVars
             PROVE  FilesInv'
    OBVIOUS
<1>t. FilesTypeOK
    BY DEF FilesInv
<1>k. KindOfStep /\ ProjectHeld /\ ScriptHeld /\ FreshRead /\ Landing /\ astray = {}
    BY DEF FilesInv
<1> USE FilesAssumption
<1>u. CASE UNCHANGED filesVars
    <2> USE <1>u, <1>t, <1>k DEF filesVars
    <2>1. FilesTypeOK'
        BY DEF FilesTypeOK
    <2>2. KindOfStep' /\ ProjectHeld' /\ ScriptHeld' /\ FreshRead' /\ Landing'
        BY DEF KindOfStep, ProjectHeld, ScriptHeld, FreshRead, Landing, InProject, InScript
    <2> QED
        BY <2>1, <2>2 DEF FilesInv
<1>1. ASSUME NEW e \in Editors, NEW kind \in Kinds, NEW f \in ScriptFiles,
             StartUpdate(e, kind, f)
      PROVE  FilesInv'
    <2>1. Does(e, "resolved", kind, f) /\ Keeps(e)
        BY <1>1, <1>t DEF StartUpdate, Does, Keeps, FilesTypeOK, Edit, EditSteps
    <2>2. UNCHANGED <<project, scripts, projectLock, scriptLock, landed, astray, editFaults>>
        BY <1>1 DEF StartUpdate
    <2>3. editor[e].step = "start"
        BY <1>1 DEF StartUpdate
    <2>4. FilesTypeOK'
        BY <1>t, <2>1, <2>2 DEF Does, FilesTypeOK
    <2>5. KindOfStep'
        BY <1>k, <2>1 DEF Does, KindOfStep
    <2>6. \A d \in Editors : /\ InProject(d)' = InProject(d) /\ InScript(d)' = InScript(d)
                             /\ InScript(d) => editor'[d] = editor[d]
        BY <2>1, <2>3 DEF Does, InProject, InScript
    <2>7. ProjectHeld' /\ ScriptHeld'
        BY <1>k, <2>2, <2>6 DEF ProjectHeld, ScriptHeld
    <2>8. FreshRead'
        BY <1>k, <2>1, <2>2, <2>3 DEF FreshRead, Does, InProject
    <2> QED
        BY <1>k, <2>2, <2>4, <2>5, <2>7, <2>8 DEF FilesInv, Landing
<1>2. ASSUME NEW e \in Editors, NEW kind \in Kinds, NEW f \in ScriptFiles,
             LockScript(e, kind, f)
      PROVE  FilesInv'
    <2>1. /\ Does(e, "scriptLocked", kind, f)
          /\ editor'[e].script = IF kind = "script" THEN scripts[f] ELSE {}
        BY <1>2, <1>t DEF LockScript, Does, FilesTypeOK, Edit, EditSteps
    <2>2. UNCHANGED <<project, scripts, projectLock, landed, astray, editFaults>>
        BY <1>2 DEF LockScript
    <2>3. /\ editor[e].step = "start" /\ kind \in {"script", "replace"}
          /\ scriptLock[f] = Nobody /\ scriptLock' = [scriptLock EXCEPT ![f] = e]
        BY <1>2 DEF LockScript
    <2>4. FilesTypeOK'
        BY <1>t, <2>1, <2>2, <2>3 DEF Does, FilesTypeOK
    <2>5. KindOfStep'
        BY <1>k, <2>1, <2>3 DEF Does, KindOfStep
    <2>6. /\ \A d \in Editors : InProject(d)' = InProject(d)
          /\ \A d \in Editors \ {e} : InScript(d)' = InScript(d) /\ editor'[d] = editor[d]
          /\ ~InScript(e) /\ InScript(e)' /\ editor'[e].target = f
        BY <2>1, <2>3 DEF Does, InProject, InScript
    <2>7. ProjectHeld'
        BY <1>k, <2>2, <2>6 DEF ProjectHeld
    <2>8. ScriptHeld'
        BY <1>k, <1>t, <2>3, <2>6 DEF ScriptHeld, FilesTypeOK
    <2>9. FreshRead'
        BY <1>k, <2>1, <2>2, <2>3 DEF FreshRead, Does, InProject
    <2> QED
        BY <1>k, <2>2, <2>4, <2>5, <2>7, <2>8, <2>9 DEF FilesInv, Landing
<1>3. ASSUME NEW e \in Editors, LockProject(e) PROVE FilesInv'
    <2>1. /\ Does(e, "projectLocked", editor[e].kind, editor[e].target)
          /\ editor'[e].edits = project.edits /\ editor'[e].bound = project.bound
          /\ editor'[e].script = editor[e].script
        <3>1. /\ editor \in [Editors -> Edit] /\ editor[e] \in Edit
              /\ project.edits \in SUBSET Editors /\ project.bound \in ScriptFiles
            BY <1>t DEF FilesTypeOK
        <3>2. editor' = [editor EXCEPT ![e] = [editor[e] EXCEPT !.step = "projectLocked",
                                                   !.edits = project.edits, !.bound = project.bound]]
            BY <1>3, <3>1 DEF LockProject
        <3> QED
            BY <3>1, <3>2 DEF Does, Edit, EditSteps
    <2>2. UNCHANGED <<project, scripts, scriptLock, landed, astray, editFaults>>
        BY <1>3 DEF LockProject
    <2>3. /\ projectLock = Nobody /\ projectLock' = e
          /\ \/ editor[e].kind \in {"update", "rebind", "index"} /\ editor[e].step = "resolved"
             \/ editor[e].kind \in {"script", "replace"} /\ editor[e].step = "written"
        BY <1>3 DEF LockProject
    <2>4. FilesTypeOK'
        BY <1>t, <2>1, <2>2, <2>3 DEF Does, FilesTypeOK
    <2>5. KindOfStep'
        BY <1>k, <2>1, <2>3 DEF Does, KindOfStep
    <2>6. /\ \A d \in Editors : InScript(d)' = InScript(d) /\ editor'[d].target = editor[d].target
          /\ \A d \in Editors \ {e} : InProject(d)' = InProject(d) /\ editor'[d] = editor[d]
          /\ ~InProject(e) /\ InProject(e)'
        BY <2>1, <2>3 DEF Does, InProject, InScript
    <2>7. ProjectHeld'
        BY <1>k, <1>t, <2>3, <2>6 DEF ProjectHeld, FilesTypeOK
    <2>8. ScriptHeld'
        BY <1>k, <2>2, <2>6 DEF ScriptHeld
    <2>9. FreshRead'
        BY <1>k, <2>1, <2>2, <2>3 DEF FreshRead, Does, InProject
    <2> QED
        BY <1>k, <2>2, <2>4, <2>5, <2>7, <2>8, <2>9 DEF FilesInv, Landing
<1>4. ASSUME NEW e \in Editors, SaveProject(e) PROVE FilesInv'
    <2>1. GoesTo(e, "done")
        BY <1>4, <1>t, StepGoes DEF SaveProject, EditSteps
    <2>2. UNCHANGED <<scripts, astray, editFaults>>
        BY <1>4 DEF SaveProject
    <2>3. /\ editor[e].step = "projectLocked" /\ InProject(e) /\ projectLock' = Nobody
          /\ scriptLock' = [f \in ScriptFiles |-> IF scriptLock[f] = e THEN Nobody ELSE scriptLock[f]]
        BY <1>4 DEF SaveProject, InProject
    <2>4. project' \in [edits : SUBSET Editors, bound : ScriptFiles]
          /\ project'.edits = project.edits \cup {e}
        <3>1. editor[e].edits = project.edits /\ editor[e].bound = project.bound
              /\ editor[e].target \in ScriptFiles
            BY <1>k, <2>3 DEF FreshRead, KindOfStep
        <3>2. BoundBy(e) \in ScriptFiles
            BY <1>t, <3>1 DEF BoundBy, FilesTypeOK
        <3> QED
            BY <1>4, <1>t, <3>1, <3>2 DEF SaveProject, FilesTypeOK
    <2>5. landed' \subseteq landed \cup {<<e, "project">>}
                    \cup (IF editor[e].kind \in {"script", "replace"}
                          THEN {<<e, editor[e].target>>} ELSE {})
        BY <1>4 DEF SaveProject
    <2>6. landed' \subseteq Editors \X ({"project"} \cup ScriptFiles)
        <3>1. editor[e].target \in ScriptFiles
            BY <1>k, <2>3 DEF KindOfStep
        <3> QED
            BY <1>t, <2>5, <3>1 DEF FilesTypeOK
    <2>7. FilesTypeOK'
        BY <1>t, <2>1, <2>2, <2>3, <2>4, <2>6 DEF GoesTo, Does, FilesTypeOK
    <2>8. KindOfStep'
        BY <1>k, <2>1, <2>3 DEF GoesTo, Does, KindOfStep
    <2>9. /\ \A d \in Editors \ {e} : /\ InProject(d)' = InProject(d) /\ editor'[d] = editor[d]
                                      /\ InScript(d)' = InScript(d) /\ ~InProject(d)
          /\ ~InScript(e)' /\ ~InProject(e)'
        <3>1. \A d \in Editors \ {e} : ~InProject(d)
            BY <1>k, <2>3, SoleEditor
        <3> QED
            BY <2>1, <3>1 DEF GoesTo, Does, InProject, InScript
    <2>10. ProjectHeld'
        BY <2>3, <2>9 DEF ProjectHeld
    <2>11. ScriptHeld'
        BY <1>k, <1>t, <2>3, <2>9 DEF ScriptHeld, FilesTypeOK
    <2>12. FreshRead'
        BY <1>k, <2>1, <2>2, <2>9 DEF FreshRead, GoesTo, Does, InProject
    <2>13. Landing'
        <3>1. editor[e].kind \in {"script", "replace"} => e \in scripts[editor[e].target]
            BY <1>k, <2>3 DEF FreshRead
        <3>2. editor[e].target \in ScriptFiles
            BY <1>k, <2>3 DEF KindOfStep
        <3> QED
            BY <1>k, <2>2, <2>4, <2>5, <3>1, <3>2 DEF Landing
    <2> QED
        BY <1>k, <2>2, <2>7, <2>8, <2>10, <2>11, <2>12, <2>13 DEF FilesInv
<1>5. ASSUME NEW e \in Editors, WriteScriptFile(e) PROVE FilesInv'
    <2> DEFINE f == editor[e].target
    <2>1. GoesTo(e, "written")
        BY <1>5, <1>t, StepGoes DEF WriteScriptFile, EditSteps
    <2>2. UNCHANGED <<project, projectLock, scriptLock, astray, editFaults>>
        BY <1>5 DEF WriteScriptFile
    <2>3. editor[e].step = "scriptLocked" /\ editor[e].kind \in {"script", "replace"}
        BY <1>5 DEF WriteScriptFile
    <2>4. f \in ScriptFiles /\ InScript(e) /\ ~InProject(e)
        BY <1>k, <2>3 DEF KindOfStep, InScript, InProject
    <2>5. scripts' = [scripts EXCEPT ![f] = editor[e].script \cup {e}]
        BY <1>5 DEF WriteScriptFile
    <2>6. landed' = IF editor[e].kind = "replace" THEN {x \in landed : x[2] # f} ELSE landed
        BY <1>5 DEF WriteScriptFile
    <2>7. FilesTypeOK'
        <3>1. landed' \subseteq Editors \X ({"project"} \cup ScriptFiles)
            BY <1>t, <2>6 DEF FilesTypeOK
        <3>2. scripts' \in [ScriptFiles -> SUBSET Editors]
            BY <1>t, <2>5 DEF FilesTypeOK, Edit
        <3> QED
            BY <1>t, <2>1, <2>2, <3>1, <3>2 DEF GoesTo, Does, FilesTypeOK
    <2>8. KindOfStep'
        BY <1>k, <2>1, <2>3 DEF GoesTo, Does, KindOfStep
    <2>9. \A d \in Editors : /\ InProject(d)' = InProject(d) /\ InScript(d)' = InScript(d)
                             /\ editor'[d].target = editor[d].target
        BY <2>1, <2>3, <2>4 DEF GoesTo, Does, InProject, InScript
    <2>10. ProjectHeld' /\ ScriptHeld'
        BY <1>k, <2>2, <2>9 DEF ProjectHeld, ScriptHeld
    <2>11. FreshRead'
        <3>1. \A d \in Editors \ {e} : InScript(d) => scripts'[editor[d].target]
                                                      = scripts[editor[d].target]
            BY <1>k, <1>t, <2>4, <2>5, SoleScriptEditor DEF FilesTypeOK
        <3>2. e \in scripts'[f]
            BY <1>t, <2>4, <2>5 DEF FilesTypeOK
        <3>3. \A d \in Editors \ {e} : editor[d].step = "bothLocked" => InScript(d)
            BY <1>k DEF KindOfStep, InScript
        <3> QED
            BY <1>k, <2>1, <2>2, <2>4, <3>1, <3>2, <3>3
            DEF FreshRead, GoesTo, Does, InProject, InScript
    <2>12. Landing'
        <3>1. CASE editor[e].kind = "replace"
            BY <1>k, <1>t, <2>2, <2>5, <2>6, <3>1 DEF Landing, FilesTypeOK
        <3>2. CASE editor[e].kind = "script"
            <4>1. editor[e].script = scripts[f]
                BY <1>k, <2>3, <3>2 DEF FreshRead
            <4> QED
                BY <1>k, <1>t, <2>2, <2>5, <2>6, <3>2, <4>1 DEF Landing, FilesTypeOK
        <3> QED
            BY <2>3, <3>1, <3>2
    <2> QED
        BY <1>k, <2>2, <2>7, <2>8, <2>10, <2>11, <2>12 DEF FilesInv
<1>6. ASSUME NEW e \in Editors, ResolveEpisode(e) PROVE FilesInv'
    <2>1. Does(e, "resolved", "episode", project.bound) /\ Keeps(e)
        <3>1. editor \in [Editors -> Edit] /\ editor[e] \in Edit /\ project.bound \in ScriptFiles
            BY <1>t DEF FilesTypeOK
        <3>2. editor' = [editor EXCEPT ![e] = [editor[e] EXCEPT !.kind = "episode", !.step = "resolved",
                                                               !.target = project.bound]]
            BY <1>6, <3>1 DEF ResolveEpisode
        <3> QED
            BY <3>1, <3>2 DEF Does, Keeps, Edit, EditSteps, Kinds
    <2>2. UNCHANGED <<project, scripts, projectLock, scriptLock, landed, astray, editFaults>>
        BY <1>6 DEF ResolveEpisode
    <2>3. editor[e].step = "start"
        BY <1>6 DEF ResolveEpisode
    <2>4. FilesTypeOK'
        BY <1>t, <2>1, <2>2 DEF Does, FilesTypeOK
    <2>5. KindOfStep'
        BY <1>k, <1>t, <2>1 DEF Does, KindOfStep, FilesTypeOK
    <2>6. \A d \in Editors : /\ InProject(d)' = InProject(d) /\ InScript(d)' = InScript(d)
                             /\ InScript(d) => editor'[d] = editor[d]
        BY <2>1, <2>3 DEF Does, InProject, InScript
    <2>7. ProjectHeld' /\ ScriptHeld'
        BY <1>k, <2>2, <2>6 DEF ProjectHeld, ScriptHeld
    <2>8. FreshRead'
        BY <1>k, <2>1, <2>2, <2>3 DEF FreshRead, Does, InProject
    <2> QED
        BY <1>k, <2>2, <2>4, <2>5, <2>7, <2>8 DEF FilesInv, Landing
<1>7. ASSUME NEW e \in Editors, LockEpisodeScript(e) PROVE FilesInv'
    <2> DEFINE f == editor[e].target
    <2>1. GoesTo(e, "scriptLocked")
        BY <1>7, <1>t, StepGoes DEF LockEpisodeScript, EditSteps
    <2>2. UNCHANGED <<project, scripts, projectLock, landed, astray, editFaults>>
        BY <1>7 DEF LockEpisodeScript
    <2>3. /\ editor[e].step = "resolved" /\ editor[e].kind = "episode"
          /\ scriptLock[f] = Nobody /\ scriptLock' = [scriptLock EXCEPT ![f] = e]
        BY <1>7 DEF LockEpisodeScript, Holding
    <2>4. f \in ScriptFiles
        BY <1>k, <2>3 DEF KindOfStep
    <2>5. FilesTypeOK'
        BY <1>t, <2>1, <2>2, <2>3 DEF GoesTo, Does, FilesTypeOK
    <2>6. KindOfStep'
        BY <1>k, <2>1, <2>3 DEF GoesTo, Does, KindOfStep
    <2>7. /\ \A d \in Editors : InProject(d)' = InProject(d)
          /\ \A d \in Editors \ {e} : InScript(d)' = InScript(d) /\ editor'[d] = editor[d]
          /\ ~InScript(e) /\ InScript(e)' /\ editor'[e].target = f
        BY <2>1, <2>3 DEF GoesTo, Does, InProject, InScript
    <2>8. ProjectHeld'
        BY <1>k, <2>2, <2>7 DEF ProjectHeld
    <2>9. ScriptHeld'
        BY <1>k, <1>t, <2>3, <2>4, <2>7 DEF ScriptHeld, FilesTypeOK
    <2>10. FreshRead'
        BY <1>k, <2>1, <2>2, <2>3 DEF FreshRead, GoesTo, Does, InProject
    <2> QED
        BY <1>k, <2>2, <2>5, <2>6, <2>8, <2>9, <2>10 DEF FilesInv, Landing
<1>8. ASSUME NEW e \in Editors, LockBoth(e) PROVE FilesInv'
    <2> DEFINE f == editor[e].target
    <2>1. /\ editor[e].step = "scriptLocked" /\ editor[e].kind = "episode"
          /\ projectLock = Nobody
          /\ UNCHANGED <<project, scripts, landed, astray, editFaults>>
        BY <1>8 DEF LockBoth, Holding
    <2>2. f \in ScriptFiles /\ InScript(e) /\ ~InProject(e)
        BY <1>k, <2>1 DEF KindOfStep, InScript, InProject
    <2>3. CASE project.bound = f
        <3>1. /\ Does(e, "bothLocked", "episode", f) /\ editor'[e].script = scripts[f]
              /\ editor'[e].edits = project.edits /\ editor'[e].bound = project.bound
            BY <1>8, <1>t, <2>1, <2>2, <2>3
            DEF LockBoth, Does, FilesTypeOK, Edit, EditSteps
        <3>2. projectLock' = e /\ scriptLock' = scriptLock
            BY <1>8, <2>3 DEF LockBoth
        <3>3. FilesTypeOK'
            BY <1>t, <2>1, <3>1, <3>2 DEF Does, FilesTypeOK
        <3>4. KindOfStep'
            BY <1>k, <2>2, <3>1 DEF Does, KindOfStep
        <3>5. /\ \A d \in Editors : InScript(d)' = InScript(d)
                                    /\ editor'[d].target = editor[d].target
              /\ \A d \in Editors \ {e} : InProject(d)' = InProject(d)
              /\ InProject(e)'
            BY <2>1, <2>2, <3>1 DEF Does, InProject, InScript
        <3>6. ProjectHeld'
            BY <1>k, <1>t, <2>1, <3>2, <3>5 DEF ProjectHeld, FilesTypeOK
        <3>7. ScriptHeld'
            BY <1>k, <3>2, <3>5 DEF ScriptHeld
        <3>8. FreshRead'
            BY <1>k, <2>1, <2>3, <3>1 DEF FreshRead, Does, InProject
        <3> QED
            BY <1>k, <2>1, <3>3, <3>4, <3>6, <3>7, <3>8 DEF FilesInv, Landing
    <2>4. CASE project.bound # f
        <3>1. GoesTo(e, "failed") /\ projectLock' = projectLock
              /\ scriptLock' = [scriptLock EXCEPT ![f] = Nobody]
            BY <1>8, <1>t, <2>4, StepGoes DEF LockBoth, EditSteps
        <3>2. FilesTypeOK'
            BY <1>t, <2>1, <3>1 DEF GoesTo, Does, FilesTypeOK
        <3>3. KindOfStep'
            BY <1>k, <2>2, <3>1 DEF GoesTo, Does, KindOfStep
        <3>4. /\ \A d \in Editors : InProject(d)' = InProject(d)
              /\ \A d \in Editors \ {e} : InScript(d)' = InScript(d) /\ editor'[d] = editor[d]
              /\ ~InScript(e)'
            BY <2>2, <3>1 DEF GoesTo, Does, InProject, InScript
        <3>5. ProjectHeld'
            BY <1>k, <3>1, <3>4 DEF ProjectHeld
        <3>6. scriptLock[f] = e
            BY <1>k, <2>2 DEF ScriptHeld
        <3>7. ScriptHeld'
            BY <1>k, <1>t, <2>2, <3>1, <3>4, <3>6 DEF ScriptHeld, FilesTypeOK
        <3>8. FreshRead'
            BY <1>k, <2>1, <3>1 DEF FreshRead, GoesTo, Does, InProject
        <3> QED
            BY <1>k, <2>1, <3>2, <3>3, <3>5, <3>7, <3>8 DEF FilesInv, Landing
    <2> QED
        BY <2>3, <2>4
<1>9. ASSUME NEW e \in Editors, WriteEpisodeScript(e) PROVE FilesInv'
    <2> DEFINE f == editor[e].target
    <2>1. GoesTo(e, "projectLocked")
        BY <1>9, <1>t, StepGoes DEF WriteEpisodeScript, EditSteps
    <2>2. UNCHANGED <<project, projectLock, scriptLock, editFaults>>
        BY <1>9 DEF WriteEpisodeScript
    <2>3. /\ editor[e].step = "bothLocked" /\ editor[e].kind = "episode"
          /\ scripts' = [scripts EXCEPT ![f] = editor[e].script \cup {e}]
          /\ landed' = landed \cup {<<e, f>>}
        BY <1>9 DEF WriteEpisodeScript, Holding
    <2>4. /\ f \in ScriptFiles /\ InScript(e) /\ InProject(e)
          /\ editor[e].script = scripts[f] /\ project.bound = f
        BY <1>k, <2>3 DEF KindOfStep, FreshRead, InScript, InProject
    <2>5. FilesTypeOK' /\ astray' = {}
        <3>1. landed' \subseteq Editors \X ({"project"} \cup ScriptFiles)
            BY <1>t, <2>3, <2>4 DEF FilesTypeOK
        <3>2. scripts' \in [ScriptFiles -> SUBSET Editors]
            BY <1>t, <2>3 DEF FilesTypeOK, Edit
        <3>3. astray' = astray
            BY <1>9, <2>4 DEF WriteEpisodeScript
        <3> QED
            BY <1>k, <1>t, <2>1, <2>2, <3>1, <3>2, <3>3 DEF GoesTo, Does, FilesTypeOK
    <2>6. KindOfStep'
        BY <1>k, <2>1, <2>3 DEF GoesTo, Does, KindOfStep
    <2>7. \A d \in Editors : /\ InProject(d)' = InProject(d) /\ InScript(d)' = InScript(d)
                             /\ editor'[d].target = editor[d].target
        BY <2>1, <2>3 DEF GoesTo, Does, InProject, InScript
    <2>8. ProjectHeld' /\ ScriptHeld'
        BY <1>k, <2>2, <2>7 DEF ProjectHeld, ScriptHeld
    <2>9. FreshRead'
        <3>1. \A d \in Editors \ {e} : ~InProject(d)
            BY <1>k, <2>4, SoleEditor
        <3>2. \A d \in Editors \ {e} : InScript(d) => scripts'[editor[d].target]
                                                      = scripts[editor[d].target]
            BY <1>k, <1>t, <2>3, <2>4, SoleScriptEditor DEF FilesTypeOK
        <3> SUFFICES ASSUME NEW d \in Editors
                     PROVE  FreshRead!(d)'
            BY DEF FreshRead
        <3>3. CASE d = e
            BY <1>k, <2>1, <2>2, <2>3, <2>4, <3>3 DEF FreshRead, GoesTo, Does, Keeps
        <3>4. CASE d # e
            BY <1>k, <2>1, <2>2, <3>1, <3>2, <3>4 DEF FreshRead, GoesTo, Does, InProject, InScript
        <3> QED
            BY <3>3, <3>4
    <2>10. Landing'
        BY <1>k, <1>t, <2>2, <2>3, <2>4 DEF Landing, FilesTypeOK
    <2> QED
        BY <2>5, <2>6, <2>8, <2>9, <2>10 DEF FilesInv
<1>10. ASSUME NEW e \in Editors, EditFails(e) PROVE FilesInv'
    <2>1. GoesTo(e, "failed")
        BY <1>10, <1>t, StepGoes DEF EditFails, EditSteps
    <2>2. UNCHANGED <<project, scripts, landed, astray>>
        BY <1>10 DEF EditFails
    <2>3. /\ editFaults' = editFaults + 1 /\ editFaults < MaxEditFaults
          /\ projectLock' = (IF projectLock = e THEN Nobody ELSE projectLock)
          /\ scriptLock' = [f \in ScriptFiles |-> IF scriptLock[f] = e THEN Nobody ELSE scriptLock[f]]
        BY <1>10 DEF EditFails
    <2>4. FilesTypeOK'
        BY <1>t, <2>1, <2>2, <2>3 DEF GoesTo, Does, FilesTypeOK
    <2>5. editor[e].step # "start"
        BY <1>10 DEF EditFails
    <2>6. KindOfStep'
        BY <1>k, <2>1, <2>5 DEF GoesTo, Does, KindOfStep
    <2>7. /\ \A d \in Editors \ {e} : /\ InProject(d)' = InProject(d)
                                      /\ InScript(d)' = InScript(d) /\ editor'[d] = editor[d]
          /\ ~InScript(e)' /\ ~InProject(e)'
        BY <2>1 DEF GoesTo, Does, InProject, InScript
    <2>8. ProjectHeld' /\ ScriptHeld'
        BY <1>k, <1>t, <2>3, <2>7 DEF ProjectHeld, ScriptHeld, FilesTypeOK
    <2>9. FreshRead'
        BY <1>k, <2>1, <2>2 DEF FreshRead, GoesTo, Does, InProject
    <2> QED
        BY <1>k, <2>2, <2>4, <2>6, <2>8, <2>9 DEF FilesInv, Landing
<1> QED
    BY <1>u, <1>1, <1>2, <1>3, <1>4, <1>5, <1>6, <1>7, <1>8, <1>9, <1>10
    DEF FilesNext, EditorActs

-----------------------------------------------------------------------------
\* Who holds the lock of project.json waits for nobody, and who holds a
\* script's lock waits for that lock only.
LEMMA NoRingFollows == FilesInv => NoRing
<1> SUFFICES ASSUME FilesInv, NEW e \in Editors, WaitsFor(e) # Nobody
             PROVE  WaitsFor(WaitsFor(e)) = Nobody \/ WaitsFor(WaitsFor(WaitsFor(e))) = Nobody
    BY DEF NoRing
<1>1. \A d \in Editors : InProject(d) => WaitsFor(d) = Nobody
    BY DEF WaitsFor, InProject, Holding
<1>2. projectLock # Nobody => projectLock \in Editors /\ WaitsFor(projectLock) = Nobody
    BY <1>1, FilesAssumption DEF FilesInv, FilesTypeOK, ProjectHeld
<1>3. \A d \in Editors : InScript(d) => WaitsFor(d) \in {Nobody, projectLock}
    BY DEF WaitsFor, InScript, Holding
<1>4. CASE WaitsFor(e) = projectLock
    BY <1>2, <1>4
<1>5. CASE WaitsFor(e) = scriptLock[editor[e].target] /\ editor[e].step = "resolved"
    <2>1. editor[e].target \in ScriptFiles
        BY <1>5 DEF FilesInv, KindOfStep
    <2>2. WaitsFor(e) \in Editors
        BY <1>5, <2>1 DEF FilesInv, FilesTypeOK
    <2>3. InScript(WaitsFor(e))
        BY <1>5, <2>1, <2>2 DEF FilesInv, ScriptHeld
    <2> QED
        BY <1>2, <1>3, <2>2, <2>3
<1> QED
    BY <1>4, <1>5 DEF WaitsFor, Holding

\* The editors keep the types of the files, the locks and their own records.
THEOREM FilesTypeCorrect == FilesSpec => []FilesTypeOK
<1>1. FilesInv => FilesTypeOK
    BY DEF FilesInv
<1> QED
    BY <1>1, FilesInvInit, FilesInvStep, PTL DEF FilesSpec

\* An edit of project.json or of a script that was reported as done stays in
\* the file whoever else writes it; an edit of an episode goes to the script
\* the episode is bound to; locked_episode_script and the index sync take
\* their locks in an order that admits no ring.
THEOREM EditsAreKept == FilesSpec => []NoEditIsLost
<1>1. FilesInv => NoEditIsLost
    BY NoRingFollows DEF FilesInv, NoEditIsLost, Landing, NoRing
<1> QED
    BY <1>1, FilesInvInit, FilesInvStep, PTL DEF FilesSpec

-----------------------------------------------------------------------------
(* ProjectAssets.  AssetsTypeOK, by variable; what fits what.              *)

EntriesOK == DOMAIN entries \subseteq Assets /\ \A a \in DOMAIN entries : entries[a] \in Entry
DiskOK == DOMAIN disk \subseteq Paths /\ \A p \in DOMAIN disk : disk[p] \in Pictures
HistOK == hist \in [Assets -> [listed : SUBSET (1..MaxAssetVersions), current : 0..MaxAssetVersions]]
RowsOK == DOMAIN rows \subseteq Pictures /\ \A x \in DOMAIN rows : rows[x] \in Row
ShelfOK == DOMAIN shelf \subseteq Pictures /\ \A f \in DOMAIN shelf : shelf[f] \in ShelfFile
WorkOK == work \in [AssetRequests -> Request \cup {Unused}]
TallyOK == tally \in [faults : 0..MaxAssetFaults, edits : 0..MaxAssetEdits]
SettledOK == settled \in [Assets -> SUBSET Pictures] /\ stale \in [Assets -> SUBSET Pictures]
AsideOK == rowless \subseteq Pictures /\ torn \subseteq Pictures /\ lost \subseteq Paths

\* The path a request of each kind has.
Fitting(op, a, path) ==
  /\ op \in {"design", "restore"} => path = Png(a)
  /\ op = "upload" => path \in Paths /\ path[1] = a /\ path[2] \in {"sheet", "ref"}
  /\ op = "original" => path \in Paths /\ path[1] = a /\ path[2] \in ToSet(OriginalPlaces)
  /\ op = "apply" /\ path # NoPath => path[1] = a /\ path[2] = "sheet"
PathsFit == \A r \in AssetRequests : work[r] # Unused => Fitting(work[r].op, work[r].asset, work[r].path)

\* What a request of the library is about.
Shared(op, a, row) == (op \in {"create", "share"} => a \in Shareable) /\ (op = "create" => row = NoRow)
LibraryFits == \A r \in AssetRequests : work[r] # Unused => Shared(work[r].op, work[r].asset, work[r].row)

\* The versions of an asset are numbered through.
ListedFromOne == \A a \in Assets : \E k \in 0..MaxAssetVersions : hist[a].listed = 1..k

LEMMA AssetsTypeParts ==
  AssetsTypeOK <=> /\ EntriesOK /\ DiskOK /\ HistOK /\ RowsOK /\ ShelfOK /\ WorkOK
                   /\ TallyOK /\ SettledOK /\ AsideOK
BY DEF AssetsTypeOK, EntriesOK, DiskOK, HistOK, RowsOK, ShelfOK, WorkOK, TallyOK, SettledOK, AsideOK

LEMMA PutFacts ==
  ASSUME NEW f, NEW i, NEW v
  PROVE  /\ DOMAIN Plus(f, i, v) = DOMAIN f \cup {i}
         /\ Plus(f, i, v)[i] = v
         /\ \A j \in DOMAIN f : j # i => Plus(f, i, v)[j] = f[j]
BY DEF Plus

LEMMA DropFacts ==
  ASSUME NEW f, NEW i
  PROVE  /\ DOMAIN Drop(f, i) = DOMAIN f \ {i}
         /\ \A j \in DOMAIN Drop(f, i) : Drop(f, i)[j] = f[j]
BY DEF Drop

LEMMA PlacesFacts ==
  /\ \A n \in 1..4 : VersionPlaces[n] \in Places /\ VersionPlaces[n] \in ToSet(VersionPlaces)
  /\ \A n \in 1..3 : OriginalPlaces[n] \in Places /\ OriginalPlaces[n] \in ToSet(OriginalPlaces)
  /\ ToSet(VersionPlaces) = {VersionPlaces[n] : n \in 1..4}
  /\ ToSet(OriginalPlaces) = {OriginalPlaces[n] : n \in 1..3}
  /\ {"sheet", "ref"} \subseteq Places
  /\ DOMAIN VersionPlaces = 1..4 /\ DOMAIN OriginalPlaces = 1..3 /\ Len(VersionPlaces) = 4
<1>1. DOMAIN VersionPlaces = 1..4 /\ DOMAIN OriginalPlaces = 1..3 /\ Len(VersionPlaces) = 4
  BY DEF VersionPlaces, OriginalPlaces
<1>2. ToSet(VersionPlaces) = {VersionPlaces[n] : n \in 1..4} /\ ToSet(OriginalPlaces) = {OriginalPlaces[n] : n \in 1..3}
  BY <1>1 DEF ToSet
<1> QED BY <1>1, <1>2 DEF Places

LEMMA DistinctPlaces ==
  /\ "sheet" \notin ToSet(VersionPlaces) /\ "ref" \notin ToSet(VersionPlaces)
  /\ "sheet" \notin ToSet(OriginalPlaces)
  /\ ToSet(VersionPlaces) \cap ToSet(OriginalPlaces) = {}
  /\ \A m, n \in 1..4 : VersionPlaces[m] = VersionPlaces[n] => m = n
<1>1. \A n \in 1..4 : VersionPlaces[n] \notin {"sheet", "ref", "original1", "original2", "original3"}
  BY DEF VersionPlaces
<1>2. \A n \in 1..3 : OriginalPlaces[n] \in {"original1", "original2", "original3"}
  BY DEF OriginalPlaces
<1>3. \A m, n \in 1..4 : VersionPlaces[m] = VersionPlaces[n] => m = n
  BY DEF VersionPlaces
<1> QED BY <1>1, <1>2, <1>3, PlacesFacts

LEMMA PathFacts ==
  /\ \A a \in Assets, place \in Places, ext \in Exts :
       /\ <<a, place, ext>> \in Paths /\ <<a, place, ext>> # NoPath
       /\ <<a, place, ext>>[1] = a /\ <<a, place, ext>>[2] = place
  /\ \A p \in Paths : /\ p[1] \in Assets /\ p[2] \in Places /\ p[3] \in Exts
                      /\ p # NoPath /\ p = <<p[1], p[2], p[3]>>
BY DEF Paths, NoPath

LEMMA PngFacts ==
  ASSUME NEW a \in Assets
  PROVE  /\ Png(a) \in Paths /\ Png(a)[1] = a /\ Png(a)[2] = "sheet" /\ Png(a) # NoPath
         /\ \A n \in 1..4 : /\ VersionPath(a, n) \in Paths /\ VersionPath(a, n)[1] = a
                            /\ VersionPath(a, n)[2] = VersionPlaces[n]
                            /\ VersionPath(a, n)[2] \in ToSet(VersionPlaces)
                            /\ VersionPath(a, n) # Png(a)
<1>1. "png" \in Exts BY DEF Exts
<1>2. \A n \in 1..4 : VersionPath(a, n) = <<a, VersionPlaces[n], "png">> BY DEF VersionPath
<1>3. Png(a) = <<a, "sheet", "png">> BY DEF Png
<1>4. Png(a) \in Paths /\ Png(a)[1] = a /\ Png(a)[2] = "sheet" /\ Png(a) # NoPath
  BY <1>1, <1>3, PathFacts, PlacesFacts
<1>5. ASSUME NEW n \in 1..4
      PROVE  /\ VersionPath(a, n) \in Paths /\ VersionPath(a, n)[1] = a
             /\ VersionPath(a, n)[2] = VersionPlaces[n]
             /\ VersionPath(a, n)[2] \in ToSet(VersionPlaces)
             /\ VersionPath(a, n) # Png(a)
  <2>1. VersionPlaces[n] \in Places BY PlacesFacts
  <2>2. VersionPath(a, n) \in Paths /\ VersionPath(a, n)[1] = a /\ VersionPath(a, n)[2] = VersionPlaces[n]
    BY <1>1, <1>2, <2>1, PathFacts
  <2>3. VersionPath(a, n)[2] # "sheet" BY <2>2, DistinctPlaces, PlacesFacts
  <2> QED BY <2>2, <2>3, <1>4, PlacesFacts
<1> QED BY <1>4, <1>5

-----------------------------------------------------------------------------
(* What the steps do to the requests.                                      *)

Ops == {"upload", "original", "design", "restore", "create", "remove", "replace", "share", "apply"}
Stages == {"begun", "saved", "committed", "ended", "failed"}

LEMMA RequestFields ==
  ASSUME NEW q \in Request
  PROVE  /\ q.op \in Ops /\ q.at \in Stages /\ q.asset \in Assets /\ q.path \in Paths \cup {NoPath}
         /\ q.row \in Pictures \cup {NoRow} /\ q.was \in Pictures \cup {NoRow}
         /\ q.of \in Pictures /\ q.before \subseteq Pictures /\ q # Unused
BY DEF Request, Ops, Stages, Unused

LEMMA UnusedFields == Unused.op = "none" /\ Unused.at = "unused"
BY DEF Unused

LEMMA NewRequestFields ==
  ASSUME NEW op \in Ops, NEW at \in Stages, NEW a \in Assets, NEW path \in Paths \cup {NoPath},
         NEW row \in Pictures \cup {NoRow}, NEW was \in Pictures \cup {NoRow}, NEW of \in Pictures, SettledOK
  PROVE  LET q == NewRequest(op, at, a, path, row, was, of)
         IN  /\ q \in Request
             /\ q.op = op /\ q.at = at /\ q.asset = a /\ q.path = path /\ q.row = row /\ q.was = was
             /\ q.of = of /\ q.before = settled[a]
<1>1. settled[a] \in SUBSET Pictures BY DEF SettledOK
<1> QED BY <1>1 DEF NewRequest, Request, Ops, Stages

\* Nothing but the pictures that were there before changes.
Still(w) ==
  /\ work'[w].op = work[w].op /\ work'[w].at = work[w].at /\ work'[w].asset = work[w].asset
  /\ work'[w].path = work[w].path /\ work'[w].row = work[w].row /\ work'[w].was = work[w].was
  /\ work'[w].of = work[w].of

BeganAs(r, op, at, a, path, row, was, of) ==
  /\ work[r] = Unused /\ work'[r] \in Request
  /\ work'[r].op = op /\ work'[r].at = at /\ work'[r].asset = a /\ work'[r].path = path
  /\ work'[r].row = row /\ work'[r].was = was /\ work'[r].of = of /\ work'[r].before = settled[a]
  /\ \A w \in AssetRequests : w # r => work'[w] = work[w]

LEMMA BeginFacts ==
  ASSUME WorkOK, SettledOK, NEW r \in AssetRequests,
         NEW op \in Ops, NEW at \in Stages, NEW a \in Assets, NEW path \in Paths \cup {NoPath},
         NEW row \in Pictures \cup {NoRow}, NEW was \in Pictures \cup {NoRow}, NEW of \in Pictures,
         Begin(r, op, at, a, path, row, was, of)
  PROVE  WorkOK' /\ BeganAs(r, op, at, a, path, row, was, of)
<1> DEFINE q == NewRequest(op, at, a, path, row, was, of)
<1>1. /\ q \in Request
      /\ q.op = op /\ q.at = at /\ q.asset = a /\ q.path = path /\ q.row = row /\ q.was = was
      /\ q.of = of /\ q.before = settled[a]
  <2>1. settled[a] \in SUBSET Pictures BY DEF SettledOK
  <2> QED BY <2>1 DEF NewRequest, Request, Ops, Stages
<1>2. work' = [work EXCEPT ![r] = q] /\ work[r] = Unused BY DEF Begin, MayBegin
<1> HIDE DEF q
<1> QED BY <1>1, <1>2 DEF WorkOK, BeganAs

LEMMA AtFields ==
  ASSUME NEW q \in Request, NEW at \in Stages
  PROVE  /\ [q EXCEPT !.at = at] \in Request /\ [q EXCEPT !.at = at].at = at
         /\ [q EXCEPT !.at = at].op = q.op /\ [q EXCEPT !.at = at].asset = q.asset
         /\ [q EXCEPT !.at = at].path = q.path /\ [q EXCEPT !.at = at].row = q.row
         /\ [q EXCEPT !.at = at].was = q.was /\ [q EXCEPT !.at = at].of = q.of
         /\ [q EXCEPT !.at = at].before = q.before
BY DEF Request, Stages

\* r goes on to a stage, as it is.
GoesOn(r, at) ==
  /\ work'[r] \in Request /\ work'[r].at = at
  /\ work'[r].op = work[r].op /\ work'[r].asset = work[r].asset
  /\ work'[r].path = work[r].path /\ work'[r].row = work[r].row /\ work'[r].was = work[r].was
  /\ work'[r].of = work[r].of /\ work'[r].before = work[r].before

LEMMA GoesFacts ==
  ASSUME WorkOK, NEW r \in AssetRequests, work[r] \in Request, NEW at \in Stages, Goes(r, at)
  PROVE  /\ WorkOK' /\ GoesOn(r, at)
         /\ \A w \in AssetRequests : w # r => work'[w] = work[w]
<1> DEFINE q == [work[r] EXCEPT !.at = at]
<1>1. work' = [work EXCEPT ![r] = q] BY DEF Goes
<1>2. /\ q \in Request /\ q.at = at /\ q.op = work[r].op /\ q.asset = work[r].asset /\ q.path = work[r].path
      /\ q.row = work[r].row /\ q.was = work[r].was /\ q.of = work[r].of /\ q.before = work[r].before
  BY AtFields
<1> HIDE DEF q
<1>3. work'[r] = q /\ \A w \in AssetRequests : w # r => work'[w] = work[w] BY <1>1 DEF WorkOK
<1>4. WorkOK' BY <1>1, <1>2 DEF WorkOK
<1> QED BY <1>2, <1>3, <1>4 DEF GoesOn

LEMMA BeforeFields ==
  ASSUME NEW q \in Request, NEW picture
  PROVE  LET o == [q EXCEPT !.before = q.before \ {picture}]
         IN  /\ o \in Request /\ o.before = q.before \ {picture} /\ o.op = q.op /\ o.at = q.at
             /\ o.asset = q.asset /\ o.path = q.path /\ o.row = q.row /\ o.was = q.was /\ o.of = q.of
<1>1. q.before \ {picture} \in SUBSET Pictures BY RequestFields
<1> HIDE <1>1
<1> DEFINE b == q.before \ {picture}
<1>2. b \in SUBSET Pictures BY <1>1
<1> HIDE DEF b
<1>3. LET o == [q EXCEPT !.before = b]
         IN  /\ o \in Request /\ o.before = b /\ o.op = q.op /\ o.at = q.at
             /\ o.asset = q.asset /\ o.path = q.path /\ o.row = q.row /\ o.was = q.was /\ o.of = q.of
  BY <1>2 DEF Request
<1> QED BY <1>3 DEF b

LEMMA OutlivesFacts ==
  ASSUME WorkOK, NEW w \in AssetRequests, NEW a, NEW picture
  PROVE  LET o == Outlives(picture, a, w)
         IN  /\ work[w] = Unused => o = Unused
             /\ work[w] # Unused =>
                  /\ o \in Request /\ o.op = work[w].op /\ o.at = work[w].at /\ o.asset = work[w].asset
                  /\ o.path = work[w].path /\ o.row = work[w].row /\ o.was = work[w].was /\ o.of = work[w].of
                  /\ o.before \subseteq work[w].before
                  /\ AtWork(w, a) => o.before = work[w].before \ {picture}
<1>1. CASE work[w] = Unused BY <1>1, UnusedFields DEF Outlives, AtWork
<1>2. CASE work[w] # Unused
  <2>1. work[w] \in Request BY <1>2 DEF WorkOK
  <2>2. CASE AtWork(w, a) BY <1>2, <2>1, <2>2, BeforeFields DEF Outlives
  <2>3. CASE ~AtWork(w, a) BY <1>2, <2>1, <2>3 DEF Outlives
  <2> QED BY <2>2, <2>3
<1> QED BY <1>1, <1>2

Lives(w, a, picture) ==
  /\ work[w] = Unused => work'[w] = Unused
  /\ work[w] # Unused =>
       /\ work'[w] \in Request /\ Still(w) /\ work'[w].before \subseteq work[w].before
       /\ AtWork(w, a) => work'[w].before = work[w].before \ {picture}

LEMMA ShowsFacts ==
  ASSUME WorkOK, NEW r \in AssetRequests, NEW q \in Request, NEW picture, Shows(r, q, picture)
  PROVE  /\ WorkOK' /\ work'[r] = q
         /\ \A w \in AssetRequests : w # r => Lives(w, q.asset, picture)
<1>1. ASSUME NEW w \in AssetRequests, w # r PROVE work'[w] = Outlives(picture, q.asset, w)
  BY <1>1 DEF Shows
<1>2. work'[r] = q BY DEF Shows
<1>3. ASSUME NEW w \in AssetRequests, w # r PROVE Lives(w, q.asset, picture)
  <2>1. work'[w] = Outlives(picture, q.asset, w) BY <1>1, <1>3
  <2> QED BY <2>1, OutlivesFacts DEF Lives, Still
<1>4. ASSUME NEW w \in AssetRequests PROVE work'[w] \in Request \cup {Unused}
  BY <1>2, <1>3 DEF Lives
<1>5. work' = [w \in AssetRequests |-> work'[w]] BY DEF Shows
<1>6. WorkOK' BY <1>4, <1>5 DEF WorkOK
<1> QED BY <1>2, <1>3, <1>6

LEMMA NextAfter ==
  ASSUME NEW a, NEW k \in Nat, hist[a].listed = 1..k
  PROVE  NextVersion(a) = k + 1
<1> DEFINE S == hist[a].listed \cup {0}
<1>1. S = 0..k OBVIOUS
<1>2. k \in S /\ \A y \in S : k >= y BY <1>1
<1>3. \A x \in S : (\A y \in S : x >= y) => x = k
  <2> SUFFICES ASSUME NEW x \in S, \A y \in S : x >= y PROVE x = k OBVIOUS
  <2>1. x >= k /\ k >= x BY <1>2
  <2>2. x \in Nat BY <1>1
  <2> QED BY <2>1, <2>2
<1> HIDE DEF S
<1>4. (CHOOSE x \in S : \A y \in S : x >= y) = k BY <1>2, <1>3
<1>5. Max(S) = k BY <1>4 DEF Max
<1> QED BY <1>5 DEF NextVersion, S

-----------------------------------------------------------------------------
(* Types.                                                                  *)

LEMMA EntryFields ==
  ASSUME NEW e \in Entry
  PROVE  /\ e.sheet \in Paths \cup {NoPath} /\ e.ref \in Paths \cup {NoPath}
         /\ e.extra \subseteq Paths /\ e.described \in BOOLEAN
BY DEF Entry

LEMMA EntryEdits ==
  ASSUME NEW e \in Entry
  PROVE  /\ \A p \in Paths \cup {NoPath} :
              /\ [e EXCEPT !.sheet = p] \in Entry /\ [e EXCEPT !.sheet = p].sheet = p
              /\ [e EXCEPT !.ref = p] \in Entry /\ [e EXCEPT !.ref = p].sheet = e.sheet
         /\ \A X \in SUBSET Paths : [e EXCEPT !.extra = X] \in Entry /\ [e EXCEPT !.extra = X].sheet = e.sheet
         /\ \A b \in BOOLEAN : [e EXCEPT !.described = b] \in Entry /\ [e EXCEPT !.described = b].sheet = e.sheet
BY DEF Entry

LEMMA NewEntryFields ==
  ASSUME NEW b \in BOOLEAN
  PROVE  NewEntry(b) \in Entry /\ NewEntry(b).sheet = NoPath
BY DEF NewEntry, Entry

LEMMA PutEntry ==
  ASSUME EntriesOK, NEW a \in Assets, NEW e \in Entry, entries' = Plus(entries, a, e)
  PROVE  EntriesOK'
<1>1. DOMAIN entries' = DOMAIN entries \cup {a} /\ entries'[a] = e
      /\ \A b \in DOMAIN entries : b # a => entries'[b] = entries[b]
  BY DEF Plus
<1> QED BY <1>1 DEF EntriesOK

LEMMA EditEntry ==
  ASSUME EntriesOK, NEW a \in DOMAIN entries, NEW e \in Entry, entries' = [entries EXCEPT ![a] = e]
  PROVE  EntriesOK'
BY DEF EntriesOK

LEMMA PutDisk ==
  ASSUME DiskOK, NEW p \in Paths, NEW v \in Pictures, disk' = Plus(disk, p, v)
  PROVE  DiskOK'
<1>1. DOMAIN disk' = DOMAIN disk \cup {p} /\ disk'[p] = v
      /\ \A b \in DOMAIN disk : b # p => disk'[b] = disk[b]
  BY DEF Plus
<1> QED BY <1>1 DEF DiskOK

LEMMA DropDisk ==
  ASSUME DiskOK, NEW p, disk' = Drop(disk, p)
  PROVE  DiskOK'
BY DropFacts DEF DiskOK

LEMMA PutRow ==
  ASSUME RowsOK, NEW x \in Pictures, NEW v \in Row, rows' = Plus(rows, x, v)
  PROVE  RowsOK'
<1>1. DOMAIN rows' = DOMAIN rows \cup {x} /\ rows'[x] = v
      /\ \A y \in DOMAIN rows : y # x => rows'[y] = rows[y]
  BY DEF Plus
<1> QED BY <1>1 DEF RowsOK

LEMMA PutShelf ==
  ASSUME ShelfOK, NEW x \in Pictures, NEW v \in ShelfFile, shelf' = Plus(shelf, x, v)
  PROVE  ShelfOK'
<1>1. DOMAIN shelf' = DOMAIN shelf \cup {x} /\ shelf'[x] = v
      /\ \A y \in DOMAIN shelf : y # x => shelf'[y] = shelf[y]
  BY DEF Plus
<1> QED BY <1>1 DEF ShelfOK

LEMMA DropShelf ==
  ASSUME ShelfOK, NEW x, shelf' = Drop(shelf, x)
  PROVE  ShelfOK'
BY DropFacts DEF ShelfOK

LEMMA SettlesType ==
  ASSUME SettledOK, NEW a \in Assets, NEW picture \in Pictures, NEW before \in SUBSET Pictures,
         Settles(a, picture, before)
  PROVE  SettledOK' /\ lost' = lost
<1> DEFINE S == settled[a] \cup {picture}
           T == ((stale[a] \ (settled[a] \ before)) \cup before) \ {picture}
<1>1. settled' = [settled EXCEPT ![a] = S] /\ stale' = [stale EXCEPT ![a] = T] BY DEF Settles
<1>2. S \in SUBSET Pictures /\ T \in SUBSET Pictures BY DEF SettledOK
<1> HIDE DEF S, T
<1> QED BY <1>1, <1>2 DEF SettledOK, Settles

LEMMA PutsBackType ==
  ASSUME WorkOK, SettledOK, NEW r \in AssetRequests, NEW q \in Request, PutsBack(r, q)
  PROVE  /\ WorkOK' /\ SettledOK' /\ lost' = lost /\ settled' = settled
         /\ stale' = [stale EXCEPT ![q.asset] = stale[q.asset] \ {q.of}]
<1>1. stale' = [stale EXCEPT ![q.asset] = stale[q.asset] \ {q.of}] /\ settled' = settled /\ lost' = lost
  BY DEF PutsBack
<1>2. WorkOK' BY ShowsFacts DEF PutsBack
<1>3. stale[q.asset] \ {q.of} \in SUBSET Pictures BY RequestFields DEF SettledOK
<1>4. SettledOK' BY <1>1, <1>3, RequestFields DEF SettledOK
<1> QED BY <1>1, <1>2, <1>4

LEMMA RecordsType ==
  ASSUME AssetsTypeOK, NEW r \in AssetRequests, work[r] \in Request, NEW path \in Paths \cup {NoPath},
         NEW at \in Stages, Records(r, path, at)
  PROVE  EntriesOK' /\ WorkOK' /\ SettledOK' /\ lost' = lost
<1> USE AssetsTypeParts
<1> DEFINE q == work[r]
<1>1. CASE Registered(q.asset)
  <2>1. entries' = [entries EXCEPT ![q.asset].sheet = path] /\ Settles(q.asset, q.of, q.before)
        /\ Shows(r, [q EXCEPT !.at = "ended"], q.of)
    BY <1>1 DEF Records
  <2>2. q.asset \in DOMAIN entries BY <1>1 DEF Registered
  <2>3. [entries[q.asset] EXCEPT !.sheet = path] \in Entry BY <2>2, EntryEdits DEF EntriesOK
  <2>4. EntriesOK' BY <2>1, <2>2, <2>3, EditEntry
  <2>5. SettledOK' /\ lost' = lost BY <2>1, SettlesType, RequestFields
  <2>6. [q EXCEPT !.at = "ended"] \in Request BY AtFields DEF Stages
  <2>7. WorkOK' BY <2>1, <2>6, ShowsFacts
  <2> QED BY <2>4, <2>5, <2>7
<1>2. CASE ~Registered(q.asset)
  <2>1. Goes(r, at) /\ UNCHANGED <<entries, historyVars>> BY <1>2 DEF Records
  <2>2. WorkOK' BY <2>1, GoesFacts
  <2> QED BY <2>1, <2>2 DEF historyVars, EntriesOK, SettledOK
<1> QED BY <1>1, <1>2

LEMMA EditsType ==
  ASSUME TallyOK, Edits
  PROVE  TallyOK'
<1>1. tally.edits + 1 \in 0..MaxAssetEdits BY AssetsAssumption DEF TallyOK, Edits
<1> QED BY <1>1 DEF TallyOK, Edits

LEMMA FaultsType ==
  ASSUME TallyOK, AssetFault
  PROVE  TallyOK'
<1>1. tally.faults + 1 \in 0..MaxAssetFaults BY AssetsAssumption DEF TallyOK, AssetFault
<1> QED BY <1>1 DEF TallyOK, AssetFault

\* What a step leaves alone keeps its type.
LEMMA RestType ==
  /\ EntriesOK /\ entries' = entries => EntriesOK'
  /\ DiskOK /\ disk' = disk => DiskOK'
  /\ HistOK /\ hist' = hist => HistOK'
  /\ RowsOK /\ rows' = rows => RowsOK'
  /\ ShelfOK /\ shelf' = shelf => ShelfOK'
  /\ WorkOK /\ work' = work => WorkOK'
  /\ TallyOK /\ tally' = tally => TallyOK'
  /\ SettledOK /\ settled' = settled /\ stale' = stale => SettledOK'
  /\ AsideOK /\ rowless' = rowless /\ torn' = torn /\ lost' = lost => AsideOK'
BY DEF EntriesOK, DiskOK, HistOK, RowsOK, ShelfOK, WorkOK, TallyOK, SettledOK, AsideOK

LEMMA TypeStep ==
  ASSUME AssetsTypeOK,
         EntriesOK' \/ entries' = entries, DiskOK' \/ disk' = disk, HistOK' \/ hist' = hist,
         RowsOK' \/ rows' = rows, ShelfOK' \/ shelf' = shelf, WorkOK' \/ work' = work,
         TallyOK' \/ tally' = tally, SettledOK' \/ (settled' = settled /\ stale' = stale),
         AsideOK' \/ (rowless' = rowless /\ torn' = torn /\ lost' = lost)
  PROVE  AssetsTypeOK'
<1>1. /\ EntriesOK' /\ DiskOK' /\ HistOK' /\ RowsOK' /\ ShelfOK' /\ WorkOK'
      /\ TallyOK' /\ SettledOK' /\ AsideOK'
  BY AssetsTypeParts, RestType
<1> QED BY <1>1 DEF AssetsTypeOK, EntriesOK, DiskOK, HistOK, RowsOK, ShelfOK, WorkOK, TallyOK, SettledOK, AsideOK

LEMMA AtWorkIsRequest ==
  ASSUME WorkOK, NEW r \in AssetRequests, work[r].at # "unused"
  PROVE  work[r] \in Request
BY UnusedFields DEF WorkOK

LEMMA InitType == AssetsInit => AssetsTypeOK
<1> SUFFICES ASSUME AssetsInit PROVE AssetsTypeOK OBVIOUS
<1>1. PICK a \in Shareable :
        /\ entries = Plus(<<>>, a, NewEntry(TRUE))
        /\ \/ /\ rows = Plus(<<>>, FirstRow, [asset |-> a, image |-> FirstRow])
              /\ shelf = Plus(<<>>, FirstRow, [of |-> FirstRow, ext |-> "jpg"])
           \/ rows = <<>> /\ shelf = <<>>
  BY DEF AssetsInit
<1>0. DOMAIN <<>> = {} OBVIOUS
<1>2. a \in Assets /\ FirstRow \in Pictures BY DEF Shareable, Pictures
<1>3. EntriesOK
  <2>1. DOMAIN entries = {a} /\ entries[a] = NewEntry(TRUE) BY <1>0, <1>1 DEF Plus
  <2> QED BY <1>2, <2>1, NewEntryFields DEF EntriesOK
<1>4. RowsOK /\ ShelfOK
  <2>1. CASE rows = <<>> /\ shelf = <<>> BY <1>0, <2>1 DEF RowsOK, ShelfOK
  <2>2. CASE /\ rows = Plus(<<>>, FirstRow, [asset |-> a, image |-> FirstRow])
             /\ shelf = Plus(<<>>, FirstRow, [of |-> FirstRow, ext |-> "jpg"])
    <3>1. DOMAIN rows = {FirstRow} /\ rows[FirstRow] = [asset |-> a, image |-> FirstRow] BY <1>0, <2>2 DEF Plus
    <3>2. DOMAIN shelf = {FirstRow} /\ shelf[FirstRow] = [of |-> FirstRow, ext |-> "jpg"] BY <1>0, <2>2 DEF Plus
    <3>3. [asset |-> a, image |-> FirstRow] \in Row BY <1>2 DEF Row
    <3>4. [of |-> FirstRow, ext |-> "jpg"] \in ShelfFile BY <1>2 DEF ShelfFile, Exts
    <3>5. RowsOK BY <3>1, <3>3, <1>2 DEF RowsOK
    <3> QED BY <3>2, <3>4, <3>5, <1>2 DEF ShelfOK
  <2> QED BY <1>1, <2>1, <2>2
<1>5. DiskOK BY <1>0 DEF AssetsInit, DiskOK
<1>6. HistOK
  <2>1. {} \in SUBSET (1..MaxAssetVersions) /\ 0 \in 0..MaxAssetVersions BY AssetsAssumption, PlacesFacts
  <2> QED BY <2>1 DEF AssetsInit, HistOK
<1>7. WorkOK /\ TallyOK /\ SettledOK /\ AsideOK
  BY AssetsAssumption DEF AssetsInit, WorkOK, TallyOK, SettledOK, AsideOK
<1> QED BY <1>3, <1>4, <1>5, <1>6, <1>7, AssetsTypeParts

LEMMA EntryStepsType ==
  ASSUME AssetsTypeOK, NEW a \in Assets,
         AddEntry(a) \/ UpsertAssets(a) \/ UpdateEntry(a) \/ DeleteEntry(a)
  PROVE  AssetsTypeOK'
<1> USE AssetsTypeParts
<1>1. CASE AddEntry(a)
  <2>1. PICK described \in BOOLEAN : entries' = Plus(entries, a, NewEntry(described)) BY <1>1 DEF AddEntry
  <2>2. EntriesOK' BY <2>1, NewEntryFields, PutEntry
  <2>3. TallyOK' BY <1>1, EditsType DEF AddEntry
  <2> QED BY <1>1, <2>2, <2>3, TypeStep DEF AddEntry, libraryVars, historyVars
<1>2. CASE UpsertAssets(a)
  <2>1. EntriesOK'
    <3>1. CASE Registered(a)
      <4>1. entries' = [entries EXCEPT ![a] = [entries[a] EXCEPT !.described = TRUE]]
        BY <1>2, <3>1 DEF UpsertAssets
      <4>2. a \in DOMAIN entries BY <3>1 DEF Registered
      <4>3. entries[a] \in Entry BY <4>2 DEF EntriesOK
      <4>4. TRUE \in BOOLEAN OBVIOUS
      <4>5. [entries[a] EXCEPT !.described = TRUE] \in Entry BY <4>3, <4>4, EntryEdits, Zenon
      <4> QED BY <4>1, <4>2, <4>5, EditEntry
    <3>2. CASE ~Registered(a)
      <4>1. entries' = Plus(entries, a, NewEntry(TRUE)) BY <1>2, <3>2 DEF UpsertAssets
      <4> QED BY <4>1, NewEntryFields, PutEntry
    <3> QED BY <3>1, <3>2
  <2>3. TallyOK' BY <1>2, EditsType DEF UpsertAssets
  <2> QED BY <1>2, <2>1, <2>3, TypeStep DEF UpsertAssets, libraryVars, historyVars
<1>3. CASE UpdateEntry(a)
  <2>0. a \in DOMAIN entries /\ entries[a] \in Entry BY <1>3 DEF UpdateEntry, Registered, EntriesOK
  <2>1. TallyOK' BY <1>3, EditsType DEF UpdateEntry
  <2>2. UNCHANGED <<disk, hist, libraryVars>> BY <1>3 DEF UpdateEntry
  <2>3. CASE /\ \/ \E described \in BOOLEAN : entries' = [entries EXCEPT ![a].described = described]
                \/ entries' = [entries EXCEPT ![a].sheet = NoPath]
             /\ UNCHANGED <<work, historyVars>>
    <3>1. CASE \E described \in BOOLEAN : entries' = [entries EXCEPT ![a].described = described]
      <4>1. PICK described \in BOOLEAN : entries' = [entries EXCEPT ![a].described = described] BY <3>1
      <4>2. [entries[a] EXCEPT !.described = described] \in Entry BY <2>0, EntryEdits, Zenon
      <4>3. EntriesOK' BY <2>0, <4>1, <4>2, EditEntry
      <4> QED BY <2>1, <2>2, <2>3, <4>3, TypeStep DEF libraryVars, historyVars
    <3>2. CASE entries' = [entries EXCEPT ![a].sheet = NoPath]
      <4>2. [entries[a] EXCEPT !.sheet = NoPath] \in Entry BY <2>0, EntryEdits
      <4>3. EntriesOK' BY <2>0, <3>2, <4>2, EditEntry
      <4> QED BY <2>1, <2>2, <2>3, <4>3, TypeStep DEF libraryVars, historyVars
    <3> QED BY <2>3, <3>1, <3>2
  <2>4. CASE \E p \in DOMAIN disk :
               /\ p[2] \in ToSet(VersionPlaces)
               /\ entries' = [entries EXCEPT ![a].sheet = p]
               /\ Settles(a, disk[p], settled[a])
               /\ work' = [w \in AssetRequests |-> Outlives(disk[p], a, w)]
    <3>1. PICK p \in DOMAIN disk :
               /\ entries' = [entries EXCEPT ![a].sheet = p]
               /\ Settles(a, disk[p], settled[a])
               /\ work' = [w \in AssetRequests |-> Outlives(disk[p], a, w)]
      BY <2>4
    <3>2. p \in Paths /\ disk[p] \in Pictures BY DEF DiskOK
    <3>3. [entries[a] EXCEPT !.sheet = p] \in Entry BY <2>0, <3>2, EntryEdits
    <3>4. EntriesOK' BY <2>0, <3>1, <3>3, EditEntry
    <3>5. settled[a] \in SUBSET Pictures BY DEF SettledOK
    <3>6. SettledOK' /\ lost' = lost BY <3>1, <3>2, <3>5, SettlesType
    <3>7. ASSUME NEW w \in AssetRequests PROVE Outlives(disk[p], a, w) \in Request \cup {Unused}
      BY OutlivesFacts DEF WorkOK
    <3>8. WorkOK' BY <3>1, <3>7 DEF WorkOK
    <3> QED BY <2>1, <2>2, <3>4, <3>6, <3>8, TypeStep DEF libraryVars
  <2> QED BY <1>3, <2>3, <2>4 DEF UpdateEntry
<1>4. CASE DeleteEntry(a)
  <2>1. EntriesOK' BY <1>4 DEF DeleteEntry, EntriesOK, Drop
  <2>2. SettledOK'
    <3>1. stale' = [stale EXCEPT ![a] = stale[a] \cup settled[a]] /\ settled' = settled BY <1>4 DEF DeleteEntry
    <3>2. stale[a] \cup settled[a] \in SUBSET Pictures BY DEF SettledOK
    <3> QED BY <3>1, <3>2 DEF SettledOK
  <2>3. TallyOK' BY <1>4, EditsType DEF DeleteEntry
  <2> QED BY <1>4, <2>1, <2>2, <2>3, TypeStep DEF DeleteEntry, libraryVars
<1> QED BY <1>1, <1>2, <1>3, <1>4

LEMMA UploadStepsType ==
  ASSUME AssetsTypeOK, PathsFit, NEW r \in AssetRequests, Uploads(r)
  PROVE  AssetsTypeOK'
<1> USE AssetsTypeParts
<1>0. r \in Pictures /\ NoRow \in Pictures \cup {NoRow} BY DEF Pictures
<1>1. CASE BeginUpload(r)
  <2>1. PICK a \in Assets, place \in {"sheet", "ref"}, ext \in Exts :
          /\ Begin(r, "upload", "saved", a, <<a, place, ext>>, NoRow, NoRow, r)
          /\ disk' = Plus(disk, <<a, place, ext>>, r)
    BY <1>1 DEF BeginUpload
  <2>2. <<a, place, ext>> \in Paths BY PathFacts, PlacesFacts
  <2>3. WorkOK' BY <1>0, <2>1, <2>2, BeginFacts DEF Ops, Stages
  <2>4. DiskOK' BY <1>0, <2>1, <2>2, PutDisk
  <2> QED BY <1>1, <2>3, <2>4, TypeStep DEF BeginUpload, libraryVars, historyVars
<1>2. CASE RecordUpload(r)
  <2>1. work[r] \in Request BY <1>2, AtWorkIsRequest DEF RecordUpload, Is
  <2>2. work[r].asset \in Assets /\ work[r].path \in Paths \cup {NoPath} BY <2>1, RequestFields
  <2>3. UNCHANGED <<disk, hist, tally, libraryVars>> BY <1>2 DEF RecordUpload
  <2>4. CASE work[r].path[2] = "sheet"
    <3>1. Records(r, work[r].path, "ended") BY <1>2, <2>4 DEF RecordUpload
    <3>2. EntriesOK' /\ WorkOK' /\ SettledOK' /\ lost' = lost BY <2>1, <2>2, <3>1, RecordsType DEF Stages
    <3> QED BY <2>3, <3>2, TypeStep DEF libraryVars
  <2>5. CASE work[r].path[2] # "sheet"
    <3>1. /\ entries' = IF Registered(work[r].asset) THEN [entries EXCEPT ![work[r].asset].ref = work[r].path]
                        ELSE entries
          /\ Goes(r, "ended") /\ UNCHANGED historyVars
      BY <1>2, <2>5 DEF RecordUpload
    <3>2. WorkOK' BY <2>1, <3>1, GoesFacts DEF Stages
    <3>3. EntriesOK'
      <4>1. CASE Registered(work[r].asset)
        <5>1. work[r].asset \in DOMAIN entries /\ entries[work[r].asset] \in Entry
          BY <4>1 DEF Registered, EntriesOK
        <5>2. [entries[work[r].asset] EXCEPT !.ref = work[r].path] \in Entry BY <5>1, <2>2, EntryEdits
        <5> QED BY <3>1, <4>1, <5>1, <5>2, EditEntry
      <4>2. CASE ~Registered(work[r].asset) BY <3>1, <4>2, RestType
      <4> QED BY <4>1, <4>2
    <3> QED BY <2>3, <3>1, <3>2, <3>3, TypeStep DEF libraryVars, historyVars
  <2> QED BY <2>4, <2>5
<1>3. CASE BeginOriginal(r)
  <2>1. PICK a \in DOMAIN entries, ext \in Exts, n \in DOMAIN OriginalPlaces :
          /\ Begin(r, "original", "saved", a, <<a, OriginalPlaces[n], ext>>, NoRow, NoRow, r)
          /\ disk' = Plus(disk, <<a, OriginalPlaces[n], ext>>, r)
    BY <1>3 DEF BeginOriginal
  <2>2. a \in Assets /\ <<a, OriginalPlaces[n], ext>> \in Paths BY PathFacts, PlacesFacts DEF EntriesOK
  <2>3. WorkOK' BY <1>0, <2>1, <2>2, BeginFacts DEF Ops, Stages
  <2>4. DiskOK' BY <1>0, <2>1, <2>2, PutDisk
  <2> QED BY <1>3, <2>3, <2>4, TypeStep DEF BeginOriginal, libraryVars, historyVars
<1>4. CASE RecordOriginal(r)
  <2>1. work[r] \in Request BY <1>4, AtWorkIsRequest DEF RecordOriginal, Is
  <2>2. work[r].asset \in Assets /\ work[r].path \in Paths \cup {NoPath} BY <2>1, RequestFields
  <2>3. UNCHANGED <<hist, tally, libraryVars, historyVars>> BY <1>4 DEF RecordOriginal
  <2>4. CASE Registered(work[r].asset)
    <3> DEFINE a == work[r].asset
    <3>1. entries' = [entries EXCEPT ![a].extra = entries[a].extra \cup {work[r].path}]
          /\ Goes(r, "ended") /\ UNCHANGED disk
      BY <1>4, <2>4 DEF RecordOriginal
    <3>2. a \in DOMAIN entries /\ entries[a] \in Entry BY <2>4 DEF Registered, EntriesOK
    <3>3. work[r].path \in Paths BY <1>4, <2>1, RequestFields DEF RecordOriginal, Is, PathsFit, Fitting
    <3>4. entries[a].extra \cup {work[r].path} \in SUBSET Paths BY <2>2, <3>2, <3>3, EntryFields
    <3>5. [entries[a] EXCEPT !.extra = entries[a].extra \cup {work[r].path}] \in Entry
      BY <3>2, <3>4, EntryEdits
    <3>6. EntriesOK' BY <3>1, <3>2, <3>5, EditEntry
    <3>7. WorkOK' BY <2>1, <3>1, GoesFacts DEF Stages
    <3> QED BY <2>3, <3>1, <3>6, <3>7, TypeStep DEF libraryVars, historyVars
  <2>5. CASE ~Registered(work[r].asset)
    <3>1. disk' = Drop(disk, work[r].path) /\ Goes(r, "failed") /\ UNCHANGED entries
      BY <1>4, <2>5 DEF RecordOriginal
    <3>2. DiskOK' BY <3>1, DropDisk
    <3>3. WorkOK' BY <2>1, <3>1, GoesFacts DEF Stages
    <3> QED BY <2>3, <3>1, <3>2, <3>3, TypeStep DEF libraryVars, historyVars
  <2> QED BY <2>4, <2>5
<1> QED BY <1>1, <1>2, <1>3, <1>4 DEF Uploads

\* The numbers that a drawing takes.
LEMMA DrawnVersions ==
  ASSUME AssetsTypeOK, ListedFromOne, NEW a \in Assets, NEW tracks \in BOOLEAN,
         (IF tracks THEN NextVersion(a) + 1 ELSE NextVersion(a)) =< MaxAssetVersions
  PROVE  LET first == NextVersion(a)
             n == IF tracks THEN first + 1 ELSE first
         IN  \E k \in 0..MaxAssetVersions :
               /\ hist[a].listed = 1..k /\ first = k + 1
               /\ first \in 1..4 /\ n \in 1..4 /\ n \in 1..MaxAssetVersions /\ (~tracks => n = first)
               /\ (tracks => n = k + 2)
               /\ hist[a].listed \cup (first..n) = 1..n
               /\ first \notin hist[a].listed /\ n \notin hist[a].listed
<1>1. PICK k \in 0..MaxAssetVersions : hist[a].listed = 1..k BY DEF ListedFromOne
<1>2. MaxAssetVersions \in 0..4 BY AssetsAssumption, PlacesFacts
<1>3. k \in Nat /\ k =< MaxAssetVersions BY <1>1, <1>2
<1>4. NextVersion(a) = k + 1 BY <1>1, <1>3, NextAfter
<1> DEFINE n == IF tracks THEN k + 2 ELSE k + 1
<1>5. n \in Nat /\ n =< MaxAssetVersions /\ n >= k + 1 BY <1>3, <1>4
<1>6. k + 1 \in 1..4 /\ n \in 1..4 /\ n \in 1..MaxAssetVersions BY <1>2, <1>3, <1>5
<1>7. (1..k) \cup ((k + 1)..n) = 1..n BY <1>3, <1>5
<1>8. k + 1 \notin 1..k /\ n \notin 1..k BY <1>3, <1>5
<1>9. (IF tracks THEN NextVersion(a) + 1 ELSE NextVersion(a)) = n BY <1>3, <1>4
<1> HIDE DEF n
<1>10. (~tracks => n = k + 1) /\ (tracks => n = k + 2) BY DEF n
<1> QED BY <1>1, <1>4, <1>6, <1>7, <1>8, <1>9, <1>10

LEMMA SheetStepsType ==
  ASSUME AssetsTypeOK, PathsFit, ListedFromOne, NEW r \in AssetRequests, Sheets(r)
  PROVE  AssetsTypeOK'
<1> USE AssetsTypeParts
<1>0. r \in Pictures /\ NoRow \in Pictures \cup {NoRow} BY DEF Pictures
<1>1. CASE BeginDesign(r)
  <2>1. PICK a \in DOMAIN entries : Begin(r, "design", "begun", a, Png(a), NoRow, NoRow, r)
    BY <1>1 DEF BeginDesign
  <2>2. a \in Assets /\ Png(a) \in Paths BY PngFacts DEF EntriesOK
  <2>3. WorkOK' BY <1>0, <2>1, <2>2, BeginFacts DEF Ops, Stages
  <2> QED BY <1>1, <2>3, TypeStep DEF BeginDesign, libraryVars, historyVars
<1>2. CASE DrawDesign(r)
  <2>1. work[r] \in Request BY <1>2, AtWorkIsRequest DEF DrawDesign, Is
  <2> DEFINE a == work[r].asset
             tracks == hist[a].current = 0 /\ OnDisk(Png(a))
             first == NextVersion(a)
             n == IF tracks THEN first + 1 ELSE first
             kept == IF tracks THEN Plus(disk, VersionPath(a, first), disk[Png(a)]) ELSE disk
  <2>2. /\ n =< MaxAssetVersions
        /\ disk' = Plus(Plus(kept, VersionPath(a, n), r), Png(a), r)
        /\ hist' = [hist EXCEPT ![a] = [listed |-> hist[a].listed \cup (first..n), current |-> n]]
        /\ Goes(r, "saved") /\ UNCHANGED <<entries, tally, libraryVars, historyVars>>
    BY <1>2 DEF DrawDesign
  <2>3. a \in Assets BY <2>1, RequestFields
  <2>4. first \in 1..4 /\ n \in 1..4 /\ n \in 1..MaxAssetVersions /\ hist[a].listed \cup (first..n) = 1..n
    BY <2>2, <2>3, DrawnVersions
  <2>5. HistOK'
    <3>1. hist' = [hist EXCEPT ![a] = [listed |-> 1..n, current |-> n]] BY <2>2, <2>4
    <3>2. 1..n \in SUBSET (1..MaxAssetVersions) /\ n \in 0..MaxAssetVersions BY <2>4, AssetsAssumption
    <3> HIDE DEF n
    <3> QED BY <3>1, <3>2 DEF HistOK
  <2>6. Png(a) \in Paths /\ VersionPath(a, first) \in Paths /\ VersionPath(a, n) \in Paths
    BY <2>3, <2>4, PngFacts
  <2> HIDE DEF n, first
  <2>7. DOMAIN kept \subseteq Paths /\ \A p \in DOMAIN kept : kept[p] \in Pictures
    <3>1. CASE tracks BY <3>1, <2>6 DEF OnDisk, Plus, DiskOK
    <3>2. CASE ~tracks BY <3>2 DEF DiskOK
    <3> QED BY <3>1, <3>2
  <2> HIDE DEF kept
  <2>8. DiskOK' BY <1>0, <2>2, <2>6, <2>7 DEF DiskOK, Plus
  <2>9. WorkOK' BY <2>1, <2>2, GoesFacts DEF Stages
  <2> QED BY <2>2, <2>5, <2>8, <2>9, TypeStep DEF libraryVars, historyVars
<1>3. CASE RecordDesign(r)
  <2>1. work[r] \in Request BY <1>3, AtWorkIsRequest DEF RecordDesign, Is
  <2>2. Records(r, Png(work[r].asset), "failed") /\ UNCHANGED <<disk, hist, tally, libraryVars>>
    BY <1>3 DEF RecordDesign
  <2>3. Png(work[r].asset) \in Paths BY <2>1, RequestFields, PngFacts
  <2>4. EntriesOK' /\ WorkOK' /\ SettledOK' /\ lost' = lost BY <2>1, <2>2, <2>3, RecordsType DEF Stages
  <2> QED BY <2>2, <2>4, TypeStep DEF libraryVars
<1>4. CASE BeginRestore(r)
  <2>1. PICK a \in Assets, n \in 1..MaxAssetVersions :
          /\ OnDisk(VersionPath(a, n))
          /\ PutsBack(r, NewRequest("restore", "saved", a, Png(a), NoRow, NoRow, disk[VersionPath(a, n)]))
          /\ disk' = Plus(disk, Png(a), disk[VersionPath(a, n)])
          /\ hist' = [hist EXCEPT ![a].current = n]
    BY <1>4 DEF BeginRestore
  <2>2. disk[VersionPath(a, n)] \in Pictures BY <2>1 DEF OnDisk, DiskOK
  <2>3. NewRequest("restore", "saved", a, Png(a), NoRow, NoRow, disk[VersionPath(a, n)]) \in Request
    <3>1. Png(a) \in Paths /\ settled[a] \in SUBSET Pictures BY PngFacts DEF SettledOK
    <3> QED BY <1>0, <2>2, <3>1 DEF NewRequest, Request
  <2>4. WorkOK' /\ SettledOK' /\ lost' = lost BY <2>1, <2>3, PutsBackType
  <2>5. DiskOK' BY <2>1, <2>2, PngFacts, PutDisk
  <2>6. HistOK'
    <3>1. [hist[a] EXCEPT !.current = n] \in [listed : SUBSET (1..MaxAssetVersions), current : 0..MaxAssetVersions]
      BY AssetsAssumption DEF HistOK
    <3> QED BY <2>1, <3>1 DEF HistOK
  <2> QED BY <1>4, <2>4, <2>5, <2>6, TypeStep DEF BeginRestore, libraryVars
<1>5. CASE RecordRestore(r)
  <2>1. work[r] \in Request BY <1>5, AtWorkIsRequest DEF RecordRestore, Is
  <2>2. Records(r, Png(work[r].asset), "ended") /\ UNCHANGED <<disk, hist, tally, libraryVars>>
    BY <1>5 DEF RecordRestore
  <2>3. Png(work[r].asset) \in Paths BY <2>1, RequestFields, PngFacts
  <2>4. EntriesOK' /\ WorkOK' /\ SettledOK' /\ lost' = lost BY <2>1, <2>2, <2>3, RecordsType DEF Stages
  <2> QED BY <2>2, <2>4, TypeStep DEF libraryVars
<1> QED BY <1>1, <1>2, <1>3, <1>4, <1>5 DEF Sheets

LEMMA InsertRowType ==
  ASSUME AssetsTypeOK, NEW r \in AssetRequests, work[r] \in Request, work[r].asset \in Shareable, InsertRow(r)
  PROVE  RowsOK' /\ ShelfOK' /\ WorkOK' /\ rowless' = rowless
<1> USE AssetsTypeParts
<1>0. r \in Pictures BY DEF Pictures
<1>1. CASE RowsFor(work[r].asset) # {}
  <2>1. shelf' = Drop(shelf, r) /\ Goes(r, "failed") /\ UNCHANGED <<rows, rowless>> BY <1>1 DEF InsertRow
  <2> QED BY <2>1, DropShelf, GoesFacts, RestType DEF Stages
<1>2. CASE RowsFor(work[r].asset) = {}
  <2>1. /\ rows' = Plus(rows, r, [asset |-> work[r].asset, image |-> NewImage(r)])
        /\ Goes(r, "committed") /\ UNCHANGED <<shelf, rowless>>
    BY <1>2 DEF InsertRow
  <2>2. NewImage(r) \in Pictures \cup {NoRow} BY <1>0 DEF NewImage
  <2>3. [asset |-> work[r].asset, image |-> NewImage(r)] \in Row BY <2>2 DEF Row
  <2> QED BY <1>0, <2>1, <2>3, PutRow, GoesFacts, RestType DEF Stages
<1> QED BY <1>1, <1>2

LEMMA ChangeRowType ==
  ASSUME AssetsTypeOK, NEW r \in AssetRequests, work[r] \in Request, ChangeRow(r)
  PROVE  RowsOK' /\ ShelfOK' /\ WorkOK' /\ rowless' \subseteq Pictures
<1> USE AssetsTypeParts
<1>0. r \in Pictures BY DEF Pictures
<1> DEFINE x == work[r].row
<1>1. CASE x \in DOMAIN rows
  <2>1. /\ rows' = [rows EXCEPT ![x].image = NewImage(r)]
        /\ rowless' = IF rows[x].image # work[r].was THEN rowless \cup ({rows[x].image} \ {NoRow}) ELSE rowless
        /\ Goes(r, "committed") /\ UNCHANGED shelf
    BY <1>1 DEF ChangeRow
  <2>2. NewImage(r) \in Pictures \cup {NoRow} BY <1>0 DEF NewImage
  <2>3. rows[x] \in Row BY <1>1 DEF RowsOK
  <2>4. [rows[x] EXCEPT !.image = NewImage(r)] \in Row BY <2>2, <2>3 DEF Row
  <2>5. RowsOK' BY <1>1, <2>1, <2>4 DEF RowsOK
  <2>6. rows[x].image \in Pictures \cup {NoRow} BY <2>3 DEF Row
  <2>7. rowless' \subseteq Pictures BY <2>1, <2>6 DEF AsideOK
  <2> QED BY <2>1, <2>5, <2>7, GoesFacts, RestType DEF Stages
<1>2. CASE x \notin DOMAIN rows
  <2>1. shelf' = Drop(shelf, r) /\ Goes(r, "failed") /\ UNCHANGED <<rows, rowless>> BY <1>2 DEF ChangeRow
  <2> QED BY <2>1, DropShelf, GoesFacts, RestType DEF Stages, AsideOK
<1> QED BY <1>1, <1>2

LEMMA LibraryStepsType ==
  ASSUME AssetsTypeOK, PathsFit, LibraryFits, NEW r \in AssetRequests,
         \/ CreateAsset(r) \/ InsertAsset(r) \/ BeginRemove(r) \/ RemoveRow(r)
         \/ BeginReplace(r) \/ SaveReplacement(r) \/ CommitReplacement(r) \/ RemoveReplaced(r)
  PROVE  AssetsTypeOK'
<1> USE AssetsTypeParts
<1>0. r \in Pictures /\ NoRow \in Pictures \cup {NoRow} /\ NoPath \in Paths \cup {NoPath} BY DEF Pictures
<1>00. \A x \in DOMAIN rows : /\ rows[x].asset \in Assets /\ rows[x].asset \in Shareable
                              /\ rows[x].image \in Pictures \cup {NoRow} /\ x \in Pictures \cup {NoRow}
  BY DEF RowsOK, Row, Shareable
<1>1. CASE CreateAsset(r)
  <2>1. PICK a \in Shareable, ext \in Exts \cup {NoRow} :
          /\ Begin(r, "create", "saved", a, NoPath, NoRow, NoRow, r)
          /\ shelf' = IF ext = NoRow THEN shelf ELSE Plus(shelf, r, [of |-> r, ext |-> ext])
    BY <1>1 DEF CreateAsset
  <2>2. a \in Assets BY DEF Shareable
  <2>3. WorkOK' BY <1>0, <2>1, <2>2, BeginFacts DEF Ops, Stages
  <2>4. ShelfOK'
    <3>1. CASE ext = NoRow BY <2>1, <3>1, RestType
    <3>2. CASE ext # NoRow
      <4>1. [of |-> r, ext |-> ext] \in ShelfFile BY <1>0, <3>2 DEF ShelfFile
      <4> QED BY <1>0, <2>1, <3>2, <4>1, PutShelf
    <3> QED BY <3>1, <3>2
  <2> QED BY <1>1, <2>3, <2>4, TypeStep DEF CreateAsset, historyVars
<1>2. CASE InsertAsset(r)
  <2>1. work[r] \in Request /\ work[r].op = "create" BY <1>2, AtWorkIsRequest DEF InsertAsset, Is
  <2>2. work[r].asset \in Shareable BY <2>1, RequestFields DEF LibraryFits, Shared
  <2>3. RowsOK' /\ ShelfOK' /\ WorkOK' /\ rowless' = rowless BY <1>2, <2>1, <2>2, InsertRowType DEF InsertAsset
  <2> QED BY <1>2, <2>3, TypeStep DEF InsertAsset, historyVars
<1>3. CASE BeginRemove(r)
  <2>1. PICK x \in DOMAIN rows :
          /\ Begin(r, "remove", "saved", rows[x].asset, NoPath, x, rows[x].image, r)
          /\ shelf' = Drop(shelf, rows[x].image)
    BY <1>3 DEF BeginRemove
  <2>2. WorkOK' BY <1>0, <1>00, <2>1, BeginFacts DEF Ops, Stages
  <2>3. ShelfOK' BY <2>1, DropShelf
  <2> QED BY <1>3, <2>2, <2>3, TypeStep DEF BeginRemove, historyVars
<1>4. CASE RemoveRow(r)
  <2>1. work[r] \in Request BY <1>4, AtWorkIsRequest DEF RemoveRow, Is
  <2> DEFINE x == work[r].row
  <2>2. /\ rows' = Drop(rows, x)
        /\ rowless' = IF x \in DOMAIN rows /\ rows[x].image \notin {work[r].was, NoRow}
                     THEN rowless \cup {rows[x].image} ELSE rowless
        /\ Goes(r, "ended")
    BY <1>4 DEF RemoveRow
  <2>3. RowsOK' BY <2>2 DEF RowsOK, Drop
  <2>4. rowless' \subseteq Pictures BY <1>00, <2>2 DEF AsideOK
  <2>5. WorkOK' BY <2>1, <2>2, GoesFacts DEF Stages
  <2>6. AsideOK' BY <1>4, <2>4 DEF RemoveRow, AsideOK, historyVars
  <2> QED BY <1>4, <2>3, <2>5, <2>6, TypeStep DEF RemoveRow, historyVars
<1>5. CASE BeginReplace(r)
  <2>1. PICK x \in DOMAIN rows : Begin(r, "replace", "begun", rows[x].asset, NoPath, x, rows[x].image, r)
    BY <1>5 DEF BeginReplace
  <2>2. WorkOK' BY <1>0, <1>00, <2>1, BeginFacts DEF Ops, Stages
  <2> QED BY <1>5, <2>2, TypeStep DEF BeginReplace, libraryVars, historyVars
<1>6. CASE SaveReplacement(r)
  <2>1. work[r] \in Request BY <1>6, AtWorkIsRequest DEF SaveReplacement, Is
  <2>2. PICK ext \in Exts : shelf' = Plus(shelf, r, [of |-> r, ext |-> ext]) BY <1>6 DEF SaveReplacement
  <2>3. [of |-> r, ext |-> ext] \in ShelfFile BY <1>0 DEF ShelfFile
  <2>4. ShelfOK' BY <1>0, <2>2, <2>3, PutShelf
  <2>5. WorkOK' BY <1>6, <2>1, GoesFacts DEF Stages, SaveReplacement
  <2> QED BY <1>6, <2>4, <2>5, TypeStep DEF SaveReplacement, historyVars
<1>7. CASE CommitReplacement(r)
  <2>1. work[r] \in Request BY <1>7, AtWorkIsRequest DEF CommitReplacement, Is
  <2>2. RowsOK' /\ ShelfOK' /\ WorkOK' /\ rowless' \subseteq Pictures
    BY <1>7, <2>1, ChangeRowType DEF CommitReplacement
  <2>3. AsideOK' BY <1>7, <2>2 DEF CommitReplacement, AsideOK, historyVars
  <2> QED BY <1>7, <2>2, <2>3, TypeStep DEF CommitReplacement, historyVars
<1>8. CASE RemoveReplaced(r)
  <2>1. work[r] \in Request BY <1>8, AtWorkIsRequest DEF RemoveReplaced
  <2>2. ShelfOK' BY <1>8, DropShelf DEF RemoveReplaced
  <2>3. WorkOK' BY <1>8, <2>1, GoesFacts DEF Stages, RemoveReplaced
  <2> QED BY <1>8, <2>2, <2>3, TypeStep DEF RemoveReplaced, historyVars
<1> QED BY <1>1, <1>2, <1>3, <1>4, <1>5, <1>6, <1>7, <1>8

LEMMA ShareStepsType ==
  ASSUME AssetsTypeOK, PathsFit, LibraryFits, NEW r \in AssetRequests,
         BeginShare(r) \/ CopyToShelf(r) \/ WriteShared(r)
  PROVE  AssetsTypeOK'
<1> USE AssetsTypeParts
<1>0. r \in Pictures /\ NoRow \in Pictures \cup {NoRow} /\ NoPath \in Paths \cup {NoPath} BY DEF Pictures
<1>1. CASE BeginShare(r)
  <2>1. PICK a \in DOMAIN entries \cap Shareable :
          LET sheet == entries[a].sheet
              known == RowsFor(a)
              x == IF known = {} THEN NoRow ELSE CHOOSE y \in known : TRUE
          IN  Begin(r, "share", "begun", a, IF OnDisk(sheet) THEN sheet ELSE NoPath, x,
                    IF x = NoRow THEN NoRow ELSE rows[x].image, r)
    BY <1>1 DEF BeginShare
  <2> DEFINE path == IF OnDisk(entries[a].sheet) THEN entries[a].sheet ELSE NoPath
             x == IF RowsFor(a) = {} THEN NoRow ELSE CHOOSE y \in RowsFor(a) : TRUE
             was == IF x = NoRow THEN NoRow ELSE rows[x].image
  <2>2. Begin(r, "share", "begun", a, path, x, was, r) BY <2>1
  <2>3. a \in Assets /\ path \in Paths \cup {NoPath} BY EntryFields DEF EntriesOK
  <2>4. x = NoRow \/ x \in DOMAIN rows
    <3>1. RowsFor(a) # {} => (CHOOSE y \in RowsFor(a) : TRUE) \in RowsFor(a) OBVIOUS
    <3> QED BY <3>1 DEF RowsFor
  <2>5. was \in Pictures \cup {NoRow} /\ x \in Pictures \cup {NoRow} BY <2>4 DEF RowsOK, Row
  <2> HIDE DEF path, x, was
  <2>6. WorkOK' BY <1>0, <2>2, <2>3, <2>5, BeginFacts DEF Ops, Stages
  <2> QED BY <1>1, <2>6, TypeStep DEF BeginShare, libraryVars, historyVars
<1>2. CASE CopyToShelf(r)
  <2>1. work[r] \in Request BY <1>2, AtWorkIsRequest DEF CopyToShelf, Is
  <2> DEFINE p == work[r].path
  <2>2. WorkOK' BY <1>2, <2>1, GoesFacts DEF CopyToShelf, Stages
  <2>3. ShelfOK'
    <3>1. CASE p # NoPath /\ OnDisk(p)
      <4>1. shelf' = Plus(shelf, r, [of |-> disk[p], ext |-> p[3]]) BY <1>2, <3>1 DEF CopyToShelf
      <4>2. [of |-> disk[p], ext |-> p[3]] \in ShelfFile
        BY <2>1, <3>1, RequestFields, PathFacts DEF ShelfFile, OnDisk, DiskOK
      <4> QED BY <1>0, <4>1, <4>2, PutShelf
    <3>2. CASE ~(p # NoPath /\ OnDisk(p)) BY <1>2, <3>2, RestType DEF CopyToShelf
    <3> QED BY <3>1, <3>2
  <2> QED BY <1>2, <2>2, <2>3, TypeStep DEF CopyToShelf, historyVars
<1>3. CASE WriteShared(r)
  <2>1. work[r] \in Request /\ work[r].op = "share" BY <1>3, AtWorkIsRequest DEF WriteShared, Is
  <2>2. work[r].asset \in Shareable BY <2>1, RequestFields DEF LibraryFits, Shared
  <2>3. RowsOK' /\ ShelfOK' /\ WorkOK' /\ rowless' \subseteq Pictures
    <3>1. CASE work[r].row = NoRow BY <1>3, <2>1, <2>2, <3>1, InsertRowType DEF WriteShared, AsideOK
    <3>2. CASE work[r].row # NoRow BY <1>3, <2>1, <3>2, ChangeRowType DEF WriteShared
    <3> QED BY <3>1, <3>2
  <2>4. AsideOK' BY <1>3, <2>3 DEF WriteShared, AsideOK, historyVars
  <2> QED BY <1>3, <2>3, <2>4, TypeStep DEF WriteShared, historyVars
<1> QED BY <1>1, <1>2, <1>3

LEMMA ApplyStepsType ==
  ASSUME AssetsTypeOK, PathsFit, NEW r \in AssetRequests,
         BeginApply(r) \/ CopyFromShelf(r) \/ WriteApplied(r)
  PROVE  AssetsTypeOK'
<1> USE AssetsTypeParts
<1>0. r \in Pictures /\ NoRow \in Pictures \cup {NoRow} /\ NoPath \in Paths \cup {NoPath} BY DEF Pictures
<1>1. CASE BeginApply(r)
  <2>1. PICK x \in DOMAIN rows, target \in Assets :
         LET f == rows[x].image
         IN  /\ f # NoRow => f \in DOMAIN shelf
             /\ Begin(r, "apply", "begun", target, IF f = NoRow THEN NoPath ELSE <<target, "sheet", shelf[f].ext>>,
                      x, f, IF f = NoRow THEN r ELSE shelf[f].of)
    BY <1>1 DEF BeginApply
  <2> DEFINE f == rows[x].image
             path == IF f = NoRow THEN NoPath ELSE <<target, "sheet", shelf[f].ext>>
             of == IF f = NoRow THEN r ELSE shelf[f].of
  <2>2. (f # NoRow => f \in DOMAIN shelf) /\ Begin(r, "apply", "begun", target, path, x, f, of) BY <2>1
  <2>3. f \in Pictures \cup {NoRow} /\ x \in Pictures \cup {NoRow} BY DEF RowsOK, Row
  <2>4. f # NoRow => shelf[f].of \in Pictures /\ shelf[f].ext \in Exts BY <2>2 DEF ShelfOK, ShelfFile
  <2>5. of \in Pictures BY <1>0, <2>4
  <2>6. path \in Paths \cup {NoPath} BY <2>4, PathFacts, PlacesFacts
  <2> HIDE DEF f, path, of
  <2>7. WorkOK' BY <1>0, <2>2, <2>3, <2>5, <2>6, BeginFacts DEF Ops, Stages
  <2> QED BY <1>1, <2>7, TypeStep DEF BeginApply, libraryVars, historyVars
<1>2. CASE CopyFromShelf(r)
  <2>1. work[r] \in Request BY <1>2, AtWorkIsRequest DEF CopyFromShelf, Is
  <2>2. UNCHANGED <<entries, hist, tally, libraryVars>> BY <1>2 DEF CopyFromShelf
  <2>3. CASE work[r].path # NoPath /\ work[r].was \in DOMAIN shelf
    <3>1. PutsBack(r, [work[r] EXCEPT !.at = "saved"]) /\ disk' = Plus(disk, work[r].path, work[r].of)
      BY <1>2, <2>3 DEF CopyFromShelf
    <3>2. [work[r] EXCEPT !.at = "saved"] \in Request BY <2>1, AtFields DEF Stages
    <3>3. WorkOK' /\ SettledOK' /\ lost' = lost BY <3>1, <3>2, PutsBackType
    <3>4. DiskOK' BY <2>1, <2>3, <3>1, RequestFields, PutDisk
    <3> QED BY <2>2, <3>3, <3>4, TypeStep DEF libraryVars
  <2>4. CASE ~(work[r].path # NoPath /\ work[r].was \in DOMAIN shelf)
    <3>1. (Goes(r, "saved") \/ Goes(r, "failed")) /\ UNCHANGED <<disk, historyVars>>
      BY <1>2, <2>4 DEF CopyFromShelf
    <3>2. WorkOK' BY <2>1, <3>1, GoesFacts DEF Stages
    <3> QED BY <2>2, <3>1, <3>2, TypeStep DEF libraryVars, historyVars
  <2> QED BY <2>3, <2>4
<1>3. CASE WriteApplied(r)
  <2>1. work[r] \in Request BY <1>3, AtWorkIsRequest DEF WriteApplied, Is
  <2> DEFINE a == work[r].asset
             path == work[r].path
  <2>2. PICK described \in BOOLEAN :
          /\ entries' = Plus(entries, a, [NewEntry(described) EXCEPT !.sheet = path])
          /\ Settles(a, work[r].of, work[r].before)
          /\ Shows(r, [work[r] EXCEPT !.at = "ended"], work[r].of)
    BY <1>3 DEF WriteApplied
  <2>3. /\ a \in Assets /\ path \in Paths \cup {NoPath}
        /\ work[r].of \in Pictures /\ work[r].before \in SUBSET Pictures
    BY <2>1, RequestFields
  <2>4. [NewEntry(described) EXCEPT !.sheet = path] \in Entry BY <2>3, NewEntryFields, EntryEdits
  <2>5. EntriesOK' BY <2>2, <2>3, <2>4, PutEntry
  <2>6. SettledOK' /\ lost' = lost BY <2>2, <2>3, SettlesType
  <2>7. [work[r] EXCEPT !.at = "ended"] \in Request BY <2>1, AtFields DEF Stages
  <2>8. WorkOK' BY <2>2, <2>7, ShowsFacts
  <2> QED BY <1>3, <2>5, <2>6, <2>8, TypeStep DEF WriteApplied, libraryVars
<1> QED BY <1>1, <1>2, <1>3

LEMMA FailsFacts ==
  ASSUME AssetsTypeOK, NEW r \in AssetRequests, RequestFails(r)
  PROVE  /\ work[r] \in Request /\ work[r].at \in {"begun", "saved", "committed"} /\ Goes(r, "failed")
         /\ UNCHANGED <<entries, disk, hist, rows, settled, stale, lost>>
         /\ \/ shelf' = shelf \/ shelf' = Drop(shelf, r)
            \/ \E ext \in Exts : shelf' = Plus(shelf, r, [of |-> r, ext |-> ext])
         /\ TallyOK' /\ AsideOK'
<1> USE AssetsTypeParts
<1>1. work[r].at \in {"begun", "saved", "committed"}
  BY DEF RequestFails, TakesFileBack, LeavesHalfFile, RefreshFails, KeepsReplaced, FailsElsewhere, Is
<1>2. work[r] \in Request BY <1>1, AtWorkIsRequest
<1>3. Goes(r, "failed") /\ UNCHANGED <<entries, disk, hist, rows, settled, stale, lost>>
  BY DEF RequestFails, historyVars
<1>4. \/ shelf' = shelf \/ shelf' = Drop(shelf, r)
      \/ \E ext \in Exts : shelf' = Plus(shelf, r, [of |-> r, ext |-> ext])
  BY DEF RequestFails, TakesFileBack, LeavesHalfFile, RefreshFails, KeepsReplaced, FailsElsewhere
<1>5. AssetFault \/ tally' = tally
  BY DEF RequestFails, TakesFileBack, LeavesHalfFile, RefreshFails, KeepsReplaced, FailsElsewhere
<1>6. /\ rowless' \subseteq rowless \cup {r} \cup OldImage(r)
      /\ torn' \subseteq torn \cup {r} \cup OldImage(r)
  BY DEF RequestFails, TakesFileBack, LeavesHalfFile, RefreshFails, KeepsReplaced, FailsElsewhere
<1>7. r \in Pictures /\ OldImage(r) \subseteq Pictures
  BY <1>2, RequestFields DEF OldImage, Pictures
<1>8. AsideOK' BY <1>3, <1>6, <1>7 DEF AsideOK
<1> QED BY <1>1, <1>2, <1>3, <1>4, <1>5, <1>8, FaultsType, RestType

LEMMA OtherStepsType ==
  ASSUME AssetsTypeOK,
         \/ LoseFile \/ \E x \in Pictures : RenameAsset(x)
         \/ \E r \in AssetRequests : RequestFails(r)
  PROVE  AssetsTypeOK'
<1> USE AssetsTypeParts
<1>1. CASE LoseFile
  <2>1. PICK p \in DOMAIN disk : disk' = Drop(disk, p) /\ lost' = lost \cup {p} BY <1>1 DEF LoseFile
  <2>2. DiskOK' BY <2>1, DropDisk
  <2>3. AsideOK' BY <1>1, <2>1 DEF LoseFile, AsideOK, DiskOK, libraryVars
  <2>4. TallyOK' BY <1>1, FaultsType DEF LoseFile
  <2> QED BY <1>1, <2>2, <2>3, <2>4, TypeStep DEF LoseFile, libraryVars
<1>2. CASE \E x \in Pictures : RenameAsset(x)
  <2>1. PICK x \in Pictures : RenameAsset(x) BY <1>2
  <2>2. x \in DOMAIN rows /\ rows[x] \in Row BY <2>1 DEF RenameAsset, RowsOK
  <2>3. PICK a \in Shareable : rows' = [rows EXCEPT ![x].asset = a] BY <2>1 DEF RenameAsset
  <2>4. [rows[x] EXCEPT !.asset = a] \in Row BY <2>2 DEF Row
  <2>5. RowsOK' BY <2>2, <2>3, <2>4 DEF RowsOK
  <2>6. TallyOK' BY <2>1, EditsType DEF RenameAsset
  <2> QED BY <2>1, <2>5, <2>6, TypeStep DEF RenameAsset, historyVars
<1>3. CASE \E r \in AssetRequests : RequestFails(r)
  <2>1. PICK r \in AssetRequests : RequestFails(r) BY <1>3
  <2>2. /\ work[r] \in Request /\ Goes(r, "failed")
        /\ UNCHANGED <<entries, disk, hist, rows, settled, stale, lost>>
        /\ \/ shelf' = shelf \/ shelf' = Drop(shelf, r)
           \/ \E ext \in Exts : shelf' = Plus(shelf, r, [of |-> r, ext |-> ext])
        /\ TallyOK' /\ AsideOK'
    BY <2>1, FailsFacts
  <2>3. ShelfOK'
    <3>1. r \in Pictures BY DEF Pictures
    <3>2. \A ext \in Exts : [of |-> r, ext |-> ext] \in ShelfFile BY <3>1 DEF ShelfFile
    <3> QED BY <2>2, <3>1, <3>2, PutShelf, DropShelf, RestType
  <2>4. WorkOK' BY <2>2, GoesFacts DEF Stages
  <2> QED BY <2>2, <2>3, <2>4, TypeStep
<1> QED BY <1>1, <1>2, <1>3

-----------------------------------------------------------------------------
(* A request stays what it is.                                             *)

Remains(w) ==
  /\ work[w] # Unused /\ work'[w] # Unused
  /\ work'[w].op = work[w].op /\ work'[w].asset = work[w].asset /\ work'[w].path = work[w].path
  /\ work'[w].row = work[w].row
Begins(w) ==
  /\ work[w] = Unused /\ work'[w] # Unused
  /\ Fitting(work'[w].op, work'[w].asset, work'[w].path) /\ Shared(work'[w].op, work'[w].asset, work'[w].row)
StaysOrBegins == \A w \in AssetRequests : work'[w] = work[w] \/ Remains(w) \/ Begins(w)

LEMMA GoesStays ==
  ASSUME WorkOK, NEW r \in AssetRequests, work[r].at # "unused", NEW at \in Stages, Goes(r, at)
  PROVE  StaysOrBegins
BY AtWorkIsRequest, GoesFacts, RequestFields DEF StaysOrBegins, Remains, GoesOn

LEMMA LivesStays ==
  ASSUME NEW w, NEW a, NEW picture, Lives(w, a, picture)
  PROVE  work'[w] = work[w] \/ Remains(w)
BY RequestFields DEF Lives, Remains, Still

LEMMA ShowsStays ==
  ASSUME WorkOK, NEW r \in AssetRequests, work[r] \in Request, NEW at \in Stages, NEW picture,
         Shows(r, [work[r] EXCEPT !.at = at], picture)
  PROVE  StaysOrBegins
<1> DEFINE q == [work[r] EXCEPT !.at = at]
<1>1. /\ q \in Request /\ q.op = work[r].op /\ q.asset = work[r].asset /\ q.path = work[r].path
      /\ q.row = work[r].row
  BY AtFields
<1> HIDE DEF q
<1>2. Shows(r, q, picture) BY DEF q
<1>3. work'[r] = q /\ \A w \in AssetRequests : w # r => Lives(w, q.asset, picture) BY <1>1, <1>2, ShowsFacts
<1>4. Remains(r) BY <1>1, <1>3, RequestFields DEF Remains
<1> QED BY <1>3, <1>4, LivesStays DEF StaysOrBegins

LEMMA RecordsStays ==
  ASSUME WorkOK, NEW r \in AssetRequests, work[r] \in Request, NEW path, NEW at \in Stages, Records(r, path, at)
  PROVE  StaysOrBegins
<1>1. CASE Registered(work[r].asset)
  <2>1. Shows(r, [work[r] EXCEPT !.at = "ended"], work[r].of) BY <1>1 DEF Records
  <2> QED BY <2>1, ShowsStays DEF Stages
<1>2. CASE ~Registered(work[r].asset)
  <2>1. Goes(r, at) BY <1>2 DEF Records
  <2>2. work[r].at # "unused" BY RequestFields DEF Stages
  <2> QED BY <2>1, <2>2, GoesStays
<1> QED BY <1>1, <1>2

LEMMA RestStays == work' = work => StaysOrBegins
BY DEF StaysOrBegins

LEMMA EntryStepsStay ==
  ASSUME AssetsTypeOK,
         \/ \E a \in Assets : AddEntry(a) \/ UpsertAssets(a) \/ UpdateEntry(a) \/ DeleteEntry(a)
         \/ LoseFile \/ \E x \in Pictures : RenameAsset(x)
  PROVE  StaysOrBegins
<1> USE AssetsTypeParts
<1>1. CASE work' = work BY <1>1, RestStays
<1>2. CASE work' # work
  <2>1. PICK a \in Assets : UpdateEntry(a)
    BY <1>2 DEF AddEntry, UpsertAssets, DeleteEntry, LoseFile, RenameAsset
  <2>2. PICK p \in DOMAIN disk : work' = [w \in AssetRequests |-> Outlives(disk[p], a, w)]
    BY <1>2, <2>1 DEF UpdateEntry
  <2>3. ASSUME NEW w \in AssetRequests PROVE work'[w] = work[w] \/ Remains(w)
    <3>1. work'[w] = Outlives(disk[p], a, w) BY <2>2
    <3> QED BY <3>1, OutlivesFacts, RequestFields DEF Remains
  <2> QED BY <2>3 DEF StaysOrBegins
<1> QED BY <1>1, <1>2

LEMMA UploadStepsStay ==
  ASSUME AssetsTypeOK, NEW r \in AssetRequests, Uploads(r)
  PROVE  StaysOrBegins
<1> USE AssetsTypeParts
<1>0. r \in Pictures /\ NoRow \in Pictures \cup {NoRow} BY DEF Pictures
<1>1. CASE BeginUpload(r)
  <2>1. PICK a \in Assets, place \in {"sheet", "ref"}, ext \in Exts :
          Begin(r, "upload", "saved", a, <<a, place, ext>>, NoRow, NoRow, r)
    BY <1>1 DEF BeginUpload
  <2>2. <<a, place, ext>> \in Paths /\ <<a, place, ext>>[1] = a /\ <<a, place, ext>>[2] = place
    BY PathFacts, PlacesFacts
  <2>3. BeganAs(r, "upload", "saved", a, <<a, place, ext>>, NoRow, NoRow, r)
    <3>1. "upload" \in Ops /\ "saved" \in Stages /\ <<a, place, ext>> \in Paths \cup {NoPath} /\ a \in Assets
          /\ WorkOK /\ SettledOK
      BY <2>2 DEF Ops, Stages
    <3> QED BY <1>0, <2>1, <3>1, BeginFacts, Zenon
  <2>4. Begins(r) BY <2>2, <2>3, RequestFields DEF Begins, Fitting, Shared, BeganAs
  <2> QED BY <2>3, <2>4 DEF StaysOrBegins, BeganAs
<1>2. CASE RecordUpload(r)
  <2>1. work[r] \in Request /\ work[r].at # "unused" BY <1>2, AtWorkIsRequest DEF RecordUpload, Is
  <2>2. Records(r, work[r].path, "ended") \/ Goes(r, "ended") BY <1>2 DEF RecordUpload
  <2> QED BY <2>1, <2>2, RecordsStays, GoesStays DEF Stages
<1>3. CASE BeginOriginal(r)
  <2>1. PICK a \in DOMAIN entries, ext \in Exts, n \in DOMAIN OriginalPlaces :
          Begin(r, "original", "saved", a, <<a, OriginalPlaces[n], ext>>, NoRow, NoRow, r)
    BY <1>3 DEF BeginOriginal
  <2>2. /\ a \in Assets /\ <<a, OriginalPlaces[n], ext>> \in Paths
        /\ <<a, OriginalPlaces[n], ext>>[1] = a
        /\ <<a, OriginalPlaces[n], ext>>[2] \in ToSet(OriginalPlaces)
    BY PathFacts, PlacesFacts DEF EntriesOK
  <2>3. BeganAs(r, "original", "saved", a, <<a, OriginalPlaces[n], ext>>, NoRow, NoRow, r)
    <3>1. "original" \in Ops /\ "saved" \in Stages /\ <<a, OriginalPlaces[n], ext>> \in Paths \cup {NoPath} /\ a \in Assets
          /\ WorkOK /\ SettledOK
      BY <2>2 DEF Ops, Stages
    <3> QED BY <1>0, <2>1, <3>1, BeginFacts, Zenon
  <2>4. Begins(r) BY <2>2, <2>3, RequestFields DEF Begins, Fitting, Shared, BeganAs
  <2> QED BY <2>3, <2>4 DEF StaysOrBegins, BeganAs
<1>4. CASE RecordOriginal(r)
  <2>1. work[r].at # "unused" BY <1>4 DEF RecordOriginal, Is
  <2>2. Goes(r, "ended") \/ Goes(r, "failed") BY <1>4 DEF RecordOriginal
  <2> QED BY <2>1, <2>2, GoesStays DEF Stages
<1> QED BY <1>1, <1>2, <1>3, <1>4 DEF Uploads

LEMMA RestoreFacts ==
  ASSUME AssetsTypeOK, NEW r \in AssetRequests, BeginRestore(r)
  PROVE  \E a \in Assets, n \in 1..MaxAssetVersions :
           LET picture == disk[VersionPath(a, n)]
           IN  /\ n \in hist[a].listed /\ VersionPath(a, n) \in DOMAIN disk /\ picture \in Pictures
               /\ disk' = Plus(disk, Png(a), picture) /\ hist' = [hist EXCEPT ![a].current = n]
               /\ settled' = settled /\ lost' = lost
               /\ stale' = [stale EXCEPT ![a] = stale[a] \ {picture}]
               /\ work[r] = Unused /\ work'[r] \in Request
               /\ work'[r].op = "restore" /\ work'[r].at = "saved" /\ work'[r].asset = a
               /\ work'[r].path = Png(a) /\ work'[r].row = NoRow /\ work'[r].was = NoRow
               /\ work'[r].of = picture /\ work'[r].before = settled[a]
               /\ \A w \in AssetRequests : w # r => Lives(w, a, picture)
<1> USE AssetsTypeParts
<1>0. r \in Pictures /\ NoRow \in Pictures \cup {NoRow} BY DEF Pictures
<1>1. PICK a \in Assets, n \in 1..MaxAssetVersions :
          /\ n \in hist[a].listed /\ OnDisk(VersionPath(a, n))
          /\ PutsBack(r, NewRequest("restore", "saved", a, Png(a), NoRow, NoRow, disk[VersionPath(a, n)]))
          /\ disk' = Plus(disk, Png(a), disk[VersionPath(a, n)])
          /\ hist' = [hist EXCEPT ![a].current = n]
  BY DEF BeginRestore
<1> DEFINE picture == disk[VersionPath(a, n)]
           q == NewRequest("restore", "saved", a, Png(a), NoRow, NoRow, picture)
<1>2. VersionPath(a, n) \in DOMAIN disk BY <1>1 DEF OnDisk
<1>3. picture \in Pictures BY <1>2 DEF DiskOK
<1> HIDE DEF picture
<1>4. /\ q \in Request /\ q.op = "restore" /\ q.at = "saved" /\ q.asset = a /\ q.path = Png(a)
      /\ q.row = NoRow /\ q.was = NoRow /\ q.of = picture /\ q.before = settled[a]
  <2>1. Png(a) \in Paths /\ settled[a] \in SUBSET Pictures BY PngFacts DEF SettledOK
  <2> QED BY <1>0, <1>3, <2>1 DEF NewRequest, Request
<1> HIDE DEF q
<1>5. PutsBack(r, q) BY <1>1 DEF q, picture
<1>6. stale' = [stale EXCEPT ![a] = stale[a] \ {picture}] /\ settled' = settled /\ lost' = lost
  BY <1>4, <1>5 DEF PutsBack
<1>7. work'[r] = q /\ \A w \in AssetRequests : w # r => Lives(w, a, picture)
  BY <1>4, <1>5, ShowsFacts DEF PutsBack
<1>8. work[r] = Unused BY DEF BeginRestore, MayBegin
<1> QED BY <1>1, <1>2, <1>3, <1>4, <1>6, <1>7, <1>8 DEF picture

LEMMA SheetStepsStay ==
  ASSUME AssetsTypeOK, NEW r \in AssetRequests, Sheets(r)
  PROVE  StaysOrBegins
<1> USE AssetsTypeParts
<1>0. r \in Pictures /\ NoRow \in Pictures \cup {NoRow} BY DEF Pictures
<1>1. CASE BeginDesign(r)
  <2>1. PICK a \in DOMAIN entries : Begin(r, "design", "begun", a, Png(a), NoRow, NoRow, r)
    BY <1>1 DEF BeginDesign
  <2>2. a \in Assets /\ Png(a) \in Paths BY PngFacts DEF EntriesOK
  <2>3. BeganAs(r, "design", "begun", a, Png(a), NoRow, NoRow, r)
    <3>1. "design" \in Ops /\ "begun" \in Stages /\ Png(a) \in Paths \cup {NoPath} /\ a \in Assets
          /\ WorkOK /\ SettledOK
      BY <2>2 DEF Ops, Stages
    <3> QED BY <1>0, <2>1, <3>1, BeginFacts, Zenon
  <2>4. Begins(r) BY <2>3, RequestFields DEF Begins, Fitting, Shared, BeganAs
  <2> QED BY <2>3, <2>4 DEF StaysOrBegins, BeganAs
<1>2. CASE DrawDesign(r)
  <2>1. work[r].at # "unused" /\ Goes(r, "saved") BY <1>2 DEF DrawDesign, Is
  <2> QED BY <2>1, GoesStays DEF Stages
<1>3. CASE RecordDesign(r) \/ RecordRestore(r)
  <2>1. work[r] \in Request BY <1>3, AtWorkIsRequest DEF RecordDesign, RecordRestore, Is
  <2>2. Records(r, Png(work[r].asset), "failed") \/ Records(r, Png(work[r].asset), "ended")
    BY <1>3 DEF RecordDesign, RecordRestore
  <2> QED BY <2>1, <2>2, RecordsStays DEF Stages
<1>4. CASE BeginRestore(r)
  <2>1. PICK a \in Assets, n \in 1..MaxAssetVersions :
               /\ work[r] = Unused /\ work'[r] \in Request
               /\ work'[r].op = "restore" /\ work'[r].asset = a /\ work'[r].path = Png(a)
               /\ \A w \in AssetRequests : w # r => Lives(w, a, disk[VersionPath(a, n)])
    BY <1>4, RestoreFacts, Zenon
  <2>2. Begins(r) BY <2>1, RequestFields DEF Begins, Fitting, Shared
  <2> QED BY <2>1, <2>2, LivesStays DEF StaysOrBegins
<1> QED BY <1>1, <1>2, <1>3, <1>4 DEF Sheets

LEMMA CreateFacts ==
  ASSUME AssetsTypeOK, NEW r \in AssetRequests, CreateAsset(r)
  PROVE  \E a \in Shareable, ext \in Exts \cup {NoRow} :
           /\ BeganAs(r, "create", "saved", a, NoPath, NoRow, NoRow, r)
           /\ shelf' = IF ext = NoRow THEN shelf ELSE Plus(shelf, r, [of |-> r, ext |-> ext])
<1>1. PICK a \in Shareable, ext \in Exts \cup {NoRow} :
        /\ Begin(r, "create", "saved", a, NoPath, NoRow, NoRow, r)
        /\ shelf' = IF ext = NoRow THEN shelf ELSE Plus(shelf, r, [of |-> r, ext |-> ext])
  BY DEF CreateAsset
<1>2. /\ "create" \in Ops /\ "saved" \in Stages /\ a \in Assets /\ NoPath \in Paths \cup {NoPath}
      /\ r \in Pictures /\ NoRow \in Pictures \cup {NoRow} /\ WorkOK /\ SettledOK
  BY AssetsTypeParts DEF Ops, Stages, Shareable, Pictures
<1>3. BeganAs(r, "create", "saved", a, NoPath, NoRow, NoRow, r) BY <1>1, <1>2, BeginFacts, Zenon
<1> QED BY <1>1, <1>3

LEMMA RowFacts ==
  ASSUME AssetsTypeOK, NEW x \in DOMAIN rows
  PROVE  /\ x \in Pictures /\ rows[x] \in Row /\ rows[x].asset \in Assets /\ rows[x].asset \in Shareable
         /\ rows[x].image \in Pictures \cup {NoRow}
BY DEF AssetsTypeOK, Row, Shareable

LEMMA BeginRemoveFacts ==
  ASSUME AssetsTypeOK, NEW r \in AssetRequests, BeginRemove(r)
  PROVE  \E x \in DOMAIN rows :
           /\ BeganAs(r, "remove", "saved", rows[x].asset, NoPath, x, rows[x].image, r)
           /\ shelf' = Drop(shelf, rows[x].image)
<1>1. PICK x \in DOMAIN rows :
        /\ Begin(r, "remove", "saved", rows[x].asset, NoPath, x, rows[x].image, r)
        /\ shelf' = Drop(shelf, rows[x].image)
  BY DEF BeginRemove
<1>2. /\ "remove" \in Ops /\ "saved" \in Stages /\ rows[x].asset \in Assets /\ NoPath \in Paths \cup {NoPath}
      /\ r \in Pictures /\ x \in Pictures \cup {NoRow} /\ rows[x].image \in Pictures \cup {NoRow}
      /\ WorkOK /\ SettledOK
  BY AssetsTypeParts, RowFacts DEF Ops, Stages, Pictures
<1>3. BeganAs(r, "remove", "saved", rows[x].asset, NoPath, x, rows[x].image, r)
  BY <1>1, <1>2, BeginFacts, Zenon
<1> QED BY <1>1, <1>3

LEMMA BeginReplaceFacts ==
  ASSUME AssetsTypeOK, NEW r \in AssetRequests, BeginReplace(r)
  PROVE  \E x \in DOMAIN rows : BeganAs(r, "replace", "begun", rows[x].asset, NoPath, x, rows[x].image, r)
<1>1. PICK x \in DOMAIN rows : Begin(r, "replace", "begun", rows[x].asset, NoPath, x, rows[x].image, r)
  BY DEF BeginReplace
<1>2. /\ "replace" \in Ops /\ "begun" \in Stages /\ rows[x].asset \in Assets /\ NoPath \in Paths \cup {NoPath}
      /\ r \in Pictures /\ x \in Pictures \cup {NoRow} /\ rows[x].image \in Pictures \cup {NoRow}
      /\ WorkOK /\ SettledOK
  BY AssetsTypeParts, RowFacts DEF Ops, Stages, Pictures
<1>3. BeganAs(r, "replace", "begun", rows[x].asset, NoPath, x, rows[x].image, r)
  BY <1>1, <1>2, BeginFacts, Zenon
<1> QED BY <1>3

LEMMA BeginShareFacts ==
  ASSUME AssetsTypeOK, NEW r \in AssetRequests, BeginShare(r)
  PROVE  \E a \in DOMAIN entries \cap Shareable, path \in Paths \cup {NoPath},
            x \in DOMAIN rows \cup {NoRow}, was \in Pictures \cup {NoRow} :
           /\ BeganAs(r, "share", "begun", a, path, x, was, r)
           /\ IF x = NoRow THEN was = NoRow ELSE x \in DOMAIN rows /\ was = rows[x].image
<1>1. PICK a \in DOMAIN entries \cap Shareable :
        LET sheet == entries[a].sheet
            known == RowsFor(a)
            x == IF known = {} THEN NoRow ELSE CHOOSE y \in known : TRUE
        IN  Begin(r, "share", "begun", a, IF OnDisk(sheet) THEN sheet ELSE NoPath, x,
                  IF x = NoRow THEN NoRow ELSE rows[x].image, r)
  BY DEF BeginShare
<1> DEFINE path == IF OnDisk(entries[a].sheet) THEN entries[a].sheet ELSE NoPath
           x == IF RowsFor(a) = {} THEN NoRow ELSE CHOOSE y \in RowsFor(a) : TRUE
           was == IF x = NoRow THEN NoRow ELSE rows[x].image
<1>2. Begin(r, "share", "begun", a, path, x, was, r) BY <1>1
<1>3. path \in Paths \cup {NoPath} BY EntryFields, AssetsTypeParts DEF EntriesOK
<1>4. x = NoRow \/ x \in DOMAIN rows
  <2>1. RowsFor(a) # {} => (CHOOSE y \in RowsFor(a) : TRUE) \in RowsFor(a) OBVIOUS
  <2> QED BY <2>1 DEF RowsFor
<1>5. was \in Pictures \cup {NoRow} /\ x \in Pictures \cup {NoRow} BY <1>4, RowFacts
<1>6. IF x = NoRow THEN was = NoRow ELSE x \in DOMAIN rows /\ was = rows[x].image BY <1>4
<1> HIDE DEF path, x, was
<1>7. /\ "share" \in Ops /\ "begun" \in Stages /\ a \in Assets /\ r \in Pictures /\ WorkOK /\ SettledOK
  BY AssetsTypeParts DEF Ops, Stages, Pictures, EntriesOK
<1>8. BeganAs(r, "share", "begun", a, path, x, was, r)
  BY <1>2, <1>3, <1>5, <1>7, BeginFacts, Zenon
<1> QED BY <1>3, <1>4, <1>5, <1>6, <1>8

LEMMA BeginApplyFacts ==
  ASSUME AssetsTypeOK, NEW r \in AssetRequests, BeginApply(r)
  PROVE  \E a \in Assets, path \in Paths \cup {NoPath}, x \in DOMAIN rows, of \in Pictures :
           /\ BeganAs(r, "apply", "begun", a, path, x, rows[x].image, of)
           /\ path # NoPath => /\ path[1] = a /\ path[2] = "sheet" /\ rows[x].image \in DOMAIN shelf
                               /\ of = shelf[rows[x].image].of
           /\ path = NoPath => of = r
<1>1. PICK x \in DOMAIN rows, a \in Assets :
       LET f == rows[x].image
       IN  /\ f # NoRow => f \in DOMAIN shelf
           /\ Begin(r, "apply", "begun", a, IF f = NoRow THEN NoPath ELSE <<a, "sheet", shelf[f].ext>>,
                    x, f, IF f = NoRow THEN r ELSE shelf[f].of)
  BY DEF BeginApply
<1> DEFINE f == rows[x].image
           path == IF f = NoRow THEN NoPath ELSE <<a, "sheet", shelf[f].ext>>
           of == IF f = NoRow THEN r ELSE shelf[f].of
<1>2. (f # NoRow => f \in DOMAIN shelf) /\ Begin(r, "apply", "begun", a, path, x, f, of) BY <1>1
<1>3. f \in Pictures \cup {NoRow} /\ x \in Pictures \cup {NoRow} /\ r \in Pictures BY RowFacts DEF Pictures
<1>4. f # NoRow => shelf[f].of \in Pictures /\ shelf[f].ext \in Exts
  BY <1>2, AssetsTypeParts DEF ShelfOK, ShelfFile
<1>5. of \in Pictures BY <1>3, <1>4
<1>6. /\ path \in Paths \cup {NoPath}
      /\ path # NoPath => path[1] = a /\ path[2] = "sheet" /\ f # NoRow
      /\ path = NoPath => f = NoRow
  <2>1. CASE f = NoRow BY <2>1
  <2>2. CASE f # NoRow
    <3>1. shelf[f].ext \in Exts /\ "sheet" \in Places BY <2>2, <1>4, PlacesFacts
    <3> DEFINE e == shelf[f].ext
    <3> HIDE DEF e
    <3>2. /\ <<a, "sheet", e>> \in Paths /\ <<a, "sheet", e>> # NoPath
          /\ <<a, "sheet", e>>[1] = a /\ <<a, "sheet", e>>[2] = "sheet"
      BY <3>1, PathFacts DEF e
    <3> QED BY <2>2, <3>2 DEF e
  <2> QED BY <2>1, <2>2
<1>7. (path # NoPath => of = shelf[f].of) /\ (path = NoPath => of = r) BY <1>6
<1> HIDE DEF path, of
<1>8. "apply" \in Ops /\ "begun" \in Stages /\ WorkOK /\ SettledOK BY AssetsTypeParts DEF Ops, Stages
<1>9. BeganAs(r, "apply", "begun", a, path, x, f, of) BY <1>2, <1>3, <1>5, <1>6, <1>8, BeginFacts, Zenon
<1> QED BY <1>2, <1>5, <1>6, <1>7, <1>9

LEMMA LibraryStepsStay ==
  ASSUME AssetsTypeOK, NEW r \in AssetRequests, Library(r) \/ RequestFails(r)
  PROVE  StaysOrBegins
<1> USE AssetsTypeParts
<1> USE DEF Stages
<1>1. CASE CreateAsset(r)
  <2>1. PICK a \in Shareable : BeganAs(r, "create", "saved", a, NoPath, NoRow, NoRow, r) BY <1>1, CreateFacts, Zenon
  <2>2. Begins(r) BY <2>1, RequestFields DEF Begins, Fitting, Shared, BeganAs
  <2> QED BY <2>1, <2>2 DEF StaysOrBegins, BeganAs
<1>2. CASE BeginRemove(r)
  <2>1. PICK x \in DOMAIN rows : BeganAs(r, "remove", "saved", rows[x].asset, NoPath, x, rows[x].image, r)
    BY <1>2, BeginRemoveFacts, Zenon
  <2>2. Begins(r) BY <2>1, RowFacts, RequestFields DEF Begins, Fitting, Shared, BeganAs
  <2> QED BY <2>1, <2>2 DEF StaysOrBegins, BeganAs
<1>3. CASE BeginReplace(r)
  <2>1. PICK x \in DOMAIN rows : BeganAs(r, "replace", "begun", rows[x].asset, NoPath, x, rows[x].image, r)
    BY <1>3, BeginReplaceFacts, Zenon
  <2>2. Begins(r) BY <2>1, RequestFields DEF Begins, Fitting, Shared, BeganAs
  <2> QED BY <2>1, <2>2 DEF StaysOrBegins, BeganAs
<1>4. CASE BeginShare(r)
  <2>1. PICK a \in DOMAIN entries \cap Shareable, path \in Paths \cup {NoPath},
             x \in DOMAIN rows \cup {NoRow}, was \in Pictures \cup {NoRow} : BeganAs(r, "share", "begun", a, path, x, was, r)
    BY <1>4, BeginShareFacts, Zenon
  <2>2. Begins(r) BY <2>1, RequestFields DEF Begins, Fitting, Shared, BeganAs
  <2> QED BY <2>1, <2>2 DEF StaysOrBegins, BeganAs
<1>5. CASE BeginApply(r)
  <2>1. PICK a \in Assets, path \in Paths \cup {NoPath}, x \in DOMAIN rows, of \in Pictures :
          /\ BeganAs(r, "apply", "begun", a, path, x, rows[x].image, of)
          /\ path # NoPath => path[1] = a /\ path[2] = "sheet"
    BY <1>5, BeginApplyFacts, Zenon
  <2>2. Begins(r) BY <2>1, RequestFields DEF Begins, Fitting, Shared, BeganAs
  <2> QED BY <2>1, <2>2 DEF StaysOrBegins, BeganAs
<1>6. CASE InsertAsset(r) \/ CommitReplacement(r) \/ WriteShared(r)
  <2>1. work[r].at # "unused" BY <1>6 DEF InsertAsset, CommitReplacement, WriteShared, Is
  <2>2. Goes(r, "failed") \/ Goes(r, "ended") \/ Goes(r, "committed")
    BY <1>6 DEF InsertAsset, CommitReplacement, WriteShared, InsertRow, ChangeRow
  <2> QED BY <2>1, <2>2, GoesStays
<1>7. CASE RemoveRow(r) \/ SaveReplacement(r) \/ RemoveReplaced(r) \/ CopyToShelf(r) \/ RequestFails(r)
  <2>1. work[r].at # "unused"
    BY <1>7, FailsFacts DEF RemoveRow, SaveReplacement, RemoveReplaced, CopyToShelf, Is
  <2>2. Goes(r, "failed") \/ Goes(r, "ended") \/ Goes(r, "saved")
    BY <1>7, FailsFacts DEF RemoveRow, SaveReplacement, RemoveReplaced, CopyToShelf
  <2> QED BY <2>1, <2>2, GoesStays
<1>8. CASE CopyFromShelf(r)
  <2>1. work[r] \in Request /\ work[r].at # "unused" BY <1>8, AtWorkIsRequest DEF CopyFromShelf, Is
  <2>2. Goes(r, "failed") \/ Goes(r, "saved") \/ PutsBack(r, [work[r] EXCEPT !.at = "saved"])
    BY <1>8 DEF CopyFromShelf
  <2>3. CASE PutsBack(r, [work[r] EXCEPT !.at = "saved"])
    <3>1. Shows(r, [work[r] EXCEPT !.at = "saved"], [work[r] EXCEPT !.at = "saved"].of) BY <2>3 DEF PutsBack
    <3> QED BY <2>1, <3>1, ShowsStays
  <2> QED BY <2>1, <2>2, <2>3, GoesStays
<1>9. CASE WriteApplied(r)
  <2>1. work[r] \in Request /\ work[r].at # "unused" BY <1>9, AtWorkIsRequest DEF WriteApplied, Is
  <2>2. Shows(r, [work[r] EXCEPT !.at = "ended"], work[r].of) BY <1>9 DEF WriteApplied
  <2> QED BY <2>1, <2>2, ShowsStays
<1> QED BY <1>1, <1>2, <1>3, <1>4, <1>5, <1>6, <1>7, <1>8, <1>9 DEF Library

LEMMA RequestsKeep ==
  ASSUME AssetsTypeOK, PathsFit, LibraryFits, AssetsNext
  PROVE  PathsFit' /\ LibraryFits'
<1>1. StaysOrBegins
  BY EntryStepsStay, UploadStepsStay, SheetStepsStay, LibraryStepsStay DEF AssetsNext
<1>2. ASSUME NEW w \in AssetRequests, work'[w] # Unused
      PROVE  /\ Fitting(work'[w].op, work'[w].asset, work'[w].path)
             /\ Shared(work'[w].op, work'[w].asset, work'[w].row)
  BY <1>1, <1>2, Zenon DEF StaysOrBegins, Remains, Begins, PathsFit, LibraryFits
<1> QED BY <1>2 DEF PathsFit, LibraryFits

LEMMA DrawFacts ==
  ASSUME AssetsTypeOK, ListedFromOne, NEW r \in AssetRequests, DrawDesign(r)
  PROVE  \E tracks \in BOOLEAN, k \in 0..MaxAssetVersions, n \in 1..4 :
           LET a == work[r].asset
               kept == IF tracks THEN Plus(disk, VersionPath(a, k + 1), disk[Png(a)]) ELSE disk
           IN  /\ a \in Assets /\ n \in 1..MaxAssetVersions /\ k + 1 \in 1..4
               /\ n = (IF tracks THEN k + 2 ELSE k + 1)
               /\ tracks => Png(a) \in DOMAIN disk
               /\ hist[a].listed = 1..k
               /\ hist' = [hist EXCEPT ![a] = [listed |-> 1..n, current |-> n]]
               /\ disk' = Plus(Plus(kept, VersionPath(a, n), r), Png(a), r)
<1> DEFINE a == work[r].asset
           tracks == hist[a].current = 0 /\ OnDisk(Png(a))
           first == NextVersion(a)
           n == IF tracks THEN first + 1 ELSE first
           kept == IF tracks THEN Plus(disk, VersionPath(a, first), disk[Png(a)]) ELSE disk
<1>1. /\ n =< MaxAssetVersions
      /\ disk' = Plus(Plus(kept, VersionPath(a, n), r), Png(a), r)
      /\ hist' = [hist EXCEPT ![a] = [listed |-> hist[a].listed \cup (first..n), current |-> n]]
  BY DEF DrawDesign
<1>2. a \in Assets BY AtWorkIsRequest, AssetsTypeParts, RequestFields DEF DrawDesign, Is
<1>3. tracks \in BOOLEAN OBVIOUS
<1>4. PICK k \in 0..MaxAssetVersions :
        /\ hist[a].listed = 1..k /\ first = k + 1
        /\ first \in 1..4 /\ n \in 1..4 /\ n \in 1..MaxAssetVersions /\ (~tracks => n = first)
        /\ (tracks => n = k + 2)
        /\ hist[a].listed \cup (first..n) = 1..n
  <2>1. (IF tracks THEN NextVersion(a) + 1 ELSE NextVersion(a)) =< MaxAssetVersions BY <1>1
  <2> DEFINE t == tracks
  <2>2. (IF t THEN NextVersion(a) + 1 ELSE NextVersion(a)) =< MaxAssetVersions /\ t \in BOOLEAN BY <2>1
  <2> HIDE DEF t
  <2>3. LET f == NextVersion(a)
            m == IF t THEN f + 1 ELSE f
         IN  \E k \in 0..MaxAssetVersions :
               /\ hist[a].listed = 1..k /\ f = k + 1
               /\ f \in 1..4 /\ m \in 1..4 /\ m \in 1..MaxAssetVersions /\ (~t => m = f)
               /\ (t => m = k + 2)
               /\ hist[a].listed \cup (f..m) = 1..m
    BY <1>2, <2>2, DrawnVersions
  <2> QED BY <2>3 DEF t
<1>5. tracks => Png(a) \in DOMAIN disk BY DEF OnDisk
<1>6. hist' = [hist EXCEPT ![a] = [listed |-> 1..n, current |-> n]] BY <1>1, <1>4
<1>7. first = k + 1 /\ n = (IF tracks THEN k + 2 ELSE k + 1) BY <1>4
<1>8. kept = IF tracks THEN Plus(disk, VersionPath(a, k + 1), disk[Png(a)]) ELSE disk BY <1>7
<1> HIDE DEF first, n, kept, tracks
<1>9. n \in 1..4 /\ k + 1 \in 1..4 BY <1>4, <1>7
<1>10. /\ a \in Assets /\ n \in 1..MaxAssetVersions /\ k + 1 \in 1..4
       /\ n = (IF tracks THEN k + 2 ELSE k + 1)
       /\ tracks => Png(a) \in DOMAIN disk
       /\ hist[a].listed = 1..k
       /\ hist' = [hist EXCEPT ![a] = [listed |-> 1..n, current |-> n]]
       /\ disk' = Plus(Plus(IF tracks THEN Plus(disk, VersionPath(a, k + 1), disk[Png(a)]) ELSE disk,
                          VersionPath(a, n), r), Png(a), r)
  BY <1>1, <1>2, <1>4, <1>5, <1>6, <1>7, <1>8, <1>9
<1> QED BY <1>3, <1>9, <1>10, Zenon

LEMMA VersionsKeepNumbers ==
  ASSUME AssetsTypeOK, ListedFromOne, AssetsNext
  PROVE  ListedFromOne'
<1>1. CASE hist' = hist BY <1>1 DEF ListedFromOne
<1>2. CASE \E r \in AssetRequests : DrawDesign(r)
  <2>1. PICK r \in AssetRequests : DrawDesign(r) BY <1>2
  <2>2. PICK a \in Assets, n \in 1..MaxAssetVersions :
          hist' = [hist EXCEPT ![a] = [listed |-> 1..n, current |-> n]]
    BY <2>1, DrawFacts
  <2>3. n \in 0..MaxAssetVersions BY AssetsAssumption
  <2>4. hist'[a].listed = 1..n /\ \A b \in Assets : b # a => hist'[b] = hist[b]
    BY <2>2 DEF AssetsTypeOK
  <2> QED BY <2>3, <2>4 DEF ListedFromOne
<1>3. CASE \E r \in AssetRequests : BeginRestore(r)
  <2>1. PICK r \in AssetRequests : BeginRestore(r) BY <1>3
  <2>2. PICK a \in Assets, n \in 1..MaxAssetVersions : hist' = [hist EXCEPT ![a].current = n]
    BY <2>1 DEF BeginRestore
  <2>3. \A b \in Assets : hist'[b].listed = hist[b].listed BY <2>2 DEF AssetsTypeOK
  <2> QED BY <2>3 DEF ListedFromOne
<1>4. hist' = hist \/ \E r \in AssetRequests : DrawDesign(r) \/ BeginRestore(r)
  BY Zenon DEF AssetsNext, AddEntry, UpsertAssets, UpdateEntry, DeleteEntry, LoseFile, RenameAsset,
     Uploads, BeginUpload, RecordUpload, BeginOriginal, RecordOriginal, Sheets, BeginDesign, RecordDesign,
     RecordRestore, Library, CreateAsset, InsertAsset, BeginRemove, RemoveRow, BeginReplace,
     SaveReplacement, CommitReplacement, RemoveReplaced, BeginShare, CopyToShelf, WriteShared, BeginApply,
     CopyFromShelf, WriteApplied, RequestFails
<1> QED BY <1>1, <1>2, <1>3, <1>4

AssetsBase == AssetsTypeOK /\ PathsFit /\ LibraryFits /\ ListedFromOne

LEMMA BaseInit == AssetsInit => AssetsBase
<1> SUFFICES ASSUME AssetsInit PROVE AssetsBase OBVIOUS
<1>1. \A r \in AssetRequests : work[r] = Unused BY DEF AssetsInit
<1>2. ListedFromOne
  <2>1. \A a \in Assets : hist[a].listed = {} BY DEF AssetsInit
  <2>2. 1..0 = {} /\ 0 \in 0..MaxAssetVersions BY AssetsAssumption, PlacesFacts
  <2> QED BY <2>1, <2>2 DEF ListedFromOne
<1> QED BY <1>1, <1>2, InitType DEF AssetsBase, PathsFit, LibraryFits

LEMMA BaseStep == AssetsBase /\ [AssetsNext]_assetVars => AssetsBase'
<1> SUFFICES ASSUME AssetsBase, [AssetsNext]_assetVars PROVE AssetsBase' OBVIOUS
<1> USE DEF AssetsBase
<1>1. CASE AssetsNext
  <2>1. AssetsTypeOK'
    <3>1. CASE \E a \in Assets : AddEntry(a) \/ UpsertAssets(a) \/ UpdateEntry(a) \/ DeleteEntry(a)
      BY <3>1, EntryStepsType
    <3>2. CASE LoseFile \/ \E x \in Pictures : RenameAsset(x) BY <3>2, OtherStepsType
    <3>3. ASSUME NEW r \in AssetRequests, Uploads(r) \/ Sheets(r) \/ Library(r) \/ RequestFails(r)
          PROVE  AssetsTypeOK'
      <4>1. CASE Uploads(r) BY <4>1, UploadStepsType
      <4>2. CASE Sheets(r) BY <4>2, SheetStepsType
      <4>3. CASE RequestFails(r) BY <4>3, OtherStepsType
      <4>4. CASE Library(r) BY <4>4, LibraryStepsType, ShareStepsType, ApplyStepsType DEF Library
      <4> QED BY <3>3, <4>1, <4>2, <4>3, <4>4
    <3> QED BY <1>1, <3>1, <3>2, <3>3 DEF AssetsNext
  <2> QED BY <1>1, <2>1, RequestsKeep, VersionsKeepNumbers
<1>2. CASE UNCHANGED assetVars
  <2>1. /\ entries' = entries /\ disk' = disk /\ hist' = hist /\ rows' = rows /\ shelf' = shelf /\ work' = work
        /\ tally' = tally /\ settled' = settled /\ stale' = stale /\ rowless' = rowless /\ lost' = lost /\ torn' = torn
    BY <1>2 DEF assetVars
  <2>2. AssetsTypeOK' BY <2>1, TypeStep
  <2> QED BY <2>1, <2>2 DEF PathsFit, LibraryFits, ListedFromOne
<1> QED BY <1>1, <1>2

(* ProjectAssets: what the entries, the library and the requests hold is   *)
(* of its kind in every state: each path is an asset's, each row has a     *)
(* picture or none.                                                        *)
THEOREM ProjectAssetsTypeCorrect == AssetsSpec => []AssetsTypeOK
<1>1. AssetsBase => AssetsTypeOK BY DEF AssetsBase
<1> QED BY <1>1, BaseInit, BaseStep, PTL DEF AssetsSpec

-----------------------------------------------------------------------------
(* The library.                                                            *)

\* A request whose picture cannot come to the library any more.
Spent(f) == f \in AssetRequests => work[f].at \notin {"unused", "begun", "saved"}
SpentNow(f) == f \in AssetRequests => work'[f].at \notin {"unused", "begun", "saved"}
RowsAreSpent == \A x \in DOMAIN rows : Spent(x) /\ Spent(rows[x].image)
ImagesDiffer == \A x, y \in DOMAIN rows : rows[x].image = rows[y].image /\ rows[x].image # NoRow => x = y
WasItsImage ==
  \A r \in AssetRequests : work[r].at # "unused" /\ work[r].was # NoRow =>
    /\ Spent(work[r].was)
    /\ \A x \in DOMAIN rows : rows[x].image = work[r].was => x = work[r].row /\ work[r].at # "committed"
ShelfByKind ==
  \A f \in DOMAIN shelf : f \in AssetRequests =>
    work[f].op \in {"create", "replace", "share"} /\ work[f].at \notin {"unused", "begun"}
RemovedIsGone == \A r \in AssetRequests : Is(r, "remove", "saved") => work[r].was \notin DOMAIN shelf
RowsHaveFiles ==
  \A x \in DOMAIN rows :
         \/ rows[x].image \in DOMAIN shelf \cup torn \cup {NoRow}
         \/ \E r \in AssetRequests : Is(r, "remove", "saved") /\ work[r].was = rows[x].image
FilesHaveRows ==
  \A f \in DOMAIN shelf \ rowless :
         \/ \E x \in DOMAIN rows : rows[x].image = f
         \/ \E r \in AssetRequests : r = f /\ work[r].at = "saved"
         \/ \E r \in AssetRequests : work[r].at = "committed" /\ work[r].was = f

LibraryInv ==
  /\ RowsAreSpent /\ ImagesDiffer /\ WasItsImage /\ ShelfByKind /\ RemovedIsGone
  /\ RowsHaveFiles /\ FilesHaveRows

LEMMA LibraryWhole == LibraryIsWhole <=> RowsHaveFiles /\ FilesHaveRows
BY DEF LibraryIsWhole, RowsHaveFiles, FilesHaveRows

Same(w) ==
  /\ work'[w].op = work[w].op /\ work'[w].at = work[w].at
  /\ work'[w].row = work[w].row /\ work'[w].was = work[w].was
SameBut(r) == \A w \in AssetRequests : w # r => Same(w)

LEMMA NamesFacts ==
  /\ \A r \in AssetRequests : r # NoRow /\ r # FirstRow
  /\ NoRow \notin Pictures /\ AssetRequests \subseteq Pictures
BY AssetsAssumption DEF Pictures, NoRow

LEMMA NothingInLibrary ==
  ASSUME LibraryInv, UNCHANGED libraryVars, \A w \in AssetRequests : Same(w)
  PROVE  LibraryInv'
<1>1. rows' = rows /\ shelf' = shelf /\ rowless' = rowless /\ torn' = torn BY DEF libraryVars
<1>2. RowsAreSpent' /\ ImagesDiffer' BY <1>1 DEF LibraryInv, RowsAreSpent, ImagesDiffer, Spent, Same
<1>3. WasItsImage' BY <1>1 DEF LibraryInv, WasItsImage, Spent, Same
<1>4. ShelfByKind' /\ RemovedIsGone' BY <1>1 DEF LibraryInv, ShelfByKind, RemovedIsGone, Is, Same
<1>5. RowsHaveFiles' BY <1>1 DEF LibraryInv, RowsHaveFiles, Is, Same
<1>6. FilesHaveRows' BY <1>1 DEF LibraryInv, FilesHaveRows, Same
<1> QED BY <1>2, <1>3, <1>4, <1>5, <1>6 DEF LibraryInv

\* A request that has nothing to do with the library goes on.
LEMMA ElsewhereGoesOn ==
  ASSUME LibraryInv, UNCHANGED libraryVars, NEW r \in AssetRequests, SameBut(r),
         work[r].op \notin {"create", "remove", "replace", "share"}, work[r].at \in {"begun", "saved"},
         work'[r].op = work[r].op, work'[r].row = work[r].row, work'[r].was = work[r].was,
         work'[r].at \in {"saved", "ended", "failed"}
  PROVE  LibraryInv'
<1>1. rows' = rows /\ shelf' = shelf /\ rowless' = rowless /\ torn' = torn BY DEF libraryVars
<1>0. \A w \in AssetRequests : w # r => Same(w) BY DEF SameBut
<1>2. ASSUME NEW f, Spent(f) PROVE SpentNow(f) BY <1>0, <1>2 DEF Spent, SpentNow, Same
<1>3. RowsAreSpent' /\ ImagesDiffer' BY <1>1, <1>2 DEF LibraryInv, RowsAreSpent, ImagesDiffer, Spent, SpentNow
<1>4. WasItsImage'
  <2> SUFFICES ASSUME NEW w \in AssetRequests, work'[w].at # "unused", work'[w].was # NoRow
               PROVE  /\ SpentNow(work'[w].was)
                      /\ \A x \in DOMAIN rows' : rows'[x].image = work'[w].was => x = work'[w].row /\ work'[w].at # "committed"
    BY DEF WasItsImage, Spent, SpentNow
  <2>1. work[w].at # "unused" /\ work'[w].was = work[w].was /\ work'[w].row = work[w].row
        /\ (work'[w].at = "committed" => work[w].at = "committed")
    BY <1>0 DEF Same
  <2>2. Spent(work[w].was)
        /\ \A x \in DOMAIN rows : rows[x].image = work[w].was => x = work[w].row /\ work[w].at # "committed"
    BY <2>1 DEF LibraryInv, WasItsImage
  <2> QED BY <1>1, <1>2, <2>1, <2>2
<1>5. ShelfByKind' BY <1>0, <1>1 DEF LibraryInv, ShelfByKind, Same
<1>6. RemovedIsGone' BY <1>0, <1>1 DEF LibraryInv, RemovedIsGone, Is, Same
<1>7. RowsHaveFiles' BY <1>0, <1>1 DEF LibraryInv, RowsHaveFiles, Is, Same
<1>8. FilesHaveRows'
  <2> SUFFICES ASSUME NEW f \in DOMAIN shelf \ rowless
               PROVE  \/ \E x \in DOMAIN rows : rows[x].image = f
                      \/ \E w \in AssetRequests : w = f /\ work'[w].at = "saved"
                      \/ \E w \in AssetRequests : work'[w].at = "committed" /\ work'[w].was = f
    BY <1>1 DEF FilesHaveRows
  <2>1. ASSUME NEW w \in AssetRequests, w = f, work[w].at = "saved" PROVE work'[w].at = "saved"
    <3>1. w # r BY <2>1 DEF LibraryInv, ShelfByKind
    <3> QED BY <1>0, <2>1, <3>1 DEF Same
  <2>2. ASSUME NEW w \in AssetRequests, work[w].at = "committed", work[w].was = f
        PROVE  work'[w].at = "committed" /\ work'[w].was = f
    BY <1>0, <2>2 DEF Same
  <2> QED BY <2>1, <2>2 DEF LibraryInv, FilesHaveRows
<1> QED BY <1>3, <1>4, <1>5, <1>6, <1>7, <1>8 DEF LibraryInv

\* A request begins.  It removes nothing and puts at most its own picture on the shelf.
LEMMA BeginsInLibrary ==
  ASSUME AssetsTypeOK, LibraryInv, NEW r \in AssetRequests, work[r].at = "unused", SameBut(r),
         rows' = rows, rowless' = rowless, torn' = torn,
         \/ shelf' = shelf
         \/ /\ DOMAIN shelf' = DOMAIN shelf \cup {r} /\ work'[r].op = "create" /\ work'[r].at = "saved",
         work'[r].op # "remove", work'[r].at \in {"begun", "saved"},
         \/ work'[r].was = NoRow
         \/ work'[r].row \in DOMAIN rows /\ work'[r].was = rows[work'[r].row].image
  PROVE  LibraryInv'
<1>0. \A w \in AssetRequests : w # r => Same(w) BY DEF SameBut
<1>1. DOMAIN shelf \subseteq DOMAIN shelf' /\ DOMAIN shelf' \subseteq DOMAIN shelf \cup {r}
      /\ (r \in DOMAIN shelf' => r \in DOMAIN shelf \/ (work'[r].op = "create" /\ work'[r].at = "saved"))
  OBVIOUS
<1>2. ASSUME NEW f, Spent(f) PROVE f # r /\ SpentNow(f) BY <1>0, <1>2 DEF Spent, SpentNow, Same
<1>3. RowsAreSpent' /\ ImagesDiffer' BY <1>2 DEF LibraryInv, RowsAreSpent, ImagesDiffer, Spent, SpentNow
<1>4. WasItsImage'
  <2> SUFFICES ASSUME NEW w \in AssetRequests, work'[w].at # "unused", work'[w].was # NoRow
               PROVE  /\ SpentNow(work'[w].was)
                      /\ \A x \in DOMAIN rows' : rows'[x].image = work'[w].was => x = work'[w].row /\ work'[w].at # "committed"
    BY DEF WasItsImage, Spent, SpentNow
  <2>1. CASE w = r
    <3>1. work'[r].row \in DOMAIN rows /\ work'[r].was = rows[work'[r].row].image BY <2>1
    <3>2. Spent(work'[r].was) BY <3>1 DEF LibraryInv, RowsAreSpent
    <3>3. \A x \in DOMAIN rows : rows[x].image = work'[r].was => x = work'[r].row
      BY <2>1, <3>1 DEF LibraryInv, ImagesDiffer
    <3> QED BY <1>2, <2>1, <3>2, <3>3
  <2>2. CASE w # r
    <3>1. Same(w) BY <1>0, <2>2
    <3>2. Spent(work[w].was)
          /\ \A x \in DOMAIN rows : rows[x].image = work[w].was => x = work[w].row /\ work[w].at # "committed"
      BY <3>1 DEF LibraryInv, WasItsImage, Same
    <3> QED BY <1>2, <3>1, <3>2 DEF Same
  <2> QED BY <2>1, <2>2
<1>5. ShelfByKind'
  <2> SUFFICES ASSUME NEW f \in DOMAIN shelf', f \in AssetRequests
               PROVE  work'[f].op \in {"create", "replace", "share"} /\ work'[f].at \notin {"unused", "begun"}
    BY DEF ShelfByKind
  <2>1. f \in DOMAIN shelf => f # r BY DEF LibraryInv, ShelfByKind
  <2> QED BY <1>0, <1>1, <2>1 DEF LibraryInv, ShelfByKind, Same
<1>6. RemovedIsGone'
  <2> SUFFICES ASSUME NEW w \in AssetRequests, work'[w].op = "remove", work'[w].at = "saved"
               PROVE  work'[w].was \notin DOMAIN shelf'
    BY DEF RemovedIsGone, Is
  <2>1. w # r /\ Same(w) BY <1>0
  <2>2. work[w].was \notin DOMAIN shelf BY <2>1 DEF LibraryInv, RemovedIsGone, Is, Same
  <2>3. work[w].was # r
    <3>1. work[w].at # "unused" BY <2>1 DEF Same
    <3> QED BY <1>2, <3>1, NamesFacts DEF LibraryInv, WasItsImage
  <2> QED BY <1>1, <2>1, <2>2, <2>3 DEF Same
<1>7. RowsHaveFiles'
  <2> SUFFICES ASSUME NEW x \in DOMAIN rows
               PROVE  \/ rows[x].image \in DOMAIN shelf' \cup torn \cup {NoRow}
                      \/ \E w \in AssetRequests : (work'[w].op = "remove" /\ work'[w].at = "saved") /\ work'[w].was = rows[x].image
    BY DEF RowsHaveFiles, Is
  <2>1. ASSUME NEW w \in AssetRequests, Is(w, "remove", "saved"), work[w].was = rows[x].image
        PROVE  (work'[w].op = "remove" /\ work'[w].at = "saved") /\ work'[w].was = rows[x].image
    BY <1>0, <2>1 DEF Is, Same
  <2> QED BY <1>1, <2>1 DEF LibraryInv, RowsHaveFiles
<1>8. FilesHaveRows'
  <2> SUFFICES ASSUME NEW f \in DOMAIN shelf' \ rowless
               PROVE  \/ \E x \in DOMAIN rows : rows[x].image = f
                      \/ \E w \in AssetRequests : w = f /\ work'[w].at = "saved"
                      \/ \E w \in AssetRequests : work'[w].at = "committed" /\ work'[w].was = f
    BY DEF FilesHaveRows
  <2>1. CASE f \in DOMAIN shelf
    <3>1. ASSUME NEW w \in AssetRequests, w = f, work[w].at = "saved" PROVE work'[w].at = "saved"
      BY <1>0, <3>1 DEF Same
    <3>2. ASSUME NEW w \in AssetRequests, work[w].at = "committed", work[w].was = f
          PROVE  work'[w].at = "committed" /\ work'[w].was = f
      BY <1>0, <3>2 DEF Same
    <3> QED BY <2>1, <3>1, <3>2 DEF LibraryInv, FilesHaveRows
  <2>2. CASE f \notin DOMAIN shelf BY <1>1, <2>2
  <2> QED BY <2>1, <2>2
<1> QED BY <1>3, <1>4, <1>5, <1>6, <1>7, <1>8 DEF LibraryInv

\* r goes from a stage where its picture may still come to another one.
LEMMA SpentGrows ==
  ASSUME NEW r \in AssetRequests, SameBut(r), work[r].at \in {"begun", "saved"} \/ work'[r].at \notin {"unused", "begun", "saved"},
         NEW f, Spent(f)
  PROVE  SpentNow(f)
BY DEF Spent, SpentNow, SameBut, Same

GoesWith(r, at) ==
  /\ work'[r].at = at /\ work'[r].op = work[r].op /\ work'[r].row = work[r].row /\ work'[r].was = work[r].was
  /\ SameBut(r)

LEMMA GoesSame ==
  ASSUME AssetsTypeOK, NEW r \in AssetRequests, work[r].at # "unused", NEW at \in Stages, Goes(r, at)
  PROVE  GoesWith(r, at)
<1>1. GoesOn(r, at) /\ \A w \in AssetRequests : w # r => work'[w] = work[w]
  BY AtWorkIsRequest, GoesFacts, AssetsTypeParts
<1> QED BY <1>1 DEF GoesOn, GoesWith, SameBut, Same

\* The requests that the history of a row does not depend on.
LEMMA WasStays ==
  ASSUME LibraryInv, NEW r \in AssetRequests, NEW at \in {"saved", "committed", "ended", "failed"}, GoesWith(r, at),
         work[r].at # "unused", at = "saved" => work[r].at = "begun",
         \A x \in DOMAIN rows' :
           (x \in DOMAIN rows /\ rows'[x].image = rows[x].image) \/ rows'[x].image \in {r, NoRow},
         work[r].at \in {"begun", "saved"} \/ rows' = rows,
         at = "committed" /\ work[r].was # NoRow => \A x \in DOMAIN rows' : rows'[x].image # work[r].was
  PROVE  WasItsImage'
<1> SUFFICES ASSUME NEW w \in AssetRequests, work'[w].at # "unused", work'[w].was # NoRow
             PROVE  /\ SpentNow(work'[w].was)
                    /\ \A x \in DOMAIN rows' : rows'[x].image = work'[w].was => x = work'[w].row /\ work'[w].at # "committed"
  BY DEF WasItsImage, Spent, SpentNow
<1>1. work[w].at # "unused" /\ work'[w].was = work[w].was /\ work'[w].row = work[w].row
      /\ (w # r => work'[w].at = work[w].at)
  BY DEF GoesWith, SameBut, Same
<1>2. /\ Spent(work[w].was)
      /\ \A x \in DOMAIN rows : rows[x].image = work[w].was => x = work[w].row /\ work[w].at # "committed"
  BY <1>1 DEF LibraryInv, WasItsImage
<1>3. SpentNow(work'[w].was) BY <1>1, <1>2, SpentGrows DEF GoesWith
<1>4. ASSUME NEW x \in DOMAIN rows', rows'[x].image = work[w].was
      PROVE  x = work'[w].row /\ work'[w].at # "committed"
  <2>1. CASE x \in DOMAIN rows /\ rows'[x].image = rows[x].image
    <3>1. x = work[w].row /\ work[w].at # "committed" BY <1>2, <1>4, <2>1
    <3>2. w = r => at # "committed" BY <1>1, <1>4
    <3> QED BY <1>1, <3>1, <3>2 DEF GoesWith
  <2>2. CASE rows'[x].image = r
    <3>1. CASE work[r].at \in {"begun", "saved"} BY <1>2, <1>4, <2>2, <3>1 DEF Spent
    <3>2. CASE rows' = rows
      <4>1. x \in DOMAIN rows /\ rows'[x].image = rows[x].image BY <3>2
      <4> QED BY <2>1, <4>1
    <3> QED BY <3>1, <3>2
  <2>3. CASE rows'[x].image = NoRow BY <1>1, <1>4, <2>3
  <2> QED BY <2>1, <2>2, <2>3
<1> QED BY <1>1, <1>3, <1>4

\* A request takes its file back and fails.
LEMMA TakesBack ==
  ASSUME AssetsTypeOK, LibraryInv, NEW r \in AssetRequests, work[r].at \in {"begun", "saved"},
         work[r].op # "remove", GoesWith(r, "failed"), DOMAIN shelf' = DOMAIN shelf \ {r},
         rows' = rows, rowless' = rowless, torn' = torn
  PROVE  LibraryInv'
<1>2. GoesWith(r, "failed") OBVIOUS
<1>3. DOMAIN shelf' = DOMAIN shelf \ {r} OBVIOUS
<1>4. ASSUME NEW f, Spent(f) PROVE SpentNow(f) /\ f # r BY <1>2, <1>4, SpentGrows DEF GoesWith, Spent
<1>5. RowsAreSpent' /\ ImagesDiffer' BY <1>4 DEF LibraryInv, RowsAreSpent, ImagesDiffer, Spent, SpentNow
<1>6. WasItsImage'
  <2>1. \A x \in DOMAIN rows' :
          (x \in DOMAIN rows /\ rows'[x].image = rows[x].image) \/ rows'[x].image \in {r, NoRow}
    OBVIOUS
  <2> QED BY <1>2, <2>1, WasStays
<1>7. ShelfByKind' BY <1>2, <1>3 DEF LibraryInv, ShelfByKind, GoesWith, SameBut, Same
<1>8. RemovedIsGone' BY <1>2, <1>3 DEF LibraryInv, RemovedIsGone, GoesWith, SameBut, Same, Is
<1>9. RowsHaveFiles'
  <2>1. \A x \in DOMAIN rows : rows[x].image # r BY <1>4 DEF LibraryInv, RowsAreSpent
  <2> QED BY <1>2, <1>3, <2>1 DEF LibraryInv, RowsHaveFiles, GoesWith, SameBut, Same, Is
<1>10. FilesHaveRows' BY <1>2, <1>3 DEF LibraryInv, FilesHaveRows, GoesWith, SameBut, Same
<1> QED BY <1>5, <1>6, <1>7, <1>8, <1>9, <1>10 DEF LibraryInv

LEMMA InsertsRow ==
  ASSUME AssetsTypeOK, LibraryInv, NEW r \in AssetRequests, work[r].at = "saved", work[r].op # "remove",
         work[r].row = NoRow, InsertRow(r), torn' = torn
  PROVE  LibraryInv'
<1>0. r \in Pictures /\ r # NoRow BY NamesFacts
<1>1. CASE RowsFor(work[r].asset) # {}
  <2>1. shelf' = Drop(shelf, r) /\ Goes(r, "failed") /\ rows' = rows /\ rowless' = rowless BY <1>1 DEF InsertRow
  <2>2. GoesWith(r, "failed") BY <2>1, GoesSame DEF Stages
  <2>3. DOMAIN shelf' = DOMAIN shelf \ {r} BY <2>1 DEF Drop
  <2> QED BY <2>1, <2>2, <2>3, TakesBack
<1>2. CASE RowsFor(work[r].asset) = {}
  <2>1. /\ rows' = Plus(rows, r, [asset |-> work[r].asset, image |-> NewImage(r)])
        /\ Goes(r, "committed") /\ shelf' = shelf /\ rowless' = rowless
    BY <1>2 DEF InsertRow
  <2>2. GoesWith(r, "committed") BY <2>1, GoesSame DEF Stages
  <2>3. /\ DOMAIN rows' = DOMAIN rows \cup {r} /\ rows'[r].image = NewImage(r)
        /\ \A x \in DOMAIN rows : x # r => rows'[x] = rows[x]
    BY <2>1 DEF Plus
  <2>4. ASSUME NEW f, Spent(f) PROVE SpentNow(f) /\ f # r BY <2>2, <2>4, SpentGrows DEF GoesWith, Spent
  <2>5. SpentNow(r) /\ SpentNow(NoRow) BY <2>2, NamesFacts DEF GoesWith, SpentNow
  <2>6. NewImage(r) \in {r, NoRow} /\ (NewImage(r) = r => r \in DOMAIN shelf) /\ (r \in DOMAIN shelf => NewImage(r) = r)
    BY <1>0 DEF NewImage
  <2>7. r \notin DOMAIN rows /\ \A x \in DOMAIN rows : rows[x].image # r BY <2>4 DEF LibraryInv, RowsAreSpent
  <2>8. RowsAreSpent'
    <3>1. \A x \in DOMAIN rows' : SpentNow(x) /\ SpentNow(rows'[x].image)
      BY <2>3, <2>4, <2>5, <2>6, <2>7 DEF LibraryInv, RowsAreSpent
    <3> QED BY <3>1 DEF RowsAreSpent, Spent, SpentNow
  <2>9. ImagesDiffer' BY <2>3, <2>6, <2>7 DEF LibraryInv, ImagesDiffer
  <2>10. WasItsImage'
    <3>1. \A x \in DOMAIN rows' :
            (x \in DOMAIN rows /\ rows'[x].image = rows[x].image) \/ rows'[x].image \in {r, NoRow}
      BY <2>3, <2>6
    <3>2. work[r].was # NoRow => \A x \in DOMAIN rows' : rows'[x].image # work[r].was
      <4> SUFFICES ASSUME work[r].was # NoRow, NEW x \in DOMAIN rows', rows'[x].image = work[r].was PROVE FALSE
        OBVIOUS
      <4>1. Spent(work[r].was) /\ \A y \in DOMAIN rows : rows[y].image = work[r].was => y = NoRow
        BY DEF LibraryInv, WasItsImage
      <4>2. work[r].was # r BY <2>4, <4>1
      <4>3. NoRow \notin DOMAIN rows BY NamesFacts DEF AssetsTypeOK
      <4> QED BY <3>1, <4>1, <4>2, <4>3
    <3> QED BY <2>2, <3>1, <3>2, WasStays
  <2>11. ShelfByKind' BY <2>1, <2>2 DEF LibraryInv, ShelfByKind, GoesWith, SameBut, Same
  <2>12. RemovedIsGone' BY <2>1, <2>2 DEF LibraryInv, RemovedIsGone, GoesWith, SameBut, Same, Is
  <2>13. RowsHaveFiles'
    <3> SUFFICES ASSUME NEW x \in DOMAIN rows'
                 PROVE  \/ rows'[x].image \in DOMAIN shelf \cup torn \cup {NoRow}
                        \/ \E w \in AssetRequests : Is(w, "remove", "saved")' /\ work'[w].was = rows'[x].image
      BY <2>1 DEF RowsHaveFiles
    <3>1. CASE x = r BY <2>3, <2>6, <3>1
    <3>2. CASE x # r BY <2>2, <2>3, <3>2 DEF LibraryInv, RowsHaveFiles, GoesWith, SameBut, Same, Is
    <3> QED BY <3>1, <3>2
  <2>14. FilesHaveRows'
    <3> SUFFICES ASSUME NEW f \in DOMAIN shelf \ rowless
                 PROVE  \/ \E x \in DOMAIN rows' : rows'[x].image = f
                        \/ \E w \in AssetRequests : w = f /\ work'[w].at = "saved"
                        \/ \E w \in AssetRequests : work'[w].at = "committed" /\ work'[w].was = f
      BY <2>1 DEF FilesHaveRows
    <3>1. CASE f = r BY <2>3, <2>6, <3>1
    <3>2. CASE f # r BY <2>2, <2>3, <2>7, <3>2 DEF LibraryInv, FilesHaveRows, GoesWith, SameBut, Same
    <3> QED BY <3>1, <3>2
  <2> QED BY <2>8, <2>9, <2>10, <2>11, <2>12, <2>13, <2>14 DEF LibraryInv
<1> QED BY <1>1, <1>2

LEMMA ChangesRow ==
  ASSUME AssetsTypeOK, LibraryInv, NEW r \in AssetRequests, work[r].at = "saved", work[r].op # "remove",
         ChangeRow(r), torn' = torn
  PROVE  LibraryInv'
<1>0. r \in Pictures /\ r # NoRow BY NamesFacts
<1> DEFINE row == work[r].row
<1>1. CASE row \notin DOMAIN rows
  <2>1. shelf' = Drop(shelf, r) /\ Goes(r, "failed") /\ rows' = rows /\ rowless' = rowless BY <1>1 DEF ChangeRow
  <2>2. GoesWith(r, "failed") BY <2>1, GoesSame DEF Stages
  <2>3. DOMAIN shelf' = DOMAIN shelf \ {r} BY <2>1 DEF Drop
  <2> QED BY <2>1, <2>2, <2>3, TakesBack
<1>2. CASE row \in DOMAIN rows
  <2>1. /\ rows' = [rows EXCEPT ![row].image = NewImage(r)]
        /\ rowless' = IF rows[row].image # work[r].was THEN rowless \cup ({rows[row].image} \ {NoRow}) ELSE rowless
        /\ Goes(r, "committed") /\ shelf' = shelf
    BY <1>2 DEF ChangeRow
  <2>2. GoesWith(r, "committed") BY <2>1, GoesSame DEF Stages
  <2>0. rows[row] \in Row BY <1>2 DEF AssetsTypeOK
  <2>3. /\ DOMAIN rows' = DOMAIN rows /\ rows'[row].image = NewImage(r)
        /\ \A x \in DOMAIN rows : x # row => rows'[x].image = rows[x].image
    BY <1>2, <2>0, <2>1 DEF Row
  <2>4. ASSUME NEW f, Spent(f) PROVE SpentNow(f) /\ f # r BY <2>2, <2>4, SpentGrows DEF GoesWith, Spent
  <2>5. SpentNow(r) /\ SpentNow(NoRow) BY <2>2, NamesFacts DEF GoesWith, SpentNow
  <2>6. NewImage(r) \in {r, NoRow} /\ (NewImage(r) = r => r \in DOMAIN shelf) /\ (r \in DOMAIN shelf => NewImage(r) = r)
    BY <1>0 DEF NewImage
  <2>7. \A x \in DOMAIN rows : rows[x].image # r BY <2>4 DEF LibraryInv, RowsAreSpent
  <2> HIDE DEF row
  <2>8. RowsAreSpent'
    <3>1. \A x \in DOMAIN rows' : SpentNow(x) /\ SpentNow(rows'[x].image)
      BY <2>3, <2>4, <2>5, <2>6 DEF LibraryInv, RowsAreSpent
    <3> QED BY <3>1 DEF RowsAreSpent, Spent, SpentNow
  <2>9. ImagesDiffer' BY <2>3, <2>6, <2>7 DEF LibraryInv, ImagesDiffer
  <2>10. WasItsImage'
    <3>1. \A x \in DOMAIN rows' :
            (x \in DOMAIN rows /\ rows'[x].image = rows[x].image) \/ rows'[x].image \in {r, NoRow}
      BY <2>3, <2>6
    <3>2. work[r].was # NoRow => \A x \in DOMAIN rows' : rows'[x].image # work[r].was
      <4> SUFFICES ASSUME work[r].was # NoRow, NEW x \in DOMAIN rows, rows'[x].image = work[r].was PROVE FALSE
        BY <2>3
      <4>1. Spent(work[r].was) /\ \A y \in DOMAIN rows : rows[y].image = work[r].was => y = row
        BY DEF LibraryInv, WasItsImage, row
      <4>2. work[r].was # r BY <2>4, <4>1
      <4>3. x # row BY <2>3, <2>6, <4>2
      <4> QED BY <2>3, <4>1, <4>3
    <3> QED BY <2>2, <3>1, <3>2, WasStays
  <2>11. ShelfByKind' BY <2>1, <2>2 DEF LibraryInv, ShelfByKind, GoesWith, SameBut, Same
  <2>12. RemovedIsGone' BY <2>1, <2>2 DEF LibraryInv, RemovedIsGone, GoesWith, SameBut, Same, Is
  <2>13. RowsHaveFiles'
    <3> SUFFICES ASSUME NEW x \in DOMAIN rows
                 PROVE  \/ rows'[x].image \in DOMAIN shelf \cup torn \cup {NoRow}
                        \/ \E w \in AssetRequests : Is(w, "remove", "saved")' /\ work'[w].was = rows'[x].image
      BY <2>1, <2>3 DEF RowsHaveFiles
    <3>1. CASE x = row BY <2>3, <2>6, <3>1
    <3>2. CASE x # row BY <2>2, <2>3, <3>2 DEF LibraryInv, RowsHaveFiles, GoesWith, SameBut, Same, Is
    <3> QED BY <3>1, <3>2
  <2>14. FilesHaveRows'
    <3> SUFFICES ASSUME NEW f \in DOMAIN shelf \ rowless'
                 PROVE  \/ \E x \in DOMAIN rows' : rows'[x].image = f
                        \/ \E w \in AssetRequests : w = f /\ work'[w].at = "saved"
                        \/ \E w \in AssetRequests : work'[w].at = "committed" /\ work'[w].was = f
      BY <2>1 DEF FilesHaveRows
    <3>1. f # NoRow /\ f \notin rowless BY <2>1, NamesFacts DEF AssetsTypeOK
    <3>2. CASE f = r BY <1>2, <2>3, <2>6, <3>2 DEF row
    <3>3. ASSUME f # r, NEW x \in DOMAIN rows, rows[x].image = f
          PROVE  \/ \E y \in DOMAIN rows' : rows'[y].image = f
                 \/ work'[r].at = "committed" /\ work'[r].was = f
      <4>1. CASE x = row
        <5>1. f = work[r].was BY <2>1, <3>1, <3>3, <4>1
        <5> QED BY <2>2, <5>1 DEF GoesWith
      <4>2. CASE x # row BY <2>3, <3>3, <4>2
      <4> QED BY <4>1, <4>2
    <3>4. ASSUME NEW w \in AssetRequests, w = f, w # r, work[w].at = "saved" PROVE work'[w].at = "saved"
      BY <2>2, <3>4 DEF GoesWith, SameBut, Same
    <3>5. ASSUME NEW w \in AssetRequests, work[w].at = "committed", work[w].was = f
          PROVE  work'[w].at = "committed" /\ work'[w].was = f
      BY <2>2, <3>5 DEF GoesWith, SameBut, Same
    <3> QED BY <3>1, <3>2, <3>3, <3>4, <3>5 DEF LibraryInv, FilesHaveRows
  <2> QED BY <2>8, <2>9, <2>10, <2>11, <2>12, <2>13, <2>14 DEF LibraryInv
<1> QED BY <1>1, <1>2

\* The new file of a replacement or of a shared asset is saved, or nothing is.
LEMMA ComesToShelf ==
  ASSUME AssetsTypeOK, LibraryInv, NEW r \in AssetRequests, work[r].at = "begun",
         work[r].op \in {"replace", "share"}, NEW at \in {"saved", "failed"}, GoesWith(r, at),
         DOMAIN shelf' = DOMAIN shelf \/ (DOMAIN shelf' = DOMAIN shelf \cup {r} /\ at = "saved"),
         rows' = rows, rowless' = rowless, torn' = torn
  PROVE  LibraryInv'
<1>1. GoesWith(r, at) OBVIOUS
<1>2. /\ DOMAIN shelf \subseteq DOMAIN shelf' /\ DOMAIN shelf' \subseteq DOMAIN shelf \cup {r}
      /\ r \notin DOMAIN shelf /\ (r \in DOMAIN shelf' => at = "saved")
  BY DEF LibraryInv, ShelfByKind
<1>3. ASSUME NEW f, Spent(f) PROVE SpentNow(f) /\ f # r BY <1>1, <1>3, SpentGrows DEF GoesWith, Spent
<1>4. RowsAreSpent' /\ ImagesDiffer' BY <1>3 DEF LibraryInv, RowsAreSpent, ImagesDiffer, Spent, SpentNow
<1>5. WasItsImage'
  <2>1. \A x \in DOMAIN rows' :
          (x \in DOMAIN rows /\ rows'[x].image = rows[x].image) \/ rows'[x].image \in {r, NoRow}
    OBVIOUS
  <2> QED BY <1>1, <2>1, WasStays
<1>6. ShelfByKind' BY <1>1, <1>2 DEF LibraryInv, ShelfByKind, GoesWith, SameBut, Same
<1>7. RemovedIsGone'
  <2> SUFFICES ASSUME NEW w \in AssetRequests, Is(w, "remove", "saved")' PROVE work'[w].was \notin DOMAIN shelf'
    BY DEF RemovedIsGone
  <2>1. w # r /\ Same(w) BY <1>1 DEF GoesWith, SameBut, Is
  <2>2. Is(w, "remove", "saved") BY <2>1 DEF Same, Is
  <2>3. work[w].was \notin DOMAIN shelf BY <2>2 DEF LibraryInv, RemovedIsGone
  <2>4. work[w].was # r BY <1>3, <2>2, NamesFacts DEF LibraryInv, WasItsImage, Is
  <2> QED BY <1>2, <2>1, <2>3, <2>4 DEF Same
<1>8. RowsHaveFiles' BY <1>1, <1>2 DEF LibraryInv, RowsHaveFiles, GoesWith, SameBut, Same, Is
<1>9. FilesHaveRows' BY <1>1, <1>2 DEF LibraryInv, FilesHaveRows, GoesWith, SameBut, Same
<1> QED BY <1>4, <1>5, <1>6, <1>7, <1>8, <1>9 DEF LibraryInv

LEMMA RemovesReplaced ==
  ASSUME AssetsTypeOK, LibraryInv, NEW r \in AssetRequests, work[r].at = "committed", GoesWith(r, "ended"),
         DOMAIN shelf' = DOMAIN shelf \ {work[r].was}, rows' = rows, rowless' = rowless, torn' = torn
  PROVE  LibraryInv'
<1>1. GoesWith(r, "ended") OBVIOUS
<1>2. DOMAIN shelf' = DOMAIN shelf \ {work[r].was} OBVIOUS
<1>3. ASSUME NEW f, Spent(f) PROVE SpentNow(f) BY <1>1, <1>3, SpentGrows DEF GoesWith
<1>4. RowsAreSpent' /\ ImagesDiffer' BY <1>3 DEF LibraryInv, RowsAreSpent, ImagesDiffer, Spent, SpentNow
<1>5. WasItsImage'
  <2>1. \A x \in DOMAIN rows' :
          (x \in DOMAIN rows /\ rows'[x].image = rows[x].image) \/ rows'[x].image \in {r, NoRow}
    OBVIOUS
  <2> QED BY <1>1, <2>1, WasStays
<1>6. ShelfByKind' BY <1>1, <1>2 DEF LibraryInv, ShelfByKind, GoesWith, SameBut, Same
<1>7. RemovedIsGone' BY <1>1, <1>2 DEF LibraryInv, RemovedIsGone, GoesWith, SameBut, Same, Is
<1>8. RowsHaveFiles'
  <2>1. \A x \in DOMAIN rows : rows[x].image = NoRow \/ rows[x].image # work[r].was
    BY DEF LibraryInv, WasItsImage
  <2> QED BY <1>1, <1>2, <2>1 DEF LibraryInv, RowsHaveFiles, GoesWith, SameBut, Same, Is
<1>9. FilesHaveRows' BY <1>1, <1>2 DEF LibraryInv, FilesHaveRows, GoesWith, SameBut, Same
<1> QED BY <1>4, <1>5, <1>6, <1>7, <1>8, <1>9 DEF LibraryInv

LEMMA RemovesRow ==
  ASSUME AssetsTypeOK, LibraryInv, NEW r \in AssetRequests, RemoveRow(r)
  PROVE  LibraryInv'
<1> DEFINE row == work[r].row
<1>1. /\ work[r].op = "remove" /\ work[r].at = "saved" /\ Goes(r, "ended") /\ shelf' = shelf /\ torn' = torn
      /\ rows' = Drop(rows, row)
      /\ rowless' = IF row \in DOMAIN rows /\ rows[row].image \notin {work[r].was, NoRow}
                   THEN rowless \cup {rows[row].image} ELSE rowless
  BY DEF RemoveRow, Is
<1>2. GoesWith(r, "ended") BY <1>1, GoesSame DEF Stages
<1>3. DOMAIN rows' = DOMAIN rows \ {row} /\ \A x \in DOMAIN rows' : rows'[x] = rows[x] BY <1>1 DEF Drop
<1>4. ASSUME NEW f, Spent(f) PROVE SpentNow(f) BY <1>1, <1>2, <1>4, SpentGrows DEF GoesWith
<1> HIDE DEF row
<1>5. RowsAreSpent'
  <2>1. \A x \in DOMAIN rows' : SpentNow(x) /\ SpentNow(rows'[x].image) BY <1>3, <1>4 DEF LibraryInv, RowsAreSpent
  <2> QED BY <2>1 DEF RowsAreSpent, Spent, SpentNow
<1>6. ImagesDiffer' BY <1>3 DEF LibraryInv, ImagesDiffer
<1>7. WasItsImage'
  <2>1. \A x \in DOMAIN rows' :
          (x \in DOMAIN rows /\ rows'[x].image = rows[x].image) \/ rows'[x].image \in {r, NoRow}
    BY <1>3
  <2> QED BY <1>1, <1>2, <2>1, WasStays
<1>8. ShelfByKind' BY <1>1, <1>2 DEF LibraryInv, ShelfByKind, GoesWith, SameBut, Same
<1>9. RemovedIsGone' BY <1>1, <1>2 DEF LibraryInv, RemovedIsGone, GoesWith, SameBut, Same, Is
<1>10. RowsHaveFiles'
  <2> SUFFICES ASSUME NEW x \in DOMAIN rows, x # row, rows[x].image # NoRow
               PROVE  \/ rows[x].image \in DOMAIN shelf \cup torn \cup {NoRow}
                      \/ \E w \in AssetRequests : Is(w, "remove", "saved")' /\ work'[w].was = rows[x].image
    BY <1>1, <1>3 DEF RowsHaveFiles
  <2>1. ASSUME NEW w \in AssetRequests, Is(w, "remove", "saved"), work[w].was = rows[x].image
        PROVE  Is(w, "remove", "saved")' /\ work'[w].was = rows[x].image
    <3>1. w # r BY <2>1 DEF LibraryInv, WasItsImage, row, Is
    <3> QED BY <1>2, <2>1, <3>1 DEF GoesWith, SameBut, Same, Is
  <2> QED BY <2>1 DEF LibraryInv, RowsHaveFiles
<1>11. FilesHaveRows'
  <2> SUFFICES ASSUME NEW f \in DOMAIN shelf \ rowless'
               PROVE  \/ \E x \in DOMAIN rows' : rows'[x].image = f
                      \/ \E w \in AssetRequests : w = f /\ work'[w].at = "saved"
                      \/ \E w \in AssetRequests : work'[w].at = "committed" /\ work'[w].was = f
    BY <1>1 DEF FilesHaveRows
  <2>1. f # NoRow /\ f \notin rowless BY <1>1, NamesFacts DEF AssetsTypeOK
  <2>2. f # work[r].was BY <1>1 DEF LibraryInv, RemovedIsGone, Is
  <2>3. ASSUME NEW x \in DOMAIN rows, rows[x].image = f PROVE x \in DOMAIN rows' /\ rows'[x].image = f
    BY <1>1, <1>3, <2>1, <2>2, <2>3
  <2>4. ASSUME NEW w \in AssetRequests, w = f, work[w].at = "saved" PROVE work'[w].at = "saved"
    <3>1. w # r BY <1>1, <2>4 DEF LibraryInv, ShelfByKind
    <3> QED BY <1>2, <2>4, <3>1 DEF GoesWith, SameBut, Same
  <2>5. ASSUME NEW w \in AssetRequests, work[w].at = "committed", work[w].was = f
        PROVE  work'[w].at = "committed" /\ work'[w].was = f
    BY <1>1, <1>2, <2>5 DEF GoesWith, SameBut, Same
  <2> QED BY <2>1, <2>3, <2>4, <2>5 DEF LibraryInv, FilesHaveRows
<1> QED BY <1>5, <1>6, <1>7, <1>8, <1>9, <1>10, <1>11 DEF LibraryInv

LEMMA BeginsRemove ==
  ASSUME AssetsTypeOK, LibraryInv, NEW r \in AssetRequests, BeginRemove(r)
  PROVE  LibraryInv'
<1>1. PICK x \in DOMAIN rows :
        /\ BeganAs(r, "remove", "saved", rows[x].asset, NoPath, x, rows[x].image, r)
        /\ shelf' = Drop(shelf, rows[x].image)
  BY BeginRemoveFacts, Zenon
<1> DEFINE image == rows[x].image
<1>2. /\ work[r].at = "unused" /\ SameBut(r)
      /\ work'[r].op = "remove" /\ work'[r].at = "saved" /\ work'[r].row = x /\ work'[r].was = image
  BY <1>1, UnusedFields DEF BeganAs, SameBut, Same
<1>3. DOMAIN shelf' = DOMAIN shelf \ {image} BY <1>1 DEF Drop
<1>4. rows' = rows /\ rowless' = rowless /\ torn' = torn BY DEF BeginRemove
<1>0. \A w \in AssetRequests : w # r => Same(w) BY <1>2 DEF SameBut
<1> HIDE DEF image
<1>5. ASSUME NEW f, Spent(f) PROVE f # r /\ SpentNow(f) BY <1>0, <1>2, <1>5 DEF Spent, SpentNow, Same
<1>6. RowsAreSpent' /\ ImagesDiffer' BY <1>4, <1>5 DEF LibraryInv, RowsAreSpent, ImagesDiffer, Spent, SpentNow
<1>7. WasItsImage'
  <2> SUFFICES ASSUME NEW w \in AssetRequests, work'[w].at # "unused", work'[w].was # NoRow
               PROVE  /\ SpentNow(work'[w].was)
                      /\ \A y \in DOMAIN rows : rows[y].image = work'[w].was => y = work'[w].row /\ work'[w].at # "committed"
    BY <1>4 DEF WasItsImage, Spent, SpentNow
  <2>1. CASE w = r
    <3>1. Spent(image) BY DEF LibraryInv, RowsAreSpent, image
    <3>2. \A y \in DOMAIN rows : rows[y].image = image => y = x
      BY <1>2, <2>1 DEF LibraryInv, ImagesDiffer, image
    <3> QED BY <1>2, <1>5, <2>1, <3>1, <3>2
  <2>2. CASE w # r
    <3>1. Same(w) BY <1>0, <2>2
    <3>2. Spent(work[w].was)
          /\ \A y \in DOMAIN rows : rows[y].image = work[w].was => y = work[w].row /\ work[w].at # "committed"
      BY <3>1 DEF LibraryInv, WasItsImage, Same
    <3> QED BY <1>5, <3>1, <3>2 DEF Same
  <2> QED BY <2>1, <2>2
<1>8. ShelfByKind' BY <1>0, <1>2, <1>3 DEF LibraryInv, ShelfByKind, Same
<1>9. RemovedIsGone'
  <2> SUFFICES ASSUME NEW w \in AssetRequests, Is(w, "remove", "saved")' PROVE work'[w].was \notin DOMAIN shelf'
    BY DEF RemovedIsGone
  <2>1. CASE w = r BY <1>2, <1>3, <2>1
  <2>2. CASE w # r BY <1>0, <1>3, <2>2 DEF LibraryInv, RemovedIsGone, Is, Same
  <2> QED BY <2>1, <2>2
<1>10. RowsHaveFiles'
  <2> SUFFICES ASSUME NEW y \in DOMAIN rows
               PROVE  \/ rows[y].image \in DOMAIN shelf' \cup torn \cup {NoRow}
                      \/ \E w \in AssetRequests : Is(w, "remove", "saved")' /\ work'[w].was = rows[y].image
    BY <1>4 DEF RowsHaveFiles
  <2>1. CASE rows[y].image = image
    <3>1. Is(r, "remove", "saved")' /\ work'[r].was = rows[y].image BY <1>2, <2>1 DEF Is
    <3> QED BY <3>1
  <2>2. CASE rows[y].image # image
    <3>1. ASSUME NEW w \in AssetRequests, Is(w, "remove", "saved"), work[w].was = rows[y].image
          PROVE  Is(w, "remove", "saved")' /\ work'[w].was = rows[y].image
      BY <1>0, <1>2, <3>1 DEF Is, Same
    <3> QED BY <1>3, <2>2, <3>1 DEF LibraryInv, RowsHaveFiles
  <2> QED BY <2>1, <2>2
<1>11. FilesHaveRows'
  <2> SUFFICES ASSUME NEW f \in DOMAIN shelf \ rowless
               PROVE  \/ \E y \in DOMAIN rows : rows[y].image = f
                      \/ \E w \in AssetRequests : w = f /\ work'[w].at = "saved"
                      \/ \E w \in AssetRequests : work'[w].at = "committed" /\ work'[w].was = f
    BY <1>3, <1>4 DEF FilesHaveRows
  <2>1. ASSUME NEW w \in AssetRequests, w = f, work[w].at = "saved" PROVE work'[w].at = "saved"
    BY <1>0, <1>2, <2>1 DEF Same
  <2>2. ASSUME NEW w \in AssetRequests, work[w].at = "committed", work[w].was = f
        PROVE  work'[w].at = "committed" /\ work'[w].was = f
    BY <1>0, <1>2, <2>2 DEF Same
  <2> QED BY <2>1, <2>2 DEF LibraryInv, FilesHaveRows
<1> QED BY <1>6, <1>7, <1>8, <1>9, <1>10, <1>11 DEF LibraryInv

LEMMA Renames ==
  ASSUME AssetsTypeOK, LibraryInv, NEW x, RenameAsset(x)
  PROVE  LibraryInv'
<1>1. x \in DOMAIN rows /\ shelf' = shelf /\ rowless' = rowless /\ torn' = torn /\ work' = work BY DEF RenameAsset
<1>2. PICK a \in Shareable : rows' = [rows EXCEPT ![x].asset = a] BY DEF RenameAsset
<1>3. DOMAIN rows' = DOMAIN rows /\ \A y \in DOMAIN rows : rows'[y].image = rows[y].image
  BY <1>1, <1>2, RowFacts DEF Row
<1>4. RowsAreSpent' /\ ImagesDiffer' BY <1>1, <1>3 DEF LibraryInv, RowsAreSpent, ImagesDiffer, Spent
<1>5. WasItsImage' BY <1>1, <1>3 DEF LibraryInv, WasItsImage, Spent
<1>6. ShelfByKind' /\ RemovedIsGone' BY <1>1 DEF LibraryInv, ShelfByKind, RemovedIsGone, Is
<1>7. RowsHaveFiles' BY <1>1, <1>3 DEF LibraryInv, RowsHaveFiles, Is
<1>8. FilesHaveRows' BY <1>1, <1>3 DEF LibraryInv, FilesHaveRows
<1> QED BY <1>4, <1>5, <1>6, <1>7, <1>8 DEF LibraryInv

LEMMA Fails ==
  ASSUME AssetsTypeOK, LibraryInv, NEW r \in AssetRequests, RequestFails(r)
  PROVE  LibraryInv'
<1>1. work[r].at \in {"begun", "saved", "committed"} /\ Goes(r, "failed") /\ rows' = rows BY FailsFacts
<1>2. GoesWith(r, "failed") BY <1>1, GoesSame DEF Stages
<1>3. ASSUME NEW f, Spent(f) PROVE SpentNow(f) /\ (work[r].at # "committed" => f # r)
  BY <1>1, <1>2, <1>3, SpentGrows DEF GoesWith, Spent
<1>4. /\ torn \subseteq torn' /\ rowless \subseteq rowless'
      /\ DOMAIN shelf \ {r} \subseteq DOMAIN shelf' /\ DOMAIN shelf' \subseteq DOMAIN shelf \cup {r}
      /\ r \in DOMAIN shelf \ DOMAIN shelf' => r \in torn' \/ work[r].at # "committed"
      /\ r \in DOMAIN shelf' \ DOMAIN shelf =>
           r \in rowless' /\ work[r].op \in {"create", "replace", "share"} /\ work[r].at # "committed"
      /\ r \in DOMAIN shelf' /\ work[r].op \in {"create", "replace", "share"} => r \in rowless' \/ work[r].at = "committed"
      /\ work[r].op = "remove" /\ work[r].at = "saved" => work[r].was \in torn' \cup {NoRow}
      /\ work[r].at = "committed" => work[r].was \in rowless' \cup {NoRow}
  <2>1. CASE TakesFileBack(r) BY <2>1 DEF TakesFileBack, NewFileOps, Drop
  <2>2. CASE LeavesHalfFile(r) BY <2>2 DEF LeavesHalfFile, Is, Plus
  <2>3. CASE RefreshFails(r) BY <2>3 DEF RefreshFails, OldImage, Drop
  <2>4. CASE KeepsReplaced(r) BY <2>4 DEF KeepsReplaced, OldImage
  <2>5. CASE FailsElsewhere(r) BY <2>5 DEF FailsElsewhere, NewFileOps, OldImage
  <2> QED BY <2>1, <2>2, <2>3, <2>4, <2>5 DEF RequestFails
<1>5. RowsAreSpent' /\ ImagesDiffer' BY <1>1, <1>3 DEF LibraryInv, RowsAreSpent, ImagesDiffer, Spent, SpentNow
<1>6. WasItsImage'
  <2>1. \A x \in DOMAIN rows' :
          (x \in DOMAIN rows /\ rows'[x].image = rows[x].image) \/ rows'[x].image \in {r, NoRow}
    BY <1>1
  <2> QED BY <1>1, <1>2, <2>1, WasStays
<1>7. ShelfByKind' BY <1>2, <1>4 DEF LibraryInv, ShelfByKind, GoesWith, SameBut, Same
<1>8. RemovedIsGone'
  <2> SUFFICES ASSUME NEW w \in AssetRequests, Is(w, "remove", "saved")' PROVE work'[w].was \notin DOMAIN shelf'
    BY DEF RemovedIsGone
  <2>1. w # r /\ Same(w) BY <1>2 DEF GoesWith, SameBut, Is
  <2>2. Is(w, "remove", "saved") BY <2>1 DEF Same, Is
  <2>3. work[w].was \notin DOMAIN shelf BY <2>2 DEF LibraryInv, RemovedIsGone
  <2>4. work[r].at # "committed" => work[w].was # r BY <1>3, <2>2, NamesFacts DEF LibraryInv, WasItsImage, Is
  <2> QED BY <1>4, <2>1, <2>3, <2>4 DEF Same
<1>9. RowsHaveFiles'
  <2> SUFFICES ASSUME NEW x \in DOMAIN rows
               PROVE  \/ rows[x].image \in DOMAIN shelf' \cup torn' \cup {NoRow}
                      \/ \E w \in AssetRequests : Is(w, "remove", "saved")' /\ work'[w].was = rows[x].image
    BY <1>1 DEF RowsHaveFiles
  <2>1. rows[x].image \in DOMAIN shelf => rows[x].image \in DOMAIN shelf' \cup torn'
    BY <1>3, <1>4 DEF LibraryInv, RowsAreSpent
  <2>2. ASSUME NEW w \in AssetRequests, Is(w, "remove", "saved"), work[w].was = rows[x].image
        PROVE  \/ rows[x].image \in torn' \cup {NoRow}
               \/ Is(w, "remove", "saved")' /\ work'[w].was = rows[x].image
    BY <1>2, <1>4, <2>2 DEF GoesWith, SameBut, Same, Is
  <2> QED BY <1>4, <2>1, <2>2 DEF LibraryInv, RowsHaveFiles
<1>10. FilesHaveRows'
  <2> SUFFICES ASSUME NEW f \in DOMAIN shelf' \ rowless'
               PROVE  \/ \E x \in DOMAIN rows : rows[x].image = f
                      \/ \E w \in AssetRequests : w = f /\ work'[w].at = "saved"
                      \/ \E w \in AssetRequests : work'[w].at = "committed" /\ work'[w].was = f
    BY <1>1 DEF FilesHaveRows
  <2>1. f \in DOMAIN shelf \ rowless /\ f # NoRow BY <1>4, NamesFacts DEF AssetsTypeOK
  <2>2. ASSUME NEW w \in AssetRequests, w = f, work[w].at = "saved" PROVE work'[w].at = "saved"
    <3>1. w # r BY <1>4, <2>1, <2>2 DEF LibraryInv, ShelfByKind
    <3> QED BY <1>2, <2>2, <3>1 DEF GoesWith, SameBut, Same
  <2>3. ASSUME NEW w \in AssetRequests, work[w].at = "committed", work[w].was = f
        PROVE  work'[w].at = "committed" /\ work'[w].was = f
    <3>1. w # r BY <1>4, <2>1, <2>3
    <3> QED BY <1>2, <2>3, <3>1 DEF GoesWith, SameBut, Same
  <2> QED BY <2>1, <2>2, <2>3 DEF LibraryInv, FilesHaveRows
<1> QED BY <1>5, <1>6, <1>7, <1>8, <1>9, <1>10 DEF LibraryInv

LEMMA LivesSame ==
  ASSUME NEW w, NEW a, NEW picture, Lives(w, a, picture)
  PROVE  Same(w)
BY DEF Lives, Still, Same

LEMMA BeginUploadFacts ==
  ASSUME AssetsTypeOK, NEW r \in AssetRequests, BeginUpload(r)
  PROVE  \E a \in Assets, place \in {"sheet", "ref"}, ext \in Exts :
           /\ BeganAs(r, "upload", "saved", a, <<a, place, ext>>, NoRow, NoRow, r)
           /\ disk' = Plus(disk, <<a, place, ext>>, r)
<1>1. PICK a \in Assets, place \in {"sheet", "ref"}, ext \in Exts :
        /\ Begin(r, "upload", "saved", a, <<a, place, ext>>, NoRow, NoRow, r)
        /\ disk' = Plus(disk, <<a, place, ext>>, r)
  BY DEF BeginUpload
<1>2. <<a, place, ext>> \in Paths BY PathFacts, PlacesFacts
<1>3. "upload" \in Ops /\ "saved" \in Stages /\ <<a, place, ext>> \in Paths \cup {NoPath} /\ a \in Assets
      /\ r \in Pictures /\ NoRow \in Pictures \cup {NoRow} /\ WorkOK /\ SettledOK
  BY <1>2, AssetsTypeParts DEF Ops, Stages, Pictures
<1>4. BeganAs(r, "upload", "saved", a, <<a, place, ext>>, NoRow, NoRow, r) BY <1>1, <1>3, BeginFacts, Zenon
<1> QED BY <1>1, <1>4

LEMMA BeginOriginalFacts ==
  ASSUME AssetsTypeOK, NEW r \in AssetRequests, BeginOriginal(r)
  PROVE  \E a \in Assets, n \in 1..3, ext \in Exts :
           /\ BeganAs(r, "original", "saved", a, <<a, OriginalPlaces[n], ext>>, NoRow, NoRow, r)
           /\ disk' = Plus(disk, <<a, OriginalPlaces[n], ext>>, r)
<1>1. PICK a \in DOMAIN entries, ext \in Exts, n \in DOMAIN OriginalPlaces :
        /\ Begin(r, "original", "saved", a, <<a, OriginalPlaces[n], ext>>, NoRow, NoRow, r)
        /\ disk' = Plus(disk, <<a, OriginalPlaces[n], ext>>, r)
  BY DEF BeginOriginal
<1>2. a \in Assets /\ n \in 1..3 BY PlacesFacts DEF AssetsTypeOK
<1>3. <<a, OriginalPlaces[n], ext>> \in Paths BY <1>2, PathFacts, PlacesFacts
<1>4. "original" \in Ops /\ "saved" \in Stages /\ <<a, OriginalPlaces[n], ext>> \in Paths \cup {NoPath}
      /\ r \in Pictures /\ NoRow \in Pictures \cup {NoRow} /\ WorkOK /\ SettledOK
  BY <1>3, AssetsTypeParts DEF Ops, Stages, Pictures
<1>5. BeganAs(r, "original", "saved", a, <<a, OriginalPlaces[n], ext>>, NoRow, NoRow, r)
  BY <1>1, <1>2, <1>4, BeginFacts, Zenon
<1> QED BY <1>1, <1>2, <1>5

LEMMA BeginDesignFacts ==
  ASSUME AssetsTypeOK, NEW r \in AssetRequests, BeginDesign(r)
  PROVE  \E a \in Assets : BeganAs(r, "design", "begun", a, Png(a), NoRow, NoRow, r)
<1>1. PICK a \in DOMAIN entries : Begin(r, "design", "begun", a, Png(a), NoRow, NoRow, r) BY DEF BeginDesign
<1>2. a \in Assets /\ Png(a) \in Paths BY PngFacts DEF AssetsTypeOK
<1>3. "design" \in Ops /\ "begun" \in Stages /\ Png(a) \in Paths \cup {NoPath}
      /\ r \in Pictures /\ NoRow \in Pictures \cup {NoRow} /\ WorkOK /\ SettledOK
  BY <1>2, AssetsTypeParts DEF Ops, Stages, Pictures
<1>4. BeganAs(r, "design", "begun", a, Png(a), NoRow, NoRow, r) BY <1>1, <1>2, <1>3, BeginFacts, Zenon
<1> QED BY <1>2, <1>4

LEMMA LibraryInit == AssetsInit => LibraryInv
<1> SUFFICES ASSUME AssetsInit PROVE LibraryInv OBVIOUS
<1>1. PICK a \in Shareable :
        \/ /\ rows = Plus(<<>>, FirstRow, [asset |-> a, image |-> FirstRow])
           /\ shelf = Plus(<<>>, FirstRow, [of |-> FirstRow, ext |-> "jpg"])
        \/ rows = <<>> /\ shelf = <<>>
  BY DEF AssetsInit
<1>2. \A r \in AssetRequests : work[r].at = "unused" BY UnusedFields DEF AssetsInit
<1>3. \/ /\ DOMAIN rows = {FirstRow} /\ rows[FirstRow].image = FirstRow /\ DOMAIN shelf = {FirstRow}
      \/ DOMAIN rows = {} /\ DOMAIN shelf = {}
  <2>1. CASE rows = <<>> /\ shelf = <<>> BY <2>1
  <2>2. CASE /\ rows = Plus(<<>>, FirstRow, [asset |-> a, image |-> FirstRow])
             /\ shelf = Plus(<<>>, FirstRow, [of |-> FirstRow, ext |-> "jpg"])
    <3>1. DOMAIN <<>> = {} OBVIOUS
    <3> QED BY <2>2, <3>1 DEF Plus
  <2> QED BY <1>1, <2>1, <2>2
<1>4. Spent(FirstRow) BY NamesFacts DEF Spent
<1>5. RowsAreSpent /\ ImagesDiffer BY <1>3, <1>4 DEF RowsAreSpent, ImagesDiffer
<1>6. WasItsImage /\ RemovedIsGone BY <1>2 DEF WasItsImage, RemovedIsGone, Is
<1>7. ShelfByKind BY <1>3, NamesFacts DEF ShelfByKind
<1>8. RowsHaveFiles /\ FilesHaveRows BY <1>3 DEF RowsHaveFiles, FilesHaveRows
<1> QED BY <1>5, <1>6, <1>7, <1>8 DEF LibraryInv

LEMMA RecordsGoesOn ==
  ASSUME AssetsTypeOK, NEW r \in AssetRequests, work[r] \in Request, NEW path, NEW at \in Stages, Records(r, path, at)
  PROVE  /\ SameBut(r) /\ work'[r].at \in {"ended", at}
         /\ work'[r].op = work[r].op /\ work'[r].row = work[r].row /\ work'[r].was = work[r].was
<1> USE AssetsTypeParts
<1> DEFINE q == [work[r] EXCEPT !.at = "ended"]
<1>1. CASE Registered(work[r].asset)
  <2>1. Shows(r, q, work[r].of) BY <1>1 DEF Records
  <2>2. q \in Request /\ q.at = "ended" /\ q.op = work[r].op /\ q.row = work[r].row /\ q.was = work[r].was
    BY AtFields DEF Stages
  <2> HIDE DEF q
  <2>3. work'[r] = q /\ \A w \in AssetRequests : w # r => Lives(w, q.asset, work[r].of)
    BY <2>1, <2>2, ShowsFacts
  <2> QED BY <2>2, <2>3, LivesSame DEF SameBut
<1>2. CASE ~Registered(work[r].asset)
  <2>1. Goes(r, at) BY <1>2 DEF Records
  <2>2. GoesOn(r, at) /\ \A w \in AssetRequests : w # r => work'[w] = work[w] BY <2>1, GoesFacts
  <2> QED BY <2>2 DEF GoesOn, SameBut, Same
<1> QED BY <1>1, <1>2

LEMMA ShownGoesOn ==
  ASSUME AssetsTypeOK, NEW r \in AssetRequests, work[r] \in Request, NEW at \in Stages, NEW picture,
         Shows(r, [work[r] EXCEPT !.at = at], picture)
  PROVE  /\ SameBut(r) /\ work'[r].at = at
         /\ work'[r].op = work[r].op /\ work'[r].row = work[r].row /\ work'[r].was = work[r].was
<1> DEFINE q == [work[r] EXCEPT !.at = at]
<1>1. q \in Request /\ q.at = at /\ q.op = work[r].op /\ q.row = work[r].row /\ q.was = work[r].was
  BY AtFields
<1>2. Shows(r, q, picture) OBVIOUS
<1> HIDE DEF q
<1>3. work'[r] = q /\ \A w \in AssetRequests : w # r => Lives(w, q.asset, picture)
  BY <1>1, <1>2, ShowsFacts, AssetsTypeParts
<1> QED BY <1>1, <1>3, LivesSame DEF SameBut

LEMMA EntriesInLibrary ==
  ASSUME AssetsTypeOK, LibraryInv, NEW a \in Assets,
         AddEntry(a) \/ UpsertAssets(a) \/ UpdateEntry(a) \/ DeleteEntry(a)
  PROVE  LibraryInv'
<1>1. UNCHANGED libraryVars BY DEF AddEntry, UpsertAssets, UpdateEntry, DeleteEntry
<1>2. \A w \in AssetRequests : Same(w)
  <2>1. CASE work' = work BY <2>1 DEF Same
  <2>2. CASE work' # work
    <3>1. UpdateEntry(a) BY <2>2 DEF AddEntry, UpsertAssets, DeleteEntry
    <3>2. PICK p \in DOMAIN disk : work' = [w \in AssetRequests |-> Outlives(disk[p], a, w)]
      BY <2>2, <3>1 DEF UpdateEntry
    <3>3. ASSUME NEW w \in AssetRequests PROVE Same(w)
      <4>1. work'[w] = Outlives(disk[p], a, w) BY <3>2
      <4>2. WorkOK BY AssetsTypeParts
      <4> QED BY <4>1, <4>2, OutlivesFacts DEF Same
    <3> QED BY <3>3
  <2> QED BY <2>1, <2>2
<1> QED BY <1>1, <1>2, NothingInLibrary

LEMMA PicturesInLibrary ==
  ASSUME AssetsTypeOK, LibraryInv, NEW r \in AssetRequests, Uploads(r) \/ Sheets(r)
  PROVE  LibraryInv'
<1>0. UNCHANGED libraryVars
  BY DEF Uploads, BeginUpload, RecordUpload, BeginOriginal, RecordOriginal,
         Sheets, BeginDesign, DrawDesign, RecordDesign, BeginRestore, RecordRestore
<1>1. rows' = rows /\ shelf' = shelf /\ rowless' = rowless /\ torn' = torn BY <1>0 DEF libraryVars
<1>2. CASE BeginUpload(r)
  <2>1. PICK a \in Assets, place \in {"sheet", "ref"}, ext \in Exts :
          BeganAs(r, "upload", "saved", a, <<a, place, ext>>, NoRow, NoRow, r)
    BY <1>2, BeginUploadFacts, Zenon
  <2>2. work[r].at = "unused" /\ SameBut(r) /\ work'[r].op = "upload" /\ work'[r].at = "saved" /\ work'[r].was = NoRow
    BY <2>1, UnusedFields DEF BeganAs, SameBut, Same
  <2> QED BY <1>1, <2>2, BeginsInLibrary
<1>3. CASE BeginOriginal(r)
  <2>1. PICK a \in Assets, n \in 1..3, ext \in Exts :
          BeganAs(r, "original", "saved", a, <<a, OriginalPlaces[n], ext>>, NoRow, NoRow, r)
    BY <1>3, BeginOriginalFacts, Zenon
  <2>2. work[r].at = "unused" /\ SameBut(r) /\ work'[r].op = "original" /\ work'[r].at = "saved" /\ work'[r].was = NoRow
    BY <2>1, UnusedFields DEF BeganAs, SameBut, Same
  <2> QED BY <1>1, <2>2, BeginsInLibrary
<1>4. CASE BeginDesign(r)
  <2>1. PICK a \in Assets : BeganAs(r, "design", "begun", a, Png(a), NoRow, NoRow, r)
    BY <1>4, BeginDesignFacts, Zenon
  <2>2. work[r].at = "unused" /\ SameBut(r) /\ work'[r].op = "design" /\ work'[r].at = "begun" /\ work'[r].was = NoRow
    BY <2>1, UnusedFields DEF BeganAs, SameBut, Same
  <2> QED BY <1>1, <2>2, BeginsInLibrary
<1>5. CASE BeginRestore(r)
  <2>1. PICK a \in Assets, n \in 1..MaxAssetVersions :
               /\ work[r] = Unused /\ work'[r].op = "restore" /\ work'[r].at = "saved" /\ work'[r].was = NoRow
               /\ \A w \in AssetRequests : w # r => Lives(w, a, disk[VersionPath(a, n)])
    BY <1>5, RestoreFacts, Zenon
  <2>2. SameBut(r) BY <2>1, LivesSame DEF SameBut
  <2> QED BY <1>1, <2>1, <2>2, UnusedFields, BeginsInLibrary
<1>6. CASE RecordUpload(r) \/ RecordOriginal(r) \/ DrawDesign(r) \/ RecordDesign(r) \/ RecordRestore(r)
  <2>1. /\ work[r].op \in {"upload", "original", "design", "restore"} /\ work[r].at \in {"begun", "saved"}
        /\ work[r] \in Request
    BY <1>6, AtWorkIsRequest, AssetsTypeParts
    DEF RecordUpload, RecordOriginal, DrawDesign, RecordDesign, RecordRestore, Is
  <2>2. \/ Goes(r, "saved") \/ Goes(r, "ended") \/ Goes(r, "failed")
        \/ \E path, at : at \in {"ended", "failed"} /\ Records(r, path, at)
    BY <1>6 DEF RecordUpload, RecordOriginal, DrawDesign, RecordDesign, RecordRestore
  <2>3. SameBut(r) /\ work'[r].at \in {"saved", "ended", "failed"}
        /\ work'[r].op = work[r].op /\ work'[r].row = work[r].row /\ work'[r].was = work[r].was
    <3>1. CASE Goes(r, "saved") \/ Goes(r, "ended") \/ Goes(r, "failed")
      BY <2>1, <3>1, GoesSame DEF GoesWith, Stages
    <3>2. CASE \E path, at : at \in {"ended", "failed"} /\ Records(r, path, at)
      <4>1. PICK path, at : at \in {"ended", "failed"} /\ Records(r, path, at) BY <3>2
      <4>2. at \in Stages BY <4>1 DEF Stages
      <4> QED BY <2>1, <4>1, <4>2, RecordsGoesOn
    <3> QED BY <2>2, <3>1, <3>2
  <2> QED BY <1>0, <2>1, <2>3, ElsewhereGoesOn
<1> QED BY <1>2, <1>3, <1>4, <1>5, <1>6 DEF Uploads, Sheets

LEMMA LibraryRequests ==
  ASSUME AssetsTypeOK, LibraryFits, LibraryInv, NEW r \in AssetRequests, Library(r)
  PROVE  LibraryInv'
<1>1. CASE CreateAsset(r)
  <2>1. PICK a \in Shareable, ext \in Exts \cup {NoRow} :
           /\ BeganAs(r, "create", "saved", a, NoPath, NoRow, NoRow, r)
           /\ shelf' = IF ext = NoRow THEN shelf ELSE Plus(shelf, r, [of |-> r, ext |-> ext])
    BY <1>1, CreateFacts, Zenon
  <2>2. work[r].at = "unused" /\ SameBut(r) /\ work'[r].op = "create" /\ work'[r].at = "saved" /\ work'[r].was = NoRow
    BY <2>1, UnusedFields DEF BeganAs, SameBut, Same
  <2>3. shelf' = shelf \/ DOMAIN shelf' = DOMAIN shelf \cup {r} BY <2>1 DEF Plus
  <2>4. rows' = rows /\ rowless' = rowless /\ torn' = torn BY <1>1 DEF CreateAsset
  <2> QED BY <2>2, <2>3, <2>4, BeginsInLibrary
<1>2. CASE InsertAsset(r)
  <2>1. work[r].op = "create" /\ work[r].at = "saved" /\ InsertRow(r) /\ torn' = torn BY <1>2 DEF InsertAsset, Is
  <2>2. work[r].row = NoRow BY <2>1, UnusedFields DEF LibraryFits, Shared
  <2> QED BY <2>1, <2>2, InsertsRow
<1>3. CASE BeginRemove(r) BY <1>3, BeginsRemove
<1>4. CASE RemoveRow(r) BY <1>4, RemovesRow
<1>5. CASE BeginReplace(r)
  <2>1. PICK x \in DOMAIN rows : BeganAs(r, "replace", "begun", rows[x].asset, NoPath, x, rows[x].image, r)
    BY <1>5, BeginReplaceFacts, Zenon
  <2>2. /\ work[r].at = "unused" /\ SameBut(r) /\ work'[r].op = "replace" /\ work'[r].at = "begun"
        /\ work'[r].row = x /\ work'[r].was = rows[x].image
    BY <2>1, UnusedFields DEF BeganAs, SameBut, Same
  <2>3. rows' = rows /\ shelf' = shelf /\ rowless' = rowless /\ torn' = torn BY <1>5 DEF BeginReplace, libraryVars
  <2> QED BY <2>2, <2>3, BeginsInLibrary
<1>6. CASE SaveReplacement(r)
  <2>1. /\ work[r].op = "replace" /\ work[r].at = "begun" /\ Goes(r, "saved")
        /\ rows' = rows /\ rowless' = rowless /\ torn' = torn
    BY <1>6 DEF SaveReplacement, Is
  <2>2. GoesWith(r, "saved") BY <2>1, GoesSame DEF Stages
  <2>3. DOMAIN shelf' = DOMAIN shelf \cup {r} BY <1>6 DEF SaveReplacement, Plus
  <2> QED BY <2>1, <2>2, <2>3, ComesToShelf
<1>7. CASE CommitReplacement(r)
  <2>1. work[r].op = "replace" /\ work[r].at = "saved" /\ ChangeRow(r) /\ torn' = torn
    BY <1>7 DEF CommitReplacement, Is
  <2> QED BY <2>1, ChangesRow
<1>8. CASE RemoveReplaced(r)
  <2>1. work[r].at = "committed" /\ Goes(r, "ended") /\ rows' = rows /\ rowless' = rowless /\ torn' = torn
    BY <1>8 DEF RemoveReplaced
  <2>2. GoesWith(r, "ended") BY <2>1, GoesSame DEF Stages
  <2>3. DOMAIN shelf' = DOMAIN shelf \ {work[r].was} BY <1>8 DEF RemoveReplaced, Drop
  <2> QED BY <2>1, <2>2, <2>3, RemovesReplaced
<1>9. CASE BeginShare(r)
  <2>1. PICK a \in DOMAIN entries \cap Shareable, path \in Paths \cup {NoPath},
             x \in DOMAIN rows \cup {NoRow}, was \in Pictures \cup {NoRow} :
          /\ BeganAs(r, "share", "begun", a, path, x, was, r)
          /\ IF x = NoRow THEN was = NoRow ELSE x \in DOMAIN rows /\ was = rows[x].image
    BY <1>9, BeginShareFacts, Zenon
  <2>2. /\ work[r].at = "unused" /\ SameBut(r) /\ work'[r].op = "share" /\ work'[r].at = "begun"
        /\ work'[r].row = x /\ work'[r].was = was
    BY <2>1, UnusedFields DEF BeganAs, SameBut, Same
  <2>3. rows' = rows /\ shelf' = shelf /\ rowless' = rowless /\ torn' = torn BY <1>9 DEF BeginShare, libraryVars
  <2>4. was = NoRow \/ (x \in DOMAIN rows /\ was = rows[x].image) BY <2>1
  <2> QED BY <2>2, <2>3, <2>4, BeginsInLibrary
<1>10. CASE CopyToShelf(r)
  <2>1. /\ work[r].op = "share" /\ work[r].at = "begun" /\ rows' = rows /\ rowless' = rowless /\ torn' = torn
    BY <1>10 DEF CopyToShelf, Is
  <2>2. \/ Goes(r, "saved") /\ (shelf' = shelf \/ DOMAIN shelf' = DOMAIN shelf \cup {r})
        \/ Goes(r, "failed") /\ shelf' = shelf
    BY <1>10 DEF CopyToShelf, Plus
  <2>3. PICK at \in {"saved", "failed"} :
          Goes(r, at) /\ (DOMAIN shelf' = DOMAIN shelf \/ (DOMAIN shelf' = DOMAIN shelf \cup {r} /\ at = "saved"))
    BY <2>2
  <2>4. GoesWith(r, at) BY <2>1, <2>3, GoesSame DEF Stages
  <2> QED BY <2>1, <2>3, <2>4, ComesToShelf
<1>11. CASE WriteShared(r)
  <2>1. work[r].op = "share" /\ work[r].at = "saved" /\ torn' = torn
        /\ ((work[r].row = NoRow /\ InsertRow(r)) \/ ChangeRow(r))
    BY <1>11 DEF WriteShared, Is
  <2> QED BY <2>1, InsertsRow, ChangesRow
<1>12. CASE BeginApply(r)
  <2>1. PICK a \in Assets, path \in Paths \cup {NoPath}, x \in DOMAIN rows, of \in Pictures :
           BeganAs(r, "apply", "begun", a, path, x, rows[x].image, of)
    BY <1>12, BeginApplyFacts, Zenon
  <2>2. /\ work[r].at = "unused" /\ SameBut(r) /\ work'[r].op = "apply" /\ work'[r].at = "begun"
        /\ work'[r].row = x /\ work'[r].was = rows[x].image
    BY <2>1, UnusedFields DEF BeganAs, SameBut, Same
  <2>3. rows' = rows /\ shelf' = shelf /\ rowless' = rowless /\ torn' = torn BY <1>12 DEF BeginApply, libraryVars
  <2> QED BY <2>2, <2>3, BeginsInLibrary
<1>13. CASE CopyFromShelf(r) \/ WriteApplied(r)
  <2>1. /\ work[r].op = "apply" /\ work[r].at \in {"begun", "saved"} /\ work[r] \in Request
        /\ UNCHANGED libraryVars
    BY <1>13, AtWorkIsRequest, AssetsTypeParts DEF CopyFromShelf, WriteApplied, Is
  <2>2. \/ Goes(r, "saved") \/ Goes(r, "failed")
        \/ \E picture, at : at \in {"saved", "ended"} /\ Shows(r, [work[r] EXCEPT !.at = at], picture)
    BY <1>13 DEF CopyFromShelf, WriteApplied, PutsBack
  <2>3. SameBut(r) /\ work'[r].at \in {"saved", "ended", "failed"}
        /\ work'[r].op = work[r].op /\ work'[r].row = work[r].row /\ work'[r].was = work[r].was
    <3>1. CASE Goes(r, "saved") \/ Goes(r, "failed") BY <2>1, <3>1, GoesSame DEF GoesWith, Stages
    <3>2. CASE \E picture, at : at \in {"saved", "ended"} /\ Shows(r, [work[r] EXCEPT !.at = at], picture)
      <4>1. PICK picture, at : at \in {"saved", "ended"} /\ Shows(r, [work[r] EXCEPT !.at = at], picture) BY <3>2
      <4>2. at \in Stages BY <4>1 DEF Stages
      <4> QED BY <2>1, <4>1, <4>2, ShownGoesOn
    <3> QED BY <2>2, <3>1, <3>2
  <2> QED BY <2>1, <2>3, ElsewhereGoesOn
<1> QED BY <1>1, <1>2, <1>3, <1>4, <1>5, <1>6, <1>7, <1>8, <1>9, <1>10, <1>11, <1>12, <1>13 DEF Library

LEMMA LibraryStep == AssetsTypeOK /\ LibraryFits /\ LibraryInv /\ [AssetsNext]_assetVars => LibraryInv'
<1> SUFFICES ASSUME AssetsTypeOK, LibraryFits, LibraryInv, [AssetsNext]_assetVars PROVE LibraryInv' OBVIOUS
<1>1. CASE \E a \in Assets : AddEntry(a) \/ UpsertAssets(a) \/ UpdateEntry(a) \/ DeleteEntry(a)
  BY <1>1, EntriesInLibrary
<1>2. CASE LoseFile
  <2>1. UNCHANGED libraryVars /\ \A w \in AssetRequests : Same(w) BY <1>2 DEF LoseFile, Same
  <2> QED BY <2>1, NothingInLibrary
<1>3. CASE \E x \in Pictures : RenameAsset(x) BY <1>3, Renames
<1>4. ASSUME NEW r \in AssetRequests, Uploads(r) \/ Sheets(r) \/ Library(r) \/ RequestFails(r) PROVE LibraryInv'
  BY <1>4, PicturesInLibrary, LibraryRequests, Fails
<1>5. CASE UNCHANGED assetVars
  <2>1. UNCHANGED libraryVars /\ \A w \in AssetRequests : Same(w) BY <1>5 DEF assetVars, libraryVars, Same
  <2> QED BY <2>1, NothingInLibrary
<1> QED BY <1>1, <1>2, <1>3, <1>4, <1>5 DEF AssetsNext

-----------------------------------------------------------------------------
(* What the entries show.                                                  *)

PictureOps == {"upload", "design", "restore", "apply"}

\* A request whose picture is nowhere yet.
Fresh(f) == f \in AssetRequests /\ (work[f].at = "unused" \/ Is(f, "design", "begun"))
FreshNow(f) == f \in AssetRequests /\ (work'[f].at = "unused" \/ (work'[f].op = "design" /\ work'[f].at = "begun"))

\* A request whose picture is on the disk and not in the entry.
Brings(w) ==
  work[w].op \in PictureOps /\ work[w].at = "saved" /\ work[w].path # NoPath /\ work[w].path[2] = "sheet"
BringsNow(w) ==
  work'[w].op \in PictureOps /\ work'[w].at = "saved" /\ work'[w].path # NoPath /\ work'[w].path[2] = "sheet"

OfVersion(p) == p[2] \in ToSet(VersionPlaces)
ListedVersion(p) == \E n \in hist[p[1]].listed : p = VersionPath(p[1], n)
Placed(a, p) == (p[1] = a /\ p[2] = "sheet") \/ (OfVersion(p) /\ ListedVersion(p))

FreshIsNew ==
  /\ \A a \in Assets : \A f \in settled[a] : ~Fresh(f)
  /\ \A p \in DOMAIN disk : ~Fresh(disk[p])
  /\ \A f \in DOMAIN shelf : ~Fresh(shelf[f].of)
  /\ \A w \in AssetRequests : work[w] # Unused => work[w].of = w \/ ~Fresh(work[w].of)
StaleWereSettled ==
  /\ \A a \in Assets : stale[a] \subseteq settled[a]
  /\ \A w \in AssetRequests : work[w] # Unused => work[w].before \subseteq settled[work[w].asset]
SheetsArePlaced == \A a \in DOMAIN entries : entries[a].sheet # NoPath => Placed(a, entries[a].sheet)
VersionsAreListed == \A p \in DOMAIN disk : OfVersion(p) => ListedVersion(p)
BroughtIsLatest ==
  \A w \in AssetRequests : Brings(w) =>
    IF OnDisk(work[w].path) THEN disk[work[w].path] \notin work[w].before \ {work[w].of} ELSE work[w].path \in lost

ShownInv ==
  /\ FreshIsNew /\ StaleWereSettled /\ SheetsArePlaced /\ VersionsAreListed
  /\ ShownIsLatest /\ BroughtIsLatest

\* A request is as it was, but for the pictures it has outlived; or it begins or goes on.
KeepsOn(w) ==
  \/ work[w] = Unused /\ work'[w] = Unused
  \/ work[w] # Unused /\ work'[w] # Unused /\ Still(w) /\ work'[w].before \subseteq work[w].before
Moves(w) ==
  /\ work'[w] # Unused /\ work'[w].before \subseteq settled[work'[w].asset]
  /\ work'[w].of = w \/ ~Fresh(work'[w].of)
  /\ FreshNow(w) => Fresh(w)

LEMMA FreshFades ==
  ASSUME \A w \in AssetRequests : KeepsOn(w) \/ Moves(w), NEW f, FreshNow(f)
  PROVE  Fresh(f)
<1>1. f \in AssetRequests BY DEF FreshNow
<1>2. CASE KeepsOn(f) BY <1>1, <1>2 DEF KeepsOn, Still, FreshNow, Fresh, Is
<1>3. CASE Moves(f) BY <1>3 DEF Moves
<1> QED BY <1>1, <1>2, <1>3

\* What is fresh stays new when all that comes is not fresh.
LEMMA FreshStays ==
  ASSUME FreshIsNew, \A w \in AssetRequests : KeepsOn(w) \/ Moves(w),
         \A a \in Assets : \A f \in settled'[a] : f \in settled[a] \/ ~FreshNow(f),
         \A p \in DOMAIN disk' : (p \in DOMAIN disk /\ disk'[p] = disk[p]) \/ ~FreshNow(disk'[p]),
         \A f \in DOMAIN shelf' : (f \in DOMAIN shelf /\ shelf'[f] = shelf[f]) \/ ~FreshNow(shelf'[f].of)
  PROVE  FreshIsNew'
<1>1. \A f : FreshNow(f) => Fresh(f) BY FreshFades
<1>2. \A a \in Assets : \A f \in settled'[a] : ~FreshNow(f) BY <1>1 DEF FreshIsNew
<1>3. \A p \in DOMAIN disk' : ~FreshNow(disk'[p]) BY <1>1 DEF FreshIsNew
<1>4. \A f \in DOMAIN shelf' : ~FreshNow(shelf'[f].of) BY <1>1 DEF FreshIsNew
<1>5. ASSUME NEW w \in AssetRequests, work'[w] # Unused PROVE work'[w].of = w \/ ~FreshNow(work'[w].of)
  <2>1. CASE Moves(w) BY <1>1, <2>1 DEF Moves
  <2>2. CASE KeepsOn(w)
    <3>1. work[w] # Unused /\ work'[w].of = work[w].of BY <1>5, <2>2 DEF KeepsOn, Still
    <3> QED BY <1>1, <3>1 DEF FreshIsNew
  <2> QED BY <2>1, <2>2
<1> QED BY <1>2, <1>3, <1>4, <1>5 DEF FreshIsNew, Fresh, FreshNow, Is

LEMMA SettledStays ==
  ASSUME WorkOK, StaleWereSettled, \A w \in AssetRequests : KeepsOn(w) \/ Moves(w),
         WorkOK', \A a \in Assets : settled[a] \subseteq settled'[a] /\ stale'[a] \subseteq settled'[a]
  PROVE  StaleWereSettled'
<1> SUFFICES ASSUME NEW w \in AssetRequests, work'[w] # Unused
             PROVE  work'[w].before \subseteq settled'[work'[w].asset]
  BY DEF StaleWereSettled
<1>1. work'[w].asset \in Assets BY RequestFields DEF WorkOK
<1>2. CASE Moves(w) BY <1>1, <1>2 DEF Moves
<1>3. CASE KeepsOn(w)
  <2>1. work[w] # Unused /\ work'[w].asset = work[w].asset /\ work'[w].before \subseteq work[w].before
    BY <1>3 DEF KeepsOn, Still
  <2> QED BY <1>1, <2>1 DEF StaleWereSettled
<1> QED BY <1>2, <1>3

LEMMA BringsFits ==
  ASSUME WorkOK, PathsFit, NEW w \in AssetRequests, Brings(w)
  PROVE  /\ work[w] # Unused /\ work[w] \in Request /\ work[w].asset \in Assets
         /\ work[w].path \in Paths /\ work[w].path[1] = work[w].asset
<1>1. work[w] \in Request /\ work[w] # Unused BY UnusedFields DEF Brings, WorkOK, PictureOps
<1>2. work[w].asset \in Assets /\ work[w].path \in Paths BY <1>1, RequestFields DEF Brings
<1>3. Fitting(work[w].op, work[w].asset, work[w].path) BY <1>1 DEF PathsFit
<1>4. work[w].path[1] = work[w].asset BY <1>2, <1>3, PngFacts DEF Fitting, Brings, PictureOps
<1> QED BY <1>1, <1>2, <1>4

LEMMA PlacedStays ==
  ASSUME NEW a, NEW p, Placed(a, p), p \in Paths, \A b \in Assets : hist[b].listed \subseteq hist'[b].listed
  PROVE  Placed(a, p)'
<1>1. p[1] \in Assets BY PathFacts
<1> QED BY <1>1 DEF Placed, ListedVersion, OfVersion, VersionPath

\* A step that brings no picture: entries, files and requests may go.
LEMMA QuietStep ==
  ASSUME AssetsTypeOK, AssetsTypeOK', ShownInv,
         \A w \in AssetRequests : KeepsOn(w) \/ (Moves(w) /\ ~BringsNow(w)),
         hist' = hist, settled' = settled, lost \subseteq lost',
         \A a \in Assets : stale'[a] \subseteq settled[a],
         \A a \in DOMAIN entries' : entries'[a].sheet = NoPath \/ (a \in DOMAIN entries /\ entries'[a].sheet = entries[a].sheet),
         \A a \in DOMAIN entries' : a \in DOMAIN entries => stale'[a] \subseteq stale[a],
         DOMAIN disk' \subseteq DOMAIN disk, \A p \in DOMAIN disk' : disk'[p] = disk[p],
         \A p \in DOMAIN disk \ DOMAIN disk' : p \in lost' \/ p[2] \in ToSet(OriginalPlaces),
         \A f \in DOMAIN shelf' : (f \in DOMAIN shelf /\ shelf'[f] = shelf[f]) \/ ~FreshNow(shelf'[f].of)
  PROVE  ShownInv'
<1> USE AssetsTypeParts
<1>0. WorkOK /\ WorkOK' /\ EntriesOK /\ EntriesOK' BY DEF AssetsTypeOK, WorkOK, EntriesOK
<1>1. FreshIsNew' BY FreshStays DEF ShownInv
<1>2. StaleWereSettled' BY <1>0, SettledStays DEF ShownInv
<1>3. SheetsArePlaced' BY DEF ShownInv, SheetsArePlaced, Placed, ListedVersion, OfVersion, VersionPath
<1>4. VersionsAreListed' BY DEF ShownInv, VersionsAreListed, ListedVersion, OfVersion, VersionPath
<1>5. \A p \in Paths : p[2] = "sheet" \/ OfVersion(p) => p[2] \notin ToSet(OriginalPlaces)
  BY DistinctPlaces DEF OfVersion
<1>6. ShownIsLatest'
  <2> SUFFICES ASSUME NEW a \in DOMAIN entries', entries'[a].sheet # NoPath
               PROVE  IF entries'[a].sheet \in DOMAIN disk' THEN disk'[entries'[a].sheet] \notin stale'[a]
                      ELSE entries'[a].sheet \in lost'
    BY DEF ShownIsLatest, OnDisk
  <2> DEFINE p == entries[a].sheet
  <2>1. a \in DOMAIN entries /\ entries'[a].sheet = p /\ stale'[a] \subseteq stale[a] OBVIOUS
  <2>2. IF p \in DOMAIN disk THEN disk[p] \notin stale[a] ELSE p \in lost
    BY <2>1 DEF ShownInv, ShownIsLatest, OnDisk
  <2>3. p \in Paths BY <1>0, <2>1, EntryFields DEF EntriesOK
  <2>4. p[2] \notin ToSet(OriginalPlaces) BY <1>5, <2>1, <2>3 DEF ShownInv, SheetsArePlaced, Placed
  <2> QED BY <2>1, <2>2, <2>4
<1>7. BroughtIsLatest'
  <2> SUFFICES ASSUME NEW w \in AssetRequests, BringsNow(w)
               PROVE  IF work'[w].path \in DOMAIN disk' THEN disk'[work'[w].path] \notin work'[w].before \ {work'[w].of}
                      ELSE work'[w].path \in lost'
    BY DEF BroughtIsLatest, OnDisk, Brings, BringsNow
  <2>1. work'[w] # Unused BY UnusedFields DEF BringsNow, PictureOps
  <2>2. Still(w) /\ work'[w].before \subseteq work[w].before BY <2>1 DEF KeepsOn
  <2>3. Brings(w) BY <2>2 DEF Brings, BringsNow, Still
  <2>4. IF work[w].path \in DOMAIN disk THEN disk[work[w].path] \notin work[w].before \ {work[w].of} ELSE work[w].path \in lost
    BY <2>3 DEF ShownInv, BroughtIsLatest, OnDisk
  <2>5. work[w].path[2] \notin ToSet(OriginalPlaces) BY <2>3, DistinctPlaces DEF Brings
  <2> QED BY <2>2, <2>4, <2>5 DEF Still
<1> QED BY <1>1, <1>2, <1>3, <1>4, <1>6, <1>7 DEF ShownInv

\* A picture is written to the entry.
LEMMA SettleStep ==
  ASSUME AssetsTypeOK, AssetsTypeOK', ShownInv, NEW a \in Assets, NEW picture \in Pictures, ~Fresh(picture),
         NEW before \in SUBSET settled[a], Settles(a, picture, before), NEW path \in Paths \cup {NoPath},
         path # NoPath => /\ Placed(a, path)
                          /\ IF path \in DOMAIN disk THEN disk[path] \notin before \ {picture} ELSE path \in lost,
         \A w \in AssetRequests : KeepsOn(w) \/ (Moves(w) /\ ~BringsNow(w)),
         hist' = hist, disk' = disk, shelf' = shelf,
         \A b \in DOMAIN entries' :
           IF b = a THEN entries'[b].sheet = path ELSE b \in DOMAIN entries /\ entries'[b].sheet = entries[b].sheet
  PROVE  ShownInv'
<1> DEFINE T == ((stale[a] \ (settled[a] \ before)) \cup before) \ {picture}
<1>0. WorkOK /\ WorkOK' /\ EntriesOK /\ EntriesOK' /\ SettledOK BY DEF AssetsTypeOK, WorkOK, EntriesOK, SettledOK
<1>1. /\ lost' = lost /\ settled' = [settled EXCEPT ![a] = settled[a] \cup {picture}]
      /\ stale' = [stale EXCEPT ![a] = T]
  BY DEF Settles
<1>2. /\ settled'[a] = settled[a] \cup {picture} /\ stale'[a] = T
      /\ \A b \in Assets : b # a => settled'[b] = settled[b] /\ stale'[b] = stale[b]
  BY <1>0, <1>1 DEF SettledOK
<1>3. \A f : FreshNow(f) => Fresh(f) BY FreshFades
<1>4. \A b \in Assets : stale[b] \subseteq settled[b] BY DEF ShownInv, StaleWereSettled
<1>5. FreshIsNew'
  <2>1. \A b \in Assets : \A f \in settled'[b] : f \in settled[b] \/ ~FreshNow(f) BY <1>2, <1>3
  <2> QED BY <2>1, FreshStays DEF ShownInv
<1>6. StaleWereSettled'
  <2>1. \A b \in Assets : settled[b] \subseteq settled'[b] /\ stale'[b] \subseteq settled'[b] BY <1>2, <1>4
  <2> QED BY <1>0, <2>1, SettledStays DEF ShownInv
<1>7. SheetsArePlaced'
  <2> SUFFICES ASSUME NEW b \in DOMAIN entries', entries'[b].sheet # NoPath PROVE Placed(b, entries'[b].sheet)
    BY DEF SheetsArePlaced, Placed, ListedVersion, OfVersion, VersionPath
  <2> QED BY DEF ShownInv, SheetsArePlaced
<1>8. VersionsAreListed' BY DEF ShownInv, VersionsAreListed, ListedVersion, OfVersion, VersionPath
<1>9. ShownIsLatest'
  <2> SUFFICES ASSUME NEW b \in DOMAIN entries', entries'[b].sheet # NoPath
               PROVE  IF entries'[b].sheet \in DOMAIN disk THEN disk[entries'[b].sheet] \notin stale'[b]
                      ELSE entries'[b].sheet \in lost
    BY <1>1 DEF ShownIsLatest, OnDisk
  <2>1. CASE b = a
    <3>1. entries'[b].sheet = path BY <2>1
    <3>2. path \in DOMAIN disk => disk[path] \notin T
      <4> SUFFICES ASSUME path \in DOMAIN disk, disk[path] \in T PROVE FALSE OBVIOUS
      <4>1. disk[path] \notin before \ {picture} BY <3>1
      <4>2. disk[path] # picture /\ disk[path] \in settled[a] BY <1>4
      <4> QED BY <4>1, <4>2
    <3> QED BY <1>2, <2>1, <3>1, <3>2
  <2>2. CASE b # a
    <3>1. b \in DOMAIN entries /\ entries'[b].sheet = entries[b].sheet /\ b \in Assets
      BY <1>0, <2>2 DEF EntriesOK
    <3> QED BY <1>2, <2>2, <3>1 DEF ShownInv, ShownIsLatest, OnDisk
  <2> QED BY <2>1, <2>2
<1>10. BroughtIsLatest'
  <2> SUFFICES ASSUME NEW w \in AssetRequests, BringsNow(w)
               PROVE  IF work'[w].path \in DOMAIN disk THEN disk[work'[w].path] \notin work'[w].before \ {work'[w].of}
                      ELSE work'[w].path \in lost
    BY <1>1 DEF BroughtIsLatest, OnDisk, Brings, BringsNow
  <2>1. work'[w] # Unused BY UnusedFields DEF BringsNow, PictureOps
  <2>2. Still(w) /\ work'[w].before \subseteq work[w].before BY <2>1 DEF KeepsOn
  <2>3. Brings(w) BY <2>2 DEF Brings, BringsNow, Still
  <2>4. IF work[w].path \in DOMAIN disk THEN disk[work[w].path] \notin work[w].before \ {work[w].of} ELSE work[w].path \in lost
    BY <2>3 DEF ShownInv, BroughtIsLatest, OnDisk
  <2> QED BY <2>2, <2>4 DEF Still
<1> QED BY <1>5, <1>6, <1>7, <1>8, <1>9, <1>10 DEF ShownInv

\* A picture x is written to the place it is shown from.  It is new, or it is
\* put back and counts from now on; what else is written is a new version.
LEMMA WriteStep ==
  ASSUME AssetsTypeOK, AssetsTypeOK', PathsFit, ShownInv,
         NEW r \in AssetRequests, NEW path \in Paths, NEW picture \in Pictures, ~OfVersion(path), ~FreshNow(picture),
         path \in DOMAIN disk', disk'[path] = picture, DOMAIN disk \subseteq DOMAIN disk',
         \A p \in DOMAIN disk' : \/ p = path
                                 \/ p \in DOMAIN disk /\ disk'[p] = disk[p]
                                 \/ OfVersion(p) /\ ~ListedVersion(p) /\ ListedVersion(p)' /\ ~FreshNow(disk'[p]),
         \A a \in Assets : hist[a].listed \subseteq hist'[a].listed,
         entries' = entries, shelf' = shelf, settled' = settled, lost' = lost,
         \A a \in Assets : stale'[a] \subseteq stale[a], picture \notin stale'[path[1]],
         \A w \in AssetRequests : w # r =>
           /\ KeepsOn(w)
           /\ work'[w].at = "saved" /\ work'[w].asset = path[1] => picture \notin work'[w].before,
         Moves(r), work'[r].path = path, picture \notin work'[r].before \ {work'[r].of}
  PROVE  ShownInv'
<1>0. WorkOK /\ WorkOK' /\ EntriesOK /\ EntriesOK' /\ DiskOK /\ DiskOK'
  BY DEF AssetsTypeOK, WorkOK, EntriesOK, DiskOK
<1>1. FreshIsNew'
  <2>1. \A w \in AssetRequests : KeepsOn(w) \/ Moves(w) OBVIOUS
  <2>2. \A f : FreshNow(f) => Fresh(f) BY <2>1, FreshFades
  <2>3. \A p \in DOMAIN disk' : (p \in DOMAIN disk /\ disk'[p] = disk[p]) \/ ~FreshNow(disk'[p]) OBVIOUS
  <2> QED BY <2>1, <2>3, FreshStays DEF ShownInv
<1>2. StaleWereSettled'
  <2>1. \A w \in AssetRequests : KeepsOn(w) \/ Moves(w) OBVIOUS
  <2>2. \A a \in Assets : settled[a] \subseteq settled'[a] /\ stale'[a] \subseteq settled'[a]
    BY DEF ShownInv, StaleWereSettled
  <2> QED BY <1>0, <2>1, <2>2, SettledStays DEF ShownInv
<1>3. SheetsArePlaced'
  <2> SUFFICES ASSUME NEW a \in DOMAIN entries, entries[a].sheet # NoPath PROVE Placed(a, entries[a].sheet)'
    BY DEF SheetsArePlaced
  <2>1. entries[a].sheet \in Paths BY <1>0, EntryFields DEF EntriesOK
  <2>2. Placed(a, entries[a].sheet) BY DEF ShownInv, SheetsArePlaced
  <2> DEFINE p == entries[a].sheet
  <2>3. p[1] \in Assets BY <2>1, PathFacts
  <2>4. OfVersion(p) /\ ListedVersion(p) => ListedVersion(p)' BY <2>3 DEF ListedVersion, VersionPath
  <2> QED BY <2>2, <2>4 DEF Placed, OfVersion
<1>4. VersionsAreListed'
  <2> SUFFICES ASSUME NEW p \in DOMAIN disk', OfVersion(p) PROVE ListedVersion(p)'
    BY DEF VersionsAreListed, OfVersion
  <2>1. CASE p \in DOMAIN disk
    <3>1. ListedVersion(p) /\ p[1] \in Assets BY <1>0, <2>1, PathFacts DEF ShownInv, VersionsAreListed, DiskOK
    <3> QED BY <3>1 DEF ListedVersion, VersionPath
  <2>2. CASE p \notin DOMAIN disk BY <2>2
  <2> QED BY <2>1, <2>2
<1>5. ShownIsLatest'
  <2> SUFFICES ASSUME NEW a \in DOMAIN entries, entries[a].sheet # NoPath
               PROVE  IF entries[a].sheet \in DOMAIN disk' THEN disk'[entries[a].sheet] \notin stale'[a]
                      ELSE entries[a].sheet \in lost
    BY DEF ShownIsLatest, OnDisk
  <2> DEFINE p == entries[a].sheet
  <2>1. IF p \in DOMAIN disk THEN disk[p] \notin stale[a] ELSE p \in lost
    BY DEF ShownInv, ShownIsLatest, OnDisk
  <2>2. Placed(a, p) /\ a \in Assets BY <1>0 DEF ShownInv, SheetsArePlaced, EntriesOK
  <2> HIDE DEF p
  <2>3. CASE p = path
    <3>1. p[1] = a BY <2>2, <2>3 DEF Placed
    <3> QED BY <2>3, <3>1 DEF p
  <2>4. CASE p # path
    <3>1. ~(OfVersion(p) /\ ~ListedVersion(p))
      <4>1. p[2] = "sheet" => ~OfVersion(p) BY DistinctPlaces DEF OfVersion
      <4> QED BY <2>2, <4>1 DEF Placed
    <3>2. p \in DOMAIN disk' => p \in DOMAIN disk /\ disk'[p] = disk[p] BY <2>4, <3>1
    <3> QED BY <2>1, <2>2, <3>2 DEF p
  <2> QED BY <2>3, <2>4
<1>6. BroughtIsLatest'
  <2> SUFFICES ASSUME NEW w \in AssetRequests, BringsNow(w)
               PROVE  IF work'[w].path \in DOMAIN disk' THEN disk'[work'[w].path] \notin work'[w].before \ {work'[w].of}
                      ELSE work'[w].path \in lost
    BY DEF BroughtIsLatest, OnDisk, Brings, BringsNow
  <2>1. CASE w = r BY <2>1
  <2>2. CASE w # r
    <3>1. work'[w] # Unused BY UnusedFields DEF BringsNow, PictureOps
    <3>2. Still(w) /\ work'[w].before \subseteq work[w].before BY <2>2, <3>1 DEF KeepsOn
    <3>3. Brings(w) BY <3>2 DEF Brings, BringsNow, Still
    <3> DEFINE p == work[w].path
    <3>4. IF p \in DOMAIN disk THEN disk[p] \notin work[w].before \ {work[w].of} ELSE p \in lost
      BY <3>3 DEF ShownInv, BroughtIsLatest, OnDisk
    <3>5. work'[w].path = p /\ work'[w].of = work[w].of BY <3>2 DEF Still
    <3>6. CASE p = path
      <4>1. work[w].asset = path[1] BY <1>0, <3>3, <3>6, BringsFits
      <4>2. picture \notin work'[w].before BY <2>2, <3>2, <4>1 DEF BringsNow, Still
      <4> QED BY <3>5, <3>6, <4>2
    <3>7. CASE p # path
      <4>1. ~OfVersion(p) BY <3>3, DistinctPlaces DEF Brings, OfVersion
      <4>2. p \in DOMAIN disk' => p \in DOMAIN disk /\ disk'[p] = disk[p] BY <3>7, <4>1
      <4> QED BY <3>2, <3>4, <3>5, <4>2
    <3> QED BY <3>6, <3>7
  <2> QED BY <2>1, <2>2
<1> QED BY <1>1, <1>2, <1>3, <1>4, <1>5, <1>6 DEF ShownInv

LEMMA SameKeeps ==
  ASSUME WorkOK, NEW w \in AssetRequests, work'[w] = work[w]
  PROVE  KeepsOn(w)
BY DEF KeepsOn, Still, WorkOK

LEMMA LivesKeeps ==
  ASSUME NEW w, NEW a, NEW picture, Lives(w, a, picture)
  PROVE  KeepsOn(w)
BY RequestFields DEF Lives, KeepsOn

LEMMA GoesMoves ==
  ASSUME AssetsTypeOK, ShownInv, NEW r \in AssetRequests, work[r].at # "unused",
         NEW at \in {"saved", "committed", "ended", "failed"}, Goes(r, at)
  PROVE  /\ Moves(r) /\ \A w \in AssetRequests : w # r => KeepsOn(w)
         /\ work'[r].at = at /\ work'[r].op = work[r].op /\ work'[r].path = work[r].path /\ ~FreshNow(r)
<1> USE AssetsTypeParts
<1>1. work[r] \in Request /\ at \in Stages BY AtWorkIsRequest DEF Stages
<1>2. GoesOn(r, at) /\ \A w \in AssetRequests : w # r => work'[w] = work[w] BY <1>1, GoesFacts
<1>3. work[r] # Unused /\ work'[r] # Unused BY <1>1, <1>2, RequestFields DEF GoesOn
<1>4. ~FreshNow(r) BY <1>2 DEF FreshNow, GoesOn
<1>5. work[r].before \subseteq settled[work[r].asset] /\ (work[r].of = r \/ ~Fresh(work[r].of))
  BY <1>3 DEF ShownInv, StaleWereSettled, FreshIsNew
<1>6. Moves(r) BY <1>2, <1>3, <1>4, <1>5 DEF Moves, GoesOn
<1> QED BY <1>2, <1>4, <1>6, SameKeeps DEF GoesOn

LEMMA BeganMoves ==
  ASSUME AssetsTypeOK, NEW r \in AssetRequests, NEW op, NEW at, NEW a, NEW path, NEW row, NEW was, NEW of,
         BeganAs(r, op, at, a, path, row, was, of), of = r \/ ~Fresh(of)
  PROVE  /\ Moves(r) /\ \A w \in AssetRequests : w # r => KeepsOn(w)
         /\ Fresh(r) /\ (at = "saved" => ~FreshNow(r))
<1> USE AssetsTypeParts
<1>1. work'[r] # Unused BY RequestFields DEF BeganAs
<1>2. Fresh(r) BY UnusedFields DEF BeganAs, Fresh
<1>3. at = "saved" => ~FreshNow(r) BY DEF BeganAs, FreshNow
<1>4. Moves(r) BY <1>1, <1>2 DEF Moves, BeganAs
<1> QED BY <1>2, <1>3, <1>4, SameKeeps DEF BeganAs

\* A step of the requests or of the library.
LEMMA RestStep ==
  ASSUME AssetsTypeOK, AssetsTypeOK', ShownInv,
         \A w \in AssetRequests : KeepsOn(w) \/ (Moves(w) /\ ~BringsNow(w)),
         UNCHANGED <<entries, disk, hist, settled, stale, lost>>,
         \A f \in DOMAIN shelf' : (f \in DOMAIN shelf /\ shelf'[f] = shelf[f]) \/ ~FreshNow(shelf'[f].of)
  PROVE  ShownInv'
<1>1. \A a \in Assets : stale'[a] \subseteq settled[a] BY DEF ShownInv, StaleWereSettled
<1> QED BY <1>1, QuietStep

LEMMA RecordsShown ==
  ASSUME AssetsTypeOK, AssetsTypeOK', PathsFit, ShownInv, NEW r \in AssetRequests, Brings(r),
         NEW at \in {"ended", "failed"}, Records(r, work[r].path, at), disk' = disk, hist' = hist, shelf' = shelf
  PROVE  ShownInv'
<1> USE AssetsTypeParts
<1> DEFINE q == work[r]
<1>1. q \in Request /\ q # Unused /\ q.asset \in Assets /\ q.path \in Paths /\ q.path[1] = q.asset
  BY BringsFits
<1>2. CASE Registered(q.asset)
  <2>1. /\ entries' = [entries EXCEPT ![q.asset].sheet = q.path] /\ Settles(q.asset, q.of, q.before)
        /\ Shows(r, [q EXCEPT !.at = "ended"], q.of)
    BY <1>2 DEF Records
  <2> DEFINE e == [q EXCEPT !.at = "ended"]
  <2>2. /\ e \in Request /\ e.at = "ended" /\ e.op = q.op /\ e.asset = q.asset /\ e.of = q.of /\ e.before = q.before
    BY <1>1, AtFields DEF Stages
  <2> HIDE DEF e
  <2>3. work'[r] = e /\ \A w \in AssetRequests : w # r => Lives(w, e.asset, q.of) BY <2>1, <2>2, ShowsFacts DEF e
  <2>4. q.before \subseteq settled[q.asset] /\ (q.of = r \/ ~Fresh(q.of))
    BY <1>1 DEF ShownInv, StaleWereSettled, FreshIsNew
  <2>5. ~Fresh(r) BY DEF Fresh, Brings, Is
  <2>6. Moves(r) /\ ~BringsNow(r)
    <3>1. ~FreshNow(r) BY <2>2, <2>3 DEF FreshNow
    <3>2. work'[r] # Unused BY <2>2, <2>3, RequestFields
    <3> QED BY <2>2, <2>3, <2>4, <3>1, <3>2 DEF Moves, BringsNow
  <2>7. \A w \in AssetRequests : KeepsOn(w) \/ (Moves(w) /\ ~BringsNow(w)) BY <2>3, <2>6, LivesKeeps
  <2>8. q.of \in Pictures /\ ~Fresh(q.of) BY <1>1, <2>4, <2>5, RequestFields
  <2>9. Placed(q.asset, q.path) BY <1>1 DEF Placed, Brings
  <2>10. IF q.path \in DOMAIN disk THEN disk[q.path] \notin q.before \ {q.of} ELSE q.path \in lost
    BY DEF ShownInv, BroughtIsLatest, OnDisk
  <2>11. q.asset \in DOMAIN entries BY <1>2 DEF Registered
  <2>12. \A b \in DOMAIN entries' :
           IF b = q.asset THEN entries'[b].sheet = q.path ELSE b \in DOMAIN entries /\ entries'[b].sheet = entries[b].sheet
    <3>1. entries[q.asset] \in Entry BY <2>11 DEF EntriesOK
    <3>2. [entries[q.asset] EXCEPT !.sheet = q.path].sheet = q.path BY <1>1, <3>1, EntryEdits
    <3> QED BY <2>1, <2>11, <3>2
  <2> HIDE DEF q
  <2>13. q.path \in Paths \cup {NoPath} /\ q.before \in SUBSET settled[q.asset] BY <1>1, <2>4
  <2> QED BY <1>1, <2>1, <2>7, <2>8, <2>9, <2>10, <2>12, <2>13, SettleStep
<1>3. CASE ~Registered(q.asset)
  <2>1. Goes(r, at) /\ UNCHANGED <<entries, settled, stale, lost>> BY <1>3 DEF Records, historyVars
  <2>2. q.at # "unused" BY DEF Brings
  <2>3. /\ Moves(r) /\ \A w \in AssetRequests : w # r => KeepsOn(w)
        /\ work'[r].at = at
    BY <2>1, <2>2, GoesMoves
  <2>4. ~BringsNow(r) BY <2>3 DEF BringsNow
  <2> QED BY <2>1, <2>3, <2>4, RestStep
<1> QED BY <1>2, <1>3

\* What is fresh is in no history.
LEMMA NewIsNowhere ==
  ASSUME WorkOK, ShownInv, NEW f, Fresh(f)
  PROVE  /\ \A a \in Assets : f \notin settled[a] /\ f \notin stale[a]
         /\ \A w \in AssetRequests : work[w] # Unused => f \notin work[w].before
<1>1. \A a \in Assets : f \notin settled[a] BY DEF ShownInv, FreshIsNew
<1>2. \A w \in AssetRequests : work[w] # Unused => work[w].asset \in Assets BY RequestFields DEF WorkOK
<1> QED BY <1>1, <1>2 DEF ShownInv, StaleWereSettled

\* A new picture is written.
LEMMA WriteNew ==
  ASSUME AssetsTypeOK, AssetsTypeOK', PathsFit, ShownInv,
         NEW r \in AssetRequests, NEW path \in Paths, ~OfVersion(path), Fresh(r), ~FreshNow(r),
         path \in DOMAIN disk', disk'[path] = r, DOMAIN disk \subseteq DOMAIN disk',
         \A p \in DOMAIN disk' : \/ p = path
                                 \/ p \in DOMAIN disk /\ disk'[p] = disk[p]
                                 \/ OfVersion(p) /\ ~ListedVersion(p) /\ ListedVersion(p)' /\ ~FreshNow(disk'[p]),
         \A a \in Assets : hist[a].listed \subseteq hist'[a].listed,
         UNCHANGED <<entries, shelf, settled, stale, lost>>,
         \A w \in AssetRequests : w # r => KeepsOn(w),
         Moves(r), work'[r].path = path
  PROVE  ShownInv'
<1>0. WorkOK /\ WorkOK' BY DEF AssetsTypeOK, WorkOK
<1>1. r \in Pictures /\ path[1] \in Assets BY PathFacts DEF Pictures
<1>2. /\ \A a \in Assets : r \notin settled[a] /\ r \notin stale[a]
      /\ \A w \in AssetRequests : work[w] # Unused => r \notin work[w].before
  BY <1>0, NewIsNowhere
<1>3. r \notin stale'[path[1]] BY <1>1, <1>2
<1>4. ASSUME NEW w \in AssetRequests, w # r, work'[w].at = "saved" PROVE r \notin work'[w].before
  <2>1. KeepsOn(w) BY <1>4
  <2>2. work'[w] # Unused BY <1>4, UnusedFields
  <2> QED BY <1>2, <2>1, <2>2 DEF KeepsOn
<1>5. r \notin work'[r].before
  <2>1. work'[r].asset \in Assets BY <1>0, RequestFields DEF WorkOK, Moves
  <2> QED BY <1>2, <2>1 DEF Moves
<1>6. \A a \in Assets : stale'[a] \subseteq stale[a] OBVIOUS
<1>7. \A w \in AssetRequests : w # r =>
        KeepsOn(w) /\ (work'[w].at = "saved" /\ work'[w].asset = path[1] => r \notin work'[w].before)
  BY <1>4
<1>8. entries' = entries /\ shelf' = shelf /\ settled' = settled /\ lost' = lost /\ r \notin work'[r].before \ {work'[r].of}
  BY <1>5
<1> QED BY <1>1, <1>3, <1>6, <1>7, <1>8, WriteStep

LEMMA EntriesShown ==
  ASSUME AssetsTypeOK, AssetsTypeOK', ShownInv, NEW a \in Assets,
         AddEntry(a) \/ UpsertAssets(a) \/ UpdateEntry(a) \/ DeleteEntry(a)
  PROVE  ShownInv'
<1> USE AssetsTypeParts
<1>0. \A b \in Assets : stale[b] \subseteq settled[b] BY DEF ShownInv, StaleWereSettled
<1>1. ASSUME work' = work PROVE \A w \in AssetRequests : KeepsOn(w) BY <1>1, SameKeeps
<1>2. CASE AddEntry(a)
  <2>1. PICK described \in BOOLEAN : entries' = Plus(entries, a, NewEntry(described)) BY <1>2 DEF AddEntry
  <2>2. \A b \in DOMAIN entries' :
          entries'[b].sheet = NoPath \/ (b \in DOMAIN entries /\ entries'[b].sheet = entries[b].sheet)
    BY <2>1, NewEntryFields DEF Plus
  <2>3. /\ disk' = disk /\ hist' = hist /\ work' = work /\ shelf' = shelf
        /\ settled' = settled /\ stale' = stale /\ lost' = lost
    BY <1>2 DEF AddEntry, libraryVars, historyVars
  <2> QED BY <1>0, <1>1, <2>2, <2>3, QuietStep
<1>3. CASE UpsertAssets(a)
  <2>1. \A b \in DOMAIN entries' :
          entries'[b].sheet = NoPath \/ (b \in DOMAIN entries /\ entries'[b].sheet = entries[b].sheet)
    <3>1. CASE Registered(a)
      <4>1. entries' = [entries EXCEPT ![a].described = TRUE] /\ a \in DOMAIN entries
        BY <1>3, <3>1 DEF UpsertAssets, Registered
      <4>2. entries[a] \in Entry /\ TRUE \in BOOLEAN BY <4>1 DEF EntriesOK
      <4>3. [entries[a] EXCEPT !.described = TRUE].sheet = entries[a].sheet BY <4>2, EntryEdits, Zenon
      <4> QED BY <4>1, <4>3
    <3>2. CASE ~Registered(a)
      <4>1. entries' = Plus(entries, a, NewEntry(TRUE)) BY <1>3, <3>2 DEF UpsertAssets
      <4> QED BY <4>1, NewEntryFields DEF Plus
    <3> QED BY <3>1, <3>2
  <2>2. /\ disk' = disk /\ hist' = hist /\ work' = work /\ shelf' = shelf
        /\ settled' = settled /\ stale' = stale /\ lost' = lost
    BY <1>3 DEF UpsertAssets, libraryVars, historyVars
  <2> QED BY <1>0, <1>1, <2>1, <2>2, QuietStep
<1>4. CASE UpdateEntry(a)
  <2>0. a \in DOMAIN entries /\ entries[a] \in Entry /\ disk' = disk /\ hist' = hist /\ shelf' = shelf
    BY <1>4 DEF UpdateEntry, Registered, EntriesOK, libraryVars
  <2>1. CASE /\ \/ \E described \in BOOLEAN : entries' = [entries EXCEPT ![a].described = described]
                \/ entries' = [entries EXCEPT ![a].sheet = NoPath]
             /\ UNCHANGED <<work, historyVars>>
    <3>1. \A b \in DOMAIN entries' :
            entries'[b].sheet = NoPath \/ (b \in DOMAIN entries /\ entries'[b].sheet = entries[b].sheet)
      <4>1. CASE \E described \in BOOLEAN : entries' = [entries EXCEPT ![a].described = described]
        <5>1. PICK described \in BOOLEAN : entries' = [entries EXCEPT ![a].described = described] BY <4>1
        <5>2. [entries[a] EXCEPT !.described = described].sheet = entries[a].sheet BY <2>0, EntryEdits, Zenon
        <5> QED BY <2>0, <5>1, <5>2
      <4>2. CASE entries' = [entries EXCEPT ![a].sheet = NoPath]
        <5>1. [entries[a] EXCEPT !.sheet = NoPath].sheet = NoPath BY <2>0, EntryEdits
        <5> QED BY <2>0, <4>2, <5>1
      <4> QED BY <2>1, <4>1, <4>2
    <3>2. work' = work /\ settled' = settled /\ stale' = stale /\ lost' = lost BY <2>1 DEF historyVars
    <3> QED BY <1>0, <1>1, <2>0, <3>1, <3>2, QuietStep
  <2>2. CASE \E p \in DOMAIN disk :
               /\ p[2] \in ToSet(VersionPlaces)
               /\ entries' = [entries EXCEPT ![a].sheet = p]
               /\ Settles(a, disk[p], settled[a])
               /\ work' = [w \in AssetRequests |-> Outlives(disk[p], a, w)]
    <3>1. PICK p \in DOMAIN disk :
               /\ p[2] \in ToSet(VersionPlaces)
               /\ entries' = [entries EXCEPT ![a].sheet = p]
               /\ Settles(a, disk[p], settled[a])
               /\ work' = [w \in AssetRequests |-> Outlives(disk[p], a, w)]
      BY <2>2
    <3>2. p \in Paths /\ disk[p] \in Pictures BY DEF DiskOK
    <3>3. ~Fresh(disk[p]) BY DEF ShownInv, FreshIsNew
    <3>4. Placed(a, p) BY <3>1 DEF ShownInv, VersionsAreListed, OfVersion, Placed
    <3>5. ASSUME NEW w \in AssetRequests PROVE KeepsOn(w)
      <4>1. work'[w] = Outlives(disk[p], a, w) BY <3>1
      <4> QED BY <4>1, OutlivesFacts, RequestFields DEF KeepsOn, Still
    <3>6. \A b \in DOMAIN entries' :
            IF b = a THEN entries'[b].sheet = p ELSE b \in DOMAIN entries /\ entries'[b].sheet = entries[b].sheet
      <4>1. [entries[a] EXCEPT !.sheet = p].sheet = p BY <2>0, <3>2, EntryEdits
      <4> QED BY <2>0, <3>1, <4>1
    <3> DEFINE before == settled[a]
    <3>7. before \in SUBSET settled[a] /\ p \in Paths \cup {NoPath} /\ disk[p] \notin before \ {disk[p]} BY <3>2
    <3>8. Settles(a, disk[p], before) BY <3>1
    <3> HIDE DEF before
    <3> QED BY <2>0, <3>2, <3>3, <3>4, <3>5, <3>6, <3>7, <3>8, SettleStep
  <2> QED BY <1>4, <2>1, <2>2 DEF UpdateEntry
<1>5. CASE DeleteEntry(a)
  <2>1. /\ entries' = Drop(entries, a) /\ disk' = disk /\ hist' = hist /\ work' = work /\ shelf' = shelf
        /\ settled' = settled /\ lost' = lost /\ stale' = [stale EXCEPT ![a] = stale[a] \cup settled[a]]
    BY <1>5 DEF DeleteEntry, libraryVars
  <2>2. /\ \A b \in Assets : stale'[b] = IF b = a THEN stale[b] \cup settled[b] ELSE stale[b]
    BY <2>1 DEF SettledOK
  <2>3. \A b \in DOMAIN entries' : b \in DOMAIN entries /\ b # a /\ b \in Assets /\ entries'[b] = entries[b]
    BY <2>1 DEF Drop, EntriesOK
  <2>4. \A b \in Assets : stale'[b] \subseteq settled[b] BY <1>0, <2>2
  <2>5. \A b \in DOMAIN entries' : b \in DOMAIN entries => stale'[b] \subseteq stale[b] BY <2>2, <2>3
  <2> QED BY <1>1, <2>1, <2>3, <2>4, <2>5, QuietStep
<1> QED BY <1>2, <1>3, <1>4, <1>5

LEMMA LosesShown ==
  ASSUME AssetsTypeOK, AssetsTypeOK', ShownInv, LoseFile
  PROVE  ShownInv'
<1>1. PICK p \in DOMAIN disk : disk' = Drop(disk, p) /\ lost' = lost \cup {p} BY DEF LoseFile
<1>2. DOMAIN disk' = DOMAIN disk \ {p} /\ \A o \in DOMAIN disk' : disk'[o] = disk[o] BY <1>1 DEF Drop
<1>3. /\ entries' = entries /\ hist' = hist /\ work' = work /\ shelf' = shelf /\ settled' = settled /\ stale' = stale
  BY DEF LoseFile, libraryVars
<1>4. \A w \in AssetRequests : KeepsOn(w) BY <1>3, SameKeeps, AssetsTypeParts
<1>5. \A a \in Assets : stale'[a] \subseteq settled[a] BY <1>3 DEF ShownInv, StaleWereSettled
<1> QED BY <1>1, <1>2, <1>3, <1>4, <1>5, QuietStep

LEMMA UploadsShown ==
  ASSUME AssetsTypeOK, AssetsTypeOK', PathsFit, ShownInv, NEW r \in AssetRequests, Uploads(r)
  PROVE  ShownInv'
<1> USE AssetsTypeParts
<1>0. r \in Pictures BY DEF Pictures
<1>1. CASE BeginUpload(r)
  <2>1. PICK a \in Assets, place \in {"sheet", "ref"}, ext \in Exts :
           /\ BeganAs(r, "upload", "saved", a, <<a, place, ext>>, NoRow, NoRow, r)
           /\ disk' = Plus(disk, <<a, place, ext>>, r)
    BY <1>1, BeginUploadFacts, Zenon
  <2> DEFINE p == <<a, place, ext>>
  <2>2. p \in Paths /\ ~OfVersion(p) BY PathFacts, PlacesFacts, DistinctPlaces DEF OfVersion
  <2> HIDE DEF p
  <2>3. BeganAs(r, "upload", "saved", a, p, NoRow, NoRow, r) /\ disk' = Plus(disk, p, r) BY <2>1 DEF p
  <2>4. Moves(r) /\ Fresh(r) /\ ~FreshNow(r) /\ \A w \in AssetRequests : w # r => KeepsOn(w) BY <2>3, BeganMoves
  <2>5. /\ DOMAIN disk' = DOMAIN disk \cup {p} /\ disk'[p] = r /\ \A o \in DOMAIN disk : o # p => disk'[o] = disk[o]
    BY <2>3 DEF Plus
  <2>6. work'[r].path = p BY <2>3 DEF BeganAs
  <2>7. UNCHANGED <<entries, shelf, settled, stale, lost>> /\ hist' = hist
    BY <1>1 DEF BeginUpload, libraryVars, historyVars
  <2> QED BY <2>2, <2>4, <2>5, <2>6, <2>7, WriteNew
<1>2. CASE RecordUpload(r)
  <2>1. /\ work[r].op = "upload" /\ work[r].at = "saved" /\ work[r] \in Request /\ work[r] # Unused
        /\ disk' = disk /\ hist' = hist /\ shelf' = shelf
    BY <1>2, AtWorkIsRequest, RequestFields DEF RecordUpload, Is, libraryVars
  <2>2. work[r].path \in Paths BY <2>1 DEF PathsFit, Fitting
  <2>3. CASE work[r].path[2] = "sheet"
    <3>1. Records(r, work[r].path, "ended") BY <1>2, <2>3 DEF RecordUpload
    <3>2. Brings(r) BY <2>1, <2>2, <2>3, PathFacts DEF Brings, PictureOps
    <3> QED BY <2>1, <3>1, <3>2, RecordsShown
  <2>4. CASE work[r].path[2] # "sheet"
    <3>1. /\ entries' = IF Registered(work[r].asset) THEN [entries EXCEPT ![work[r].asset].ref = work[r].path] ELSE entries
          /\ Goes(r, "ended") /\ settled' = settled /\ stale' = stale /\ lost' = lost
      BY <1>2, <2>4 DEF RecordUpload, historyVars
    <3>2. Moves(r) /\ work'[r].at = "ended" /\ \A w \in AssetRequests : w # r => KeepsOn(w)
      BY <2>1, <3>1, GoesMoves
    <3>3. ~BringsNow(r) BY <3>2 DEF BringsNow
    <3>4. \A b \in DOMAIN entries' : b \in DOMAIN entries /\ entries'[b].sheet = entries[b].sheet
      <4>1. CASE Registered(work[r].asset)
        <5>1. work[r].asset \in DOMAIN entries /\ entries[work[r].asset] \in Entry BY <4>1 DEF Registered, EntriesOK
        <5>2. [entries[work[r].asset] EXCEPT !.ref = work[r].path].sheet = entries[work[r].asset].sheet
          BY <2>2, <5>1, EntryEdits
        <5> QED BY <3>1, <4>1, <5>1, <5>2
      <4>2. CASE ~Registered(work[r].asset) BY <3>1, <4>2
      <4> QED BY <4>1, <4>2
    <3>5. \A a \in Assets : stale'[a] \subseteq settled[a] BY <3>1 DEF ShownInv, StaleWereSettled
    <3> QED BY <2>1, <3>1, <3>2, <3>3, <3>4, <3>5, QuietStep
  <2> QED BY <2>3, <2>4
<1>3. CASE BeginOriginal(r)
  <2>1. PICK a \in Assets, n \in 1..3, ext \in Exts :
           /\ BeganAs(r, "original", "saved", a, <<a, OriginalPlaces[n], ext>>, NoRow, NoRow, r)
           /\ disk' = Plus(disk, <<a, OriginalPlaces[n], ext>>, r)
    BY <1>3, BeginOriginalFacts, Zenon
  <2> DEFINE p == <<a, OriginalPlaces[n], ext>>
  <2>2. p \in Paths /\ ~OfVersion(p)
    <3>1. OriginalPlaces[n] \in Places /\ OriginalPlaces[n] \in ToSet(OriginalPlaces) BY PlacesFacts
    <3> QED BY <3>1, PathFacts, DistinctPlaces DEF OfVersion
  <2> HIDE DEF p
  <2>3. BeganAs(r, "original", "saved", a, p, NoRow, NoRow, r) /\ disk' = Plus(disk, p, r) BY <2>1 DEF p
  <2>4. Moves(r) /\ Fresh(r) /\ ~FreshNow(r) /\ \A w \in AssetRequests : w # r => KeepsOn(w) BY <2>3, BeganMoves
  <2>5. /\ DOMAIN disk' = DOMAIN disk \cup {p} /\ disk'[p] = r /\ \A o \in DOMAIN disk : o # p => disk'[o] = disk[o]
    BY <2>3 DEF Plus
  <2>6. work'[r].path = p BY <2>3 DEF BeganAs
  <2>7. UNCHANGED <<entries, shelf, settled, stale, lost>> /\ hist' = hist
    BY <1>3 DEF BeginOriginal, libraryVars, historyVars
  <2> QED BY <2>2, <2>4, <2>5, <2>6, <2>7, WriteNew
<1>4. CASE RecordOriginal(r)
  <2>1. /\ work[r].op = "original" /\ work[r].at = "saved" /\ work[r] \in Request /\ work[r] # Unused
        /\ hist' = hist /\ shelf' = shelf /\ settled' = settled /\ stale' = stale /\ lost' = lost
    BY <1>4, AtWorkIsRequest, RequestFields DEF RecordOriginal, Is, libraryVars, historyVars
  <2>2. work[r].path \in Paths /\ work[r].path[2] \in ToSet(OriginalPlaces) BY <2>1 DEF PathsFit, Fitting
  <2>3. \A a \in Assets : stale'[a] \subseteq settled[a] BY <2>1 DEF ShownInv, StaleWereSettled
  <2>4. PICK at \in {"ended", "failed"} : Goes(r, at) BY <1>4 DEF RecordOriginal
  <2>5. Moves(r) /\ work'[r].at = at /\ \A w \in AssetRequests : w # r => KeepsOn(w)
    BY <2>1, <2>4, GoesMoves
  <2>6. ~BringsNow(r) BY <2>5 DEF BringsNow
  <2>7. CASE Registered(work[r].asset)
    <3>1. entries' = [entries EXCEPT ![work[r].asset].extra = entries[work[r].asset].extra \cup {work[r].path}] /\ disk' = disk
      BY <1>4, <2>7 DEF RecordOriginal
    <3>2. work[r].asset \in DOMAIN entries /\ entries[work[r].asset] \in Entry BY <2>7 DEF Registered, EntriesOK
    <3>3. entries[work[r].asset].extra \cup {work[r].path} \in SUBSET Paths BY <2>2, <3>2, EntryFields
    <3>4. [entries[work[r].asset] EXCEPT !.extra = entries[work[r].asset].extra \cup {work[r].path}].sheet
            = entries[work[r].asset].sheet
      BY <3>2, <3>3, EntryEdits
    <3>5. \A b \in DOMAIN entries' : b \in DOMAIN entries /\ entries'[b].sheet = entries[b].sheet BY <3>1, <3>2, <3>4
    <3> QED BY <2>1, <2>3, <2>5, <2>6, <3>1, <3>5, QuietStep
  <2>8. CASE ~Registered(work[r].asset)
    <3>1. entries' = entries /\ disk' = Drop(disk, work[r].path) BY <1>4, <2>8 DEF RecordOriginal
    <3>2. DOMAIN disk' = DOMAIN disk \ {work[r].path} /\ \A o \in DOMAIN disk' : disk'[o] = disk[o] BY <3>1 DEF Drop
    <3> QED BY <2>1, <2>2, <2>3, <2>5, <2>6, <3>1, <3>2, QuietStep
  <2> QED BY <2>7, <2>8
<1> QED BY <1>1, <1>2, <1>3, <1>4 DEF Uploads

LEMMA DrawShown ==
  ASSUME AssetsTypeOK, AssetsTypeOK', PathsFit, ListedFromOne, ShownInv, NEW r \in AssetRequests, DrawDesign(r)
  PROVE  ShownInv'
<1> USE AssetsTypeParts
<1>0. PICK a \in Assets : a = work[r].asset
  BY AtWorkIsRequest, RequestFields DEF DrawDesign, Is
<1>1. PICK tracks \in BOOLEAN, k \in 0..MaxAssetVersions, n \in 1..4 :
           LET kept == IF tracks THEN Plus(disk, VersionPath(a, k + 1), disk[Png(a)]) ELSE disk
           IN  /\ n \in 1..MaxAssetVersions /\ k + 1 \in 1..4
               /\ n = (IF tracks THEN k + 2 ELSE k + 1)
               /\ tracks => Png(a) \in DOMAIN disk
               /\ hist[a].listed = 1..k
               /\ hist' = [hist EXCEPT ![a] = [listed |-> 1..n, current |-> n]]
               /\ disk' = Plus(Plus(kept, VersionPath(a, n), r), Png(a), r)
  <2>1. \E tracks \in BOOLEAN, k \in 0..MaxAssetVersions, n \in 1..4 :
           LET b == work[r].asset
               kept == IF tracks THEN Plus(disk, VersionPath(b, k + 1), disk[Png(b)]) ELSE disk
           IN  /\ b \in Assets /\ n \in 1..MaxAssetVersions /\ k + 1 \in 1..4
               /\ n = (IF tracks THEN k + 2 ELSE k + 1)
               /\ tracks => Png(b) \in DOMAIN disk
               /\ hist[b].listed = 1..k
               /\ hist' = [hist EXCEPT ![b] = [listed |-> 1..n, current |-> n]]
               /\ disk' = Plus(Plus(kept, VersionPath(b, n), r), Png(b), r)
    BY DrawFacts, Zenon
  <2> QED BY <1>0, <2>1, Zenon
<1> DEFINE kept == IF tracks THEN Plus(disk, VersionPath(a, k + 1), disk[Png(a)]) ELSE disk
<1>2. /\ work[r].op = "design" /\ work[r].at = "begun" /\ work[r] \in Request /\ work[r] # Unused /\ Goes(r, "saved")
      /\ UNCHANGED <<entries, shelf, settled, stale, lost>>
  BY AtWorkIsRequest, RequestFields DEF DrawDesign, Is, libraryVars, historyVars
<1>3. work[r].path = Png(a) BY <1>0, <1>2 DEF PathsFit, Fitting
<1>4. Fresh(r) BY <1>2 DEF Fresh, Is
<1>5. Moves(r) /\ ~FreshNow(r) /\ work'[r].path = Png(a) /\ \A w \in AssetRequests : w # r => KeepsOn(w)
  BY <1>2, <1>3, GoesMoves
<1>6. a \in Assets /\ n \in 1..4 /\ k \in Nat /\ k + 1 \in 1..4 /\ n \in {k + 1, k + 2}
      /\ (\A m \in 1..k : m \in 1..4) /\ k + 1 \in 1..n
  <2>1. k \in Nat OBVIOUS
  <2> QED BY <1>1, <2>1
<1> DEFINE first == VersionPath(a, k + 1)
           last == VersionPath(a, n)
<1>7. /\ Png(a) \in Paths /\ first \in Paths /\ last \in Paths
      /\ first[1] = a /\ last[1] = a /\ OfVersion(first) /\ OfVersion(last) /\ ~OfVersion(Png(a))
      /\ first # Png(a) /\ last # Png(a)
  BY <1>6, PngFacts, DistinctPlaces DEF OfVersion
<1>8. ~ListedVersion(first) /\ ~ListedVersion(last)
  <2>1. ASSUME NEW j \in {k + 1, n}, NEW m \in 1..k, VersionPath(a, j) = VersionPath(a, m) PROVE FALSE
    <3>1. j \in 1..4 /\ m \in 1..4 /\ j # m BY <1>6
    <3>2. VersionPath(a, j)[2] = VersionPlaces[j] /\ VersionPath(a, m)[2] = VersionPlaces[m] BY <1>6, <3>1, PngFacts
    <3> QED BY <2>1, <3>1, <3>2, DistinctPlaces
  <2>2. hist[a].listed = 1..k BY <1>1
  <2> QED BY <1>7, <2>1, <2>2 DEF ListedVersion
<1>9. hist'[a].listed = 1..n /\ \A b \in Assets : b # a => hist'[b] = hist[b] BY <1>1, <1>6 DEF HistOK
<1>10. ListedVersion(first)' /\ ListedVersion(last)'
  <2>1. n \in 1..n /\ k + 1 \in 1..n BY <1>6
  <2>2. \A m \in 1..n : ListedVersion(VersionPath(a, m))'
    <3> SUFFICES ASSUME NEW m \in 1..n PROVE ListedVersion(VersionPath(a, m))' OBVIOUS
    <3>1. VersionPath(a, m)[1] = a BY DEF VersionPath
    <3> QED BY <1>9, <3>1 DEF ListedVersion, VersionPath
  <2> QED BY <2>1, <2>2
<1>11. \A b \in Assets : hist[b].listed \subseteq hist'[b].listed
  <2>1. hist[a].listed = 1..k /\ 1..k \subseteq 1..n BY <1>1, <1>6
  <2> QED BY <1>9, <2>1
<1>12. disk' = Plus(Plus(kept, last, r), Png(a), r) /\ (tracks => Png(a) \in DOMAIN disk) BY <1>1
<1>13. ~FreshNow(r) /\ (tracks => ~FreshNow(disk[Png(a)]))
  <2>1. \A w \in AssetRequests : KeepsOn(w) \/ Moves(w) BY <1>5
  <2>2. tracks => ~Fresh(disk[Png(a)]) BY <1>12 DEF ShownInv, FreshIsNew
  <2> QED BY <1>5, <2>1, <2>2, FreshFades
<1> HIDE DEF first, last, kept
<1>14. /\ DOMAIN disk \subseteq DOMAIN kept /\ DOMAIN kept \subseteq DOMAIN disk \cup {first}
       /\ \A p \in DOMAIN kept : IF p = first /\ tracks THEN kept[p] = disk[Png(a)] ELSE p \in DOMAIN disk /\ kept[p] = disk[p]
  <2>1. CASE tracks
    <3>1. kept = Plus(disk, first, disk[Png(a)]) BY <2>1 DEF kept, first
    <3> QED BY <2>1, <3>1 DEF Plus
  <2>2. CASE ~tracks
    <3>1. kept = disk BY <2>2 DEF kept
    <3> QED BY <2>2, <3>1
  <2> QED BY <2>1, <2>2
<1>15. /\ DOMAIN disk' = DOMAIN kept \cup {last, Png(a)} /\ disk'[Png(a)] = r /\ disk'[last] = r
       /\ \A p \in DOMAIN kept : p # last /\ p # Png(a) => disk'[p] = kept[p]
  BY <1>7, <1>12 DEF Plus
<1>16. \A p \in DOMAIN disk' : \/ p = Png(a)
                               \/ p \in DOMAIN disk /\ disk'[p] = disk[p]
                               \/ OfVersion(p) /\ ~ListedVersion(p) /\ ListedVersion(p)' /\ ~FreshNow(disk'[p])
  <2> SUFFICES ASSUME NEW p \in DOMAIN disk', p # Png(a)
               PROVE  \/ p \in DOMAIN disk /\ disk'[p] = disk[p]
                      \/ OfVersion(p) /\ ~ListedVersion(p) /\ ListedVersion(p)' /\ ~FreshNow(disk'[p])
    OBVIOUS
  <2>1. CASE p = last BY <1>7, <1>8, <1>10, <1>13, <1>15, <2>1
  <2>2. CASE p # last /\ p = first /\ tracks
    <3>1. disk'[p] = disk[Png(a)] BY <1>14, <1>15, <2>2
    <3> QED BY <1>7, <1>8, <1>10, <1>13, <2>2, <3>1
  <2>3. CASE p # last /\ ~(p = first /\ tracks) BY <1>14, <1>15, <2>3
  <2> QED BY <2>1, <2>2, <2>3
<1>17. Png(a) \in DOMAIN disk' /\ DOMAIN disk \subseteq DOMAIN disk' BY <1>14, <1>15
<1> QED BY <1>2, <1>4, <1>5, <1>7, <1>11, <1>15, <1>16, <1>17, WriteNew

LEMMA RestoreShown ==
  ASSUME AssetsTypeOK, AssetsTypeOK', PathsFit, ShownInv, NEW r \in AssetRequests, BeginRestore(r)
  PROVE  ShownInv'
<1> USE AssetsTypeParts
<1>1. PICK a \in Assets, n \in 1..MaxAssetVersions :
           LET picture == disk[VersionPath(a, n)]
           IN  /\ n \in hist[a].listed /\ VersionPath(a, n) \in DOMAIN disk /\ picture \in Pictures
               /\ disk' = Plus(disk, Png(a), picture) /\ hist' = [hist EXCEPT ![a].current = n]
               /\ settled' = settled /\ lost' = lost
               /\ stale' = [stale EXCEPT ![a] = stale[a] \ {picture}]
               /\ work[r] = Unused /\ work'[r] \in Request
               /\ work'[r].op = "restore" /\ work'[r].at = "saved" /\ work'[r].asset = a
               /\ work'[r].path = Png(a) /\ work'[r].row = NoRow /\ work'[r].was = NoRow
               /\ work'[r].of = picture /\ work'[r].before = settled[a]
               /\ \A w \in AssetRequests : w # r => Lives(w, a, picture)
  BY RestoreFacts, Zenon
<1> DEFINE picture == disk[VersionPath(a, n)]
<1>2. picture \in Pictures /\ ~Fresh(picture) BY <1>1 DEF ShownInv, FreshIsNew
<1>3. /\ disk' = Plus(disk, Png(a), picture) /\ hist' = [hist EXCEPT ![a].current = n]
      /\ settled' = settled /\ lost' = lost /\ stale' = [stale EXCEPT ![a] = stale[a] \ {picture}]
      /\ work[r] = Unused /\ work'[r] \in Request
      /\ work'[r].op = "restore" /\ work'[r].at = "saved" /\ work'[r].asset = a /\ work'[r].path = Png(a)
      /\ work'[r].of = picture /\ work'[r].before = settled[a]
      /\ \A w \in AssetRequests : w # r => Lives(w, a, picture)
  BY <1>1
<1> HIDE DEF picture
<1>4. entries' = entries /\ shelf' = shelf BY DEF BeginRestore, libraryVars
<1>5. ~FreshNow(r) BY <1>3 DEF FreshNow
<1>6. Moves(r)
  <2>1. work'[r] # Unused BY <1>3, RequestFields
  <2> QED BY <1>2, <1>3, <1>5, <2>1 DEF Moves
<1>7. \A w \in AssetRequests : KeepsOn(w) \/ Moves(w) BY <1>3, <1>6, LivesKeeps
<1>8. ~FreshNow(picture) BY <1>2, <1>7, FreshFades
<1>9. Png(a) \in Paths /\ ~OfVersion(Png(a)) /\ Png(a)[1] = a BY PngFacts, DistinctPlaces DEF OfVersion
<1>10. /\ DOMAIN disk' = DOMAIN disk \cup {Png(a)} /\ disk'[Png(a)] = picture
       /\ \A p \in DOMAIN disk : p # Png(a) => disk'[p] = disk[p]
  BY <1>3 DEF Plus
<1>11. \A b \in Assets : hist[b].listed \subseteq hist'[b].listed BY <1>3 DEF HistOK
<1>12. (\A b \in Assets : stale'[b] \subseteq stale[b]) /\ picture \notin stale'[a] BY <1>3 DEF SettledOK
<1>13. ASSUME NEW w \in AssetRequests, w # r
       PROVE  KeepsOn(w) /\ (work'[w].at = "saved" /\ work'[w].asset = a => picture \notin work'[w].before)
  <2>1. Lives(w, a, picture) BY <1>3, <1>13
  <2>2. ASSUME work'[w].at = "saved", work'[w].asset = a PROVE picture \notin work'[w].before
    <3>1. work[w] # Unused /\ Still(w) BY <2>1, <2>2, UnusedFields DEF Lives
    <3>2. AtWork(w, a) BY <2>2, <3>1 DEF AtWork, Still
    <3> QED BY <2>1, <3>1, <3>2 DEF Lives
  <2> QED BY <2>1, <2>2, LivesKeeps
<1>14. picture \notin work'[r].before \ {work'[r].of} BY <1>3
<1>15. \A p \in DOMAIN disk' : \/ p = Png(a)
                               \/ p \in DOMAIN disk /\ disk'[p] = disk[p]
                               \/ OfVersion(p) /\ ~ListedVersion(p) /\ ListedVersion(p)' /\ ~FreshNow(disk'[p])
  BY <1>10
<1> DEFINE path == Png(a)
<1>16. /\ path \in Paths /\ ~OfVersion(path) /\ path[1] = a /\ path \in DOMAIN disk' /\ disk'[path] = picture
       /\ DOMAIN disk \subseteq DOMAIN disk' /\ picture \notin stale'[path[1]] /\ work'[r].path = path
  BY <1>3, <1>9, <1>10, <1>12
<1>17. \A p \in DOMAIN disk' : \/ p = path
                               \/ p \in DOMAIN disk /\ disk'[p] = disk[p]
                               \/ OfVersion(p) /\ ~ListedVersion(p) /\ ListedVersion(p)' /\ ~FreshNow(disk'[p])
  BY <1>15
<1> HIDE DEF path
<1>18. \A w \in AssetRequests : w # r =>
         KeepsOn(w) /\ (work'[w].at = "saved" /\ work'[w].asset = path[1] => picture \notin work'[w].before)
  BY <1>13, <1>16
<1>19. entries' = entries /\ shelf' = shelf /\ settled' = settled /\ lost' = lost BY <1>3, <1>4
<1> QED BY <1>2, <1>6, <1>8, <1>11, <1>12, <1>14, <1>16, <1>17, <1>18, <1>19, WriteStep

LEMMA SheetsShown ==
  ASSUME AssetsTypeOK, AssetsTypeOK', PathsFit, ListedFromOne, ShownInv, NEW r \in AssetRequests, Sheets(r)
  PROVE  ShownInv'
<1> USE AssetsTypeParts
<1>1. CASE BeginDesign(r)
  <2>1. PICK a \in Assets : BeganAs(r, "design", "begun", a, Png(a), NoRow, NoRow, r)
    BY <1>1, BeginDesignFacts, Zenon
  <2>2. Moves(r) /\ \A w \in AssetRequests : w # r => KeepsOn(w) BY <2>1, BeganMoves
  <2>3. ~BringsNow(r) BY <2>1 DEF BeganAs, BringsNow
  <2>4. UNCHANGED <<entries, disk, hist, settled, stale, lost>> /\ shelf' = shelf
    BY <1>1 DEF BeginDesign, libraryVars, historyVars
  <2> QED BY <2>2, <2>3, <2>4, RestStep
<1>2. CASE DrawDesign(r) BY <1>2, DrawShown
<1>3. CASE BeginRestore(r) BY <1>3, RestoreShown
<1>4. CASE RecordDesign(r) \/ RecordRestore(r)
  <2>1. /\ work[r].op \in {"design", "restore"} /\ work[r].at = "saved" /\ work[r] \in Request /\ work[r] # Unused
        /\ disk' = disk /\ hist' = hist /\ shelf' = shelf
    BY <1>4, AtWorkIsRequest, RequestFields DEF RecordDesign, RecordRestore, Is, libraryVars
  <2>2. work[r].path = Png(work[r].asset) BY <2>1 DEF PathsFit, Fitting
  <2>3. PICK at \in {"ended", "failed"} : Records(r, work[r].path, at)
    BY <1>4, <2>2 DEF RecordDesign, RecordRestore
  <2>4. work[r].asset \in Assets BY <2>1, RequestFields
  <2>5. Brings(r) BY <2>1, <2>2, <2>4, PngFacts DEF Brings, PictureOps
  <2> QED BY <2>1, <2>3, <2>5, RecordsShown
<1> QED BY <1>1, <1>2, <1>3, <1>4 DEF Sheets

\* A request of the library goes on; what it puts on the shelf is not fresh.
LEMMA GoesShown ==
  ASSUME AssetsTypeOK, AssetsTypeOK', ShownInv, NEW r \in AssetRequests, work[r].at # "unused",
         NEW at \in {"saved", "committed", "ended", "failed"}, Goes(r, at),
         work[r].op \notin PictureOps \/ at # "saved" \/ work[r].path = NoPath,
         UNCHANGED <<entries, disk, hist, settled, stale, lost>>,
         \A f \in DOMAIN shelf' : \/ f \in DOMAIN shelf /\ shelf'[f] = shelf[f]
                                  \/ shelf'[f].of = r \/ ~Fresh(shelf'[f].of)
  PROVE  ShownInv'
<1>1. /\ Moves(r) /\ (\A w \in AssetRequests : w # r => KeepsOn(w))
      /\ work'[r].at = at /\ work'[r].op = work[r].op /\ work'[r].path = work[r].path /\ ~FreshNow(r)
  BY GoesMoves
<1>2. ~BringsNow(r) BY <1>1 DEF BringsNow
<1>3. \A f : FreshNow(f) => Fresh(f)
  <2>1. \A w \in AssetRequests : KeepsOn(w) \/ Moves(w) BY <1>1
  <2> QED BY <2>1, FreshFades
<1>4. \A f \in DOMAIN shelf' : (f \in DOMAIN shelf /\ shelf'[f] = shelf[f]) \/ ~FreshNow(shelf'[f].of)
  BY <1>1, <1>3
<1> QED BY <1>1, <1>2, <1>4, RestStep

\* A request of the library begins.
LEMMA BeginShown ==
  ASSUME AssetsTypeOK, AssetsTypeOK', ShownInv, NEW r \in AssetRequests,
         NEW op, NEW at \in {"begun", "saved"}, NEW a, NEW path, NEW row, NEW was, NEW of,
         BeganAs(r, op, at, a, path, row, was, of), of = r \/ ~Fresh(of),
         op \notin PictureOps \/ at = "begun",
         UNCHANGED <<entries, disk, hist, settled, stale, lost>>,
         \A f \in DOMAIN shelf' : \/ f \in DOMAIN shelf /\ shelf'[f] = shelf[f]
                                  \/ shelf'[f].of = r /\ at = "saved"
  PROVE  ShownInv'
<1>1. Moves(r) /\ (\A w \in AssetRequests : w # r => KeepsOn(w)) /\ (at = "saved" => ~FreshNow(r)) BY BeganMoves
<1>2. ~BringsNow(r) BY DEF BringsNow, BeganAs
<1>3. \A f \in DOMAIN shelf' : (f \in DOMAIN shelf /\ shelf'[f] = shelf[f]) \/ ~FreshNow(shelf'[f].of) BY <1>1
<1> QED BY <1>1, <1>2, <1>3, RestStep

LEMMA LibraryShown ==
  ASSUME AssetsTypeOK, AssetsTypeOK', PathsFit, ShownInv, NEW r \in AssetRequests,
         \/ CreateAsset(r) \/ InsertAsset(r) \/ BeginRemove(r) \/ RemoveRow(r)
         \/ BeginReplace(r) \/ SaveReplacement(r) \/ CommitReplacement(r) \/ RemoveReplaced(r)
         \/ BeginShare(r) \/ CopyToShelf(r) \/ WriteShared(r) \/ RequestFails(r)
  PROVE  ShownInv'
<1>0. UNCHANGED <<entries, disk, hist, settled, stale, lost>>
  BY DEF CreateAsset, InsertAsset, BeginRemove, RemoveRow, BeginReplace, SaveReplacement, CommitReplacement,
         RemoveReplaced, BeginShare, CopyToShelf, WriteShared, RequestFails, historyVars
<1>1. CASE CreateAsset(r)
  <2>1. PICK a \in Shareable, ext \in Exts \cup {NoRow} :
           /\ BeganAs(r, "create", "saved", a, NoPath, NoRow, NoRow, r)
           /\ shelf' = IF ext = NoRow THEN shelf ELSE Plus(shelf, r, [of |-> r, ext |-> ext])
    BY <1>1, CreateFacts, Zenon
  <2>2. \A f \in DOMAIN shelf' : (f \in DOMAIN shelf /\ shelf'[f] = shelf[f]) \/ shelf'[f].of = r BY <2>1 DEF Plus
  <2>3. "create" \notin PictureOps BY DEF PictureOps
  <2> QED BY <1>0, <2>1, <2>2, <2>3, BeginShown
<1>2. CASE BeginRemove(r)
  <2>1. PICK x \in DOMAIN rows :
           /\ BeganAs(r, "remove", "saved", rows[x].asset, NoPath, x, rows[x].image, r)
           /\ shelf' = Drop(shelf, rows[x].image)
    BY <1>2, BeginRemoveFacts, Zenon
  <2>2. \A f \in DOMAIN shelf' : f \in DOMAIN shelf /\ shelf'[f] = shelf[f] BY <2>1 DEF Drop
  <2>3. "remove" \notin PictureOps BY DEF PictureOps
  <2> QED BY <1>0, <2>1, <2>2, <2>3, BeginShown
<1>3. CASE BeginReplace(r)
  <2>1. PICK x \in DOMAIN rows : BeganAs(r, "replace", "begun", rows[x].asset, NoPath, x, rows[x].image, r)
    BY <1>3, BeginReplaceFacts, Zenon
  <2>2. shelf' = shelf BY <1>3 DEF BeginReplace, libraryVars
  <2> QED BY <1>0, <2>1, <2>2, BeginShown
<1>4. CASE BeginShare(r)
  <2>1. PICK a \in DOMAIN entries \cap Shareable, path \in Paths \cup {NoPath},
             x \in DOMAIN rows \cup {NoRow}, was \in Pictures \cup {NoRow} : BeganAs(r, "share", "begun", a, path, x, was, r)
    BY <1>4, BeginShareFacts, Zenon
  <2>2. shelf' = shelf BY <1>4 DEF BeginShare, libraryVars
  <2> QED BY <1>0, <2>1, <2>2, BeginShown
<1>5. CASE InsertAsset(r) \/ CommitReplacement(r) \/ WriteShared(r)
  <2>1. /\ work[r].at # "unused" /\ work[r].op \in {"create", "replace", "share"}
        /\ InsertRow(r) \/ ChangeRow(r)
    BY <1>5 DEF InsertAsset, CommitReplacement, WriteShared, Is
  <2>2. PICK at \in {"committed", "ended", "failed"} : Goes(r, at) BY <2>1 DEF InsertRow, ChangeRow
  <2>3. shelf' = shelf \/ shelf' = Drop(shelf, r) BY <2>1 DEF InsertRow, ChangeRow
  <2>4. \A f \in DOMAIN shelf' : f \in DOMAIN shelf /\ shelf'[f] = shelf[f] BY <2>3 DEF Drop
  <2> QED BY <1>0, <2>1, <2>2, <2>4, GoesShown
<1>6. CASE RemoveRow(r) \/ RemoveReplaced(r) \/ RequestFails(r)
  <2>1. work[r].at # "unused" BY <1>6, FailsFacts DEF RemoveRow, RemoveReplaced, Is
  <2>2. PICK at \in {"ended", "failed"} : Goes(r, at) BY <1>6 DEF RemoveRow, RemoveReplaced, RequestFails
  <2>3. \/ shelf' = shelf \/ \E f : shelf' = Drop(shelf, f)
        \/ \E ext \in Exts : shelf' = Plus(shelf, r, [of |-> r, ext |-> ext])
    BY <1>6, FailsFacts DEF RemoveRow, RemoveReplaced
  <2>4. \A f \in DOMAIN shelf' : (f \in DOMAIN shelf /\ shelf'[f] = shelf[f]) \/ shelf'[f].of = r
    <3>1. ASSUME NEW g, shelf' = Drop(shelf, g)
          PROVE  \A f \in DOMAIN shelf' : f \in DOMAIN shelf /\ shelf'[f] = shelf[f]
      BY <3>1 DEF Drop
    <3>2. ASSUME NEW ext, shelf' = Plus(shelf, r, [of |-> r, ext |-> ext])
          PROVE  \A f \in DOMAIN shelf' : (f \in DOMAIN shelf /\ shelf'[f] = shelf[f]) \/ shelf'[f].of = r
      BY <3>2 DEF Plus
    <3>3. CASE shelf' = shelf
      BY <3>3
    <3> QED BY <2>3, <3>1, <3>2, <3>3, Zenon
  <2> QED BY <1>0, <2>1, <2>2, <2>4, GoesShown
<1>7. CASE SaveReplacement(r)
  <2>1. work[r].at # "unused" /\ Goes(r, "saved") /\ work[r].op \notin PictureOps
    BY <1>7 DEF SaveReplacement, Is, PictureOps
  <2>2. PICK ext \in Exts : shelf' = Plus(shelf, r, [of |-> r, ext |-> ext]) BY <1>7 DEF SaveReplacement
  <2>3. \A f \in DOMAIN shelf' : (f \in DOMAIN shelf /\ shelf'[f] = shelf[f]) \/ shelf'[f].of = r BY <2>2 DEF Plus
  <2> QED BY <1>0, <2>1, <2>3, GoesShown
<1>8. CASE CopyToShelf(r)
  <2>1. work[r].at # "unused" /\ work[r].op \notin PictureOps BY <1>8 DEF CopyToShelf, Is, PictureOps
  <2>2. PICK at \in {"saved", "failed"} : Goes(r, at) BY <1>8 DEF CopyToShelf
  <2> DEFINE p == work[r].path
  <2>3. shelf' = shelf \/ (p \in DOMAIN disk /\ shelf' = Plus(shelf, r, [of |-> disk[p], ext |-> p[3]]))
    BY <1>8 DEF CopyToShelf, OnDisk
  <2>4. p \in DOMAIN disk => ~Fresh(disk[p]) BY DEF ShownInv, FreshIsNew
  <2> HIDE DEF p
  <2>5. \A f \in DOMAIN shelf' : (f \in DOMAIN shelf /\ shelf'[f] = shelf[f]) \/ ~Fresh(shelf'[f].of)
    BY <2>3, <2>4 DEF Plus
  <2> QED BY <1>0, <2>1, <2>2, <2>5, GoesShown
<1> QED BY <1>1, <1>2, <1>3, <1>4, <1>5, <1>6, <1>7, <1>8

LEMMA ApplyShown ==
  ASSUME AssetsTypeOK, AssetsTypeOK', PathsFit, ShownInv, NEW r \in AssetRequests,
         BeginApply(r) \/ CopyFromShelf(r) \/ WriteApplied(r)
  PROVE  ShownInv'
<1> USE AssetsTypeParts
<1>1. CASE BeginApply(r)
  <2>1. PICK a \in Assets, path \in Paths \cup {NoPath}, x \in DOMAIN rows, of \in Pictures :
           /\ BeganAs(r, "apply", "begun", a, path, x, rows[x].image, of)
           /\ path # NoPath => /\ path[1] = a /\ path[2] = "sheet" /\ rows[x].image \in DOMAIN shelf
                               /\ of = shelf[rows[x].image].of
           /\ path = NoPath => of = r
    BY <1>1, BeginApplyFacts, Zenon
  <2>2. of = r \/ ~Fresh(of) BY <2>1 DEF ShownInv, FreshIsNew
  <2>3. UNCHANGED <<entries, disk, hist, settled, stale, lost>> /\ shelf' = shelf
    BY <1>1 DEF BeginApply, libraryVars, historyVars
  <2> QED BY <2>1, <2>2, <2>3, BeginShown
<1>2. CASE CopyFromShelf(r) /\ ~PutsBack(r, [work[r] EXCEPT !.at = "saved"])
  <2>1. /\ work[r].at # "unused" /\ entries' = entries /\ hist' = hist /\ shelf' = shelf
    BY <1>2 DEF CopyFromShelf, Is, libraryVars
  <2>2. PICK at \in {"saved", "failed"} : Goes(r, at) /\ (at # "saved" \/ work[r].path = NoPath)
    BY <1>2 DEF CopyFromShelf
  <2>3. UNCHANGED <<disk, settled, stale, lost>> BY <1>2 DEF CopyFromShelf, historyVars
  <2> QED BY <2>1, <2>2, <2>3, GoesShown
<1>3. CASE CopyFromShelf(r) /\ PutsBack(r, [work[r] EXCEPT !.at = "saved"])
  <2>1. /\ work[r].op = "apply" /\ work[r].at = "begun" /\ work[r] \in Request /\ work[r] # Unused
        /\ entries' = entries /\ hist' = hist /\ shelf' = shelf
    BY <1>3, AtWorkIsRequest, RequestFields DEF CopyFromShelf, Is, libraryVars
  <2>2. PICK a \in Assets, path \in Paths \cup {NoPath}, picture \in Pictures :
          a = work[r].asset /\ path = work[r].path /\ picture = work[r].of
    BY <2>1, RequestFields
  <2>3. CASE path = NoPath
    <3>1. Goes(r, "saved") /\ UNCHANGED <<disk, settled, stale, lost>>
      BY <1>3, <2>2, <2>3 DEF CopyFromShelf, historyVars
    <3>2. work[r].at # "unused" /\ work[r].path = NoPath BY <2>1, <2>2, <2>3
    <3> QED BY <2>1, <3>1, <3>2, GoesShown
  <2>4. CASE path # NoPath /\ work[r].was \notin DOMAIN shelf
    <3>1. Goes(r, "failed") /\ UNCHANGED <<disk, settled, stale, lost>>
      BY <1>3, <2>2, <2>4 DEF CopyFromShelf, historyVars
    <3>2. work[r].at # "unused" BY <2>1
    <3> QED BY <2>1, <3>1, <3>2, GoesShown
  <2>5. CASE path # NoPath /\ work[r].was \in DOMAIN shelf
    <3>1. disk' = Plus(disk, path, picture) BY <1>3, <2>2, <2>5 DEF CopyFromShelf
    <3>2. path \in Paths /\ path[1] = a /\ path[2] = "sheet"
      BY <2>1, <2>2, <2>5 DEF PathsFit, Fitting
    <3>3. ~OfVersion(path) BY <3>2, DistinctPlaces DEF OfVersion
    <3> DEFINE e == [work[r] EXCEPT !.at = "saved"]
    <3>4. /\ e \in Request /\ e.at = "saved" /\ e.op = "apply" /\ e.asset = a /\ e.path = path
          /\ e.of = picture /\ e.before = work[r].before
      BY <2>1, <2>2, AtFields DEF Stages
    <3>5. PutsBack(r, e) BY <1>3
    <3> HIDE DEF e
    <3>6. stale' = [stale EXCEPT ![a] = stale[a] \ {picture}] /\ settled' = settled /\ lost' = lost
      BY <3>4, <3>5 DEF PutsBack
    <3>7. work'[r] = e /\ \A w \in AssetRequests : w # r => Lives(w, a, picture)
      BY <3>4, <3>5, ShowsFacts DEF PutsBack
    <3>8. ~FreshNow(r) BY <3>4, <3>7 DEF FreshNow
    <3>9. picture = r \/ ~Fresh(picture) BY <2>1, <2>2 DEF ShownInv, FreshIsNew
    <3>10. ~Fresh(r) BY <2>1 DEF Fresh, Is
    <3>11. Moves(r)
      <4>1. work'[r] # Unused BY <3>4, <3>7, RequestFields
      <4>2. work[r].before \subseteq settled[a] BY <2>1, <2>2 DEF ShownInv, StaleWereSettled
      <4> QED BY <3>4, <3>7, <3>8, <3>9, <4>1, <4>2 DEF Moves
    <3>12. \A w \in AssetRequests : KeepsOn(w) \/ Moves(w) BY <3>7, <3>11, LivesKeeps
    <3>13. ~FreshNow(picture) BY <3>9, <3>10, <3>12, FreshFades
    <3>14. /\ DOMAIN disk' = DOMAIN disk \cup {path} /\ disk'[path] = picture
           /\ \A p \in DOMAIN disk : p # path => disk'[p] = disk[p]
      BY <3>1 DEF Plus
    <3>15. (\A b \in Assets : stale'[b] \subseteq stale[b]) /\ picture \notin stale'[path[1]] BY <3>2, <3>6 DEF SettledOK
    <3>16. ASSUME NEW w \in AssetRequests, w # r
           PROVE  KeepsOn(w) /\ (work'[w].at = "saved" /\ work'[w].asset = path[1] => picture \notin work'[w].before)
      <4>1. Lives(w, a, picture) BY <3>7, <3>16
      <4>2. ASSUME work'[w].at = "saved", work'[w].asset = a PROVE picture \notin work'[w].before
        <5>1. work[w] # Unused /\ Still(w) BY <4>1, <4>2, UnusedFields DEF Lives
        <5>2. AtWork(w, a) BY <4>2, <5>1 DEF AtWork, Still
        <5> QED BY <4>1, <5>1, <5>2 DEF Lives
      <4> QED BY <3>2, <4>1, <4>2, LivesKeeps
    <3>17. picture \notin work'[r].before \ {work'[r].of} /\ work'[r].path = path BY <3>4, <3>7
    <3>18. \A p \in DOMAIN disk' : \/ p = path
                                   \/ p \in DOMAIN disk /\ disk'[p] = disk[p]
                                   \/ OfVersion(p) /\ ~ListedVersion(p) /\ ListedVersion(p)' /\ ~FreshNow(disk'[p])
      BY <3>14
    <3>19. path \in DOMAIN disk' /\ DOMAIN disk \subseteq DOMAIN disk' BY <3>14
    <3>20. \A b \in Assets : hist[b].listed \subseteq hist'[b].listed BY <2>1
    <3> QED BY <2>1, <3>2, <3>3, <3>6, <3>11, <3>13, <3>14, <3>15, <3>16, <3>17, <3>18, <3>19, <3>20, WriteStep
  <2> QED BY <2>3, <2>4, <2>5
<1>4. CASE WriteApplied(r)
  <2>1. /\ work[r].op = "apply" /\ work[r].at = "saved" /\ work[r] \in Request /\ work[r] # Unused
        /\ disk' = disk /\ hist' = hist /\ shelf' = shelf
    BY <1>4, AtWorkIsRequest, RequestFields DEF WriteApplied, Is, libraryVars
  <2>2. PICK a \in Assets, path \in Paths \cup {NoPath}, picture \in Pictures, before \in SUBSET Pictures :
          a = work[r].asset /\ path = work[r].path /\ picture = work[r].of /\ before = work[r].before
    BY <2>1, RequestFields
  <2>3. PICK described \in BOOLEAN : entries' = Plus(entries, a, [NewEntry(described) EXCEPT !.sheet = path])
    BY <1>4, <2>2 DEF WriteApplied
  <2> DEFINE e == [work[r] EXCEPT !.at = "ended"]
  <2>4. Settles(a, picture, before) /\ Shows(r, e, picture) BY <1>4, <2>2 DEF WriteApplied
  <2>5. /\ e \in Request /\ e.at = "ended" /\ e.asset = a /\ e.of = picture /\ e.before = before
    BY <2>1, <2>2, AtFields DEF Stages
  <2> HIDE DEF e
  <2>6. work'[r] = e /\ \A w \in AssetRequests : w # r => Lives(w, a, picture) BY <2>4, <2>5, ShowsFacts
  <2>7. before \in SUBSET settled[a] /\ (picture = r \/ ~Fresh(picture))
    BY <2>1, <2>2 DEF ShownInv, StaleWereSettled, FreshIsNew
  <2>8. ~Fresh(picture) BY <2>1, <2>7 DEF Fresh, Is
  <2>9. Moves(r) /\ ~BringsNow(r)
    <3>1. ~FreshNow(r) BY <2>5, <2>6 DEF FreshNow
    <3>2. work'[r] # Unused BY <2>5, <2>6, RequestFields
    <3> QED BY <2>5, <2>6, <2>7, <3>1, <3>2 DEF Moves, BringsNow
  <2>10. \A w \in AssetRequests : KeepsOn(w) \/ (Moves(w) /\ ~BringsNow(w)) BY <2>6, <2>9, LivesKeeps
  <2>11. path # NoPath => path[1] = a /\ path[2] = "sheet" BY <2>1, <2>2 DEF PathsFit, Fitting
  <2>12. path # NoPath => Brings(r) BY <2>1, <2>2, <2>11 DEF Brings, PictureOps
  <2>13. path # NoPath => /\ Placed(a, path)
                          /\ IF path \in DOMAIN disk THEN disk[path] \notin before \ {picture} ELSE path \in lost
    BY <2>2, <2>11, <2>12 DEF Placed, ShownInv, BroughtIsLatest, OnDisk
  <2>14. \A b \in DOMAIN entries' :
           IF b = a THEN entries'[b].sheet = path ELSE b \in DOMAIN entries /\ entries'[b].sheet = entries[b].sheet
    <3>1. [NewEntry(described) EXCEPT !.sheet = path].sheet = path BY NewEntryFields, EntryEdits, Zenon
    <3> QED BY <2>3, <3>1 DEF Plus
  <2> QED BY <2>1, <2>4, <2>7, <2>8, <2>10, <2>13, <2>14, SettleStep
<1> QED BY <1>1, <1>2, <1>3, <1>4

LEMMA ShownInit == AssetsInit => ShownInv
<1> SUFFICES ASSUME AssetsInit PROVE ShownInv OBVIOUS
<1>1. PICK a \in Shareable :
        /\ entries = Plus(<<>>, a, NewEntry(TRUE))
        /\ \/ shelf = Plus(<<>>, FirstRow, [of |-> FirstRow, ext |-> "jpg"])
           \/ shelf = <<>>
  BY DEF AssetsInit
<1>2. /\ disk = <<>> /\ (\A b \in Assets : settled[b] = {} /\ stale[b] = {})
      /\ \A w \in AssetRequests : work[w] = Unused
  BY DEF AssetsInit
<1>3. DOMAIN <<>> = {} OBVIOUS
<1>4. DOMAIN disk = {} BY <1>2, <1>3
<1>5. \A b \in DOMAIN entries : entries[b].sheet = NoPath
  <2>1. DOMAIN entries = {a} /\ entries[a] = NewEntry(TRUE) BY <1>1, <1>3 DEF Plus
  <2> QED BY <2>1 DEF NewEntry
<1>6. \A f \in DOMAIN shelf : ~Fresh(shelf[f].of)
  <2>1. CASE shelf = Plus(<<>>, FirstRow, [of |-> FirstRow, ext |-> "jpg"])
    <3>1. DOMAIN shelf = {FirstRow} /\ shelf[FirstRow].of = FirstRow BY <1>3, <2>1 DEF Plus
    <3> QED BY <3>1, NamesFacts DEF Fresh
  <2>2. CASE shelf = <<>> BY <1>3, <2>2
  <2> QED BY <1>1, <2>1, <2>2
<1>7. FreshIsNew BY <1>2, <1>4, <1>6 DEF FreshIsNew
<1>8. StaleWereSettled BY <1>2 DEF StaleWereSettled
<1>9. SheetsArePlaced /\ ShownIsLatest BY <1>5 DEF SheetsArePlaced, ShownIsLatest
<1>10. VersionsAreListed BY <1>4 DEF VersionsAreListed
<1>11. BroughtIsLatest BY <1>2, UnusedFields DEF BroughtIsLatest, Brings, PictureOps
<1> QED BY <1>7, <1>8, <1>9, <1>10, <1>11 DEF ShownInv

LEMMA ShownStep == AssetsBase /\ AssetsBase' /\ ShownInv /\ [AssetsNext]_assetVars => ShownInv'
<1> SUFFICES ASSUME AssetsBase, AssetsBase', ShownInv, [AssetsNext]_assetVars PROVE ShownInv' OBVIOUS
<1>0. AssetsTypeOK /\ PathsFit /\ ListedFromOne /\ AssetsTypeOK' BY DEF AssetsBase
<1>1. CASE \E a \in Assets : AddEntry(a) \/ UpsertAssets(a) \/ UpdateEntry(a) \/ DeleteEntry(a)
  BY <1>0, <1>1, EntriesShown
<1>2. CASE LoseFile BY <1>0, <1>2, LosesShown
<1>3. CASE UNCHANGED assetVars \/ \E x \in Pictures : RenameAsset(x)
  <2>1. UNCHANGED <<entries, disk, hist, settled, stale, lost>> /\ shelf' = shelf /\ work' = work
    BY <1>3 DEF assetVars, RenameAsset, historyVars
  <2>2. \A w \in AssetRequests : KeepsOn(w) BY <1>0, <2>1, SameKeeps, AssetsTypeParts
  <2> QED BY <1>0, <2>1, <2>2, RestStep
<1>4. ASSUME NEW r \in AssetRequests, Uploads(r) \/ Sheets(r) \/ Library(r) \/ RequestFails(r) PROVE ShownInv'
  <2>1. CASE Uploads(r) BY <1>0, <2>1, UploadsShown
  <2>2. CASE Sheets(r) BY <1>0, <2>2, SheetsShown
  <2>3. CASE Library(r) BY <1>0, <2>3, LibraryShown, ApplyShown DEF Library
  <2>4. CASE RequestFails(r) BY <1>0, <2>4, LibraryShown
  <2> QED BY <1>4, <2>1, <2>2, <2>3, <2>4
<1> QED BY <1>1, <1>2, <1>3, <1>4 DEF AssetsNext

(* ProjectAssets: an entry never shows a picture that a later request had  *)
(* replaced nor a file that is gone, unless somebody removed it, and every *)
(* row of the library has its file and every file its row, whichever of    *)
(* the requests that overlap stop after whichever of their steps.          *)
THEOREM ShelvesStayTrue == AssetsSpec => []ShelvesAreTrue
<1> DEFINE Inv == AssetsBase /\ LibraryInv /\ ShownInv
<1>1. AssetsInit => Inv BY BaseInit, LibraryInit, ShownInit
<1>2. Inv /\ [AssetsNext]_assetVars => Inv'
  <2> SUFFICES ASSUME Inv, [AssetsNext]_assetVars PROVE Inv' OBVIOUS
  <2>1. AssetsBase' BY BaseStep
  <2>2. LibraryInv' BY LibraryStep DEF AssetsBase
  <2>3. ShownInv' BY <2>1, ShownStep
  <2> QED BY <2>1, <2>2, <2>3
<1>3. Inv => ShelvesAreTrue BY LibraryWhole DEF ShelvesAreTrue, LibraryInv, ShownInv
<1> QED BY <1>1, <1>2, <1>3, PTL DEF AssetsSpec

-----------------------------------------------------------------------------
(* ArchiveRepair.  A tree is what an export copies and an import unpacks.  *)

IsFcn(f) == f = [i \in DOMAIN f |-> f[i]]
IsTree(t) ==
  /\ t = [layout |-> t.layout, entries |-> t.entries, disk |-> t.disk, hist |-> t.hist, script |-> t.script]
  /\ IsFcn(t.entries) /\ IsFcn(t.disk)
SheetAt(a, p) == (p[1] = a /\ p[2] = "sheet") \/ (p[2] \in ToSet(VersionPlaces) /\ ~IsShot(a))
EntryFits(a, e) ==
  /\ e.sheet # NoPath => SheetAt(a, e.sheet)
  /\ e.ref # NoPath => e.ref[1] = a /\ e.ref[2] = "ref"

\* What an export finds in a project.
Good(t) ==
  /\ IsTree(t)
  /\ DOMAIN t.entries \subseteq Assets
  /\ \A a \in DOMAIN t.entries : t.entries[a] \in Entry /\ EntryFits(a, t.entries[a])
  /\ DOMAIN t.disk \subseteq Paths
  /\ t.script \in ScriptType

LEMMA JoinedFacts ==
  ASSUME NEW f, NEW g
  PROVE  /\ IsFcn(Joined(f, g)) /\ DOMAIN Joined(f, g) = DOMAIN f \cup DOMAIN g
         /\ \A i \in DOMAIN f : Joined(f, g)[i] = f[i]
         /\ \A i \in DOMAIN g : i \notin DOMAIN f => Joined(f, g)[i] = g[i]
BY DEF Joined, IsFcn

LEMMA VersionFileFacts ==
  ASSUME NEW t, NEW a, VersionFile(t, a) # NoPath
  PROVE  VersionFile(t, a) \in VersionsOf(t, a)
<1> DEFINE files == VersionsOf(t, a)
           n == t.hist[a].current
<1>1. CASE HasCurrent(t, a)
  <2>1. VersionFile(t, a) = VersionPath(a, n) BY <1>1 DEF VersionFile, ChosenOf
  <2> QED BY <1>1, <2>1 DEF HasCurrent, VersionsOf, SavedVersions
<1>2. CASE ~HasCurrent(t, a)
  <2>1. Cardinality(files) = 1 /\ VersionFile(t, a) = CHOOSE p \in files : TRUE
    BY <1>2 DEF VersionFile, ChosenOf
  <2>2. Cardinality({}) = 0 BY FS_EmptySet
  <2>3. files # {} BY <2>1, <2>2
  <2>4. (CHOOSE p \in files : TRUE) \in files BY <2>3
  <2> QED BY <2>1, <2>4
<1> QED BY <1>1, <1>2

\* What is brought back is a version, and there was no canonical file.
LEMMA SourceFacts ==
  ASSUME NEW t, NEW a \in Assets, Source(t, a, "sheet") # NoPath
  PROVE  /\ Source(t, a, "sheet") \in VersionsOf(t, a) /\ Source(t, a, "sheet") \in DOMAIN t.disk
         /\ Png(a) \notin DOMAIN t.disk /\ t.entries[a].sheet # NoPath /\ Repaired(t, a, "sheet")
         /\ t.entries[a].sheet \in DOMAIN t.disk => Source(t, a, "sheet") = t.entries[a].sheet
         /\ t.entries[a].sheet \notin DOMAIN t.disk => Source(t, a, "sheet") = VersionFile(t, a)
<1>1. t.entries[a]["sheet"] = t.entries[a].sheet /\ <<a, "sheet", "png">> = Png(a) BY DEF Png
<1>2. /\ Png(a) \notin DOMAIN t.disk /\ t.entries[a].sheet # NoPath /\ Repaired(t, a, "sheet")
      /\ t.entries[a].sheet \in DOMAIN t.disk =>
           t.entries[a].sheet \in VersionsOf(t, a) /\ Source(t, a, "sheet") = t.entries[a].sheet
      /\ t.entries[a].sheet \notin DOMAIN t.disk => Source(t, a, "sheet") = VersionFile(t, a)
  BY <1>1 DEF Source
<1>3. Source(t, a, "sheet") \in VersionsOf(t, a) BY <1>2, VersionFileFacts
<1> QED BY <1>2, <1>3 DEF VersionsOf, SavedVersions

\* Where no files of a namesake are among them, the versions that are looked
\* through are the asset's own.
LEMMA NotMistaken ==
  ASSUME NEW t, NEW a, ~Mistaken(t, a)
  PROVE  (IF VersionFile(t, a) = NoPath THEN NoRow ELSE t.disk[VersionFile(t, a)]) = BroughtBack(t, a)
<1> DEFINE own == SavedVersions(t, {a})
<1>1. VersionFile(t, a) = ChosenOf(t, a, own)
  <2>1. CASE HasCurrent(t, a) BY <2>1 DEF VersionFile, ChosenOf
  <2>2. CASE ~HasCurrent(t, a)
    <3>1. SavedVersions(t, Namesakes[a]) = {} BY <2>2 DEF Mistaken
    <3>2. VersionsOf(t, a) = own BY <3>1 DEF VersionsOf, SavedVersions
    <3> QED BY <3>2 DEF VersionFile
  <2> QED BY <2>1, <2>2
<1> QED BY <1>1, Zenon DEF BroughtBack

\* Where nothing is brought back there is a canonical file, or the one that is
\* named, or no version to tell.
LEMMA NoSourceFacts ==
  ASSUME NEW t, NEW a, Source(t, a, "sheet") = NoPath, Repaired(t, a, "sheet"),
         t.entries[a].sheet # NoPath, Png(a) \notin DOMAIN t.disk, t.entries[a].sheet \in DOMAIN t.disk
  PROVE  t.entries[a].sheet \notin VersionsOf(t, a)
BY DEF Source, Png

-----------------------------------------------------------------------------
(* A repaired tree.                                                        *)

IsRepairOf(t, r) ==
  /\ IsTree(r) /\ r.layout = t.layout /\ r.script = t.script /\ r.hist = t.hist
  /\ DOMAIN r.entries = DOMAIN t.entries \cup Placeholders(t)
  /\ \A a \in DOMAIN t.entries : r.entries[a] = RepairedEntry(t, a)
  /\ \A a \in Placeholders(t) : r.entries[a] = NewEntry(TRUE)
  /\ DOMAIN r.disk = DOMAIN t.disk \cup {Png(a) : a \in Made(t)}
  /\ \A p \in DOMAIN t.disk : r.disk[p] = t.disk[p]
  /\ \A a \in Made(t) : r.disk[Png(a)] = t.disk[Source(t, a, "sheet")]

LEMMA RepairFields ==
  ASSUME NEW t, Good(t), NEW r, r = RepairTree(t)
  PROVE  IsRepairOf(t, r)
<1> DEFINE E == [a \in DOMAIN t.entries |-> RepairedEntry(t, a)]
           N == [a \in Placeholders(t) |-> NewEntry(TRUE)]
           D == [p \in {Png(a) : a \in Made(t)} |-> t.disk[Source(t, p[1], "sheet")]]
<1>1. r = [t EXCEPT !.entries = Joined(E, N), !.disk = Joined(D, t.disk)] BY DEF RepairTree
<1>2. /\ DOMAIN E = DOMAIN t.entries /\ DOMAIN N = Placeholders(t) /\ DOMAIN D = {Png(a) : a \in Made(t)}
      /\ \A a \in DOMAIN t.entries : E[a] = RepairedEntry(t, a)
      /\ \A a \in Placeholders(t) : N[a] = NewEntry(TRUE)
  OBVIOUS
<1>3. ASSUME NEW a \in Made(t) PROVE a \in Assets /\ D[Png(a)] = t.disk[Source(t, a, "sheet")]
                                     /\ Png(a) \notin DOMAIN t.disk
  <2>1. a \in Assets /\ Source(t, a, "sheet") # NoPath BY DEF Made, Good
  <2>2. Png(a)[1] = a BY <2>1, PngFacts
  <2> QED BY <2>1, <2>2, SourceFacts
<1> HIDE DEF E, N, D
<1>4. /\ IsFcn(Joined(E, N)) /\ IsFcn(Joined(D, t.disk)) BY JoinedFacts
<1>5. /\ r = [layout |-> t.layout, entries |-> Joined(E, N), disk |-> Joined(D, t.disk), hist |-> t.hist,
              script |-> t.script]
  BY <1>1 DEF Good, IsTree
<1>6. r.entries = Joined(E, N) /\ r.disk = Joined(D, t.disk) /\ r.layout = t.layout /\ r.script = t.script
      /\ r.hist = t.hist
  BY <1>5
<1>7. IsTree(r) BY <1>4, <1>5, <1>6 DEF IsTree
<1>8. Placeholders(t) \cap DOMAIN t.entries = {} BY DEF Placeholders
<1>9. \A p \in DOMAIN t.disk : p \notin DOMAIN D BY <1>2, <1>3
<1>10. /\ DOMAIN r.entries = DOMAIN t.entries \cup Placeholders(t)
       /\ \A a \in DOMAIN t.entries : r.entries[a] = RepairedEntry(t, a)
       /\ \A a \in Placeholders(t) : r.entries[a] = NewEntry(TRUE)
  <2>1. /\ DOMAIN r.entries = DOMAIN E \cup DOMAIN N
        /\ \A a \in DOMAIN E : r.entries[a] = E[a]
        /\ \A a \in DOMAIN N : a \notin DOMAIN E => r.entries[a] = N[a]
    <3>1. /\ DOMAIN Joined(E, N) = DOMAIN E \cup DOMAIN N
          /\ \A a \in DOMAIN E : Joined(E, N)[a] = E[a]
          /\ \A a \in DOMAIN N : a \notin DOMAIN E => Joined(E, N)[a] = N[a]
      BY JoinedFacts, Zenon
    <3> QED BY <1>6, <3>1
  <2> QED BY <1>2, <1>8, <2>1
<1>11. /\ DOMAIN r.disk = DOMAIN D \cup DOMAIN t.disk
       /\ \A p \in DOMAIN D : r.disk[p] = D[p]
       /\ \A p \in DOMAIN t.disk : r.disk[p] = t.disk[p]
  <2>1. /\ DOMAIN Joined(D, t.disk) = DOMAIN D \cup DOMAIN t.disk
        /\ \A p \in DOMAIN D : Joined(D, t.disk)[p] = D[p]
        /\ \A p \in DOMAIN t.disk : p \notin DOMAIN D => Joined(D, t.disk)[p] = t.disk[p]
    BY JoinedFacts, Zenon
  <2> QED BY <1>6, <1>9, <2>1
<1>12. \A a \in Made(t) : r.disk[Png(a)] = t.disk[Source(t, a, "sheet")] BY <1>2, <1>3, <1>11
<1> QED BY <1>2, <1>6, <1>7, <1>10, <1>11, <1>12 DEF IsRepairOf

IsPruneOf(r, scope, b) ==
  /\ IsTree(b) /\ b.layout = r.layout /\ b.script = r.script /\ b.entries = r.entries
  /\ DOMAIN b.disk = {p \in DOMAIN r.disk : GoesAlong(p, scope)}
  /\ \A p \in DOMAIN b.disk : b.disk[p] = r.disk[p]

LEMMA PruneFields ==
  ASSUME NEW r, IsTree(r), NEW scope, NEW b, b = Prune(r, scope)
  PROVE  IsPruneOf(r, scope, b)
<1> DEFINE D == [p \in {q \in DOMAIN r.disk : GoesAlong(q, scope)} |-> r.disk[p]]
           H == [a \in Assets |->
                   [listed |-> {n \in r.hist[a].listed : scope = "full" \/ n = r.hist[a].current},
                    current |-> r.hist[a].current]]
<1>1. b = [r EXCEPT !.disk = D, !.hist = H] BY DEF Prune
<1>2. IsFcn(D) /\ DOMAIN D = {p \in DOMAIN r.disk : GoesAlong(p, scope)} /\ \A p \in DOMAIN D : D[p] = r.disk[p]
  BY DEF IsFcn
<1> HIDE DEF D, H
<1>3. b = [layout |-> r.layout, entries |-> r.entries, disk |-> D, hist |-> H, script |-> r.script]
  BY <1>1 DEF IsTree
<1>4. b.layout = r.layout /\ b.script = r.script /\ b.entries = r.entries /\ b.disk = D /\ b.hist = H BY <1>3
<1> QED BY <1>2, <1>3, <1>4 DEF IsTree, IsPruneOf

LEMMA RepairedFields ==
  ASSUME NEW t, NEW a \in DOMAIN t.entries, t.entries[a] \in Entry
  PROVE  /\ RepairedEntry(t, a).sheet = Normalised(t, a, "sheet")
         /\ RepairedEntry(t, a).ref = Normalised(t, a, "ref")
         /\ RepairedEntry(t, a).described = t.entries[a].described
         /\ RepairedEntry(t, a).extra = t.entries[a].extra
BY DEF RepairedEntry, Entry

LEMMA NormalisedSheet ==
  ASSUME NEW t, NEW a
  PROVE  Normalised(t, a, "sheet") =
           IF /\ Repaired(t, a, "sheet") /\ t.entries[a].sheet # NoPath
              /\ Png(a) \in DOMAIN t.disk \/ Source(t, a, "sheet") # NoPath
           THEN Png(a) ELSE t.entries[a].sheet
BY DEF Normalised, Png

LEMMA NormalisedRef ==
  ASSUME NEW t, NEW a
  PROVE  Normalised(t, a, "ref") =
           IF Repaired(t, a, "ref") /\ t.entries[a].ref # NoPath /\ <<a, "ref", "png">> \in DOMAIN t.disk
           THEN <<a, "ref", "png">> ELSE t.entries[a].ref
<1>1. Source(t, a, "ref") = NoPath BY DEF Source
<1> QED BY <1>1 DEF Normalised

LEMMA RepairedSame ==
  ASSUME NEW t, NEW r, r.layout = t.layout, r.script = t.script
  PROVE  /\ SkipsScript(r) <=> SkipsScript(t)
         /\ \A a : (Repaired(r, a, "sheet") <=> Repaired(t, a, "sheet"))
                   /\ (Repaired(r, a, "ref") <=> Repaired(t, a, "ref"))
<1>1. SkipsScript(r) <=> SkipsScript(t) BY DEF SkipsScript
<1> QED BY <1>1 DEF Repaired

\* The entry of an asset, and the files, after the repair.
LEMMA EntryAfter ==
  ASSUME NEW t, Good(t), NEW r, r = RepairTree(t), NEW a \in DOMAIN t.entries
  PROVE  /\ a \in Assets /\ t.entries[a] \in Entry /\ EntryFits(a, t.entries[a]) /\ a \in DOMAIN r.entries
         /\ r.entries[a].sheet = Normalised(t, a, "sheet") /\ r.entries[a].ref = Normalised(t, a, "ref")
         /\ r.entries[a].described = t.entries[a].described
<1>1. a \in Assets /\ t.entries[a] \in Entry /\ EntryFits(a, t.entries[a]) BY DEF Good
<1>2. r.entries[a] = RepairedEntry(t, a) /\ DOMAIN r.entries = DOMAIN t.entries \cup Placeholders(t)
  BY RepairFields DEF IsRepairOf
<1>3. /\ RepairedEntry(t, a).sheet = Normalised(t, a, "sheet")
      /\ RepairedEntry(t, a).ref = Normalised(t, a, "ref")
      /\ RepairedEntry(t, a).described = t.entries[a].described
  BY <1>1, RepairedFields, Zenon
<1> QED BY <1>1, <1>2, <1>3

LEMMA FilesAfter ==
  ASSUME NEW t, Good(t), NEW r, r = RepairTree(t)
  PROVE  /\ DOMAIN r.disk = DOMAIN t.disk \cup {Png(c) : c \in Made(t)} /\ Made(t) \subseteq DOMAIN t.entries
         /\ Made(t) \subseteq Assets /\ DOMAIN r.disk \subseteq Paths
         /\ \A p \in DOMAIN t.disk : r.disk[p] = t.disk[p]
         /\ \A c \in Made(t) : r.disk[Png(c)] = t.disk[Source(t, c, "sheet")]
<1>1. /\ DOMAIN r.disk = DOMAIN t.disk \cup {Png(c) : c \in Made(t)}
      /\ \A p \in DOMAIN t.disk : r.disk[p] = t.disk[p]
      /\ \A c \in Made(t) : r.disk[Png(c)] = t.disk[Source(t, c, "sheet")]
  BY RepairFields DEF IsRepairOf
<1>2. Made(t) \subseteq DOMAIN t.entries /\ DOMAIN t.entries \subseteq Assets /\ DOMAIN t.disk \subseteq Paths
  BY DEF Made, Good
<1>3. \A c \in Made(t) : Png(c) \in Paths BY <1>2, PngFacts
<1> QED BY <1>1, <1>2, <1>3

LEMMA SheetAfter ==
  ASSUME NEW t, Good(t), NEW r, r = RepairTree(t), NEW a \in DOMAIN t.entries
  PROVE  /\ \/ r.entries[a].sheet = t.entries[a].sheet
            \/ r.entries[a].sheet = Png(a) /\ Png(a) \in DOMAIN r.disk
         /\ t.entries[a].sheet \in DOMAIN r.disk /\ t.entries[a].sheet \notin DOMAIN t.disk => a \in Made(t)
         /\ a \in Made(t) => r.entries[a].sheet = Png(a) /\ Png(a) \in DOMAIN r.disk
         /\ Repaired(t, a, "sheet") /\ r.entries[a].sheet # NoPath /\ Png(a) \in DOMAIN r.disk =>
              r.entries[a].sheet = Png(a)
         /\ Repaired(t, a, "sheet") /\ r.entries[a].sheet # NoPath /\ Png(a) \notin DOMAIN r.disk
              /\ r.entries[a].sheet \in DOMAIN r.disk => r.entries[a].sheet \notin VersionsOf(t, a)
<1> DEFINE raw == t.entries[a].sheet
           s == r.entries[a].sheet
<1>1. a \in Assets /\ t.entries[a] \in Entry /\ EntryFits(a, t.entries[a]) BY DEF Good
<1>2. raw \in Paths \cup {NoPath} BY <1>1, EntryFields
<1>3. s = Normalised(t, a, "sheet") BY EntryAfter, Zenon
<1>4. s = IF /\ Repaired(t, a, "sheet") /\ raw # NoPath
             /\ Png(a) \in DOMAIN t.disk \/ Source(t, a, "sheet") # NoPath
          THEN Png(a) ELSE raw
  BY <1>3, NormalisedSheet
<1>5. /\ DOMAIN r.disk = DOMAIN t.disk \cup {Png(c) : c \in Made(t)} /\ Made(t) \subseteq DOMAIN t.entries
  BY FilesAfter, Zenon
<1>6. \A c \in Made(t) : Png(c)[1] = c /\ Png(c)[2] = "sheet" /\ Png(c) # NoPath
  BY <1>5, PngFacts DEF Good
<1>7. a \in Made(t) <=> Source(t, a, "sheet") # NoPath BY DEF Made
<1>8. a \in Made(t) => Repaired(t, a, "sheet") /\ raw # NoPath /\ s = Png(a) BY <1>1, <1>4, <1>7, SourceFacts
<1>9. Png(a)[1] = a /\ Png(a) # NoPath /\ Png(a)[2] = "sheet" BY <1>1, PngFacts
<1>10. ASSUME raw \in DOMAIN r.disk, raw \notin DOMAIN t.disk PROVE a \in Made(t)
  <2>1. PICK c \in Made(t) : raw = Png(c) BY <1>5, <1>10
  <2>2. raw[1] = c /\ raw[2] = "sheet" /\ raw # NoPath BY <2>1, <1>6
  <2>3. SheetAt(a, raw) BY <1>1, <2>2 DEF EntryFits
  <2>4. raw[1] = a BY <2>2, <2>3, DistinctPlaces DEF SheetAt
  <2> QED BY <2>1, <2>2, <2>4
<1>11. Png(a) \in DOMAIN r.disk => Png(a) \in DOMAIN t.disk \/ a \in Made(t) BY <1>5, <1>6, <1>9
<1>12. a \in Made(t) => Png(a) \in DOMAIN r.disk BY <1>5
<1>13. s = raw \/ (s = Png(a) /\ s \in DOMAIN r.disk) BY <1>4, <1>5, <1>7, <1>12
<1>14. Repaired(t, a, "sheet") /\ s # NoPath /\ Png(a) \in DOMAIN r.disk => s = Png(a)
  BY <1>4, <1>7, <1>11
<1>15. ASSUME Repaired(t, a, "sheet"), s # NoPath, Png(a) \notin DOMAIN r.disk, s \in DOMAIN r.disk
       PROVE  s \notin VersionsOf(t, a)
  <2>1. s = raw /\ a \notin Made(t) /\ Png(a) \notin DOMAIN t.disk BY <1>5, <1>12, <1>13, <1>15
  <2>2. raw \in DOMAIN t.disk BY <1>10, <1>15, <2>1
  <2> QED BY <1>7, <1>15, <2>1, <2>2, NoSourceFacts
<1> QED BY <1>8, <1>10, <1>12, <1>13, <1>14, <1>15

LEMMA RefAfter ==
  ASSUME NEW t, Good(t), NEW r, r = RepairTree(t), NEW a \in DOMAIN t.entries
  PROVE  /\ t.entries[a].ref # NoPath => t.entries[a].ref[2] = "ref"
         /\ \/ r.entries[a].ref = t.entries[a].ref
            \/ /\ r.entries[a].ref = <<a, "ref", "png">> /\ <<a, "ref", "png">> \in DOMAIN t.disk
               /\ Repaired(t, a, "ref") /\ t.entries[a].ref # NoPath
         /\ \A p \in DOMAIN r.disk : p[2] = "ref" => p \in DOMAIN t.disk
         /\ Repaired(t, a, "ref") /\ r.entries[a].ref # NoPath /\ <<a, "ref", "png">> \in DOMAIN r.disk =>
              r.entries[a].ref = <<a, "ref", "png">>
<1> DEFINE raw == t.entries[a].ref
           e == r.entries[a].ref
           own == <<a, "ref", "png">>
<1>1. a \in Assets /\ t.entries[a] \in Entry /\ EntryFits(a, t.entries[a]) BY DEF Good
<1>2. e = Normalised(t, a, "ref") BY EntryAfter, Zenon
<1>3. e = IF Repaired(t, a, "ref") /\ raw # NoPath /\ own \in DOMAIN t.disk THEN own ELSE raw
  BY <1>2, NormalisedRef
<1>4. DOMAIN r.disk = DOMAIN t.disk \cup {Png(c) : c \in Made(t)} /\ Made(t) \subseteq Assets
  BY FilesAfter, Zenon
<1>5. \A p \in DOMAIN r.disk : p[2] = "ref" => p \in DOMAIN t.disk
  <2>1. \A c \in Made(t) : Png(c)[2] = "sheet" BY <1>4, PngFacts
  <2> QED BY <1>4, <2>1
<1>6. own[2] = "ref" OBVIOUS
<1>7. raw # NoPath => raw[2] = "ref" BY <1>1 DEF EntryFits
<1> HIDE DEF own
<1>8. e = raw \/ (e = own /\ e \in DOMAIN t.disk /\ Repaired(t, a, "ref") /\ raw # NoPath) BY <1>3
<1>9. Repaired(t, a, "ref") /\ e # NoPath /\ own \in DOMAIN r.disk => e = own BY <1>3, <1>5, <1>6
<1> QED BY <1>5, <1>7, <1>8, <1>9 DEF own

\* What is shown of an asset after the repair.
LEMMA ShownAfter ==
  ASSUME NEW t, Good(t), NEW r, r = RepairTree(t), NEW a \in DOMAIN t.entries, NEW field \in Fields
  PROVE  \/ Shadowed(t, a, field)
         \/ Shown(r, a, field) = Shown(t, a, field)
         \/ /\ Shown(t, a, field) = NoRow /\ t.entries[a][field] # NoPath
            /\ Mistaken(t, a) \/ Shown(r, a, field) = BroughtBack(t, a)
<1>1. a \in DOMAIN r.entries /\ (\A p \in DOMAIN t.disk : r.disk[p] = t.disk[p] /\ p \in DOMAIN r.disk)
      /\ \A c \in Made(t) : r.disk[Png(c)] = t.disk[Source(t, c, "sheet")] /\ Png(c) \in DOMAIN r.disk
  BY EntryAfter, FilesAfter
<1>2. a \in Assets BY DEF Good
<1>3. CASE field = "sheet"
  <2> DEFINE raw == t.entries[a].sheet
             s == r.entries[a].sheet
  <2>0. t.entries[a][field] = raw /\ r.entries[a][field] = s BY <1>3
  <2>1. Shown(t, a, field) = IF raw \in DOMAIN t.disk THEN t.disk[raw] ELSE NoRow BY <2>0 DEF Shown
  <2>2. Shown(r, a, field) = IF s \in DOMAIN r.disk THEN r.disk[s] ELSE NoRow BY <1>1, <2>0 DEF Shown
  <2>3. CASE a \in Made(t)
    <3>1. /\ Source(t, a, "sheet") \in VersionsOf(t, a) /\ raw # NoPath
          /\ Source(t, a, "sheet") # NoPath
          /\ raw \in DOMAIN t.disk => Source(t, a, "sheet") = raw
          /\ raw \notin DOMAIN t.disk => Source(t, a, "sheet") = VersionFile(t, a)
          /\ Repaired(t, a, "sheet")
      BY <1>2, <2>3, SourceFacts DEF Made
    <3>2. s = Png(a)
      <4>1. s = Normalised(t, a, "sheet") BY EntryAfter, Zenon
      <4> QED BY <3>1, <4>1, NormalisedSheet
    <3>3. Shown(r, a, field) = t.disk[Source(t, a, "sheet")] BY <1>1, <2>2, <2>3, <3>2
    <3>4. CASE raw \in DOMAIN t.disk BY <2>1, <3>1, <3>3, <3>4
    <3>5. CASE raw \notin DOMAIN t.disk
      <4>1. Shown(r, a, field) = IF VersionFile(t, a) = NoPath THEN NoRow ELSE t.disk[VersionFile(t, a)]
        BY <3>1, <3>3, <3>5
      <4>2. Mistaken(t, a) \/ Shown(r, a, field) = BroughtBack(t, a) BY <4>1, NotMistaken
      <4> QED BY <2>0, <2>1, <3>1, <3>5, <4>2
    <3> QED BY <3>4, <3>5
  <2>4. CASE a \notin Made(t) /\ s = raw
    <3>1. raw \in DOMAIN r.disk => raw \in DOMAIN t.disk BY <2>4, SheetAfter
    <3> QED BY <1>1, <2>1, <2>2, <2>4, <3>1
  <2>5. CASE a \notin Made(t) /\ s # raw
    <3>1. s = Normalised(t, a, "sheet") BY EntryAfter, Zenon
    <3>2. Repaired(t, a, "sheet") /\ raw # NoPath /\ Png(a) \in DOMAIN t.disk /\ raw # Png(a)
      BY <2>5, <3>1, NormalisedSheet DEF Made
    <3> QED BY <1>3, <2>0, <3>2 DEF Shadowed, Png
  <2> QED BY <2>3, <2>4, <2>5
<1>4. CASE field = "ref"
  <2> DEFINE raw == t.entries[a].ref
             e == r.entries[a].ref
  <2>0. t.entries[a][field] = raw /\ r.entries[a][field] = e BY <1>4
  <2>1. Shown(t, a, field) = IF raw \in DOMAIN t.disk THEN t.disk[raw] ELSE NoRow BY <2>0 DEF Shown
  <2>2. Shown(r, a, field) = IF e \in DOMAIN r.disk THEN r.disk[e] ELSE NoRow BY <1>1, <2>0 DEF Shown
  <2>3. CASE e = raw
    <3>1. raw \in DOMAIN r.disk => raw \in DOMAIN t.disk
      <4>1. CASE raw = NoPath
        <5>1. NoPath \notin DOMAIN r.disk
          BY FilesAfter, PathFacts
        <5> QED BY <4>1, <5>1
      <4>2. CASE raw # NoPath
        <5>1. (raw # NoPath => raw[2] = "ref") /\ \A p \in DOMAIN r.disk : p[2] = "ref" => p \in DOMAIN t.disk
          BY RefAfter, Zenon
        <5> QED BY <4>2, <5>1
      <4> QED BY <4>1, <4>2
    <3> QED BY <1>1, <2>1, <2>2, <2>3, <3>1
  <2>4. CASE e # raw
    <3>1. e = <<a, "ref", "png">> /\ e \in DOMAIN t.disk /\ Repaired(t, a, "ref") /\ raw # NoPath
      <4>1. e = Normalised(t, a, "ref") BY EntryAfter, Zenon
      <4>2. e = IF Repaired(t, a, "ref") /\ raw # NoPath /\ <<a, "ref", "png">> \in DOMAIN t.disk
                THEN <<a, "ref", "png">> ELSE raw
        BY <4>1, NormalisedRef
      <4> QED BY <2>4, <4>2
    <3> QED BY <1>4, <2>0, <2>4, <3>1 DEF Shadowed
  <2> QED BY <2>3, <2>4
<1> QED BY <1>3, <1>4 DEF Fields

-----------------------------------------------------------------------------
(* An archive that is repaired once is as it was.                          *)

\* What is left out of the claim: an archive of the current state without the
\* version that another asset shows.
Complete(t, scope) == scope = "full" \/ \A a \in DOMAIN t.entries : ~Borrowed(t, a)

LEMMA OwnPlaces ==
  ASSUME NEW a \in Assets, NEW scope
  PROVE  /\ GoesAlong(Png(a), scope) /\ GoesAlong(<<a, "ref", "png">>, scope)
         /\ \A p : p[2] = "ref" => GoesAlong(p, scope)
<1>1. Png(a)[2] = "sheet" BY PngFacts
<1> QED BY <1>1, DistinctPlaces DEF GoesAlong

LEMMA SheetGoesAlong ==
  ASSUME NEW t, Good(t), NEW r, r = RepairTree(t), NEW scope, Complete(t, scope),
         NEW a \in DOMAIN t.entries, r.entries[a].sheet \in DOMAIN r.disk
  PROVE  GoesAlong(r.entries[a].sheet, scope)
<1> DEFINE raw == t.entries[a].sheet
           s == r.entries[a].sheet
<1>1. a \in Assets /\ t.entries[a] \in Entry /\ EntryFits(a, t.entries[a]) BY EntryAfter, Zenon
<1>2. DOMAIN r.disk \subseteq Paths BY FilesAfter, Zenon
<1>3. s # NoPath BY <1>2, PathFacts
<1>4. SUFFICES ASSUME scope # "full", s[2] \in ToSet(VersionPlaces), TypeOf(s[1]) # "product" PROVE FALSE
  BY DEF GoesAlong
<1>5. s # Png(a) BY <1>1, <1>4, PngFacts, DistinctPlaces
<1>6. /\ s = raw \/ s = Png(a)
      /\ raw \in DOMAIN r.disk /\ raw \notin DOMAIN t.disk => a \in Made(t)
      /\ a \in Made(t) => s = Png(a)
      /\ Repaired(t, a, "sheet") /\ s # NoPath /\ Png(a) \in DOMAIN r.disk => s = Png(a)
      /\ Repaired(t, a, "sheet") /\ s # NoPath /\ Png(a) \notin DOMAIN r.disk
           /\ s \in DOMAIN r.disk => s \notin VersionsOf(t, a)
  BY SheetAfter
<1> HIDE DEF s, raw
<1>7. s = raw /\ raw \in DOMAIN t.disk BY <1>5, <1>6 DEF s
<1>8. ~Borrowed(t, a) BY <1>4 DEF Complete
<1>9. raw[1] = a BY <1>3, <1>4, <1>7, <1>8 DEF Borrowed, raw
<1>10. ~IsShot(a)
  <2>1. SheetAt(a, raw) BY <1>1, <1>3, <1>7 DEF EntryFits, raw
  <2> QED BY <1>4, <1>7, <2>1, DistinctPlaces DEF SheetAt
<1>11. Repaired(t, a, "sheet") BY <1>4, <1>7, <1>9, <1>10 DEF Repaired
<1>12. s \in VersionsOf(t, a) BY <1>4, <1>7, <1>9 DEF VersionsOf, SavedVersions
<1> QED BY <1>3, <1>5, <1>6, <1>11, <1>12 DEF s

\* The pictures that a repaired tree shows are in its archive.
LEMMA NamedGoesAlong ==
  ASSUME NEW t, Good(t), NEW r, r = RepairTree(t), NEW scope, Complete(t, scope), NEW b, b = Prune(r, scope),
         NEW a \in DOMAIN r.entries, NEW field \in Fields, r.entries[a][field] \in DOMAIN r.disk
  PROVE  r.entries[a][field] \in DOMAIN b.disk
<1>1. DOMAIN r.disk \subseteq Paths /\ NoPath \notin DOMAIN r.disk
  <2>1. DOMAIN r.disk \subseteq Paths BY FilesAfter, Zenon
  <2> QED BY <2>1, PathFacts
<1>2. /\ IsTree(r) /\ DOMAIN r.entries = DOMAIN t.entries \cup Placeholders(t)
      /\ \A c \in Placeholders(t) : r.entries[c] = NewEntry(TRUE)
  <2>1. IsRepairOf(t, r) BY RepairFields
  <2> QED BY <2>1 DEF IsRepairOf
<1>3. DOMAIN b.disk = {p \in DOMAIN r.disk : GoesAlong(p, scope)} BY <1>2, PruneFields DEF IsPruneOf
<1>4. a \in DOMAIN t.entries BY <1>1, <1>2 DEF NewEntry, Fields
<1>5. CASE field = "sheet"
  <2>1. r.entries[a].sheet \in DOMAIN r.disk BY <1>5
  <2>2. GoesAlong(r.entries[a].sheet, scope) BY <1>4, <2>1, SheetGoesAlong
  <2> QED BY <1>3, <1>5, <2>1, <2>2
<1>6. CASE field = "ref"
  <2>1. r.entries[a].ref \in DOMAIN r.disk /\ r.entries[a].ref # NoPath BY <1>1, <1>6
  <2>2. a \in Assets BY <1>4 DEF Good
  <2>3. (t.entries[a].ref # NoPath => t.entries[a].ref[2] = "ref")
        /\ (r.entries[a].ref = t.entries[a].ref \/ r.entries[a].ref = <<a, "ref", "png">>)
    BY <1>4, RefAfter
  <2>4. r.entries[a].ref[2] = "ref" BY <2>1, <2>3
  <2>5. GoesAlong(r.entries[a].ref, scope) BY <2>2, <2>4, OwnPlaces
  <2> QED BY <1>3, <1>6, <2>1, <2>5
<1> QED BY <1>5, <1>6 DEF Fields

LEMMA RepairedTyped ==
  ASSUME NEW t, Good(t), NEW r, r = RepairTree(t), NEW a \in DOMAIN r.entries
  PROVE  r.entries[a] \in Entry /\ a \in Assets
<1>1. /\ DOMAIN r.entries = DOMAIN t.entries \cup Placeholders(t)
      /\ \A c \in DOMAIN t.entries : r.entries[c] = RepairedEntry(t, c)
      /\ \A c \in Placeholders(t) : r.entries[c] = NewEntry(TRUE)
  <2>1. IsRepairOf(t, r) BY RepairFields
  <2> QED BY <2>1 DEF IsRepairOf
<1>2. CASE a \in DOMAIN t.entries
  <2>1. /\ a \in Assets /\ t.entries[a] \in Entry /\ r.entries[a].sheet = Normalised(t, a, "sheet")
        /\ r.entries[a].ref = Normalised(t, a, "ref")
    BY <1>2, EntryAfter, Zenon
  <2>2. Png(a) \in Paths /\ <<a, "ref", "png">> \in Paths /\ t.entries[a].sheet \in Paths \cup {NoPath}
        /\ t.entries[a].ref \in Paths \cup {NoPath}
    BY <2>1, PngFacts, PathFacts, EntryFields DEF Places, Exts
  <2>3. Normalised(t, a, "sheet") \in Paths \cup {NoPath} BY <2>2, NormalisedSheet
  <2>4. Normalised(t, a, "ref") \in Paths \cup {NoPath} BY <2>2, NormalisedRef
  <2>5. RepairedEntry(t, a) \in Entry BY <2>1, <2>3, <2>4 DEF RepairedEntry, Entry
  <2> QED BY <1>1, <1>2, <2>1, <2>5
<1>3. CASE a \in Placeholders(t) \ DOMAIN t.entries
  <2>1. NewEntry(TRUE) \in Entry BY DEF NewEntry, Entry
  <2>2. a \in Assets BY <1>3 DEF Placeholders, Bucket, Good, ScriptType
  <2> QED BY <1>1, <1>3, <2>1, <2>2
<1> QED BY <1>1, <1>2, <1>3

\* A second repair finds nothing to do.
LEMMA NothingToRepair ==
  ASSUME NEW t, Good(t), NEW r, r = RepairTree(t), NEW scope, Complete(t, scope), NEW b, b = Prune(r, scope),
         Valid(r)
  PROVE  RepairTree(b) = b /\ IsTree(b)
<1>1. IsRepairOf(t, r) BY RepairFields
<1>2. IsTree(r) BY <1>1 DEF IsRepairOf
<1>3. IsPruneOf(r, scope, b) BY <1>2, PruneFields
<1>4. /\ b.layout = t.layout /\ b.script = t.script /\ b.entries = r.entries /\ IsTree(b)
      /\ DOMAIN r.entries = DOMAIN t.entries \cup Placeholders(t)
      /\ DOMAIN b.disk = {p \in DOMAIN r.disk : GoesAlong(p, scope)}
  BY <1>1, <1>3 DEF IsRepairOf, IsPruneOf
<1>5. /\ SkipsScript(b) <=> SkipsScript(t)
      /\ \A a : (Repaired(b, a, "sheet") <=> Repaired(t, a, "sheet"))
                /\ (Repaired(b, a, "ref") <=> Repaired(t, a, "ref"))
  BY <1>4, RepairedSame, Zenon
<1>6. Placeholders(b) = {} BY <1>4, <1>5 DEF Placeholders
<1>7. ASSUME NEW a \in Placeholders(t) \ DOMAIN t.entries
      PROVE  /\ Source(b, a, "sheet") = NoPath /\ Normalised(b, a, "sheet") = b.entries[a].sheet
             /\ Normalised(b, a, "ref") = b.entries[a].ref
  <2>1. b.entries[a] = NewEntry(TRUE) BY <1>1, <1>4 DEF IsRepairOf
  <2>2. b.entries[a].sheet = NoPath /\ b.entries[a].ref = NoPath BY <2>1 DEF NewEntry
  <2>3. Source(b, a, "sheet") = NoPath BY <2>2 DEF Source
  <2> QED BY <2>2, <2>3, NormalisedSheet, NormalisedRef
<1>8. ASSUME NEW a \in DOMAIN t.entries
      PROVE  /\ Source(b, a, "sheet") = NoPath /\ Normalised(b, a, "sheet") = b.entries[a].sheet
             /\ Normalised(b, a, "ref") = b.entries[a].ref
  <2> DEFINE s == b.entries[a].sheet
             e == b.entries[a].ref
             own == <<a, "ref", "png">>
  <2>1. a \in Assets /\ a \in DOMAIN r.entries BY <1>4 DEF Good
  <2>2. Png(a) \in DOMAIN r.disk => Png(a) \in DOMAIN b.disk BY <1>4, <2>1, OwnPlaces
  <2>3. /\ Repaired(t, a, "sheet") /\ r.entries[a].sheet # NoPath /\ Png(a) \in DOMAIN r.disk =>
             r.entries[a].sheet = Png(a)
        /\ Repaired(t, a, "sheet") /\ r.entries[a].sheet # NoPath /\ Png(a) \notin DOMAIN r.disk
             /\ r.entries[a].sheet \in DOMAIN r.disk => r.entries[a].sheet \notin VersionsOf(t, a)
    BY SheetAfter
  <2>4. Repaired(t, a, "sheet") /\ s # NoPath => s \in DOMAIN r.disk
    <3>1. Repaired(t, a, "sheet") => Validated(a, "sheet") BY DEF Repaired, Validated, IsShot
    <3>2. Validated(a, "sheet") => NamesFile(r, a, "sheet") BY <2>1 DEF Valid, Fields
    <3>3. NamesFile(r, a, "sheet") => s = NoPath \/ s \in DOMAIN r.disk BY <1>4 DEF NamesFile
    <3> QED BY <3>1, <3>2, <3>3
  <2>5. s \in DOMAIN r.disk => s \in DOMAIN b.disk
    <3>1. ASSUME r.entries[a]["sheet"] \in DOMAIN r.disk PROVE r.entries[a]["sheet"] \in DOMAIN b.disk
      BY <2>1, <3>1, NamedGoesAlong DEF Fields
    <3> QED BY <1>4, <3>1
  <2>6. s \in VersionsOf(b, a) => s \in VersionsOf(t, a)
    <3>1. ASSUME s \in VersionsOf(b, a) PROVE s \in VersionsOf(t, a)
      <4>1. s \in DOMAIN r.disk /\ s[2] \in ToSet(VersionPlaces) /\ s[1] \in {a} \cup Namesakes[a]
        BY <1>4, <3>1 DEF VersionsOf, SavedVersions
      <4>2. DOMAIN r.disk = DOMAIN t.disk \cup {Png(c) : c \in Made(t)} /\ Made(t) \subseteq Assets
        BY FilesAfter, Zenon
      <4>3. \A c \in Made(t) : Png(c)[2] = "sheet" BY <4>2, PngFacts
      <4>4. s \in DOMAIN t.disk BY <4>1, <4>2, <4>3, DistinctPlaces
      <4> QED BY <4>1, <4>4 DEF VersionsOf, SavedVersions
    <3> QED BY <3>1
  <2>7. Source(b, a, "sheet") = NoPath
    <3>1. SUFFICES ASSUME Repaired(b, a, "sheet"), s # NoPath, Png(a) \notin DOMAIN b.disk
                   PROVE  Source(b, a, "sheet") = NoPath
      BY DEF Source, Png
    <3>2. s \in DOMAIN b.disk /\ s \notin VersionsOf(t, a)
      BY <1>4, <1>5, <2>2, <2>3, <2>4, <2>5, <3>1
    <3> QED BY <2>6, <3>2 DEF Source
  <2>8. Normalised(b, a, "sheet") = s
    <3>1. Repaired(b, a, "sheet") /\ s # NoPath /\ Png(a) \in DOMAIN b.disk => s = Png(a)
      BY <1>4, <1>5, <2>3
    <3> QED BY <2>7, <3>1, NormalisedSheet
  <2>9. Normalised(b, a, "ref") = e
    <3>1. Repaired(t, a, "ref") /\ r.entries[a].ref # NoPath /\ own \in DOMAIN r.disk => r.entries[a].ref = own
      BY RefAfter
    <3>2. Repaired(b, a, "ref") /\ e # NoPath /\ own \in DOMAIN b.disk => e = own BY <1>4, <1>5, <3>1
    <3> QED BY <3>2, NormalisedRef
  <2> QED BY <2>7, <2>8, <2>9
<1>9. \A a \in DOMAIN b.entries :
        /\ Source(b, a, "sheet") = NoPath /\ Normalised(b, a, "sheet") = b.entries[a].sheet
        /\ Normalised(b, a, "ref") = b.entries[a].ref
  BY <1>4, <1>7, <1>8
<1>10. Made(b) = {} BY <1>9 DEF Made
<1>11. ASSUME NEW a \in DOMAIN b.entries PROVE RepairedEntry(b, a) = b.entries[a]
  <2>1. b.entries[a] \in Entry BY <1>4, RepairedTyped
  <2>2. ASSUME NEW e \in Entry PROVE [e EXCEPT !.sheet = e.sheet, !.ref = e.ref] = e BY DEF Entry
  <2>3. RepairedEntry(b, a) = [b.entries[a] EXCEPT !.sheet = b.entries[a].sheet, !.ref = b.entries[a].ref]
    BY <1>9 DEF RepairedEntry
  <2> QED BY <2>1, <2>2, <2>3
<1> DEFINE E == [a \in DOMAIN b.entries |-> RepairedEntry(b, a)]
           N == [a \in Placeholders(b) |-> NewEntry(TRUE)]
           D == [p \in {Png(a) : a \in Made(b)} |-> b.disk[Source(b, p[1], "sheet")]]
<1>12. /\ DOMAIN E = DOMAIN b.entries /\ DOMAIN N = {} /\ DOMAIN D = {}
       /\ \A a \in DOMAIN E : E[a] = b.entries[a]
  BY <1>6, <1>10, <1>11
<1>13. RepairTree(b) = [b EXCEPT !.entries = Joined(E, N), !.disk = Joined(D, b.disk)] BY DEF RepairTree
<1> HIDE DEF E, N, D
<1>14. IsFcn(b.entries) /\ IsFcn(b.disk) BY <1>4 DEF IsTree
<1>15. Joined(E, N) = b.entries
  <2>1. DOMAIN E \cup DOMAIN N = DOMAIN b.entries BY <1>12
  <2>2. (\A a \in DOMAIN E : E[a] = b.entries[a]) /\ \A a \in DOMAIN N : N[a] = b.entries[a] BY <1>12
  <2> QED BY <1>14, <2>1, <2>2 DEF Joined, IsFcn
<1>16. Joined(D, b.disk) = b.disk
  <2>1. DOMAIN D \cup DOMAIN b.disk = DOMAIN b.disk BY <1>12
  <2>2. (\A p \in DOMAIN D : D[p] = b.disk[p]) /\ \A p \in DOMAIN b.disk : b.disk[p] = b.disk[p] BY <1>12
  <2> QED BY <1>14, <2>1, <2>2 DEF Joined, IsFcn
<1>17. b = [layout |-> b.layout, entries |-> b.entries, disk |-> b.disk, hist |-> b.hist, script |-> b.script]
  BY <1>4 DEF IsTree
<1>18. [b EXCEPT !.entries = b.entries, !.disk = b.disk] = b BY <1>17
<1> QED BY <1>4, <1>13, <1>15, <1>16, <1>18

\* What is in order when it is packed is in order when it is unpacked.
LEMMA StaysAcceptable ==
  ASSUME NEW t, Good(t), NEW r, r = RepairTree(t), NEW scope, Complete(t, scope), NEW b, b = Prune(r, scope),
         Acceptable(t)
  PROVE  Acceptable(b) /\ RepairTree(b) = b
<1>1. Valid(r) /\ ~RepairBlocks(t) BY DEF Acceptable
<1>2. IsRepairOf(t, r) BY RepairFields
<1>3. IsTree(r) BY <1>2 DEF IsRepairOf
<1>4. IsPruneOf(r, scope, b) BY <1>3, PruneFields
<1>5. /\ b.layout = t.layout /\ b.script = t.script /\ b.entries = r.entries
      /\ r.layout = t.layout /\ r.script = t.script
      /\ DOMAIN r.entries = DOMAIN t.entries \cup Placeholders(t)
  BY <1>2, <1>4 DEF IsRepairOf, IsPruneOf
<1>6. RepairTree(b) = b BY <1>1, NothingToRepair
<1>7. ~RepairBlocks(b) BY <1>1, <1>5 DEF RepairBlocks, SkipsScript, Ledgered
<1>8. ProjectValid(b) BY <1>1, <1>5 DEF Valid, ProjectValid
<1>9. \A a \in DOMAIN b.entries, field \in Fields : Validated(a, field) => NamesFile(b, a, field)
  <2>1. SUFFICES ASSUME NEW a \in DOMAIN r.entries, NEW field \in Fields, Validated(a, field)
                 PROVE  NamesFile(b, a, field)
    BY <1>5
  <2>2. NamesFile(r, a, field) BY <1>1, <2>1 DEF Valid
  <2>3. r.entries[a][field] \in DOMAIN r.disk => r.entries[a][field] \in DOMAIN b.disk BY NamedGoesAlong
  <2> QED BY <1>5, <2>2, <2>3 DEF NamesFile
<1>10. IF b.script.there THEN ScriptValid(b) ELSE Ledgered(b)
  <2>1. IF r.script.there THEN ScriptValid(r) ELSE Ledgered(r) BY <1>1 DEF Valid
  <2> QED BY <1>5, <2>1 DEF ScriptValid, SegmentsKnow, UnitsKnow, ShotsKnow, UnknownOf, Ledgered
<1> QED BY <1>6, <1>7, <1>8, <1>9, <1>10 DEF Valid, Acceptable

\* What an archive shows when it is unpacked.
ShowsAsBefore(t, back) ==
  \A a \in DOMAIN t.entries, field \in Fields :
    \/ Shadowed(t, a, field)
    \/ Shown(back, a, field) = Shown(t, a, field)
    \/ /\ Shown(t, a, field) = NoRow /\ t.entries[a][field] # NoPath
       /\ Mistaken(t, a) \/ Shown(back, a, field) = BroughtBack(t, a)

LEMMA RoundTrip ==
  ASSUME NEW t, Good(t), NEW scope, Complete(t, scope), Acceptable(t), NEW b, b = Prune(RepairTree(t), scope)
  PROVE  Acceptable(b) /\ ShowsAsBefore(t, RepairTree(b))
<1> DEFINE r == RepairTree(t)
<1>1. IsRepairOf(t, r) BY RepairFields
<1>2. IsTree(r) BY <1>1 DEF IsRepairOf
<1>3. IsPruneOf(r, scope, b) BY <1>2, PruneFields
<1>4. Acceptable(b) /\ RepairTree(b) = b BY StaysAcceptable
<1>5. ASSUME NEW a \in DOMAIN t.entries, NEW field \in Fields
      PROVE  Shown(b, a, field) = Shown(r, a, field)
  <2>1. a \in DOMAIN r.entries /\ b.entries = r.entries BY <1>1, <1>3 DEF IsRepairOf, IsPruneOf
  <2>2. /\ DOMAIN b.disk \subseteq DOMAIN r.disk /\ \A p \in DOMAIN b.disk : b.disk[p] = r.disk[p]
    BY <1>3 DEF IsPruneOf
  <2>3. r.entries[a][field] \in DOMAIN r.disk => r.entries[a][field] \in DOMAIN b.disk
    BY <2>1, NamedGoesAlong
  <2> QED BY <2>1, <2>2, <2>3 DEF Shown
<1>6. ASSUME NEW a \in DOMAIN t.entries, NEW field \in Fields
      PROVE  \/ Shadowed(t, a, field)
             \/ Shown(r, a, field) = Shown(t, a, field)
             \/ /\ Shown(t, a, field) = NoRow /\ t.entries[a][field] # NoPath
                /\ Mistaken(t, a) \/ Shown(r, a, field) = BroughtBack(t, a)
  BY ShownAfter
<1> QED BY <1>4, <1>5, <1>6 DEF ShowsAsBefore

-----------------------------------------------------------------------------
(* What an export finds.                                                   *)

EntriesFit == IsFcn(entries) /\ \A a \in DOMAIN entries : EntryFits(a, entries[a])
ProjectFits == EntriesFit /\ IsFcn(disk) /\ script \in ScriptType /\ layout \in ScriptKinds

LEMMA HereIsGood ==
  ASSUME AssetsTypeOK, ProjectFits
  PROVE  Good(Here)
<1>1. EntriesOK /\ DiskOK BY AssetsTypeParts
<1>2. /\ Here.layout = layout /\ Here.entries = entries /\ Here.disk = disk /\ Here.hist = hist
      /\ Here.script = script
      /\ Here = [layout |-> layout, entries |-> entries, disk |-> disk, hist |-> hist, script |-> script]
  BY DEF Here
<1>3. IsTree(Here) BY <1>2 DEF IsTree, ProjectFits, EntriesFit
<1> QED BY <1>1, <1>2, <1>3 DEF Good, EntriesOK, DiskOK, ProjectFits, EntriesFit

LEMMA PlusIsFcn ==
  ASSUME NEW f, NEW i, NEW v
  PROVE  IsFcn(Plus(f, i, v)) /\ IsFcn(Drop(f, i))
BY DEF Plus, Drop, IsFcn

LEMMA PlusFits ==
  ASSUME EntriesFit, NEW a, NEW e, EntryFits(a, e), entries' = Plus(entries, a, e)
  PROVE  EntriesFit'
<1>1. IsFcn(entries') BY PlusIsFcn
<1>2. DOMAIN entries' = DOMAIN entries \cup {a} /\ entries'[a] = e
      /\ \A b \in DOMAIN entries : b # a => entries'[b] = entries[b]
  BY DEF Plus
<1> QED BY <1>1, <1>2 DEF EntriesFit

LEMMA EditFits ==
  ASSUME EntriesFit, NEW a \in DOMAIN entries, NEW e, EntryFits(a, e), entries' = [entries EXCEPT ![a] = e]
  PROVE  EntriesFit'
<1>1. entries = [b \in DOMAIN entries |-> entries[b]] BY DEF EntriesFit, IsFcn
<1>2. DOMAIN entries' = DOMAIN entries /\ entries'[a] = e
      /\ \A b \in DOMAIN entries : b # a => entries'[b] = entries[b]
  OBVIOUS
<1>3. entries' = [b \in DOMAIN entries |-> IF b = a THEN e ELSE entries[b]] OBVIOUS
<1>4. IsFcn(entries') BY <1>2, <1>3 DEF IsFcn
<1> QED BY <1>2, <1>4 DEF EntriesFit

LEMMA DropFits ==
  ASSUME EntriesFit, NEW a, entries' = Drop(entries, a)
  PROVE  EntriesFit'
<1>1. IsFcn(entries') BY PlusIsFcn
<1>2. DOMAIN entries' = DOMAIN entries \ {a} /\ \A b \in DOMAIN entries' : entries'[b] = entries[b]
  BY DropFacts
<1> QED BY <1>1, <1>2 DEF EntriesFit

LEMMA NewFits == ASSUME NEW a, NEW b \in BOOLEAN PROVE EntryFits(a, NewEntry(b))
BY DEF EntryFits, NewEntry

LEMMA EditedFits ==
  ASSUME NEW a, NEW e \in Entry, EntryFits(a, e)
  PROVE  /\ \A b \in BOOLEAN : EntryFits(a, [e EXCEPT !.described = b])
         /\ \A X \in SUBSET Paths : EntryFits(a, [e EXCEPT !.extra = X])
         /\ EntryFits(a, [e EXCEPT !.sheet = NoPath])
         /\ \A p \in Paths : SheetAt(a, p) => EntryFits(a, [e EXCEPT !.sheet = p])
         /\ \A p \in Paths : p[1] = a /\ p[2] = "ref" => EntryFits(a, [e EXCEPT !.ref = p])
<1>1. ASSUME NEW b \in BOOLEAN PROVE EntryFits(a, [e EXCEPT !.described = b])
  <2>1. [e EXCEPT !.described = b].sheet = e.sheet /\ [e EXCEPT !.described = b].ref = e.ref BY DEF Entry
  <2> QED BY <2>1 DEF EntryFits
<1>2. ASSUME NEW X \in SUBSET Paths PROVE EntryFits(a, [e EXCEPT !.extra = X])
  <2>1. [e EXCEPT !.extra = X].sheet = e.sheet /\ [e EXCEPT !.extra = X].ref = e.ref BY DEF Entry
  <2> QED BY <2>1 DEF EntryFits
<1>3. ASSUME NEW p PROVE [e EXCEPT !.sheet = p].sheet = p /\ [e EXCEPT !.sheet = p].ref = e.ref
                         /\ [e EXCEPT !.ref = p].sheet = e.sheet /\ [e EXCEPT !.ref = p].ref = p
  BY DEF Entry
<1>4. EntryFits(a, [e EXCEPT !.sheet = NoPath]) BY <1>3 DEF EntryFits
<1>5. ASSUME NEW p \in Paths, SheetAt(a, p) PROVE EntryFits(a, [e EXCEPT !.sheet = p])
  BY <1>3, <1>5 DEF EntryFits
<1>6. ASSUME NEW p \in Paths, p[1] = a, p[2] = "ref" PROVE EntryFits(a, [e EXCEPT !.ref = p])
  BY <1>3, <1>6 DEF EntryFits
<1> QED BY <1>1, <1>2, <1>4, <1>5, <1>6

\* The steps that change an entry.
LEMMA RecordsFits ==
  ASSUME AssetsTypeOK, EntriesFit, NEW r, NEW path \in Paths, SheetAt(work[r].asset, path), NEW at,
         Records(r, path, at)
  PROVE  EntriesFit'
<1>1. EntriesOK BY AssetsTypeParts
<1> DEFINE a == work[r].asset
<1>2. CASE Registered(a)
  <2>1. a \in DOMAIN entries /\ entries[a] \in Entry BY <1>1, <1>2 DEF Registered, EntriesOK
  <2>2. entries' = [entries EXCEPT ![a] = [entries[a] EXCEPT !.sheet = path]] BY <1>2, <2>1 DEF Records
  <2>3. EntryFits(a, [entries[a] EXCEPT !.sheet = path]) BY <2>1, EditedFits DEF EntriesFit
  <2> QED BY <2>1, <2>2, <2>3, EditFits
<1>3. CASE ~Registered(a) BY <1>3 DEF Records, EntriesFit
<1> QED BY <1>2, <1>3

LEMMA EntryStepsFit ==
  ASSUME AssetsTypeOK, EntriesFit, NEW a \in Assets, UpsertAssets(a) \/ UpdateEntry(a) \/ DeleteEntry(a)
  PROVE  EntriesFit' /\ disk' = disk
<1>1. EntriesOK /\ DiskOK BY AssetsTypeParts
<1>2. a \in DOMAIN entries => entries[a] \in Entry /\ EntryFits(a, entries[a]) BY <1>1 DEF EntriesOK, EntriesFit
<1>3. CASE UpsertAssets(a)
  <2>1. disk' = disk BY <1>3 DEF UpsertAssets
  <2>2. CASE a \in DOMAIN entries
    <3>1. entries' = [entries EXCEPT ![a] = [entries[a] EXCEPT !.described = TRUE]]
      BY <1>3, <2>2 DEF UpsertAssets, Registered
    <3>2. \A b \in BOOLEAN : EntryFits(a, [entries[a] EXCEPT !.described = b]) BY <1>2, <2>2, EditedFits
    <3>3. EntryFits(a, [entries[a] EXCEPT !.described = TRUE]) BY <3>2, Zenon
    <3> QED BY <2>1, <2>2, <3>1, <3>3, EditFits
  <2>3. CASE a \notin DOMAIN entries
    <3>1. entries' = Plus(entries, a, NewEntry(TRUE)) BY <1>3, <2>3 DEF UpsertAssets, Registered
    <3> QED BY <2>1, <3>1, NewFits, PlusFits
  <2> QED BY <2>2, <2>3
<1>4. CASE UpdateEntry(a)
  <2>1. disk' = disk /\ a \in DOMAIN entries /\ TypeOf(a) # "storyboard" BY <1>4 DEF UpdateEntry, Registered
  <2>2. CASE \E described \in BOOLEAN : entries' = [entries EXCEPT ![a].described = described]
    <3>1. PICK b \in BOOLEAN : entries' = [entries EXCEPT ![a] = [entries[a] EXCEPT !.described = b]]
      BY <2>1, <2>2
    <3>2. EntryFits(a, [entries[a] EXCEPT !.described = b]) BY <1>2, <2>1, EditedFits
    <3> QED BY <2>1, <3>1, <3>2, EditFits
  <2>3. CASE entries' = [entries EXCEPT ![a].sheet = NoPath]
    <3>1. EntryFits(a, [entries[a] EXCEPT !.sheet = NoPath]) BY <1>2, <2>1, EditedFits
    <3> QED BY <2>1, <2>3, <3>1, EditFits
  <2>4. CASE \E p \in DOMAIN disk : p[2] \in ToSet(VersionPlaces) /\ entries' = [entries EXCEPT ![a].sheet = p]
    <3>1. PICK p \in DOMAIN disk : p[2] \in ToSet(VersionPlaces) /\ entries' = [entries EXCEPT ![a].sheet = p]
      BY <2>4
    <3>2. SheetAt(a, p) /\ p \in Paths BY <1>1, <2>1, <3>1 DEF SheetAt, IsShot, DiskOK
    <3>3. EntryFits(a, [entries[a] EXCEPT !.sheet = p]) BY <1>2, <2>1, <3>2, EditedFits
    <3> QED BY <2>1, <3>1, <3>3, EditFits
  <2> QED BY <1>4, <2>2, <2>3, <2>4 DEF UpdateEntry
<1>5. CASE DeleteEntry(a) BY <1>5, DropFits DEF DeleteEntry
<1> QED BY <1>3, <1>4, <1>5

LEMMA UploadStepsFit ==
  ASSUME AssetsTypeOK, PathsFit, EntriesFit, IsFcn(disk), NEW r \in AssetRequests, Uploads(r)
  PROVE  EntriesFit' /\ IsFcn(disk')
<1>1. EntriesOK /\ WorkOK BY AssetsTypeParts
<1>2. CASE BeginUpload(r) BY <1>2, PlusIsFcn DEF BeginUpload, EntriesFit
<1>3. CASE RecordUpload(r)
  <2>1. work[r] # Unused /\ disk' = disk /\ work[r].op = "upload" BY <1>3, UnusedFields DEF RecordUpload, Is
  <2> DEFINE q == work[r]
  <2>2. q.path \in Paths /\ q.path[1] = q.asset /\ q.path[2] \in {"sheet", "ref"}
    BY <2>1 DEF PathsFit, Fitting
  <2>3. CASE q.path[2] = "sheet"
    <3>1. Records(r, q.path, "ended") BY <1>3, <2>3 DEF RecordUpload
    <3>2. SheetAt(q.asset, q.path) BY <2>2, <2>3 DEF SheetAt
    <3> QED BY <2>1, <2>2, <3>1, <3>2, RecordsFits
  <2>4. CASE q.path[2] # "sheet" /\ q.asset \in DOMAIN entries
    <3>1. entries' = [entries EXCEPT ![q.asset] = [entries[q.asset] EXCEPT !.ref = q.path]]
      BY <1>3, <2>4 DEF RecordUpload, Registered
    <3>2. entries[q.asset] \in Entry /\ EntryFits(q.asset, entries[q.asset]) BY <1>1, <2>4 DEF EntriesOK, EntriesFit
    <3>3. EntryFits(q.asset, [entries[q.asset] EXCEPT !.ref = q.path]) BY <2>2, <2>4, <3>2, EditedFits
    <3> QED BY <2>1, <2>4, <3>1, <3>3, EditFits
  <2>5. CASE q.path[2] # "sheet" /\ q.asset \notin DOMAIN entries
    BY <1>3, <2>1, <2>5 DEF RecordUpload, Registered, EntriesFit
  <2> QED BY <2>3, <2>4, <2>5
<1>4. CASE BeginOriginal(r) BY <1>4, PlusIsFcn DEF BeginOriginal, EntriesFit
<1>5. CASE RecordOriginal(r)
  <2> DEFINE q == work[r]
  <2>1. CASE q.asset \in DOMAIN entries
    <3> DEFINE X == entries[q.asset].extra \cup {q.path}
    <3>1. entries' = [entries EXCEPT ![q.asset] = [entries[q.asset] EXCEPT !.extra = X]] /\ disk' = disk
      BY <1>5, <2>1 DEF RecordOriginal, Registered
    <3>2. entries[q.asset] \in Entry /\ EntryFits(q.asset, entries[q.asset]) BY <1>1, <2>1 DEF EntriesOK, EntriesFit
    <3>3. work[r].op = "original" /\ work[r] # Unused BY <1>5, UnusedFields DEF RecordOriginal, Is
    <3>4. q.path \in Paths BY <3>3 DEF PathsFit, Fitting
    <3>5. X \in SUBSET Paths BY <3>2, <3>4, EntryFields
    <3> HIDE DEF X
    <3>6. EntryFits(q.asset, [entries[q.asset] EXCEPT !.extra = X]) BY <3>2, <3>5, EditedFits
    <3> QED BY <2>1, <3>1, <3>6, EditFits
  <2>2. CASE q.asset \notin DOMAIN entries
    BY <1>5, <2>2, PlusIsFcn DEF RecordOriginal, Registered, EntriesFit
  <2> QED BY <2>1, <2>2
<1> QED BY <1>2, <1>3, <1>4, <1>5 DEF Uploads

LEMMA SheetStepsFit ==
  ASSUME AssetsTypeOK, PathsFit, EntriesFit, IsFcn(disk), NEW r \in AssetRequests, Sheets(r)
  PROVE  EntriesFit' /\ IsFcn(disk')
<1>1. EntriesOK /\ WorkOK BY AssetsTypeParts
<1>2. CASE BeginDesign(r) BY <1>2 DEF BeginDesign, EntriesFit
<1>3. CASE DrawDesign(r)
  <2>1. PICK f, p : disk' = Plus(f, p, r) BY <1>3 DEF DrawDesign
  <2> QED BY <1>3, <2>1, PlusIsFcn DEF DrawDesign, EntriesFit
<1>4. CASE BeginRestore(r)
  <2>1. PICK p, v : disk' = Plus(disk, p, v) BY <1>4 DEF BeginRestore
  <2> QED BY <1>4, <2>1, PlusIsFcn DEF BeginRestore, EntriesFit
<1>5. ASSUME Is(r, "design", "saved") \/ Is(r, "restore", "saved"), NEW at, Records(r, Png(work[r].asset), at),
             disk' = disk
      PROVE  EntriesFit' /\ IsFcn(disk')
  <2>1. work[r] \in Request BY <1>1, <1>5, UnusedFields DEF Is, WorkOK
  <2>2. Png(work[r].asset) \in Paths /\ Png(work[r].asset)[1] = work[r].asset /\ Png(work[r].asset)[2] = "sheet"
    BY <2>1, RequestFields, PngFacts
  <2>3. SheetAt(work[r].asset, Png(work[r].asset)) BY <2>2 DEF SheetAt
  <2> QED BY <1>5, <2>2, <2>3, RecordsFits
<1>6. CASE RecordDesign(r) BY <1>5, <1>6 DEF RecordDesign
<1>7. CASE RecordRestore(r) BY <1>5, <1>7 DEF RecordRestore
<1> QED BY <1>2, <1>3, <1>4, <1>6, <1>7 DEF Sheets

LEMMA GoesOnFits ==
  ASSUME AssetsBase, ProjectFits, ProjectGoesOn
  PROVE  AssetsBase' /\ ProjectFits'
<1> USE DEF AssetsBase
<1>1. AssetsNext BY DEF ProjectGoesOn, AssetsNext
<1>2. AssetsBase' BY <1>1, BaseStep
<1>3. layout' = layout /\ script' = script BY DEF ProjectGoesOn, repairVars
<1>4. EntriesFit' /\ IsFcn(disk')
  <2>1. CASE LoseFile BY <2>1, PlusIsFcn DEF LoseFile, ProjectFits, EntriesFit
  <2>2. CASE \E a \in Assets : UpsertAssets(a) \/ UpdateEntry(a) \/ DeleteEntry(a)
    BY <2>2, EntryStepsFit DEF ProjectFits
  <2>3. CASE \E r \in AssetRequests : Uploads(r) \/ Sheets(r)
    BY <2>3, UploadStepsFit, SheetStepsFit DEF ProjectFits
  <2> QED BY <2>1, <2>2, <2>3 DEF ProjectGoesOn
<1> QED BY <1>2, <1>3, <1>4 DEF ProjectFits

LEMMA SaveScriptFits ==
  ASSUME AssetsBase, ProjectFits, SaveScript
  PROVE  AssetsBase' /\ ProjectFits'
<1>1. AssetsTypeOK /\ EntriesOK /\ TallyOK BY AssetsTypeParts DEF AssetsBase
<1> DEFINE N == [a \in {b \in Assets : IsShot(b)} |-> NewEntry(TRUE)]
<1>2. /\ entries' = Joined(entries, N) /\ disk' = disk /\ hist' = hist /\ work' = work /\ rows' = rows
      /\ shelf' = shelf /\ rowless' = rowless /\ torn' = torn /\ settled' = settled /\ stale' = stale
      /\ lost' = lost /\ layout' = layout
  BY DEF SaveScript, libraryVars, historyVars
<1>3. DOMAIN N \subseteq Assets /\ \A a \in DOMAIN N : N[a] = NewEntry(TRUE) OBVIOUS
<1> HIDE DEF N
<1>4. /\ IsFcn(entries') /\ DOMAIN entries' = DOMAIN entries \cup DOMAIN N
      /\ \A a \in DOMAIN entries : entries'[a] = entries[a]
      /\ \A a \in DOMAIN N : a \notin DOMAIN entries => entries'[a] = N[a]
  BY <1>2 DEF Joined, IsFcn
<1>5. NewEntry(TRUE) \in Entry BY NewEntryFields
<1>6. EntriesOK' BY <1>1, <1>3, <1>4, <1>5 DEF EntriesOK
<1>7. EntriesFit'
  <2>1. \A a : EntryFits(a, NewEntry(TRUE)) BY NewFits
  <2> QED BY <1>3, <1>4, <2>1 DEF EntriesFit, ProjectFits
<1>8. TallyOK' BY <1>1, EditsType DEF SaveScript
<1>9. AssetsTypeOK' BY <1>1, <1>2, <1>6, <1>8, TypeStep
<1>10. AssetsBase' BY <1>2, <1>9 DEF AssetsBase, PathsFit, LibraryFits, ListedFromOne
<1>11. script' \in ScriptType
  <2>1. PICK uses \in SUBSET {a \in DOMAIN entries : ~IsShot(a)}, titled \in BOOLEAN :
          script' = [there |-> TRUE, uses |-> uses, titled |-> titled]
    BY DEF SaveScript
  <2>2. uses \in SUBSET {a \in Assets : ~IsShot(a)} BY <1>1 DEF EntriesOK
  <2> QED BY <2>1, <2>2 DEF ScriptType
<1> QED BY <1>2, <1>7, <1>10, <1>11 DEF ProjectFits

LEMMA RepairInitFits == AssetsInit /\ RepairInit => AssetsBase /\ ProjectFits
<1> SUFFICES ASSUME AssetsInit, RepairInit PROVE AssetsBase /\ ProjectFits OBVIOUS
<1>1. PICK a : entries = Plus(<<>>, a, NewEntry(TRUE)) BY DEF AssetsInit
<1>2. DOMAIN <<>> = {} OBVIOUS
<1>3. DOMAIN entries = {a} /\ entries[a] = NewEntry(TRUE) BY <1>1, <1>2 DEF Plus
<1>4. EntriesFit
  <2>1. IsFcn(entries) BY <1>1, PlusIsFcn
  <2>2. EntryFits(a, NewEntry(TRUE)) BY NewFits
  <2> QED BY <1>3, <2>1, <2>2 DEF EntriesFit
<1>5. IsFcn(disk)
  <2>1. disk = <<>> BY DEF AssetsInit
  <2> QED BY <2>1 DEF IsFcn
<1>6. script \in ScriptType BY DEF RepairInit, NoScript, ScriptType
<1> QED BY <1>4, <1>5, <1>6, BaseInit DEF ProjectFits, RepairInit

-----------------------------------------------------------------------------
(* The parcel.                                                             *)

TreeOK(t) ==
  /\ t = [layout |-> t.layout, entries |-> t.entries, disk |-> t.disk, hist |-> t.hist, script |-> t.script]
  /\ DOMAIN t.entries \subseteq Assets /\ DOMAIN t.disk \subseteq Paths /\ t.script \in ScriptType

ParcelTyped ==
  /\ parcel = [at |-> parcel.at, scope |-> parcel.scope, quiet |-> parcel.quiet, clean |-> parcel.clean,
               origin |-> parcel.origin, tree |-> parcel.tree]
  /\ parcel.at \in {"none", "root", "pictures", "script", "packed", "accepted", "refused"}
  /\ parcel.scope \in {"full", "current"}
  /\ parcel.quiet \in BOOLEAN /\ parcel.clean \in BOOLEAN
  /\ TreeOK(parcel.origin) /\ TreeOK(parcel.tree)

Shots == {a \in Assets : IsShot(a)}
NonShots == {a \in Assets : ~IsShot(a)}
EntriesIn(o, chosen) == [a \in {b \in DOMAIN o.entries : b \in chosen} |-> o.entries[a]]
PicturesIn(o, chosen) ==
  [p \in {q \in DOMAIN o.disk : q[1] \in chosen /\ q[2] \notin ToSet(VersionPlaces)} |-> o.disk[p]]

\* What is copied of a project nobody works on: the entries that are not
\* shots, their pictures, the script with the shots; then all of it.
RootCopy(o) == [Nothing EXCEPT !.layout = o.layout, !.entries = EntriesIn(o, NonShots)]
PicturesCopy(o) == [RootCopy(o) EXCEPT !.disk = PicturesIn(o, NonShots)]
ScriptCopy(o) == [PicturesCopy(o) EXCEPT !.script = o.script, !.entries = o.entries]
ArchiveOf(o, scope) == Prune(RepairTree(o), scope)

ParcelHolds ==
  parcel.quiet =>
    /\ parcel.at # "none" => Good(parcel.origin)
    /\ parcel.at = "root" => parcel.tree = RootCopy(parcel.origin)
    /\ parcel.at = "pictures" => parcel.tree = PicturesCopy(parcel.origin)
    /\ parcel.at = "script" => parcel.tree = ScriptCopy(parcel.origin)
    /\ parcel.at \in {"packed", "accepted", "refused"} => (parcel.clean <=> Acceptable(parcel.origin))
    /\ parcel.at = "packed" => parcel.tree = ArchiveOf(parcel.origin, parcel.scope)
    /\ parcel.at \in {"accepted", "refused"} =>
         /\ parcel.tree = RepairTree(ArchiveOf(parcel.origin, parcel.scope))
         /\ parcel.at = "accepted" <=> Acceptable(ArchiveOf(parcel.origin, parcel.scope))

\* A parcel that keeps this shows what was exported.
LEMMA HoldsShows == ParcelTyped /\ ParcelHolds => RoundTripKeeps
<1> SUFFICES ASSUME ParcelTyped, ParcelHolds, parcel.at \in {"accepted", "refused"}, parcel.quiet, parcel.clean,
                    ~(parcel.scope = "current" /\ \E a \in DOMAIN parcel.origin.entries : Borrowed(parcel.origin, a))
             PROVE  parcel.at = "accepted" /\ ShowsAsBefore(parcel.origin, parcel.tree)
  BY DEF RoundTripKeeps, ShowsAsBefore
<1>1. Good(parcel.origin) /\ Acceptable(parcel.origin) BY DEF ParcelHolds
<1>2. Complete(parcel.origin, parcel.scope) BY DEF Complete, ParcelTyped
<1>3. /\ parcel.tree = RepairTree(ArchiveOf(parcel.origin, parcel.scope))
      /\ parcel.at = "accepted" <=> Acceptable(ArchiveOf(parcel.origin, parcel.scope))
  BY DEF ParcelHolds
<1>4. /\ Acceptable(ArchiveOf(parcel.origin, parcel.scope))
      /\ ShowsAsBefore(parcel.origin, RepairTree(ArchiveOf(parcel.origin, parcel.scope)))
  BY <1>1, <1>2, RoundTrip DEF ArchiveOf
<1> QED BY <1>3, <1>4

LEMMA HereParts ==
  /\ Here.layout = layout /\ Here.entries = entries /\ Here.disk = disk /\ Here.hist = hist /\ Here.script = script
  /\ \A chosen : EntriesOf(chosen) = EntriesIn(Here, chosen) /\ PicturesOf(chosen) = PicturesIn(Here, chosen)
<1>1. /\ Here.layout = layout /\ Here.entries = entries /\ Here.disk = disk /\ Here.hist = hist
      /\ Here.script = script
  BY DEF Here
<1> QED BY <1>1 DEF EntriesOf, EntriesIn, PicturesOf, PicturesIn

LEMMA HereOK ==
  ASSUME AssetsTypeOK, ProjectFits
  PROVE  TreeOK(Here) /\ Good(Here)
BY HereIsGood DEF TreeOK, Good, IsTree

LEMMA CopiesFacts ==
  ASSUME ParcelTyped, NEW from, NEW to, NEW take, Copies(from, to, take)
  PROVE  /\ parcel.at = from /\ parcel'.at = to /\ parcel'.scope = parcel.scope /\ parcel'.clean = parcel.clean
         /\ parcel'.origin = parcel.origin /\ parcel'.tree = take
         /\ parcel'.quiet = (parcel.quiet /\ parcel.origin = Here)
         /\ parcel' = [at |-> parcel'.at, scope |-> parcel'.scope, quiet |-> parcel'.quiet, clean |-> parcel'.clean,
                       origin |-> parcel'.origin, tree |-> parcel'.tree]
<1> DEFINE still == parcel.quiet /\ parcel.origin = Here
<1>1. parcel' = [parcel EXCEPT !.at = to, !.tree = take, !.quiet = still] /\ parcel.at = from BY DEF Copies
<1> HIDE DEF still
<1>2. parcel = [at |-> parcel.at, scope |-> parcel.scope, quiet |-> parcel.quiet, clean |-> parcel.clean,
                origin |-> parcel.origin, tree |-> parcel.tree]
  BY DEF ParcelTyped
<1>3. parcel' = [at |-> to, scope |-> parcel.scope, quiet |-> still, clean |-> parcel.clean,
                 origin |-> parcel.origin, tree |-> take]
  BY <1>1, <1>2
<1>4. /\ parcel.at = from /\ parcel'.at = to /\ parcel'.scope = parcel.scope /\ parcel'.clean = parcel.clean
      /\ parcel'.origin = parcel.origin /\ parcel'.tree = take /\ parcel'.quiet = still
      /\ parcel' = [at |-> parcel'.at, scope |-> parcel'.scope, quiet |-> parcel'.quiet, clean |-> parcel'.clean,
                    origin |-> parcel'.origin, tree |-> parcel'.tree]
  BY <1>1, <1>3
<1> QED BY <1>4 DEF still

\* The copies, by field.
LEMMA CopyFields ==
  ASSUME NEW o
  PROVE  /\ Nothing = [layout |-> "none", entries |-> <<>>, disk |-> <<>>, hist |-> Nothing.hist, script |-> NoScript]
         /\ RootCopy(o) = [layout |-> o.layout, entries |-> EntriesIn(o, NonShots), disk |-> <<>>,
                           hist |-> Nothing.hist, script |-> NoScript]
         /\ PicturesCopy(o) = [layout |-> o.layout, entries |-> EntriesIn(o, NonShots), disk |-> PicturesIn(o, NonShots),
                               hist |-> Nothing.hist, script |-> NoScript]
         /\ ScriptCopy(o) = [layout |-> o.layout, entries |-> o.entries, disk |-> PicturesIn(o, NonShots),
                             hist |-> Nothing.hist, script |-> o.script]
<1> DEFINE H == [a \in Assets |-> [listed |-> {}, current |-> 0]]
<1>1. Nothing = [layout |-> "none", entries |-> <<>>, disk |-> <<>>, hist |-> H, script |-> NoScript] BY DEF Nothing
<1> HIDE DEF H
<1>2. Nothing.hist = H BY <1>1
<1>3. RootCopy(o) = [layout |-> o.layout, entries |-> EntriesIn(o, NonShots), disk |-> <<>>,
                     hist |-> H, script |-> NoScript]
  <2> DEFINE l == o.layout
             e == EntriesIn(o, NonShots)
  <2>1. RootCopy(o) = [Nothing EXCEPT !.layout = l, !.entries = e] BY DEF RootCopy
  <2> HIDE DEF l, e
  <2>2. RootCopy(o) = [layout |-> l, entries |-> e, disk |-> <<>>, hist |-> H, script |-> NoScript]
    BY <1>1, <2>1
  <2> QED BY <2>2 DEF l, e
<1>4. PicturesCopy(o) = [layout |-> o.layout, entries |-> EntriesIn(o, NonShots), disk |-> PicturesIn(o, NonShots),
                         hist |-> H, script |-> NoScript]
  BY <1>3 DEF PicturesCopy
<1>5. ScriptCopy(o) = [layout |-> o.layout, entries |-> o.entries, disk |-> PicturesIn(o, NonShots),
                       hist |-> H, script |-> o.script]
  <2> DEFINE l == o.layout
             e == o.entries
             w == o.script
             m == EntriesIn(o, NonShots)
             d == PicturesIn(o, NonShots)
  <2>1. ScriptCopy(o) = [PicturesCopy(o) EXCEPT !.script = w, !.entries = e] BY DEF ScriptCopy
  <2>2. PicturesCopy(o) = [layout |-> l, entries |-> m, disk |-> d, hist |-> H, script |-> NoScript] BY <1>4
  <2> HIDE DEF l, e, w, m, d
  <2>3. ScriptCopy(o) = [layout |-> l, entries |-> e, disk |-> d, hist |-> H, script |-> w]
    <3>1. ASSUME NEW c, c = [layout |-> l, entries |-> m, disk |-> d, hist |-> H, script |-> NoScript]
          PROVE  [c EXCEPT !.script = w, !.entries = e] =
                   [layout |-> l, entries |-> e, disk |-> d, hist |-> H, script |-> w]
      <4>1. [c EXCEPT !.script = w] = [layout |-> l, entries |-> m, disk |-> d, hist |-> H, script |-> w]
        BY <3>1
      <4>2. ASSUME NEW k, k = [layout |-> l, entries |-> m, disk |-> d, hist |-> H, script |-> w]
            PROVE  [k EXCEPT !.entries = e] = [layout |-> l, entries |-> e, disk |-> d, hist |-> H, script |-> w]
        BY <4>2
      <4> QED BY <4>1, <4>2
    <3> QED BY <2>1, <2>2, <3>1
  <2> QED BY <2>3 DEF l, e, w, d
<1> QED BY <1>1, <1>2, <1>3, <1>4, <1>5

VersionFiles(o) == [p \in {q \in DOMAIN o.disk : q[2] \in ToSet(VersionPlaces)} |-> o.disk[p]]

\* The parts that are copied one after the other make up the whole.
LEMMA WholeProject ==
  ASSUME NEW o, Good(o)
  PROVE  /\ Joined(EntriesIn(o, NonShots), EntriesIn(o, Shots)) = o.entries
         /\ Joined(Joined(PicturesIn(o, NonShots), PicturesIn(o, Shots)), VersionFiles(o)) = o.disk
<1>0. /\ o.entries = [a \in DOMAIN o.entries |-> o.entries[a]] /\ DOMAIN o.entries \subseteq Assets
      /\ o.disk = [p \in DOMAIN o.disk |-> o.disk[p]] /\ DOMAIN o.disk \subseteq Paths
  BY DEF Good, IsTree, IsFcn
<1>1. Joined(EntriesIn(o, NonShots), EntriesIn(o, Shots)) = o.entries
  <2> DEFINE f == EntriesIn(o, NonShots)
             g == EntriesIn(o, Shots)
  <2>1. DOMAIN f \cup DOMAIN g = DOMAIN o.entries BY <1>0 DEF EntriesIn, Shots, NonShots
  <2>2. (\A a \in DOMAIN f : f[a] = o.entries[a]) /\ \A a \in DOMAIN g : g[a] = o.entries[a] BY DEF EntriesIn
  <2> HIDE DEF f, g
  <2>3. Joined(f, g) = [i \in DOMAIN o.entries |-> IF i \in DOMAIN f THEN f[i] ELSE g[i]] BY <2>1 DEF Joined
  <2>4. Joined(f, g) = o.entries BY <1>0, <2>1, <2>2, <2>3
  <2> QED BY <2>4 DEF f, g
<1>2. Joined(Joined(PicturesIn(o, NonShots), PicturesIn(o, Shots)), VersionFiles(o)) = o.disk
  <2> DEFINE f == PicturesIn(o, NonShots)
             g == PicturesIn(o, Shots)
             j == Joined(f, g)
             v == VersionFiles(o)
  <2>1. /\ DOMAIN f = {q \in DOMAIN o.disk : q[1] \in NonShots /\ q[2] \notin ToSet(VersionPlaces)}
        /\ DOMAIN g = {q \in DOMAIN o.disk : q[1] \in Shots /\ q[2] \notin ToSet(VersionPlaces)}
        /\ DOMAIN v = {q \in DOMAIN o.disk : q[2] \in ToSet(VersionPlaces)}
        /\ (\A p \in DOMAIN f : f[p] = o.disk[p]) /\ (\A p \in DOMAIN g : g[p] = o.disk[p])
        /\ \A p \in DOMAIN v : v[p] = o.disk[p]
    BY DEF PicturesIn, VersionFiles
  <2>2. \A q \in DOMAIN o.disk : q[1] \in NonShots \/ q[1] \in Shots BY <1>0, PathFacts DEF Shots, NonShots
  <2> HIDE DEF f, g, v
  <2>3. j = [i \in DOMAIN f \cup DOMAIN g |-> IF i \in DOMAIN f THEN f[i] ELSE g[i]] BY DEF Joined
  <2> HIDE DEF j
  <2>4. DOMAIN j = DOMAIN f \cup DOMAIN g /\ \A p \in DOMAIN j : j[p] = o.disk[p] BY <2>1, <2>3
  <2>5. DOMAIN j \cup DOMAIN v = DOMAIN o.disk BY <2>1, <2>2, <2>4
  <2>6. Joined(j, v) = [i \in DOMAIN o.disk |-> IF i \in DOMAIN j THEN j[i] ELSE v[i]] BY <2>5 DEF Joined
  <2>7. Joined(j, v) = o.disk BY <1>0, <2>1, <2>4, <2>5, <2>6
  <2> QED BY <2>7 DEF f, g, v, j
<1> QED BY <1>1, <1>2

\* A tree stays one when it is repaired and pruned.
LEMMA TreesStay ==
  ASSUME NEW t, TreeOK(t)
  PROVE  TreeOK(RepairTree(t)) /\ \A scope : TreeOK(Prune(t, scope))
<1>0. t = [layout |-> t.layout, entries |-> t.entries, disk |-> t.disk, hist |-> t.hist, script |-> t.script]
  BY DEF TreeOK
<1>1. TreeOK(RepairTree(t))
  <2> DEFINE E == Joined([a \in DOMAIN t.entries |-> RepairedEntry(t, a)],
                         [a \in Placeholders(t) |-> NewEntry(TRUE)])
             D == Joined([p \in {Png(a) : a \in Made(t)} |-> t.disk[Source(t, p[1], "sheet")]], t.disk)
  <2>1. RepairTree(t) = [t EXCEPT !.entries = E, !.disk = D] BY DEF RepairTree
  <2>2. DOMAIN E = DOMAIN t.entries \cup Placeholders(t) /\ DOMAIN D = {Png(a) : a \in Made(t)} \cup DOMAIN t.disk
    BY DEF Joined
  <2>3. Placeholders(t) \subseteq Assets BY DEF Placeholders, Bucket, TreeOK, ScriptType
  <2>4. Made(t) \subseteq Assets BY DEF Made, TreeOK
  <2>5. DOMAIN E \subseteq Assets /\ DOMAIN D \subseteq Paths
    <3>1. \A a \in Made(t) : Png(a) \in Paths BY <2>4, PngFacts
    <3>2. DOMAIN t.entries \subseteq Assets /\ DOMAIN t.disk \subseteq Paths BY DEF TreeOK
    <3> HIDE DEF E, D
    <3> QED BY <2>2, <2>3, <3>1, <3>2
  <2> HIDE DEF E, D
  <2>6. RepairTree(t) = [layout |-> t.layout, entries |-> E, disk |-> D, hist |-> t.hist, script |-> t.script]
    BY <1>0, <2>1
  <2> QED BY <2>5, <2>6 DEF TreeOK
<1>2. ASSUME NEW scope PROVE TreeOK(Prune(t, scope))
  <2> DEFINE D == [p \in {q \in DOMAIN t.disk : GoesAlong(q, scope)} |-> t.disk[p]]
             H == [a \in Assets |->
                     [listed |-> {n \in t.hist[a].listed : scope = "full" \/ n = t.hist[a].current},
                      current |-> t.hist[a].current]]
  <2>1. Prune(t, scope) = [t EXCEPT !.disk = D, !.hist = H] BY DEF Prune
  <2>2. DOMAIN D \subseteq Paths BY DEF TreeOK
  <2> HIDE DEF D, H
  <2>3. Prune(t, scope) = [layout |-> t.layout, entries |-> t.entries, disk |-> D, hist |-> H, script |-> t.script]
    BY <1>0, <2>1
  <2> QED BY <2>2, <2>3 DEF TreeOK
<1> QED BY <1>1, <1>2

\* The steps.
LEMMA CopyRootHolds ==
  ASSUME AssetsTypeOK, ProjectFits, ParcelTyped, CopyRoot
  PROVE  ParcelTyped' /\ ParcelHolds'
<1> DEFINE e == EntriesOf({a \in Assets : ~IsShot(a)})
           copy == [Nothing EXCEPT !.layout = layout, !.entries = e]
           here == Here
<1>1. parcel' = [parcel EXCEPT !.at = "root", !.quiet = TRUE, !.origin = here, !.tree = copy] BY DEF CopyRoot
<1>2. e = EntriesIn(here, NonShots) BY HereParts DEF NonShots
<1>3. copy = RootCopy(here) BY <1>2, HereParts DEF RootCopy
<1>4. TreeOK(here) /\ Good(here) BY HereOK
<1>5. TreeOK(copy)
  <2>1. DOMAIN e \subseteq Assets BY DEF EntriesOf
  <2>2. NoScript \in ScriptType /\ DOMAIN <<>> = {} BY DEF NoScript, ScriptType
  <2> HIDE DEF e
  <2>3. copy = [layout |-> layout, entries |-> e, disk |-> <<>>, hist |-> Nothing.hist, script |-> NoScript]
    <3>1. Nothing = [layout |-> "none", entries |-> <<>>, disk |-> <<>>, hist |-> Nothing.hist, script |-> NoScript]
      BY CopyFields, Zenon
    <3>2. ASSUME NEW c, c = [layout |-> "none", entries |-> <<>>, disk |-> <<>>, hist |-> Nothing.hist,
                             script |-> NoScript]
          PROVE  [c EXCEPT !.layout = layout, !.entries = e] =
                   [layout |-> layout, entries |-> e, disk |-> <<>>, hist |-> Nothing.hist, script |-> NoScript]
      <4>1. [c EXCEPT !.layout = layout] = [layout |-> layout, entries |-> <<>>, disk |-> <<>>,
                                            hist |-> Nothing.hist, script |-> NoScript]
        BY <3>2
      <4>2. ASSUME NEW k, k = [layout |-> layout, entries |-> <<>>, disk |-> <<>>, hist |-> Nothing.hist,
                               script |-> NoScript]
            PROVE  [k EXCEPT !.entries = e] = [layout |-> layout, entries |-> e, disk |-> <<>>,
                                               hist |-> Nothing.hist, script |-> NoScript]
        BY <4>2
      <4> QED BY <4>1, <4>2
    <3> QED BY <3>1, <3>2
  <2> HIDE DEF copy
  <2> QED BY <2>1, <2>2, <2>3 DEF TreeOK
<1> HIDE DEF copy, here
<1>6. parcel = [at |-> parcel.at, scope |-> parcel.scope, quiet |-> parcel.quiet, clean |-> parcel.clean,
                origin |-> parcel.origin, tree |-> parcel.tree] /\ parcel.scope \in {"full", "current"}
      /\ parcel.clean \in BOOLEAN
  BY DEF ParcelTyped
<1>7. parcel' = [at |-> "root", scope |-> parcel.scope, quiet |-> TRUE, clean |-> parcel.clean,
                 origin |-> here, tree |-> copy]
  BY <1>1, <1>6
<1>8. /\ parcel'.at = "root" /\ parcel'.scope = parcel.scope /\ parcel'.quiet = TRUE /\ parcel'.clean = parcel.clean
      /\ parcel'.origin = here /\ parcel'.tree = copy
  BY <1>7
<1>9. ParcelTyped' BY <1>4, <1>5, <1>6, <1>7, <1>8 DEF ParcelTyped
<1>10. ParcelHolds' BY <1>3, <1>4, <1>8 DEF ParcelHolds
<1> QED BY <1>9, <1>10

LEMMA CopiesTyped ==
  ASSUME ParcelTyped, NEW from, NEW to, NEW take, Copies(from, to, take), TreeOK(take),
         to \in {"pictures", "script"}
  PROVE  ParcelTyped'
<1>1. /\ parcel.at = from /\ parcel'.at = to /\ parcel'.scope = parcel.scope /\ parcel'.clean = parcel.clean
      /\ parcel'.origin = parcel.origin /\ parcel'.tree = take
      /\ parcel'.quiet = (parcel.quiet /\ parcel.origin = Here)
      /\ parcel' = [at |-> parcel'.at, scope |-> parcel'.scope, quiet |-> parcel'.quiet, clean |-> parcel'.clean,
                    origin |-> parcel'.origin, tree |-> parcel'.tree]
  BY CopiesFacts, Zenon
<1>2. parcel'.quiet \in BOOLEAN BY <1>1
<1> QED BY <1>1, <1>2 DEF ParcelTyped

LEMMA CopyPicturesHolds ==
  ASSUME AssetsTypeOK, ProjectFits, ParcelTyped, ParcelHolds, CopyPictures
  PROVE  ParcelTyped' /\ ParcelHolds'
<1> DEFINE d == PicturesOf({a \in Assets : ~IsShot(a)})
           take == [parcel.tree EXCEPT !.disk = d]
<1>1. Copies("root", "pictures", take) BY DEF CopyPictures
<1>2. TreeOK(parcel.tree) BY DEF ParcelTyped
<1>3. TreeOK(take)
  <2>1. DOMAIN d \subseteq Paths
    <3>1. DiskOK BY AssetsTypeParts
    <3> QED BY <3>1 DEF DiskOK, PicturesOf
  <2> HIDE DEF d
  <2>2. take = [layout |-> parcel.tree.layout, entries |-> parcel.tree.entries, disk |-> d,
                hist |-> parcel.tree.hist, script |-> parcel.tree.script]
    BY <1>2 DEF TreeOK
  <2> HIDE DEF take
  <2> QED BY <1>2, <2>1, <2>2 DEF TreeOK
<1>4. d = PicturesIn(Here, NonShots) BY HereParts DEF NonShots
<1>5. take = [parcel.tree EXCEPT !.disk = PicturesIn(Here, NonShots)] BY <1>4
<1> HIDE DEF take, d
<1>6. ParcelTyped' BY <1>1, <1>3, CopiesTyped
<1>7. /\ parcel.at = "root" /\ parcel'.at = "pictures" /\ parcel'.origin = parcel.origin /\ parcel'.tree = take
      /\ parcel'.quiet = (parcel.quiet /\ parcel.origin = Here)
  BY <1>1, CopiesFacts
<1>8. ASSUME parcel'.quiet PROVE Good(parcel.origin) /\ take = PicturesCopy(parcel.origin)
  <2>1. parcel.quiet /\ parcel.origin = Here BY <1>7, <1>8
  <2>2. Good(parcel.origin) /\ parcel.tree = RootCopy(parcel.origin) BY <1>7, <2>1 DEF ParcelHolds
  <2> QED BY <1>5, <2>1, <2>2 DEF PicturesCopy
<1>9. ParcelHolds' BY <1>7, <1>8 DEF ParcelHolds
<1> QED BY <1>6, <1>9

LEMMA CopyScriptHolds ==
  ASSUME AssetsTypeOK, ProjectFits, ParcelTyped, ParcelHolds, CopyScript
  PROVE  ParcelTyped' /\ ParcelHolds'
<1> DEFINE e == Joined(parcel.tree.entries, EntriesOf({a \in Assets : IsShot(a)}))
           take == [parcel.tree EXCEPT !.script = script, !.entries = e]
<1>1. Copies("pictures", "script", take) BY DEF CopyScript
<1>2. TreeOK(parcel.tree) BY DEF ParcelTyped
<1>3. TreeOK(take)
  <2>1. DOMAIN e \subseteq Assets BY <1>2 DEF TreeOK, Joined, EntriesOf
  <2> HIDE DEF e
  <2>2. take = [layout |-> parcel.tree.layout, entries |-> e, disk |-> parcel.tree.disk,
                hist |-> parcel.tree.hist, script |-> script]
    <3>1. [parcel.tree EXCEPT !.script = script] =
            [layout |-> parcel.tree.layout, entries |-> parcel.tree.entries, disk |-> parcel.tree.disk,
             hist |-> parcel.tree.hist, script |-> script]
      BY <1>2 DEF TreeOK
    <3>2. ASSUME NEW k, k = [layout |-> parcel.tree.layout, entries |-> parcel.tree.entries,
                             disk |-> parcel.tree.disk, hist |-> parcel.tree.hist, script |-> script]
          PROVE  [k EXCEPT !.entries = e] = [layout |-> parcel.tree.layout, entries |-> e, disk |-> parcel.tree.disk,
                                             hist |-> parcel.tree.hist, script |-> script]
      BY <3>2
    <3> QED BY <3>1, <3>2
  <2> HIDE DEF take
  <2> QED BY <1>2, <2>1, <2>2 DEF TreeOK, ProjectFits
<1>4. e = Joined(parcel.tree.entries, EntriesIn(Here, Shots)) /\ script = Here.script BY HereParts DEF Shots
<1>5. take = [parcel.tree EXCEPT !.script = Here.script, !.entries = e] BY <1>4
<1> HIDE DEF take, e
<1>6. ParcelTyped' BY <1>1, <1>3, CopiesTyped
<1>7. /\ parcel.at = "pictures" /\ parcel'.at = "script" /\ parcel'.origin = parcel.origin /\ parcel'.tree = take
      /\ parcel'.quiet = (parcel.quiet /\ parcel.origin = Here)
  BY <1>1, CopiesFacts
<1>8. ASSUME parcel'.quiet PROVE Good(parcel.origin) /\ take = ScriptCopy(parcel.origin)
  <2>1. parcel.quiet /\ parcel.origin = Here BY <1>7, <1>8
  <2>2. Good(parcel.origin) /\ parcel.tree = PicturesCopy(parcel.origin) BY <1>7, <2>1 DEF ParcelHolds
  <2>3. parcel.tree.entries = EntriesIn(Here, NonShots)
    <3>1. PicturesCopy(Here) = [layout |-> Here.layout, entries |-> EntriesIn(Here, NonShots),
                                disk |-> PicturesIn(Here, NonShots), hist |-> Nothing.hist, script |-> NoScript]
      BY CopyFields, Zenon
    <3> QED BY <2>1, <2>2, <3>1
  <2>4. e = Here.entries BY <1>4, <2>1, <2>2, <2>3, WholeProject
  <2>5. take = [parcel.tree EXCEPT !.script = Here.script, !.entries = Here.entries] BY <1>5, <2>4
  <2> QED BY <2>1, <2>2, <2>5 DEF ScriptCopy
<1>9. ParcelHolds' BY <1>7, <1>8 DEF ParcelHolds
<1> QED BY <1>6, <1>9

LEMMA PackHolds ==
  ASSUME AssetsTypeOK, ProjectFits, ParcelTyped, ParcelHolds, PackArchive
  PROVE  ParcelTyped' /\ ParcelHolds'
<1> DEFINE versions == [p \in {q \in DOMAIN disk : q[2] \in ToSet(VersionPlaces)} |-> disk[p]]
           pictures == Joined(parcel.tree.disk, PicturesOf({a \in Assets : IsShot(a)}))
           d == Joined(pictures, versions)
           copy == [parcel.tree EXCEPT !.disk = d, !.hist = hist]
           still == parcel.quiet /\ parcel.origin = Here
           ok == Acceptable(copy)
<1>1. parcel.at = "script"
      /\ \E s \in {"full", "current"} :
           parcel' = [parcel EXCEPT !.at = "packed", !.scope = s, !.quiet = still, !.clean = ok,
                                    !.tree = Prune(RepairTree(copy), s)]
  BY DEF PackArchive
<1>2. still \in BOOLEAN /\ ok \in BOOLEAN BY DEF Acceptable
<1>3. TreeOK(parcel.tree) /\ DiskOK BY AssetsTypeParts DEF ParcelTyped
<1>4. copy = [layout |-> parcel.tree.layout, entries |-> parcel.tree.entries, disk |-> d, hist |-> hist,
              script |-> parcel.tree.script]
  <2> HIDE DEF d
  <2>1. [parcel.tree EXCEPT !.disk = d] =
          [layout |-> parcel.tree.layout, entries |-> parcel.tree.entries, disk |-> d,
           hist |-> parcel.tree.hist, script |-> parcel.tree.script]
    BY <1>3 DEF TreeOK
  <2>2. ASSUME NEW k, k = [layout |-> parcel.tree.layout, entries |-> parcel.tree.entries, disk |-> d,
                           hist |-> parcel.tree.hist, script |-> parcel.tree.script]
        PROVE  [k EXCEPT !.hist = hist] = [layout |-> parcel.tree.layout, entries |-> parcel.tree.entries,
                                           disk |-> d, hist |-> hist, script |-> parcel.tree.script]
    BY <2>2
  <2> QED BY <2>1, <2>2
<1>5. TreeOK(copy)
  <2>1. DOMAIN d \subseteq Paths BY <1>3 DEF TreeOK, DiskOK, Joined, PicturesOf
  <2> HIDE DEF d, copy
  <2> QED BY <1>3, <1>4, <2>1 DEF TreeOK
<1>6. ASSUME still PROVE Good(parcel.origin) /\ copy = parcel.origin
  <2>0. parcel.quiet /\ parcel.origin = Here BY <1>6
  <2>1. Good(parcel.origin) /\ parcel.tree = ScriptCopy(Here) BY <1>1, <2>0 DEF ParcelHolds
  <2>2. ScriptCopy(Here) = [layout |-> Here.layout, entries |-> Here.entries, disk |-> PicturesIn(Here, NonShots),
                            hist |-> Nothing.hist, script |-> Here.script]
    BY CopyFields, Zenon
  <2>3. /\ parcel.tree.layout = layout /\ parcel.tree.entries = entries /\ parcel.tree.script = script
        /\ parcel.tree.disk = PicturesIn(Here, NonShots)
    BY <2>1, <2>2, HereParts
  <2>4. versions = VersionFiles(Here) BY HereParts DEF VersionFiles
  <2>5. d = Joined(Joined(PicturesIn(Here, NonShots), PicturesIn(Here, Shots)), VersionFiles(Here))
    BY <2>3, <2>4, HereParts DEF Shots
  <2>6. d = disk BY <2>0, <2>1, <2>5, WholeProject, HereParts
  <2> HIDE DEF d, copy
  <2>7. copy = Here BY <1>4, <2>3, <2>6 DEF Here
  <2> QED BY <2>0, <2>1, <2>7
<1> HIDE DEF versions, pictures, d
<1>7. PICK s \in {"full", "current"} :
        parcel' = [parcel EXCEPT !.at = "packed", !.scope = s, !.quiet = still, !.clean = ok,
                                 !.tree = Prune(RepairTree(copy), s)]
  BY <1>1
<1> DEFINE back == Prune(RepairTree(copy), s)
<1>8. TreeOK(back) BY <1>5, TreesStay
<1>9. ok = Acceptable(copy) OBVIOUS
<1>10. still = (parcel.quiet /\ parcel.origin = Here) OBVIOUS
<1> HIDE DEF copy, still, ok, back
<1>11. parcel = [at |-> parcel.at, scope |-> parcel.scope, quiet |-> parcel.quiet, clean |-> parcel.clean,
                 origin |-> parcel.origin, tree |-> parcel.tree]
  BY DEF ParcelTyped
<1>12. parcel' = [at |-> "packed", scope |-> s, quiet |-> still, clean |-> ok, origin |-> parcel.origin, tree |-> back]
  <2>1. parcel' = [parcel EXCEPT !.at = "packed", !.scope = s, !.quiet = still, !.clean = ok, !.tree = back]
    BY <1>7 DEF back
  <2> QED BY <1>11, <2>1
<1>13. /\ parcel'.at = "packed" /\ parcel'.scope = s /\ parcel'.quiet = still /\ parcel'.clean = ok
       /\ parcel'.origin = parcel.origin /\ parcel'.tree = back
  BY <1>12
<1>14. ParcelTyped' BY <1>2, <1>8, <1>12, <1>13 DEF ParcelTyped
<1>15. ParcelHolds'
  <2>1. SUFFICES ASSUME still
                 PROVE  Good(parcel.origin) /\ (ok <=> Acceptable(parcel.origin)) /\ back = ArchiveOf(parcel.origin, s)
    BY <1>13 DEF ParcelHolds
  <2> QED BY <1>6, <1>9, <2>1 DEF back, ArchiveOf
<1> QED BY <1>14, <1>15

LEMMA ImportHolds ==
  ASSUME ParcelTyped, ParcelHolds, ImportArchive
  PROVE  ParcelTyped' /\ ParcelHolds'
<1> DEFINE to == IF Acceptable(parcel.tree) THEN "accepted" ELSE "refused"
           take == RepairTree(parcel.tree)
<1>1. parcel.at = "packed" /\ parcel' = [parcel EXCEPT !.at = to, !.tree = take] BY DEF ImportArchive
<1>2. TreeOK(take) BY TreesStay DEF ParcelTyped
<1>3. to \in {"accepted", "refused"} /\ (to = "accepted" <=> Acceptable(parcel.tree)) OBVIOUS
<1>4. take = RepairTree(parcel.tree) OBVIOUS
<1> HIDE DEF to, take
<1>5. parcel = [at |-> parcel.at, scope |-> parcel.scope, quiet |-> parcel.quiet, clean |-> parcel.clean,
                origin |-> parcel.origin, tree |-> parcel.tree]
  BY DEF ParcelTyped
<1>6. parcel' = [at |-> to, scope |-> parcel.scope, quiet |-> parcel.quiet, clean |-> parcel.clean,
                 origin |-> parcel.origin, tree |-> take]
  BY <1>1, <1>5
<1>7. /\ parcel'.at = to /\ parcel'.scope = parcel.scope /\ parcel'.quiet = parcel.quiet
      /\ parcel'.clean = parcel.clean /\ parcel'.origin = parcel.origin /\ parcel'.tree = take
  BY <1>6
<1>8. ParcelTyped' BY <1>2, <1>3, <1>6, <1>7 DEF ParcelTyped
<1>9. ParcelHolds'
  <2>1. SUFFICES ASSUME parcel.quiet
                 PROVE  /\ Good(parcel.origin) /\ (parcel.clean <=> Acceptable(parcel.origin))
                        /\ take = RepairTree(ArchiveOf(parcel.origin, parcel.scope))
                        /\ to = "accepted" <=> Acceptable(ArchiveOf(parcel.origin, parcel.scope))
    BY <1>3, <1>7 DEF ParcelHolds
  <2>2. /\ Good(parcel.origin) /\ (parcel.clean <=> Acceptable(parcel.origin))
        /\ parcel.tree = ArchiveOf(parcel.origin, parcel.scope)
    BY <1>1, <2>1 DEF ParcelHolds
  <2> QED BY <1>3, <1>4, <2>2
<1> QED BY <1>8, <1>9

RepairInv == AssetsBase /\ ProjectFits /\ ParcelTyped /\ ParcelHolds

LEMMA RepairInvInit == AssetsInit /\ RepairInit => RepairInv
<1> SUFFICES ASSUME AssetsInit, RepairInit PROVE RepairInv OBVIOUS
<1>1. AssetsBase /\ ProjectFits BY RepairInitFits
<1>2. TreeOK(Nothing)
  <2>1. Nothing = [layout |-> "none", entries |-> <<>>, disk |-> <<>>, hist |-> Nothing.hist, script |-> NoScript]
    BY CopyFields, Zenon
  <2>2. Nothing.layout = "none" /\ Nothing.entries = <<>> /\ Nothing.disk = <<>> /\ Nothing.script = NoScript BY <2>1
  <2>3. DOMAIN <<>> = {} /\ NoScript \in ScriptType BY DEF NoScript, ScriptType
  <2> QED BY <2>1, <2>2, <2>3 DEF TreeOK
<1> DEFINE n == Nothing
<1>3. parcel = [at |-> "none", scope |-> "full", quiet |-> FALSE, clean |-> FALSE, origin |-> n, tree |-> n]
  BY DEF RepairInit
<1> HIDE DEF n
<1>4. parcel.at = "none" /\ parcel.scope = "full" /\ parcel.quiet = FALSE /\ parcel.clean = FALSE
      /\ parcel.origin = n /\ parcel.tree = n
  BY <1>3
<1>5. ParcelTyped BY <1>2, <1>3, <1>4 DEF ParcelTyped, n
<1>6. ParcelHolds BY <1>4 DEF ParcelHolds
<1> QED BY <1>1, <1>5, <1>6 DEF RepairInv

LEMMA RepairInvStep == RepairInv /\ [RepairNext]_<<assetVars, repairVars>> => RepairInv'
<1> SUFFICES ASSUME RepairInv, [RepairNext]_<<assetVars, repairVars>> PROVE RepairInv' OBVIOUS
<1>0. AssetsTypeOK /\ AssetsBase /\ ProjectFits /\ ParcelTyped /\ ParcelHolds BY DEF RepairInv, AssetsBase
<1>1. ASSUME UNCHANGED assetVars, layout' = layout, script' = script PROVE AssetsBase' /\ ProjectFits'
  <2>1. AssetsBase' BY <1>0, <1>1, BaseStep
  <2>2. entries' = entries /\ disk' = disk BY <1>1 DEF assetVars
  <2> QED BY <1>0, <1>1, <2>1, <2>2 DEF ProjectFits, EntriesFit
<1>2. ASSUME parcel' = parcel PROVE ParcelTyped' /\ ParcelHolds'
  BY <1>0, <1>2 DEF ParcelTyped, ParcelHolds
<1>3. CASE ProjectGoesOn BY <1>0, <1>2, <1>3, GoesOnFits DEF RepairInv, ProjectGoesOn, repairVars
<1>4. CASE SaveScript BY <1>0, <1>2, <1>4, SaveScriptFits DEF RepairInv, SaveScript
<1>5. CASE CopyRoot
  <2>1. ParcelTyped' /\ ParcelHolds' BY <1>0, <1>5, CopyRootHolds
  <2>2. AssetsBase' /\ ProjectFits' BY <1>1, <1>5 DEF CopyRoot
  <2> QED BY <2>1, <2>2 DEF RepairInv
<1>6. CASE CopyPictures
  <2>1. ParcelTyped' /\ ParcelHolds' BY <1>0, <1>6, CopyPicturesHolds
  <2>2. AssetsBase' /\ ProjectFits' BY <1>1, <1>6 DEF CopyPictures
  <2> QED BY <2>1, <2>2 DEF RepairInv
<1>7. CASE CopyScript
  <2>1. ParcelTyped' /\ ParcelHolds' BY <1>0, <1>7, CopyScriptHolds
  <2>2. AssetsBase' /\ ProjectFits' BY <1>1, <1>7 DEF CopyScript
  <2> QED BY <2>1, <2>2 DEF RepairInv
<1>8. CASE PackArchive
  <2>1. ParcelTyped' /\ ParcelHolds' BY <1>0, <1>8, PackHolds
  <2>2. AssetsBase' /\ ProjectFits' BY <1>1, <1>8 DEF PackArchive
  <2> QED BY <2>1, <2>2 DEF RepairInv
<1>9. CASE ImportArchive
  <2>1. ParcelTyped' /\ ParcelHolds' BY <1>0, <1>9, ImportHolds
  <2>2. AssetsBase' /\ ProjectFits' BY <1>1, <1>9 DEF ImportArchive
  <2> QED BY <2>1, <2>2 DEF RepairInv
<1>10. CASE UNCHANGED <<assetVars, repairVars>>
  BY <1>1, <1>2, <1>10 DEF RepairInv, repairVars
<1> QED BY <1>3, <1>4, <1>5, <1>6, <1>7, <1>8, <1>9, <1>10 DEF RepairNext

(* ArchiveRepair: what the export and the import hold is a project's at     *)
(* every step: entries of assets, files under paths, a script that names   *)
(* assets (_prepare_export_snapshot, import_project_archive).              *)
THEOREM RepairTypeCorrect == RepairSpec => []RepairTypeOK
<1>1. RepairInv => RepairTypeOK
  BY DEF RepairInv, ProjectFits, ParcelTyped, TreeOK, RepairTypeOK
<1> QED BY <1>1, RepairInvInit, RepairInvStep, PTL DEF RepairSpec

\* What was exported while nobody worked on it, and reported to be in order, is
\* imported and shows the same picture everywhere, but for the cases that
\* RoundTripKeeps names: the repair of an archive that was repaired finds
\* nothing to do, and a picture that is shown is never left out of it.
THEOREM RoundTripStays == RepairSpec => []RoundTripKeeps
<1>1. RepairInv => RoundTripKeeps BY HoldsShows DEF RepairInv
<1> QED BY <1>1, RepairInvInit, RepairInvStep, PTL DEF RepairSpec
=============================================================================
