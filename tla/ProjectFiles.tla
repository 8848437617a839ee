---------------------------- MODULE ProjectFiles ----------------------------
(***************************************************************************)
(* lib/project_manager.py: the files project.json and scripts/*.json of a  *)
(* project are read, changed and written back by the routers, the agent's  *)
(* tools, the generation worker and the events service at once, in threads *)
(* and processes.  A file lock for each of them orders the writers; every  *)
(* write is atomic (a temporary file and a rename).                        *)
(*                                                                         *)
(* An edit is identified with its editor; a file is the set of the edits   *)
(* that are in it.  project.json also says which script the episode is     *)
(* bound to, and holds a copy of what the bound script's title was.        *)
(***************************************************************************)
EXTENDS Naturals

CONSTANTS
    Editors,
    ScriptFiles,
    Nobody,
    MaxEditFaults       \* bound

ASSUME FilesAssumption ==
    Nobody \notin Editors /\ "project" \notin ScriptFiles /\ MaxEditFaults \in Nat

VARIABLES
    project,       \* project.json
    scripts,       \* scripts/*.json
    projectLock, scriptLock,
    editor,        \* what each editor is doing, and what it has read
    landed,        \* the edits that were reported as done, and where (history)
    astray,        \* edits written to a script the episode was not bound to (history)
    editFaults

filesVars == <<project, scripts, projectLock, scriptLock, editor, landed, astray, editFaults>>

Kinds == {"update", "script", "episode", "replace", "rebind", "index"}
AtRest == [step |-> "start", kind |-> "none", target |-> Nobody,
           script |-> {}, edits |-> {}, bound |-> Nobody]
EditSteps == {"start", "resolved", "scriptLocked", "bothLocked", "written", "projectLocked", "done",
              "failed"}

Edit == [step : EditSteps, kind : Kinds \cup {"none"}, target : ScriptFiles \cup {Nobody},
         script : SUBSET Editors, edits : SUBSET Editors, bound : ScriptFiles \cup {Nobody}]

FilesTypeOK ==
    /\ project \in [edits : SUBSET Editors, bound : ScriptFiles]
    /\ scripts \in [ScriptFiles -> SUBSET Editors]
    /\ projectLock \in Editors \cup {Nobody}
    /\ scriptLock \in [ScriptFiles -> Editors \cup {Nobody}]
    /\ editor \in [Editors -> Edit]
    /\ landed \subseteq Editors \X ({"project"} \cup ScriptFiles)
    /\ astray \subseteq Editors /\ editFaults \in 0..MaxEditFaults

FilesInit ==
    /\ project \in [edits : {{}}, bound : ScriptFiles] /\ scripts = [f \in ScriptFiles |-> {}]
    /\ projectLock = Nobody /\ scriptLock = [f \in ScriptFiles |-> Nobody]
    /\ editor = [e \in Editors |-> AtRest] /\ landed = {} /\ astray = {} /\ editFaults = 0

Step(e, step) == editor' = [editor EXCEPT ![e].step = step]
Holding(e, kind, step) == editor[e].kind = kind /\ editor[e].step = step

-----------------------------------------------------------------------------
(* project.json alone.                                                     *)

\* update_project: read, mutate and write under the lock.  "rebind" is the
\* PATCH that binds the episode to another script, "index" the events service
\* that has read a script without its lock and syncs the index from it.
StartUpdate(e, kind, f) ==
    /\ editor[e].step = "start" /\ kind \in {"update", "rebind", "index"}
    /\ editor' = [editor EXCEPT ![e].kind = kind, ![e].step = "resolved", ![e].target = f]
    /\ UNCHANGED <<project, scripts, projectLock, scriptLock, landed, astray, editFaults>>

LockProject(e) ==
    /\ projectLock = Nobody /\ projectLock' = e
    /\ \/ editor[e].kind \in {"update", "rebind", "index"} /\ editor[e].step = "resolved"
       \/ editor[e].kind \in {"script", "replace"} /\ editor[e].step = "written"
    /\ editor' = [editor EXCEPT ![e].step = "projectLocked", ![e].edits = project.edits,
                                ![e].bound = project.bound]
    /\ UNCHANGED <<project, scripts, scriptLock, landed, astray, editFaults>>

\* The sync of a script binds the episode to it.
BoundBy(e) == IF editor[e].kind = "update" THEN editor[e].bound ELSE editor[e].target

SaveProject(e) ==
    /\ editor[e].step = "projectLocked" /\ projectLock = e
    /\ project' = [edits |-> editor[e].edits \cup {e}, bound |-> BoundBy(e)]
    /\ projectLock' = Nobody
    /\ scriptLock' = [f \in ScriptFiles |-> IF scriptLock[f] = e THEN Nobody ELSE scriptLock[f]]
    /\ Step(e, "done")
    /\ landed' = landed \cup {<<e, "project">>}
                        \cup (IF editor[e].kind \in {"script", "replace"}
                              THEN {<<e, editor[e].target>>} ELSE {})
    /\ UNCHANGED <<scripts, astray, editFaults>>

-----------------------------------------------------------------------------
(* A script: locked_script and save_script, then the index.                *)

\* locked_script reads under the lock; save_script writes what a generation
\* has made of the script, whatever is in it by now.
LockScript(e, kind, f) ==
    /\ editor[e].step = "start" /\ kind \in {"script", "replace"} /\ scriptLock[f] = Nobody
    /\ scriptLock' = [scriptLock EXCEPT ![f] = e]
    /\ editor' = [editor EXCEPT ![e].kind = kind, ![e].step = "scriptLocked", ![e].target = f,
                                ![e].script = IF kind = "script" THEN scripts[f] ELSE {}]
    /\ UNCHANGED <<project, scripts, projectLock, landed, astray, editFaults>>

WriteScriptFile(e) ==
    /\ editor[e].step = "scriptLocked" /\ editor[e].kind \in {"script", "replace"}
    /\ scripts' = [scripts EXCEPT ![editor[e].target] = editor[e].script \cup {e}]
    /\ Step(e, "written")
    /\ landed' = IF editor[e].kind = "replace" THEN {x \in landed : x[2] # editor[e].target}
                 ELSE landed
    /\ UNCHANGED <<project, projectLock, scriptLock, astray, editFaults>>

-----------------------------------------------------------------------------
(* The script of an episode: locked_episode_script.                        *)

\* The binding is read without a lock first, to know which lock to take.
ResolveEpisode(e) ==
    /\ editor[e].step = "start"
    /\ editor' = [editor EXCEPT ![e].kind = "episode", ![e].step = "resolved",
                                ![e].target = project.bound]
    /\ UNCHANGED <<project, scripts, projectLock, scriptLock, landed, astray, editFaults>>

LockEpisodeScript(e) ==
    /\ Holding(e, "episode", "resolved") /\ scriptLock[editor[e].target] = Nobody
    /\ scriptLock' = [scriptLock EXCEPT ![editor[e].target] = e] /\ Step(e, "scriptLocked")
    /\ UNCHANGED <<project, scripts, projectLock, landed, astray, editFaults>>

\* Mutant: the binding is not looked at again.
LockBothTrusting(e) ==
    LET f == editor[e].target IN
    /\ Holding(e, "episode", "scriptLocked") /\ projectLock = Nobody
    /\ editor' = [editor EXCEPT ![e].step = "bothLocked", ![e].edits = project.edits,
                                ![e].bound = project.bound, ![e].script = scripts[f]]
    /\ projectLock' = e
    /\ UNCHANGED <<project, scripts, scriptLock, landed, astray, editFaults>>

\* Then under both; EpisodeScriptReboundError if it is another one.
LockBoth(e) ==
    LET f == editor[e].target IN
    /\ Holding(e, "episode", "scriptLocked") /\ projectLock = Nobody
    /\ IF project.bound = f
       THEN /\ editor' = [editor EXCEPT ![e].step = "bothLocked", ![e].edits = project.edits,
                                        ![e].bound = project.bound, ![e].script = scripts[f]]
            /\ projectLock' = e /\ UNCHANGED scriptLock
       ELSE /\ Step(e, "failed") /\ scriptLock' = [scriptLock EXCEPT ![f] = Nobody]
            /\ UNCHANGED projectLock
    /\ UNCHANGED <<project, scripts, landed, astray, editFaults>>

WriteEpisodeScript(e) ==
    LET f == editor[e].target IN
    /\ Holding(e, "episode", "bothLocked")
    /\ scripts' = [scripts EXCEPT ![f] = editor[e].script \cup {e}]
    /\ astray' = IF project.bound = f THEN astray ELSE astray \cup {e}
    /\ landed' = landed \cup {<<e, f>>} /\ Step(e, "projectLocked")
    /\ UNCHANGED <<project, projectLock, scriptLock, editFaults>>

-----------------------------------------------------------------------------

\* The body raises, a file cannot be read or written, or the process is killed:
\* the locks are free again, what is written stays.
EditFails(e) ==
    /\ editor[e].step \in {"scriptLocked", "bothLocked", "written", "projectLocked"}
    /\ editFaults < MaxEditFaults /\ editFaults' = editFaults + 1 /\ Step(e, "failed")
    /\ projectLock' = IF projectLock = e THEN Nobody ELSE projectLock
    /\ scriptLock' = [f \in ScriptFiles |-> IF scriptLock[f] = e THEN Nobody ELSE scriptLock[f]]
    /\ UNCHANGED <<project, scripts, landed, astray>>

EditorActs(e) ==
    \/ \E kind \in Kinds, f \in ScriptFiles : StartUpdate(e, kind, f) \/ LockScript(e, kind, f)
    \/ LockProject(e) \/ SaveProject(e) \/ WriteScriptFile(e)
    \/ ResolveEpisode(e) \/ LockEpisodeScript(e) \/ LockBoth(e) \/ WriteEpisodeScript(e)
    \/ EditFails(e)

FilesNext == \E e \in Editors : EditorActs(e)
FilesSpec == FilesInit /\ [][FilesNext]_filesVars

-----------------------------------------------------------------------------
(* Properties.                                                             *)

\* The holder of the lock an editor waits for.
WaitsFor(e) ==
    CASE editor[e].step = "resolved" /\ editor[e].kind = "episode" -> scriptLock[editor[e].target]
      [] editor[e].step \in {"resolved", "written"} /\ editor[e].kind # "episode" -> projectLock
      [] Holding(e, "episode", "scriptLocked") -> projectLock
      [] OTHER -> Nobody

\* An edit that was reported as done is in the file, whoever writes the same
\* file at the same time, until the script is generated anew; an edit of an
\* episode has gone to the script the episode was bound to at that time; and
\* whoever waits for a lock waits for an editor that waits for nobody, or that
\* waits for one who does not: there is no ring of editors.
NoEditIsLost ==
    /\ \A x \in landed : x[1] \in (IF x[2] = "project" THEN project.edits ELSE scripts[x[2]])
    /\ astray = {}
    /\ \A e \in Editors : WaitsFor(e) # Nobody =>
        WaitsFor(WaitsFor(e)) = Nobody \/ WaitsFor(WaitsFor(WaitsFor(e))) = Nobody
=============================================================================
