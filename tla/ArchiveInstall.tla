--------------------------- MODULE ArchiveInstall ---------------------------
(***************************************************************************)
(* How a project directory comes to be and goes: an archive is installed   *)
(* (server/services/project_archive.py), a project is created or deleted.  *)
(* Each request runs in a thread of its own, and there is no lock: what a  *)
(* request found out about the name may be out of date when it uses it.    *)
(*                                                                         *)
(* An archive is checked, repaired and migrated in a staging directory     *)
(* first.  To overwrite, the old directory is put aside under a hidden     *)
(* name, the staging directory moved in, the agent profile synced, and the *)
(* old one deleted last; on an error all is put back.                      *)
(***************************************************************************)
EXTENDS Naturals

CONSTANTS
    Requests,       \* imports and creations
    ProjectNames,
    MaxArchiveFaults, MaxDeletes        \* bounds

ASSUME ArchiveAssumption ==
    /\ {MaxArchiveFaults, MaxDeletes} \subseteq Nat
    /\ "none" \notin Requests /\ "old" \notin Requests

VARIABLES
    dirs,          \* what stands under each name of the projects root
    requests,      \* the requests under way
    aside,         \* the directory a request has put aside
    owned,         \* projects that are complete and that nobody has deleted or
                   \* asked to overwrite (history)
    outgoing,      \* projects somebody has asked to overwrite (history)
    doomed,        \* projects that could not be put aside to overwrite them, which
                   \* the error's handler deletes (history)
    overlap,       \* two requests were at work on one name (history)
    crashed,       \* the server was killed while one was at work (history)
    archiveFaults, deletes

archiveVars == <<dirs, requests, aside, owned, outgoing, doomed, overlap, crashed,
                 archiveFaults, deletes>>

\* A directory holds the project of a request, the whole of it or a part, and
\* possibly another one that was moved into it.
Dir(project, whole) == [project |-> project, whole |-> whole]
NoDir == [project |-> "none", whole |-> FALSE]
DirStates == {NoDir} \cup [project : Requests \cup {"old"}, whole : BOOLEAN]
Idle == [step |-> "idle", name |-> "none", policy |-> "none"]

Steps == {"resolved", "clear", "moving", "moved", "installed", "failed"}
Policies == {"create", "prompt", "rename", "overwrite"}

ArchiveTypeOK ==
    /\ dirs \in [ProjectNames -> DirStates] /\ aside \in [Requests -> DirStates]
    /\ requests \in [Requests ->
         {Idle} \cup [step : Steps, name : ProjectNames, policy : Policies]]
    /\ {owned, outgoing, doomed} \subseteq SUBSET (Requests \cup {"old"}) /\ {overlap, crashed} \subseteq BOOLEAN
    /\ archiveFaults \in 0..MaxArchiveFaults /\ deletes \in 0..MaxDeletes

ArchiveInit ==
    /\ \E n \in ProjectNames :
        dirs = [m \in ProjectNames |-> IF m = n THEN Dir("old", TRUE) ELSE NoDir]
    /\ requests = [r \in Requests |-> Idle] /\ aside = [r \in Requests |-> NoDir]
    /\ owned = {"old"} /\ outgoing = {} /\ doomed = {}
    /\ overlap = FALSE /\ crashed = FALSE /\ archiveFaults = 0 /\ deletes = 0

Exists(n) == dirs[n] # NoDir
IsAt(r, step) == requests[r].step = step
Name(r) == requests[r].name
Go(r, step) == requests' = [requests EXCEPT ![r].step = step]
Put(n, dir) == dirs' = [dirs EXCEPT ![n] = dir]
Busy(n) == \E r \in Requests : requests[r] # Idle /\ Name(r) = n
Stumble == archiveFaults < MaxArchiveFaults /\ archiveFaults' = archiveFaults + 1

-----------------------------------------------------------------------------

\* A project has the name of its request, which is used again when no copy of
\* it is left, unless it is in `doomed` (bound).
Fresh(r) ==
    /\ requests[r] = Idle /\ aside[r] = NoDir /\ r \notin doomed
    /\ \A m \in ProjectNames : dirs[m].project # r
    /\ \A q \in Requests : aside[q].project # r

\* _resolve_conflict, and create_project's own test.  rename takes a name that
\* is free; overwrite makes the project that stands there fair game.
Resolve(r, n, policy) ==
    /\ Fresh(r)
    /\ Exists(n) => policy = "overwrite"
    /\ requests' = [requests EXCEPT ![r] = [step |-> "resolved", name |-> n, policy |-> policy]]
    /\ overlap' = (overlap \/ Busy(n))
    /\ IF policy = "overwrite" /\ dirs[n].project \in owned
       THEN owned' = owned \ {dirs[n].project} /\ outgoing' = outgoing \cup {dirs[n].project}
       ELSE UNCHANGED <<owned, outgoing>>
    /\ UNCHANGED <<dirs, aside, doomed, crashed, archiveFaults, deletes>>

\* To overwrite it, the directory is put aside.
PutAside(r) ==
    /\ IsAt(r, "resolved") /\ Go(r, "clear")
    /\ IF requests[r].policy = "overwrite" /\ Exists(Name(r))
       THEN aside' = [aside EXCEPT ![r] = dirs[Name(r)]] /\ Put(Name(r), NoDir)
       ELSE UNCHANGED <<dirs, aside>>
    /\ UNCHANGED <<owned, outgoing, doomed, overlap, crashed, archiveFaults, deletes>>

\* shutil.move copies when the staging directory is on another file system, and
\* moves into the directory if one is there by then; mkdir(exist_ok) of a
\* creation fills a directory that is there.
BeginMove(r) ==
    /\ IsAt(r, "clear") /\ Go(r, "moving")
    /\ IF Exists(Name(r)) THEN UNCHANGED dirs ELSE Put(Name(r), Dir(r, FALSE))
    /\ UNCHANGED <<aside, owned, outgoing, doomed, overlap, crashed, archiveFaults, deletes>>

\* Mutant: the old project goes before the new one is complete.
EndMoveDropping(r) ==
    /\ IsAt(r, "moving") /\ Go(r, "moved")
    /\ IF dirs[Name(r)].project = r THEN Put(Name(r), Dir(r, TRUE)) ELSE UNCHANGED dirs
    /\ aside' = [aside EXCEPT ![r] = NoDir]
    /\ UNCHANGED <<owned, outgoing, doomed, overlap, crashed, archiveFaults, deletes>>

EndMove(r) ==
    /\ IsAt(r, "moving") /\ Go(r, "moved")
    /\ IF dirs[Name(r)].project = r THEN Put(Name(r), Dir(r, TRUE)) ELSE UNCHANGED dirs
    /\ UNCHANGED <<aside, owned, outgoing, doomed, overlap, crashed, archiveFaults, deletes>>

SyncProfile(r) ==
    /\ IsAt(r, "moved") /\ Go(r, "installed")
    /\ UNCHANGED <<dirs, aside, owned, outgoing, doomed, overlap, crashed, archiveFaults, deletes>>

\* Any error of the put-aside, the move or the sync; a creation only puts back
\* what it has begun.  The put-aside is in the same `try`: when it is what fails,
\* the old project is still under its name, and the handler deletes it.
InstallFails(r) ==
    /\ requests[r].step \in {"resolved", "clear", "moving", "moved"} /\ Stumble /\ Go(r, "failed")
    /\ IsAt(r, "clear") => requests[r].policy # "create"
    /\ IsAt(r, "resolved") => requests[r].policy = "overwrite" /\ Exists(Name(r))
    /\ doomed' = IF IsAt(r, "resolved") THEN doomed \cup {dirs[Name(r)].project} ELSE doomed
    /\ UNCHANGED <<dirs, aside, owned, outgoing, overlap, crashed, deletes>>

\* Whatever stands under the name is deleted, and what was put aside comes back.
PutBack(r) ==
    /\ IsAt(r, "failed") /\ Put(Name(r), aside[r])
    /\ aside' = [aside EXCEPT ![r] = NoDir]
    /\ requests' = [requests EXCEPT ![r] = Idle]
    /\ UNCHANGED <<owned, outgoing, doomed, overlap, crashed, archiveFaults, deletes>>

\* The request is answered; from now on the project is its user's.
DropAside(r) ==
    /\ IsAt(r, "installed")
    /\ aside' = [aside EXCEPT ![r] = NoDir]
    /\ requests' = [requests EXCEPT ![r] = Idle]
    /\ owned' = owned \cup {r} /\ outgoing' = outgoing \ {aside[r].project}
    /\ UNCHANGED <<dirs, doomed, overlap, crashed, archiveFaults, deletes>>

DeleteProject(n) ==
    /\ Exists(n) /\ deletes < MaxDeletes /\ deletes' = deletes + 1
    /\ Put(n, NoDir)
    /\ owned' = owned \ {dirs[n].project} /\ outgoing' = outgoing \ {dirs[n].project}
    /\ overlap' = (overlap \/ Busy(n))
    /\ UNCHANGED <<requests, aside, doomed, crashed, archiveFaults>>

\* The directories put aside stay under their hidden names.
CrashServer ==
    /\ Stumble /\ requests' = [r \in Requests |-> Idle] /\ crashed' = TRUE
    /\ UNCHANGED <<dirs, aside, owned, outgoing, doomed, overlap, deletes>>

ArchiveNext ==
    \/ \E r \in Requests, n \in ProjectNames, policy \in Policies : Resolve(r, n, policy)
    \/ \E r \in Requests :
        PutAside(r) \/ BeginMove(r) \/ EndMove(r) \/ SyncProfile(r) \/ InstallFails(r)
        \/ PutBack(r) \/ DropAside(r)
    \/ \E n \in ProjectNames : DeleteProject(n)
    \/ CrashServer

ArchiveSpec == ArchiveInit /\ [][ArchiveNext]_archiveVars

-----------------------------------------------------------------------------
(* Properties.                                                             *)

\* A whole copy of a project is somewhere.
Kept(p) ==
    \/ \E n \in ProjectNames : dirs[n] = Dir(p, TRUE)
    \/ \E r \in Requests : aside[r] = Dir(p, TRUE)

\* As long as no two requests are at work on one name: a project that is its
\* user's stands under its name; of one that is being overwritten a whole copy
\* is kept until the new one is complete, through any error or crash; and no
\* error leaves half a project behind.  One error the code does not survive is
\* excepted: a failing put-aside deletes the old project (`doomed`).
InstallKeepsOne ==
    ~overlap =>
        /\ \A p \in owned : \E n \in ProjectNames : dirs[n] = Dir(p, TRUE)
        /\ \A p \in outgoing \ doomed : Kept(p)
        /\ \A n \in ProjectNames : Exists(n) /\ ~Busy(n) => dirs[n].whole \/ crashed
=============================================================================
