------------------------ MODULE ProviderCredentials ------------------------
(***************************************************************************)
(* The credentials of one provider and the backend the worker has built    *)
(* from them.  A provider has several credentials and at most one of them  *)
(* is active: a partial unique index says so.  Each request reads a row,   *)
(* then writes and commits, then empties the cache of backends, and what   *)
(* it decides on what it read may have changed by the time it writes.  The *)
(* statements from the first write to the commit are one step: SQLite, the *)
(* default database, locks out other writers meanwhile.  SQLite also gives *)
(* the id of a deleted last row to the next one, and a key file is named   *)
(* by the id.                                                              *)
(*                                                                         *)
(* A secret, typed in or uploaded, is the number of the request that       *)
(* brought it.                                                             *)
(***************************************************************************)
EXTENDS Naturals, Sequences, FiniteSets, SequencesExt

CONSTANTS
    CredRequests, Builds,      \* requests under way at once; tasks that need the backend
    NoBackend,
    MaxCreds, MaxCredRequests, MaxBuilds    \* bounds

ASSUME CredentialsAssumption == {MaxCreds, MaxCredRequests, MaxBuilds} \subseteq Nat

VARIABLES
    creds,         \* the rows of the provider, the oldest first
    keyFiles,      \* vertex_keys/vertex_cred_<id>.json: the secret in it, 0 for no file
    credReqs,      \* the requests under way
    backend,       \* the entry of _backend_cache for the provider
    building,      \* the tasks that construct a backend
    asked,         \* how many requests and builds there have been
    raced,         \* no credential is active since a request was outrun (history)
    swept          \* ids whose file went after a new row had the id (history)

credentialVars == <<creds, keyFiles, credReqs, backend, building, asked, raced, swept>>

CredIds == 1..MaxCreds
Secrets == 1..MaxCredRequests
Credential == [id : CredIds, active : BOOLEAN, secret : Secrets, file : BOOLEAN]
CredRequest ==
    [op : {"create", "upload", "update", "delete", "activate"}, at : {"read", "committed", "cleared"},
     id : 0..MaxCreds, was : BOOLEAN, file : BOOLEAN, secret : Secrets, outrun : BOOLEAN]
NoRequest == [op |-> "none"]
NoBuild == [id |-> 0]

CredentialsTypeOK ==
    /\ creds \in Seq(Credential) /\ Len(creds) =< MaxCreds
    /\ keyFiles \in [CredIds -> 0..MaxCredRequests]
    /\ \A r \in CredRequests : credReqs[r] = NoRequest \/ credReqs[r] \in CredRequest
    /\ backend = NoBackend \/ backend \in [secret : Secrets, missed : BOOLEAN]
    /\ \A b \in Builds : building[b] = NoBuild
           \/ building[b] \in [id : CredIds, secret : Secrets, file : BOOLEAN, missed : BOOLEAN]
    /\ asked \in [requests : 0..MaxCredRequests, builds : 0..MaxBuilds]
    /\ raced \in BOOLEAN /\ swept \subseteq CredIds

CredentialsInit ==
    /\ creds = <<>> /\ keyFiles = [i \in CredIds |-> 0]
    /\ credReqs = [r \in CredRequests |-> NoRequest]
    /\ backend = NoBackend /\ building = [b \in Builds |-> NoBuild]
    /\ asked = [requests |-> 0, builds |-> 0] /\ raced = FALSE /\ swept = {}

CredRows == ToSet(creds)
RowsOf(rows, id) == {c \in ToSet(rows) : c.id = id}
ActiveOf(rows) == {c \in ToSet(rows) : c.active}
Without(rows, id) ==
    IF RowsOf(rows, id) = {} THEN rows
    ELSE RemoveAt(rows, CHOOSE i \in DOMAIN rows : rows[i].id = id)
FreeId == Max({c.id : c \in CredRows} \cup {0}) + 1

(* A request has read: the row it is about, or whether one is active.      *)
Reads(r, op, id, was, file) ==
    /\ credReqs[r] = NoRequest /\ asked.requests < MaxCredRequests
    /\ asked' = [asked EXCEPT !.requests = @ + 1]
    /\ credReqs' = [credReqs EXCEPT ![r] =
           [op |-> op, at |-> "read", id |-> id, was |-> was, file |-> file,
            secret |-> asked.requests + 1, outrun |-> FALSE]]
    /\ UNCHANGED <<creds, keyFiles, backend, building, raced, swept>>

ReadForCreate(r) ==
    \E op \in {"create", "upload"} : Reads(r, op, 0, ActiveOf(creds) # {}, op = "upload")

ReadForChange(r) ==
    \E op \in {"update", "delete", "activate"}, c \in CredRows : Reads(r, op, c.id, c.active, c.file)

(* The rows after the write of a request, by what it read.  A typed secret *)
(* does not count for a credential that has a key file.                    *)
Created(q) == Append(creds, [id |-> FreeId, active |-> ~q.was, secret |-> q.secret, file |-> q.file])

Updated(q) == [i \in DOMAIN creds |->
    IF creds[i].id = q.id /\ ~creds[i].file THEN [creds[i] EXCEPT !.secret = q.secret] ELSE creds[i]]

Activated(q) == [i \in DOMAIN creds |-> [creds[i] EXCEPT !.active = creds[i].id = q.id]]

PromotedAfter(q) ==
    LET rest == Without(creds, q.id)
    IN  IF q.was /\ rest # <<>> THEN [rest EXCEPT ![1].active = TRUE] ELSE rest

Written(q) ==
    CASE q.op \in {"create", "upload"} -> Created(q)
      [] q.op = "update" -> Updated(q)
      [] q.op = "delete" -> PromotedAfter(q)
      [] q.op = "activate" -> Activated(q)

\* Mutant: each request empties it as an update does.
InvalidatesWhatItSawActive(q) == q.was

(* The cache is emptied, except by the update of a row that was read       *)
(* inactive.                                                               *)
Invalidates(q) == q.op # "update" \/ q.was

OneActiveIn(rows) == Cardinality(ActiveOf(rows)) =< 1

OutrunBy(r, q) ==
    [s \in CredRequests |->
        IF s = r THEN q
        ELSE IF credReqs[s] # NoRequest /\ credReqs[s].at = "read" THEN [credReqs[s] EXCEPT !.outrun = TRUE]
        ELSE credReqs[s]]

(* The constructions under way go on with what they have read.             *)
AllMiss ==
    [b \in Builds |-> IF building[b] = NoBuild THEN NoBuild ELSE [building[b] EXCEPT !.missed = TRUE]]

WriteAndCommit(r) ==
    LET q == credReqs[r]
        rows == Written(q)
        unserved == rows # <<>> /\ ActiveOf(rows) = {}
        hushed == q.op = "update" /\ ~q.was /\ \E c \in RowsOf(rows, q.id) : c.active
    IN  /\ q # NoRequest /\ q.at = "read"
        /\ q.op \in {"create", "upload"} => FreeId \in CredIds
        /\ OneActiveIn(rows)
        /\ creds' = rows
        /\ keyFiles' = IF q.op = "upload" THEN [keyFiles EXCEPT ![FreeId] = q.secret] ELSE keyFiles
        /\ credReqs' = OutrunBy(r, IF Invalidates(q) THEN [q EXCEPT !.at = "committed"] ELSE NoRequest)
        /\ raced' = (unserved /\ (raced \/ q.outrun))
        /\ swept' = {id \in swept : RowsOf(rows, id) # {}}
        /\ backend' = IF hushed /\ backend # NoBackend THEN [backend EXCEPT !.missed = TRUE] ELSE backend
        /\ building' = IF hushed THEN AllMiss ELSE building
        /\ UNCHANGED asked

(* A second active row is refused by the index and the request fails.      *)
RefusedByIndex(r) ==
    LET q == credReqs[r]
    IN  /\ q # NoRequest /\ q.at = "read" /\ ~OneActiveIn(Written(q))
        /\ credReqs' = [credReqs EXCEPT ![r] = NoRequest]
        /\ UNCHANGED <<creds, keyFiles, backend, building, asked, raced, swept>>

InvalidateBackends(r) ==
    LET q == credReqs[r]
    IN  /\ q # NoRequest /\ q.at = "committed"
        /\ backend' = NoBackend
        /\ building' = AllMiss
        /\ credReqs' = [credReqs EXCEPT ![r] =
               IF q.op = "delete" /\ q.file THEN [q EXCEPT !.at = "cleared"] ELSE NoRequest]
        /\ UNCHANGED <<creds, keyFiles, asked, raced, swept>>

(* After the limits of the worker have been read again.                    *)
UnlinkKeyFile(r) ==
    LET q == credReqs[r]
    IN  /\ q # NoRequest /\ q.at = "cleared"
        /\ keyFiles' = [keyFiles EXCEPT ![q.id] = 0]
        /\ swept' = swept \cup {c.id : c \in {d \in RowsOf(creds, q.id) : d.file}}
        /\ credReqs' = [credReqs EXCEPT ![r] = NoRequest]
        /\ UNCHANGED <<creds, backend, building, asked, raced>>

(* A task finds no backend and reads the active credential ...             *)
LookForBackend(b) ==
    /\ building[b] = NoBuild /\ backend = NoBackend /\ asked.builds < MaxBuilds
    /\ \E c \in ActiveOf(creds) :
           building' = [building EXCEPT ![b] =
               [id |-> c.id, secret |-> c.secret, file |-> c.file, missed |-> FALSE]]
    /\ asked' = [asked EXCEPT !.builds = @ + 1]
    /\ UNCHANGED <<creds, keyFiles, credReqs, backend, raced, swept>>

(* ... and constructs and keeps the backend, or fails for want of the file. *)
KeepBackend(b) ==
    LET c == building[b]
        secret == IF c.file THEN keyFiles[c.id] ELSE c.secret
    IN  /\ c # NoBuild
        /\ backend' = IF secret = 0 THEN backend ELSE [secret |-> secret, missed |-> c.missed]
        /\ building' = [building EXCEPT ![b] = NoBuild]
        /\ UNCHANGED <<creds, keyFiles, credReqs, asked, raced, swept>>

CredentialsNext ==
    \/ \E r \in CredRequests :
           \/ ReadForCreate(r) \/ ReadForChange(r) \/ WriteAndCommit(r) \/ RefusedByIndex(r)
           \/ InvalidateBackends(r) \/ UnlinkKeyFile(r)
    \/ \E b \in Builds : LookForBackend(b) \/ KeepBackend(b)

CredentialsSpec == CredentialsInit /\ [][CredentialsNext]_credentialVars

-----------------------------------------------------------------------------
Announced == \A r \in CredRequests : credReqs[r] # NoRequest => credReqs[r].at # "committed"

(***************************************************************************)
(* A provider that has credentials has one active, the file of each        *)
(* credential that has one is there with the secret it was uploaded with,  *)
(* and once every request has emptied the cache the backend that tasks     *)
(* find is made from the active credential as it is now.  The code falls   *)
(* short of this in four races only: a request that another outran between *)
(* its read and its write may leave none active (it activates a row that   *)
(* is gone by then, say); the update of a credential that was activated after *)
(* it was read does not empty the cache; a construction under way while    *)
(* the cache is emptied keeps what it had read; and a deletion that has    *)
(* still to remove the file removes that of an upload which got its id.    *)
(***************************************************************************)
ActiveIsUsed ==
    /\ creds # <<>> => ActiveOf(creds) # {} \/ raced
    /\ \A c \in CredRows : c.file => keyFiles[c.id] = c.secret \/ c.id \in swept
    /\ backend # NoBackend /\ Announced =>
           backend.missed \/ \E c \in ActiveOf(creds) : backend.secret = c.secret
=============================================================================
