----------------------------- MODULE ProfileSync -----------------------------
(***************************************************************************)
(* lib/profile_manifest.py: the built-in agent files of a release (the     *)
(* profile) are brought into a project, next to what its user has changed, *)
(* added or deleted there.  The manifest remembers the hash each file was  *)
(* delivered with, and the files that were deleted (tombstones).           *)
(*                                                                         *)
(* A sync holds the project's lock, but the user and the agent do not: a   *)
(* file may change between the listing, the hash and the copy.  Files are  *)
(* written one by one, the manifest last and atomically.                   *)
(***************************************************************************)
EXTENDS Naturals

CONSTANTS
    Files,
    Releases,      \* contents of a built-in file
    MaxDeploys, MaxUserActs, MaxSyncFaults, MaxSyncs     \* bounds

Contents == Releases \cup {"user", "torn"}      \* what a file may hold
ASSUME SyncAssumption ==
    /\ Releases \cap {"none", "tombstone", "user", "torn"} = {} /\ "none" \notin Files
    /\ {MaxDeploys, MaxUserActs, MaxSyncFaults, MaxSyncs} \subseteq Nat

VARIABLES
    profile,       \* the files of the release, for the project's content mode
    dest,          \* the files of the project
    manifest,      \* the manifest on disk: "none", "tombstone" or a hash
    trusted,       \* load_manifest accepts it, and it is of this content mode
    mode,          \* what the holder of the lock is doing
    todo,          \* files it has still to look at
    listed,        \* dest_files
    hashed,        \* the file under way and what it looked like
    entries,       \* the manifest in memory
    touched,       \* files the user has edited, added or deleted (history)
    gone,          \* delivered files the user has deleted (history)
    hurt,          \* files a crash or an error met half-way (history)
    retired,       \* files a release has once taken back (history)
    settledSync,      \* nothing has changed since the last complete sync
    deploys, userActs, syncFaults, syncs

syncWork == <<mode, todo, listed, hashed, entries>>
history  == <<touched, gone, hurt, retired>>
budget   == <<deploys, userActs, syncFaults, syncs>>
syncVars == <<profile, dest, manifest, trusted, syncWork, history, settledSync, budget>>

NoHash == [file |-> "none", hash |-> "none"]
Entry == Releases \cup {"none", "tombstone"}

SyncTypeOK ==
    /\ profile \in [Files -> Releases \cup {"none"}]
    /\ dest \in [Files -> Contents \cup {"none"}]
    /\ {manifest, entries} \subseteq [Files -> Entry]
    /\ {trusted, settledSync} \subseteq BOOLEAN
    /\ mode \in {"idle", "sync", "reset", "force"}
    /\ {todo, listed, touched, gone, hurt, retired} \subseteq SUBSET Files
    /\ hashed = NoHash \/ hashed \in [file : Files, hash : Contents \cup {"none"}]
    /\ deploys \in 0..MaxDeploys /\ userActs \in 0..MaxUserActs
    /\ syncFaults \in 0..MaxSyncFaults /\ syncs \in 0..MaxSyncs

Empty == [f \in Files |-> "none"]
SyncInit ==
    /\ profile \in [Files -> Releases \cup {"none"}] /\ dest = Empty
    /\ manifest = Empty /\ trusted = FALSE
    /\ mode = "idle" /\ todo = {} /\ listed = {} /\ hashed = NoHash /\ entries = Empty
    /\ touched = {} /\ gone = {} /\ hurt = {} /\ retired = {} /\ settledSync = FALSE
    /\ deploys = 0 /\ userActs = 0 /\ syncFaults = 0 /\ syncs = 0

Spend(counter, max) == counter < max /\ counter' = counter + 1

-----------------------------------------------------------------------------
(* Around the sync: a new release (with a restart), the user, a manifest   *)
(* that is lost, damaged, or of another content mode.                      *)

Deploy(f, r) ==
    /\ mode = "idle" /\ Spend(deploys, MaxDeploys)
    /\ r # profile[f] /\ profile' = [profile EXCEPT ![f] = r]
    /\ retired' = IF r = "none" THEN retired \cup {f} ELSE retired
    /\ settledSync' = FALSE
    /\ UNCHANGED <<dest, manifest, trusted, syncWork, touched, gone, hurt, userActs,
                   syncFaults, syncs>>

\* A file that is deleted while a sync is at work may come back with it.
UserChanges(f, c) ==
    /\ Spend(userActs, MaxUserActs) /\ c # dest[f]
    /\ dest' = [dest EXCEPT ![f] = c] /\ touched' = touched \cup {f}
    /\ gone' = IF c # "none" THEN gone \ {f}
               ELSE IF mode = "idle" /\ trusted /\ manifest[f] \in Releases
               THEN gone \cup {f} ELSE gone
    /\ settledSync' = FALSE
    /\ UNCHANGED <<profile, manifest, trusted, syncWork, hurt, retired, deploys,
                   syncFaults, syncs>>

LoseManifest ==
    /\ mode = "idle" /\ trusted /\ Spend(syncFaults, MaxSyncFaults)
    /\ trusted' = FALSE /\ gone' = {} /\ settledSync' = FALSE
    /\ UNCHANGED <<profile, dest, manifest, syncWork, touched, hurt, retired, deploys,
                   userActs, syncs>>

-----------------------------------------------------------------------------
(* sync_profile_to_project and force_resync_profile.                       *)

\* Everything of the project's is wiped first; what the user had is lost.
Begin(m, files) ==
    /\ mode = "idle" /\ Spend(syncs, MaxSyncs)
    /\ mode' = m /\ todo' = files /\ hashed' = NoHash
    /\ listed' = {f \in Files : dest[f] # "none"}
    /\ entries' = IF trusted /\ m # "reset" THEN manifest ELSE Empty
    /\ dest' = IF m = "reset" THEN Empty ELSE dest
    /\ settledSync' = FALSE
    /\ UNCHANGED <<profile, manifest, trusted, deploys, userActs, syncFaults>>

BeginSync ==
    /\ Begin(IF trusted THEN "sync" ELSE "reset", Files)
    /\ IF trusted THEN UNCHANGED history
       ELSE touched' = {} /\ hurt' = {} /\ retired' = {} /\ UNCHANGED gone

\* All paths, or the paths of a button; with a manifest that is lost only the
\* latter keeps the other files.
BeginForce(files) ==
    /\ Begin(IF ~trusted /\ files = Files THEN "reset" ELSE "force", files)
    /\ hurt' = IF trusted THEN hurt ELSE hurt \cup (Files \ files)
    /\ UNCHANGED <<touched, gone, retired>>

Hash(f) ==
    /\ mode # "idle" /\ hashed = NoHash /\ f \in todo
    /\ hashed' = [file |-> f, hash |-> IF f \in listed THEN dest[f] ELSE "none"]
    /\ todo' = todo \ {f}
    /\ UNCHANGED <<profile, dest, manifest, trusted, mode, listed, entries, history,
                   settledSync, budget>>

\* The decision table: what is done to the file, and its new entry.
Do(what, entry) == [what |-> what, entry |-> entry]

\* Mutant: a missing file is delivered again as long as it has no tombstone.
DecisionForgiving(p, d, m) ==
    IF d = "none"
    THEN IF p # "none" /\ m # "tombstone" THEN Do("copy", p)
         ELSE IF m = "none" THEN Do("keep", "none") ELSE Do("keep", "tombstone")
    ELSE IF p = "none"
    THEN IF d = m THEN Do("delete", "tombstone") ELSE Do("keep", "none")
    ELSE IF m = "tombstone" THEN Do("keep", "none")
    ELSE IF d = p THEN Do("keep", p)
    ELSE IF d = m THEN Do("copy", p) ELSE Do("keep", m)

\* In the order of p: delivered by nobody yet (#1) or missing (#2, #11, #13,
\* #14), taken back by the release (#7, #8, #9, #12), on both sides (#3 to #6,
\* #10, #15).
Decision(p, d, m) ==
    IF d = "none"
    THEN IF p # "none" /\ m = "none" THEN Do("copy", p)
         ELSE IF m = "none" THEN Do("keep", "none") ELSE Do("keep", "tombstone")
    ELSE IF p = "none"
    THEN IF d = m THEN Do("delete", "tombstone") ELSE Do("keep", "none")
    ELSE IF m = "tombstone" THEN Do("keep", "none")
    ELSE IF d = p THEN Do("keep", p)
    ELSE IF d = m THEN Do("copy", p) ELSE Do("keep", m)

\* A forced file, and each file of a reset, is copied if the release has it.
Chosen(f) ==
    IF mode = "sync" THEN Decision(profile[f], hashed.hash, entries[f])
    ELSE IF profile[f] # "none" THEN Do("copy", profile[f])
    ELSE Do("keep", entries[f])

\* A listed file that has gone since then cannot be hashed: an OSError.
Vanished == mode = "sync" /\ hashed.file \in listed /\ hashed.hash = "none"

Apply ==
    LET f == hashed.file
        c == Chosen(f)
    IN  /\ hashed # NoHash /\ hashed' = NoHash
        /\ IF Vanished THEN UNCHANGED <<dest, entries>>
           ELSE /\ entries' = [entries EXCEPT ![f] = c.entry]
                /\ dest' = IF c.what = "keep" THEN dest
                           ELSE [dest EXCEPT ![f] = IF c.what = "copy" THEN profile[f] ELSE "none"]
        /\ IF Vanished THEN hurt' = hurt \cup {f} /\ UNCHANGED <<touched, gone, retired>>
           ELSE IF mode = "force" /\ c.what = "copy"
           THEN /\ touched' = touched \ {f} /\ gone' = gone \ {f}
                /\ hurt' = hurt \ {f} /\ retired' = retired \ {f}
           ELSE UNCHANGED history
        /\ UNCHANGED <<profile, manifest, trusted, mode, todo, listed, settledSync, budget>>

\* copy2 is not atomic: a full disk leaves a part of the file, and no entry.
CopyFails ==
    LET f == hashed.file IN
    /\ hashed # NoHash /\ Spend(syncFaults, MaxSyncFaults) /\ hashed' = NoHash
    /\ Chosen(f).what = "copy" /\ ~Vanished
    /\ dest' \in {dest, [dest EXCEPT ![f] = "torn"]}
    /\ hurt' = hurt \cup {f}
    /\ gone' = IF mode = "force" THEN gone \ {f} ELSE gone
    /\ UNCHANGED <<profile, manifest, trusted, mode, todo, listed, entries, touched,
                   retired, settledSync, deploys, userActs, syncs>>

SaveManifest ==
    /\ mode # "idle" /\ todo = {} /\ hashed = NoHash
    /\ mode' = "idle" /\ listed' = {} /\ entries' = Empty
    /\ manifest' = entries /\ trusted' = TRUE
    /\ settledSync' = (mode # "force")
    /\ UNCHANGED <<profile, dest, todo, hashed, history, budget>>

\* The files done so far stay, their entries are lost; the copy under way may
\* be torn.
CrashSync ==
    LET f == hashed.file IN
    /\ mode # "idle" /\ Spend(syncFaults, MaxSyncFaults)
    /\ mode' = "idle" /\ todo' = {} /\ listed' = {} /\ hashed' = NoHash /\ entries' = Empty
    /\ IF hashed # NoHash /\ ~Vanished /\ Chosen(f).what = "copy"
       THEN dest' \in {dest, [dest EXCEPT ![f] = "torn"]} ELSE UNCHANGED dest
    /\ hurt' = hurt \cup (Files \ todo)
    /\ gone' = IF mode = "force" THEN gone \ {f} ELSE gone
    /\ UNCHANGED <<profile, manifest, trusted, touched, retired, settledSync, deploys,
                   userActs, syncs>>

SyncNext ==
    \/ \E f \in Files, r \in Releases \cup {"none"} : Deploy(f, r)
    \/ \E f \in Files, c \in {"user", "none"} : UserChanges(f, c)
    \/ LoseManifest \/ BeginSync
    \/ \E files \in SUBSET Files : files # {} /\ BeginForce(files)
    \/ \E f \in Files : Hash(f)
    \/ Apply \/ CopyFails \/ SaveManifest \/ CrashSync

SyncSpec == SyncInit /\ [][SyncNext]_syncVars

-----------------------------------------------------------------------------
(* Properties.                                                             *)

\* After a complete sync a project is at its release: every file the user has
\* never touched holds what the release has, through any sequence of upgrades
\* and rollbacks, unless an error or a crash met the file half-way or a release
\* had once taken it back.  And a delivered file that the user has deleted
\* stays deleted.
SyncKeepsItsWord ==
    /\ settledSync => \A f \in Files \ (touched \cup hurt \cup retired) : dest[f] = profile[f]
    /\ \A f \in gone : dest[f] = "none"
=============================================================================
