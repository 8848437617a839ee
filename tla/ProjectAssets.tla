--------------------------- MODULE ProjectAssets ---------------------------
(***************************************************************************)
(* The assets of a project (characters, scenes, props, products), their    *)
(* files, and the library of assets that projects share.  An entry of      *)
(* project.json names its picture; the picture is put on the disk first    *)
(* and the entry is changed afterwards, under the project's lock, by       *)
(* uploads, by the tasks that draw a picture, by restores of a version and *)
(* by copies from the library.  A row of the library owns one file, which  *)
(* is saved before the row is written and removed after.                   *)
(*                                                                         *)
(* A picture is named by the request that brought it, and so is a row or a *)
(* file of the library.  A path is the asset it belongs to, its place and  *)
(* its suffix.                                                             *)
(***************************************************************************)
EXTENDS Naturals, Sequences, FiniteSets, TLC, SequencesExt

CONSTANTS
    Assets,            \* <<type, name>>
    FirstFreeName,     \* for an asset, the names "name (2)", "name (3)", ... in their order
    AssetRequests, FirstRow,
    AssetOps,          \* the kinds of request that are made
    MaxAssetVersions, MaxAssetFaults, MaxAssetEdits     \* bounds

VersionPlaces == <<"version1", "version2", "version3", "version4">>
OriginalPlaces == <<"original1", "original2", "original3">>

ASSUME AssetsAssumption ==
    /\ Assets \subseteq {"character", "scene", "prop", "product", "storyboard"} \X STRING
    /\ \A a \in Assets : FirstFreeName[a] \in Seq({b \in Assets : b[1] = a[1]})
    /\ FirstRow \notin AssetRequests /\ "none" \notin AssetRequests \cup {FirstRow}
    /\ MaxAssetVersions \in 0..Len(VersionPlaces) /\ {MaxAssetFaults, MaxAssetEdits} \subseteq Nat

VARIABLES
    entries,     \* project.json: asset -> [sheet, ref, extra, described]
    disk,        \* path -> picture
    hist,        \* versions.json: asset -> [listed, current]
    rows,        \* the library: row -> [asset, image]
    shelf,       \* _global_assets: file -> [of, ext]
    work,        \* the requests under way
    tally,       \* failing calls and single edits so far (bound)
    settled,     \* pictures of requests that have ended well (history)
    stale,       \* pictures that a later request has replaced (history)
    rowless,     \* library files that a failing or an overlapping request has left without a row (history)
    lost,        \* files that somebody has removed by hand (history)
    torn         \* library files that a failing request has removed from under their row (history)

libraryVars == <<rows, shelf, rowless, torn>>
historyVars == <<settled, stale, lost>>
assetVars == <<entries, disk, hist, rows, shelf, work, tally, settled, stale, rowless, lost, torn>>

TypeOf(a) == a[1]
Shareable == {a \in Assets : TypeOf(a) \in {"character", "scene", "prop"}}
Exts == {"png", "jpg"}
Places == {"sheet", "ref"} \cup ToSet(VersionPlaces) \cup ToSet(OriginalPlaces)
NoPath == <<>>
NoRow == "none"
Pictures == AssetRequests \cup {FirstRow}
Paths == Assets \X Places \X Exts

Png(a) == <<a, "sheet", "png">>
VersionPath(a, n) == <<a, VersionPlaces[n], "png">>
OnDisk(p) == p \in DOMAIN disk
Plus(f, i, v) == [j \in DOMAIN f \cup {i} |-> IF j = i THEN v ELSE f[j]]
Drop(f, i) == [j \in DOMAIN f \ {i} |-> f[j]]
Registered(a) == a \in DOMAIN entries
NewEntry(described) == [sheet |-> NoPath, ref |-> NoPath, extra |-> {}, described |-> described]

Entry == [sheet : Paths \cup {NoPath}, ref : Paths \cup {NoPath}, extra : SUBSET Paths, described : BOOLEAN]
Row == [asset : Shareable, image : Pictures \cup {NoRow}]
ShelfFile == [of : Pictures, ext : Exts]
Unused == [op |-> "none", at |-> "unused"]
Request ==
    [op : {"upload", "original", "design", "restore", "create", "remove", "replace", "share", "apply"},
     at : {"begun", "saved", "committed", "ended", "failed"},
     asset : Assets, path : Paths \cup {NoPath}, row : Pictures \cup {NoRow}, was : Pictures \cup {NoRow},
     of : Pictures, before : SUBSET Pictures]

AssetsTypeOK ==
    /\ DOMAIN entries \subseteq Assets /\ \A a \in DOMAIN entries : entries[a] \in Entry
    /\ DOMAIN disk \subseteq Paths /\ \A p \in DOMAIN disk : disk[p] \in Pictures
    /\ hist \in [Assets -> [listed : SUBSET (1..MaxAssetVersions), current : 0..MaxAssetVersions]]
    /\ DOMAIN rows \subseteq Pictures /\ \A x \in DOMAIN rows : rows[x] \in Row
    /\ DOMAIN shelf \subseteq Pictures /\ \A f \in DOMAIN shelf : shelf[f] \in ShelfFile
    /\ work \in [AssetRequests -> Request \cup {Unused}]
    /\ tally \in [faults : 0..MaxAssetFaults, edits : 0..MaxAssetEdits]
    /\ {settled, stale} \subseteq [Assets -> SUBSET Pictures]
    /\ rowless \subseteq Pictures /\ torn \subseteq Pictures /\ lost \subseteq Paths

AssetsInit ==
    /\ \E a \in Shareable :
         /\ entries = Plus(<<>>, a, NewEntry(TRUE))
         /\ \/ /\ rows = Plus(<<>>, FirstRow, [asset |-> a, image |-> FirstRow])
               /\ shelf = Plus(<<>>, FirstRow, [of |-> FirstRow, ext |-> "jpg"])
            \/ rows = <<>> /\ shelf = <<>>
    /\ disk = <<>>
    /\ hist = [a \in Assets |-> [listed |-> {}, current |-> 0]]
    /\ work = [r \in AssetRequests |-> Unused]
    /\ tally = [faults |-> 0, edits |-> 0]
    /\ settled = [a \in Assets |-> {}] /\ stale = [a \in Assets |-> {}]
    /\ rowless = {} /\ torn = {} /\ lost = {}

-----------------------------------------------------------------------------
(* Requests of several steps.                                              *)

NewRequest(op, at, a, path, row, was, of) ==
    [op |-> op, at |-> at, asset |-> a, path |-> path, row |-> row, was |-> was, of |-> of,
     before |-> settled[a]]
MayBegin(r, op) == work[r] = Unused /\ op \in AssetOps
Begin(r, op, at, a, path, row, was, of) ==
    /\ MayBegin(r, op)
    /\ work' = [work EXCEPT ![r] = NewRequest(op, at, a, path, row, was, of)]

Is(r, op, at) == work[r].op = op /\ work[r].at = at
Goes(r, at) == work' = [work EXCEPT ![r].at = at]

(* The picture of a request that ends well replaces those that were there  *)
(* when it began; of those that came while it was at work either may stay, *)
(* and it may itself stay with those that are at work now.                 *)
AtWork(r, a) == work[r].at \in {"begun", "saved"} /\ work[r].asset = a
Settles(a, picture, before) ==
    /\ UNCHANGED lost
    /\ settled' = [settled EXCEPT ![a] = @ \cup {picture}]
    /\ stale' = [stale EXCEPT ![a] = ((@ \ (settled[a] \ before)) \cup before) \ {picture}]
Outlives(picture, a, r) == IF AtWork(r, a) THEN [work[r] EXCEPT !.before = @ \ {picture}] ELSE work[r]
Shows(r, q, picture) ==
    work' = [w \in AssetRequests |-> IF w = r THEN q ELSE Outlives(picture, q.asset, w)]

(* An old picture that is put back where it is shown counts from then on,  *)
(* also when the request fails afterwards.                                 *)
PutsBack(r, q) ==
    /\ stale' = [stale EXCEPT ![q.asset] = @ \ {q.of}]
    /\ Shows(r, q, q.of)
    /\ UNCHANGED <<settled, lost>>

Records(r, path, at) ==
    LET q == work[r]
    IN  IF Registered(q.asset)
        THEN /\ entries' = [entries EXCEPT ![q.asset].sheet = path]
             /\ Settles(q.asset, q.of, q.before)
             /\ Shows(r, [q EXCEPT !.at = "ended"], q.of)
        ELSE Goes(r, at) /\ UNCHANGED <<entries, historyVars>>

-----------------------------------------------------------------------------
(* An entry is added, changed or removed in one locked step.               *)

Edits == tally.edits < MaxAssetEdits /\ tally' = [tally EXCEPT !.edits = @ + 1]

AddEntry(a) ==
    /\ Edits /\ ~Registered(a) /\ TypeOf(a) # "storyboard"
    /\ \E described \in BOOLEAN : entries' = Plus(entries, a, NewEntry(described))
    /\ UNCHANGED <<disk, hist, work, libraryVars, historyVars>>

(* The assistant's tool: a change that makes the file invalid is refused.  *)
UpsertAssets(a) ==
    /\ Edits /\ TypeOf(a) # "storyboard"
    /\ entries' = IF Registered(a) THEN [entries EXCEPT ![a].described = TRUE]
                  ELSE Plus(entries, a, NewEntry(TRUE))
    /\ UNCHANGED <<disk, hist, work, libraryVars, historyVars>>

(* The page may change the description and the path of the sheet.          *)
UpdateEntry(a) ==
    /\ Edits /\ Registered(a) /\ TypeOf(a) # "storyboard"
    /\ \/ /\ \/ \E described \in BOOLEAN : entries' = [entries EXCEPT ![a].described = described]
             \/ entries' = [entries EXCEPT ![a].sheet = NoPath]
          /\ UNCHANGED <<work, historyVars>>
       \/ \E p \in DOMAIN disk :
            /\ p[2] \in ToSet(VersionPlaces)
            /\ entries' = [entries EXCEPT ![a].sheet = p]
            /\ Settles(a, disk[p], settled[a])
            /\ work' = [w \in AssetRequests |-> Outlives(disk[p], a, w)]
    /\ UNCHANGED <<disk, hist, libraryVars>>

DeleteEntry(a) ==
    /\ Edits /\ Registered(a)
    /\ entries' = Drop(entries, a)
    /\ stale' = [stale EXCEPT ![a] = @ \cup settled[a]]
    /\ UNCHANGED <<disk, hist, work, libraryVars, settled, lost>>

-----------------------------------------------------------------------------
(* Uploads.  A picture of more than two megabytes becomes a JPEG, a        *)
(* smaller one keeps its suffix.                                           *)

BeginUpload(r) ==
    /\ \E a \in Assets, place \in {"sheet", "ref"}, ext \in Exts :
         /\ TypeOf(a) # "storyboard" /\ (place = "ref" => TypeOf(a) = "character")
         /\ Begin(r, "upload", "saved", a, <<a, place, ext>>, NoRow, NoRow, r)
         /\ disk' = Plus(disk, <<a, place, ext>>, r)
    /\ UNCHANGED <<entries, hist, tally, libraryVars, historyVars>>

(* An entry that is not there is passed over.                              *)
RecordUpload(r) ==
    /\ Is(r, "upload", "saved")
    /\ LET q == work[r]
       IN  IF q.path[2] = "sheet" THEN Records(r, q.path, "ended")
           ELSE /\ entries' = IF Registered(q.asset) THEN [entries EXCEPT ![q.asset].ref = q.path] ELSE entries
                /\ Goes(r, "ended")
                /\ UNCHANGED historyVars
    /\ UNCHANGED <<disk, hist, tally, libraryVars>>

(* The pictures of a product are numbered, the next free number is taken.  *)
FreeOriginal(a, ext, n) ==
    /\ ~OnDisk(<<a, OriginalPlaces[n], ext>>)
    /\ \A k \in 1..n - 1 : OnDisk(<<a, OriginalPlaces[k], ext>>)

BeginOriginal(r) ==
    /\ \E a \in DOMAIN entries, ext \in Exts, n \in DOMAIN OriginalPlaces :
         LET p == <<a, OriginalPlaces[n], ext>>
         IN  /\ TypeOf(a) = "product" /\ FreeOriginal(a, ext, n)
             /\ Begin(r, "original", "saved", a, p, NoRow, NoRow, r)
             /\ disk' = Plus(disk, p, r)
    /\ UNCHANGED <<entries, hist, tally, libraryVars, historyVars>>

RecordOriginal(r) ==
    /\ Is(r, "original", "saved")
    /\ LET q == work[r]
       IN  IF Registered(q.asset)
           THEN /\ entries' = [entries EXCEPT ![q.asset].extra = @ \cup {q.path}]
                /\ Goes(r, "ended") /\ UNCHANGED disk
           ELSE /\ disk' = Drop(disk, q.path)
                /\ Goes(r, "failed") /\ UNCHANGED entries
    /\ UNCHANGED <<hist, tally, libraryVars, historyVars>>

-----------------------------------------------------------------------------
(* A task draws the sheet; a version is restored.                          *)

BeginDesign(r) ==
    /\ \E a \in DOMAIN entries : Begin(r, "design", "begun", a, Png(a), NoRow, NoRow, r)
    /\ UNCHANGED <<entries, disk, hist, tally, libraryVars, historyVars>>

NextVersion(a) == Max(hist[a].listed \cup {0}) + 1

(* What is there without a version becomes one before it is replaced.      *)
DrawDesign(r) ==
    /\ Is(r, "design", "begun")
    /\ LET a == work[r].asset
           tracks == hist[a].current = 0 /\ OnDisk(Png(a))
           first == NextVersion(a)
           n == IF tracks THEN first + 1 ELSE first
       IN  /\ n =< MaxAssetVersions
           /\ LET kept == IF tracks THEN Plus(disk, VersionPath(a, first), disk[Png(a)]) ELSE disk
              IN  disk' = Plus(Plus(kept, VersionPath(a, n), r), Png(a), r)
           /\ hist' = [hist EXCEPT ![a] = [listed |-> @.listed \cup (first..n), current |-> n]]
    /\ Goes(r, "saved")
    /\ UNCHANGED <<entries, tally, libraryVars, historyVars>>

(* The task of an entry that has been removed fails.                       *)
RecordDesign(r) ==
    /\ Is(r, "design", "saved")
    /\ Records(r, Png(work[r].asset), "failed")
    /\ UNCHANGED <<disk, hist, tally, libraryVars>>

BeginRestore(r) ==
    /\ MayBegin(r, "restore")
    /\ \E a \in Assets, n \in 1..MaxAssetVersions :
         /\ n \in hist[a].listed /\ OnDisk(VersionPath(a, n))
         /\ LET picture == disk[VersionPath(a, n)]
            IN  /\ PutsBack(r, NewRequest("restore", "saved", a, Png(a), NoRow, NoRow, picture))
                /\ disk' = Plus(disk, Png(a), picture)
         /\ hist' = [hist EXCEPT ![a].current = n]
    /\ UNCHANGED <<entries, tally, libraryVars>>

RecordRestore(r) ==
    /\ Is(r, "restore", "saved")
    /\ Records(r, Png(work[r].asset), "ended")
    /\ UNCHANGED <<disk, hist, tally, libraryVars>>

-----------------------------------------------------------------------------
(* The library.                                                            *)

RowsFor(a) == {x \in DOMAIN rows : rows[x].asset = a}

CreateAsset(r) ==
    /\ \E a \in Shareable, ext \in Exts \cup {NoRow} :
         /\ Begin(r, "create", "saved", a, NoPath, NoRow, NoRow, r)
         /\ shelf' = IF ext = NoRow THEN shelf ELSE Plus(shelf, r, [of |-> r, ext |-> ext])
    /\ UNCHANGED <<entries, disk, hist, tally, rows, rowless, torn, historyVars>>

NewImage(r) == IF r \in DOMAIN shelf THEN r ELSE NoRow

(* A type and a name are one row: a second one is refused, its file goes.  *)
(* What is committed is read once more before the request ends.            *)
InsertRow(r) ==
    IF RowsFor(work[r].asset) # {}
    THEN /\ shelf' = Drop(shelf, r) /\ Goes(r, "failed")
         /\ UNCHANGED <<rows, rowless>>
    ELSE /\ rows' = Plus(rows, r, [asset |-> work[r].asset, image |-> NewImage(r)])
         /\ Goes(r, "committed")
         /\ UNCHANGED <<shelf, rowless>>

\* A variant that leaves the new file behind when the row is gone.
ChangeRowOnly(r) ==
    LET q == work[r]
    IN  IF q.row \in DOMAIN rows
        THEN /\ rows' = [rows EXCEPT ![q.row].image = NewImage(r)]
             /\ rowless' = IF rows[q.row].image # q.was THEN rowless \cup ({rows[q.row].image} \ {NoRow}) ELSE rowless
             /\ Goes(r, "committed")
             /\ UNCHANGED shelf
        ELSE /\ Goes(r, "failed")
             /\ UNCHANGED <<shelf, rows, rowless>>

(* A row has a new picture; the old one is removed in a step of its own.   *)
ChangeRow(r) ==
    LET q == work[r]
    IN  IF q.row \in DOMAIN rows
        THEN /\ rows' = [rows EXCEPT ![q.row].image = NewImage(r)]
             /\ rowless' = IF rows[q.row].image # q.was THEN rowless \cup ({rows[q.row].image} \ {NoRow}) ELSE rowless
             /\ Goes(r, "committed")
             /\ UNCHANGED shelf
        ELSE /\ shelf' = Drop(shelf, r) /\ Goes(r, "failed")
             /\ UNCHANGED <<rows, rowless>>

InsertAsset(r) ==
    /\ Is(r, "create", "saved") /\ InsertRow(r)
    /\ UNCHANGED <<entries, disk, hist, tally, torn, historyVars>>

RenameAsset(x) ==
    /\ Edits /\ x \in DOMAIN rows
    /\ \E a \in Shareable :
         /\ TypeOf(a) = TypeOf(rows[x].asset) /\ RowsFor(a) = {}
         /\ rows' = [rows EXCEPT ![x].asset = a]
    /\ UNCHANGED <<entries, disk, hist, work, shelf, rowless, torn, historyVars>>

(* The file goes before the row does.                                      *)
BeginRemove(r) ==
    /\ \E x \in DOMAIN rows :
         /\ Begin(r, "remove", "saved", rows[x].asset, NoPath, x, rows[x].image, r)
         /\ shelf' = Drop(shelf, rows[x].image)
    /\ UNCHANGED <<entries, disk, hist, tally, rows, rowless, torn, historyVars>>

RemoveRow(r) ==
    /\ Is(r, "remove", "saved")
    /\ LET q == work[r]
       IN  /\ rows' = Drop(rows, q.row)
           /\ rowless' = IF q.row \in DOMAIN rows /\ rows[q.row].image \notin {q.was, NoRow}
                        THEN rowless \cup {rows[q.row].image} ELSE rowless
    /\ Goes(r, "ended")
    /\ UNCHANGED <<entries, disk, hist, tally, shelf, torn, historyVars>>

BeginReplace(r) ==
    /\ \E x \in DOMAIN rows : Begin(r, "replace", "begun", rows[x].asset, NoPath, x, rows[x].image, r)
    /\ UNCHANGED <<entries, disk, hist, tally, libraryVars, historyVars>>

SaveReplacement(r) ==
    /\ Is(r, "replace", "begun")
    /\ \E ext \in Exts : shelf' = Plus(shelf, r, [of |-> r, ext |-> ext])
    /\ Goes(r, "saved")
    /\ UNCHANGED <<entries, disk, hist, tally, rows, rowless, torn, historyVars>>

CommitReplacement(r) ==
    /\ Is(r, "replace", "saved") /\ ChangeRow(r)
    /\ UNCHANGED <<entries, disk, hist, tally, torn, historyVars>>

RemoveReplaced(r) ==
    /\ work[r].at = "committed"
    /\ shelf' = Drop(shelf, work[r].was)
    /\ Goes(r, "ended")
    /\ UNCHANGED <<entries, disk, hist, tally, rows, rowless, torn, historyVars>>

(* An asset of the project is put into the library: the row of its name is *)
(* looked for first and written last.                                      *)
BeginShare(r) ==
    /\ \E a \in DOMAIN entries \cap Shareable :
         LET sheet == entries[a].sheet
             known == RowsFor(a)
             x == IF known = {} THEN NoRow ELSE CHOOSE y \in known : TRUE
         IN  Begin(r, "share", "begun", a, IF OnDisk(sheet) THEN sheet ELSE NoPath, x,
                   IF x = NoRow THEN NoRow ELSE rows[x].image, r)
    /\ UNCHANGED <<entries, disk, hist, tally, libraryVars, historyVars>>

CopyToShelf(r) ==
    /\ Is(r, "share", "begun")
    /\ LET p == work[r].path
       IN  IF p = NoPath THEN Goes(r, "saved") /\ UNCHANGED shelf
           ELSE IF OnDisk(p)
           THEN Goes(r, "saved") /\ shelf' = Plus(shelf, r, [of |-> disk[p], ext |-> p[3]])
           ELSE Goes(r, "failed") /\ UNCHANGED shelf
    /\ UNCHANGED <<entries, disk, hist, tally, rows, rowless, torn, historyVars>>

WriteShared(r) ==
    /\ Is(r, "share", "saved")
    /\ IF work[r].row = NoRow THEN InsertRow(r) ELSE ChangeRow(r)
    /\ UNCHANGED <<entries, disk, hist, tally, torn, historyVars>>

(* An asset of the library is copied to the project: under its name, under *)
(* the first free one, or over what has it.  A name that is taken and to   *)
(* be skipped ends the request.                                            *)
FirstFree(a, b) ==
    \E n \in DOMAIN FirstFreeName[a] :
        /\ b = FirstFreeName[a][n] /\ ~Registered(b)
        /\ \A k \in 1..n - 1 : Registered(FirstFreeName[a][k])

BeginApply(r) ==
    /\ \E x \in DOMAIN rows, policy \in {"skip", "overwrite", "rename"}, target \in Assets :
         LET a == rows[x].asset
             f == rows[x].image
         IN  /\ policy = "skip" => ~Registered(a)
             /\ IF policy = "rename" /\ Registered(a) THEN FirstFree(a, target) ELSE target = a
             /\ f # NoRow => f \in DOMAIN shelf
             /\ Begin(r, "apply", "begun", target, IF f = NoRow THEN NoPath ELSE <<target, "sheet", shelf[f].ext>>,
                      x, f, IF f = NoRow THEN r ELSE shelf[f].of)
    /\ UNCHANGED <<entries, disk, hist, tally, libraryVars, historyVars>>

CopyFromShelf(r) ==
    /\ Is(r, "apply", "begun")
    /\ LET q == work[r]
       IN  IF q.path = NoPath THEN Goes(r, "saved") /\ UNCHANGED <<disk, historyVars>>
           ELSE IF q.was \in DOMAIN shelf
           THEN PutsBack(r, [q EXCEPT !.at = "saved"]) /\ disk' = Plus(disk, q.path, q.of)
           ELSE Goes(r, "failed") /\ UNCHANGED <<disk, historyVars>>
    /\ UNCHANGED <<entries, hist, tally, libraryVars>>

WriteApplied(r) ==
    /\ Is(r, "apply", "saved")
    /\ LET q == work[r]
       IN  /\ \E described \in BOOLEAN :
                entries' = Plus(entries, q.asset, [NewEntry(described) EXCEPT !.sheet = q.path])
           /\ Settles(q.asset, q.of, q.before)
           /\ Shows(r, [q EXCEPT !.at = "ended"], q.of)
    /\ UNCHANGED <<disk, hist, tally, libraryVars>>

-----------------------------------------------------------------------------
(* A step of a request fails.  What was saved for the library is removed   *)
(* again, also when the row is committed and only its refresh fails (the   *)
(* row has gone, or the database does not answer): the row stays, and the  *)
(* picture it had.  A file that is saved in part stays, and so does a      *)
(* replaced one that cannot be removed.  Nothing else is undone.           *)
AssetFault == tally.faults < MaxAssetFaults /\ tally' = [tally EXCEPT !.faults = @ + 1]
NewFileOps == {"create", "replace", "share"}
RowOf(r) == IF work[r].row = NoRow THEN r ELSE work[r].row
OldImage(r) == {work[r].was} \ {NoRow}

TakesFileBack(r) ==
    /\ work[r].op \in NewFileOps /\ work[r].at \in {"begun", "saved"}
    /\ AssetFault /\ shelf' = Drop(shelf, r)
    /\ UNCHANGED <<rowless, torn>>

LeavesHalfFile(r) ==
    /\ \/ Is(r, "create", "saved") /\ r \in DOMAIN shelf /\ UNCHANGED shelf
       \/ /\ Is(r, "replace", "begun") \/ (Is(r, "share", "begun") /\ work[r].path # NoPath)
          /\ \E ext \in Exts : shelf' = Plus(shelf, r, [of |-> r, ext |-> ext])
    /\ AssetFault /\ rowless' = rowless \cup {r}
    /\ UNCHANGED torn

RefreshFails(r) ==
    /\ work[r].at = "committed"
    /\ IF RowOf(r) \in DOMAIN rows THEN AssetFault ELSE UNCHANGED tally
    /\ shelf' = Drop(shelf, r) /\ torn' = torn \cup {r}
    /\ rowless' = rowless \cup OldImage(r)

KeepsReplaced(r) ==
    /\ work[r].at = "committed"
    /\ AssetFault /\ rowless' = rowless \cup OldImage(r)
    /\ UNCHANGED <<shelf, torn>>

FailsElsewhere(r) ==
    /\ work[r].op \notin NewFileOps /\ work[r].at \in {"begun", "saved"}
    /\ AssetFault /\ torn' = IF work[r].op = "remove" THEN torn \cup OldImage(r) ELSE torn
    /\ UNCHANGED <<shelf, rowless>>

RequestFails(r) ==
    /\ TakesFileBack(r) \/ LeavesHalfFile(r) \/ RefreshFails(r) \/ KeepsReplaced(r) \/ FailsElsewhere(r)
    /\ Goes(r, "failed")
    /\ UNCHANGED <<entries, disk, hist, rows, historyVars>>

(* Somebody removes a file by hand.                                        *)
LoseFile ==
    /\ AssetFault
    /\ \E p \in DOMAIN disk : disk' = Drop(disk, p) /\ lost' = lost \cup {p}
    /\ UNCHANGED <<entries, hist, work, libraryVars, settled, stale>>

Uploads(r) == BeginUpload(r) \/ RecordUpload(r) \/ BeginOriginal(r) \/ RecordOriginal(r)
Sheets(r) == BeginDesign(r) \/ DrawDesign(r) \/ RecordDesign(r) \/ BeginRestore(r) \/ RecordRestore(r)
Library(r) ==
    \/ CreateAsset(r) \/ InsertAsset(r) \/ BeginRemove(r) \/ RemoveRow(r)
    \/ BeginReplace(r) \/ SaveReplacement(r) \/ CommitReplacement(r) \/ RemoveReplaced(r)
    \/ BeginShare(r) \/ CopyToShelf(r) \/ WriteShared(r)
    \/ BeginApply(r) \/ CopyFromShelf(r) \/ WriteApplied(r)

AssetsNext ==
    \/ \E a \in Assets : AddEntry(a) \/ UpsertAssets(a) \/ UpdateEntry(a) \/ DeleteEntry(a)
    \/ LoseFile \/ \E x \in Pictures : RenameAsset(x)
    \/ \E r \in AssetRequests : Uploads(r) \/ Sheets(r) \/ Library(r) \/ RequestFails(r)

AssetsSpec == AssetsInit /\ [][AssetsNext]_assetVars

-----------------------------------------------------------------------------
(* An entry never shows a picture that a later request had replaced, nor a *)
(* file that nobody has removed by hand and that is not there: uploads,    *)
(* tasks, restores and copies write the file first and the entry later     *)
(* (upload_file, execute_design_task, restore_version, apply_to_project),  *)
(* under names that differ by the suffix, and each step may be the last.   *)
ShownIsLatest ==
    \A a \in DOMAIN entries :
        LET sheet == entries[a].sheet
        IN  sheet # NoPath => IF OnDisk(sheet) THEN disk[sheet] \notin stale[a] ELSE sheet \in lost

(* Every row of the library has its file and every file its row (create_   *)
(* asset, replace_image, delete_asset, from_project).  Out of this are, by *)
(* name: a file that a failing request has removed from under its row (a   *)
(* removal that stops half-way, a refresh that fails after the commit);    *)
(* and a file without a row that is saved in part, that was replaced by a  *)
(* request whose refresh or unlink fails, or that two requests on one row  *)
(* at the same time leave behind.                                          *)
LibraryIsWhole ==
    /\ \A x \in DOMAIN rows :
         \/ rows[x].image \in DOMAIN shelf \cup torn \cup {NoRow}
         \/ \E r \in AssetRequests : Is(r, "remove", "saved") /\ work[r].was = rows[x].image
    /\ \A f \in DOMAIN shelf \ rowless :
         \/ \E x \in DOMAIN rows : rows[x].image = f
         \/ \E r \in AssetRequests : r = f /\ work[r].at = "saved"
         \/ \E r \in AssetRequests : work[r].at = "committed" /\ work[r].was = f

\* Both: what an entry shows is current, and the library has what its rows say.
ShelvesAreTrue == ShownIsLatest /\ LibraryIsWhole
=============================================================================
