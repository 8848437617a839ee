--------------------------- MODULE ArchiveRepair ---------------------------
(***************************************************************************)
(* A project is exported while it is worked on, and the archive imported   *)
(* again.  The export copies the project directory by directory, without   *)
(* its lock, repairs the copy, reports what is wrong with it and packs it  *)
(* all the same; the import repairs what it unpacks once more and takes    *)
(* nothing that the validation objects to.  The repair sets a path to its  *)
(* canonical name, brings a missing picture back from the versions and     *)
(* invents the characters a script names.                                  *)
(*                                                                         *)
(* ProjectAssets has the entries and their files.  A script has shots: an  *)
(* entry of type "storyboard" is the media of a shot and is kept in the    *)
(* script.                                                                 *)
(***************************************************************************)
EXTENDS ProjectAssets

CONSTANTS
    ScriptKinds,     \* the ways a script is laid out that are looked at
    Namesakes        \* for an asset, the others of its type called "<its name>_v..."

ASSUME RepairAssumption ==
    /\ ScriptKinds \subseteq {"segments", "units", "ad", "ad_units"}
    /\ \A a \in Assets : Namesakes[a] \subseteq {b \in Assets \ {a} : b[1] = a[1]}

VARIABLES
    layout,      \* how the script is laid out: content_mode and effective_mode
    script,    \* the script file: [there, uses, titled]
    parcel     \* the export and the import of it

repairVars == <<layout, script, parcel>>

IsShot(a) == TypeOf(a) = "storyboard"
Bucket(types, used) == {a \in used : TypeOf(a) \in types}
NoScript == [there |-> FALSE, uses |-> {}, titled |-> FALSE]
Here == [layout |-> layout, entries |-> entries, disk |-> disk, hist |-> hist, script |-> script]
Nothing == [layout |-> "none", entries |-> <<>>, disk |-> <<>>,
            hist |-> [a \in Assets |-> [listed |-> {}, current |-> 0]], script |-> NoScript]
Fields == {"sheet", "ref"}

\* The episodes of a novel are in the ledger before they have a script, the
\* only episode of an advertisement is not.
Ledgered(tree) == tree.layout \in {"segments", "units"}

\* The first has precedence.
Joined(f, g) == [i \in DOMAIN f \cup DOMAIN g |-> IF i \in DOMAIN f THEN f[i] ELSE g[i]]

ScriptType == [there : BOOLEAN, uses : SUBSET {a \in Assets : ~IsShot(a)}, titled : BOOLEAN]

RepairTypeOK ==
    /\ layout \in ScriptKinds
    /\ script \in ScriptType
    /\ parcel.at \in {"none", "root", "pictures", "script", "packed", "accepted", "refused"}
    /\ parcel.scope \in {"full", "current"}
    /\ {parcel.quiet, parcel.clean} \subseteq BOOLEAN
    /\ \A tree \in {parcel.origin, parcel.tree} :
         /\ DOMAIN tree.entries \subseteq Assets /\ DOMAIN tree.disk \subseteq Paths
         /\ tree.script \in ScriptType

RepairInit ==
    /\ layout \in ScriptKinds
    /\ script = NoScript
    /\ parcel = [at |-> "none", scope |-> "full", quiet |-> FALSE, clean |-> FALSE,
                 origin |-> Nothing, tree |-> Nothing]

-----------------------------------------------------------------------------
(* The validation of a project tree.                                       *)

NamesFile(tree, a, field) ==
    tree.entries[a][field] = NoPath \/ tree.entries[a][field] \in DOMAIN tree.disk

\* Which of the paths are looked up: not those of products.
Validated(a, field) == IF field = "sheet" THEN TypeOf(a) # "product" ELSE TypeOf(a) = "character"

UnknownOf(tree, types) == Bucket(types, tree.script.uses) \ DOMAIN tree.entries
SegmentsKnow(tree) == UnknownOf(tree, {"character", "scene", "prop"}) = {}
UnitsKnow(tree) == SegmentsKnow(tree) /\ Bucket({"product"}, tree.script.uses) = {}
ShotsKnow(tree) == UnknownOf(tree, {"character", "scene", "prop", "product"}) = {}

ScriptValid(tree) ==
    /\ tree.script.titled
    /\ CASE tree.layout = "segments" -> SegmentsKnow(tree)
         [] tree.layout = "units" -> UnitsKnow(tree)
         [] OTHER -> ShotsKnow(tree)

ProjectValid(tree) == \A a \in DOMAIN tree.entries : IsShot(a) \/ tree.entries[a].described

Valid(tree) ==
    /\ ProjectValid(tree)
    /\ \A a \in DOMAIN tree.entries, field \in Fields : Validated(a, field) => NamesFile(tree, a, field)
    /\ IF tree.script.there THEN ScriptValid(tree) ELSE Ledgered(tree)

-----------------------------------------------------------------------------
(* The repair of a project tree.                                           *)

\* An advertisement in reference mode has no video_units to repair.
SkipsScript(tree) == tree.layout = "ad_units" \/ ~tree.script.there

Repaired(tree, a, field) ==
    CASE field = "ref" -> TypeOf(a) = "character"
      [] IsShot(a) -> ~SkipsScript(tree)
      [] OTHER -> TypeOf(a) # "product"

SavedVersions(tree, S) == {p \in DOMAIN tree.disk : p[1] \in S /\ p[2] \in ToSet(VersionPlaces)}

\* The files that begin with "<its name>_v".
VersionsOf(tree, a) == SavedVersions(tree, {a} \cup Namesakes[a])

\* The current version has its file.
HasCurrent(tree, a) ==
    LET n == tree.hist[a].current IN n # 0 /\ VersionPath(a, n) \in SavedVersions(tree, {a})

\* The current version if it has its file, else the only file there is.
ChosenOf(tree, a, files) ==
    IF HasCurrent(tree, a) THEN VersionPath(a, tree.hist[a].current)
    ELSE IF Cardinality(files) = 1 THEN CHOOSE p \in files : TRUE ELSE NoPath
VersionFile(tree, a) == ChosenOf(tree, a, VersionsOf(tree, a))

\* A variant that goes to the versions although the picture named is there.
SourceFromVersions(tree, a, field) ==
    IF ~Repaired(tree, a, field) \/ tree.entries[a][field] = NoPath
       \/ <<a, field, "png">> \in DOMAIN tree.disk \/ field = "ref"
    THEN NoPath ELSE VersionFile(tree, a)

\* The file that the canonical one is made from, if it is to be made.
Source(tree, a, field) ==
    LET raw == tree.entries[a][field]
    IN  IF ~Repaired(tree, a, field) \/ raw = NoPath \/ <<a, field, "png">> \in DOMAIN tree.disk \/ field = "ref"
        THEN NoPath
        ELSE IF raw \in DOMAIN tree.disk
             THEN IF raw \in VersionsOf(tree, a) THEN raw ELSE NoPath
             ELSE VersionFile(tree, a)

Normalised(tree, a, field) ==
    LET raw == tree.entries[a][field]
        canonical == <<a, field, "png">>
    IN  IF Repaired(tree, a, field) /\ raw # NoPath
           /\ (canonical \in DOMAIN tree.disk \/ Source(tree, a, field) # NoPath)
        THEN canonical ELSE raw

Placeholders(tree) ==
    IF SkipsScript(tree) THEN {} ELSE Bucket({"character"}, tree.script.uses) \ DOMAIN tree.entries

\* An entry has the canonical names, where there is a file for them.
RepairedEntry(tree, a) ==
    [tree.entries[a] EXCEPT !.sheet = Normalised(tree, a, "sheet"), !.ref = Normalised(tree, a, "ref")]
Made(tree) == {a \in DOMAIN tree.entries : Source(tree, a, "sheet") # NoPath}

RepairTree(tree) ==
    [tree EXCEPT
        !.entries = Joined([a \in DOMAIN tree.entries |-> RepairedEntry(tree, a)],
                           [a \in Placeholders(tree) |-> NewEntry(TRUE)]),
        !.disk = Joined([p \in {Png(a) : a \in Made(tree)} |-> tree.disk[Source(tree, p[1], "sheet")]], tree.disk)]

\* What the repair itself objects to.
RepairBlocks(tree) ==
    \/ ~tree.script.there /\ ~Ledgered(tree)
    \/ ~SkipsScript(tree) /\ ~(Bucket({"scene", "prop"}, tree.script.uses) \subseteq DOMAIN tree.entries)

Acceptable(tree) == ~RepairBlocks(tree) /\ Valid(RepairTree(tree))

\* The archive of the current state has no version files but the products'.
GoesAlong(p, scope) == scope = "full" \/ p[2] \notin ToSet(VersionPlaces) \/ TypeOf(p[1]) = "product"
Prune(tree, scope) ==
    [tree EXCEPT
        !.disk = [p \in {q \in DOMAIN tree.disk : GoesAlong(q, scope)} |-> tree.disk[p]],
        !.hist = [a \in Assets |->
            [listed |-> {n \in tree.hist[a].listed : scope = "full" \/ n = tree.hist[a].current},
             current |-> tree.hist[a].current]]]

-----------------------------------------------------------------------------
(* The project goes on.                                                    *)

\* A script may only name what there is when it is saved.
SaveScript ==
    /\ Edits
    /\ \E uses \in SUBSET {a \in DOMAIN entries : ~IsShot(a)}, titled \in BOOLEAN :
         /\ layout \notin {"ad", "ad_units"} => Bucket({"product"}, uses) = {}
         /\ script' = [there |-> TRUE, uses |-> uses, titled |-> titled]
    /\ entries' = Joined(entries, [a \in {b \in Assets : IsShot(b)} |-> NewEntry(TRUE)])
    /\ UNCHANGED <<disk, hist, work, libraryVars, historyVars, layout, parcel>>

-----------------------------------------------------------------------------
(* The export copies the files of the root, and then the directories in    *)
(* the order of their names.                                               *)

Copies(from, to, take) ==
    /\ parcel.at = from
    /\ parcel' = [parcel EXCEPT !.at = to, !.tree = take, !.quiet = @ /\ parcel.origin = Here]

EntriesOf(chosen) == [a \in {b \in DOMAIN entries : b \in chosen} |-> entries[a]]

CopyRoot ==
    /\ parcel.at = "none"
    /\ parcel' = [parcel EXCEPT !.at = "root", !.quiet = TRUE, !.origin = Here,
                      !.tree = [Nothing EXCEPT !.layout = layout, !.entries = EntriesOf({a \in Assets : ~IsShot(a)})]]
    /\ UNCHANGED <<assetVars, layout, script>>

PicturesOf(chosen) == [p \in {q \in DOMAIN disk : q[1] \in chosen /\ q[2] \notin ToSet(VersionPlaces)} |-> disk[p]]

\* characters, products, props, scenes
CopyPictures ==
    /\ Copies("root", "pictures", [parcel.tree EXCEPT !.disk = PicturesOf({a \in Assets : ~IsShot(a)})])
    /\ UNCHANGED <<assetVars, layout, script>>

\* scripts
CopyScript ==
    /\ Copies("pictures", "script",
           [parcel.tree EXCEPT !.script = script,
                !.entries = Joined(parcel.tree.entries, EntriesOf({a \in Assets : IsShot(a)}))])
    /\ UNCHANGED <<assetVars, layout, script>>

\* storyboards, versions; the copy is repaired and checked, whatever that says
\* it is packed
PackArchive ==
    /\ parcel.at = "script"
    /\ LET versions == [p \in {q \in DOMAIN disk : q[2] \in ToSet(VersionPlaces)} |-> disk[p]]
           pictures == Joined(parcel.tree.disk, PicturesOf({a \in Assets : IsShot(a)}))
           copy == [parcel.tree EXCEPT !.disk = Joined(pictures, versions), !.hist = hist]
       IN  \E scope \in {"full", "current"} :
             parcel' = [parcel EXCEPT !.at = "packed", !.scope = scope, !.quiet = @ /\ parcel.origin = Here,
                            !.clean = Acceptable(copy), !.tree = Prune(RepairTree(copy), scope)]
    /\ UNCHANGED <<assetVars, layout, script>>

ImportArchive ==
    /\ parcel.at = "packed"
    /\ parcel' = [parcel EXCEPT !.at = IF Acceptable(parcel.tree) THEN "accepted" ELSE "refused",
                                !.tree = RepairTree(parcel.tree)]
    /\ UNCHANGED <<assetVars, layout, script>>

ProjectGoesOn ==
    /\ \/ LoseFile \/ \E a \in Assets : UpsertAssets(a) \/ UpdateEntry(a) \/ DeleteEntry(a)
       \/ \E r \in AssetRequests : Uploads(r) \/ Sheets(r)
    /\ UNCHANGED repairVars

RepairNext ==
    /\ parcel.at \notin {"accepted", "refused"}
    /\ ProjectGoesOn \/ SaveScript \/ CopyRoot \/ CopyPictures \/ CopyScript \/ PackArchive \/ ImportArchive

RepairSpec == AssetsInit /\ RepairInit /\ [][RepairNext]_<<assetVars, repairVars>>

-----------------------------------------------------------------------------
Shown(tree, a, field) ==
    IF a \in DOMAIN tree.entries /\ tree.entries[a][field] \in DOMAIN tree.disk
    THEN tree.disk[tree.entries[a][field]] ELSE NoRow

\* A picture that is not the one under the canonical name, though there is one:
\* the repair takes the other one.
Shadowed(tree, a, field) ==
    LET raw == tree.entries[a][field]
        canonical == <<a, field, "png">>
    IN  raw # NoPath /\ Repaired(tree, a, field) /\ canonical \in DOMAIN tree.disk /\ raw # canonical

\* A version of another asset is the picture of this one.
Borrowed(tree, a) ==
    LET raw == tree.entries[a].sheet
    IN  raw # NoPath /\ raw[1] # a /\ TypeOf(raw[1]) # "product"

\* What comes back where an asset looks among its own versions.
BroughtBack(tree, a) ==
    LET p == ChosenOf(tree, a, SavedVersions(tree, {a})) IN IF p = NoPath THEN NoRow ELSE tree.disk[p]

\* The files of a namesake stand among those that are looked through: one may be
\* taken for a version of this asset, or hide that it has one.
Mistaken(tree, a) == ~HasCurrent(tree, a) /\ SavedVersions(tree, Namesakes[a]) # {}

(* What was exported while nobody worked on it, and reported to be in      *)
(* order, is imported, and shows the same picture everywhere (_prepare_    *)
(* export_snapshot, import_project_archive, _repair_path_to_canonical,     *)
(* DataValidator.validate_project_tree): a picture that was missing may    *)
(* have come back from the asset's current version, or from its only one.  *)
(* Three cases are left out: a picture next to one of the canonical name;  *)
(* in an archive of the current state, the version of another asset; and a *)
(* missing picture whose current version is missing too, where an asset    *)
(* whose name begins with the same and "_v" has versions                   *)
(* (_resolve_version_file, startswith): its picture may come back instead. *)
RoundTripKeeps ==
    LET origin == parcel.origin
        ended == parcel.at \in {"accepted", "refused"} /\ parcel.quiet /\ parcel.clean
        left_out == parcel.scope = "current" /\ \E a \in DOMAIN origin.entries : Borrowed(origin, a)
    IN  ended /\ ~left_out =>
            /\ parcel.at = "accepted"
            /\ \A a \in DOMAIN origin.entries, field \in Fields :
                 \/ Shadowed(origin, a, field)
                 \/ Shown(parcel.tree, a, field) = Shown(origin, a, field)
                 \/ /\ Shown(origin, a, field) = NoRow /\ origin.entries[a][field] # NoPath
                    /\ Mistaken(origin, a) \/ Shown(parcel.tree, a, field) = BroughtBack(origin, a)
=============================================================================
