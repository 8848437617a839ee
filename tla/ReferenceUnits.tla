--------------------------- MODULE ReferenceUnits ---------------------------
(***************************************************************************)
(* The units of an episode that is generated from references.  In a        *)
(* narration or a drama a unit stands for itself and is added and deleted  *)
(* by hand; in an advertisement the units are groups of consecutive shots, *)
(* derived again whenever a tool runs or the user asks.  Either way the    *)
(* file of a unit is named after its number, and numbers come again.       *)
(*                                                                         *)
(* What a unit is of: the shots it groups, as they were when it was        *)
(* derived; for a unit by hand one shot whose id is the number of its      *)
(* birth.  A shot that is inserted may have the id of one that was removed *)
(* and is told from it by its birth, which the code does not keep.  Tasks, *)
(* uploads and a batch tool work on units while the script is edited.      *)
(***************************************************************************)
EXTENDS Naturals, Sequences, FiniteSets, SequencesExt

CONSTANTS
    StartShots,       \* the shots of the advertisement, or the births of the units
    ShotPool,         \* ids a shot may have, the births of units among them
    Casts, StartCast, \* the names a shot may refer to, in their order; those of the first
    MaxUnit,          \* the largest number of a unit, and a bound on the shots
    UnitSize,         \* AD_UNIT_MAX_SHOTS
    NoVideo, NoWork,
    MaxUnitEdits, MaxUnitAsks, MaxUnitTools, MaxUnitFails,
    MaxUnitMoves      \* bounds: of each kind, and of all together

ASSUME UnitsAssumption ==
    /\ ShotPool \subseteq Nat /\ StartShots \in Seq(ShotPool) /\ IsInjective(StartShots)
    /\ StartShots # <<>> /\ StartCast \in Casts /\ <<>> \in Casts
    /\ MaxUnit \in Nat /\ Len(StartShots) <= MaxUnit /\ UnitSize \in Nat \ {0}
    /\ {MaxUnitEdits, MaxUnitAsks, MaxUnitTools, MaxUnitFails, MaxUnitMoves} \subseteq Nat

VARIABLES
    isAd,        \* content_mode is "ad"
    adShots,     \* the shots of the advertisement
    units,       \* video_units or reference_units
    videos,      \* reference_videos/<unit>.mp4: what it is a video of
    unitJobs,    \* the active task of a unit
    unitUpload,  \* an upload at work
    unitTool,    \* a tool at work: what it waits for and what it will report
    births,      \* units and shots added so far
    handedOver,      \* numbers that changed hands under a writer (history)
    reborn,      \* numbers with a shot whose id was given to another (history)
    inheriting,   \* numbers that were added over the file of another (history)
    toldDone,    \* what a tool has reported as done and nobody changed since (history)
    unitCounts

unitVars == <<isAd, adShots, units, videos, unitJobs, unitUpload, unitTool, births,
              handedOver, reborn, inheriting, toldDone, unitCounts>>
histories == <<handedOver, reborn, inheriting, toldDone>>

Numbers == 1..MaxUnit
AdShot == [id : ShotPool, birth : Nat, cast : Casts]
Content == UNION {[1..n -> AdShot] : n \in 1..UnitSize}
Unit == [num : Numbers, of : Content, clip : BOOLEAN]
ASSUME NoVideoIsNoContent == \A n \in 1..UnitSize : NoVideo \notin [1..n -> AdShot]
UnitMoves == {"edits", "asks", "tools", "fails"}
NoUpload == [num |-> 0, of |-> <<>>, at |-> "none"]
NoTool == [waits |-> {}, counted |-> {}, failed |-> FALSE]

UnitsTypeOK ==
    /\ isAd \in BOOLEAN /\ adShots \in Seq(AdShot) /\ units \in Seq(Unit)
    /\ \A n \in Numbers :
          /\ videos[n] = NoVideo \/ videos[n] \in Content
          /\ unitJobs[n] = NoWork \/ unitJobs[n].at \in {"queued", "running", "written"}
    /\ unitUpload.num \in 0..MaxUnit /\ unitUpload.at \in {"none", "started", "saved", "checked"}
    /\ unitTool.waits \subseteq Numbers /\ unitTool.failed \in BOOLEAN
    /\ births \in Nat /\ {handedOver, reborn, inheriting} \subseteq SUBSET Numbers
    /\ unitCounts \in [UnitMoves -> Nat]

Plain(id, birth) == [id |-> id, birth |-> birth, cast |-> <<>>]
NewUnit(n, of) == [num |-> n, of |-> of, clip |-> FALSE]

\* The references of some shots: each name once, where it comes first.
References(shots) ==
    FoldLeft(LAMBDA found, shot : found \o SelectSeq(shot.cast, LAMBDA name : name \notin ToSet(found)),
             <<>>, shots)

\* What the index keeps of a unit, and what its video is of.
Ids(shots) == [i \in DOMAIN shots |-> shots[i].id]
Births(shots) == [i \in DOMAIN shots |-> shots[i].birth]
Listed(shots) == [shot_ids |-> Ids(shots), references |-> References(shots)]
Alike(shots, others) == Listed(shots) = Listed(others) /\ Births(shots) = Births(others)

\* The first unit has its video.
UnitsInit ==
    /\ isAd \in BOOLEAN
    /\ LET shots == [i \in DOMAIN StartShots |->
                        [Plain(StartShots[i], i) EXCEPT !.cast = IF isAd /\ i = 1 THEN StartCast ELSE <<>>]]
       IN  /\ adShots = IF isAd THEN shots ELSE <<>>
           /\ units = [i \in DOMAIN shots |-> [NewUnit(i, <<shots[i]>>) EXCEPT !.clip = (i = 1)]]
    /\ videos = [n \in Numbers |-> IF n = 1 THEN units[1].of ELSE NoVideo]
    /\ unitJobs = [n \in Numbers |-> NoWork]
    /\ unitUpload = NoUpload /\ unitTool = NoTool
    /\ births = Len(StartShots)
    /\ handedOver = {} /\ reborn = {} /\ inheriting = {} /\ toldDone = {}
    /\ unitCounts = [c \in UnitMoves |-> 0]

Bounded(c, max) ==
    /\ unitCounts[c] < max /\ MapThenSumSet(LAMBDA m : unitCounts[m], UnitMoves) < MaxUnitMoves
    /\ unitCounts' = [unitCounts EXCEPT ![c] = @ + 1]

Has(n) == \E i \in DOMAIN units : units[i].num = n
UnitOf(n) == CHOOSE u \in ToSet(units) : u.num = n
ContentIn(us, n) == IF \E u \in ToSet(us) : u.num = n
                    THEN (CHOOSE u \in ToSet(us) : u.num = n).of ELSE <<>>

\* A writer has read what it makes a video of.
WriterAt(n) == \/ unitJobs[n] # NoWork /\ unitJobs[n].at # "queued"
               \/ unitUpload.num = n

\* The numbers whose unit another one takes over with us.
ChangedBy(us) ==
    {n \in Numbers : ContentIn(us, n) # <<>> /\ Listed(ContentIn(us, n)) # Listed(ContentIn(units, n))}
Replace(us) ==
    /\ units' = us
    /\ handedOver' = (handedOver \ ChangedBy(us)) \cup {n \in ChangedBy(us) : WriterAt(n)}
    /\ reborn' = reborn \ ChangedBy(us)
    /\ inheriting' = (inheriting \ ChangedBy(us)) \cup {n \in ChangedBy(us) : videos[n] # NoVideo}
    /\ toldDone' = toldDone \ ChangedBy(us)
\* An edit of the units: a tool that counts on them is left behind.
Rearrange(us) ==
    Replace(us) /\ unitTool' = [unitTool EXCEPT !.counted = @ \ ChangedBy(us)]

-----------------------------------------------------------------------------
(* Units by hand.                                                          *)

FreeNumbers == {n \in Numbers : ~Has(n)}
NextUnitId == CHOOSE n \in FreeNumbers : \A k \in FreeNumbers : n <= k

AddUnit ==
    /\ ~isAd /\ Bounded("edits", MaxUnitEdits) /\ FreeNumbers # {} /\ births + 1 \in ShotPool
    /\ births' = births + 1 /\ Rearrange(Append(units, NewUnit(NextUnitId, <<Plain(births + 1, births + 1)>>)))
    /\ UNCHANGED <<isAd, adShots, videos, unitJobs, unitUpload>>

DeleteUnit(i) ==
    /\ ~isAd /\ Bounded("edits", MaxUnitEdits) /\ Rearrange(RemoveAt(units, i))
    /\ UNCHANGED <<isAd, adShots, videos, unitJobs, unitUpload, births>>

\* Any permutation; one exchange at a time makes them all.
ReorderUnits(i) ==
    /\ ~isAd /\ i + 1 \in DOMAIN units /\ Bounded("edits", MaxUnitEdits)
    /\ Rearrange([units EXCEPT ![i] = units[i + 1], ![i + 1] = units[i]])
    /\ UNCHANGED <<isAd, adShots, videos, unitJobs, unitUpload, births>>

-----------------------------------------------------------------------------
(* Units of an advertisement.                                              *)

\* insert_segment: the id is one that no shot has, or has any more.
Lists(u, id) == \E s \in ToSet(u.of) : s.id = id
InsertAdShot ==
    \E i \in DOMAIN adShots, id \in ShotPool \ {s.id : s \in ToSet(adShots)} :
        /\ Len(adShots) < MaxUnit
        /\ adShots' = InsertAt(adShots, i + 1, Plain(id, births + 1))
        /\ births' = births + 1
        /\ reborn' = reborn \cup {u.num : u \in {v \in ToSet(units) : Lists(v, id)}}

\* remove_segment and patch_field.
RemoveAdShot ==
    /\ \E i \in DOMAIN adShots : Len(adShots) > 1 /\ adShots' = RemoveAt(adShots, i)
    /\ UNCHANGED <<births, reborn>>
PatchAdShot ==
    /\ \E i \in DOMAIN adShots, cast \in Casts : adShots' = [adShots EXCEPT ![i].cast = cast]
    /\ UNCHANGED <<births, reborn>>

EditAdShots ==
    /\ isAd /\ Bounded("edits", MaxUnitEdits)
    /\ InsertAdShot \/ RemoveAdShot \/ PatchAdShot
    /\ UNCHANGED <<isAd, units, videos, unitJobs, unitUpload, unitTool, handedOver, inheriting, toldDone>>

\* Consecutive shots, as many as the count or the provider's duration allows.
Derived(size) ==
    [n \in 1 .. (Len(adShots) + size - 1) \div size |->
        NewUnit(n, SubSeq(adShots, (n - 1) * size + 1,
                          IF n * size < Len(adShots) THEN n * size ELSE Len(adShots)))]

\* Mutant: a unit is what it was if its members are.
MergedByMembers(derived) ==
    [n \in DOMAIN derived |->
        [derived[n] EXCEPT !.clip =
            \E u \in ToSet(units) :
                u.num = n /\ u.clip /\ Ids(u.of) = Ids(derived[n].of)]]

\* A unit with the number, the members and the references of one that was there
\* keeps its assets.
Merged(derived) ==
    [n \in DOMAIN derived |->
        [derived[n] EXCEPT !.clip =
            \E u \in ToSet(units) : u.num = n /\ u.clip /\ Listed(u.of) = Listed(derived[n].of)]]

DeriveUnits(size) ==
    /\ isAd /\ Bounded("edits", MaxUnitEdits) /\ Rearrange(Merged(Derived(size)))
    /\ UNCHANGED <<isAd, adShots, videos, unitJobs, unitUpload, births>>

\* The members are looked up in the shots; one that is gone makes the index
\* stale.
Resolves(u) == isAd => \A s \in ToSet(u.of) : \E t \in ToSet(adShots) : t.id = s.id

-----------------------------------------------------------------------------
(* Tasks and uploads.                                                      *)

QueuedFor(ns) ==
    [n \in Numbers |-> IF n \in ns /\ unitJobs[n] = NoWork
                       THEN [of |-> <<>>, at |-> "queued"] ELSE unitJobs[n]]

GenerateUnit(n) ==
    /\ Has(n) /\ Resolves(UnitOf(n)) /\ Bounded("asks", MaxUnitAsks)
    /\ unitJobs' = QueuedFor({n})
    /\ UNCHANGED <<isAd, adShots, units, videos, unitUpload, unitTool, births, histories>>

EndWork(n, ok) ==
    /\ unitJobs' = [unitJobs EXCEPT ![n] = NoWork]
    /\ unitTool' = IF n \in unitTool.waits
                   THEN [unitTool EXCEPT !.waits = @ \ {n}, !.failed = @ \/ ~ok] ELSE unitTool

\* What a unit is of now: the shots that have its ids, and its references.
Born(id) == (CHOOSE s \in ToSet(adShots) : s.id = id).birth
Resolved(u) ==
    IF isAd THEN [i \in DOMAIN u.of |-> [u.of[i] EXCEPT !.birth = Born(u.of[i].id)]] ELSE u.of

\* The prompt is put together from the script as it is when the task starts.
StartUnit(n) ==
    /\ unitJobs[n] # NoWork /\ unitJobs[n].at = "queued"
    /\ IF Has(n) /\ Resolves(UnitOf(n))
       THEN /\ unitJobs' = [unitJobs EXCEPT ![n] = [of |-> Resolved(UnitOf(n)), at |-> "running"]]
            /\ UNCHANGED unitTool
       ELSE EndWork(n, FALSE)
    /\ UNCHANGED <<isAd, adShots, units, videos, unitUpload, births, histories, unitCounts>>

WriteVideo(n) ==
    /\ unitJobs[n] # NoWork /\ unitJobs[n].at = "running"
    /\ unitJobs' = [unitJobs EXCEPT ![n].at = "written"]
    /\ videos' = [videos EXCEPT ![n] = unitJobs[n].of]
    /\ UNCHANGED <<isAd, adShots, units, unitUpload, unitTool, births, histories, unitCounts>>

\* apply_unit_video_assets; a unit that is gone fails the task.
WithClip(n) == [i \in DOMAIN units |-> IF units[i].num = n THEN [units[i] EXCEPT !.clip = TRUE]
                                                            ELSE units[i]]
RecordUnit(n) ==
    /\ unitJobs[n] # NoWork /\ unitJobs[n].at = "written"
    /\ units' = WithClip(n) /\ EndWork(n, Has(n))
    /\ UNCHANGED <<isAd, adShots, videos, unitUpload, births, histories, unitCounts>>

FailUnit(n) ==
    /\ unitJobs[n] # NoWork /\ Bounded("fails", MaxUnitFails) /\ EndWork(n, FALSE)
    /\ UNCHANGED <<isAd, adShots, units, videos, unitUpload, births, histories>>

UploadStarts(n) ==
    /\ unitUpload.num = 0 /\ Has(n) /\ Bounded("asks", MaxUnitAsks)
    /\ unitUpload' = [num |-> n, of |-> UnitOf(n).of, at |-> "started"]
    /\ UNCHANGED <<isAd, adShots, units, videos, unitJobs, unitTool, births, histories>>

UploadSavesVideo ==
    /\ unitUpload.at = "started" /\ unitUpload' = [unitUpload EXCEPT !.at = "saved"]
    /\ videos' = [videos EXCEPT ![unitUpload.num] = unitUpload.of]
    /\ UNCHANGED <<isAd, adShots, units, unitJobs, unitTool, births, histories, unitCounts>>

\* The unit is looked for once more before the upload is recorded; the file is
\* there already.
UploadRechecks ==
    /\ unitUpload.at = "saved"
    /\ unitUpload' = IF Has(unitUpload.num) THEN [unitUpload EXCEPT !.at = "checked"] ELSE NoUpload
    /\ UNCHANGED <<isAd, adShots, units, videos, unitJobs, unitTool, births, histories, unitCounts>>

UploadRecordsUnit ==
    /\ unitUpload.at = "checked" /\ unitUpload' = NoUpload /\ units' = WithClip(unitUpload.num)
    /\ UNCHANGED <<isAd, adShots, videos, unitJobs, unitTool, births, histories, unitCounts>>

-----------------------------------------------------------------------------
(* generate_video_episode and its kin.                                     *)

\* What is on the disk is done; in an advertisement it must also be what the
\* unit has recorded.  The checkpoint is written and read, and decides nothing.
Reusable(u) == videos[u.num] # NoVideo /\ (isAd => u.clip)

RunTool(us) ==
    LET todo == {u.num : u \in {v \in ToSet(us) : ~Reusable(v)}} IN
    /\ unitTool = NoTool /\ us # <<>> /\ Bounded("tools", MaxUnitTools)
    /\ unitJobs' = QueuedFor(todo)
    /\ unitTool' = [waits |-> todo, counted |-> {u.num : u \in ToSet(us)}, failed |-> FALSE]
    /\ UNCHANGED <<isAd, adShots, videos, unitUpload, births>>

RunReferenceEpisode == ~isAd /\ RunTool(units) /\ UNCHANGED <<units, histories>>

\* The index is derived and saved first.
RunAdReferenceEpisode(size) ==
    isAd /\ RunTool(Merged(Derived(size))) /\ Replace(Merged(Derived(size)))

EndUnitTool ==
    /\ unitTool # NoTool /\ unitTool.waits = {}
    /\ toldDone' = IF unitTool.failed THEN toldDone ELSE toldDone \cup unitTool.counted
    /\ unitTool' = NoTool
    /\ UNCHANGED <<isAd, adShots, units, videos, unitJobs, unitUpload, births, handedOver, reborn,
                   inheriting, unitCounts>>

UnitsNext ==
    \/ AddUnit \/ EditAdShots \/ (\E size \in 1..UnitSize : DeriveUnits(size))
    \/ \E i \in DOMAIN units : DeleteUnit(i) \/ ReorderUnits(i)
    \/ \E n \in Numbers :
          \/ GenerateUnit(n) \/ StartUnit(n) \/ WriteVideo(n) \/ RecordUnit(n) \/ FailUnit(n)
          \/ UploadStarts(n)
    \/ UploadSavesVideo \/ UploadRechecks \/ UploadRecordsUnit
    \/ RunReferenceEpisode \/ (\E size \in 1..UnitSize : RunAdReferenceEpisode(size))
    \/ EndUnitTool

UnitsSpec == UnitsInit /\ [][UnitsNext]_unitVars

-----------------------------------------------------------------------------
(* Properties.                                                             *)

\* The video a unit has recorded is of what the unit is of: "unit 的身份是「位置 +
\* 成员 + 参考集」", and a change of any of them resets the unit.  And what a tool
\* reports as done has such a video, which only an advertisement is sure to have
\* recorded.  The exceptions are a writer that was at work when the number changed
\* hands; a shot that was removed and whose id another was given while the unit
\* listed it, since the code knows a member by its id (ad_units.py:120-128) and ids
\* come again (script_editor.py:109-114); and, for units by hand only, a file the
\* number was given with.
ShowsItsShots(u) == videos[u.num] # NoVideo /\ Alike(videos[u.num], u.of)
UnitsBelong ==
    \A u \in ToSet(units) :
        /\ u.clip => ShowsItsShots(u) \/ u.num \in handedOver \cup reborn
        /\ u.num \in toldDone =>
              \/ ShowsItsShots(u) /\ (isAd => u.clip)
              \/ u.num \in handedOver \cup reborn
              \/ ~isAd /\ u.num \in inheriting
=============================================================================
