--------------------------- MODULE ProviderRouting ---------------------------
(***************************************************************************)
(* Which provider and model a task is given.  Nothing is decided when the  *)
(* task is enqueued: the payload, the project's overrides, the settings    *)
(* and the providers that are ready are read again whenever the answer is  *)
(* needed - to record a provider on the row, to take a slot, to build the  *)
(* backend, to look up what the model can do, and to ask for the job after *)
(* a restart.  Meanwhile settings are written, and the providers the user  *)
(* has defined come, change and go.                                        *)
(*                                                                         *)
(* A reference to a provider carries, for a user's own, which of the       *)
(* providers that have had the id the writer meant (0: there was none).    *)
(* A built-in provider has one model in each lane.                         *)
(***************************************************************************)
EXTENDS Naturals, Sequences, FiniteSets, SequencesExt

CONSTANTS
    BuiltIns,          \* PROVIDER_REGISTRY: the built-in providers in order
    BuiltInModel,      \* [provider -> [lane -> its default model]]
    OwnModels,         \* the models a user's provider may list
    OwnLists,          \* the lists of models a request may bring, [model -> state]
    LaneOf,            \* [model -> lane]: the media type of its endpoint
    SecondsOf,         \* [provider and model -> the durations it supports]
    NonResumable,      \* NON_RESUMABLE_VIDEO_PROVIDERS
    DefaultProvider,   \* the provider whose slot is taken when none can be told
    RouteTasks,
    Absent, Cleared,     \* a key that is not stored; a key stored as ""
    NoModel, NoProvider, NoAnswer,
    RouteKinds,        \* which kinds of task are looked at
    LegacyProviders,   \* the providers that a task of an older release may name
    MaxOwn, MaxSerial, MaxChanges     \* bounds

\* A row of CustomProviderModel; "none" when the provider does not list the model.
ModelState == {"none", "off", "on", "default"}
Lanes == {"video", "image", "text"}
OwnIds == 1..MaxOwn
Providers == ToSet(BuiltIns) \cup OwnIds
Models ==
    OwnModels \cup {BuiltInModel[p][lane] : p \in ToSet(BuiltIns), lane \in Lanes} \cup {NoModel}
Answers == [provider : Providers, model : Models \ {NoModel}]
Ref == [provider : Providers, model : Models, serial : 0..MaxSerial]

\* The id of a user's provider has a prefix that no built-in one has.
ASSUME RoutingAssumption ==
    /\ OwnLists \subseteq [OwnModels -> ModelState] /\ NoModel \notin OwnModels
    /\ DOMAIN SecondsOf = Answers
    /\ RouteKinds \subseteq {"video", "reference", "image"}
    /\ BuiltIns \in Seq(ToSet(BuiltIns)) /\ ToSet(BuiltIns) \cap OwnIds = {}
    /\ BuiltInModel \in [ToSet(BuiltIns) -> [Lanes -> Models]]
    /\ DefaultProvider \in ToSet(BuiltIns) /\ BuiltInModel[DefaultProvider]["video"] # NoModel
    /\ LegacyProviders \subseteq Providers
    /\ {MaxOwn, MaxChanges} \subseteq Nat /\ MaxSerial \in Nat \ {0}
    /\ {Absent, Cleared} \cap Ref = {} /\ NoAnswer \notin Answers
    /\ NoProvider \notin Providers \cup [serial : 1..MaxSerial, models : OwnLists]

VARIABLES
    ready,         \* the built-in providers with an active credential
    own,           \* the providers a user has defined, by id, with their models
    settings,      \* the global settings that name a backend
    override,      \* the keys of project.json that name one
    sweeping,      \* deleted providers whose name may still stand in project.json
    leftOver,      \* keys that are excused from naming what exists (history)
    routed,        \* the tasks
    serials,       \* how many providers have been defined (history)
    changes        \* how often the configuration has changed (bound)

configVars == <<ready, own, settings, override, sweeping, leftOver, serials, changes>>
routingVars == <<configVars, routed>>

IsOwn(p) == p \in OwnIds
Slots == {"video", "t2i", "i2i", "script"}
GlobalKeys == Slots \cup {"image", "text"}
ProjectKeys == Slots
Lane(key) == IF key \in {"t2i", "i2i", "image"} THEN "image" ELSE IF key = "video" THEN "video" ELSE "text"

IsDefined(p) == own[p] # NoProvider
Lists(p, m) == own[p].models[m] # "none"
Names(r) == r \notin {Absent, Cleared}
OwnRow == [serial : 1..MaxSerial, models : OwnLists]
AllSeconds == UNION {SecondsOf[pm] : pm \in Answers}
Overrides == [ProjectKeys -> Ref \cup {Absent}]

\* What a task carries, and what it and the worker have found out: the provider
\* of its row, whose slot it took, its copy of the project, the backend that was
\* built, what that is known to support (looked up for another one?), the length it
\* was called with, who has the job and who is asked for it.
RoutedTask ==
    [at : {"none", "queued", "claimed", "loaded", "built", "called", "orphan", "resumed", "failed"},
     kind : {"video", "reference", "image"}, needs : {"t2i", "i2i"},
     payload : [provider : Providers \cup {NoProvider}, model : {NoModel}],
     prov : Providers \cup {NoProvider}, route : Providers \cup {NoProvider}, copy : Overrides,
     backend : Answers \cup {NoAnswer}, swapped : BOOLEAN,
     known : SUBSET AllSeconds, seconds : AllSeconds \cup {0},
     made : Providers \cup {NoProvider}, asked : Providers \cup {NoProvider}, moved : BOOLEAN]

RoutingTypeOK ==
    /\ ready \subseteq ToSet(BuiltIns) /\ sweeping \subseteq OwnIds
    /\ own \in [OwnIds -> OwnRow \cup {NoProvider}]
    /\ settings \in [GlobalKeys -> Ref \cup {Absent, Cleared}] /\ override \in Overrides
    /\ leftOver \subseteq {"global", "project"} \X GlobalKeys
    /\ routed \in [RouteTasks -> RoutedTask]
    /\ serials \in 0..MaxSerial /\ changes \in 0..MaxChanges

(* _check_unique_defaults: one default in each lane at most.               *)
UniqueDefaults(models) ==
    \A m, n \in OwnModels : models[m] = "default" /\ models[n] = "default" /\ LaneOf[m] = LaneOf[n] => m = n

ModelLists == {models \in OwnLists : UniqueDefaults(models)}

PM(p, m) == [provider |-> p, model |-> m]
NoPayload == PM(NoProvider, NoModel)
NotYet ==
    [at |-> "none", kind |-> "video", needs |-> "t2i", payload |-> NoPayload, prov |-> NoProvider,
     route |-> NoProvider, copy |-> [k \in ProjectKeys |-> Absent], backend |-> NoAnswer,
     swapped |-> FALSE, known |-> {}, seconds |-> 0, made |-> NoProvider, asked |-> NoProvider,
     moved |-> FALSE]
Failed == [NotYet EXCEPT !.at = "failed"]

\* A new database, or one in use: with a provider of the user's own, which one
\* of the keys may name.
NothingNamed ==
    settings = [k \in GlobalKeys |-> Absent] /\ override = [k \in ProjectKeys |-> Absent]
RoutingInit ==
    /\ ready = ToSet(BuiltIns) /\ sweeping = {} /\ leftOver = {} /\ changes = 0
    /\ routed = [t \in RouteTasks |-> NotYet]
    /\ \/ own = [p \in OwnIds |-> NoProvider] /\ serials = 0 /\ NothingNamed
       \/ /\ serials = 1 /\ {1} \subseteq OwnIds
          /\ \E models \in ModelLists :
                /\ own = [p \in OwnIds |-> IF p = 1 THEN [serial |-> 1, models |-> models] ELSE NoProvider]
                /\ \/ NothingNamed
                   \/ \E m \in {n \in OwnModels : models[n] # "none"}, k \in GlobalKeys :
                         LET mine == [provider |-> 1, model |-> m, serial |-> 1] IN
                         /\ Lane(k) = LaneOf[m]
                         /\ \/ /\ settings = [j \in GlobalKeys |-> IF j = k THEN mine ELSE Absent]
                               /\ override = [j \in ProjectKeys |-> Absent]
                            \/ /\ k \in ProjectKeys
                               /\ override = [j \in ProjectKeys |-> IF j = k THEN mine ELSE Absent]
                               /\ settings = [j \in GlobalKeys |-> Absent]

-----------------------------------------------------------------------------
(* What the resolver answers.  NoAnswer stands for the ValueError "no     *)
(* provider is available".                                                 *)

(* The first ready built-in provider with a model in the lane, then the    *)
(* first own model that is marked as a default.                            *)
AutoResolved(lane) ==
    LET able == {i \in DOMAIN BuiltIns : BuiltIns[i] \in ready /\ BuiltInModel[BuiltIns[i]][lane] # NoModel}
        first == BuiltIns[Min(able)]
        mine == {p \in OwnIds : IsDefined(p) /\ \E m \in OwnModels : own[p].models[m] = "default" /\ LaneOf[m] = lane}
    IN  IF able # {} THEN PM(first, BuiltInModel[first][lane])
        ELSE IF mine # {}
        THEN LET p == Min(mine)
             IN  PM(p, CHOOSE m \in OwnModels : own[p].models[m] = "default" /\ LaneOf[m] = lane)
        ELSE NoAnswer

(* A global setting counts when it names a model too.  A slot for images   *)
(* that is stored, even empty, hides the older key for both; a task of the *)
(* text lane falls back to the default of the lane.                        *)
ImageRef(slot) == IF settings[slot] # Absent THEN settings[slot] ELSE settings["image"]
TextRef(slot) == IF Names(settings[slot]) /\ settings[slot].model # NoModel THEN settings[slot] ELSE settings["text"]
GlobalRef(slot) ==
    CASE Lane(slot) = "image" -> ImageRef(slot)
      [] Lane(slot) = "text" -> TextRef(slot)
      [] OTHER -> settings[slot]

DefaultBackend(slot) ==
    LET r == GlobalRef(slot)
    IN  IF Names(r) /\ r.model # NoModel THEN PM(r.provider, r.model) ELSE AutoResolved(Lane(slot))

(* A bare provider gets its default model; an own one has none here.       *)
WithModel(p, m, lane) ==
    IF m # NoModel THEN PM(p, m)
    ELSE IF ~IsOwn(p) /\ BuiltInModel[p][lane] # NoModel THEN PM(p, BuiltInModel[p][lane])
    ELSE NoAnswer

FromProject(r, slot) ==
    IF ~Names(r) THEN NoAnswer
    ELSE IF slot = "script" THEN (IF r.model # NoModel THEN PM(r.provider, r.model) ELSE NoAnswer)
    ELSE WithModel(r.provider, r.model, Lane(slot))

ResolvedFor(payload, proj, slot) ==
    LET asked == IF payload.provider = NoProvider THEN NoAnswer
                 ELSE WithModel(payload.provider, payload.model, Lane(slot))
        chosen == FromProject(proj[slot], slot)
    IN  IF asked # NoAnswer THEN asked ELSE IF chosen # NoAnswer THEN chosen ELSE DefaultBackend(slot)

(* get_provider_spec: a provider without a model in the lane has no row in  *)
(* the table, and none is made without its credential.                     *)
BuiltInBackend(pm, lane) ==
    IF pm.provider \in ready /\ BuiltInModel[pm.provider][lane] # NoModel THEN pm ELSE NoAnswer

(* load_custom_backend: a model that is gone, off or of another lane gives *)
(* way to the provider's default; what is built is for that one.           *)
OwnBackend(pm, lane) ==
    LET models == own[pm.provider].models
        usable == pm.model \in OwnModels /\ models[pm.model] \in {"on", "default"} /\ LaneOf[pm.model] = lane
        defaults == {m \in OwnModels : models[m] = "default" /\ LaneOf[m] = lane}
    IN  IF ~IsDefined(pm.provider) THEN NoAnswer
        ELSE IF usable THEN pm
        ELSE IF defaults = {} THEN NoAnswer
        ELSE PM(pm.provider, CHOOSE m \in defaults : TRUE)

Assembled(pm, lane) ==
    IF pm = NoAnswer THEN NoAnswer ELSE IF IsOwn(pm.provider) THEN OwnBackend(pm, lane) ELSE BuiltInBackend(pm, lane)

(* video_capabilities_for_model: {} when they cannot be told.  It finds a  *)
(* model that is off.                                                      *)
SupportedSeconds(pm) ==
    IF pm = NoAnswer THEN {}
    ELSE IF IsOwn(pm.provider)
    THEN IF IsDefined(pm.provider) /\ pm.model \in OwnModels /\ Lists(pm.provider, pm.model) /\ LaneOf[pm.model] = "video"
         THEN SecondsOf[pm] ELSE {}
    ELSE IF pm.model = BuiltInModel[pm.provider]["video"] THEN SecondsOf[pm] ELSE {}

-----------------------------------------------------------------------------
(* The configuration changes.  A task that is between two looks at it is   *)
(* marked.                                                                 *)

Changes ==
    /\ changes < MaxChanges /\ changes' = changes + 1
    /\ routed' = [t \in RouteTasks |->
           IF routed[t].at \in {"claimed", "loaded", "built"} THEN [routed[t] EXCEPT !.moved = TRUE] ELSE routed[t]]

SetCredential(p) ==
    /\ Changes
    /\ ready' = IF p \in ready THEN ready \ {p} ELSE ready \cup {p}
    /\ UNCHANGED <<own, settings, override, sweeping, leftOver, serials>>

(* The references a request may bring: validate_backend_value looks at the *)
(* shape and at the prefix of a user's provider, never at the tables.      *)
BuiltInRefs(lane) == {[provider |-> p, model |-> m, serial |-> 0] : p \in ToSet(BuiltIns), m \in {NoModel}}
    \cup {[provider |-> p, model |-> BuiltInModel[p][lane], serial |-> 0] :
             p \in {q \in ToSet(BuiltIns) : BuiltInModel[q][lane] # NoModel}}
OwnRefs(lane) ==
    {[provider |-> p, model |-> m, serial |-> IF IsDefined(p) THEN own[p].serial ELSE 0] :
        p \in OwnIds, m \in {n \in OwnModels : LaneOf[n] = lane}}
NamesNothing(r) == Names(r) /\ IsOwn(r.provider) /\ ~(IsDefined(r.provider) /\ Lists(r.provider, r.model))

PatchSettings(k) ==
    /\ Changes
    /\ \E r \in BuiltInRefs(Lane(k)) \cup OwnRefs(Lane(k)) \cup {Cleared} :
           /\ settings' = [settings EXCEPT ![k] = r]
           /\ leftOver' = (leftOver \ {<<"global", k>>}) \cup (IF NamesNothing(r) THEN {<<"global", k>>} ELSE {})
    /\ UNCHANGED <<ready, own, override, sweeping, serials>>

PatchProject(k) ==
    /\ Changes
    /\ \E r \in BuiltInRefs(Lane(k)) \cup OwnRefs(Lane(k)) \cup {Absent} :
           /\ override' = [override EXCEPT ![k] = r]
           /\ leftOver' = (leftOver \ {<<"project", k>>}) \cup (IF NamesNothing(r) THEN {<<"project", k>>} ELSE {})
    /\ UNCHANGED <<ready, own, settings, sweeping, serials>>

(* SQLite gives the id of a deleted last row to the next one.              *)
FreeOwnId == Max({p \in OwnIds : IsDefined(p)} \cup {0}) + 1

CreateProvider ==
    /\ Changes /\ FreeOwnId \in OwnIds /\ serials < MaxSerial
    /\ serials' = serials + 1
    /\ \E models \in ModelLists :
           own' = [own EXCEPT ![FreeOwnId] = [serial |-> serials + 1, models |-> models]]
    /\ UNCHANGED <<ready, settings, override, sweeping, leftOver>>

NamesOwn(r, p) == Names(r) /\ r.provider = p /\ r.model # NoModel

\* Mutant: the keys of the text lane are forgotten.
SweptMediaKeys == GlobalKeys \ {"script", "text"}

(* _BACKEND_SETTING_KEYS                                                   *)
SweptKeys == GlobalKeys

(* The models go, the settings that name the provider are emptied, and     *)
(* with the commit only the projects are left to do.                       *)
DeleteProvider(p) ==
    /\ IsDefined(p) /\ Changes
    /\ own' = [own EXCEPT ![p] = NoProvider]
    /\ settings' = [k \in GlobalKeys |-> IF k \in SweptKeys /\ NamesOwn(settings[k], p) THEN Cleared ELSE settings[k]]
    /\ sweeping' = sweeping \cup {p}
    /\ leftOver' = leftOver \ {<<"global", k>> : k \in {k \in SweptKeys : NamesOwn(settings[k], p)}}
    /\ UNCHANGED <<ready, override, serials>>

(* The project's keys follow after the commit, whatever they name by then; *)
(* a project that cannot be written is passed over.                        *)
SweepProject(p) ==
    /\ p \in sweeping
    /\ sweeping' = sweeping \ {p}
    /\ LET named == {k \in ProjectKeys : NamesOwn(override[k], p)}
       IN  \/ /\ override' = [k \in ProjectKeys |-> IF k \in named THEN Absent ELSE override[k]]
              /\ leftOver' = leftOver \ {<<"project", k>> : k \in named}
           \/ /\ named # {} /\ UNCHANGED override
              /\ leftOver' = leftOver \cup {<<"project", k>> : k \in named}
    /\ routed' = [t \in RouteTasks |->
           IF routed[t].at \in {"claimed", "loaded", "built"} THEN [routed[t] EXCEPT !.moved = TRUE] ELSE routed[t]]
    /\ UNCHANGED <<ready, own, settings, serials, changes>>

Orphaned(p, models, refs) == {k \in DOMAIN refs : NamesOwn(refs[k], p) /\ models[refs[k].model] = "none"}

(* PUT .../models: the settings that name a model the new list leaves out  *)
(* are emptied, the projects are left alone.                               *)
ReplaceModels(p) ==
    /\ IsDefined(p) /\ Changes
    /\ \E models \in ModelLists :
           LET gone == {k \in Orphaned(p, models, settings) : Lists(p, settings[k].model)}
           IN  /\ own' = [own EXCEPT ![p].models = models]
               /\ settings' = [k \in GlobalKeys |-> IF k \in gone THEN Cleared ELSE settings[k]]
               /\ leftOver' = (leftOver \ {<<"global", k>> : k \in gone})
                      \cup {<<"project", k>> : k \in Orphaned(p, models, override)}
    /\ UNCHANGED <<ready, override, sweeping, serials>>

(* PUT of a whole provider: nothing that names its models is touched.      *)
UpdateProvider(p) ==
    /\ IsDefined(p) /\ Changes
    /\ \E models \in ModelLists :
           /\ own' = [own EXCEPT ![p].models = models]
           /\ leftOver' = leftOver
                  \cup {<<"global", k>> : k \in Orphaned(p, models, settings)}
                  \cup {<<"project", k>> : k \in Orphaned(p, models, override)}
    /\ UNCHANGED <<ready, settings, override, sweeping, serials>>

-----------------------------------------------------------------------------
(* A task.                                                                 *)

Slot(task) == IF task.kind = "image" THEN task.needs ELSE "video"
\* Before it runs nobody knows whether an image has reference images.
RouteSlot(task) == IF task.kind = "image" THEN "t2i" ELSE "video"
DerivedFor(task) == ResolvedFor(task.payload, override, RouteSlot(task))
\* Whose slot it is; for want of an answer the default provider's.
ProviderOf(pm) == IF pm = NoAnswer THEN DefaultProvider ELSE pm.provider
StandsAt(t, place) == routed[t].at = place
Becomes(t, new) == routed' = [routed EXCEPT ![t] = new] /\ UNCHANGED configVars

\* A task of an older release carries a provider, with or without its model.
Payloads == {NoPayload} \cup {PM(p, NoModel) : p \in LegacyProviders}

EnqueueRouted(t) ==
    /\ StandsAt(t, "none")
    /\ \E kind \in RouteKinds, needs \in {"t2i", "i2i"}, payload \in Payloads :
           /\ kind # "image" => needs = "t2i"
           /\ LET task == [NotYet EXCEPT !.at = "queued", !.kind = kind, !.needs = needs, !.payload = payload]
                  pm == DerivedFor(task)
              IN  Becomes(t, [task EXCEPT !.prov = IF pm = NoAnswer THEN NoProvider ELSE pm.provider])

(* _extract_provider: the slot that is taken.                              *)
ClaimRouted(t) ==
    /\ StandsAt(t, "queued")
    /\ Becomes(t, [routed[t] EXCEPT !.at = "claimed", !.route = ProviderOf(DerivedFor(routed[t]))])

(* The executor loads the project, and asks about this copy later on.      *)
LoadProject(t) ==
    /\ StandsAt(t, "claimed")
    /\ Becomes(t, [routed[t] EXCEPT !.at = "loaded", !.copy = override])

(* get_media_generator reads the project once more.  Every task but speech *)
(* gets a video backend, and every one but a resume an image backend, used *)
(* or not; if one of them cannot be made the task fails.                   *)
BuildBackends(t) ==
    /\ StandsAt(t, "loaded")
    /\ LET task == routed[t]
           image == Assembled(ResolvedFor(task.payload, override, IF task.kind = "image" THEN task.needs ELSE "t2i"), "image")
           asked == ResolvedFor(task.payload, override, "video")
           video == Assembled(asked, "video")
       IN  IF NoAnswer \in {image, video} THEN Becomes(t, Failed)
           ELSE Becomes(t, [task EXCEPT !.at = "built", !.backend = IF task.kind = "image" THEN image ELSE video,
                                        !.swapped = task.kind # "image" /\ video # asked])

\* Mutant: a unit trusts the look-up whatever model was built.
UnitTrustsItsProject(task) == SupportedSeconds(ResolvedFor(NoPayload, task.copy, "video"))

(* A unit asks about the project's model, and does not use the answer when *)
(* the backend is for a model of another name: of whose it is no word.     *)
UnitSeconds(task) ==
    LET pm == ResolvedFor(NoPayload, task.copy, "video")
    IN  IF pm = NoAnswer THEN {} ELSE IF pm.model # task.backend.model THEN {} ELSE SupportedSeconds(pm)

UnitAskedElsewhere(task) ==
    LET pm == ResolvedFor(NoPayload, task.copy, "video")
    IN  pm # NoAnswer /\ pm.provider # task.backend.provider

(* A video asks about what the payload and its copy of the project resolve *)
(* to now.                                                                 *)
VideoSeconds(task) == SupportedSeconds(ResolvedFor(task.payload, task.copy, "video"))

(* assert_duration_supported, and the call.  Nothing is refused when the   *)
(* durations cannot be told.                                               *)
CallProvider(t) ==
    /\ StandsAt(t, "built")
    /\ LET task == routed[t]
           known == IF task.kind = "image" THEN {} ELSE IF task.kind = "video" THEN VideoSeconds(task) ELSE UnitSeconds(task)
       IN  \E seconds \in AllSeconds :
               IF known # {} /\ seconds \notin known THEN Becomes(t, Failed)
               ELSE Becomes(t, [task EXCEPT !.at = "called", !.copy = NotYet.copy,
                                            !.seconds = seconds, !.known = known,
                                            !.swapped = IF task.kind = "reference" THEN UnitAskedElsewhere(task) ELSE @])

(* The worker restarts.  The provider of the row, or for want of one what  *)
(* is resolved now, says whether the job can be taken up; it goes into the *)
(* payload, where it comes first.  `made` remembers who has the job.       *)
Restart(t) ==
    /\ StandsAt(t, "called") /\ routed[t].kind # "image"
    /\ LET task == routed[t]
           prov == IF task.prov # NoProvider THEN task.prov ELSE ProviderOf(DerivedFor(task))
       IN  IF prov \in NonResumable THEN Becomes(t, Failed)
           ELSE Becomes(t, [NotYet EXCEPT !.at = "orphan", !.kind = task.kind, !.prov = prov,
                                          !.made = task.backend.provider,
                                          !.payload = PM(prov, task.payload.model)])

(* The backend that is asked for the job.                                  *)
ResumeRouted(t) ==
    /\ StandsAt(t, "orphan")
    /\ LET task == routed[t]
           video == Assembled(ResolvedFor(task.payload, override, "video"), "video")
       IN  IF video = NoAnswer THEN Becomes(t, Failed)
           ELSE Becomes(t, [task EXCEPT !.at = "resumed", !.asked = video.provider])

RoutingNext ==
    \/ \E p \in ToSet(BuiltIns) : SetCredential(p)
    \/ \E k \in GlobalKeys : PatchSettings(k)
    \/ \E k \in ProjectKeys : PatchProject(k)
    \/ CreateProvider
    \/ \E p \in OwnIds : DeleteProvider(p) \/ SweepProject(p) \/ ReplaceModels(p) \/ UpdateProvider(p)
    \/ \E t \in RouteTasks :
           \/ EnqueueRouted(t) \/ ClaimRouted(t) \/ LoadProject(t) \/ BuildBackends(t)
           \/ CallProvider(t) \/ Restart(t) \/ ResumeRouted(t)

RoutingSpec == RoutingInit /\ [][RoutingNext]_routingVars

-----------------------------------------------------------------------------
(* A setting that names a model of a user's provider means the provider    *)
(* and the model its writer meant, though ids are given again: the delete  *)
(* and the new list of models empty the settings that would name nothing.  *)
(* Excused are a setting written when its model was already gone, one      *)
(* whose model a PUT of the whole provider took away, and in a project,    *)
(* which is swept after the commit if at all, one whose model any request  *)
(* took away or whose sweep is still to come or has failed.                *)
Means(r) == IsDefined(r.provider) /\ own[r.provider].serial = r.serial /\ Lists(r.provider, r.model)
OwnRef(r) == Names(r) /\ IsOwn(r.provider)
SettingsKeepTheirMeaning ==
    /\ \A k \in GlobalKeys : OwnRef(settings[k]) => Means(settings[k]) \/ <<"global", k>> \in leftOver
    /\ \A k \in ProjectKeys : OwnRef(override[k]) =>
           Means(override[k]) \/ <<"project", k>> \in leftOver \/ override[k].provider \in sweeping

(* What was counted and checked is what is called: if the configuration    *)
(* has not changed since the claim, a video takes a slot of the provider   *)
(* that is paid for it, and its length is one the model supports, where    *)
(* the durations could be told.  Excused are a video whose own model is    *)
(* off or gone: the default model is called, and the model that is off was *)
(* checked; and a unit whose task names another provider than its project  *)
(* does, with a model of the same name: the project's was checked.  A job  *)
(* of a built-in provider is asked for where its row says.                 *)
RoutesAgree ==
    \A t \in RouteTasks : LET task == routed[t] IN
        /\ StandsAt(t, "called") /\ task.kind # "image" /\ ~task.moved =>
               /\ task.route = task.backend.provider
               /\ task.known # {} /\ ~task.swapped => task.seconds \in SecondsOf[task.backend]
        /\ StandsAt(t, "resumed") /\ ~IsOwn(task.prov) => task.asked = task.prov

\* Both: settings and routes mean what their writer meant.
RoutingIsSound == SettingsKeepTheirMeaning /\ RoutesAgree

(* The docstring of _process_resume_task says that the provider of the row *)
(* is asked, whatever the project names by now: the provider that has the  *)
(* job, if it is still there.  It does not hold: of a user's own provider  *)
(* the payload names no model, and is passed over.                         *)
ResumeAsksItsProvider ==
    \A t \in RouteTasks : LET task == routed[t] IN
        StandsAt(t, "resumed") /\ task.made = task.prov /\ (IsOwn(task.prov) => IsDefined(task.prov)) =>
            task.asked = task.prov
=============================================================================
