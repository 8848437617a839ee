----------------------------- MODULE MCServices -----------------------------
(***************************************************************************)
(* A small instance of the services around the generation queue.  They     *)
(* share no state and are checked side by side: `part` says which one a    *)
(* behaviour is about, the others keep their initial state.                *)
(***************************************************************************)
EXTENDS MediaGeneration, TaskFeed, WorkerLease, ProfileSync,
        ProjectChannel, ProjectFiles, TurnView, ProviderCredentials, VideoBackends, ProviderRouting, ToolGate, OpenQuestions, TLC

CONSTANTS x, v1, i1, u1, t1, t2, w1, w2, e1, e2, e3, ServiceParts, MaxVersions,
          b1, b2, bv1, bv2, bi1, bt1, ov1, ot1, c1, c2, q1, q2, r1, r2

MCBuiltIns == <<b1, b2>>
MCBuiltInModel ==
    (b1 :> [video |-> bv1, image |-> bi1, text |-> bt1]) @@ (b2 :> [video |-> bv2, image |-> NoModel, text |-> NoModel])
\* A user's provider lists a model with the name of a built-in one, bv2.
MCOwnModels == {ov1, bv2, ot1}
MCLaneOf == (ov1 :> "video") @@ (bv2 :> "video") @@ (ot1 :> "text")
OwnList(first, second, text) == (ov1 :> first) @@ (bv2 :> second) @@ (ot1 :> text)
MCOwnLists ==
    {OwnList("default", "none", "on"), OwnList("off", "default", "none"), OwnList("on", "default", "default"),
     OwnList("default", "default", "none")}
MCSecondsOf ==
    [pm \in Answers |-> CASE pm.model = bv1 -> {4, 8}
                          [] pm.model = ov1 -> {4}
                          [] pm.model = bv2 -> IF IsOwn(pm.provider) THEN {8} ELSE {5}
                          [] OTHER -> {}]

MCUndiffed == {<<2, 3>>}

VARIABLE part

servicesVars ==
    <<part, mediaVars, feedVars, leaseVars, syncVars,
      channelVars, filesVars, viewVars, credentialVars, videoVars, routingVars, gateVars, questionVars>>

\* Of the initial states of a part the others need one only, and one release is
\* as good as another.
FirstRelease == CHOOSE r \in Releases : TRUE
MCInit ==
    /\ part \in ServiceParts
    /\ MediaInit /\ (part # "media" => file = Legacy)
    /\ FeedInit /\ (part # "feed" => database = "sqlite")
    /\ LeaseInit
    /\ SyncInit /\ IF part = "profile" THEN \A f \in Files : profile[f] \in {"none", FirstRelease}
                   ELSE profile = Empty
    /\ ChannelInit
    /\ FilesInit /\ (part # "files" => project.bound = CHOOSE f \in ScriptFiles : TRUE)
    /\ ViewInit /\ IF part = "view" THEN uuids # replays ELSE uuids /\ ~replays
    /\ CredentialsInit
    /\ VideoInit /\ (part # "video" => model \in GrokModels /\ ask.images = StartFrame /\ sound)
    /\ RoutingInit /\ (part # "routing" => serials = 0)
    /\ GateInit /\ (part # "gate" => sandboxed /\ json["ledger"] = NoText)
    /\ QuestionsInit

\* A step of one part.
OthersRest(p) ==
    /\ part = p /\ UNCHANGED part
    /\ IF p = "media" THEN TRUE ELSE UNCHANGED mediaVars
    /\ IF p = "feed" THEN TRUE ELSE UNCHANGED feedVars
    /\ IF p = "lease" THEN TRUE ELSE UNCHANGED leaseVars
    /\ IF p = "profile" THEN TRUE ELSE UNCHANGED syncVars
    /\ IF p = "channel" THEN TRUE ELSE UNCHANGED channelVars
    /\ IF p = "files" THEN TRUE ELSE UNCHANGED filesVars
    /\ IF p = "view" THEN TRUE ELSE UNCHANGED viewVars
    /\ IF p = "credentials" THEN TRUE ELSE UNCHANGED credentialVars
    /\ IF p = "video" THEN TRUE ELSE UNCHANGED videoVars
    /\ IF p = "routing" THEN TRUE ELSE UNCHANGED routingVars
    /\ IF p = "gate" THEN TRUE ELSE UNCHANGED gateVars
    /\ IF p = "questions" THEN TRUE ELSE UNCHANGED questionVars

-----------------------------------------------------------------------------
(* Bounds of the instance: of what is alike the first one starts first, and   *)
(* what nobody else can see is not followed next to a fault or an upload.     *)

\* How often a resource gets a new version; a request that is retried or
\* compressed is followed alone.
MediaBounds ==
    /\ Len(versions) <= MaxVersions
    /\ \A t \in MediaTasks : tries[t] + rung[t] > 0 => mediaFaults = 0 /\ \A u \in Uploads : upload[u] = "new"

FeedBounds == row[t1] = 0 /\ open[t1] = 0 => row[t2] = 0 /\ open[t2] = 0
LeaseBounds == taskRow[t1] = "queued" => taskRow[t2] = "queued"
SyncBounds == deploys + userActs + syncFaults <= 3

\* Once a browser joins while the last one leaves, nothing more is claimed of
\* what that channel does.
ChannelBounds == ~orphaned /\ (at["s1"] = "away" => at["s2"] = "away")

\* A third editor works only while nobody has failed.
FilesBounds ==
    /\ editor[e1] = AtRest => editor[e2] = AtRest
    /\ editor[e2] = AtRest \/ editFaults > 0 => editor[e3] = AtRest

\* How far the SDK is ahead of the server.  Once a transcript was read that does
\* not fit the buffer, nothing more is claimed.
ViewBounds == Len(emitted) <= delivered + 1 /\ (viewer = "live" => ~Raced /\ ~Behind)

CredentialsBounds == credReqs[r1] = NoRequest /\ credReqs[r2] = NoRequest => credReqs'[r2] = NoRequest

\* A task reads keys of its own lane, and is followed after two changes only if
\* it is a video that was not at work during the second.
VideoKeysOnly ==
    \A k \in GlobalKeys \ {"video"} : settings[k] = Absent /\ (k \in ProjectKeys => override[k] = Absent)
RoutingBounds ==
    /\ routed[t1].at # "none" => VideoKeysOnly
    /\ changes > 0 /\ routed[t1].at \in {"queued", "claimed", "loaded", "built", "called"} => routed[t1].kind # "image"
    /\ changes > 1 /\ routed[t1].at \in {"claimed", "loaded", "built", "called"} => ~routed[t1].moved

\* Of two calls both may write, the server saves the other file, one is cut off,
\* and a link that no hook looks at breaks the file; a command that a sandbox
\* does not let write is followed alone.
GateBounds ==
    /\ saves["script"] = 0 \/ (saves["ledger"] = 0 /\ saver["ledger"] = NoText)
    /\ saver["script"] # NoText => saver["ledger"] = NoText /\ \A c \in ToolCalls : use[c].at # "checked"
    /\ use[c1].at = "new" => use[c2].at = "new"
    /\ \E c \in ToolCalls : use[c].at # "cut"
    /\ use[c2].asks.tool \in WriteTools => use[c2].asks.name.says # "notes"
    /\ use[c2].at # "new" =>
           /\ saves["script"] = 0 /\ saver["script"] = NoText
           /\ \A c \in ToolCalls : use[c].asks.tool \in WriteTools \cup {"Bash", "none"}
           /\ use[c1].asks.tool \in WriteTools /\ use[c1].asks.name.says = "notes"
                 => use[c1].asks.tool = "Write" /\ use[c1].asks.effect = "breaks"
           /\ sandboxed \/ \A c \in ToolCalls : use[c].asks.tool # "Bash"

QuestionBounds == fate[q1] = "new" => fate[q2] = "new"

MCNext ==
    \/ OthersRest("media") /\ MediaNext /\ MediaBounds'
    \/ OthersRest("feed") /\ FeedNext /\ FeedBounds'
    \/ OthersRest("lease") /\ LeaseNext /\ LeaseBounds'
    \/ OthersRest("profile") /\ SyncNext /\ SyncBounds'
    \/ OthersRest("channel") /\ ChannelNext /\ ChannelBounds'
    \/ OthersRest("files") /\ FilesNext /\ FilesBounds'
    \/ OthersRest("view") /\ ViewNext /\ ViewBounds'
    \/ OthersRest("credentials") /\ CredentialsNext /\ CredentialsBounds
    \/ OthersRest("video") /\ VideoNext
    \/ OthersRest("routing") /\ RoutingNext /\ RoutingBounds'
    \/ OthersRest("gate") /\ GateNext /\ GateBounds'
    \/ OthersRest("questions") /\ QuestionsNext /\ QuestionBounds'

MCSpec == MCInit /\ [][MCNext]_servicesVars
=============================================================================
