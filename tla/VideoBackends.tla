---------------------------- MODULE VideoBackends ----------------------------
(***************************************************************************)
(* One video, from the request to the file, at any of the video backends.  *)
(* A backend declares what images it takes (video_capabilities), the       *)
(* executors clip a request to it, the backend builds the body of the      *)
(* submit from what is left, submits, saves the job id, polls and fetches. *)
(* A submit is paid for, so that a lost reply must not be answered by a    *)
(* second one; the process may end at any point, and another may then ask  *)
(* for the job that was saved.                                             *)
(*                                                                         *)
(* Image 0 is the start frame, the images from 1 on are references.  Every *)
(* limit on references above one is the number ManyRefs.                   *)
(***************************************************************************)
EXTENDS Naturals, FiniteSets

CONSTANTS
    NoCall,
    MaxVideoTries          \* with_retry_async: attempts of a submit

ASSUME VideoAssumption ==
    /\ MaxVideoTries \in Nat \ {0}
    /\ NoCall \notin Nat /\ NoCall \notin [job : 1..MaxVideoTries, sound : BOOLEAN]

VARIABLES
    model,       \* the backend and its model
    ask,         \* the images of the request, and whether they were clipped
    missing,        \* images removed from the disk since
    body,        \* the images in the body of the submit
    callAt,          \* where the call stands
    resumed,     \* this is the call of another process, for a saved job
    tried,       \* attempts of the submit
    unanswered,        \* how many of them had no reply
    providerJobs,        \* what the provider was asked for, one after the other
    known,       \* the number of the job the call polls, 0 before
    saved,       \* the job and the sound setting kept with the task
    sound,       \* the setting for sound, as a call would read it
    result       \* the job of the video and the sound it is billed with

videoVars == <<model, ask, missing, body, callAt, resumed, tried, unanswered, providerJobs, known, saved, sound, result>>

ManyRefs == 2
StartFrame == {0}
References(n) == 1..n

(* What a backend declares for one of its models: whether it takes a start *)
(* frame, how many references, and whether both at once.  t2v: it also     *)
(* makes a video from words alone.                                         *)
Model(family, name, first, refs, both, t2v) ==
    [family |-> family, name |-> name, first |-> first, refs |-> refs, both |-> both, t2v |-> t2v]

KlingModels ==
    {Model("kling", "turbo", TRUE, 0, FALSE, TRUE), Model("kling", "omni", TRUE, ManyRefs, FALSE, TRUE),
     Model("kling", "o1", TRUE, ManyRefs, FALSE, FALSE)}
MiniMaxModels ==
    {Model("minimax", "hailuo", TRUE, 0, FALSE, TRUE), Model("minimax", "fast", TRUE, 0, FALSE, FALSE),
     Model("minimax", "s2v", FALSE, 1, FALSE, FALSE)}
DashScopeModels ==
    {Model("dashscope", "t2v", FALSE, 0, FALSE, TRUE), Model("dashscope", "i2v", TRUE, 0, FALSE, TRUE),
     Model("dashscope", "r2v", FALSE, ManyRefs, FALSE, FALSE), Model("dashscope", "wan-r2v", TRUE, ManyRefs, TRUE, FALSE)}
ViduModels ==
    {Model("vidu", name, TRUE, ManyRefs, FALSE, TRUE) : name \in {"q3-turbo", "q3-pro", "q3-mix"}}
ArkModels == {Model("ark", "seedance-1", TRUE, 0, FALSE, TRUE), Model("ark", "seedance-2", TRUE, ManyRefs, FALSE, TRUE)}
GeminiModels == {Model("gemini", "veo", TRUE, ManyRefs, FALSE, TRUE)}
OpenAIModels == {Model("openai", "sora", TRUE, 1, FALSE, TRUE)}
GrokModels == {Model("grok", "imagine", TRUE, ManyRefs, TRUE, TRUE)}
NewAPIModels == {Model("newapi", "any", TRUE, 0, FALSE, TRUE)}
V2Models == {Model("v2", "any", TRUE, ManyRefs, TRUE, TRUE)}

VideoModels ==
    KlingModels \cup MiniMaxModels \cup DashScopeModels \cup ViduModels \cup ArkModels
        \cup GeminiModels \cup OpenAIModels \cup GrokModels \cup NewAPIModels \cup V2Models

\* Those with no job to come back to.
NotResumable == {"grok", "vidu"}
HttpFamilies == {"kling", "minimax", "dashscope", "vidu", "newapi", "v2"}

(* What the executors ask for: the storyboard as start frame with the      *)
(* pictures of products where the backend takes both, or the references of *)
(* a unit, clipped if the limit of the model is known.                     *)
Clip(n, limit) == IF n > limit THEN limit ELSE n

VideoTasks(m) ==
    {[images |-> StartFrame \cup (IF m.both THEN References(Clip(n, m.refs)) ELSE {}), clipped |-> TRUE] : n \in 0..ManyRefs + 1}

ReferenceTasks(m) ==
    {[images |-> References(Clip(n, m.refs)), clipped |-> TRUE] : n \in 1..ManyRefs + 1}
        \cup {[images |-> References(n), clipped |-> FALSE] : n \in {ManyRefs + 1}}

StartOf(images) == images \cap StartFrame
RefsOf(images) == images \ StartFrame
Readable(images) == images \cap missing = {}
Refused == {NoCall}

(* The images each backend puts into the body, or a refusal to submit.     *)
KlingBody(images) ==
    LET refs == RefsOf(images)
    IN  IF refs # {}
        THEN IF Cardinality(refs) =< model.refs /\ Readable(refs) THEN refs ELSE Refused
        ELSE IF (StartOf(images) = {} /\ ~model.t2v) \/ ~Readable(images) THEN Refused ELSE images

MiniMaxBody(images) ==
    IF model.name = "s2v"
    THEN IF RefsOf(images) # {} /\ Readable({1}) THEN {1} ELSE Refused
    ELSE IF (StartOf(images) = {} /\ ~model.t2v) \/ ~Readable(StartOf(images)) THEN Refused ELSE StartOf(images)

DashScopeBody(images) ==
    LET first == IF model.first THEN StartOf(images) ELSE {}
    IN  IF ~Readable(first) THEN Refused
        ELSE IF model.refs = 0 THEN first
        ELSE IF RefsOf(images) = {} \/ ~Readable(RefsOf(images)) THEN Refused
        ELSE first \cup (RefsOf(images) \cap References(model.refs))

ViduEndpoints ==
    CASE model.name = "q3-turbo" -> {"text", "image", "reference"}
      [] model.name = "q3-pro" -> {"text", "image"}
      [] model.name = "q3-mix" -> {"reference"}

ViduEndpoint(images) ==
    IF RefsOf(images) # {} THEN "reference" ELSE IF StartOf(images) # {} THEN "image" ELSE "text"

ViduBody(images) ==
    LET used == IF RefsOf(images) # {} THEN RefsOf(images) \cap References(ManyRefs) ELSE images
    IN  IF ViduEndpoint(images) \in ViduEndpoints /\ Readable(used \cup StartOf(images)) THEN used ELSE Refused

ArkBody(images) == IF Readable(StartOf(images)) THEN images \ missing ELSE Refused
GeminiBody(images) == IF Readable(images) THEN images ELSE Refused
NewAPIBody(images) == StartOf(images) \ missing
V2Body(images) == images \ missing
OpenAIBody(images) == images \ missing
GrokBody(images) == images \ missing

BodyOf(images) ==
    CASE model.family = "kling" -> KlingBody(images)
      [] model.family = "minimax" -> MiniMaxBody(images)
      [] model.family = "dashscope" -> DashScopeBody(images)
      [] model.family = "vidu" -> ViduBody(images)
      [] model.family = "ark" -> ArkBody(images)
      [] model.family = "gemini" -> GeminiBody(images)
      [] model.family = "openai" -> OpenAIBody(images)
      [] model.family = "grok" -> GrokBody(images)
      [] model.family = "newapi" -> NewAPIBody(images)
      [] model.family = "v2" -> V2Body(images)

-----------------------------------------------------------------------------
JobStates == {"unseen", "running", "succeeded", "failed", "expired", "forgotten"}
MaxJobs == MaxVideoTries
Ends == {"done", "refused", "failed", "expired", "lost"}

VideoTypeOK ==
    /\ model \in VideoModels
    /\ ask \in [images : SUBSET (0..ManyRefs + 1), clipped : BOOLEAN]
    /\ missing \subseteq ask.images /\ body \subseteq ask.images
    /\ callAt \in {"build", "submit", "persist", "poll", "fetch", "down"} \cup Ends
    /\ resumed \in BOOLEAN /\ sound \in BOOLEAN
    /\ tried \in 0..MaxVideoTries /\ unanswered \in 0..MaxVideoTries
    /\ DOMAIN providerJobs \subseteq 1..MaxJobs /\ known \in 0..MaxJobs
    /\ \A j \in DOMAIN providerJobs : providerJobs[j] \in [state : JobStates, sound : BOOLEAN]
    /\ saved = NoCall \/ saved \in [job : 1..MaxJobs, sound : BOOLEAN]
    /\ result = NoCall \/ result \in [job : 1..MaxJobs, sound : BOOLEAN]

VideoInit ==
    /\ model \in VideoModels /\ ask \in VideoTasks(model) \cup ReferenceTasks(model)
    /\ missing = {} /\ body = {} /\ callAt = "build" /\ resumed = FALSE /\ tried = 0 /\ unanswered = 0
    /\ providerJobs = <<>> /\ known = 0 /\ saved = NoCall /\ sound \in BOOLEAN /\ result = NoCall

BuildBody ==
    /\ callAt = "build"
    /\ UNCHANGED <<model, ask, resumed, tried, unanswered, providerJobs, known, saved, sound, result>>
    /\ missing' \in {{}} \cup {{i} : i \in ask.images}
    /\ LET b == BodyOf(ask.images)'
       IN  IF b = Refused THEN callAt' = "refused" /\ body' = {} ELSE callAt' = "submit" /\ body' = b

NewJob == providerJobs' = [j \in 1..Cardinality(DOMAIN providerJobs) + 1 |->
    IF j \in DOMAIN providerJobs THEN providerJobs[j] ELSE [state |-> "unseen", sound |-> sound]]

(* How a submit fails.  "unsent": no connection; "local": the request was  *)
(* never a request; "busy": 408, 425, 429, 5xx, and the provider has made  *)
(* nothing; "denied": another 4xx; "lost": it was sent, and no reply came. *)
SubmitFaults == {"unsent", "local", "busy", "denied", "lost"}

(* submit_post makes a lost reply an AmbiguousSubmitError.                 *)
SubmitPost(e) == IF e = "lost" THEN "ambiguous" ELSE e

\* Mutant: the predicate of the idempotent queries, with no submit_post around the call.
RetryAsIfQuery(e) == e \in {"unsent", "busy", "lost", "ambiguous"}

MayRetrySubmit(e) == e \in {"unsent", "busy"}

(* The predicates of the SDK backends go by the type and the text of an    *)
(* exception, and take many a lost reply for a transient error.            *)
SdkMayRetry(e) == e \in {"unsent", "busy", "lost"}

SubmitCallFails(e) ==
    /\ callAt = "submit"
    /\ tried' = tried + 1
    /\ unanswered' = IF e = "lost" THEN unanswered + 1 ELSE unanswered
    /\ (NewJob /\ e = "lost") \/ UNCHANGED providerJobs
    /\ LET http == model.family \in HttpFamilies
           retried == IF http THEN MayRetrySubmit(SubmitPost(e)) ELSE SdkMayRetry(e)
       IN  \/ retried /\ tried' < MaxVideoTries /\ UNCHANGED callAt
           \/ (~retried \/ tried' = MaxVideoTries \/ (~http /\ e = "lost")) /\ callAt' = "failed"
    /\ UNCHANGED <<model, ask, missing, body, resumed, known, saved, sound, result>>

(* The reply names the job, or does not: then the call fails.              *)
Submitted ==
    /\ callAt = "submit" /\ model.family # "grok"
    /\ NewJob
    /\ \/ /\ known' = Cardinality(DOMAIN providerJobs) + 1
          /\ callAt' = IF model.family \in NotResumable THEN "poll" ELSE "persist"
       \/ model.family \in HttpFamilies \cup {"gemini"} /\ callAt' = "failed" /\ UNCHANGED known
    /\ UNCHANGED <<model, ask, missing, body, resumed, tried, unanswered, saved, sound, result>>

(* The SDK of Grok returns when the video is made.                         *)
GrokGenerates ==
    /\ callAt = "submit" /\ model.family = "grok"
    /\ known' = Cardinality(DOMAIN providerJobs) + 1
    /\ providerJobs' = [j \in 1..known' |-> IF j = known' THEN [state |-> "succeeded", sound |-> sound] ELSE providerJobs[j]]
    /\ callAt' = "fetch"
    /\ UNCHANGED <<model, ask, missing, body, resumed, tried, unanswered, saved, sound, result>>

PersistJob ==
    /\ callAt = "persist"
    /\ \/ saved' = [job |-> known, sound |-> sound] /\ callAt' = "poll"
       \/ callAt' = "failed" /\ UNCHANGED saved
    /\ UNCHANGED <<model, ask, missing, body, resumed, tried, unanswered, providerJobs, known, sound, result>>

(* What a query comes to: the poll goes on ("again"), or the call goes on  *)
(* to fetch the video, fails, or says that the job is expired.  A job that *)
(* has just been made may not be found yet.                                *)
VerdictOf(state, onMissing, onExpired) ==
    CASE state = "running" -> {"again"}
      [] state = "succeeded" -> {"fetch"}
      [] state = "failed" -> {"failed"}
      [] state \in {"unseen", "forgotten"} -> onMissing
      [] state = "expired" -> onExpired

IfResumed(then, otherwise) == IF resumed THEN {then} ELSE {otherwise}

KlingVerdict(state) == VerdictOf(state, {"again", "failed"}, {"again"})
MiniMaxVerdict(state) == VerdictOf(state, {"again", "failed"}, {"again"})
DashScopeVerdict(state) == VerdictOf(state, IfResumed("expired", "again"), IfResumed("expired", "failed"))
ViduVerdict(state) == VerdictOf(state, {"failed"}, {"again"})
ArkVerdict(state) == VerdictOf(state, IfResumed("expired", "failed"), IfResumed("expired", "failed"))
GeminiVerdict(state) == VerdictOf(state, IfResumed("expired", "failed"), IfResumed("expired", "failed"))
OpenAIVerdict(state) == VerdictOf(state, IfResumed("expired", "failed"), IfResumed("expired", "failed"))
NewAPIVerdict(state) == VerdictOf(state, IfResumed("expired", "again"), IfResumed("expired", "failed"))
V2Verdict(state) == VerdictOf(state, IfResumed("expired", "again"), {"failed"})

Verdicts(state) ==
    CASE model.family = "kling" -> KlingVerdict(state)
      [] model.family = "minimax" -> MiniMaxVerdict(state)
      [] model.family = "dashscope" -> DashScopeVerdict(state)
      [] model.family = "vidu" -> ViduVerdict(state)
      [] model.family = "ark" -> ArkVerdict(state)
      [] model.family = "gemini" -> GeminiVerdict(state)
      [] model.family = "openai" -> OpenAIVerdict(state)
      [] model.family = "newapi" -> NewAPIVerdict(state)
      [] model.family = "v2" -> V2Verdict(state)

Poll ==
    /\ callAt = "poll"
    /\ callAt' \in Verdicts(providerJobs[known].state) \ {"again"}
    /\ UNCHANGED <<model, ask, missing, body, resumed, tried, unanswered, providerJobs, known, saved, sound, result>>

(* The wait is over, or the query was denied.                              *)
PollGivesUp ==
    /\ callAt = "poll" /\ callAt' = "failed"
    /\ UNCHANGED <<model, ask, missing, body, resumed, tried, unanswered, providerJobs, known, saved, sound, result>>

(* Kling keeps the sound with the job, the others read the setting again.  *)
SoundBilled == IF resumed /\ model.family = "kling" THEN saved.sound ELSE sound

(* Ark and Gemini ask of a fetch too whether the job is gone.              *)
FetchVideo ==
    /\ callAt = "fetch"
    /\ \/ /\ providerJobs[known].state = "succeeded"
          /\ callAt' = "done" /\ result' = [job |-> known, sound |-> SoundBilled]
       \/ callAt' = "failed" /\ UNCHANGED result
       \/ /\ resumed /\ model.family \in {"ark", "gemini"}
          /\ providerJobs[known].state \in {"expired", "forgotten"}
          /\ callAt' = "expired" /\ UNCHANGED result
    /\ UNCHANGED <<model, ask, missing, body, resumed, tried, unanswered, providerJobs, known, saved, sound>>

(* What a job may come to; by the time a process is up again a new one has *)
(* shown up.                                                               *)
ProviderStep(j) ==
    /\ callAt \in {"poll", "fetch", "down"}
    /\ \E s \in JobStates :
        /\ \/ providerJobs[j].state = "unseen" /\ s = "running"
           \/ providerJobs[j].state = "running" /\ s \in {"succeeded", "failed"}
           \/ providerJobs[j].state \in {"running", "succeeded", "failed"} /\ s \in {"expired", "forgotten"}
        /\ providerJobs' = [providerJobs EXCEPT ![j].state = s]
    /\ UNCHANGED <<model, ask, missing, body, callAt, resumed, tried, unanswered, known, saved, sound, result>>

VideoCrash ==
    /\ callAt \in {"submit", "persist", "poll", "fetch"} /\ ~resumed
    /\ callAt' = "down"
    /\ (callAt = "submit" /\ NewJob) \/ UNCHANGED providerJobs
    /\ UNCHANGED <<model, ask, missing, body, resumed, tried, unanswered, known, saved, sound, result>>

(* The orphan scan of the next process.                                    *)
Resume ==
    /\ callAt = "down"
    /\ \A j \in DOMAIN providerJobs : providerJobs[j].state # "unseen"
    /\ sound' \in BOOLEAN
    /\ IF saved = NoCall \/ model.family \in NotResumable
       THEN callAt' = "lost" /\ UNCHANGED <<resumed, known>>
       ELSE callAt' = "poll" /\ resumed' = TRUE /\ known' = saved.job
    /\ UNCHANGED <<model, ask, missing, body, tried, unanswered, providerJobs, saved, result>>

VideoNext ==
    \/ BuildBody \/ (\E e \in SubmitFaults : SubmitCallFails(e)) \/ Submitted \/ GrokGenerates \/ PersistJob
    \/ Poll \/ PollGivesUp \/ FetchVideo \/ (\E j \in DOMAIN providerJobs : ProviderStep(j)) \/ VideoCrash \/ Resume

VideoSpec == VideoInit /\ [][VideoNext]_videoVars

-----------------------------------------------------------------------------
(***************************************************************************)
(* What is paid for is one job, whose video is the result.  An HTTP        *)
(* backend never makes a second job, an SDK backend only after a reply was *)
(* lost; the video is of the job that was saved, or the last one, and it   *)
(* is billed with the sound it was made with, unless the setting changed   *)
(* before a resume and the backend does not keep it; a call says "expired" *)
(* only of a saved job the provider gave up; and no image that was asked   *)
(* for within the limits and is still there is missing from the body, but  *)
(* for the storyboard at a DashScope model that takes none.                *)
(***************************************************************************)
OneVideoIsPaid ==
    /\ Cardinality(DOMAIN providerJobs) =< 1 + (IF model.family \in HttpFamilies THEN 0 ELSE unanswered)
    /\ result # NoCall =>
           /\ result.job = IF resumed THEN saved.job ELSE Cardinality(DOMAIN providerJobs)
           /\ result.sound = providerJobs[result.job].sound \/ (resumed /\ model.family # "kling")
    /\ callAt = "expired" => resumed /\ providerJobs[saved.job].state \in {"expired", "forgotten"}
    /\ callAt \in {"submit", "persist", "poll", "fetch", "done"} /\ ask.clipped =>
           ask.images \ missing \subseteq body \cup (IF model.first THEN {} ELSE StartFrame)
=============================================================================
