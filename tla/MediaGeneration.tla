--------------------------- MODULE MediaGeneration ---------------------------
(***************************************************************************)
(* What the executors of the worker do with one resource (a shot's image,  *)
(* its video, its narration): lib/media_generator.py between the provider, *)
(* the ledger of API calls (usage_repo.py) and the version history         *)
(* (version_manager.py), next to uploads and restores of the same file.    *)
(*                                                                         *)
(* Bytes are named after the writer that made them.  The version manager's *)
(* lock makes each of its operations one action; writes of the file itself *)
(* happen outside of it.  The provider is external: it may answer, refuse, *)
(* lose the answer, or take its time.                                      *)
(***************************************************************************)
EXTENDS Naturals, Sequences

CONSTANTS
    Images,       \* tasks whose backend answers synchronously (image, audio)
    Videos,       \* tasks that submit a job and poll it
    SdkTasks,     \* those of them whose backend sends by the SDK of a provider
    Uploads,      \* manual uploads of the same resource
    Legacy,       \* a file that is there before the version history is
    NoFile,
    MaxTries,     \* max_attempts of with_retry_async
    LadderSteps,  \* LADDER_STEPS: the floor of the reference compression
    MaxFaults     \* bound on crashes, cancellations and failing writes

MediaTasks == Images \cup Videos
Bytes == MediaTasks \cup Uploads \cup {Legacy}

ASSUME MediaAssumption ==
    /\ NoFile \notin Bytes /\ Images \cap Videos = {} /\ SdkTasks \subseteq MediaTasks
    /\ Legacy \notin MediaTasks \cup Uploads /\ MediaTasks \cap Uploads = {}
    /\ MaxTries \in Nat \ {0} /\ LadderSteps \in Nat /\ MaxFaults \in Nat

VARIABLES
    file,        \* the bytes under the canonical path
    versions,    \* versions.json and its files: the bytes of each version
    current,     \* current_version
    gen,         \* program point of a task
    verdict,     \* what the worker records for it
    call,        \* its ApiCall row
    anchored,    \* tasks with api_call_id in their payload
    jobKnown,    \* tasks with a persisted provider_job_id
    jobs,        \* jobs the provider has made for a task
    rung,        \* step of the compression ladder
    tries,       \* attempts of the submit with this payload
    resubmits,   \* how often it was sent again after its answer was lost (history)
    upload,      \* program point of an upload
    excused,     \* tasks that left by a path that does not settle the call
    strayed,     \* the file was written by somebody who left before it got
                 \* a version (history)
    mediaFaults

mediaVars == <<file, versions, current, gen, verdict, call, anchored, jobKnown,
               jobs, rung, tries, resubmits, upload, excused, strayed, mediaFaults>>
disk   == <<file, versions, current, strayed>>
bytes  == <<file, versions, current>>
ledger == <<call, anchored, jobKnown, excused>>
submit == <<jobs, rung, tries, resubmits>>
rest   == <<upload, mediaFaults>>

GenPoints == {"new", "tracked", "called", "ready", "created", "polling", "written",
              "billed", "versioned", "failing", "crashed", "resuming", "rewritten", "over"}

MediaTypeOK ==
    /\ file \in Bytes \cup {NoFile} /\ versions \in Seq(Bytes)
    /\ current \in 0..Len(versions)
    /\ gen \in [MediaTasks -> GenPoints]
    /\ verdict \in [MediaTasks -> {"running", "succeeded", "failed", "cancelled"}]
    /\ call \in [MediaTasks -> {"none", "pending", "success", "failed"}]
    /\ {anchored, jobKnown} \subseteq SUBSET Videos
    /\ {jobs, resubmits} \subseteq [MediaTasks -> Nat] /\ rung \in [MediaTasks -> 0..LadderSteps]
    /\ tries \in [MediaTasks -> 0..MaxTries]
    /\ upload \in [Uploads -> {"new", "tracked", "saved", "over"}]
    /\ excused \subseteq MediaTasks /\ strayed \in BOOLEAN
    /\ mediaFaults \in 0..MaxFaults

MediaInit ==
    /\ file \in {NoFile, Legacy} /\ versions = <<>> /\ current = 0
    /\ gen = [t \in MediaTasks |-> "new"] /\ verdict = [t \in MediaTasks |-> "running"]
    /\ call = [t \in MediaTasks |-> "none"]
    /\ anchored = {} /\ jobKnown = {} /\ excused = {}
    /\ jobs = [t \in MediaTasks |-> 0] /\ rung = [t \in MediaTasks |-> 0]
    /\ tries = [t \in MediaTasks |-> 0] /\ resubmits = [t \in MediaTasks |-> 0]
    /\ upload = [u \in Uploads |-> "new"] /\ strayed = FALSE /\ mediaFaults = 0

At(t, p) == gen' = [gen EXCEPT ![t] = p]
Fault == mediaFaults < MaxFaults /\ mediaFaults' = mediaFaults + 1

-----------------------------------------------------------------------------
(* VersionManager.  Each operation holds the lock of versions.json.         *)

\* Mutant: the number of the new version is taken from the list that already
\* holds it.
AddVersionCountedTwice ==
    /\ file # NoFile
    /\ versions' = Append(versions, file) /\ current' = Len(versions') + 1
    /\ strayed' = FALSE
    /\ UNCHANGED file

AddVersion ==
    /\ file # NoFile      \* a source that is not there is not copied
    /\ versions' = Append(versions, file) /\ current' = Len(versions) + 1
    /\ strayed' = FALSE
    /\ UNCHANGED file

\* Legacy bytes get a version before they are overwritten, but only if the
\* resource has no version at all.
EnsureCurrentTracked ==
    IF file # NoFile /\ current = 0 THEN AddVersion ELSE UNCHANGED disk

\* Mutant: the bytes are put back, the index still names the newer version.
RestoreBytesOnly(v) ==
    /\ v \in DOMAIN versions
    /\ file' = versions[v] /\ strayed' = FALSE
    /\ UNCHANGED <<versions, current, gen, verdict, ledger, submit, rest>>

RestoreVersion(v) ==
    /\ v \in DOMAIN versions
    /\ file' = versions[v] /\ current' = v /\ strayed' = FALSE
    /\ UNCHANGED <<versions, gen, verdict, ledger, submit, rest>>

-----------------------------------------------------------------------------
(* A task: from its executor to the provider.                              *)

\* Each end of a task: what the worker records, and whether its call row may
\* stay pending.
EndTask(t, v) == At(t, "over") /\ verdict' = [verdict EXCEPT ![t] = v]
Excuse(t) == excused' = IF call[t] = "pending" THEN excused \cup {t} ELSE excused

TrackFile(t) ==
    /\ gen[t] = "new" /\ At(t, "tracked")
    /\ EnsureCurrentTracked
    /\ UNCHANGED <<verdict, ledger, submit, rest>>

StartCall(t) ==
    /\ gen[t] = "tracked" /\ At(t, IF t \in Videos THEN "called" ELSE "ready")
    /\ call' = [call EXCEPT ![t] = "pending"]
    /\ UNCHANGED <<disk, verdict, anchored, jobKnown, excused, submit, rest>>

\* persist_api_call_id comes before the submit, inside the try block.
AnchorCall(t) ==
    /\ gen[t] = "called"
    /\ \/ At(t, "ready") /\ anchored' = anchored \cup {t} /\ UNCHANGED mediaFaults
       \/ At(t, "failing") /\ Fault /\ UNCHANGED anchored
    /\ UNCHANGED <<disk, verdict, call, jobKnown, excused, submit, upload>>

\* A request that was never sent, or that the server says it could not serve,
\* is sent again; one whose answer was lost might have made a job.  Backends
\* with a client of their own know the difference; the others go by the type and
\* the text of an exception, and take a lost answer for a transient error.
RetryableSubmit == {"not_sent", "unavailable"}
\* Mutant: a read timeout counts as a request that was not sent.
RetryEvenAmbiguous(t, e) == e \in RetryableSubmit \cup {"ambiguous"}
ShouldRetrySubmit(t, e) == e \in RetryableSubmit \/ (t \in SdkTasks /\ e = "ambiguous")
SubmitErrors == {"not_sent", "unavailable", "ambiguous", "refused", "too_large"}

MakesJob(t, n) == jobs' = [jobs EXCEPT ![t] = @ + n]

SubmitFails(t, e) ==
    /\ gen[t] = "ready"
    /\ IF e = "ambiguous" THEN \E n \in {0, 1} : MakesJob(t, n) ELSE UNCHANGED jobs
    /\ IF ShouldRetrySubmit(t, e) /\ tries[t] + 1 < MaxTries
       THEN /\ tries' = [tries EXCEPT ![t] = @ + 1] /\ UNCHANGED <<gen, rung>>
       ELSE IF e = "too_large" /\ rung[t] < LadderSteps
            THEN \* the pre-check may land deeper than the next step
                 /\ \E r \in rung[t] + 1 .. LadderSteps : rung' = [rung EXCEPT ![t] = r]
                 /\ tries' = [tries EXCEPT ![t] = 0] /\ UNCHANGED gen
            ELSE At(t, "failing") /\ UNCHANGED <<rung, tries>>
    /\ resubmits' = IF e = "ambiguous" /\ gen'[t] = "ready" THEN [resubmits EXCEPT ![t] = @ + 1]
                                                          ELSE resubmits
    /\ UNCHANGED <<disk, verdict, ledger, rest>>

SubmitVideo(t) ==
    /\ gen[t] = "ready" /\ t \in Videos /\ At(t, "created")
    /\ MakesJob(t, 1)
    /\ UNCHANGED <<disk, verdict, ledger, rung, tries, resubmits, rest>>

\* A synchronous backend writes the file before it returns.
GenerateImage(t) ==
    /\ gen[t] = "ready" /\ t \in Images /\ At(t, "written")
    /\ MakesJob(t, 1) /\ file' = t
    /\ UNCHANGED <<versions, current, strayed, verdict, ledger, rung, tries, resubmits, rest>>

PersistJobId(t) ==
    /\ gen[t] = "created"
    /\ \/ At(t, "polling") /\ jobKnown' = jobKnown \cup {t} /\ UNCHANGED mediaFaults
       \/ At(t, "failing") /\ Fault /\ UNCHANGED jobKnown
    /\ UNCHANGED <<disk, verdict, call, anchored, excused, submit, upload>>

\* poll_with_retry and the download: done, or failed, expired, or too late.
PollAndDownload(t) ==
    /\ gen[t] = "polling"
    /\ \/ At(t, "written") /\ file' = t
       \/ At(t, "failing") /\ UNCHANGED file
    /\ UNCHANGED <<versions, current, strayed, verdict, ledger, submit, rest>>

-----------------------------------------------------------------------------
(* The ledger, the version, the metadata.                                  *)

\* finish_call(success): on an error the same call is finished as failed, and
\* the new bytes have no version.
FinishCall(t) ==
    /\ gen[t] = "written"
    /\ \/ /\ At(t, "billed") /\ call' = [call EXCEPT ![t] = "success"]
          /\ UNCHANGED <<strayed, mediaFaults>>
       \/ At(t, "failing") /\ Fault /\ strayed' = TRUE /\ UNCHANGED call
    /\ UNCHANGED <<bytes, verdict, anchored, jobKnown, excused, submit, upload>>

\* Mutant: the error handler re-raises without finishing the call.
FailQuietly(t) ==
    /\ gen[t] = "failing" /\ EndTask(t, "failed")
    /\ UNCHANGED <<disk, ledger, submit, rest>>

FinishFailed(t) ==
    /\ gen[t] = "failing" /\ EndTask(t, "failed")
    /\ \/ call' = [call EXCEPT ![t] = "failed"] /\ UNCHANGED <<excused, mediaFaults>>
       \/ Fault /\ Excuse(t) /\ UNCHANGED call
    /\ UNCHANGED <<disk, anchored, jobKnown, submit, upload>>

AddTaskVersion(t) ==
    /\ gen[t] = "billed" /\ At(t, "versioned")
    /\ AddVersion
    /\ UNCHANGED <<verdict, ledger, submit, rest>>

\* The script takes the asset, unless the shot is gone by now.
FinalizeTask(t) ==
    /\ gen[t] = "versioned"
    /\ EndTask(t, "succeeded") \/ EndTask(t, "failed")
    /\ UNCHANGED <<disk, ledger, submit, rest>>

-----------------------------------------------------------------------------
(* Cancellation, a crash, and what a restarted worker does.                *)

\* CancelledError is no Exception: nothing finishes the call.
CancelTask(t) ==
    /\ gen[t] \notin {"new", "crashed", "over"} /\ Fault
    /\ EndTask(t, "cancelled") /\ Excuse(t)
    /\ strayed' = (strayed \/ gen[t] \in {"written", "billed", "rewritten"})
    /\ UNCHANGED <<bytes, call, anchored, jobKnown, submit, upload>>

\* A crash may cut a restore off between the copy and the index.
CutOff == \/ \E u \in Uploads : upload[u] = "saved"
          \/ \E t \in MediaTasks : gen[t] \in {"written", "billed", "rewritten"}
Crash ==
    /\ Fault
    /\ gen' = [t \in MediaTasks |-> IF gen[t] \in {"new", "over"} THEN gen[t] ELSE "crashed"]
    /\ upload' = [u \in Uploads |-> IF upload[u] = "new" THEN "new" ELSE "over"]
    /\ \/ UNCHANGED file /\ strayed' = (strayed \/ CutOff)
       \/ \E v \in DOMAIN versions : file' = versions[v] /\ strayed' = TRUE
    /\ UNCHANGED <<versions, current, verdict, ledger, submit>>

\* _handle_orphan_tasks_on_start: a known job is resumed, anything else fails.
Recover(t) ==
    /\ gen[t] = "crashed"
    /\ IF t \in jobKnown
       THEN At(t, "resuming") /\ UNCHANGED <<verdict, excused>>
       ELSE EndTask(t, "failed") /\ Excuse(t)
    /\ UNCHANGED <<disk, call, anchored, jobKnown, submit, rest>>

\* finalize_pending_by_call_id: a row that is not pending is not touched.
Settle(t, st) ==
    call' = IF t \in anchored /\ call[t] = "pending" THEN [call EXCEPT ![t] = st] ELSE call

ResumeVideo(t) ==
    /\ gen[t] = "resuming"
    /\ \/ /\ At(t, "rewritten") /\ file' = t
          /\ UNCHANGED <<verdict, call, excused>>
       \/ \* ResumeExpiredError
          EndTask(t, "failed") /\ Settle(t, "failed") /\ UNCHANGED <<file, excused>>
       \/ \* any other error
          EndTask(t, "failed") /\ Excuse(t) /\ UNCHANGED <<file, call>>
    /\ UNCHANGED <<versions, current, strayed, anchored, jobKnown, submit, rest>>

FinalizeResumed(t) ==
    /\ gen[t] = "rewritten"
    /\ \/ At(t, "billed") /\ Settle(t, "success") /\ UNCHANGED <<verdict, excused, strayed, mediaFaults>>
       \/ /\ Fault /\ EndTask(t, "failed") /\ Excuse(t) /\ strayed' = TRUE
          /\ UNCHANGED call
    /\ UNCHANGED <<bytes, anchored, jobKnown, submit, upload>>

-----------------------------------------------------------------------------
(* upload_shot_media: the same order of steps, in threads of its own.      *)

UploadAt(u, p) ==
    /\ upload' = [upload EXCEPT ![u] = p]
    /\ UNCHANGED <<gen, verdict, ledger, submit, mediaFaults>>

UploadTracks(u) == upload[u] = "new" /\ UploadAt(u, "tracked") /\ EnsureCurrentTracked
UploadSaves(u) ==
    /\ upload[u] = "tracked" /\ UploadAt(u, "saved")
    /\ file' = u /\ UNCHANGED <<versions, current, strayed>>
UploadRefused(u) == upload[u] = "tracked" /\ UploadAt(u, "over") /\ UNCHANGED disk
UploadRecords(u) == upload[u] = "saved" /\ UploadAt(u, "over") /\ AddVersion

-----------------------------------------------------------------------------
TaskRuns(t) ==
    \/ TrackFile(t) \/ StartCall(t) \/ AnchorCall(t) \/ SubmitVideo(t) \/ GenerateImage(t)
    \/ \E e \in SubmitErrors : SubmitFails(t, e)
    \/ PersistJobId(t) \/ PollAndDownload(t) \/ FinishCall(t) \/ FinishFailed(t)
    \/ AddTaskVersion(t) \/ FinalizeTask(t)
    \/ Recover(t) \/ ResumeVideo(t) \/ FinalizeResumed(t)

UploadRuns(u) == UploadTracks(u) \/ UploadSaves(u) \/ UploadRefused(u) \/ UploadRecords(u)

MediaNext ==
    \/ \E t \in MediaTasks : TaskRuns(t) \/ CancelTask(t)
    \/ \E u \in Uploads : UploadRuns(u)
    \/ \E v \in DOMAIN versions : RestoreVersion(v)
    \/ Crash

MediaSpec == MediaInit /\ [][MediaNext]_mediaVars

-----------------------------------------------------------------------------
(* Properties.                                                             *)

\* "宁可手动重试、不可重复计费": whatever is lost, retried, compressed again,
\* cancelled or resumed, a task never makes a second job at the provider.  The
\* exception are the backends that send by an SDK: there a submit whose answer
\* was lost is sent again (gemini.py:108 and openai.py:116 of image_backends,
\* gemini.py:150, ark.py:121, openai.py:204 and grok.py:104 of video_backends),
\* and each time may make one job more.
Repeats(t) == IF t \in SdkTasks THEN resubmits[t] ELSE 0
OneJobPerTask == \A t \in MediaTasks : jobs[t] <= 1 + Repeats(t)

\* The ledger follows the provider: a call that is charged has made its job, and
\* no other but those of the exception above; a task that is over has a settled
\* call, unless it left by one of the paths that do not settle it (excused); a
\* success is charged; and a job that can be resumed can be charged.
LedgerFollows ==
    \A t \in MediaTasks :
        /\ call[t] = "success" => jobs[t] \in 1 .. 1 + Repeats(t)
        /\ gen[t] = "over" /\ call[t] = "pending" => t \in excused
        /\ verdict[t] = "succeeded" => call[t] = "success"
        /\ t \in jobKnown => t \in anchored /\ call[t] # "none"

\* When nobody is between writing the file and recording it, the file is the
\* current version, in spite of any interleaving of tasks, uploads and
\* restores; a writer that was cut off in between leaves bytes without a
\* version only until the next version or restore.
Writing == \/ \E t \in MediaTasks : gen[t] \in {"written", "billed", "rewritten"}
           \/ \E u \in Uploads : upload[u] = "saved"
QuietIsTracked ==
    ~Writing /\ ~strayed =>
        \/ current = 0 /\ file \in {NoFile, Legacy}
        \/ current > 0 /\ file = versions[current]
=============================================================================
