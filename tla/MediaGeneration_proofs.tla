------------------------- MODULE MediaGeneration_proofs -------------------------
(***************************************************************************)
(* One job per task, the ledger and the version history, for any number of *)
(* tasks and uploads, any number of tries and of faults.                   *)
(*                                                                         *)
(* TaskInv follows a task along its program points: where it has no job    *)
(* yet, where it has one, what its call row says there, and when a crash   *)
(* may be followed by a resume.  The version history needs no more than    *)
(* QuietIsTracked itself, which every step preserves.                      *)
(*                                                                         *)
(* The third part is ProviderRouting: what the resolver answers for each   *)
(* slot, and RouteInv, which follows a task from one look at the           *)
(* configuration to the next.                                              *)
(***************************************************************************)
EXTENDS MediaGeneration, VideoBackends, ProviderRouting, FiniteSetTheorems, WellFoundedInduction, TLAPS

Unsubmitted == {"new", "tracked", "called", "ready"}
HasJob == {"created", "polling", "written", "billed", "versioned", "resuming", "rewritten"}
Resumable == {"resuming", "rewritten"}

JobInv(t) ==
    /\ t \notin SdkTasks => resubmits[t] = 0
    /\ jobs[t] <= 1 + resubmits[t]
    /\ gen[t] \in Unsubmitted => jobs[t] <= resubmits[t]
    /\ gen[t] \in HasJob => jobs[t] >= 1
    /\ t \in jobKnown => jobs[t] >= 1 /\ t \in anchored
    /\ gen[t] \in {"called", "created", "polling"} => t \in Videos
    /\ gen[t] = "created" => t \in anchored
    /\ gen[t] = "ready" /\ t \in Videos => t \in anchored
    /\ gen[t] \in Resumable => t \in jobKnown
CallInv(t) ==
    /\ gen[t] \in {"new", "tracked"} => call[t] = "none"
    /\ gen[t] \in {"called", "ready", "created", "polling", "written", "failing"}
         => call[t] = "pending"
    /\ gen[t] \in {"billed", "versioned"} => call[t] = "success"
    /\ t \in jobKnown /\ gen[t] \in Resumable \cup {"crashed"} => call[t] \in {"pending", "success"}
    /\ t \in jobKnown => call[t] # "none"
    /\ call[t] = "success" => jobs[t] >= 1
    /\ gen[t] = "over" /\ call[t] = "pending" => t \in excused
    /\ gen[t] # "over" => verdict[t] = "running"
    /\ verdict[t] = "succeeded" => call[t] = "success"
TaskInv(t) == JobInv(t) /\ CallInv(t)

MediaInv == MediaTypeOK /\ QuietIsTracked /\ \A t \in MediaTasks : TaskInv(t)

-----------------------------------------------------------------------------
\* A task on which a step has no bearing.
Untouched(t) ==
    /\ gen'[t] = gen[t] /\ verdict'[t] = verdict[t] /\ call'[t] = call[t] /\ jobs'[t] = jobs[t]
    /\ resubmits'[t] = resubmits[t]
    /\ t \in anchored' <=> t \in anchored
    /\ t \in jobKnown' <=> t \in jobKnown
    /\ t \in excused' <=> t \in excused

LEMMA UntouchedKeeps ==
    ASSUME NEW t \in MediaTasks, TaskInv(t), Untouched(t) PROVE TaskInv(t)'
BY DEF Untouched, TaskInv, JobInv, CallInv

\* What the operations of the version manager do to the history.
LEMMA AddVersionKeeps ==
    ASSUME MediaTypeOK, AddVersion
    PROVE  /\ versions' \in Seq(Bytes) /\ current' \in 1..Len(versions')
           /\ versions'[current'] = file /\ file' = file /\ file \in Bytes /\ strayed' = FALSE
<1>1. file \in Bytes /\ versions \in Seq(Bytes)
    BY DEF MediaTypeOK, AddVersion
<1>2. versions' = Append(versions, file) /\ current' = Len(versions) + 1
    BY DEF AddVersion
<1> QED
    BY <1>1, <1>2 DEF AddVersion

LEMMA TrackKeeps ==
    ASSUME MediaTypeOK, EnsureCurrentTracked
    PROVE  /\ versions' \in Seq(Bytes) /\ current' \in 0..Len(versions') /\ file' = file
           /\ strayed' \in BOOLEAN
           /\ UNCHANGED disk \/ (~strayed' /\ current' > 0 /\ versions'[current'] = file)
<1>1. CASE file # NoFile /\ current = 0
    BY <1>1, AddVersionKeeps DEF EnsureCurrentTracked
<1>2. CASE ~(file # NoFile /\ current = 0)
    BY <1>2 DEF EnsureCurrentTracked, disk, MediaTypeOK
<1> QED
    BY <1>1, <1>2

LEMMA MediaInit1 == MediaInit => MediaInv
<1> SUFFICES ASSUME MediaInit
             PROVE  MediaInv
    OBVIOUS
<1>1. MediaTypeOK
    <2>1. versions \in Seq(Bytes) /\ Len(versions) = 0 /\ current = 0
        BY DEF MediaInit
    <2>2. rung \in [MediaTasks -> 0..LadderSteps] /\ tries \in [MediaTasks -> 0..MaxTries]
          /\ mediaFaults \in 0..MaxFaults
        BY MediaAssumption DEF MediaInit
    <2>3. {anchored, jobKnown} \subseteq SUBSET Videos /\ excused \subseteq MediaTasks
        BY DEF MediaInit
    <2>4. /\ gen \in [MediaTasks -> GenPoints]
          /\ verdict \in [MediaTasks -> {"running", "succeeded", "failed", "cancelled"}]
          /\ call \in [MediaTasks -> {"none", "pending", "success", "failed"}]
          /\ {jobs, resubmits} \subseteq [MediaTasks -> Nat]
          /\ upload \in [Uploads -> {"new", "tracked", "saved", "over"}]
        BY DEF MediaInit, GenPoints
    <2>5. file \in Bytes \cup {NoFile} /\ strayed \in BOOLEAN
        BY DEF MediaInit, Bytes
    <2> QED
        BY <2>1, <2>2, <2>3, <2>4, <2>5 DEF MediaTypeOK
<1>2. \A t \in MediaTasks : TaskInv(t)
    BY DEF MediaInit, TaskInv, JobInv, CallInv, Unsubmitted, HasJob, Resumable
<1>3. QuietIsTracked
    BY DEF MediaInit, QuietIsTracked
<1> QED
    BY <1>1, <1>2, <1>3 DEF MediaInv

\* The points, the call and the jobs of a task, along its steps and the others'.
LEMMA TaskInvStep ==
    ASSUME MediaTypeOK, \A t \in MediaTasks : TaskInv(t), [MediaNext]_mediaVars,
           NEW s \in MediaTasks
    PROVE  TaskInv(s)'
<1> USE MediaAssumption DEF MediaTypeOK, disk, bytes, ledger, submit, rest
<1>0. CASE UNCHANGED mediaVars
    BY <1>0, UntouchedKeeps DEF mediaVars, Untouched
<1>1. ASSUME NEW t \in MediaTasks, TrackFile(t) PROVE TaskInv(s)'
    <2>1. CASE s = t
        BY <1>1, <2>1
        DEF TrackFile, At, TaskInv, JobInv, CallInv, Unsubmitted, HasJob, Resumable
    <2>2. CASE s # t
        BY <1>1, <2>2, UntouchedKeeps DEF TrackFile, At, Untouched
    <2> QED
        BY <2>1, <2>2
<1>2. ASSUME NEW t \in MediaTasks, StartCall(t) PROVE TaskInv(s)'
    <2>1. CASE s = t
        BY <1>2, <2>1
        DEF StartCall, At, TaskInv, JobInv, CallInv, Unsubmitted, HasJob, Resumable
    <2>2. CASE s # t
        BY <1>2, <2>2, UntouchedKeeps DEF StartCall, At, Untouched
    <2> QED
        BY <2>1, <2>2
<1>3. ASSUME NEW t \in MediaTasks, AnchorCall(t) PROVE TaskInv(s)'
    <2>1. CASE s = t
        BY <1>3, <2>1
        DEF AnchorCall, At, TaskInv, JobInv, CallInv, Unsubmitted, HasJob, Resumable
    <2>2. CASE s # t
        BY <1>3, <2>2, UntouchedKeeps DEF AnchorCall, At, Untouched
    <2> QED
        BY <2>1, <2>2
<1>4. ASSUME NEW t \in MediaTasks, SubmitVideo(t) PROVE TaskInv(s)'
    <2>1. CASE s = t
        BY <1>4, <2>1
        DEF SubmitVideo, MakesJob, At, TaskInv, JobInv, CallInv, Unsubmitted, HasJob,
            Resumable
    <2>2. CASE s # t
        BY <1>4, <2>2, UntouchedKeeps DEF SubmitVideo, MakesJob, At, Untouched
    <2> QED
        BY <2>1, <2>2
<1>5. ASSUME NEW t \in MediaTasks, GenerateImage(t) PROVE TaskInv(s)'
    <2>1. CASE s = t
        BY <1>5, <2>1
        DEF GenerateImage, MakesJob, At, TaskInv, JobInv, CallInv, Unsubmitted, HasJob,
            Resumable
    <2>2. CASE s # t
        BY <1>5, <2>2, UntouchedKeeps DEF GenerateImage, MakesJob, At, Untouched
    <2> QED
        BY <2>1, <2>2
<1>6. ASSUME NEW t \in MediaTasks, NEW e \in SubmitErrors, SubmitFails(t, e)
      PROVE  TaskInv(s)'
    <2>1. CASE s = t
        <3>1. gen[t] = "ready" /\ gen'[t] \in {"ready", "failing"} /\ TaskInv(t)
              /\ UNCHANGED <<verdict, call, anchored, jobKnown, excused>>
            BY <1>6 DEF SubmitFails, At
        <3>2. jobs[t] \in Nat /\ resubmits[t] \in Nat
            OBVIOUS
        <3>3. CASE e = "ambiguous" /\ gen'[t] = "ready"
            <4>1. t \in SdkTasks
                BY <1>6, <3>3 DEF SubmitFails, ShouldRetrySubmit, RetryableSubmit, At
            <4>2. jobs'[t] \in {jobs[t], jobs[t] + 1} /\ resubmits'[t] = resubmits[t] + 1
                BY <1>6, <3>3 DEF SubmitFails, MakesJob
            <4> QED
                BY <2>1, <3>1, <3>2, <3>3, <4>1, <4>2
                DEF TaskInv, JobInv, CallInv, Unsubmitted, HasJob, Resumable
        <3>4. CASE ~(e = "ambiguous" /\ gen'[t] = "ready")
            <4>1. resubmits'[t] = resubmits[t] /\ jobs'[t] \in {jobs[t], jobs[t] + 1}
                  /\ (gen'[t] = "ready" => jobs'[t] = jobs[t])
                BY <1>6, <3>4 DEF SubmitFails, MakesJob
            <4> QED
                BY <2>1, <3>1, <3>2, <4>1
                DEF TaskInv, JobInv, CallInv, Unsubmitted, HasJob, Resumable
        <3> QED
            BY <3>3, <3>4
    <2>2. CASE s # t
        BY <1>6, <2>2, UntouchedKeeps
        DEF SubmitFails, MakesJob, SubmitErrors, ShouldRetrySubmit, RetryableSubmit,
            At, Untouched
    <2> QED
        BY <2>1, <2>2
<1>7. ASSUME NEW t \in MediaTasks, PersistJobId(t) PROVE TaskInv(s)'
    <2>1. CASE s = t
        BY <1>7, <2>1
        DEF PersistJobId, At, TaskInv, JobInv, CallInv, Unsubmitted, HasJob, Resumable
    <2>2. CASE s # t
        BY <1>7, <2>2, UntouchedKeeps DEF PersistJobId, At, Untouched
    <2> QED
        BY <2>1, <2>2
<1>8. ASSUME NEW t \in MediaTasks, PollAndDownload(t) PROVE TaskInv(s)'
    <2>1. CASE s = t
        BY <1>8, <2>1
        DEF PollAndDownload, At, TaskInv, JobInv, CallInv, Unsubmitted, HasJob,
            Resumable
    <2>2. CASE s # t
        BY <1>8, <2>2, UntouchedKeeps DEF PollAndDownload, At, Untouched
    <2> QED
        BY <2>1, <2>2
<1>9. ASSUME NEW t \in MediaTasks, FinishCall(t) PROVE TaskInv(s)'
    <2>1. CASE s = t
        BY <1>9, <2>1
        DEF FinishCall, At, TaskInv, JobInv, CallInv, Unsubmitted, HasJob, Resumable
    <2>2. CASE s # t
        BY <1>9, <2>2, UntouchedKeeps DEF FinishCall, At, Untouched
    <2> QED
        BY <2>1, <2>2
<1>10. ASSUME NEW t \in MediaTasks, FinishFailed(t) PROVE TaskInv(s)'
    <2>1. CASE s = t
        BY <1>10, <2>1
        DEF FinishFailed, EndTask, Excuse, At, TaskInv, JobInv, CallInv, Unsubmitted,
            HasJob, Resumable
    <2>2. CASE s # t
        BY <1>10, <2>2, UntouchedKeeps DEF FinishFailed, EndTask, Excuse, At, Untouched
    <2> QED
        BY <2>1, <2>2
<1>11. ASSUME NEW t \in MediaTasks, AddTaskVersion(t) PROVE TaskInv(s)'
    <2>1. CASE s = t
        BY <1>11, <2>1
        DEF AddTaskVersion, At, TaskInv, JobInv, CallInv, Unsubmitted, HasJob,
            Resumable
    <2>2. CASE s # t
        BY <1>11, <2>2, UntouchedKeeps DEF AddTaskVersion, At, Untouched
    <2> QED
        BY <2>1, <2>2
<1>12. ASSUME NEW t \in MediaTasks, FinalizeTask(t) PROVE TaskInv(s)'
    <2>1. CASE s = t
        BY <1>12, <2>1
        DEF FinalizeTask, EndTask, At, TaskInv, JobInv, CallInv, Unsubmitted, HasJob,
            Resumable
    <2>2. CASE s # t
        BY <1>12, <2>2, UntouchedKeeps DEF FinalizeTask, EndTask, At, Untouched
    <2> QED
        BY <2>1, <2>2
<1>13. ASSUME NEW t \in MediaTasks, Recover(t) PROVE TaskInv(s)'
    <2>1. CASE s = t
        BY <1>13, <2>1
        DEF Recover, EndTask, Excuse, At, TaskInv, JobInv, CallInv, Unsubmitted,
            HasJob, Resumable
    <2>2. CASE s # t
        BY <1>13, <2>2, UntouchedKeeps DEF Recover, EndTask, Excuse, At, Untouched
    <2> QED
        BY <2>1, <2>2
<1>14. ASSUME NEW t \in MediaTasks, ResumeVideo(t) PROVE TaskInv(s)'
    <2>1. CASE s = t
        BY <1>14, <2>1
        DEF ResumeVideo, EndTask, Settle, Excuse, At, TaskInv, JobInv, CallInv,
            Unsubmitted, HasJob, Resumable
    <2>2. CASE s # t
        <3>1. Untouched(s)
            BY <1>14, <2>2 DEF ResumeVideo, EndTask, Settle, Excuse, At, Untouched
        <3> QED
            BY <3>1, UntouchedKeeps
    <2> QED
        BY <2>1, <2>2
<1>15. ASSUME NEW t \in MediaTasks, FinalizeResumed(t) PROVE TaskInv(s)'
    <2>1. CASE s = t
        BY <1>15, <2>1
        DEF FinalizeResumed, EndTask, Settle, Excuse, At, TaskInv, JobInv, CallInv,
            Unsubmitted, HasJob, Resumable
    <2>2. CASE s # t
        BY <1>15, <2>2, UntouchedKeeps
        DEF FinalizeResumed, EndTask, Settle, Excuse, At, Untouched
    <2> QED
        BY <2>1, <2>2
<1>16. ASSUME NEW t \in MediaTasks, CancelTask(t) PROVE TaskInv(s)'
    <2>1. CASE s = t
        BY <1>16, <2>1
        DEF CancelTask, EndTask, Excuse, At, TaskInv, JobInv, CallInv, Unsubmitted,
            HasJob, Resumable
    <2>2. CASE s # t
        BY <1>16, <2>2, UntouchedKeeps DEF CancelTask, EndTask, Excuse, At, Untouched
    <2> QED
        BY <2>1, <2>2
<1>17. ASSUME NEW u \in Uploads, UploadRuns(u) PROVE TaskInv(s)'
    BY <1>17, UntouchedKeeps
    DEF UploadRuns, UploadTracks, UploadSaves, UploadRefused, UploadRecords, UploadAt, Untouched
<1>18. ASSUME NEW v \in DOMAIN versions, RestoreVersion(v) PROVE TaskInv(s)'
    BY <1>18, UntouchedKeeps DEF RestoreVersion, Untouched
<1>19. CASE Crash
    <2>1. (gen'[s] = gen[s] /\ gen[s] \in {"new", "over"}) \/ gen'[s] = "crashed"
        BY <1>19 DEF Crash
    <2>2. gen'[s] = "crashed" => gen[s] # "over"
        BY <1>19 DEF Crash
    <2>3. UNCHANGED <<verdict, call, anchored, jobKnown, excused, jobs, resubmits>>
        BY <1>19 DEF Crash
    <2>4. CASE gen'[s] = gen[s]
        BY <2>3, <2>4, UntouchedKeeps DEF Untouched
    <2>5. CASE gen'[s] = "crashed" /\ gen[s] \notin {"new", "over"}
        <3>1. JobInv(s)'
            BY <2>3, <2>5 DEF TaskInv, JobInv, Unsubmitted, HasJob, Resumable
        <3>2. s \in jobKnown => call[s] \in {"pending", "success"}
            BY <2>5 DEF TaskInv, JobInv, CallInv, Unsubmitted, HasJob, Resumable, GenPoints
        <3>3. CallInv(s)'
            BY <2>3, <2>5, <3>2 DEF TaskInv, CallInv, Resumable
        <3> QED
            BY <3>1, <3>3 DEF TaskInv
    <2> QED
        BY <1>19, <2>1, <2>2, <2>4, <2>5 DEF Crash
<1> QED
    BY <1>0, <1>1, <1>2, <1>3, <1>4, <1>5, <1>6, <1>7, <1>8, <1>9, <1>10, <1>11, <1>12, <1>13, <1>14, <1>15, <1>16, <1>17, <1>18, <1>19
    DEF MediaNext, TaskRuns

\* Each step keeps the types; that a resumable job is a video's is in TaskInv.
LEMMA MediaTypeStep ==
    ASSUME MediaTypeOK, \A t \in MediaTasks : TaskInv(t), [MediaNext]_mediaVars
    PROVE  MediaTypeOK'
<1> USE MediaAssumption DEF disk, bytes, ledger, submit, rest
<1>0. CASE UNCHANGED mediaVars
    BY <1>0 DEF mediaVars, MediaTypeOK
<1>1. ASSUME NEW t \in MediaTasks, TrackFile(t) PROVE MediaTypeOK'
    <2>1. EnsureCurrentTracked /\ UNCHANGED <<verdict, ledger, submit, rest>>
        BY <1>1 DEF TrackFile
    <2>2. /\ versions' \in Seq(Bytes) /\ current' \in 0..Len(versions')
          /\ file' = file /\ strayed' \in BOOLEAN
        BY <2>1, TrackKeeps
    <2>3. gen' \in [MediaTasks -> GenPoints]
        BY <1>1 DEF TrackFile, At, MediaTypeOK, GenPoints
    <2> QED
        BY <2>1, <2>2, <2>3 DEF MediaTypeOK
<1>2. ASSUME NEW t \in MediaTasks, StartCall(t) PROVE MediaTypeOK'
    <2>1. TaskInv(t)
        OBVIOUS
    <2> QED
        BY <1>2, <2>1 DEF StartCall, At, MediaTypeOK, GenPoints, TaskInv, JobInv
<1>3. ASSUME NEW t \in MediaTasks, AnchorCall(t) PROVE MediaTypeOK'
    <2>1. TaskInv(t)
        OBVIOUS
    <2>2. gen' \in [MediaTasks -> GenPoints]
        BY <1>3 DEF AnchorCall, Fault, At, MediaTypeOK, GenPoints
    <2>3. /\ verdict' \in [MediaTasks -> {"running", "succeeded", "failed", "cancelled"}]
          /\ call' \in [MediaTasks -> {"none", "pending", "success", "failed"}]
        BY <1>3 DEF AnchorCall, Fault, At, MediaTypeOK, GenPoints
    <2>4. {anchored', jobKnown'} \subseteq SUBSET Videos /\ excused' \subseteq MediaTasks
        BY <1>3, <2>1 DEF AnchorCall, Fault, At, MediaTypeOK, GenPoints, TaskInv, JobInv
    <2>5. mediaFaults' \in 0..MaxFaults
        BY <1>3 DEF AnchorCall, Fault, At, MediaTypeOK, GenPoints
    <2>6. /\ {jobs', resubmits'} \subseteq [MediaTasks -> Nat]
          /\ rung' \in [MediaTasks -> 0..LadderSteps]
          /\ tries' \in [MediaTasks -> 0..MaxTries]
        BY <1>3 DEF AnchorCall, Fault, At, MediaTypeOK, GenPoints
    <2>7. strayed' \in BOOLEAN /\ file' \in Bytes \cup {NoFile}
        BY <1>3 DEF AnchorCall, Fault, At, MediaTypeOK, GenPoints
    <2> QED
        BY <1>3, <2>2, <2>3, <2>4, <2>5, <2>6, <2>7 DEF AnchorCall, MediaTypeOK
<1>4. ASSUME NEW t \in MediaTasks, SubmitVideo(t) PROVE MediaTypeOK'
    <2>1. TaskInv(t)
        OBVIOUS
    <2> QED
        BY <1>4, <2>1 DEF SubmitVideo, MakesJob, At, MediaTypeOK, GenPoints, TaskInv, JobInv
<1>5. ASSUME NEW t \in MediaTasks, GenerateImage(t) PROVE MediaTypeOK'
    <2>1. TaskInv(t)
        OBVIOUS
    <2>2. gen' \in [MediaTasks -> GenPoints]
        BY <1>5 DEF GenerateImage, At, MediaTypeOK, GenPoints
    <2>3. jobs' \in [MediaTasks -> Nat] /\ file' \in Bytes
        BY <1>5 DEF GenerateImage, MakesJob, MediaTypeOK, Bytes
    <2> QED
        BY <1>5, <2>2, <2>3 DEF GenerateImage, MediaTypeOK
<1>6. ASSUME NEW t \in MediaTasks, NEW e \in SubmitErrors, SubmitFails(t, e)
      PROVE  MediaTypeOK'
    <2>1. TaskInv(t)
        OBVIOUS
    <2>2. gen' \in [MediaTasks -> GenPoints]
        BY <1>6
        DEF SubmitFails, MakesJob, SubmitErrors, ShouldRetrySubmit, RetryableSubmit,
            At, MediaTypeOK, GenPoints
    <2>3. /\ verdict' \in [MediaTasks -> {"running", "succeeded", "failed", "cancelled"}]
          /\ call' \in [MediaTasks -> {"none", "pending", "success", "failed"}]
        BY <1>6
        DEF SubmitFails, MakesJob, SubmitErrors, ShouldRetrySubmit, RetryableSubmit,
            At, MediaTypeOK, GenPoints
    <2>4. {anchored', jobKnown'} \subseteq SUBSET Videos /\ excused' \subseteq MediaTasks
        BY <1>6, <2>1
        DEF SubmitFails, MakesJob, SubmitErrors, ShouldRetrySubmit, RetryableSubmit,
            At, MediaTypeOK, GenPoints, TaskInv, JobInv
    <2>5. mediaFaults' \in 0..MaxFaults
        BY <1>6
        DEF SubmitFails, MakesJob, SubmitErrors, ShouldRetrySubmit, RetryableSubmit,
            At, MediaTypeOK, GenPoints
    <2>6. /\ {jobs', resubmits'} \subseteq [MediaTasks -> Nat]
          /\ rung' \in [MediaTasks -> 0..LadderSteps]
          /\ tries' \in [MediaTasks -> 0..MaxTries]
        <3>1. jobs' \in [MediaTasks -> Nat]
            <4>1. jobs' = jobs \/ \E n \in {0, 1} : jobs' = [jobs EXCEPT ![t] = @ + n]
                BY <1>6 DEF SubmitFails, MakesJob
            <4>2. ASSUME NEW n \in {0, 1}, jobs' = [jobs EXCEPT ![t] = @ + n]
                  PROVE  jobs' \in [MediaTasks -> Nat]
                <5>1. jobs[t] + n \in Nat
                    BY DEF MediaTypeOK
                <5> QED
                    BY <4>2, <5>1 DEF MediaTypeOK
            <4>3. jobs' = jobs => jobs' \in [MediaTasks -> Nat]
                BY DEF MediaTypeOK
            <4> QED
                BY <4>1, <4>2, <4>3
        <3>2. \/ tries' = [tries EXCEPT ![t] = @ + 1] /\ tries[t] + 1 < MaxTries /\ rung' = rung
              \/ /\ \E r \in rung[t] + 1 .. LadderSteps : rung' = [rung EXCEPT ![t] = r]
                 /\ tries' = [tries EXCEPT ![t] = 0]
              \/ UNCHANGED <<rung, tries>>
            BY <1>6 DEF SubmitFails
        <3>3. rung' \in [MediaTasks -> 0..LadderSteps]
            BY <3>2 DEF MediaTypeOK
        <3>4. tries' \in [MediaTasks -> 0..MaxTries]
            BY <3>2 DEF MediaTypeOK
        <3>5. resubmits' \in [MediaTasks -> Nat]
            <4>1. resubmits' = resubmits \/ resubmits' = [resubmits EXCEPT ![t] = @ + 1]
                BY <1>6 DEF SubmitFails
            <4>2. resubmits[t] + 1 \in Nat
                BY DEF MediaTypeOK
            <4> QED
                BY <4>1, <4>2 DEF MediaTypeOK
        <3> QED
            BY <3>1, <3>3, <3>4, <3>5
    <2>7. strayed' \in BOOLEAN /\ file' \in Bytes \cup {NoFile}
        BY <1>6
        DEF SubmitFails, MakesJob, SubmitErrors, ShouldRetrySubmit, RetryableSubmit,
            At, MediaTypeOK, GenPoints
    <2> QED
        BY <1>6, <2>2, <2>3, <2>4, <2>5, <2>6, <2>7 DEF SubmitFails, MediaTypeOK
<1>7. ASSUME NEW t \in MediaTasks, PersistJobId(t) PROVE MediaTypeOK'
    <2>1. TaskInv(t)
        OBVIOUS
    <2>2. gen' \in [MediaTasks -> GenPoints]
        BY <1>7 DEF PersistJobId, Fault, At, MediaTypeOK, GenPoints
    <2>3. /\ verdict' \in [MediaTasks -> {"running", "succeeded", "failed", "cancelled"}]
          /\ call' \in [MediaTasks -> {"none", "pending", "success", "failed"}]
        BY <1>7 DEF PersistJobId, Fault, At, MediaTypeOK, GenPoints
    <2>4. {anchored', jobKnown'} \subseteq SUBSET Videos /\ excused' \subseteq MediaTasks
        BY <1>7, <2>1 DEF PersistJobId, Fault, At, MediaTypeOK, GenPoints, TaskInv, JobInv
    <2>5. mediaFaults' \in 0..MaxFaults
        BY <1>7 DEF PersistJobId, Fault, At, MediaTypeOK, GenPoints
    <2>6. /\ {jobs', resubmits'} \subseteq [MediaTasks -> Nat]
          /\ rung' \in [MediaTasks -> 0..LadderSteps]
          /\ tries' \in [MediaTasks -> 0..MaxTries]
        BY <1>7 DEF PersistJobId, Fault, At, MediaTypeOK, GenPoints
    <2>7. strayed' \in BOOLEAN /\ file' \in Bytes \cup {NoFile}
        BY <1>7 DEF PersistJobId, Fault, At, MediaTypeOK, GenPoints
    <2> QED
        BY <1>7, <2>2, <2>3, <2>4, <2>5, <2>6, <2>7 DEF PersistJobId, MediaTypeOK
<1>8. ASSUME NEW t \in MediaTasks, PollAndDownload(t) PROVE MediaTypeOK'
    <2>1. TaskInv(t)
        OBVIOUS
    <2> QED
        BY <1>8, <2>1 DEF PollAndDownload, At, MediaTypeOK, GenPoints, TaskInv, JobInv, Bytes
<1>9. ASSUME NEW t \in MediaTasks, FinishCall(t) PROVE MediaTypeOK'
    <2>1. TaskInv(t)
        OBVIOUS
    <2>2. gen' \in [MediaTasks -> GenPoints]
        BY <1>9 DEF FinishCall, Fault, At, MediaTypeOK, GenPoints
    <2>3. /\ verdict' \in [MediaTasks -> {"running", "succeeded", "failed", "cancelled"}]
          /\ call' \in [MediaTasks -> {"none", "pending", "success", "failed"}]
        BY <1>9 DEF FinishCall, Fault, At, MediaTypeOK, GenPoints
    <2>4. {anchored', jobKnown'} \subseteq SUBSET Videos /\ excused' \subseteq MediaTasks
        BY <1>9, <2>1 DEF FinishCall, Fault, At, MediaTypeOK, GenPoints, TaskInv, JobInv
    <2>5. mediaFaults' \in 0..MaxFaults
        BY <1>9 DEF FinishCall, Fault, At, MediaTypeOK, GenPoints
    <2>6. /\ {jobs', resubmits'} \subseteq [MediaTasks -> Nat]
          /\ rung' \in [MediaTasks -> 0..LadderSteps]
          /\ tries' \in [MediaTasks -> 0..MaxTries]
        BY <1>9 DEF FinishCall, Fault, At, MediaTypeOK, GenPoints
    <2>7. strayed' \in BOOLEAN /\ file' \in Bytes \cup {NoFile}
        BY <1>9 DEF FinishCall, Fault, At, MediaTypeOK, GenPoints
    <2> QED
        BY <1>9, <2>2, <2>3, <2>4, <2>5, <2>6, <2>7 DEF FinishCall, MediaTypeOK
<1>10. ASSUME NEW t \in MediaTasks, FinishFailed(t) PROVE MediaTypeOK'
    <2>1. TaskInv(t)
        OBVIOUS
    <2>2. gen' \in [MediaTasks -> GenPoints]
        BY <1>10
        DEF FinishFailed, Fault, EndTask, Excuse, At, MediaTypeOK, GenPoints
    <2>3. /\ verdict' \in [MediaTasks -> {"running", "succeeded", "failed", "cancelled"}]
          /\ call' \in [MediaTasks -> {"none", "pending", "success", "failed"}]
        BY <1>10
        DEF FinishFailed, Fault, EndTask, Excuse, At, MediaTypeOK, GenPoints
    <2>4. {anchored', jobKnown'} \subseteq SUBSET Videos /\ excused' \subseteq MediaTasks
        BY <1>10, <2>1
        DEF FinishFailed, Fault, EndTask, Excuse, At, MediaTypeOK, GenPoints, TaskInv,
            JobInv
    <2>5. mediaFaults' \in 0..MaxFaults
        BY <1>10
        DEF FinishFailed, Fault, EndTask, Excuse, At, MediaTypeOK, GenPoints
    <2>6. /\ {jobs', resubmits'} \subseteq [MediaTasks -> Nat]
          /\ rung' \in [MediaTasks -> 0..LadderSteps]
          /\ tries' \in [MediaTasks -> 0..MaxTries]
        BY <1>10
        DEF FinishFailed, Fault, EndTask, Excuse, At, MediaTypeOK, GenPoints
    <2>7. strayed' \in BOOLEAN /\ file' \in Bytes \cup {NoFile}
        BY <1>10
        DEF FinishFailed, Fault, EndTask, Excuse, At, MediaTypeOK, GenPoints
    <2> QED
        BY <1>10, <2>2, <2>3, <2>4, <2>5, <2>6, <2>7 DEF FinishFailed, MediaTypeOK
<1>11. ASSUME NEW t \in MediaTasks, AddTaskVersion(t) PROVE MediaTypeOK'
    <2>1. AddVersion /\ UNCHANGED <<verdict, ledger, submit, rest>>
        BY <1>11 DEF AddTaskVersion
    <2>2. /\ versions' \in Seq(Bytes) /\ current' \in 0..Len(versions')
          /\ file' = file /\ strayed' \in BOOLEAN
        BY <2>1, AddVersionKeeps
    <2>3. gen' \in [MediaTasks -> GenPoints]
        BY <1>11 DEF AddTaskVersion, At, MediaTypeOK, GenPoints
    <2> QED
        BY <2>1, <2>2, <2>3 DEF MediaTypeOK
<1>12. ASSUME NEW t \in MediaTasks, FinalizeTask(t) PROVE MediaTypeOK'
    <2>1. TaskInv(t)
        OBVIOUS
    <2> QED
        BY <1>12, <2>1 DEF FinalizeTask, EndTask, At, MediaTypeOK, GenPoints, TaskInv, JobInv
<1>13. ASSUME NEW t \in MediaTasks, Recover(t) PROVE MediaTypeOK'
    <2>1. TaskInv(t)
        OBVIOUS
    <2>2. gen' \in [MediaTasks -> GenPoints]
        <3>1. \E p \in GenPoints : gen' = [gen EXCEPT ![t] = p]
            BY <1>13 DEF Recover, EndTask, At, GenPoints
        <3> QED
            BY <3>1 DEF MediaTypeOK
    <2>3. /\ verdict' \in [MediaTasks -> {"running", "succeeded", "failed", "cancelled"}]
          /\ call' \in [MediaTasks -> {"none", "pending", "success", "failed"}]
        BY <1>13 DEF Recover, EndTask, Excuse, At, MediaTypeOK, GenPoints
    <2>4. {anchored', jobKnown'} \subseteq SUBSET Videos /\ excused' \subseteq MediaTasks
        BY <1>13, <2>1 DEF Recover, EndTask, Excuse, At, MediaTypeOK, GenPoints, TaskInv, JobInv
    <2>5. mediaFaults' \in 0..MaxFaults
        BY <1>13 DEF Recover, EndTask, Excuse, At, MediaTypeOK, GenPoints
    <2>6. /\ {jobs', resubmits'} \subseteq [MediaTasks -> Nat]
          /\ rung' \in [MediaTasks -> 0..LadderSteps]
          /\ tries' \in [MediaTasks -> 0..MaxTries]
        BY <1>13 DEF Recover, EndTask, Excuse, At, MediaTypeOK, GenPoints
    <2>7. strayed' \in BOOLEAN /\ file' \in Bytes \cup {NoFile}
        BY <1>13 DEF Recover, EndTask, Excuse, At, MediaTypeOK, GenPoints
    <2> QED
        BY <1>13, <2>2, <2>3, <2>4, <2>5, <2>6, <2>7 DEF Recover, MediaTypeOK
<1>14. ASSUME NEW t \in MediaTasks, ResumeVideo(t) PROVE MediaTypeOK'
    <2>1. TaskInv(t)
        OBVIOUS
    <2>2. gen' \in [MediaTasks -> GenPoints]
        BY <1>14
        DEF ResumeVideo, EndTask, Settle, Excuse, At, MediaTypeOK, GenPoints
    <2>3. /\ verdict' \in [MediaTasks -> {"running", "succeeded", "failed", "cancelled"}]
          /\ call' \in [MediaTasks -> {"none", "pending", "success", "failed"}]
        <3>1. verdict' = verdict \/ verdict' = [verdict EXCEPT ![t] = "failed"]
            BY <1>14 DEF ResumeVideo, EndTask
        <3>2. call' = call \/ call' = [call EXCEPT ![t] = "failed"]
            BY <1>14 DEF ResumeVideo, Settle
        <3> QED
            BY <3>1, <3>2 DEF MediaTypeOK
    <2>4. {anchored', jobKnown'} \subseteq SUBSET Videos /\ excused' \subseteq MediaTasks
        BY <1>14, <2>1
        DEF ResumeVideo, EndTask, Settle, Excuse, At, MediaTypeOK, GenPoints, TaskInv,
            JobInv, Bytes
    <2>5. mediaFaults' \in 0..MaxFaults
        BY <1>14
        DEF ResumeVideo, EndTask, Settle, Excuse, At, MediaTypeOK, GenPoints
    <2>6. /\ {jobs', resubmits'} \subseteq [MediaTasks -> Nat]
          /\ rung' \in [MediaTasks -> 0..LadderSteps]
          /\ tries' \in [MediaTasks -> 0..MaxTries]
        BY <1>14
        DEF ResumeVideo, EndTask, Settle, Excuse, At, MediaTypeOK, GenPoints
    <2>7. strayed' \in BOOLEAN /\ file' \in Bytes \cup {NoFile}
        BY <1>14
        DEF ResumeVideo, EndTask, Settle, Excuse, MediaTypeOK, Bytes
    <2> QED
        BY <1>14, <2>2, <2>3, <2>4, <2>5, <2>6, <2>7 DEF ResumeVideo, MediaTypeOK
<1>15. ASSUME NEW t \in MediaTasks, FinalizeResumed(t) PROVE MediaTypeOK'
    <2>1. TaskInv(t)
        OBVIOUS
    <2>2. gen' \in [MediaTasks -> GenPoints]
        BY <1>15
        DEF FinalizeResumed, EndTask, Settle, Excuse, Fault, At, MediaTypeOK,
            GenPoints
    <2>3. /\ verdict' \in [MediaTasks -> {"running", "succeeded", "failed", "cancelled"}]
          /\ call' \in [MediaTasks -> {"none", "pending", "success", "failed"}]
        BY <1>15, ZenonT(40)
        DEF FinalizeResumed, EndTask, Settle, Excuse, Fault, At, MediaTypeOK,
            GenPoints
    <2>4. {anchored', jobKnown'} \subseteq SUBSET Videos /\ excused' \subseteq MediaTasks
        BY <1>15, <2>1
        DEF FinalizeResumed, EndTask, Settle, Excuse, Fault, At, MediaTypeOK,
            GenPoints, TaskInv, JobInv
    <2>5. mediaFaults' \in 0..MaxFaults
        BY <1>15
        DEF FinalizeResumed, EndTask, Settle, Excuse, Fault, At, MediaTypeOK,
            GenPoints
    <2>6. /\ {jobs', resubmits'} \subseteq [MediaTasks -> Nat]
          /\ rung' \in [MediaTasks -> 0..LadderSteps]
          /\ tries' \in [MediaTasks -> 0..MaxTries]
        BY <1>15
        DEF FinalizeResumed, EndTask, Settle, Excuse, Fault, At, MediaTypeOK,
            GenPoints
    <2>7. strayed' \in BOOLEAN /\ file' \in Bytes \cup {NoFile}
        BY <1>15
        DEF FinalizeResumed, EndTask, Settle, Excuse, Fault, At, MediaTypeOK,
            GenPoints
    <2> QED
        BY <1>15, <2>2, <2>3, <2>4, <2>5, <2>6, <2>7 DEF FinalizeResumed, MediaTypeOK
<1>16. ASSUME NEW t \in MediaTasks, CancelTask(t) PROVE MediaTypeOK'
    <2>1. TaskInv(t)
        OBVIOUS
    <2> QED
        BY <1>16, <2>1
        DEF CancelTask, EndTask, Excuse, Fault, At, MediaTypeOK, GenPoints, TaskInv,
            JobInv
<1>17. ASSUME NEW u \in Uploads, UploadRuns(u) PROVE MediaTypeOK'
    <2>0. upload' \in [Uploads -> {"new", "tracked", "saved", "over"}]
          /\ UNCHANGED <<gen, verdict, ledger, submit, mediaFaults>>
        BY <1>17 DEF UploadRuns, UploadTracks, UploadSaves, UploadRefused, UploadRecords,
                    UploadAt, MediaTypeOK
    <2>1. CASE EnsureCurrentTracked
        BY <2>0, <2>1, TrackKeeps DEF MediaTypeOK
    <2>2. CASE AddVersion
        <3>1. /\ versions' \in Seq(Bytes) /\ current' \in 1..Len(versions')
              /\ file' \in Bytes /\ strayed' = FALSE
            BY <2>2, AddVersionKeeps
        <3>2. current' \in 0..Len(versions')
            BY <3>1
        <3> QED
            BY <2>0, <3>1, <3>2 DEF MediaTypeOK
    <2>3. CASE UploadSaves(u) \/ UploadRefused(u)
        BY <2>0, <2>3 DEF UploadSaves, UploadRefused, MediaTypeOK, Bytes
    <2> QED
        BY <1>17, <2>1, <2>2, <2>3 DEF UploadRuns, UploadTracks, UploadRecords
<1>18. ASSUME NEW v \in DOMAIN versions, RestoreVersion(v) PROVE MediaTypeOK'
    <2>1. v \in 1..Len(versions) /\ versions[v] \in Bytes
        BY DEF MediaTypeOK
    <2>2. /\ file' \in Bytes /\ current' \in 0..Len(versions') /\ strayed' = FALSE
          /\ UNCHANGED <<versions, gen, verdict, ledger, submit, rest>>
        BY <1>18, <2>1 DEF RestoreVersion, MediaTypeOK
    <2> QED
        BY <2>2 DEF MediaTypeOK
<1>19. CASE Crash
    <2>1. gen' \in [MediaTasks -> GenPoints]
          /\ upload' \in [Uploads -> {"new", "tracked", "saved", "over"}]
        BY <1>19 DEF Crash, MediaTypeOK, GenPoints
    <2>2. file' \in Bytes \cup {NoFile} /\ strayed' \in BOOLEAN
        <3>1. \A v \in DOMAIN versions : versions[v] \in Bytes
            BY DEF MediaTypeOK
        <3>2. (strayed \/ CutOff) \in BOOLEAN
            BY DEF MediaTypeOK
        <3>3. \/ file' = file /\ strayed' = (strayed \/ CutOff)
              \/ strayed' = TRUE /\ \E v \in DOMAIN versions : file' = versions[v]
            BY <1>19 DEF Crash
        <3>4. strayed' \in BOOLEAN
            BY <3>2, <3>3, Zenon
        <3>5. file' \in Bytes \cup {NoFile}
            BY <3>1, <3>3 DEF MediaTypeOK
        <3> QED
            BY <3>4, <3>5
    <2> QED
        BY <1>19, <2>1, <2>2 DEF Crash, Fault, MediaTypeOK
<1> QED
    BY <1>0, <1>1, <1>2, <1>3, <1>4, <1>5, <1>6, <1>7, <1>8, <1>9, <1>10, <1>11, <1>12, <1>13, <1>14, <1>15, <1>16, <1>17, <1>18, <1>19
    DEF MediaNext, TaskRuns

-----------------------------------------------------------------------------
\* A writer's bytes are tracked again before, or as, its writing ends.
LEMMA QuietStep ==
    ASSUME MediaTypeOK, \A t \in MediaTasks : TaskInv(t), QuietIsTracked, [MediaNext]_mediaVars
    PROVE  QuietIsTracked'
<1> USE DEF disk, bytes, rest
<1>0. CASE UNCHANGED mediaVars
    BY <1>0 DEF mediaVars, QuietIsTracked, Writing
<1>1. ASSUME NEW t \in MediaTasks, TrackFile(t) PROVE QuietIsTracked'
    <2>1. EnsureCurrentTracked /\ Writing' = Writing
        BY <1>1 DEF TrackFile, At, Writing, MediaTypeOK
    <2>2. CASE UNCHANGED disk
        BY <2>1, <2>2 DEF QuietIsTracked
    <2>3. CASE ~strayed' /\ current' > 0 /\ versions'[current'] = file
        BY <2>1, <2>3, TrackKeeps DEF QuietIsTracked
    <2> QED
        BY <2>1, <2>2, <2>3, TrackKeeps
<1>2. ASSUME NEW t \in MediaTasks, StartCall(t) PROVE QuietIsTracked'
    <2>1. UNCHANGED disk /\ UNCHANGED upload /\ gen[t] \notin {"written", "billed", "rewritten"} /\ gen'[t] \notin {"written", "billed", "rewritten"}
          /\ \A s \in MediaTasks \ {t} : gen'[s] = gen[s]
        BY <1>2 DEF StartCall, At, MediaTypeOK
    <2> QED
        BY <2>1 DEF QuietIsTracked, Writing
<1>3. ASSUME NEW t \in MediaTasks, AnchorCall(t) PROVE QuietIsTracked'
    <2>1. UNCHANGED disk /\ UNCHANGED upload /\ gen[t] \notin {"written", "billed", "rewritten"} /\ gen'[t] \notin {"written", "billed", "rewritten"}
          /\ \A s \in MediaTasks \ {t} : gen'[s] = gen[s]
        BY <1>3 DEF AnchorCall, Fault, At, MediaTypeOK
    <2> QED
        BY <2>1 DEF QuietIsTracked, Writing
<1>4. ASSUME NEW t \in MediaTasks, SubmitVideo(t) PROVE QuietIsTracked'
    <2>1. UNCHANGED disk /\ UNCHANGED upload /\ gen[t] \notin {"written", "billed", "rewritten"} /\ gen'[t] \notin {"written", "billed", "rewritten"}
          /\ \A s \in MediaTasks \ {t} : gen'[s] = gen[s]
        BY <1>4 DEF SubmitVideo, MakesJob, At, MediaTypeOK
    <2> QED
        BY <2>1 DEF QuietIsTracked, Writing
<1>5. ASSUME NEW t \in MediaTasks, GenerateImage(t) PROVE QuietIsTracked'
    BY <1>5 DEF GenerateImage, MakesJob, At, QuietIsTracked, Writing, MediaTypeOK
<1>6. ASSUME NEW t \in MediaTasks, NEW e \in SubmitErrors, SubmitFails(t, e)
      PROVE  QuietIsTracked'
    <2>1. UNCHANGED disk /\ UNCHANGED upload /\ gen[t] \notin {"written", "billed", "rewritten"} /\ gen'[t] \notin {"written", "billed", "rewritten"}
          /\ \A s \in MediaTasks \ {t} : gen'[s] = gen[s]
        BY <1>6
        DEF SubmitFails, MakesJob, SubmitErrors, ShouldRetrySubmit, RetryableSubmit,
            At, MediaTypeOK
    <2> QED
        BY <2>1 DEF QuietIsTracked, Writing
<1>7. ASSUME NEW t \in MediaTasks, PersistJobId(t) PROVE QuietIsTracked'
    <2>1. UNCHANGED disk /\ UNCHANGED upload /\ gen[t] \notin {"written", "billed", "rewritten"} /\ gen'[t] \notin {"written", "billed", "rewritten"}
          /\ \A s \in MediaTasks \ {t} : gen'[s] = gen[s]
        BY <1>7 DEF PersistJobId, Fault, At, MediaTypeOK
    <2> QED
        BY <2>1 DEF QuietIsTracked, Writing
<1>8. ASSUME NEW t \in MediaTasks, PollAndDownload(t) PROVE QuietIsTracked'
    <2>1. CASE gen'[t] = "written"
        BY <2>1 DEF QuietIsTracked, Writing
    <2>2. CASE gen'[t] # "written"
        <3>1. UNCHANGED <<file, versions, current, strayed>> /\ Writing' = Writing
            BY <1>8, <2>2 DEF PollAndDownload, At, Writing, MediaTypeOK
        <3> QED
            BY <3>1 DEF QuietIsTracked
    <2> QED
        BY <2>1, <2>2
<1>9. ASSUME NEW t \in MediaTasks, FinishCall(t) PROVE QuietIsTracked'
    BY <1>9 DEF FinishCall, Fault, At, QuietIsTracked, Writing, MediaTypeOK
<1>10. ASSUME NEW t \in MediaTasks, FinishFailed(t) PROVE QuietIsTracked'
    <2>1. UNCHANGED disk /\ UNCHANGED upload /\ gen[t] \notin {"written", "billed", "rewritten"} /\ gen'[t] \notin {"written", "billed", "rewritten"}
          /\ \A s \in MediaTasks \ {t} : gen'[s] = gen[s]
        BY <1>10 DEF FinishFailed, Fault, EndTask, Excuse, At, MediaTypeOK
    <2> QED
        BY <2>1 DEF QuietIsTracked, Writing
<1>11. ASSUME NEW t \in MediaTasks, AddTaskVersion(t) PROVE QuietIsTracked'
    BY <1>11, AddVersionKeeps DEF AddTaskVersion, QuietIsTracked
<1>12. ASSUME NEW t \in MediaTasks, FinalizeTask(t) PROVE QuietIsTracked'
    <2>1. UNCHANGED disk /\ UNCHANGED upload /\ gen[t] \notin {"written", "billed", "rewritten"} /\ gen'[t] \notin {"written", "billed", "rewritten"}
          /\ \A s \in MediaTasks \ {t} : gen'[s] = gen[s]
        BY <1>12 DEF FinalizeTask, EndTask, At, MediaTypeOK
    <2> QED
        BY <2>1 DEF QuietIsTracked, Writing
<1>13. ASSUME NEW t \in MediaTasks, Recover(t) PROVE QuietIsTracked'
    <2>1. UNCHANGED disk /\ UNCHANGED upload /\ gen[t] \notin {"written", "billed", "rewritten"} /\ gen'[t] \notin {"written", "billed", "rewritten"}
          /\ \A s \in MediaTasks \ {t} : gen'[s] = gen[s]
        BY <1>13 DEF Recover, EndTask, Excuse, At, MediaTypeOK
    <2> QED
        BY <2>1 DEF QuietIsTracked, Writing
<1>14. ASSUME NEW t \in MediaTasks, ResumeVideo(t) PROVE QuietIsTracked'
    <2>1. CASE gen'[t] = "rewritten"
        BY <2>1 DEF QuietIsTracked, Writing
    <2>2. CASE gen'[t] # "rewritten"
        <3>1. UNCHANGED <<file, versions, current, strayed>> /\ Writing' = Writing
            BY <1>14, <2>2 DEF ResumeVideo, EndTask, Settle, Excuse, At, Writing, MediaTypeOK
        <3> QED
            BY <3>1 DEF QuietIsTracked
    <2> QED
        BY <2>1, <2>2
<1>15. ASSUME NEW t \in MediaTasks, FinalizeResumed(t) PROVE QuietIsTracked'
    BY <1>15
    DEF FinalizeResumed, EndTask, Settle, Excuse, Fault, At, QuietIsTracked, Writing,
        MediaTypeOK
<1>16. ASSUME NEW t \in MediaTasks, CancelTask(t) PROVE QuietIsTracked'
    <2>1. UNCHANGED <<file, versions, current>>
          /\ strayed' = (strayed \/ gen[t] \in {"written", "billed", "rewritten"})
        BY <1>16 DEF CancelTask
    <2>2. gen[t] \notin {"written", "billed", "rewritten"} => Writing' = Writing
        BY <1>16 DEF CancelTask, EndTask, Excuse, Fault, At, Writing, MediaTypeOK
    <2> QED
        BY <2>1, <2>2 DEF QuietIsTracked
<1>17. ASSUME NEW u \in Uploads, UploadRuns(u) PROVE QuietIsTracked'
    <2>1. UNCHANGED gen /\ \A x \in Uploads \ {u} : upload'[x] = upload[x]
        BY <1>17 DEF UploadRuns, UploadTracks, UploadSaves, UploadRefused, UploadRecords,
                    UploadAt, MediaTypeOK
    <2>2. CASE UploadTracks(u)
        <3>1. EnsureCurrentTracked /\ Writing' = Writing
            BY <2>1, <2>2 DEF UploadTracks, UploadAt, Writing, MediaTypeOK
        <3>2. CASE UNCHANGED disk
            BY <3>1, <3>2 DEF QuietIsTracked
        <3>3. CASE ~strayed' /\ current' > 0 /\ versions'[current'] = file
            BY <3>1, <3>3, TrackKeeps DEF QuietIsTracked
        <3> QED
            BY <3>1, <3>2, <3>3, TrackKeeps
    <2>3. CASE UploadSaves(u)
        BY <2>3 DEF UploadSaves, UploadAt, QuietIsTracked, Writing, MediaTypeOK
    <2>4. CASE UploadRefused(u)
        <3>1. UNCHANGED disk /\ Writing' = Writing
            BY <2>1, <2>4 DEF UploadRefused, UploadAt, Writing, MediaTypeOK
        <3> QED
            BY <3>1 DEF QuietIsTracked
    <2>5. CASE UploadRecords(u)
        BY <2>5, AddVersionKeeps DEF UploadRecords, QuietIsTracked
    <2> QED
        BY <1>17, <2>2, <2>3, <2>4, <2>5 DEF UploadRuns
<1>18. ASSUME NEW v \in DOMAIN versions, RestoreVersion(v) PROVE QuietIsTracked'
    <2>1. v \in 1..Len(versions)
        BY DEF MediaTypeOK
    <2> QED
        BY <1>18, <2>1 DEF RestoreVersion, QuietIsTracked
<1>19. CASE Crash
    <2>1. strayed' \/ (UNCHANGED <<file, versions, current>> /\ ~strayed /\ ~CutOff)
        <3>1. \/ UNCHANGED <<file, versions, current>> /\ strayed' = (strayed \/ CutOff)
              \/ strayed'
            BY <1>19 DEF Crash
        <3> QED
            BY <3>1, Zenon
    <2>2. ~CutOff => ~Writing
        BY DEF CutOff, Writing
    <2> QED
        BY <2>1, <2>2 DEF QuietIsTracked
<1> QED
    BY <1>0, <1>1, <1>2, <1>3, <1>4, <1>5, <1>6, <1>7, <1>8, <1>9, <1>10, <1>11, <1>12, <1>13, <1>14, <1>15, <1>16, <1>17, <1>18, <1>19
    DEF MediaNext, TaskRuns

-----------------------------------------------------------------------------
LEMMA MediaInvStep == MediaInv /\ [MediaNext]_mediaVars => MediaInv'
<1> SUFFICES ASSUME MediaInv, [MediaNext]_mediaVars
             PROVE  MediaInv'
    OBVIOUS
<1>1. MediaTypeOK /\ QuietIsTracked /\ \A t \in MediaTasks : TaskInv(t)
    BY DEF MediaInv
<1>2. \A t \in MediaTasks : TaskInv(t)'
    BY <1>1, TaskInvStep
<1> QED
    BY <1>1, <1>2, MediaTypeStep, QuietStep DEF MediaInv

LEMMA MediaInvariant == MediaSpec => []MediaInv
BY MediaInit1, MediaInvStep, PTL DEF MediaSpec

\* The tasks, uploads and restores keep the types of the ledger and the history.
THEOREM MediaTypeCorrect == MediaSpec => []MediaTypeOK
<1>1. MediaInv => MediaTypeOK
    BY DEF MediaInv
<1> QED
    BY <1>1, MediaInvariant, PTL

\* Whatever is lost, retried, compressed again, cancelled, crashed or resumed,
\* a task never makes a second job at the provider, unless its backend sends by
\* the SDK of the provider and repeated a submit whose answer was lost.
THEOREM OneJobOnly == MediaSpec => []OneJobPerTask
<1>1. MediaInv => OneJobPerTask
    BY DEF MediaInv, MediaTypeOK, OneJobPerTask, Repeats, TaskInv, JobInv
<1> QED
    BY <1>1, MediaInvariant, PTL

\* A call that is charged has made its job (one, but for the repeated submits
\* of an SDK), a success is charged, a job that can
\* be resumed can be charged, and a task that is over has settled its call
\* unless it left by a path that does not settle it.
THEOREM LedgerIsTrue == MediaSpec => []LedgerFollows
<1>1. MediaInv => LedgerFollows
    BY DEF MediaInv, MediaTypeOK, LedgerFollows, Repeats, TaskInv, JobInv, CallInv
<1> QED
    BY <1>1, MediaInvariant, PTL

\* When nobody is between writing the file and recording it, the file under the
\* canonical path is the current version.
THEOREM FileIsTracked == MediaSpec => []QuietIsTracked
<1>1. MediaInv => QuietIsTracked
    BY DEF MediaInv
<1> QED
    BY <1>1, MediaInvariant, PTL

-----------------------------------------------------------------------------
(* VideoBackends: one video is paid for once, for any number of attempts,  *)
(* at every backend and model of the table.  The jobs are counted          *)
(* (JobsAreFew): an HTTP backend has made none while it may still submit,  *)
(* an SDK backend one for each lost reply at most; the call knows the job  *)
(* it polls (JobIsKnown, SavedIsAJob); and the body that was built has     *)
(* what was asked for (BodyTakesAll, family by family).                    *)

JobCount == Cardinality(DOMAIN providerJobs)
Http == model.family \in HttpFamilies

\* The jobs are numbered in a row.
JobsInARow == JobCount \in Nat /\ DOMAIN providerJobs = 1..JobCount

\* Before a submit an HTTP backend has made no job, an SDK backend one for each
\* reply that was lost at most.
JobsAreFew ==
    /\ callAt = "build" => JobCount = 0 /\ tried = 0 /\ unanswered = 0
    /\ callAt = "submit" =>
           /\ JobCount =< tried /\ tried < MaxVideoTries /\ unanswered =< tried
           /\ IF Http THEN JobCount = 0 ELSE JobCount =< unanswered
    /\ JobCount =< MaxJobs
    /\ JobCount =< 1 + (IF Http THEN 0 ELSE unanswered)

\* The call polls the job that was saved, or the last one; Grok's has nothing to poll.
JobIsKnown ==
    /\ callAt \in {"persist", "poll", "fetch"} =>
           known \in 1..JobCount /\ known = IF resumed THEN saved.job ELSE JobCount
    /\ callAt \in {"persist", "poll"} => model.family # "grok"

SavedIsAJob ==
    saved # NoCall => /\ callAt \notin {"build", "submit", "persist"} /\ saved.job \in 1..JobCount
                      /\ saved.sound = providerJobs[saved.job].sound

ResumedIsSaved ==
    resumed => /\ saved # NoCall /\ callAt \notin {"build", "submit", "persist", "down"}
               /\ \A j \in DOMAIN providerJobs : providerJobs[j].state # "unseen"

\* Until a resume reads the setting again it is the one the jobs were made with.
SoundIsAsMade ==
    ~resumed /\ callAt # "lost" => \A j \in DOMAIN providerJobs : providerJobs[j].sound = sound

ResultIsPaid ==
    result # NoCall =>
        /\ callAt = "done" /\ result.job \in 1..JobCount
        /\ result.job = IF resumed THEN saved.job ELSE JobCount
        /\ result.sound = providerJobs[result.job].sound \/ (resumed /\ model.family # "kling")

ExpiredIsGone ==
    callAt = "expired" => resumed /\ providerJobs[saved.job].state \in {"expired", "forgotten"}

AskedOfTheModel == ask \in VideoTasks(model) \cup ReferenceTasks(model)

BodyIsWhole ==
    callAt \notin {"build", "refused"} /\ ask.clipped =>
        ask.images \ missing \subseteq body \cup (IF model.first THEN {} ELSE StartFrame)

VideoInv ==
    /\ VideoTypeOK /\ JobsInARow /\ JobsAreFew /\ JobIsKnown /\ SavedIsAJob /\ ResumedIsSaved
    /\ SoundIsAsMade /\ ResultIsPaid /\ ExpiredIsGone /\ AskedOfTheModel /\ BodyIsWhole

-----------------------------------------------------------------------------
LEMMA UpTo == ASSUME NEW n \in Nat PROVE Cardinality(1..n) = n
  BY FS_Interval

Families == {"kling", "minimax", "dashscope", "vidu", "ark", "gemini", "openai", "grok", "newapi", "v2"}

\* What the table of models says that the bodies rely on.
AsInTable(m) ==
    /\ m.family \in Families /\ m.first \in BOOLEAN /\ m.both \in BOOLEAN /\ m.refs \in 0..ManyRefs
    /\ m.both => m.first /\ m.family \in {"dashscope", "grok", "v2"}
    /\ m.family = "minimax" => (m.name = "s2v" <=> ~m.first) /\ m.refs = IF m.name = "s2v" THEN 1 ELSE 0
    /\ m.family = "vidu" => m.name \in {"q3-turbo", "q3-pro", "q3-mix"}
    /\ m.family = "newapi" => m.refs = 0
    /\ ~m.first => m.family \in {"minimax", "dashscope"}
    /\ m.family = "dashscope" /\ m.first /\ m.refs # 0 => m.both

LEMMA TableOfModels == ASSUME NEW m \in VideoModels PROVE AsInTable(m)
  <1> USE DEF AsInTable, Families, ManyRefs, Model
  <1>1. CASE m \in KlingModels
    <2>1. CASE m = Model("kling", "turbo", TRUE, 0, FALSE, TRUE)
      BY <2>1
    <2>2. CASE m = Model("kling", "omni", TRUE, ManyRefs, FALSE, TRUE)
      BY <2>2
    <2>3. CASE m = Model("kling", "o1", TRUE, ManyRefs, FALSE, FALSE)
      BY <2>3
    <2> QED BY <1>1, <2>1, <2>2, <2>3, Zenon DEF KlingModels
  <1>2. CASE m \in MiniMaxModels
    <2>1. CASE m = Model("minimax", "hailuo", TRUE, 0, FALSE, TRUE)
      BY <2>1
    <2>2. CASE m = Model("minimax", "fast", TRUE, 0, FALSE, FALSE)
      BY <2>2
    <2>3. CASE m = Model("minimax", "s2v", FALSE, 1, FALSE, FALSE)
      BY <2>3
    <2> QED BY <1>2, <2>1, <2>2, <2>3, Zenon DEF MiniMaxModels
  <1>3. CASE m \in DashScopeModels
    <2>1. CASE m = Model("dashscope", "t2v", FALSE, 0, FALSE, TRUE)
      BY <2>1
    <2>2. CASE m = Model("dashscope", "i2v", TRUE, 0, FALSE, TRUE)
      BY <2>2
    <2>3. CASE m = Model("dashscope", "r2v", FALSE, ManyRefs, FALSE, FALSE)
      BY <2>3
    <2>4. CASE m = Model("dashscope", "wan-r2v", TRUE, ManyRefs, TRUE, FALSE)
      BY <2>4
    <2> QED BY <1>3, <2>1, <2>2, <2>3, <2>4, Zenon DEF DashScopeModels
  <1>4. CASE m \in ViduModels
    <2>1. PICK name \in {"q3-turbo", "q3-pro", "q3-mix"} : m = Model("vidu", name, TRUE, ManyRefs, FALSE, TRUE)
      BY <1>4, Zenon DEF ViduModels
    <2> QED BY <2>1
  <1>5. CASE m \in ArkModels
    <2>1. CASE m = Model("ark", "seedance-1", TRUE, 0, FALSE, TRUE)
      BY <2>1
    <2>2. CASE m = Model("ark", "seedance-2", TRUE, ManyRefs, FALSE, TRUE)
      BY <2>2
    <2> QED BY <1>5, <2>1, <2>2, Zenon DEF ArkModels
  <1>6. CASE m \in GeminiModels
    <2>1. CASE m = Model("gemini", "veo", TRUE, ManyRefs, FALSE, TRUE)
      BY <2>1
    <2> QED BY <1>6, <2>1, Zenon DEF GeminiModels
  <1>7. CASE m \in OpenAIModels
    <2>1. CASE m = Model("openai", "sora", TRUE, 1, FALSE, TRUE)
      BY <2>1
    <2> QED BY <1>7, <2>1, Zenon DEF OpenAIModels
  <1>8. CASE m \in GrokModels
    <2>1. CASE m = Model("grok", "imagine", TRUE, ManyRefs, TRUE, TRUE)
      BY <2>1
    <2> QED BY <1>8, <2>1, Zenon DEF GrokModels
  <1>9. CASE m \in NewAPIModels
    <2>1. CASE m = Model("newapi", "any", TRUE, 0, FALSE, TRUE)
      BY <2>1
    <2> QED BY <1>9, <2>1, Zenon DEF NewAPIModels
  <1>10. CASE m \in V2Models
    <2>1. CASE m = Model("v2", "any", TRUE, ManyRefs, TRUE, TRUE)
      BY <2>1
    <2> QED BY <1>10, <2>1, Zenon DEF V2Models
  <1> HIDE DEF AsInTable, Model
  <1> QED BY <1>1, <1>2, <1>3, <1>4, <1>5, <1>6, <1>7, <1>8, <1>9, <1>10 DEF VideoModels

\* What a task asks for: the start frame, with as many references as the model
\* takes next to it, or references alone, clipped to the model or not.
LEMMA TasksAsk ==
    ASSUME NEW m \in VideoModels, NEW a \in VideoTasks(m) \cup ReferenceTasks(m)
    PROVE  /\ a \in [images : SUBSET (0..ManyRefs + 1), clipped : BOOLEAN]
           /\ ~a.clipped => a.images = 1..ManyRefs + 1
           /\ a.clipped => \E k \in 0..m.refs :
                  \/ a.images = 1..k
                  \/ m.both /\ a.images = {0} \cup 1..k
                  \/ ~m.both /\ a.images = {0}
  <1>1. m.refs \in 0..ManyRefs /\ m.both \in BOOLEAN
    BY TableOfModels DEF AsInTable
  <1>2. ASSUME NEW n \in 0..ManyRefs + 1 PROVE Clip(n, m.refs) \in 0..m.refs
    BY <1>1, <1>2 DEF Clip, ManyRefs
  <1>3. CASE a \in VideoTasks(m)
    <2>1. PICK n \in 0..ManyRefs + 1 :
            a = [images |-> StartFrame \cup (IF m.both THEN References(Clip(n, m.refs)) ELSE {}), clipped |-> TRUE]
      BY <1>3 DEF VideoTasks
    <2> QED BY <2>1, <1>1, <1>2 DEF StartFrame, References, ManyRefs
  <1>4. CASE a \in ReferenceTasks(m)
    <2>1. CASE \E n \in 1..ManyRefs + 1 : a = [images |-> References(Clip(n, m.refs)), clipped |-> TRUE]
      BY <2>1, <1>1, <1>2 DEF References, ManyRefs
    <2>2. CASE a = [images |-> References(ManyRefs + 1), clipped |-> FALSE]
      BY <2>2, <1>1 DEF References, ManyRefs
    <2> QED BY <1>4, <2>1, <2>2 DEF ReferenceTasks
  <1> QED BY <1>3, <1>4

\* A backend that does not refuse takes what it was asked for within the limits,
\* but for the start frame where it has none.
BodyTakes ==
    BodyOf(ask.images) # Refused =>
        /\ BodyOf(ask.images) \subseteq ask.images
        /\ ask.clipped => ask.images \ missing \subseteq
               BodyOf(ask.images) \cup (IF model.first THEN {} ELSE StartFrame)

LEMMA BodyTakesAll == model \in VideoModels /\ AskedOfTheModel => BodyTakes
  <1> SUFFICES ASSUME model \in VideoModels, AskedOfTheModel, BodyOf(ask.images) # Refused
      PROVE  BodyTakes
    BY DEF BodyTakes
  <1> DEFINE imgs == ask.images
  <1>1. /\ imgs \subseteq 0..3 /\ ask.clipped \in BOOLEAN
        /\ ~ask.clipped => imgs = 1..3
        /\ ask.clipped => \E k \in 0..model.refs :
               imgs = 1..k \/ (model.both /\ imgs = {0} \cup 1..k) \/ (~model.both /\ imgs = {0})
    BY TasksAsk DEF AskedOfTheModel, ManyRefs
  <1>2. model.refs \in 0..2 /\ model.both \in BOOLEAN /\ model.first \in BOOLEAN
    BY TableOfModels DEF AsInTable, ManyRefs
  <1> USE DEF StartOf, RefsOf, Readable, StartFrame, References, ManyRefs
  <1>3. CASE model.family = "kling"
    <2>1. ~model.both BY <1>3, TableOfModels DEF AsInTable
    <2>2. KlingBody(imgs) # Refused => KlingBody(imgs) \subseteq imgs
      BY DEF KlingBody
    <2>3. ASSUME ask.clipped, KlingBody(imgs) # Refused PROVE imgs \subseteq KlingBody(imgs)
      BY <2>1, <2>3, <1>1, <1>2 DEF KlingBody
    <2> QED BY <1>3, <2>2, <2>3 DEF BodyTakes, BodyOf
  <1>4. CASE model.family = "minimax"
    <2>1. ~model.both /\ (model.name = "s2v" <=> ~model.first) /\ (model.refs = IF model.name = "s2v" THEN 1 ELSE 0)
      BY <1>4, TableOfModels DEF AsInTable
    <2>2. MiniMaxBody(imgs) # Refused => MiniMaxBody(imgs) \subseteq imgs
      BY <2>1, <1>1, <1>2 DEF MiniMaxBody
    <2>3. ASSUME ask.clipped, MiniMaxBody(imgs) # Refused
          PROVE  imgs \subseteq MiniMaxBody(imgs) \cup (IF model.first THEN {} ELSE {0})
      BY <2>1, <2>3, <1>1, <1>2 DEF MiniMaxBody
    <2> QED BY <1>4, <2>2, <2>3 DEF BodyTakes, BodyOf
  <1>5. CASE model.family = "dashscope"
    <2>1. (model.both => model.first) /\ (model.first /\ model.refs # 0 => model.both)
      BY <1>5, TableOfModels DEF AsInTable
    <2>2. DashScopeBody(imgs) # Refused => DashScopeBody(imgs) \subseteq imgs
      BY <2>1, <1>1, <1>2 DEF DashScopeBody
    <2>3. ASSUME ask.clipped, DashScopeBody(imgs) # Refused
          PROVE  imgs \subseteq DashScopeBody(imgs) \cup (IF model.first THEN {} ELSE {0})
      BY <2>1, <2>3, <1>1, <1>2 DEF DashScopeBody
    <2> QED BY <1>5, <2>2, <2>3 DEF BodyTakes, BodyOf
  <1>6. CASE model.family = "vidu"
    <2>1. ~model.both BY <1>6, TableOfModels DEF AsInTable
    <2>2. ViduBody(imgs) # Refused => ViduBody(imgs) \subseteq imgs
      BY DEF ViduBody
    <2>3. ASSUME ask.clipped, ViduBody(imgs) # Refused PROVE imgs \subseteq ViduBody(imgs)
      BY <2>1, <2>3, <1>1, <1>2 DEF ViduBody
    <2> QED BY <1>6, <2>2, <2>3 DEF BodyTakes, BodyOf
  <1>7. CASE model.family \in {"ark", "gemini"}
    BY <1>7 DEF BodyTakes, BodyOf, ArkBody, GeminiBody
  <1>8. CASE model.family \in {"openai", "grok", "v2"}
    BY <1>8 DEF BodyTakes, BodyOf, OpenAIBody, GrokBody, V2Body
  <1>9. CASE model.family = "newapi"
    <2>1. ~model.both /\ model.refs = 0 BY <1>9, TableOfModels DEF AsInTable
    <2>2. ask.clipped => imgs \subseteq {0}
      BY <2>1, <1>1
    <2> QED BY <1>9, <2>2 DEF BodyTakes, BodyOf, NewAPIBody
  <1> QED BY <1>3, <1>4, <1>5, <1>6, <1>7, <1>8, <1>9, TableOfModels DEF AsInTable, Families

-----------------------------------------------------------------------------
LEMMA NewJobGrows ==
    ASSUME JobsInARow, NewJob
    PROVE  /\ JobCount' = JobCount + 1 /\ JobsInARow'
           /\ \A j \in 1..JobCount : providerJobs'[j] = providerJobs[j]
           /\ providerJobs'[JobCount + 1] = [state |-> "unseen", sound |-> sound]
  <1>1. JobCount \in Nat /\ DOMAIN providerJobs = 1..JobCount
    BY DEF JobsInARow
  <1>2. DOMAIN providerJobs' = 1..JobCount + 1
    BY DEF NewJob, JobCount
  <1>3. JobCount' = JobCount + 1
    BY <1>1, <1>2, UpTo DEF JobCount
  <1>4. \A j \in 1..JobCount + 1 : providerJobs'[j] =
           IF j \in 1..JobCount THEN providerJobs[j] ELSE [state |-> "unseen", sound |-> sound]
    BY <1>1 DEF NewJob, JobCount
  <1> QED BY <1>1, <1>2, <1>3, <1>4 DEF JobsInARow

LEMMA JobsStay ==
    ASSUME JobsInARow, DOMAIN providerJobs' = DOMAIN providerJobs
    PROVE  JobCount' = JobCount /\ JobsInARow'
  BY DEF JobsInARow, JobCount

\* What a poll may come to: expired is said of a resumed call only, and of a job that
\* is not there.
Verdict(state) ==
    /\ Verdicts(state) \subseteq {"again", "fetch", "failed", "expired"}
    /\ "expired" \in Verdicts(state) => resumed /\ state \in {"unseen", "forgotten", "expired"}

LEMMA VerdictsSay ==
    ASSUME model.family \in Families \ {"grok"}, NEW state \in JobStates PROVE Verdict(state)
  <1> USE DEF Verdict, VerdictOf, IfResumed, JobStates
  <1>1. CASE model.family \in {"kling", "minimax", "vidu"}
    BY <1>1 DEF Verdicts, KlingVerdict, MiniMaxVerdict, ViduVerdict
  <1>2. CASE model.family \in {"dashscope", "newapi", "v2"}
    BY <1>2 DEF Verdicts, DashScopeVerdict, NewAPIVerdict, V2Verdict
  <1>3. CASE model.family \in {"ark", "gemini", "openai"}
    BY <1>3 DEF Verdicts, ArkVerdict, GeminiVerdict, OpenAIVerdict
  <1> QED BY <1>1, <1>2, <1>3 DEF Families

LEMMA VideoInvInit == VideoInit => VideoInv
  <1> SUFFICES ASSUME VideoInit PROVE VideoInv
    OBVIOUS
  <1>1. DOMAIN providerJobs = {} /\ JobCount = 0
    BY FS_EmptySet DEF VideoInit, JobCount
  <1>2. VideoTypeOK
    <2>1. ask \in [images : SUBSET (0..ManyRefs + 1), clipped : BOOLEAN]
      BY TasksAsk DEF VideoInit
    <2>2. missing = {} /\ body = {} /\ tried = 0 /\ unanswered = 0 /\ known = 0 /\ saved = NoCall /\ result = NoCall
      BY DEF VideoInit
    <2>3. resumed \in BOOLEAN /\ sound \in BOOLEAN
      BY DEF VideoInit
    <2> QED BY <1>1, <2>1, <2>2, <2>3, VideoAssumption DEF VideoInit, VideoTypeOK, MaxJobs
  <1>3. JobsInARow /\ JobsAreFew
    BY <1>1, VideoAssumption DEF VideoInit, JobsInARow, JobsAreFew, MaxJobs
  <1>4. JobIsKnown /\ SavedIsAJob /\ ResumedIsSaved /\ SoundIsAsMade
    BY <1>1 DEF VideoInit, JobIsKnown, SavedIsAJob, ResumedIsSaved, SoundIsAsMade
  <1>5. ResultIsPaid /\ ExpiredIsGone /\ AskedOfTheModel /\ BodyIsWhole
    BY DEF VideoInit, ResultIsPaid, ExpiredIsGone, AskedOfTheModel, BodyIsWhole
  <1> QED BY <1>2, <1>3, <1>4, <1>5 DEF VideoInv

LEMMA BuildBodyKeeps ==
    ASSUME VideoInv, BuildBody PROVE VideoInv'
  <1> USE VideoAssumption DEF VideoInv, BuildBody, JobsInARow, Ends, MaxJobs, Http
  <1>0. JobsInARow' /\ JobCount' \in {JobCount, JobCount + 1}
    BY NewJobGrows, JobsStay
  <1>2. JobsAreFew'
    BY <1>0, NewJobGrows, JobsStay DEF VideoTypeOK, JobsAreFew, JobIsKnown
  <1>3. JobIsKnown'
    BY <1>0, NewJobGrows, JobsStay DEF VideoTypeOK, JobIsKnown, JobsAreFew
  <1>4. SavedIsAJob'
    BY <1>0, NewJobGrows, JobsStay DEF VideoTypeOK, SavedIsAJob, JobsAreFew, JobIsKnown
  <1>5. ResumedIsSaved'
    BY <1>0, NewJobGrows, JobsStay DEF VideoTypeOK, ResumedIsSaved, JobsAreFew, JobIsKnown
  <1>6. SoundIsAsMade'
    BY <1>0, NewJobGrows, JobsStay, SMTT(20) DEF VideoTypeOK, SoundIsAsMade, JobsAreFew, JobIsKnown
  <1>7. ResultIsPaid'
    BY <1>0, NewJobGrows, JobsStay DEF VideoTypeOK, ResultIsPaid, JobsAreFew, JobIsKnown
  <1>8. ExpiredIsGone'
    BY <1>0, NewJobGrows, JobsStay DEF VideoTypeOK, ExpiredIsGone, JobsAreFew, JobIsKnown
  <1>9. AskedOfTheModel'
    BY <1>0, NewJobGrows, JobsStay DEF VideoTypeOK, AskedOfTheModel, JobsAreFew, JobIsKnown
  <1>11. BodyTakes'
    <2>1. (model \in VideoModels /\ AskedOfTheModel => BodyTakes)'
      BY BodyTakesAll, PTL
    <2> QED BY <2>1, <1>9 DEF VideoTypeOK
  <1>10. BodyIsWhole'
    BY <1>11 DEF BodyIsWhole, BodyTakes
  <1>1. VideoTypeOK'
    <2> USE DEF VideoTypeOK
    <2>1. model' \in VideoModels /\ ask' \in [images : SUBSET (0..ManyRefs + 1), clipped : BOOLEAN]
      OBVIOUS
    <2>2. missing' \subseteq ask'.images /\ body' \subseteq ask'.images
      BY <1>11 DEF BodyTakes
    <2>3. callAt' \in {"build", "submit", "persist", "poll", "fetch", "down"} \cup Ends
      OBVIOUS
    <2>4. resumed' \in BOOLEAN /\ sound' \in BOOLEAN
      OBVIOUS
    <2>5. tried' \in 0..MaxVideoTries /\ unanswered' \in 0..MaxVideoTries
      BY DEF JobsAreFew
    <2>6. DOMAIN providerJobs' \subseteq 1..MaxJobs
      BY <1>0, <1>2 DEF JobsAreFew
    <2>7. known' \in 0..MaxJobs
      BY <1>0, <1>2 DEF JobsAreFew, SavedIsAJob
    <2>8. \A j \in DOMAIN providerJobs' : providerJobs'[j] \in [state : JobStates, sound : BOOLEAN]
      BY <1>0, NewJobGrows, JobsStay DEF JobStates
    <2>9. saved' = NoCall \/ saved' \in [job : 1..MaxJobs, sound : BOOLEAN]
      BY DEF JobIsKnown, JobsAreFew
    <2>10. result' = NoCall \/ result' \in [job : 1..MaxJobs, sound : BOOLEAN]
      BY DEF JobIsKnown, JobsAreFew, SoundBilled, ResumedIsSaved
    <2> QED BY <2>1, <2>2, <2>3, <2>4, <2>5, <2>6, <2>7, <2>8, <2>9, <2>10
  <1> QED BY <1>0, <1>1, <1>2, <1>3, <1>4, <1>5, <1>6, <1>7, <1>8, <1>9, <1>10

LEMMA SubmitCallFailsKeeps ==
    ASSUME NEW e \in SubmitFaults, VideoInv, SubmitCallFails(e) PROVE VideoInv'
  <1> USE VideoAssumption DEF VideoInv, SubmitCallFails, SubmitFaults, MayRetrySubmit,
      SdkMayRetry, SubmitPost, JobsInARow, Ends, MaxJobs, Http
  <1>0. JobsInARow' /\ JobCount' \in {JobCount, JobCount + 1}
    BY NewJobGrows, JobsStay
  <1>2. JobsAreFew'
    BY <1>0, NewJobGrows, JobsStay DEF VideoTypeOK, JobsAreFew, JobIsKnown
  <1>3. JobIsKnown'
    BY <1>0, NewJobGrows, JobsStay DEF VideoTypeOK, JobIsKnown, JobsAreFew
  <1>4. SavedIsAJob'
    BY <1>0, NewJobGrows, JobsStay DEF VideoTypeOK, SavedIsAJob, JobsAreFew, JobIsKnown
  <1>5. ResumedIsSaved'
    BY <1>0, NewJobGrows, JobsStay DEF VideoTypeOK, ResumedIsSaved, JobsAreFew, JobIsKnown
  <1>6. SoundIsAsMade'
    BY <1>0, NewJobGrows, JobsStay, SMTT(20) DEF VideoTypeOK, SoundIsAsMade, JobsAreFew, JobIsKnown
  <1>7. ResultIsPaid'
    BY <1>0, NewJobGrows, JobsStay DEF VideoTypeOK, ResultIsPaid, JobsAreFew, JobIsKnown
  <1>8. ExpiredIsGone'
    BY <1>0, NewJobGrows, JobsStay DEF VideoTypeOK, ExpiredIsGone, JobsAreFew, JobIsKnown
  <1>9. AskedOfTheModel'
    BY <1>0, NewJobGrows, JobsStay DEF VideoTypeOK, AskedOfTheModel, JobsAreFew, JobIsKnown
  <1>10. BodyIsWhole'
    BY <1>0, NewJobGrows, JobsStay DEF VideoTypeOK, BodyIsWhole, JobsAreFew, JobIsKnown
  <1>1. VideoTypeOK'
    <2> USE DEF VideoTypeOK
    <2>1. model' \in VideoModels /\ ask' \in [images : SUBSET (0..ManyRefs + 1), clipped : BOOLEAN]
      OBVIOUS
    <2>2. missing' \subseteq ask'.images /\ body' \subseteq ask'.images
      OBVIOUS
    <2>3. callAt' \in {"build", "submit", "persist", "poll", "fetch", "down"} \cup Ends
      OBVIOUS
    <2>4. resumed' \in BOOLEAN /\ sound' \in BOOLEAN
      OBVIOUS
    <2>5. tried' \in 0..MaxVideoTries /\ unanswered' \in 0..MaxVideoTries
      BY DEF JobsAreFew
    <2>6. DOMAIN providerJobs' \subseteq 1..MaxJobs
      BY <1>0, <1>2 DEF JobsAreFew
    <2>7. known' \in 0..MaxJobs
      BY <1>0, <1>2 DEF JobsAreFew, SavedIsAJob
    <2>8. \A j \in DOMAIN providerJobs' : providerJobs'[j] \in [state : JobStates, sound : BOOLEAN]
      BY <1>0, NewJobGrows, JobsStay DEF JobStates
    <2>9. saved' = NoCall \/ saved' \in [job : 1..MaxJobs, sound : BOOLEAN]
      BY DEF JobIsKnown, JobsAreFew
    <2>10. result' = NoCall \/ result' \in [job : 1..MaxJobs, sound : BOOLEAN]
      BY DEF JobIsKnown, JobsAreFew, SoundBilled, ResumedIsSaved
    <2> QED BY <2>1, <2>2, <2>3, <2>4, <2>5, <2>6, <2>7, <2>8, <2>9, <2>10
  <1> QED BY <1>0, <1>1, <1>2, <1>3, <1>4, <1>5, <1>6, <1>7, <1>8, <1>9, <1>10

LEMMA SubmittedKeeps ==
    ASSUME VideoInv, Submitted PROVE VideoInv'
  <1> USE VideoAssumption DEF VideoInv, Submitted, JobsInARow, Ends, MaxJobs, Http
  <1>0. JobsInARow' /\ JobCount' \in {JobCount, JobCount + 1}
    BY NewJobGrows, JobsStay
  <1>2. JobsAreFew'
    BY <1>0, NewJobGrows, JobsStay DEF VideoTypeOK, JobsAreFew, JobIsKnown
  <1>3. JobIsKnown'
    BY <1>0, NewJobGrows DEF VideoTypeOK, JobIsKnown, JobCount, ResumedIsSaved
  <1>4. SavedIsAJob'
    BY <1>0, NewJobGrows, JobsStay DEF VideoTypeOK, SavedIsAJob, JobsAreFew, JobIsKnown
  <1>5. ResumedIsSaved'
    BY <1>0, NewJobGrows, JobsStay DEF VideoTypeOK, ResumedIsSaved, JobsAreFew, JobIsKnown
  <1>6. SoundIsAsMade'
    BY <1>0, NewJobGrows, JobsStay, SMTT(20) DEF VideoTypeOK, SoundIsAsMade, JobsAreFew, JobIsKnown
  <1>7. ResultIsPaid'
    BY <1>0, NewJobGrows, JobsStay DEF VideoTypeOK, ResultIsPaid, JobsAreFew, JobIsKnown
  <1>8. ExpiredIsGone'
    BY <1>0, NewJobGrows, JobsStay DEF VideoTypeOK, ExpiredIsGone, JobsAreFew, JobIsKnown
  <1>9. AskedOfTheModel'
    BY <1>0, NewJobGrows, JobsStay DEF VideoTypeOK, AskedOfTheModel, JobsAreFew, JobIsKnown
  <1>10. BodyIsWhole'
    BY <1>0, NewJobGrows, JobsStay DEF VideoTypeOK, BodyIsWhole, JobsAreFew, JobIsKnown
  <1>1. VideoTypeOK'
    <2> USE DEF VideoTypeOK
    <2>1. model' \in VideoModels /\ ask' \in [images : SUBSET (0..ManyRefs + 1), clipped : BOOLEAN]
      OBVIOUS
    <2>2. missing' \subseteq ask'.images /\ body' \subseteq ask'.images
      OBVIOUS
    <2>3. callAt' \in {"build", "submit", "persist", "poll", "fetch", "down"} \cup Ends
      OBVIOUS
    <2>4. resumed' \in BOOLEAN /\ sound' \in BOOLEAN
      OBVIOUS
    <2>5. tried' \in 0..MaxVideoTries /\ unanswered' \in 0..MaxVideoTries
      BY DEF JobsAreFew
    <2>6. DOMAIN providerJobs' \subseteq 1..MaxJobs
      BY <1>0, <1>2 DEF JobsAreFew
    <2>7. known' \in 0..MaxJobs
      BY <1>0, <1>2, NewJobGrows DEF JobsAreFew, JobCount
    <2>8. \A j \in DOMAIN providerJobs' : providerJobs'[j] \in [state : JobStates, sound : BOOLEAN]
      BY <1>0, NewJobGrows, JobsStay DEF JobStates
    <2>9. saved' = NoCall \/ saved' \in [job : 1..MaxJobs, sound : BOOLEAN]
      BY DEF JobIsKnown, JobsAreFew
    <2>10. result' = NoCall \/ result' \in [job : 1..MaxJobs, sound : BOOLEAN]
      BY DEF JobIsKnown, JobsAreFew, SoundBilled, ResumedIsSaved
    <2> QED BY <2>1, <2>2, <2>3, <2>4, <2>5, <2>6, <2>7, <2>8, <2>9, <2>10
  <1> QED BY <1>0, <1>1, <1>2, <1>3, <1>4, <1>5, <1>6, <1>7, <1>8, <1>9, <1>10

LEMMA GrokGeneratesKeeps ==
    ASSUME VideoInv, GrokGenerates PROVE VideoInv'
  <1> USE VideoAssumption DEF VideoInv, GrokGenerates, JobsInARow, Ends, MaxJobs, Http
  <1>0. JobsInARow' /\ JobCount' = JobCount + 1 /\ known' = JobCount'
    <2>1. DOMAIN providerJobs' = 1..JobCount + 1 /\ known' = JobCount + 1
      BY DEF JobCount
    <2> QED BY <2>1, UpTo DEF JobCount
  <1>2. JobsAreFew'
    BY <1>0, NewJobGrows, JobsStay DEF VideoTypeOK, JobsAreFew, JobIsKnown
  <1>3. JobIsKnown'
    BY <1>0 DEF VideoTypeOK, JobIsKnown, ResumedIsSaved
  <1>4. SavedIsAJob'
    BY <1>0, NewJobGrows, JobsStay DEF VideoTypeOK, SavedIsAJob, JobsAreFew, JobIsKnown
  <1>5. ResumedIsSaved'
    BY <1>0, NewJobGrows, JobsStay DEF VideoTypeOK, ResumedIsSaved, JobsAreFew, JobIsKnown
  <1>6. SoundIsAsMade'
    BY <1>0, NewJobGrows, JobsStay, SMTT(20) DEF VideoTypeOK, SoundIsAsMade, JobsAreFew, JobIsKnown
  <1>7. ResultIsPaid'
    BY <1>0, NewJobGrows, JobsStay DEF VideoTypeOK, ResultIsPaid, JobsAreFew, JobIsKnown
  <1>8. ExpiredIsGone'
    BY <1>0, NewJobGrows, JobsStay DEF VideoTypeOK, ExpiredIsGone, JobsAreFew, JobIsKnown
  <1>9. AskedOfTheModel'
    BY <1>0, NewJobGrows, JobsStay DEF VideoTypeOK, AskedOfTheModel, JobsAreFew, JobIsKnown
  <1>10. BodyIsWhole'
    BY <1>0, NewJobGrows, JobsStay DEF VideoTypeOK, BodyIsWhole, JobsAreFew, JobIsKnown
  <1>1. VideoTypeOK'
    <2> USE DEF VideoTypeOK
    <2>1. model' \in VideoModels /\ ask' \in [images : SUBSET (0..ManyRefs + 1), clipped : BOOLEAN]
      OBVIOUS
    <2>2. missing' \subseteq ask'.images /\ body' \subseteq ask'.images
      OBVIOUS
    <2>3. callAt' \in {"build", "submit", "persist", "poll", "fetch", "down"} \cup Ends
      OBVIOUS
    <2>4. resumed' \in BOOLEAN /\ sound' \in BOOLEAN
      OBVIOUS
    <2>5. tried' \in 0..MaxVideoTries /\ unanswered' \in 0..MaxVideoTries
      BY DEF JobsAreFew
    <2>6. DOMAIN providerJobs' \subseteq 1..MaxJobs
      BY <1>0, <1>2 DEF JobsAreFew, JobCount
    <2>7. known' \in 0..MaxJobs
      BY <1>0, <1>2 DEF JobsAreFew
    <2>8. \A j \in DOMAIN providerJobs' : providerJobs'[j] \in [state : JobStates, sound : BOOLEAN]
      <3>1. \A k \in 1..JobCount' : providerJobs'[k] = IF k = JobCount' THEN [state |-> "succeeded", sound |-> sound]
                                                     ELSE providerJobs[k]
        BY <1>0
      <3> QED BY <3>1, <1>0 DEF JobStates
    <2>9. saved' = NoCall \/ saved' \in [job : 1..MaxJobs, sound : BOOLEAN]
      BY DEF JobIsKnown, JobsAreFew
    <2>10. result' = NoCall \/ result' \in [job : 1..MaxJobs, sound : BOOLEAN]
      BY DEF JobIsKnown, JobsAreFew, SoundBilled, ResumedIsSaved
    <2> QED BY <2>1, <2>2, <2>3, <2>4, <2>5, <2>6, <2>7, <2>8, <2>9, <2>10
  <1> QED BY <1>0, <1>1, <1>2, <1>3, <1>4, <1>5, <1>6, <1>7, <1>8, <1>9, <1>10

LEMMA PersistJobKeeps ==
    ASSUME VideoInv, PersistJob PROVE VideoInv'
  <1> USE VideoAssumption DEF VideoInv, PersistJob, JobsInARow, Ends, MaxJobs, Http
  <1>0. JobsInARow' /\ JobCount' \in {JobCount, JobCount + 1}
    BY NewJobGrows, JobsStay
  <1>2. JobsAreFew'
    BY <1>0, NewJobGrows, JobsStay DEF VideoTypeOK, JobsAreFew, JobIsKnown
  <1>3. JobIsKnown'
    BY <1>0, NewJobGrows, JobsStay DEF VideoTypeOK, JobIsKnown, JobsAreFew
  <1>4. SavedIsAJob'
    BY <1>0, NewJobGrows, JobsStay DEF VideoTypeOK, SavedIsAJob, JobIsKnown, ResumedIsSaved,
        SoundIsAsMade
  <1>5. ResumedIsSaved'
    BY <1>0, NewJobGrows, JobsStay DEF VideoTypeOK, ResumedIsSaved, JobsAreFew, JobIsKnown
  <1>6. SoundIsAsMade'
    BY <1>0, NewJobGrows, JobsStay, SMTT(20) DEF VideoTypeOK, SoundIsAsMade, JobsAreFew, JobIsKnown
  <1>7. ResultIsPaid'
    BY <1>0, NewJobGrows, JobsStay DEF VideoTypeOK, ResultIsPaid, JobsAreFew, JobIsKnown
  <1>8. ExpiredIsGone'
    BY <1>0, NewJobGrows, JobsStay DEF VideoTypeOK, ExpiredIsGone, JobsAreFew, JobIsKnown
  <1>9. AskedOfTheModel'
    BY <1>0, NewJobGrows, JobsStay DEF VideoTypeOK, AskedOfTheModel, JobsAreFew, JobIsKnown
  <1>10. BodyIsWhole'
    BY <1>0, NewJobGrows, JobsStay DEF VideoTypeOK, BodyIsWhole, JobsAreFew, JobIsKnown
  <1>1. VideoTypeOK'
    <2> USE DEF VideoTypeOK
    <2>1. model' \in VideoModels /\ ask' \in [images : SUBSET (0..ManyRefs + 1), clipped : BOOLEAN]
      OBVIOUS
    <2>2. missing' \subseteq ask'.images /\ body' \subseteq ask'.images
      OBVIOUS
    <2>3. callAt' \in {"build", "submit", "persist", "poll", "fetch", "down"} \cup Ends
      OBVIOUS
    <2>4. resumed' \in BOOLEAN /\ sound' \in BOOLEAN
      OBVIOUS
    <2>5. tried' \in 0..MaxVideoTries /\ unanswered' \in 0..MaxVideoTries
      BY DEF JobsAreFew
    <2>6. DOMAIN providerJobs' \subseteq 1..MaxJobs
      BY <1>0, <1>2 DEF JobsAreFew
    <2>7. known' \in 0..MaxJobs
      BY <1>0, <1>2 DEF JobsAreFew, SavedIsAJob
    <2>8. \A j \in DOMAIN providerJobs' : providerJobs'[j] \in [state : JobStates, sound : BOOLEAN]
      BY <1>0, NewJobGrows, JobsStay DEF JobStates
    <2>9. saved' = NoCall \/ saved' \in [job : 1..MaxJobs, sound : BOOLEAN]
      BY DEF JobIsKnown, JobsAreFew
    <2>10. result' = NoCall \/ result' \in [job : 1..MaxJobs, sound : BOOLEAN]
      BY DEF JobIsKnown, JobsAreFew, SoundBilled, ResumedIsSaved
    <2> QED BY <2>1, <2>2, <2>3, <2>4, <2>5, <2>6, <2>7, <2>8, <2>9, <2>10
  <1> QED BY <1>0, <1>1, <1>2, <1>3, <1>4, <1>5, <1>6, <1>7, <1>8, <1>9, <1>10

LEMMA PollKeeps ==
    ASSUME VideoInv, Poll PROVE VideoInv'
  <1> USE VideoAssumption DEF VideoInv, Poll, JobsInARow, Ends, MaxJobs, Http
  <1>0. JobsInARow' /\ JobCount' \in {JobCount, JobCount + 1}
    BY NewJobGrows, JobsStay
  <1>11. /\ callAt' \in {"fetch", "failed", "expired"}
         /\ callAt' = "expired" => resumed /\ providerJobs[known].state \in {"unseen", "forgotten", "expired"}
    <2>1. model.family # "grok" => Verdict(providerJobs[known].state)
      BY VerdictsSay, TableOfModels DEF AsInTable, VideoTypeOK, JobIsKnown
    <2> QED BY <2>1 DEF Verdict, JobIsKnown
  <1>2. JobsAreFew'
    BY <1>0, <1>11, JobsStay DEF JobsAreFew
  <1>3. JobIsKnown'
    BY <1>0, NewJobGrows, JobsStay DEF VideoTypeOK, JobIsKnown, JobsAreFew
  <1>4. SavedIsAJob'
    BY <1>0, <1>11, JobsStay DEF SavedIsAJob
  <1>5. ResumedIsSaved'
    BY <1>0, <1>11, JobsStay DEF ResumedIsSaved
  <1>6. SoundIsAsMade'
    BY <1>0, NewJobGrows, JobsStay, SMTT(20) DEF VideoTypeOK, SoundIsAsMade, JobsAreFew, JobIsKnown
  <1>7. ResultIsPaid'
    BY <1>0, NewJobGrows, JobsStay DEF VideoTypeOK, ResultIsPaid, JobsAreFew, JobIsKnown
  <1>8. ExpiredIsGone'
    BY <1>0, <1>11, JobsStay DEF ExpiredIsGone, JobIsKnown, ResumedIsSaved
  <1>9. AskedOfTheModel'
    BY <1>0, NewJobGrows, JobsStay DEF VideoTypeOK, AskedOfTheModel, JobsAreFew, JobIsKnown
  <1>10. BodyIsWhole'
    BY <1>0, NewJobGrows, JobsStay DEF VideoTypeOK, BodyIsWhole, JobsAreFew, JobIsKnown
  <1>1. VideoTypeOK'
    <2> USE DEF VideoTypeOK
    <2>1. model' \in VideoModels /\ ask' \in [images : SUBSET (0..ManyRefs + 1), clipped : BOOLEAN]
      OBVIOUS
    <2>2. missing' \subseteq ask'.images /\ body' \subseteq ask'.images
      OBVIOUS
    <2>3. callAt' \in {"build", "submit", "persist", "poll", "fetch", "down"} \cup Ends
      BY <1>11
    <2>4. resumed' \in BOOLEAN /\ sound' \in BOOLEAN
      OBVIOUS
    <2>5. tried' \in 0..MaxVideoTries /\ unanswered' \in 0..MaxVideoTries
      BY DEF JobsAreFew
    <2>6. DOMAIN providerJobs' \subseteq 1..MaxJobs
      BY <1>0, <1>2 DEF JobsAreFew
    <2>7. known' \in 0..MaxJobs
      BY <1>0, <1>2 DEF JobsAreFew, SavedIsAJob
    <2>8. \A j \in DOMAIN providerJobs' : providerJobs'[j] \in [state : JobStates, sound : BOOLEAN]
      BY <1>0, NewJobGrows, JobsStay DEF JobStates
    <2>9. saved' = NoCall \/ saved' \in [job : 1..MaxJobs, sound : BOOLEAN]
      BY DEF JobIsKnown, JobsAreFew
    <2>10. result' = NoCall \/ result' \in [job : 1..MaxJobs, sound : BOOLEAN]
      BY DEF JobIsKnown, JobsAreFew, SoundBilled, ResumedIsSaved
    <2> QED BY <2>1, <2>2, <2>3, <2>4, <2>5, <2>6, <2>7, <2>8, <2>9, <2>10
  <1> QED BY <1>0, <1>1, <1>2, <1>3, <1>4, <1>5, <1>6, <1>7, <1>8, <1>9, <1>10

LEMMA PollGivesUpKeeps ==
    ASSUME VideoInv, PollGivesUp PROVE VideoInv'
  <1> USE VideoAssumption DEF VideoInv, PollGivesUp, JobsInARow, Ends, MaxJobs, Http
  <1>0. JobsInARow' /\ JobCount' \in {JobCount, JobCount + 1}
    BY NewJobGrows, JobsStay
  <1>2. JobsAreFew'
    BY <1>0, NewJobGrows, JobsStay DEF VideoTypeOK, JobsAreFew, JobIsKnown
  <1>3. JobIsKnown'
    BY <1>0, NewJobGrows, JobsStay DEF VideoTypeOK, JobIsKnown, JobsAreFew
  <1>4. SavedIsAJob'
    BY <1>0, NewJobGrows, JobsStay DEF VideoTypeOK, SavedIsAJob, JobsAreFew, JobIsKnown
  <1>5. ResumedIsSaved'
    BY <1>0, NewJobGrows, JobsStay DEF VideoTypeOK, ResumedIsSaved, JobsAreFew, JobIsKnown
  <1>6. SoundIsAsMade'
    BY <1>0, NewJobGrows, JobsStay, SMTT(20) DEF VideoTypeOK, SoundIsAsMade, JobsAreFew, JobIsKnown
  <1>7. ResultIsPaid'
    BY <1>0, NewJobGrows, JobsStay DEF VideoTypeOK, ResultIsPaid, JobsAreFew, JobIsKnown
  <1>8. ExpiredIsGone'
    BY <1>0, NewJobGrows, JobsStay DEF VideoTypeOK, ExpiredIsGone, JobsAreFew, JobIsKnown
  <1>9. AskedOfTheModel'
    BY <1>0, NewJobGrows, JobsStay DEF VideoTypeOK, AskedOfTheModel, JobsAreFew, JobIsKnown
  <1>10. BodyIsWhole'
    BY <1>0, NewJobGrows, JobsStay DEF VideoTypeOK, BodyIsWhole, JobsAreFew, JobIsKnown
  <1>1. VideoTypeOK'
    <2> USE DEF VideoTypeOK
    <2>1. model' \in VideoModels /\ ask' \in [images : SUBSET (0..ManyRefs + 1), clipped : BOOLEAN]
      OBVIOUS
    <2>2. missing' \subseteq ask'.images /\ body' \subseteq ask'.images
      OBVIOUS
    <2>3. callAt' \in {"build", "submit", "persist", "poll", "fetch", "down"} \cup Ends
      OBVIOUS
    <2>4. resumed' \in BOOLEAN /\ sound' \in BOOLEAN
      OBVIOUS
    <2>5. tried' \in 0..MaxVideoTries /\ unanswered' \in 0..MaxVideoTries
      BY DEF JobsAreFew
    <2>6. DOMAIN providerJobs' \subseteq 1..MaxJobs
      BY <1>0, <1>2 DEF JobsAreFew
    <2>7. known' \in 0..MaxJobs
      BY <1>0, <1>2 DEF JobsAreFew, SavedIsAJob
    <2>8. \A j \in DOMAIN providerJobs' : providerJobs'[j] \in [state : JobStates, sound : BOOLEAN]
      BY <1>0, NewJobGrows, JobsStay DEF JobStates
    <2>9. saved' = NoCall \/ saved' \in [job : 1..MaxJobs, sound : BOOLEAN]
      BY DEF JobIsKnown, JobsAreFew
    <2>10. result' = NoCall \/ result' \in [job : 1..MaxJobs, sound : BOOLEAN]
      BY DEF JobIsKnown, JobsAreFew, SoundBilled, ResumedIsSaved
    <2> QED BY <2>1, <2>2, <2>3, <2>4, <2>5, <2>6, <2>7, <2>8, <2>9, <2>10
  <1> QED BY <1>0, <1>1, <1>2, <1>3, <1>4, <1>5, <1>6, <1>7, <1>8, <1>9, <1>10

LEMMA FetchVideoKeeps ==
    ASSUME VideoInv, FetchVideo PROVE VideoInv'
  <1> USE VideoAssumption DEF VideoInv, FetchVideo, JobsInARow, Ends, MaxJobs, Http
  <1>0. JobsInARow' /\ JobCount' \in {JobCount, JobCount + 1}
    BY NewJobGrows, JobsStay
  <1>2. JobsAreFew'
    BY <1>0, NewJobGrows, JobsStay DEF VideoTypeOK, JobsAreFew, JobIsKnown
  <1>3. JobIsKnown'
    BY <1>0, NewJobGrows, JobsStay DEF VideoTypeOK, JobIsKnown, JobsAreFew
  <1>4. SavedIsAJob'
    BY <1>0, NewJobGrows, JobsStay DEF VideoTypeOK, SavedIsAJob, JobsAreFew, JobIsKnown
  <1>5. ResumedIsSaved'
    BY <1>0, NewJobGrows, JobsStay DEF VideoTypeOK, ResumedIsSaved, JobsAreFew, JobIsKnown
  <1>6. SoundIsAsMade'
    BY <1>0, NewJobGrows, JobsStay, SMTT(20) DEF VideoTypeOK, SoundIsAsMade, JobsAreFew, JobIsKnown
  <1>7. ResultIsPaid'
    BY <1>0, NewJobGrows, JobsStay DEF VideoTypeOK, ResultIsPaid, JobIsKnown, SoundBilled,
        SavedIsAJob, SoundIsAsMade, ResumedIsSaved
  <1>8. ExpiredIsGone'
    BY <1>0, NewJobGrows, JobsStay DEF VideoTypeOK, ExpiredIsGone, JobsAreFew, JobIsKnown
  <1>9. AskedOfTheModel'
    BY <1>0, NewJobGrows, JobsStay DEF VideoTypeOK, AskedOfTheModel, JobsAreFew, JobIsKnown
  <1>10. BodyIsWhole'
    BY <1>0, NewJobGrows, JobsStay DEF VideoTypeOK, BodyIsWhole, JobsAreFew, JobIsKnown
  <1>1. VideoTypeOK'
    <2> USE DEF VideoTypeOK
    <2>1. model' \in VideoModels /\ ask' \in [images : SUBSET (0..ManyRefs + 1), clipped : BOOLEAN]
      OBVIOUS
    <2>2. missing' \subseteq ask'.images /\ body' \subseteq ask'.images
      OBVIOUS
    <2>3. callAt' \in {"build", "submit", "persist", "poll", "fetch", "down"} \cup Ends
      OBVIOUS
    <2>4. resumed' \in BOOLEAN /\ sound' \in BOOLEAN
      OBVIOUS
    <2>5. tried' \in 0..MaxVideoTries /\ unanswered' \in 0..MaxVideoTries
      BY DEF JobsAreFew
    <2>6. DOMAIN providerJobs' \subseteq 1..MaxJobs
      BY <1>0, <1>2 DEF JobsAreFew
    <2>7. known' \in 0..MaxJobs
      BY <1>0, <1>2 DEF JobsAreFew, SavedIsAJob
    <2>8. \A j \in DOMAIN providerJobs' : providerJobs'[j] \in [state : JobStates, sound : BOOLEAN]
      BY <1>0, NewJobGrows, JobsStay DEF JobStates
    <2>9. saved' = NoCall \/ saved' \in [job : 1..MaxJobs, sound : BOOLEAN]
      BY DEF JobIsKnown, JobsAreFew
    <2>10. result' = NoCall \/ result' \in [job : 1..MaxJobs, sound : BOOLEAN]
      BY DEF JobIsKnown, JobsAreFew, SoundBilled, ResumedIsSaved
    <2> QED BY <2>1, <2>2, <2>3, <2>4, <2>5, <2>6, <2>7, <2>8, <2>9, <2>10
  <1> QED BY <1>0, <1>1, <1>2, <1>3, <1>4, <1>5, <1>6, <1>7, <1>8, <1>9, <1>10

LEMMA ProviderStepKeeps ==
    ASSUME NEW k \in DOMAIN providerJobs, VideoInv, ProviderStep(k) PROVE VideoInv'
  <1> USE VideoAssumption DEF VideoInv, ProviderStep, JobsInARow, Ends, MaxJobs, Http
  <1>0. JobsInARow' /\ JobCount' \in {JobCount, JobCount + 1}
    BY NewJobGrows, JobsStay
  <1>2. JobsAreFew'
    BY <1>0, NewJobGrows, JobsStay DEF VideoTypeOK, JobsAreFew, JobIsKnown
  <1>3. JobIsKnown'
    BY <1>0, NewJobGrows, JobsStay DEF VideoTypeOK, JobIsKnown, JobsAreFew
  <1>4. SavedIsAJob'
    BY <1>0, NewJobGrows, JobsStay DEF VideoTypeOK, SavedIsAJob, JobsAreFew, JobIsKnown
  <1>5. ResumedIsSaved'
    BY <1>0, NewJobGrows, JobsStay DEF VideoTypeOK, ResumedIsSaved, JobsAreFew, JobIsKnown
  <1>6. SoundIsAsMade'
    BY <1>0, NewJobGrows, JobsStay, SMTT(20) DEF VideoTypeOK, SoundIsAsMade, JobsAreFew, JobIsKnown
  <1>7. ResultIsPaid'
    BY <1>0, NewJobGrows, JobsStay DEF VideoTypeOK, ResultIsPaid, JobsAreFew, JobIsKnown
  <1>8. ExpiredIsGone'
    BY <1>0, NewJobGrows, JobsStay DEF VideoTypeOK, ExpiredIsGone, JobsAreFew, JobIsKnown
  <1>9. AskedOfTheModel'
    BY <1>0, NewJobGrows, JobsStay DEF VideoTypeOK, AskedOfTheModel, JobsAreFew, JobIsKnown
  <1>10. BodyIsWhole'
    BY <1>0, NewJobGrows, JobsStay DEF VideoTypeOK, BodyIsWhole, JobsAreFew, JobIsKnown
  <1>1. VideoTypeOK'
    <2> USE DEF VideoTypeOK
    <2>1. model' \in VideoModels /\ ask' \in [images : SUBSET (0..ManyRefs + 1), clipped : BOOLEAN]
      OBVIOUS
    <2>2. missing' \subseteq ask'.images /\ body' \subseteq ask'.images
      OBVIOUS
    <2>3. callAt' \in {"build", "submit", "persist", "poll", "fetch", "down"} \cup Ends
      OBVIOUS
    <2>4. resumed' \in BOOLEAN /\ sound' \in BOOLEAN
      OBVIOUS
    <2>5. tried' \in 0..MaxVideoTries /\ unanswered' \in 0..MaxVideoTries
      BY DEF JobsAreFew
    <2>6. DOMAIN providerJobs' \subseteq 1..MaxJobs
      BY <1>0, <1>2 DEF JobsAreFew
    <2>7. known' \in 0..MaxJobs
      BY <1>0, <1>2 DEF JobsAreFew, SavedIsAJob
    <2>8. \A j \in DOMAIN providerJobs' : providerJobs'[j] \in [state : JobStates, sound : BOOLEAN]
      BY <1>0, NewJobGrows, JobsStay DEF JobStates
    <2>9. saved' = NoCall \/ saved' \in [job : 1..MaxJobs, sound : BOOLEAN]
      BY DEF JobIsKnown, JobsAreFew
    <2>10. result' = NoCall \/ result' \in [job : 1..MaxJobs, sound : BOOLEAN]
      BY DEF JobIsKnown, JobsAreFew, SoundBilled, ResumedIsSaved
    <2> QED BY <2>1, <2>2, <2>3, <2>4, <2>5, <2>6, <2>7, <2>8, <2>9, <2>10
  <1> QED BY <1>0, <1>1, <1>2, <1>3, <1>4, <1>5, <1>6, <1>7, <1>8, <1>9, <1>10

LEMMA VideoCrashKeeps ==
    ASSUME VideoInv, VideoCrash PROVE VideoInv'
  <1> USE VideoAssumption DEF VideoInv, VideoCrash, JobsInARow, Ends, MaxJobs, Http
  <1>0. JobsInARow' /\ JobCount' \in {JobCount, JobCount + 1}
    BY NewJobGrows, JobsStay
  <1>2. JobsAreFew'
    BY <1>0, NewJobGrows, JobsStay DEF VideoTypeOK, JobsAreFew, JobIsKnown
  <1>3. JobIsKnown'
    BY <1>0, NewJobGrows, JobsStay DEF VideoTypeOK, JobIsKnown, JobsAreFew
  <1>4. SavedIsAJob'
    BY <1>0, NewJobGrows, JobsStay DEF VideoTypeOK, SavedIsAJob, JobsAreFew, JobIsKnown
  <1>5. ResumedIsSaved'
    BY <1>0, NewJobGrows, JobsStay DEF VideoTypeOK, ResumedIsSaved, JobsAreFew, JobIsKnown
  <1>6. SoundIsAsMade'
    BY <1>0, NewJobGrows, JobsStay, SMTT(20) DEF VideoTypeOK, SoundIsAsMade, JobsAreFew, JobIsKnown
  <1>7. ResultIsPaid'
    BY <1>0, NewJobGrows, JobsStay DEF VideoTypeOK, ResultIsPaid, JobsAreFew, JobIsKnown
  <1>8. ExpiredIsGone'
    BY <1>0, NewJobGrows, JobsStay DEF VideoTypeOK, ExpiredIsGone, JobsAreFew, JobIsKnown
  <1>9. AskedOfTheModel'
    BY <1>0, NewJobGrows, JobsStay DEF VideoTypeOK, AskedOfTheModel, JobsAreFew, JobIsKnown
  <1>10. BodyIsWhole'
    BY <1>0, NewJobGrows, JobsStay DEF VideoTypeOK, BodyIsWhole, JobsAreFew, JobIsKnown
  <1>1. VideoTypeOK'
    <2> USE DEF VideoTypeOK
    <2>1. model' \in VideoModels /\ ask' \in [images : SUBSET (0..ManyRefs + 1), clipped : BOOLEAN]
      OBVIOUS
    <2>2. missing' \subseteq ask'.images /\ body' \subseteq ask'.images
      OBVIOUS
    <2>3. callAt' \in {"build", "submit", "persist", "poll", "fetch", "down"} \cup Ends
      OBVIOUS
    <2>4. resumed' \in BOOLEAN /\ sound' \in BOOLEAN
      OBVIOUS
    <2>5. tried' \in 0..MaxVideoTries /\ unanswered' \in 0..MaxVideoTries
      BY DEF JobsAreFew
    <2>6. DOMAIN providerJobs' \subseteq 1..MaxJobs
      BY <1>0, <1>2 DEF JobsAreFew
    <2>7. known' \in 0..MaxJobs
      BY <1>0, <1>2 DEF JobsAreFew, SavedIsAJob
    <2>8. \A j \in DOMAIN providerJobs' : providerJobs'[j] \in [state : JobStates, sound : BOOLEAN]
      BY <1>0, NewJobGrows, JobsStay DEF JobStates
    <2>9. saved' = NoCall \/ saved' \in [job : 1..MaxJobs, sound : BOOLEAN]
      BY DEF JobIsKnown, JobsAreFew
    <2>10. result' = NoCall \/ result' \in [job : 1..MaxJobs, sound : BOOLEAN]
      BY DEF JobIsKnown, JobsAreFew, SoundBilled, ResumedIsSaved
    <2> QED BY <2>1, <2>2, <2>3, <2>4, <2>5, <2>6, <2>7, <2>8, <2>9, <2>10
  <1> QED BY <1>0, <1>1, <1>2, <1>3, <1>4, <1>5, <1>6, <1>7, <1>8, <1>9, <1>10

LEMMA ResumeKeeps ==
    ASSUME VideoInv, Resume PROVE VideoInv'
  <1> USE VideoAssumption DEF VideoInv, Resume, JobsInARow, Ends, MaxJobs, Http
  <1>0. JobsInARow' /\ JobCount' \in {JobCount, JobCount + 1}
    BY NewJobGrows, JobsStay
  <1>2. JobsAreFew'
    BY <1>0, NewJobGrows, JobsStay DEF VideoTypeOK, JobsAreFew, JobIsKnown
  <1>3. JobIsKnown'
    BY <1>0, NewJobGrows, JobsStay DEF VideoTypeOK, SavedIsAJob, JobIsKnown, NotResumable
  <1>4. SavedIsAJob'
    BY <1>0, NewJobGrows, JobsStay DEF VideoTypeOK, SavedIsAJob, JobsAreFew, JobIsKnown
  <1>5. ResumedIsSaved'
    BY <1>0, NewJobGrows, JobsStay DEF VideoTypeOK, ResumedIsSaved, JobsAreFew, JobIsKnown
  <1>6. SoundIsAsMade'
    BY <1>0, NewJobGrows, JobsStay, SMTT(20) DEF VideoTypeOK, SoundIsAsMade, JobsAreFew, JobIsKnown
  <1>7. ResultIsPaid'
    BY <1>0, NewJobGrows, JobsStay DEF VideoTypeOK, ResultIsPaid, JobsAreFew, JobIsKnown
  <1>8. ExpiredIsGone'
    BY <1>0, NewJobGrows, JobsStay DEF VideoTypeOK, ExpiredIsGone, JobsAreFew, JobIsKnown
  <1>9. AskedOfTheModel'
    BY <1>0, NewJobGrows, JobsStay DEF VideoTypeOK, AskedOfTheModel, JobsAreFew, JobIsKnown
  <1>10. BodyIsWhole'
    BY <1>0, NewJobGrows, JobsStay DEF VideoTypeOK, BodyIsWhole, JobsAreFew, JobIsKnown
  <1>1. VideoTypeOK'
    <2> USE DEF VideoTypeOK
    <2>1. model' \in VideoModels /\ ask' \in [images : SUBSET (0..ManyRefs + 1), clipped : BOOLEAN]
      OBVIOUS
    <2>2. missing' \subseteq ask'.images /\ body' \subseteq ask'.images
      OBVIOUS
    <2>3. callAt' \in {"build", "submit", "persist", "poll", "fetch", "down"} \cup Ends
      OBVIOUS
    <2>4. resumed' \in BOOLEAN /\ sound' \in BOOLEAN
      OBVIOUS
    <2>5. tried' \in 0..MaxVideoTries /\ unanswered' \in 0..MaxVideoTries
      BY DEF JobsAreFew
    <2>6. DOMAIN providerJobs' \subseteq 1..MaxJobs
      BY <1>0, <1>2 DEF JobsAreFew
    <2>7. known' \in 0..MaxJobs
      BY <1>0, <1>2 DEF JobsAreFew, SavedIsAJob
    <2>8. \A j \in DOMAIN providerJobs' : providerJobs'[j] \in [state : JobStates, sound : BOOLEAN]
      BY <1>0, NewJobGrows, JobsStay DEF JobStates
    <2>9. saved' = NoCall \/ saved' \in [job : 1..MaxJobs, sound : BOOLEAN]
      BY DEF JobIsKnown, JobsAreFew
    <2>10. result' = NoCall \/ result' \in [job : 1..MaxJobs, sound : BOOLEAN]
      BY DEF JobIsKnown, JobsAreFew, SoundBilled, ResumedIsSaved
    <2> QED BY <2>1, <2>2, <2>3, <2>4, <2>5, <2>6, <2>7, <2>8, <2>9, <2>10
  <1> QED BY <1>0, <1>1, <1>2, <1>3, <1>4, <1>5, <1>6, <1>7, <1>8, <1>9, <1>10

LEMMA VideoInvStep == VideoInv /\ [VideoNext]_videoVars => VideoInv'
  <1> SUFFICES ASSUME VideoInv, [VideoNext]_videoVars PROVE VideoInv'
    OBVIOUS
  <1>1. CASE BuildBody \/ Submitted \/ GrokGenerates \/ PersistJob
    BY <1>1, BuildBodyKeeps, SubmittedKeeps, GrokGeneratesKeeps, PersistJobKeeps
  <1>2. CASE \E e \in SubmitFaults : SubmitCallFails(e)
    BY <1>2, SubmitCallFailsKeeps
  <1>3. CASE Poll \/ PollGivesUp \/ FetchVideo
    BY <1>3, PollKeeps, PollGivesUpKeeps, FetchVideoKeeps
  <1>4. CASE \E j \in DOMAIN providerJobs : ProviderStep(j)
    BY <1>4, ProviderStepKeeps
  <1>5. CASE VideoCrash \/ Resume
    BY <1>5, VideoCrashKeeps, ResumeKeeps
  <1>6. CASE UNCHANGED videoVars
    BY <1>6 DEF VideoInv, videoVars, VideoTypeOK, JobsInARow, JobsAreFew, JobIsKnown,
        SavedIsAJob,
                ResumedIsSaved, SoundIsAsMade, ResultIsPaid, ExpiredIsGone, AskedOfTheModel,
                BodyIsWhole, JobCount, Http
  <1> QED BY <1>1, <1>2, <1>3, <1>4, <1>5, <1>6 DEF VideoNext

\* The types, and that a video is paid for once, for any number of attempts, at
\* every backend and model of the table.
THEOREM VideoTypeCorrect == VideoSpec => []VideoTypeOK
  BY VideoInvInit, VideoInvStep, PTL DEF VideoSpec, VideoInv

THEOREM PaidOnce == VideoSpec => []OneVideoIsPaid
  <1>1. VideoInv => OneVideoIsPaid
    BY DEF VideoInv, OneVideoIsPaid, JobsAreFew, ResultIsPaid, ExpiredIsGone, BodyIsWhole,
        JobCount, Http, Ends
  <1>2. VideoSpec => []VideoInv
    BY VideoInvInit, VideoInvStep, PTL DEF VideoSpec
  <1> QED BY <1>1, <1>2, PTL

-----------------------------------------------------------------------------
(***************************************************************************)
(* The provider of a task.  A reference fits its key: of a built-in        *)
(* provider it names the model of the key's lane or none, of the user's    *)
(* own one a model.  What the resolver answers for a video is then of a    *)
(* provider that makes videos, which a resume needs: the provider of the   *)
(* row, put into the payload, must get a model again.  While the           *)
(* configuration rests, a task holds what the resolver would still answer. *)
(***************************************************************************)
MakesVideos(p) == IsOwn(p) \/ BuiltInModel[p]["video"] # NoModel

Fits(r, k) ==
    Names(r) =>
        IF IsOwn(r.provider) THEN r.model \in OwnModels
        ELSE r.model \in {NoModel, BuiltInModel[r.provider][Lane(k)]}
RefsFit ==
    /\ \A k \in GlobalKeys : Fits(settings[k], k)
    /\ \A k \in ProjectKeys : Fits(override[k], k)

AtWork == {"queued", "claimed", "loaded", "built", "called"}
RouteInv(task) ==
    /\ \A k \in ProjectKeys : Fits(task.copy[k], k)
    /\ task.kind # "image" =>
           /\ task.at \in AtWork => task.prov = NoProvider \/ MakesVideos(task.prov)
           /\ task.at \in {"claimed", "loaded"} /\ ~task.moved => task.route = ProviderOf(DerivedFor(task))
           /\ task.at \in {"built", "called"} /\ ~task.moved => task.route = task.backend.provider
    /\ task.at \in {"loaded", "built"} /\ ~task.moved => task.copy = override
    /\ task.at \in {"built", "called"} => task.backend # NoAnswer
    /\ task.at = "built" /\ task.kind = "video" /\ ~task.moved /\ ~task.swapped =>
           task.backend = ResolvedFor(task.payload, override, "video")
    /\ task.at = "called" /\ task.kind # "image" /\ ~task.moved =>
           (task.known # {} /\ ~task.swapped => task.seconds \in SecondsOf[task.backend])
    /\ task.at = "orphan" =>
           /\ task.prov # NoProvider /\ MakesVideos(task.prov)
           /\ task.payload.provider = task.prov /\ task.kind # "image"
    /\ task.at = "resumed" /\ ~IsOwn(task.prov) => task.asked = task.prov

RoutingInv ==
    /\ RoutingTypeOK /\ RefsFit /\ SettingsKeepTheirMeaning
    /\ \A t \in RouteTasks : RouteInv(routed[t])

-----------------------------------------------------------------------------
\* What the assumptions say of the references and of the two kinds of provider.
LEMMA RefAssumed ==
    /\ OwnModels \subseteq Models \ {NoModel} /\ NoModel \in Models
    /\ ToSet(BuiltIns) = {BuiltIns[i] : i \in DOMAIN BuiltIns}
    /\ DOMAIN BuiltIns = 1..Len(BuiltIns) /\ Len(BuiltIns) \in Nat
    /\ \A p \in Providers : IsOwn(p) \/ p \in ToSet(BuiltIns)
    /\ \A p \in ToSet(BuiltIns) : p \in Providers /\ ~IsOwn(p)
    /\ OwnIds \subseteq Nat /\ OwnIds \subseteq Providers
    /\ \A p \in ToSet(BuiltIns) : \A l \in Lanes : BuiltInModel[p][l] \in Models
    /\ \A r \in Ref : Names(r)
    /\ \A p \in OwnIds : IsOwn(p)
<1>1. \A p \in ToSet(BuiltIns) : BuiltInModel[p] \in [Lanes -> Models]
    BY RoutingAssumption
<1>2. MaxOwn \in Nat
    BY RoutingAssumption
<1>3. OwnModels \subseteq Models \ {NoModel} /\ NoModel \in Models
    BY RoutingAssumption DEF Models
<1>4. /\ ToSet(BuiltIns) = {BuiltIns[i] : i \in DOMAIN BuiltIns}
      /\ DOMAIN BuiltIns = 1..Len(BuiltIns) /\ Len(BuiltIns) \in Nat
    BY RoutingAssumption DEF ToSet
<1>5. \A r \in Ref : Names(r)
    BY RoutingAssumption DEF Names
<1>6. /\ \A p \in Providers : IsOwn(p) \/ p \in ToSet(BuiltIns)
      /\ \A p \in ToSet(BuiltIns) : p \in Providers /\ ~IsOwn(p)
      /\ \A p \in OwnIds : IsOwn(p)
      /\ OwnIds \subseteq Providers
    BY RoutingAssumption DEF Providers, IsOwn
<1>7. OwnIds \subseteq Nat
    BY <1>2 DEF OwnIds
<1> QED BY <1>1, <1>3, <1>4, <1>5, <1>6, <1>7

\* Every key has a lane, and what names a slot is a key.
LEMMA SlotLanes ==
    /\ ProjectKeys \subseteq GlobalKeys /\ "video" \in ProjectKeys /\ Lane("video") = "video"
    /\ \A k \in GlobalKeys : Lane(k) \in Lanes
    /\ {"t2i", "i2i", "video"} \subseteq ProjectKeys /\ Lane("t2i") = "image" /\ Lane("i2i") = "image"
    /\ "image" \in GlobalKeys
BY DEF ProjectKeys, GlobalKeys, Slots, Lane, Lanes

\* Some numbers have a least one.
LEMMA LeastIn ==
    ASSUME NEW F \in SUBSET Nat, F # {} PROVE Min(F) \in F /\ \A j \in F : Min(F) <= j
<1> DEFINE R == OpToRel(<, Nat)
<1>1. \E x \in F : \A y \in F : ~ (<<y, x>> \in R)
    <2> HIDE DEF R
    <2>1. IsWellFoundedOn(R, Nat)
        BY NatLessThanWellFounded, Zenon DEF R
    <2> QED BY <2>1, WFMin
<1>2. \A x, y \in Nat : y < x => <<y, x>> \in R
    BY DEF OpToRel
<1> HIDE DEF R
<1>3. \A x, y \in F : ~(y < x) => x <= y
    OBVIOUS
<1>4. \E x \in F : \A y \in F : x <= y
    BY <1>1, <1>2, <1>3
<1> QED BY <1>4 DEF Min

\* Some numbers up to n have a greatest one.
LEMMA GreatestIn ==
    ASSUME NEW n \in Nat, NEW F \in SUBSET (0..n), F # {} PROVE Max(F) \in F /\ \A j \in F : j <= Max(F)
<1> DEFINE B == {n - x : x \in F}
<1>1. B \in SUBSET Nat /\ B # {}
    <2>1. \A x \in F : n - x \in Nat
        OBVIOUS
    <2> QED BY <2>1
<1>2. PICK x \in F : Min(B) = n - x
    <2>1. Min(B) \in B
        BY <1>1, LeastIn
    <2> QED BY <2>1
<1>3. \A y \in F : x >= y
    <2> TAKE y \in F
    <2>1. n - y \in B
        OBVIOUS
    <2>2. n - x <= n - y
        <3> HIDE DEF B
        <3> QED BY <1>1, <1>2, <2>1, LeastIn
    <2> QED BY <2>2
<1>4. \E z \in F : \A y \in F : z >= y
    BY <1>3
<1> QED BY <1>4 DEF Max

-----------------------------------------------------------------------------
(* What the resolver answers.                                              *)

\* The row of a provider that is defined.
LEMMA OwnListed ==
    ASSUME RoutingTypeOK, NEW p \in OwnIds, IsDefined(p)
    PROVE  own[p] \in OwnRow /\ own[p].models \in OwnLists /\ own[p].serial \in 1..MaxSerial
           /\ own[p].models \in [OwnModels -> ModelState]
<1>1. own[p] \in OwnRow
    BY DEF RoutingTypeOK, IsDefined
<1> QED BY <1>1, RoutingAssumption DEF OwnRow

\* A provider and a model of some name are an answer.
LEMMA Paired ==
    ASSUME NEW p \in Providers, NEW m \in Models, m # NoModel
    PROVE  PM(p, m) \in Answers /\ PM(p, m).provider = p /\ PM(p, m).model = m /\ PM(p, m) # NoAnswer
BY RoutingAssumption DEF PM, Answers

Answered(pm) == pm \in Answers \cup {NoAnswer}
\* An answer is for a video provider.
ForVideo(pm) == pm # NoAnswer => MakesVideos(pm.provider)

\* Automatic resolution answers for the lane it is asked about.
LEMMA AutoAnswers ==
    ASSUME RoutingTypeOK, NEW lane \in Lanes
    PROVE  Answered(AutoResolved(lane)) /\ (lane = "video" => ForVideo(AutoResolved(lane)))
<1> DEFINE able == {i \in DOMAIN BuiltIns : BuiltIns[i] \in ready /\ BuiltInModel[BuiltIns[i]][lane] # NoModel}
           first == BuiltIns[Min(able)]
           mine == {p \in OwnIds : IsDefined(p) /\ \E m \in OwnModels : own[p].models[m] = "default" /\ LaneOf[m] = lane}
           auto == IF able # {} THEN PM(first, BuiltInModel[first][lane])
                   ELSE IF mine # {}
                   THEN PM(Min(mine), CHOOSE m \in OwnModels : own[Min(mine)].models[m] = "default" /\ LaneOf[m] = lane)
                   ELSE NoAnswer
<1>0. AutoResolved(lane) = auto
    BY DEF AutoResolved
<1>1. CASE able # {}
    <2>1. able \in SUBSET Nat
        BY RefAssumed
    <2>2. Min(able) \in able
        <3> HIDE DEF able
        <3> QED BY <1>1, <2>1, LeastIn
    <2>3. first \in ToSet(BuiltIns) /\ BuiltInModel[first][lane] # NoModel
        BY <2>2, RefAssumed
    <2>4. first \in Providers /\ BuiltInModel[first][lane] \in Models
        BY <2>3, RefAssumed
    <2>5. auto = PM(first, BuiltInModel[first][lane])
        BY <1>1
    <2> HIDE DEF first, auto
    <2>6. auto \in Answers /\ auto.provider = first
        BY <2>3, <2>4, <2>5, Paired
    <2> QED BY <1>0, <2>3, <2>6 DEF Answered, ForVideo, MakesVideos
<1>2. CASE able = {} /\ mine # {}
    <2>1. mine \in SUBSET Nat
        BY RefAssumed
    <2>2. Min(mine) \in mine
        <3> HIDE DEF mine
        <3> QED BY <1>2, <2>1, LeastIn
    <2> DEFINE q == Min(mine)
               m0 == CHOOSE m \in OwnModels : own[q].models[m] = "default" /\ LaneOf[m] = lane
    <2>3. q \in OwnIds /\ \E m \in OwnModels : own[q].models[m] = "default" /\ LaneOf[m] = lane
        BY <2>2
    <2>4. m0 \in OwnModels
        <3> HIDE DEF q
        <3> QED BY <2>3
    <2>5. auto = PM(q, m0)
        BY <1>2
    <2> HIDE DEF q, m0, auto
    <2>6. q \in Providers /\ m0 \in Models /\ m0 # NoModel /\ IsOwn(q)
        BY <2>3, <2>4, RefAssumed
    <2>7. auto \in Answers /\ auto.provider = q
        BY <2>5, <2>6, Paired
    <2> QED BY <1>0, <2>6, <2>7 DEF Answered, ForVideo, MakesVideos
<1>3. CASE able = {} /\ mine = {}
    <2>1. auto = NoAnswer
        BY <1>3
    <2> HIDE DEF auto
    <2> QED BY <1>0, <2>1 DEF Answered, ForVideo
<1> QED BY <1>1, <1>2, <1>3

\* A bare provider that makes videos is given its video model.
LEMMA WithModels ==
    ASSUME NEW p \in Providers, NEW m \in Models, NEW lane \in Lanes
    PROVE  /\ Answered(WithModel(p, m, lane))
           /\ WithModel(p, m, lane) # NoAnswer => WithModel(p, m, lane).provider = p
           /\ lane = "video" /\ (~IsOwn(p) => m \in {NoModel, BuiltInModel[p]["video"]}) =>
                  ForVideo(WithModel(p, m, lane))
           /\ lane = "video" /\ m = NoModel /\ ~IsOwn(p) /\ MakesVideos(p) => WithModel(p, m, lane) # NoAnswer
<1>1. CASE m # NoModel
    <2>1. WithModel(p, m, lane) = PM(p, m)
        BY <1>1 DEF WithModel
    <2>2. PM(p, m) \in Answers /\ PM(p, m).provider = p
        BY <1>1, Paired
    <2> QED BY <1>1, <2>1, <2>2 DEF Answered, ForVideo, MakesVideos
<1>2. CASE m = NoModel /\ ~IsOwn(p) /\ BuiltInModel[p][lane] # NoModel
    <2>1. WithModel(p, m, lane) = PM(p, BuiltInModel[p][lane])
        BY <1>2 DEF WithModel
    <2>2. BuiltInModel[p][lane] \in Models
        BY <1>2, RefAssumed
    <2>3. PM(p, BuiltInModel[p][lane]) \in Answers /\ PM(p, BuiltInModel[p][lane]).provider = p
          /\ PM(p, BuiltInModel[p][lane]) # NoAnswer
        BY <1>2, <2>2, Paired
    <2> QED BY <1>2, <2>1, <2>3 DEF Answered, ForVideo, MakesVideos
<1>3. CASE m = NoModel /\ (IsOwn(p) \/ BuiltInModel[p][lane] = NoModel)
    <2>1. WithModel(p, m, lane) = NoAnswer
        BY <1>3 DEF WithModel
    <2> QED BY <1>3, <2>1 DEF Answered, ForVideo, MakesVideos
<1> QED BY <1>1, <1>2, <1>3

\* The parts of a key that names something.
LEMMA RefParts ==
    ASSUME NEW r \in Ref \cup {Absent, Cleared}, Names(r)
    PROVE  r \in Ref /\ r.provider \in Providers /\ r.model \in Models /\ r.serial \in 0..MaxSerial
<1>1. r \in Ref
    BY DEF Names
<1> QED BY <1>1 DEF Ref

\* What a key of the project says is an answer.
LEMMA ProjectAnswers ==
    ASSUME NEW r \in Ref \cup {Absent}, NEW slot \in ProjectKeys, slot # "script"
    PROVE  /\ Answered(FromProject(r, slot))
           /\ slot = "video" /\ Fits(r, slot) => ForVideo(FromProject(r, slot))
<1>1. CASE ~Names(r)
    <2>1. FromProject(r, slot) = NoAnswer
        BY <1>1 DEF FromProject
    <2> QED BY <2>1 DEF Answered, ForVideo
<1>2. CASE Names(r)
    <2>1. r.provider \in Providers /\ r.model \in Models
        BY <1>2, RefParts
    <2>2. FromProject(r, slot) = WithModel(r.provider, r.model, Lane(slot))
        BY <1>2 DEF FromProject
    <2>3. Lane(slot) \in Lanes /\ (slot = "video" => Lane(slot) = "video")
        BY SlotLanes
    <2>4. Answered(WithModel(r.provider, r.model, Lane(slot)))
        BY <2>1, <2>3, WithModels
    <2>5. ASSUME slot = "video", Fits(r, slot) PROVE ForVideo(WithModel(r.provider, r.model, Lane(slot)))
        <3>1. ~IsOwn(r.provider) => r.model \in {NoModel, BuiltInModel[r.provider]["video"]}
            BY <1>2, <2>5, SlotLanes DEF Fits
        <3> QED BY <2>1, <2>3, <2>5, <3>1, WithModels
    <2> QED BY <2>2, <2>4, <2>5
<1> QED BY <1>1, <1>2

\* The setting that is read for a slot.
LEMMA GlobalRefs ==
    ASSUME RoutingTypeOK, NEW slot \in ProjectKeys
    PROVE  /\ GlobalRef(slot) \in Ref \cup {Absent, Cleared}
           /\ slot = "video" => GlobalRef(slot) = settings["video"]
<1>1. /\ slot \in GlobalKeys /\ "image" \in GlobalKeys /\ "text" \in GlobalKeys
      /\ settings \in [GlobalKeys -> Ref \cup {Absent, Cleared}]
    BY DEF RoutingTypeOK, GlobalKeys, ProjectKeys
<1>2. ImageRef(slot) \in Ref \cup {Absent, Cleared} /\ TextRef(slot) \in Ref \cup {Absent, Cleared}
    BY <1>1 DEF ImageRef, TextRef
<1> QED BY <1>1, <1>2, SlotLanes DEF GlobalRef

\* What the settings say is an answer.
LEMMA DefaultAnswers ==
    ASSUME RoutingTypeOK, RefsFit, NEW slot \in ProjectKeys
    PROVE  Answered(DefaultBackend(slot)) /\ (slot = "video" => ForVideo(DefaultBackend(slot)))
<1> DEFINE r == GlobalRef(slot)
<1>0. r \in Ref \cup {Absent, Cleared} /\ (slot = "video" => r = settings["video"])
    BY GlobalRefs
<1>1. CASE Names(r) /\ r.model # NoModel
    <2> HIDE DEF r
    <2>1. r.provider \in Providers /\ r.model \in Models
        BY <1>0, <1>1, RefParts
    <2>2. DefaultBackend(slot) = PM(r.provider, r.model)
        BY <1>1 DEF DefaultBackend, r
    <2>3. PM(r.provider, r.model) \in Answers /\ PM(r.provider, r.model).provider = r.provider
        BY <1>1, <2>1, Paired
    <2>4. ASSUME slot = "video" PROVE MakesVideos(r.provider)
        <3>1. Fits(r, "video")
            BY <1>0, <2>4, SlotLanes DEF RefsFit
        <3> QED BY <1>1, <3>1, SlotLanes DEF Fits, MakesVideos
    <2> QED BY <2>2, <2>3, <2>4 DEF Answered, ForVideo
<1>2. CASE ~(Names(r) /\ r.model # NoModel)
    <2>1. DefaultBackend(slot) = AutoResolved(Lane(slot))
        BY <1>2 DEF DefaultBackend
    <2>2. Lane(slot) \in Lanes /\ (slot = "video" => Lane(slot) = "video")
        BY SlotLanes
    <2> QED BY <2>1, <2>2, AutoAnswers
<1> QED BY <1>1, <1>2

Payload == [provider : Providers \cup {NoProvider}, model : {NoModel}]
\* The resolver's three sources together; a built-in provider that the payload
\* names comes first.
LEMMA Resolves ==
    ASSUME RoutingTypeOK, RefsFit, NEW payload \in Payload, NEW proj \in Overrides,
           NEW slot \in ProjectKeys, slot # "script"
    PROVE  /\ Answered(ResolvedFor(payload, proj, slot))
           /\ slot = "video" /\ (\A k \in ProjectKeys : Fits(proj[k], k)) =>
                  ForVideo(ResolvedFor(payload, proj, slot))
           /\ slot = "video" /\ payload.provider # NoProvider /\ MakesVideos(payload.provider)
              /\ ~IsOwn(payload.provider) =>
                  /\ ResolvedFor(payload, proj, slot) # NoAnswer
                  /\ ResolvedFor(payload, proj, slot).provider = payload.provider
<1> DEFINE asked == IF payload.provider = NoProvider THEN NoAnswer
                    ELSE WithModel(payload.provider, payload.model, Lane(slot))
           chosen == FromProject(proj[slot], slot)
           p == payload.provider
<1>0. ResolvedFor(payload, proj, slot) =
          IF asked # NoAnswer THEN asked ELSE IF chosen # NoAnswer THEN chosen ELSE DefaultBackend(slot)
    BY DEF ResolvedFor
<1>1. payload.model = NoModel /\ NoModel \in Models /\ (p # NoProvider => p \in Providers)
      /\ Lane(slot) \in Lanes /\ (slot = "video" => Lane(slot) = "video")
    BY SlotLanes DEF Payload, Models
<1>2. /\ Answered(asked) /\ (slot = "video" => ForVideo(asked))
      /\ (asked # NoAnswer => asked.provider = p)
      /\ slot = "video" /\ p # NoProvider /\ MakesVideos(p) /\ ~IsOwn(p) => asked # NoAnswer
    <2>1. CASE p = NoProvider
        <3>1. asked = NoAnswer
            BY <2>1
        <3> QED BY <2>1, <3>1 DEF Answered, ForVideo
    <2>2. CASE p # NoProvider
        <3>1. asked = WithModel(p, NoModel, Lane(slot))
            BY <1>1, <2>2
        <3> HIDE DEF asked, p
        <3>2. p \in Providers
            BY <1>1, <2>2
        <3> QED BY <1>1, <2>2, <3>1, <3>2, WithModels
    <2> QED BY <2>1, <2>2
<1>3. proj[slot] \in Ref \cup {Absent}
    BY DEF Overrides
<1>4. Answered(chosen) /\ (slot = "video" /\ Fits(proj[slot], slot) => ForVideo(chosen))
    BY <1>3, ProjectAnswers
<1>5. Answered(DefaultBackend(slot)) /\ (slot = "video" => ForVideo(DefaultBackend(slot)))
    BY DefaultAnswers
<1> HIDE DEF asked, chosen
<1> QED BY <1>0, <1>2, <1>4, <1>5

\* The backend of an own provider may have another model, never another provider.
LEMMA OwnBuilds ==
    ASSUME RoutingTypeOK, NEW pm \in Answers, IsOwn(pm.provider), NEW lane
    PROVE  /\ Answered(OwnBackend(pm, lane))
           /\ OwnBackend(pm, lane) # NoAnswer => OwnBackend(pm, lane).provider = pm.provider
<1> DEFINE p == pm.provider
           models == own[p].models
           usable == pm.model \in OwnModels /\ models[pm.model] \in {"on", "default"} /\ LaneOf[pm.model] = lane
           defaults == {m \in OwnModels : models[m] = "default" /\ LaneOf[m] = lane}
           m0 == CHOOSE m \in defaults : TRUE
<1>0. p \in Providers
    BY DEF Answers
<1>1. OwnBackend(pm, lane) = IF ~IsDefined(p) THEN NoAnswer ELSE IF usable THEN pm
                             ELSE IF defaults = {} THEN NoAnswer ELSE PM(p, m0)
    BY DEF OwnBackend
<1>2. defaults # {} => m0 \in OwnModels
    OBVIOUS
<1>3. defaults # {} => m0 \in Models /\ m0 # NoModel
    <2> HIDE DEF defaults, m0
    <2> QED BY <1>2, RefAssumed
<1> HIDE DEF m0, defaults, usable
<1>4. defaults # {} => PM(p, m0) \in Answers /\ PM(p, m0).provider = p
    BY <1>0, <1>3, Paired
<1> QED BY <1>1, <1>4 DEF Answered

\* No backend is of another provider than the one that was asked for.
LEMMA Assembles ==
    ASSUME RoutingTypeOK, NEW pm, Answered(pm), NEW lane
    PROVE  /\ Answered(Assembled(pm, lane))
           /\ Assembled(pm, lane) # NoAnswer => pm # NoAnswer /\ Assembled(pm, lane).provider = pm.provider
<1>1. CASE pm = NoAnswer
    BY <1>1 DEF Assembled, Answered
<1>2. CASE pm # NoAnswer
    <2>1. pm \in Answers
        BY <1>2 DEF Answered
    <2>2. BuiltInBackend(pm, lane) \in {pm, NoAnswer}
        BY DEF BuiltInBackend
    <2>3. CASE IsOwn(pm.provider)
        BY <1>2, <2>1, <2>3, OwnBuilds DEF Assembled
    <2>4. CASE ~IsOwn(pm.provider)
        BY <1>2, <2>1, <2>2, <2>4 DEF Assembled, Answered
    <2> QED BY <2>3, <2>4
<1> QED BY <1>1, <1>2

\* The durations that can be told are those of the model.
LEMMA Supports ==
    ASSUME NEW pm, Answered(pm)
    PROVE  /\ SupportedSeconds(pm) # {} => pm # NoAnswer /\ SupportedSeconds(pm) = SecondsOf[pm]
           /\ SupportedSeconds(pm) \in SUBSET AllSeconds
<1>1. CASE pm = NoAnswer
    BY <1>1 DEF SupportedSeconds
<1>2. CASE pm # NoAnswer
    <2>1. pm \in Answers
        BY <1>2 DEF Answered
    <2>2. SecondsOf[pm] \subseteq AllSeconds
        BY <2>1 DEF AllSeconds
    <2>3. SupportedSeconds(pm) \in {{}, SecondsOf[pm]}
        BY <1>2 DEF SupportedSeconds
    <2> QED BY <1>2, <2>2, <2>3
<1> QED BY <1>1, <1>2

-----------------------------------------------------------------------------
(* The configuration changes.                                              *)

ConfigTypeOK ==
    /\ ready \subseteq ToSet(BuiltIns) /\ sweeping \subseteq OwnIds
    /\ own \in [OwnIds -> OwnRow \cup {NoProvider}]
    /\ settings \in [GlobalKeys -> Ref \cup {Absent, Cleared}] /\ override \in Overrides
    /\ leftOver \subseteq {"global", "project"} \X GlobalKeys
    /\ serials \in 0..MaxSerial /\ changes \in 0..MaxChanges
ConfigInv == ConfigTypeOK /\ RefsFit /\ SettingsKeepTheirMeaning
TasksInv == routed \in [RouteTasks -> RoutedTask] /\ \A t \in RouteTasks : RouteInv(routed[t])

\* The invariant is one of the configuration and one of the tasks.
LEMMA TwoParts == RoutingInv <=> ConfigInv /\ TasksInv
<1>1. RoutingTypeOK <=> ConfigTypeOK /\ routed \in [RouteTasks -> RoutedTask]
    BY DEF RoutingTypeOK, ConfigTypeOK
<1> QED BY <1>1 DEF RoutingInv, ConfigInv, TasksInv

\* A task that is marked is otherwise the same.
LEMMA MarkOne ==
    ASSUME NEW b \in BOOLEAN, NEW w \in RoutedTask
    PROVE  \A r : r = [w EXCEPT !.moved = b] =>
               /\ r \in RoutedTask /\ r.moved = b
               /\ r.at = w.at /\ r.kind = w.kind /\ r.payload = w.payload /\ r.prov = w.prov
               /\ r.copy = w.copy /\ r.backend = w.backend /\ r.swapped = w.swapped
               /\ r.known = w.known /\ r.seconds = w.seconds /\ r.asked = w.asked /\ r.route = w.route
BY DEF RoutedTask

Noted == [t \in RouteTasks |->
    IF routed[t].at \in {"claimed", "loaded", "built"} THEN [routed[t] EXCEPT !.moved = TRUE] ELSE routed[t]]

\* A change of the configuration leaves the tasks sound: those between two looks are
\* marked, the others hold nothing that depends on it.
LEMMA NotedTasks ==
    ASSUME TasksInv, routed' = Noted PROVE TasksInv'
<1>1. ASSUME NEW t \in RouteTasks PROVE routed'[t] \in RoutedTask /\ RouteInv(routed[t])'
    <2> DEFINE w == routed[t]
               n == routed'[t]
    <2>1. w \in RoutedTask /\ RouteInv(w)
        BY DEF TasksInv
    <2>2. CASE w.at \notin {"claimed", "loaded", "built"}
        <3>1. n = w
            BY <2>2 DEF Noted
        <3> QED BY <2>1, <2>2, <3>1 DEF RouteInv
    <2>3. CASE w.at \in {"claimed", "loaded", "built"}
        <3>1. n = [w EXCEPT !.moved = TRUE]
            BY <2>3 DEF Noted
        <3>2. TRUE \in BOOLEAN
            OBVIOUS
        <3>3. \A r : r = [w EXCEPT !.moved = TRUE] =>
               /\ r \in RoutedTask /\ r.moved = TRUE
               /\ r.at = w.at /\ r.kind = w.kind /\ r.payload = w.payload /\ r.prov = w.prov
               /\ r.copy = w.copy /\ r.backend = w.backend /\ r.swapped = w.swapped
               /\ r.known = w.known /\ r.seconds = w.seconds /\ r.asked = w.asked /\ r.route = w.route
            <4> HIDE DEF w
            <4> QED BY <2>1, <3>2, MarkOne, Zenon
        <3>4. /\ n \in RoutedTask /\ n.moved = TRUE
              /\ n.at = w.at /\ n.kind = w.kind /\ n.payload = w.payload /\ n.prov = w.prov
              /\ n.copy = w.copy /\ n.backend = w.backend /\ n.swapped = w.swapped
              /\ n.known = w.known /\ n.seconds = w.seconds /\ n.asked = w.asked /\ n.route = w.route
            <4> HIDE DEF w, n
            <4> QED BY <3>1, <3>3, Zenon
        <3>5. /\ \A k \in ProjectKeys : Fits(w.copy[k], k)
              /\ w.kind # "image" /\ w.at \in AtWork => w.prov = NoProvider \/ MakesVideos(w.prov)
              /\ w.at \in {"built", "called"} => w.backend # NoAnswer
            BY <2>1 DEF RouteInv
        <3> QED BY <2>3, <3>4, <3>5 DEF RouteInv
    <2> QED BY <2>2, <2>3
<1>2. routed' \in [RouteTasks -> RoutedTask]
    BY <1>1 DEF Noted
<1> QED BY <1>1, <1>2 DEF TasksInv

\* What every change of the configuration does.
LEMMA ChangesNotes ==
    ASSUME ConfigTypeOK, Changes PROVE routed' = Noted /\ changes' \in 0..MaxChanges
BY RoutingAssumption DEF ConfigTypeOK, Changes, Noted

\* What a step leaves of a reference's meaning.
LEMMA MeaningStays ==
    ASSUME NEW r, r.provider \in OwnIds, own'[r.provider] = own[r.provider]
    PROVE  Means(r)' <=> Means(r)
BY DEF Means, IsDefined, Lists

\* A reference of a request fits its key, and means what it names unless that is nothing.
LEMMA RefsGiven ==
    ASSUME ConfigTypeOK, NEW k \in GlobalKeys, NEW r \in BuiltInRefs(Lane(k)) \cup OwnRefs(Lane(k))
    PROVE  /\ r \in Ref /\ Fits(r, k) /\ Names(r)
           /\ IsOwn(r.provider) /\ ~NamesNothing(r) => Means(r)
<1>0. Lane(k) \in Lanes
    BY SlotLanes
<1>1. CASE r \in BuiltInRefs(Lane(k))
    <2>1. PICK p \in ToSet(BuiltIns) : \E m \in {NoModel, BuiltInModel[p][Lane(k)]} :
              r = [provider |-> p, model |-> m, serial |-> 0]
        BY <1>1 DEF BuiltInRefs
    <2>2. PICK m \in {NoModel, BuiltInModel[p][Lane(k)]} : r = [provider |-> p, model |-> m, serial |-> 0]
        BY <2>1
    <2>3. p \in Providers /\ ~IsOwn(p) /\ m \in Models /\ 0 \in 0..MaxSerial
        BY <1>0, <2>2, RefAssumed, RoutingAssumption
    <2>4. r \in Ref /\ r.provider = p /\ r.model = m
        BY <2>2, <2>3 DEF Ref
    <2>5. Names(r)
        BY <2>4, RefAssumed
    <2> QED BY <2>2, <2>3, <2>4, <2>5 DEF Fits
<1>2. CASE r \in OwnRefs(Lane(k))
    <2> DEFINE s(p) == IF IsDefined(p) THEN own[p].serial ELSE 0
    <2>1. PICK p \in OwnIds, m \in OwnModels : r = [provider |-> p, model |-> m, serial |-> s(p)]
        BY <1>2 DEF OwnRefs
    <2>2. s(p) \in 0..MaxSerial
        BY RoutingAssumption DEF ConfigTypeOK, IsDefined, OwnRow
    <2>3. p \in Providers /\ IsOwn(p) /\ m \in Models
        BY RefAssumed
    <2>4. r.provider = p /\ r.model = m /\ r.serial = s(p) /\ r \in Ref
        <3> HIDE DEF s
        <3> QED BY <2>1, <2>2, <2>3 DEF Ref
    <2>5. Names(r)
        BY <2>4, RefAssumed
    <2> QED BY <2>3, <2>4, <2>5 DEF Fits, NamesNothing, Means
<1> QED BY <1>1, <1>2

\* A credential is no part of what a key means.
LEMMA SetCredentialKeeps ==
    ASSUME ConfigInv, NEW p \in ToSet(BuiltIns), SetCredential(p) PROVE ConfigInv'
<1>1. ConfigTypeOK'
    BY ChangesNotes DEF ConfigInv, ConfigTypeOK, SetCredential
<1>2. RefsFit'
    BY DEF ConfigInv, RefsFit, SetCredential
<1>3. SettingsKeepTheirMeaning'
    BY DEF ConfigInv, SettingsKeepTheirMeaning, SetCredential, Means, IsDefined, Lists
<1> QED BY <1>1, <1>2, <1>3 DEF ConfigInv

\* A written key: the other one is as it was.
LEMMA PatchSettingsKeeps ==
    ASSUME ConfigInv, NEW k \in GlobalKeys, PatchSettings(k) PROVE ConfigInv'
<1>1. PICK r \in BuiltInRefs(Lane(k)) \cup OwnRefs(Lane(k)) \cup {Cleared} :
          /\ settings' = [settings EXCEPT ![k] = r]
          /\ leftOver' = (leftOver \ {<<"global", k>>}) \cup (IF NamesNothing(r) THEN {<<"global", k>>} ELSE {})
    BY DEF PatchSettings
<1>2. UNCHANGED <<ready, own, override, sweeping, serials>> /\ Changes
    BY DEF PatchSettings
<1>3. ConfigTypeOK /\ RefsFit /\ SettingsKeepTheirMeaning
    BY DEF ConfigInv
<1>4. /\ r \in Ref \cup {Cleared} /\ Fits(r, k)
      /\ OwnRef(r) /\ ~NamesNothing(r) => Means(r)
    <2>1. CASE r = Cleared
        BY <2>1 DEF Fits, Names, OwnRef
    <2>2. CASE r # Cleared
        <3>1. r \in BuiltInRefs(Lane(k)) \cup OwnRefs(Lane(k))
            BY <2>2
        <3> QED BY <1>3, <3>1, RefsGiven DEF OwnRef
    <2> QED BY <2>1, <2>2
<1>5. ConfigTypeOK'
    <2>1. changes' \in 0..MaxChanges
        BY <1>2, <1>3, ChangesNotes
    <2>2. settings' \in [GlobalKeys -> Ref \cup {Absent, Cleared}]
        BY <1>1, <1>3, <1>4 DEF ConfigTypeOK
    <2>3. leftOver' \subseteq {"global", "project"} \X GlobalKeys
        BY <1>1, <1>3 DEF ConfigTypeOK
    <2> QED BY <1>2, <1>3, <2>1, <2>2, <2>3 DEF ConfigTypeOK
<1>6. RefsFit'
    BY <1>1, <1>2, <1>3, <1>4 DEF RefsFit, ConfigTypeOK
<1>7. SettingsKeepTheirMeaning'
    <2>1. \A x : Means(x)' <=> Means(x)
        BY <1>2 DEF Means, IsDefined, Lists
    <2>2. ASSUME NEW j \in GlobalKeys, OwnRef(settings'[j])
          PROVE  Means(settings'[j]) \/ <<"global", j>> \in leftOver'
        <3>1. CASE j = k
            <4>1. settings'[j] = r
                BY <1>1, <1>3, <3>1 DEF ConfigTypeOK
            <4> QED BY <1>1, <1>4, <2>2, <3>1, <4>1
        <3>2. CASE j # k
            <4>1. settings'[j] = settings[j]
                BY <1>1, <1>3, <3>2 DEF ConfigTypeOK
            <4> QED BY <1>1, <1>3, <2>2, <3>2, <4>1 DEF SettingsKeepTheirMeaning
        <3> QED BY <3>1, <3>2
    <2>3. ASSUME NEW j \in ProjectKeys, OwnRef(override[j])
          PROVE  Means(override[j]) \/ <<"project", j>> \in leftOver' \/ override[j].provider \in sweeping
        BY <1>1, <1>3, <2>3 DEF SettingsKeepTheirMeaning
    <2>4. \A x : OwnRef(x)' <=> OwnRef(x)
        BY DEF OwnRef, Names, IsOwn
    <2> QED BY <1>2, <2>1, <2>2, <2>3, <2>4 DEF SettingsKeepTheirMeaning
<1> QED BY <1>5, <1>6, <1>7 DEF ConfigInv

\* So is a key of the project.
LEMMA PatchProjectKeeps ==
    ASSUME ConfigInv, NEW k \in ProjectKeys, PatchProject(k) PROVE ConfigInv'
<1>1. PICK r \in BuiltInRefs(Lane(k)) \cup OwnRefs(Lane(k)) \cup {Absent} :
          /\ override' = [override EXCEPT ![k] = r]
          /\ leftOver' = (leftOver \ {<<"project", k>>}) \cup (IF NamesNothing(r) THEN {<<"project", k>>} ELSE {})
    BY DEF PatchProject
<1>2. UNCHANGED <<ready, own, settings, sweeping, serials>> /\ Changes
    BY DEF PatchProject
<1>3. ConfigTypeOK /\ RefsFit /\ SettingsKeepTheirMeaning /\ k \in GlobalKeys
    BY SlotLanes DEF ConfigInv
<1>4. /\ r \in Ref \cup {Absent} /\ Fits(r, k)
      /\ OwnRef(r) /\ ~NamesNothing(r) => Means(r)
    <2>1. CASE r = Absent
        BY <2>1 DEF Fits, Names, OwnRef
    <2>2. CASE r # Absent
        <3>1. r \in BuiltInRefs(Lane(k)) \cup OwnRefs(Lane(k))
            BY <2>2
        <3> QED BY <1>3, <3>1, RefsGiven DEF OwnRef
    <2> QED BY <2>1, <2>2
<1>5. ConfigTypeOK'
    <2>1. changes' \in 0..MaxChanges
        BY <1>2, <1>3, ChangesNotes
    <2>2. override' \in Overrides
        BY <1>1, <1>3, <1>4 DEF ConfigTypeOK, Overrides
    <2>3. leftOver' \subseteq {"global", "project"} \X GlobalKeys
        BY <1>1, <1>3 DEF ConfigTypeOK
    <2> QED BY <1>2, <1>3, <2>1, <2>2, <2>3 DEF ConfigTypeOK
<1>6. RefsFit'
    BY <1>1, <1>2, <1>3, <1>4 DEF RefsFit, ConfigTypeOK, Overrides
<1>7. SettingsKeepTheirMeaning'
    <2>1. \A x : Means(x)' <=> Means(x)
        BY <1>2 DEF Means, IsDefined, Lists
    <2>2. ASSUME NEW j \in ProjectKeys, OwnRef(override'[j])
          PROVE  Means(override'[j]) \/ <<"project", j>> \in leftOver' \/ override'[j].provider \in sweeping
        <3>1. CASE j = k
            <4>1. override'[j] = r
                BY <1>1, <1>3, <3>1 DEF ConfigTypeOK, Overrides
            <4> QED BY <1>1, <1>4, <2>2, <3>1, <4>1
        <3>2. CASE j # k
            <4>1. override'[j] = override[j]
                BY <1>1, <1>3, <3>2 DEF ConfigTypeOK, Overrides
            <4> QED BY <1>1, <1>3, <2>2, <3>2, <4>1 DEF SettingsKeepTheirMeaning
        <3> QED BY <3>1, <3>2
    <2>3. ASSUME NEW j \in GlobalKeys, OwnRef(settings[j])
          PROVE  Means(settings[j]) \/ <<"global", j>> \in leftOver'
        BY <1>1, <1>3, <2>3 DEF SettingsKeepTheirMeaning
    <2>4. \A x : OwnRef(x)' <=> OwnRef(x)
        BY DEF OwnRef, Names, IsOwn
    <2> QED BY <1>2, <2>1, <2>2, <2>3, <2>4 DEF SettingsKeepTheirMeaning
<1> QED BY <1>5, <1>6, <1>7 DEF ConfigInv

\* The id that is given next has no provider.
LEMMA FreeIsUndefined ==
    ASSUME FreeOwnId \in OwnIds PROVE ~IsDefined(FreeOwnId)
<1> DEFINE F == {p \in OwnIds : IsDefined(p)} \cup {0}
<1>1. MaxOwn \in Nat /\ OwnIds = 1..MaxOwn
    BY RoutingAssumption DEF OwnIds
<1>2. F \in SUBSET (0..MaxOwn) /\ F # {}
    BY <1>1
<1> DEFINE top == Max(F)
<1>3. FreeOwnId = top + 1
    BY DEF FreeOwnId
<1>4. top \in F /\ \A j \in F : j <= top
    <2> HIDE DEF F
    <2>1. MaxOwn \in Nat
        BY <1>1
    <2>2. Max(F) \in F /\ \A j \in F : j <= Max(F)
        BY <2>1, <1>2, GreatestIn, Zenon
    <2> QED BY <2>2
<1>5. FreeOwnId \notin F
    <2> HIDE DEF F, top
    <2>1. top \in 0..MaxOwn
        BY <1>2, <1>4
    <2> QED BY <1>1, <1>3, <1>4, <2>1
<1> QED BY <1>5

\* An own reference fits: it names one of the models.
LEMMA OwnRefsFit ==
    ASSUME ConfigTypeOK, RefsFit
    PROVE  /\ \A k \in GlobalKeys : OwnRef(settings[k]) =>
                  settings[k].provider \in OwnIds /\ settings[k].model \in OwnModels /\ settings[k].model # NoModel
           /\ \A k \in ProjectKeys : OwnRef(override[k]) =>
                  override[k].provider \in OwnIds /\ override[k].model \in OwnModels /\ override[k].model # NoModel
BY RefAssumed DEF RefsFit, Fits, OwnRef, IsOwn

\* A new provider has an id that no key means: what named the id is excused.
LEMMA CreateProviderKeeps ==
    ASSUME ConfigInv, CreateProvider PROVE ConfigInv'
<1>1. PICK models \in ModelLists :
          own' = [own EXCEPT ![FreeOwnId] = [serial |-> serials + 1, models |-> models]]
    BY DEF CreateProvider
<1>2. /\ UNCHANGED <<ready, settings, override, sweeping, leftOver>> /\ Changes
      /\ FreeOwnId \in OwnIds /\ serials < MaxSerial /\ serials' = serials + 1
    BY DEF CreateProvider
<1>3. ConfigTypeOK /\ RefsFit /\ SettingsKeepTheirMeaning
    BY DEF ConfigInv
<1>4. MaxSerial \in Nat /\ models \in OwnLists
    BY <1>1, RoutingAssumption DEF ModelLists
<1>5. ConfigTypeOK'
    <2>1. changes' \in 0..MaxChanges
        BY <1>2, <1>3, ChangesNotes
    <2>2. serials + 1 \in 1..MaxSerial /\ serials' \in 0..MaxSerial
        BY <1>2, <1>3, <1>4 DEF ConfigTypeOK
    <2>3. [serial |-> serials + 1, models |-> models] \in OwnRow
        BY <1>4, <2>2 DEF OwnRow
    <2>4. own' \in [OwnIds -> OwnRow \cup {NoProvider}]
        BY <1>1, <1>3, <2>3 DEF ConfigTypeOK
    <2> QED BY <1>2, <1>3, <2>1, <2>2, <2>4 DEF ConfigTypeOK
<1>6. RefsFit'
    BY <1>2, <1>3 DEF RefsFit
<1>7. SettingsKeepTheirMeaning'
    <2>1. ASSUME NEW x, OwnRef(x), Means(x) PROVE Means(x)'
        <3>1. x.provider \in OwnIds /\ IsDefined(x.provider)
            BY <2>1 DEF OwnRef, IsOwn, Means
        <3>2. x.provider # FreeOwnId
            BY <1>2, <3>1, FreeIsUndefined
        <3>3. own'[x.provider] = own[x.provider]
            BY <1>1, <1>3, <3>1, <3>2 DEF ConfigTypeOK
        <3> QED BY <2>1, <3>1, <3>3, MeaningStays
    <2>2. \A x : OwnRef(x)' <=> OwnRef(x)
        BY DEF OwnRef, Names, IsOwn
    <2> QED BY <1>2, <1>3, <2>1, <2>2 DEF SettingsKeepTheirMeaning
<1> QED BY <1>5, <1>6, <1>7 DEF ConfigInv

\* Every setting that named the provider is emptied with it; the projects wait for the sweep.
LEMMA DeleteProviderKeeps ==
    ASSUME ConfigInv, NEW p \in OwnIds, DeleteProvider(p) PROVE ConfigInv'
<1> DEFINE swept(k) == k \in SweptKeys /\ NamesOwn(settings[k], p)
<1>1. /\ UNCHANGED <<ready, override, serials>> /\ Changes
      /\ own' = [own EXCEPT ![p] = NoProvider]
      /\ settings' = [k \in GlobalKeys |-> IF swept(k) THEN Cleared ELSE settings[k]]
      /\ sweeping' = sweeping \cup {p}
      /\ leftOver' \subseteq leftOver
      /\ \A tag : tag \in leftOver =>
             tag \in leftOver' \/ \E k \in GlobalKeys : swept(k) /\ tag = <<"global", k>>
    BY DEF DeleteProvider, SweptKeys
<1>2. ConfigTypeOK /\ RefsFit /\ SettingsKeepTheirMeaning
    BY DEF ConfigInv
<1>3. ConfigTypeOK'
    <2>1. changes' \in 0..MaxChanges
        BY <1>1, <1>2, ChangesNotes
    <2> HIDE DEF swept
    <2>2. settings' \in [GlobalKeys -> Ref \cup {Absent, Cleared}]
        BY <1>1, <1>2 DEF ConfigTypeOK
    <2>3. own' \in [OwnIds -> OwnRow \cup {NoProvider}]
        BY <1>1, <1>2 DEF ConfigTypeOK
    <2> QED BY <1>1, <1>2, <2>1, <2>2, <2>3 DEF ConfigTypeOK
<1>4. RefsFit'
    <2> HIDE DEF swept
    <2> QED BY <1>1, <1>2 DEF RefsFit, ConfigTypeOK, Fits, Names
<1>5. SettingsKeepTheirMeaning'
    <2>1. ASSUME NEW x, OwnRef(x), Means(x), x.provider # p PROVE Means(x)'
        <3>1. x.provider \in OwnIds
            BY <2>1 DEF OwnRef, IsOwn
        <3>2. own'[x.provider] = own[x.provider]
            BY <1>1, <1>2, <2>1, <3>1 DEF ConfigTypeOK
        <3> QED BY <2>1, <3>1, <3>2, MeaningStays
    <2>2. \A x : OwnRef(x)' <=> OwnRef(x)
        BY DEF OwnRef, Names, IsOwn
    <2>3. ASSUME NEW j \in GlobalKeys, NEW x, x = settings'[j], OwnRef(x)
          PROVE  Means(x)' \/ <<"global", j>> \in leftOver'
        <3>1. ~swept(j) /\ x = settings[j]
            <4> HIDE DEF swept
            <4> QED BY <1>1, <2>3 DEF OwnRef, Names
        <3>2. x.provider # p
            BY <1>2, <2>3, <3>1, OwnRefsFit DEF SweptKeys, NamesOwn, OwnRef
        <3>3. <<"global", j>> \in leftOver => <<"global", j>> \in leftOver'
            <4> HIDE DEF swept
            <4> QED BY <1>1, <3>1
        <3>4. Means(x) \/ <<"global", j>> \in leftOver
            BY <1>2, <2>3, <3>1 DEF SettingsKeepTheirMeaning
        <3> QED BY <2>1, <2>3, <3>2, <3>3, <3>4
    <2>4. ASSUME NEW j \in ProjectKeys, NEW x, x = override[j], OwnRef(x)
          PROVE  Means(x)' \/ <<"project", j>> \in leftOver' \/ x.provider \in sweeping'
        <3>1. <<"project", j>> \in leftOver => <<"project", j>> \in leftOver'
            <4> HIDE DEF swept
            <4> QED BY <1>1
        <3>2. Means(x) \/ <<"project", j>> \in leftOver \/ x.provider \in sweeping
            BY <1>2, <2>4 DEF SettingsKeepTheirMeaning
        <3> QED BY <1>1, <2>1, <2>4, <3>1, <3>2
    <2> QED BY <1>1, <2>2, <2>3, <2>4 DEF SettingsKeepTheirMeaning
<1> QED BY <1>3, <1>4, <1>5 DEF ConfigInv

\* The sweep leaves no key with the name, or excuses those it cannot write.
LEMMA SweepProjectKeeps ==
    ASSUME ConfigInv, NEW p \in OwnIds, SweepProject(p) PROVE ConfigInv'
<1> DEFINE named(k) == NamesOwn(override[k], p)
<1>1. /\ UNCHANGED <<ready, own, settings, serials, changes>>
      /\ sweeping' = sweeping \ {p}
      /\ \/ /\ override' = [k \in ProjectKeys |-> IF named(k) THEN Absent ELSE override[k]]
            /\ leftOver' = leftOver \ {<<"project", k>> : k \in {k \in ProjectKeys : named(k)}}
         \/ /\ UNCHANGED override
            /\ leftOver' = leftOver \cup {<<"project", k>> : k \in {k \in ProjectKeys : named(k)}}
    <2>1. \A k \in ProjectKeys : k \in {j \in ProjectKeys : named(j)} <=> named(k)
        OBVIOUS
    <2>2. [k \in ProjectKeys |-> IF k \in {j \in ProjectKeys : named(j)} THEN Absent ELSE override[k]]
              = [k \in ProjectKeys |-> IF named(k) THEN Absent ELSE override[k]]
        <3> HIDE DEF named
        <3> QED BY <2>1
    <2> QED BY <2>2 DEF SweepProject
<1>2. ConfigTypeOK /\ RefsFit /\ SettingsKeepTheirMeaning
    BY DEF ConfigInv
<1>3. /\ override' \in Overrides
      /\ leftOver' \subseteq {"global", "project"} \X GlobalKeys
      /\ \A k \in GlobalKeys : <<"global", k>> \in leftOver => <<"global", k>> \in leftOver'
      /\ \A k \in ProjectKeys :
             \/ override'[k] = Absent
             \/ /\ override'[k] = override[k]
                /\ <<"project", k>> \in leftOver \/ named(k) => <<"project", k>> \in leftOver'
    <2> HIDE DEF named
    <2>1. leftOver \subseteq {"global", "project"} \X GlobalKeys /\ override \in Overrides /\ ProjectKeys \subseteq GlobalKeys
        BY <1>2, SlotLanes DEF ConfigTypeOK
    <2>2. CASE /\ override' = [k \in ProjectKeys |-> IF named(k) THEN Absent ELSE override[k]]
               /\ leftOver' = leftOver \ {<<"project", k>> : k \in {k \in ProjectKeys : named(k)}}
        <3>1. override' \in Overrides
            BY <2>1, <2>2 DEF Overrides
        <3>2. leftOver' \subseteq {"global", "project"} \X GlobalKeys
            BY <2>1, <2>2
        <3>3. \A k \in GlobalKeys : <<"global", k>> \in leftOver => <<"global", k>> \in leftOver'
            BY <2>2
        <3>4. ASSUME NEW k \in ProjectKeys, ~named(k), <<"project", k>> \in leftOver
              PROVE  <<"project", k>> \in leftOver'
            BY <2>2, <3>4
        <3> QED BY <2>2, <3>1, <3>2, <3>3, <3>4
    <2>3. CASE /\ UNCHANGED override
               /\ leftOver' = leftOver \cup {<<"project", k>> : k \in {k \in ProjectKeys : named(k)}}
        BY <2>1, <2>3
    <2> QED BY <1>1, <2>2, <2>3
<1> HIDE DEF named
<1>4. ConfigTypeOK'
    BY <1>1, <1>2, <1>3 DEF ConfigTypeOK
<1>5. RefsFit'
    BY <1>1, <1>2, <1>3 DEF RefsFit, Fits, Names
<1>6. SettingsKeepTheirMeaning'
    <2>1. \A x : Means(x)' <=> Means(x)
        BY <1>1 DEF Means, IsDefined, Lists
    <2>2. \A x : OwnRef(x)' <=> OwnRef(x)
        BY DEF OwnRef, Names, IsOwn
    <2>3. ASSUME NEW j \in GlobalKeys, OwnRef(settings[j])
          PROVE  Means(settings[j]) \/ <<"global", j>> \in leftOver'
        BY <1>2, <1>3, <2>3 DEF SettingsKeepTheirMeaning
    <2>4. ASSUME NEW j \in ProjectKeys, NEW x, x = override'[j], OwnRef(x)
          PROVE  Means(x) \/ <<"project", j>> \in leftOver' \/ x.provider \in sweeping'
        <3>1. x = override[j] /\ (<<"project", j>> \in leftOver \/ named(j) => <<"project", j>> \in leftOver')
            BY <1>3, <2>4 DEF OwnRef, Names
        <3>2. x.provider = p => named(j)
            BY <1>2, <2>4, <3>1, OwnRefsFit DEF named, NamesOwn, OwnRef
        <3>3. Means(x) \/ <<"project", j>> \in leftOver \/ x.provider \in sweeping
            BY <1>2, <2>4, <3>1 DEF SettingsKeepTheirMeaning
        <3> QED BY <1>1, <3>1, <3>2, <3>3
    <2> QED BY <1>1, <2>1, <2>2, <2>3, <2>4 DEF SettingsKeepTheirMeaning
<1> QED BY <1>4, <1>5, <1>6 DEF ConfigInv

\* The list of models of one provider is replaced.
LEMMA ListReplaced ==
    ASSUME ConfigTypeOK, NEW p \in OwnIds, IsDefined(p), NEW models \in ModelLists,
           own' = [own EXCEPT ![p].models = models]
    PROVE  /\ own' \in [OwnIds -> OwnRow \cup {NoProvider}]
           /\ \A x : OwnRef(x) /\ Means(x) /\ ~(x.provider = p /\ models[x.model] = "none") => Means(x)'
<1>1. models \in OwnLists
    BY DEF ModelLists
<1>2. own[p] \in OwnRow /\ own[p] # NoProvider
    BY DEF ConfigTypeOK, IsDefined
<1>3. /\ own' = [own EXCEPT ![p] = [own[p] EXCEPT !.models = models]]
      /\ [own[p] EXCEPT !.models = models] \in OwnRow
      /\ [own[p] EXCEPT !.models = models].serial = own[p].serial
      /\ [own[p] EXCEPT !.models = models].models = models
    BY <1>1, <1>2 DEF OwnRow
<1>4. own' \in [OwnIds -> OwnRow \cup {NoProvider}]
    BY <1>3 DEF ConfigTypeOK
<1>5. NoProvider \notin OwnRow
    BY RoutingAssumption DEF OwnRow
<1>6. ASSUME NEW x, OwnRef(x), Means(x), ~(x.provider = p /\ models[x.model] = "none") PROVE Means(x)'
    <2>1. x.provider \in OwnIds
        BY <1>6 DEF OwnRef, IsOwn
    <2>2. CASE x.provider # p
        <3>1. own'[x.provider] = own[x.provider]
            BY <1>3, <2>1, <2>2 DEF ConfigTypeOK
        <3> QED BY <1>6, <2>1, <3>1, MeaningStays
    <2>3. CASE x.provider = p
        <3>1. /\ own'[p].serial = own[p].serial /\ own'[p].models = models /\ own'[p] # NoProvider
            BY <1>3, <1>5 DEF ConfigTypeOK
        <3> QED BY <1>6, <2>3, <3>1 DEF Means, IsDefined, Lists
    <2> QED BY <2>2, <2>3
<1> QED BY <1>4, <1>6

\* The settings that name a model left out are emptied, the keys of the project excused.
LEMMA ReplaceModelsKeeps ==
    ASSUME ConfigInv, NEW p \in OwnIds, ReplaceModels(p) PROVE ConfigInv'
<1>1. PICK models \in ModelLists :
          LET gone == {k \in Orphaned(p, models, settings) : Lists(p, settings[k].model)}
          IN  /\ own' = [own EXCEPT ![p].models = models]
              /\ settings' = [k \in GlobalKeys |-> IF k \in gone THEN Cleared ELSE settings[k]]
              /\ leftOver' = (leftOver \ {<<"global", k>> : k \in gone})
                     \cup {<<"project", k>> : k \in Orphaned(p, models, override)}
    BY DEF ReplaceModels
<1> DEFINE gone == {k \in Orphaned(p, models, settings) : Lists(p, settings[k].model)}
           lost == Orphaned(p, models, override)
<1>2. /\ own' = [own EXCEPT ![p].models = models]
      /\ settings' = [k \in GlobalKeys |-> IF k \in gone THEN Cleared ELSE settings[k]]
      /\ leftOver' = (leftOver \ {<<"global", k>> : k \in gone}) \cup {<<"project", k>> : k \in lost}
      /\ UNCHANGED <<ready, override, sweeping, serials>> /\ Changes /\ IsDefined(p)
    BY <1>1 DEF ReplaceModels
<1>3. ConfigTypeOK /\ RefsFit /\ SettingsKeepTheirMeaning
    BY DEF ConfigInv
<1>4. /\ \A k \in GlobalKeys : k \in gone <=>
             NamesOwn(settings[k], p) /\ models[settings[k].model] = "none" /\ Lists(p, settings[k].model)
      /\ \A k \in ProjectKeys : k \in lost <=> NamesOwn(override[k], p) /\ models[override[k].model] = "none"
      /\ lost \subseteq ProjectKeys
    BY <1>3 DEF Orphaned, ConfigTypeOK, Overrides
<1>5. /\ own' \in [OwnIds -> OwnRow \cup {NoProvider}]
      /\ \A x : OwnRef(x) /\ Means(x) /\ ~(x.provider = p /\ models[x.model] = "none") => Means(x)'
    BY <1>2, <1>3, ListReplaced
<1> HIDE DEF gone, lost
<1>6. ConfigTypeOK'
    <2>1. changes' \in 0..MaxChanges
        BY <1>2, <1>3, ChangesNotes
    <2>2. settings' \in [GlobalKeys -> Ref \cup {Absent, Cleared}]
        BY <1>2, <1>3 DEF ConfigTypeOK
    <2>3. leftOver' \subseteq {"global", "project"} \X GlobalKeys
        BY <1>2, <1>3, <1>4, SlotLanes DEF ConfigTypeOK
    <2> QED BY <1>2, <1>3, <1>5, <2>1, <2>2, <2>3 DEF ConfigTypeOK
<1>7. RefsFit'
    BY <1>2, <1>3 DEF RefsFit, ConfigTypeOK, Fits, Names
<1>8. SettingsKeepTheirMeaning'
    <2>1. \A x : OwnRef(x)' <=> OwnRef(x)
        BY DEF OwnRef, Names, IsOwn
    <2>2. ASSUME NEW j \in GlobalKeys, NEW x, x = settings'[j], OwnRef(x)
          PROVE  Means(x)' \/ <<"global", j>> \in leftOver'
        <3>1. j \notin gone /\ x = settings[j]
            BY <1>2, <2>2 DEF OwnRef, Names
        <3>2. <<"global", j>> \in leftOver => <<"global", j>> \in leftOver'
            BY <1>2, <3>1
        <3>3. Means(x) \/ <<"global", j>> \in leftOver
            BY <1>3, <2>2, <3>1 DEF SettingsKeepTheirMeaning
        <3>4. Means(x) => ~(x.provider = p /\ models[x.model] = "none")
            <4>1. x.model # NoModel
                BY <1>3, <2>2, <3>1, OwnRefsFit
            <4> QED BY <1>4, <2>2, <3>1, <4>1 DEF NamesOwn, OwnRef, Means
        <3> QED BY <1>5, <2>2, <3>2, <3>3, <3>4
    <2>3. ASSUME NEW j \in ProjectKeys, NEW x, x = override[j], OwnRef(x)
          PROVE  Means(x)' \/ <<"project", j>> \in leftOver' \/ x.provider \in sweeping
        <3>1. <<"project", j>> \in leftOver => <<"project", j>> \in leftOver'
            BY <1>2
        <3>2. Means(x) \/ <<"project", j>> \in leftOver \/ x.provider \in sweeping
            BY <1>3, <2>3 DEF SettingsKeepTheirMeaning
        <3>3. x.provider = p /\ models[x.model] = "none" => <<"project", j>> \in leftOver'
            <4>1. x.model # NoModel
                BY <1>3, <2>3, OwnRefsFit
            <4>2. x.provider = p /\ models[x.model] = "none" => j \in lost
                BY <1>4, <2>3, <4>1 DEF NamesOwn, OwnRef
            <4> QED BY <1>2, <4>2
        <3> QED BY <1>5, <2>3, <3>1, <3>2, <3>3
    <2> QED BY <1>2, <2>1, <2>2, <2>3 DEF SettingsKeepTheirMeaning
<1> QED BY <1>6, <1>7, <1>8 DEF ConfigInv

\* All that name a model left out are excused.
LEMMA UpdateProviderKeeps ==
    ASSUME ConfigInv, NEW p \in OwnIds, UpdateProvider(p) PROVE ConfigInv'
<1>1. PICK models \in ModelLists :
          /\ own' = [own EXCEPT ![p].models = models]
          /\ leftOver' = leftOver
                 \cup {<<"global", k>> : k \in Orphaned(p, models, settings)}
                 \cup {<<"project", k>> : k \in Orphaned(p, models, override)}
    BY DEF UpdateProvider
<1> DEFINE gone == Orphaned(p, models, settings)
           lost == Orphaned(p, models, override)
<1>2. /\ leftOver' = leftOver \cup {<<"global", k>> : k \in gone} \cup {<<"project", k>> : k \in lost}
      /\ UNCHANGED <<ready, settings, override, sweeping, serials>> /\ Changes /\ IsDefined(p)
    BY <1>1 DEF UpdateProvider
<1>3. ConfigTypeOK /\ RefsFit /\ SettingsKeepTheirMeaning
    BY DEF ConfigInv
<1>4. /\ \A k \in GlobalKeys : k \in gone <=> NamesOwn(settings[k], p) /\ models[settings[k].model] = "none"
      /\ \A k \in ProjectKeys : k \in lost <=> NamesOwn(override[k], p) /\ models[override[k].model] = "none"
      /\ gone \subseteq GlobalKeys /\ lost \subseteq ProjectKeys
    BY <1>3 DEF Orphaned, ConfigTypeOK, Overrides
<1>5. /\ own' \in [OwnIds -> OwnRow \cup {NoProvider}]
      /\ \A x : OwnRef(x) /\ Means(x) /\ ~(x.provider = p /\ models[x.model] = "none") => Means(x)'
    BY <1>1, <1>2, <1>3, ListReplaced
<1> HIDE DEF gone, lost
<1>6. ConfigTypeOK'
    <2>1. changes' \in 0..MaxChanges
        BY <1>2, <1>3, ChangesNotes
    <2>2. leftOver' \subseteq {"global", "project"} \X GlobalKeys
        BY <1>2, <1>3, <1>4, SlotLanes DEF ConfigTypeOK
    <2> QED BY <1>2, <1>3, <1>5, <2>1, <2>2 DEF ConfigTypeOK
<1>7. RefsFit'
    BY <1>2, <1>3 DEF RefsFit
<1>8. SettingsKeepTheirMeaning'
    <2>1. \A x : OwnRef(x)' <=> OwnRef(x)
        BY DEF OwnRef, Names, IsOwn
    <2>2. ASSUME NEW j \in GlobalKeys, NEW x, x = settings[j], OwnRef(x)
          PROVE  Means(x)' \/ <<"global", j>> \in leftOver'
        <3>1. x.model # NoModel
            BY <1>3, <2>2, OwnRefsFit
        <3>2. x.provider = p /\ models[x.model] = "none" => j \in gone
            BY <1>4, <2>2, <3>1 DEF NamesOwn, OwnRef
        <3>3. Means(x) \/ <<"global", j>> \in leftOver
            BY <1>3, <2>2 DEF SettingsKeepTheirMeaning
        <3>4. <<"global", j>> \in leftOver \/ j \in gone => <<"global", j>> \in leftOver'
            BY <1>2
        <3> QED BY <1>5, <2>2, <3>2, <3>3, <3>4
    <2>3. ASSUME NEW j \in ProjectKeys, NEW x, x = override[j], OwnRef(x)
          PROVE  Means(x)' \/ <<"project", j>> \in leftOver' \/ x.provider \in sweeping
        <3>1. x.model # NoModel
            BY <1>3, <2>3, OwnRefsFit
        <3>2. x.provider = p /\ models[x.model] = "none" => j \in lost
            BY <1>4, <2>3, <3>1 DEF NamesOwn, OwnRef
        <3>3. Means(x) \/ <<"project", j>> \in leftOver \/ x.provider \in sweeping
            BY <1>3, <2>3 DEF SettingsKeepTheirMeaning
        <3>4. <<"project", j>> \in leftOver \/ j \in lost => <<"project", j>> \in leftOver'
            BY <1>2
        <3> QED BY <1>5, <2>3, <3>2, <3>3, <3>4
    <2> QED BY <1>2, <2>1, <2>2, <2>3 DEF SettingsKeepTheirMeaning
<1> QED BY <1>6, <1>7, <1>8 DEF ConfigInv

-----------------------------------------------------------------------------
(* A task.                                                                 *)

\* The resolver depends on the configuration alone.
LEMMA AnswersStay ==
    ASSUME UNCHANGED configVars, NEW payload, NEW proj, NEW slot
    PROVE  ResolvedFor(payload, proj, slot)' = ResolvedFor(payload, proj, slot)
<1>0. own' = own /\ ready' = ready /\ settings' = settings
    BY DEF configVars
<1>1. ASSUME NEW lane PROVE AutoResolved(lane)' = AutoResolved(lane)
    BY <1>0 DEF AutoResolved, IsDefined
<1>2. DefaultBackend(slot)' = DefaultBackend(slot)
    BY <1>0, <1>1 DEF DefaultBackend, GlobalRef, ImageRef, TextRef
<1> QED BY <1>2 DEF ResolvedFor

LEMMA DerivedStays ==
    ASSUME UNCHANGED configVars, NEW task PROVE DerivedFor(task)' = DerivedFor(task)
<1>1. override' = override
    BY DEF configVars
<1>2. \A payload, proj, slot : ResolvedFor(payload, proj, slot)' = ResolvedFor(payload, proj, slot)
    BY AnswersStay
<1> QED BY <1>1, <1>2 DEF DerivedFor

\* What is true of a task depends on the task and the configuration.
LEMMA RoutesStay ==
    ASSUME UNCHANGED configVars, NEW task, RouteInv(task) PROVE RouteInv(task)'
<1>1. override' = override
    BY DEF configVars
<1>2. \A payload, proj, slot : ResolvedFor(payload, proj, slot)' = ResolvedFor(payload, proj, slot)
    BY AnswersStay
<1>3. DerivedFor(task)' = DerivedFor(task)
    BY DerivedStays
<1> QED BY <1>1, <1>2, <1>3 DEF RouteInv

\* The configuration is sound as long as it is the same.
LEMMA ConfigStays ==
    ASSUME UNCHANGED configVars, ConfigInv PROVE ConfigInv'
<1>1. UNCHANGED <<ready, own, settings, override, sweeping, leftOver, serials, changes>>
    BY DEF configVars
<1>2. ConfigTypeOK'
    BY <1>1 DEF ConfigInv, ConfigTypeOK
<1>3. RefsFit'
    BY <1>1 DEF ConfigInv, RefsFit
<1>4. SettingsKeepTheirMeaning'
    BY <1>1 DEF ConfigInv, SettingsKeepTheirMeaning, Means, IsDefined, Lists
<1> QED BY <1>2, <1>3, <1>4 DEF ConfigInv

\* A step of a task changes that task alone.
LEMMA BecomesKeeps ==
    ASSUME ConfigInv, TasksInv, NEW t \in RouteTasks, NEW new \in RoutedTask, RouteInv(new), Becomes(t, new)
    PROVE  ConfigInv' /\ TasksInv'
<1>1. UNCHANGED configVars /\ routed' = [routed EXCEPT ![t] = new]
    BY DEF Becomes
<1>2. ConfigInv'
    BY <1>1, ConfigStays
<1>3. routed' \in [RouteTasks -> RoutedTask]
    BY <1>1 DEF TasksInv
<1>4. ASSUME NEW u \in RouteTasks, NEW w, w = routed'[u] PROVE RouteInv(w)'
    <2>1. RouteInv(w)
        BY <1>1, <1>4 DEF TasksInv
    <2> QED BY <1>1, <2>1, RoutesStay
<1> QED BY <1>2, <1>3, <1>4 DEF TasksInv

\* A task that has not begun.
LEMMA NothingFits ==
    /\ NotYet \in RoutedTask /\ \A k \in ProjectKeys : Fits(NotYet.copy[k], k)
    /\ NotYet.at = "none" /\ NotYet.prov = NoProvider
<1>1. [k \in ProjectKeys |-> Absent] \in Overrides
    BY DEF Overrides
<1>2. NoPayload \in Payload
    BY DEF NoPayload, PM, Payload
<1>3. NotYet \in RoutedTask
    <2> DEFINE no == [k \in ProjectKeys |-> Absent]
               f == FALSE
    <2>0. f \in BOOLEAN
        OBVIOUS
    <2> HIDE DEF no, f
    <2>1. [at |-> "none", kind |-> "video", needs |-> "t2i", payload |-> NoPayload, prov |-> NoProvider,
           route |-> NoProvider, copy |-> no, backend |-> NoAnswer,
           swapped |-> f, known |-> {}, seconds |-> 0, made |-> NoProvider, asked |-> NoProvider,
           moved |-> f] \in RoutedTask
        BY <1>1, <1>2, <2>0 DEF RoutedTask, Payload, no
    <2> QED BY <2>1 DEF NotYet, no, f
<1>4. NotYet.copy = [k \in ProjectKeys |-> Absent] /\ NotYet.at = "none" /\ NotYet.prov = NoProvider
    BY DEF NotYet
<1> QED BY <1>3, <1>4 DEF Fits, Names

\* A task that has failed.
LEMMA FailedFits == Failed \in RoutedTask /\ RouteInv(Failed)
<1>1. /\ Failed \in RoutedTask /\ Failed.at = "failed" /\ Failed.copy = NotYet.copy
    <2> DEFINE w == NotYet
    <2>1. w \in RoutedTask
        BY NothingFits
    <2>2. Failed = [w EXCEPT !.at = "failed"]
        BY DEF Failed
    <2> HIDE DEF w
    <2>3. Failed \in RoutedTask /\ Failed.at = "failed" /\ Failed.copy = w.copy
        BY <2>1, <2>2 DEF RoutedTask
    <2> QED BY <2>3 DEF w
<1> QED BY <1>1, NothingFits DEF RouteInv, AtWork

\* The provider recorded on the row of a video makes videos.
LEMMA EnqueueKeeps ==
    ASSUME ConfigInv, TasksInv, NEW t \in RouteTasks, EnqueueRouted(t) PROVE ConfigInv' /\ TasksInv'
<1>1. PICK kind \in RouteKinds, needs \in {"t2i", "i2i"}, payload \in Payloads :
          LET task == [NotYet EXCEPT !.at = "queued", !.kind = kind, !.needs = needs, !.payload = payload]
              pm == DerivedFor(task)
          IN  Becomes(t, [task EXCEPT !.prov = IF pm = NoAnswer THEN NoProvider ELSE pm.provider])
    BY DEF EnqueueRouted
<1> DEFINE w == NotYet
           task == [w EXCEPT !.at = "queued", !.kind = kind, !.needs = needs, !.payload = payload]
           pm == DerivedFor(task)
           prov == IF pm = NoAnswer THEN NoProvider ELSE pm.provider
           new == [task EXCEPT !.prov = prov]
<1>2. Becomes(t, new)
    BY <1>1
<1>3. w \in RoutedTask /\ \A k \in ProjectKeys : Fits(w.copy[k], k)
    BY NothingFits
<1>4. kind \in {"video", "reference", "image"} /\ payload \in Payload
    BY RoutingAssumption DEF Payloads, PM, NoPayload, Payload
<1> HIDE DEF w
<1>5. /\ task \in RoutedTask /\ task.at = "queued" /\ task.kind = kind /\ task.payload = payload /\ task.copy = w.copy
    <2> DEFINE w1 == [w EXCEPT !.at = "queued"]
               w2 == [w1 EXCEPT !.kind = kind]
               w3 == [w2 EXCEPT !.needs = needs]
               w4 == [w3 EXCEPT !.payload = payload]
    <2>1. w1 \in RoutedTask /\ w1.at = "queued" /\ w1.copy = w.copy
        BY <1>3 DEF RoutedTask
    <2> HIDE DEF w1
    <2>2. w2 \in RoutedTask /\ w2.at = "queued" /\ w2.kind = kind /\ w2.copy = w.copy
        BY <1>4, <2>1 DEF RoutedTask
    <2> HIDE DEF w2
    <2>3. w3 \in RoutedTask /\ w3.at = "queued" /\ w3.kind = kind /\ w3.copy = w.copy
        BY <2>2 DEF RoutedTask
    <2> HIDE DEF w3
    <2>4. w4 \in RoutedTask /\ w4.at = "queued" /\ w4.kind = kind /\ w4.payload = payload /\ w4.copy = w.copy
        BY <1>4, <2>3 DEF RoutedTask, Payload
    <2>5. task = w4
        BY DEF w1, w2, w3, w4
    <2> QED BY <2>4, <2>5
<1> HIDE DEF task
<1>6. Answered(pm) /\ (kind # "image" => ForVideo(pm))
    <2>1. pm = ResolvedFor(payload, override, RouteSlot(task))
        BY <1>5 DEF DerivedFor
    <2>2. RouteSlot(task) \in ProjectKeys /\ RouteSlot(task) # "script" /\ (kind # "image" => RouteSlot(task) = "video")
        BY <1>5, SlotLanes DEF RouteSlot
    <2>3. RoutingTypeOK /\ RefsFit /\ override \in Overrides
        BY TwoParts DEF RoutingInv, ConfigInv, ConfigTypeOK
    <2> HIDE DEF pm
    <2> QED BY <1>4, <2>1, <2>2, <2>3, Resolves DEF RefsFit
<1> HIDE DEF pm
<1>7. prov \in Providers \cup {NoProvider} /\ (kind # "image" => prov = NoProvider \/ MakesVideos(prov))
    BY <1>6 DEF Answered, Answers, ForVideo
<1> HIDE DEF prov
<1>8. new \in RoutedTask /\ new.at = "queued" /\ new.kind = kind /\ new.prov = prov /\ new.copy = w.copy
    BY <1>5, <1>7 DEF RoutedTask
<1> HIDE DEF new
<1>9. RouteInv(new)
    BY <1>3, <1>7, <1>8 DEF RouteInv
<1> QED BY <1>2, <1>8, <1>9, BecomesKeeps

\* The slot is of the provider the resolver names now.
LEMMA ClaimKeeps ==
    ASSUME ConfigInv, TasksInv, NEW t \in RouteTasks, ClaimRouted(t) PROVE ConfigInv' /\ TasksInv'
<1> DEFINE w == routed[t]
           route == ProviderOf(DerivedFor(w))
           new == [w EXCEPT !.at = "claimed", !.route = route]
<1>1. Becomes(t, new) /\ w.at = "queued" /\ w \in RoutedTask /\ RouteInv(w)
    BY DEF ClaimRouted, StandsAt, TasksInv
<1>2. route \in Providers
    <2>1. Answered(DerivedFor(w))
        <3>1. RouteSlot(w) \in ProjectKeys /\ RouteSlot(w) # "script"
            BY SlotLanes DEF RouteSlot
        <3>2. RoutingTypeOK /\ RefsFit /\ override \in Overrides /\ w.payload \in Payload
            BY <1>1, TwoParts DEF RoutingInv, ConfigInv, ConfigTypeOK, RoutedTask, Payload
        <3> HIDE DEF w
        <3> QED BY <3>1, <3>2, Resolves DEF DerivedFor
    <2>2. DefaultProvider \in Providers
        BY RoutingAssumption, RefAssumed
    <2> HIDE DEF w
    <2> QED BY <2>1, <2>2 DEF ProviderOf, Answered, Answers
<1> HIDE DEF w, route
<1>3. /\ new \in RoutedTask /\ new.at = "claimed" /\ new.route = route /\ new.kind = w.kind /\ new.prov = w.prov
      /\ new.copy = w.copy /\ new.payload = w.payload
    BY <1>1, <1>2 DEF RoutedTask
<1> HIDE DEF new
<1>4. DerivedFor(new) = DerivedFor(w)
    BY <1>3 DEF DerivedFor, RouteSlot
<1>5. route = ProviderOf(DerivedFor(new))
    BY <1>4 DEF route
<1>6. RouteInv(new)
    BY <1>1, <1>3, <1>5 DEF RouteInv, AtWork
<1> QED BY <1>1, <1>3, <1>6, BecomesKeeps

\* The copy is the project as it is now.
LEMMA LoadKeeps ==
    ASSUME ConfigInv, TasksInv, NEW t \in RouteTasks, LoadProject(t) PROVE ConfigInv' /\ TasksInv'
<1> DEFINE w == routed[t]
           new == [w EXCEPT !.at = "loaded", !.copy = override]
<1>1. Becomes(t, new) /\ w.at = "claimed" /\ w \in RoutedTask /\ RouteInv(w)
    BY DEF LoadProject, StandsAt, TasksInv
<1>2. override \in Overrides /\ \A k \in ProjectKeys : Fits(override[k], k)
    BY DEF ConfigInv, ConfigTypeOK, RefsFit
<1> HIDE DEF w
<1>3. /\ new \in RoutedTask /\ new.at = "loaded" /\ new.route = w.route /\ new.kind = w.kind /\ new.prov = w.prov
      /\ new.copy = override /\ new.payload = w.payload /\ new.moved = w.moved
    BY <1>1, <1>2 DEF RoutedTask
<1> HIDE DEF new
<1>4. DerivedFor(new) = DerivedFor(w)
    BY <1>3 DEF DerivedFor, RouteSlot
<1>5. RouteInv(new)
    BY <1>1, <1>2, <1>3, <1>4 DEF RouteInv, AtWork
<1> QED BY <1>1, <1>3, <1>5, BecomesKeeps

\* A task that is noted as swapped is otherwise the same.
LEMMA SwapOne ==
    ASSUME NEW b \in BOOLEAN, NEW w \in RoutedTask
    PROVE  \A r : r = [w EXCEPT !.swapped = b] =>
               /\ r \in RoutedTask /\ r.swapped = b /\ r.at = w.at /\ r.backend = w.backend
               /\ r.kind = w.kind /\ r.payload = w.payload /\ r.prov = w.prov
               /\ r.copy = w.copy /\ r.route = w.route /\ r.moved = w.moved
BY DEF RoutedTask

\* The backend is of the provider that was asked for, and for the same model unless swapped.
LEMMA BuildKeeps ==
    ASSUME ConfigInv, TasksInv, NEW t \in RouteTasks, BuildBackends(t) PROVE ConfigInv' /\ TasksInv'
<1> DEFINE w == routed[t]
           slot == IF w.kind = "image" THEN w.needs ELSE "t2i"
           image == Assembled(ResolvedFor(w.payload, override, slot), "image")
           asked == ResolvedFor(w.payload, override, "video")
           video == Assembled(asked, "video")
           backend == IF w.kind = "image" THEN image ELSE video
           swapped == w.kind # "image" /\ video # asked
           new == [w EXCEPT !.at = "built", !.backend = backend, !.swapped = swapped]
<1>1. /\ w.at = "loaded" /\ w \in RoutedTask /\ RouteInv(w)
      /\ IF NoAnswer \in {image, video} THEN Becomes(t, Failed) ELSE Becomes(t, new)
    BY DEF BuildBackends, StandsAt, TasksInv
<1>2. CASE NoAnswer \in {image, video}
    <2>1. Becomes(t, Failed)
        BY <1>1, <1>2
    <2> QED BY <2>1, FailedFits, BecomesKeeps
<1>3. CASE NoAnswer \notin {image, video}
    <2>1. Becomes(t, new) /\ image # NoAnswer /\ video # NoAnswer
        BY <1>1, <1>3
    <2>2. RoutingTypeOK /\ RefsFit /\ override \in Overrides /\ w.payload \in Payload
          /\ \A k \in ProjectKeys : Fits(override[k], k)
        BY <1>1, TwoParts DEF RoutingInv, ConfigInv, ConfigTypeOK, RoutedTask, Payload, RefsFit
    <2>3. slot \in ProjectKeys /\ slot # "script" /\ w.kind \in {"video", "reference", "image"}
        BY <1>1, SlotLanes DEF RoutedTask
    <2>4. Answered(image)
        <3>1. Answered(ResolvedFor(w.payload, override, slot))
            <4> HIDE DEF w, slot
            <4> QED BY <2>2, <2>3, Resolves
        <3> HIDE DEF w, slot
        <3> QED BY <2>2, <3>1, Assembles
    <2>5. Answered(video) /\ asked # NoAnswer /\ video.provider = asked.provider
        <3>1. Answered(asked)
            <4> HIDE DEF w
            <4> QED BY <2>2, SlotLanes, Resolves
        <3> HIDE DEF asked
        <3> QED BY <2>1, <2>2, <3>1, Assembles
    <2>6. w.kind # "image" => ProviderOf(DerivedFor(w)) = asked.provider
        BY <2>5 DEF DerivedFor, RouteSlot, ProviderOf
    <2>7. backend \in Answers /\ (w.kind # "image" => backend = video)
        BY <2>1, <2>4, <2>5 DEF Answered
    <2>8. swapped \in BOOLEAN /\ (w.kind = "video" /\ ~swapped => backend = asked)
        BY <2>7
    <2> HIDE DEF w, image, video, backend, swapped
    <2>9. /\ new \in RoutedTask /\ new.at = "built" /\ new.backend = backend /\ new.swapped = swapped
          /\ new.kind = w.kind /\ new.payload = w.payload /\ new.prov = w.prov
          /\ new.copy = w.copy /\ new.route = w.route /\ new.moved = w.moved
        <3> DEFINE w1 == [w EXCEPT !.at = "built", !.backend = backend]
                   w2 == [w1 EXCEPT !.swapped = swapped]
        <3>1. /\ w1 \in RoutedTask /\ w1.at = "built" /\ w1.backend = backend
              /\ w1.kind = w.kind /\ w1.payload = w.payload /\ w1.prov = w.prov
              /\ w1.copy = w.copy /\ w1.route = w.route /\ w1.moved = w.moved
            BY <1>1, <2>7 DEF RoutedTask
        <3> HIDE DEF w1
        <3>2. \A r : r = w2 =>
                 /\ r \in RoutedTask /\ r.swapped = swapped /\ r.at = w1.at /\ r.backend = w1.backend
                 /\ r.kind = w1.kind /\ r.payload = w1.payload /\ r.prov = w1.prov
                 /\ r.copy = w1.copy /\ r.route = w1.route /\ r.moved = w1.moved
            BY <2>8, <3>1, SwapOne, ZenonT(40)
        <3>3. new = w2
            BY Zenon DEF w1
        <3> HIDE DEF w2, new
        <3> QED BY <3>1, <3>2, <3>3, Zenon
    <2> HIDE DEF new
    <2>10. /\ \A k \in ProjectKeys : Fits(w.copy[k], k)
           /\ w.kind # "image" => w.prov = NoProvider \/ MakesVideos(w.prov)
           /\ w.kind # "image" /\ ~w.moved => w.route = ProviderOf(DerivedFor(w))
           /\ ~w.moved => w.copy = override
        BY <1>1 DEF RouteInv, AtWork
    <2>11. new.kind # "image" /\ ~new.moved => new.route = new.backend.provider
        BY <2>5, <2>6, <2>7, <2>9, <2>10
    <2>12. new.kind = "video" /\ ~new.swapped => new.backend = ResolvedFor(new.payload, override, "video")
        BY <2>8, <2>9 DEF asked
    <2>13. new.backend # NoAnswer
        BY <2>7, <2>9, RoutingAssumption
    <2>14. RouteInv(new)
        BY <2>9, <2>10, <2>11, <2>12, <2>13 DEF RouteInv
    <2> QED BY <2>1, <2>9, <2>14, BecomesKeeps
<1> QED BY <1>2, <1>3

\* The durations that were looked up are of the model that is called.
LEMMA CallKeeps ==
    ASSUME ConfigInv, TasksInv, NEW t \in RouteTasks, CallProvider(t) PROVE ConfigInv' /\ TasksInv'
<1> DEFINE w == routed[t]
           told == IF w.kind = "image" THEN {} ELSE IF w.kind = "video" THEN VideoSeconds(w) ELSE UnitSeconds(w)
           empty == NotYet.copy
           other == IF w.kind = "reference" THEN UnitAskedElsewhere(w) ELSE w.swapped
<1>1. /\ w.at = "built" /\ w \in RoutedTask /\ RouteInv(w)
      /\ \E s \in AllSeconds :
             IF told # {} /\ s \notin told THEN Becomes(t, Failed)
             ELSE Becomes(t, [w EXCEPT !.at = "called", !.copy = empty, !.seconds = s, !.known = told, !.swapped = other])
    BY DEF CallProvider, StandsAt, TasksInv
<1> HIDE DEF told, other
<1>2. PICK s \in AllSeconds :
          IF told # {} /\ s \notin told THEN Becomes(t, Failed)
          ELSE Becomes(t, [w EXCEPT !.at = "called", !.copy = empty, !.seconds = s, !.known = told, !.swapped = other])
    BY <1>1
<1>3. CASE told # {} /\ s \notin told
    <2>1. Becomes(t, Failed)
        BY <1>2, <1>3
    <2> QED BY <2>1, FailedFits, BecomesKeeps
<1>4. CASE ~(told # {} /\ s \notin told)
    <2> DEFINE new == [w EXCEPT !.at = "called", !.copy = empty, !.seconds = s, !.known = told, !.swapped = other]
    <2>1. Becomes(t, new)
        BY <1>2, <1>4
    <2>2. RoutingTypeOK /\ RefsFit /\ w.payload \in Payload /\ w.copy \in Overrides
        BY <1>1, TwoParts DEF RoutingInv, ConfigInv, ConfigTypeOK, RoutedTask, Payload
    <2> HIDE DEF w
    <2> DEFINE mine == ResolvedFor(w.payload, w.copy, "video")
               bare == ResolvedFor(NoPayload, w.copy, "video")
    <2>3. Answered(mine) /\ Answered(bare)
        <3>1. NoPayload \in Payload
            BY DEF NoPayload, PM, Payload
        <3> QED BY <2>2, <3>1, SlotLanes, Resolves
    <2>4. /\ SupportedSeconds(mine) # {} => SupportedSeconds(mine) = SecondsOf[mine]
          /\ SupportedSeconds(mine) \in SUBSET AllSeconds
        <3> HIDE DEF mine
        <3> QED BY <2>3, Supports
    <2>5. /\ SupportedSeconds(bare) # {} => SupportedSeconds(bare) = SecondsOf[bare]
          /\ SupportedSeconds(bare) \in SUBSET AllSeconds
        <3> HIDE DEF bare
        <3> QED BY <2>3, Supports
    <2>6. /\ w.kind = "video" => told = SupportedSeconds(mine)
          /\ w.kind = "reference" => told = {} \/ (bare.model = w.backend.model /\ told = SupportedSeconds(bare))
          /\ w.kind = "reference" /\ ~other => bare = NoAnswer \/ bare.provider = w.backend.provider
          /\ w.kind = "video" => other = w.swapped
          /\ w.kind = "image" => told = {}
        BY DEF told, other, VideoSeconds, UnitSeconds, UnitAskedElsewhere
    <2>7. w.kind \in {"video", "reference", "image"}
        BY <1>1 DEF RoutedTask
    <2> HIDE DEF mine, bare
    <2>8. told \in SUBSET AllSeconds
        BY <2>4, <2>5, <2>6, <2>7
    <2>9. empty \in Overrides /\ \A k \in ProjectKeys : Fits(empty[k], k)
        BY NothingFits DEF RoutedTask
    <2> HIDE DEF empty
    <2>10. other \in BOOLEAN
        BY <1>1 DEF other, UnitAskedElsewhere, RoutedTask
    <2>11. bare # NoAnswer => bare = [provider |-> bare.provider, model |-> bare.model]
        BY <2>3 DEF Answered, Answers
    <2>12. w.backend = [provider |-> w.backend.provider, model |-> w.backend.model]
        BY <1>1 DEF RouteInv, RoutedTask, Answers
    <2>13. bare = NoAnswer => SupportedSeconds(bare) = {}
        BY DEF SupportedSeconds
    <2>14. /\ new \in RoutedTask /\ new.at = "called" /\ new.backend = w.backend /\ new.swapped = other
           /\ new.kind = w.kind /\ new.payload = w.payload /\ new.prov = w.prov /\ new.known = told
           /\ new.copy = empty /\ new.route = w.route /\ new.moved = w.moved /\ new.seconds = s
        <3> DEFINE w1 == [w EXCEPT !.at = "called"]
                   w2 == [w1 EXCEPT !.copy = empty]
                   w3 == [w2 EXCEPT !.seconds = s]
                   w4 == [w3 EXCEPT !.known = told]
                   w5 == [w4 EXCEPT !.swapped = other]
        <3>1. /\ w1 \in RoutedTask /\ w1.at = "called" /\ w1.backend = w.backend /\ w1.swapped = w.swapped
              /\ w1.kind = w.kind /\ w1.payload = w.payload /\ w1.prov = w.prov
              /\ w1.route = w.route /\ w1.moved = w.moved
            BY <1>1 DEF RoutedTask
        <3> HIDE DEF w1
        <3>2. /\ w2 \in RoutedTask /\ w2.at = w1.at /\ w2.backend = w1.backend /\ w2.swapped = w1.swapped
              /\ w2.kind = w1.kind /\ w2.payload = w1.payload /\ w2.prov = w1.prov
              /\ w2.route = w1.route /\ w2.moved = w1.moved /\ w2.copy = empty
            BY <2>9, <3>1 DEF RoutedTask
        <3> HIDE DEF w2
        <3>3. /\ w3 \in RoutedTask /\ w3.at = w2.at /\ w3.backend = w2.backend /\ w3.swapped = w2.swapped
              /\ w3.kind = w2.kind /\ w3.payload = w2.payload /\ w3.prov = w2.prov
              /\ w3.route = w2.route /\ w3.moved = w2.moved /\ w3.copy = w2.copy /\ w3.seconds = s
            BY <3>2 DEF RoutedTask
        <3> HIDE DEF w3
        <3>4. /\ w4 \in RoutedTask /\ w4.at = w3.at /\ w4.backend = w3.backend /\ w4.swapped = w3.swapped
              /\ w4.kind = w3.kind /\ w4.payload = w3.payload /\ w4.prov = w3.prov
              /\ w4.route = w3.route /\ w4.moved = w3.moved /\ w4.copy = w3.copy /\ w4.seconds = w3.seconds
              /\ w4.known = told
            BY <2>8, <3>3 DEF RoutedTask
        <3> HIDE DEF w4
        <3>5. /\ w5 \in RoutedTask /\ w5.at = w4.at /\ w5.backend = w4.backend /\ w5.swapped = other
              /\ w5.kind = w4.kind /\ w5.payload = w4.payload /\ w5.prov = w4.prov
              /\ w5.route = w4.route /\ w5.moved = w4.moved /\ w5.copy = w4.copy /\ w5.seconds = w4.seconds
              /\ w5.known = w4.known
            BY <3>4, <2>10 DEF RoutedTask
        <3>6. new = w5
            BY DEF w1, w2, w3, w4, w5
        <3> HIDE DEF w5, new
        <3> QED BY <3>1, <3>2, <3>3, <3>4, <3>5, <3>6
    <2> HIDE DEF new
    <2>15. /\ w.kind # "image" => w.prov = NoProvider \/ MakesVideos(w.prov)
           /\ w.kind # "image" /\ ~w.moved => w.route = w.backend.provider
           /\ ~w.moved => w.copy = override
           /\ w.kind = "video" /\ ~w.moved /\ ~w.swapped => w.backend = ResolvedFor(w.payload, override, "video")
           /\ w.backend # NoAnswer
        BY <1>1 DEF RouteInv, AtWork
    <2>16. w.kind = "video" /\ ~w.moved /\ ~w.swapped => w.backend = mine
        BY <2>15 DEF mine
    <2>17. w.kind # "image" /\ ~w.moved /\ told # {} /\ ~other => s \in SecondsOf[w.backend]
        <3>1. CASE w.kind = "video"
            BY <1>4, <2>4, <2>6, <2>16, <3>1
        <3>2. CASE w.kind = "reference"
            BY <1>4, <2>5, <2>6, <2>11, <2>12, <2>13, <3>2
        <3> QED BY <2>7, <3>1, <3>2
    <2>18. RouteInv(new)
        BY <2>9, <2>14, <2>15, <2>17 DEF RouteInv
    <2> QED BY <2>1, <2>14, <2>18, BecomesKeeps
<1> QED BY <1>3, <1>4

\* Who is to be asked makes videos, whether the row or the resolver says so.
LEMMA RestartKeeps ==
    ASSUME ConfigInv, TasksInv, NEW t \in RouteTasks, Restart(t) PROVE ConfigInv' /\ TasksInv'
<1> DEFINE w == routed[t]
           prov == IF w.prov # NoProvider THEN w.prov ELSE ProviderOf(DerivedFor(w))
           made == w.backend.provider
           payload == PM(prov, w.payload.model)
           o == NotYet
           new == [o EXCEPT !.at = "orphan", !.kind = w.kind, !.prov = prov, !.made = made, !.payload = payload]
<1>1. /\ w.at = "called" /\ w.kind # "image" /\ w \in RoutedTask /\ RouteInv(w)
      /\ Becomes(t, Failed) \/ Becomes(t, new)
    BY DEF Restart, StandsAt, TasksInv
<1>2. CASE Becomes(t, Failed)
    BY <1>2, FailedFits, BecomesKeeps
<1>3. CASE Becomes(t, new)
    <2>1. RoutingTypeOK /\ RefsFit /\ override \in Overrides /\ w.payload \in Payload
          /\ \A k \in ProjectKeys : Fits(override[k], k)
        BY <1>1, TwoParts DEF RoutingInv, ConfigInv, ConfigTypeOK, RoutedTask, Payload, RefsFit
    <2>2. w.prov # NoProvider => w.prov \in Providers /\ MakesVideos(w.prov)
        BY <1>1 DEF RouteInv, AtWork, RoutedTask
    <2>3. ProviderOf(DerivedFor(w)) \in Providers /\ MakesVideos(ProviderOf(DerivedFor(w)))
        <3> DEFINE pm == ResolvedFor(w.payload, override, "video")
        <3>1. DerivedFor(w) = pm
            BY <1>1 DEF DerivedFor, RouteSlot
        <3>2. Answered(pm) /\ ForVideo(pm)
            <4> HIDE DEF w
            <4> QED BY <2>1, SlotLanes, Resolves
        <3>3. DefaultProvider \in Providers /\ MakesVideos(DefaultProvider)
            BY RoutingAssumption, RefAssumed DEF MakesVideos
        <3> HIDE DEF w, pm
        <3> QED BY <3>1, <3>2, <3>3 DEF ProviderOf, Answered, Answers, ForVideo
    <2>4. prov \in Providers /\ MakesVideos(prov) /\ prov # NoProvider
        <3>1. NoProvider \notin Providers
            BY RoutingAssumption
        <3> QED BY <2>2, <2>3, <3>1
    <2>5. made \in Providers \cup {NoProvider}
        BY <1>1 DEF RouteInv, RoutedTask, Answers
    <2>6. payload \in Payload /\ payload.provider = prov
        BY <2>1, <2>4 DEF PM, Payload
    <2>7. o \in RoutedTask /\ \A k \in ProjectKeys : Fits(o.copy[k], k)
        BY NothingFits
    <2>8. w.kind \in {"video", "reference"}
        BY <1>1 DEF RoutedTask
    <2> HIDE DEF w, prov, made, payload, o
    <2>9. /\ new \in RoutedTask /\ new.at = "orphan" /\ new.kind = w.kind /\ new.prov = prov
          /\ new.payload = payload /\ new.copy = o.copy
        <3> DEFINE w1 == [o EXCEPT !.at = "orphan"]
                   w2 == [w1 EXCEPT !.kind = w.kind]
                   w3 == [w2 EXCEPT !.prov = prov]
                   w4 == [w3 EXCEPT !.made = made]
                   w5 == [w4 EXCEPT !.payload = payload]
        <3>1. w1 \in RoutedTask /\ w1.at = "orphan" /\ w1.copy = o.copy
            BY <2>7 DEF RoutedTask
        <3> HIDE DEF w1
        <3>2. w2 \in RoutedTask /\ w2.at = "orphan" /\ w2.kind = w.kind /\ w2.copy = o.copy
            BY <2>8, <3>1 DEF RoutedTask
        <3> HIDE DEF w2
        <3>3. w3 \in RoutedTask /\ w3.at = "orphan" /\ w3.kind = w.kind /\ w3.prov = prov /\ w3.copy = o.copy
            BY <2>4, <3>2 DEF RoutedTask
        <3> HIDE DEF w3
        <3>4. w4 \in RoutedTask /\ w4.at = "orphan" /\ w4.kind = w.kind /\ w4.prov = prov /\ w4.copy = o.copy
            BY <2>5, <3>3 DEF RoutedTask
        <3> HIDE DEF w4
        <3>5. /\ w5 \in RoutedTask /\ w5.at = "orphan" /\ w5.kind = w.kind /\ w5.prov = prov
              /\ w5.payload = payload /\ w5.copy = o.copy
            BY <2>6, <3>4 DEF RoutedTask, Payload
        <3>6. new = w5
            BY DEF w1, w2, w3, w4, w5
        <3> HIDE DEF w5, new
        <3> QED BY <3>5, <3>6
    <2> HIDE DEF new
    <2>10. RouteInv(new)
        BY <2>4, <2>6, <2>7, <2>8, <2>9 DEF RouteInv, AtWork
    <2> QED BY <1>3, <2>9, <2>10, BecomesKeeps
<1> QED BY <1>1, <1>2, <1>3

\* A built-in provider that is put into the payload is the one that is asked.
LEMMA ResumeRoutedKeeps ==
    ASSUME ConfigInv, TasksInv, NEW t \in RouteTasks, ResumeRouted(t) PROVE ConfigInv' /\ TasksInv'
<1> DEFINE w == routed[t]
           chosen == ResolvedFor(w.payload, override, "video")
           video == Assembled(chosen, "video")
           asked == video.provider
           new == [w EXCEPT !.at = "resumed", !.asked = asked]
<1>1. /\ w.at = "orphan" /\ w \in RoutedTask /\ RouteInv(w)
      /\ IF video = NoAnswer THEN Becomes(t, Failed) ELSE Becomes(t, new)
    BY DEF ResumeRouted, StandsAt, TasksInv
<1>2. CASE video = NoAnswer
    <2>1. Becomes(t, Failed)
        BY <1>1, <1>2
    <2> QED BY <2>1, FailedFits, BecomesKeeps
<1>3. CASE video # NoAnswer
    <2>1. Becomes(t, new)
        BY <1>1, <1>3
    <2>2. RoutingTypeOK /\ RefsFit /\ override \in Overrides /\ w.payload \in Payload
          /\ \A k \in ProjectKeys : Fits(override[k], k)
        BY <1>1, TwoParts DEF RoutingInv, ConfigInv, ConfigTypeOK, RoutedTask, Payload, RefsFit
    <2>3. /\ \A k \in ProjectKeys : Fits(w.copy[k], k)
          /\ w.prov # NoProvider /\ MakesVideos(w.prov) /\ w.payload.provider = w.prov
        BY <1>1 DEF RouteInv
    <2>4. Answered(chosen) /\ (~IsOwn(w.prov) => chosen.provider = w.prov)
        <3> HIDE DEF w
        <3> QED BY <2>2, <2>3, SlotLanes, Resolves
    <2>5. Answered(video) /\ video.provider = chosen.provider
        <3> HIDE DEF chosen
        <3> QED BY <1>3, <2>2, <2>4, Assembles
    <2>6. asked \in Providers /\ (~IsOwn(w.prov) => asked = w.prov)
        <3> HIDE DEF chosen, video
        <3> QED BY <1>3, <2>4, <2>5 DEF Answered, Answers
    <2> HIDE DEF w, asked
    <2>7. /\ new \in RoutedTask /\ new.at = "resumed" /\ new.prov = w.prov /\ new.asked = asked /\ new.copy = w.copy
        <3> DEFINE w1 == [w EXCEPT !.at = "resumed"]
                   w2 == [w1 EXCEPT !.asked = asked]
        <3>1. w1 \in RoutedTask /\ w1.at = "resumed" /\ w1.prov = w.prov /\ w1.copy = w.copy
            BY <1>1 DEF RoutedTask
        <3> HIDE DEF w1
        <3>2. w2 \in RoutedTask /\ w2.at = "resumed" /\ w2.prov = w.prov /\ w2.asked = asked /\ w2.copy = w.copy
            BY <2>6, <3>1 DEF RoutedTask
        <3>3. new = w2
            BY DEF w1
        <3> HIDE DEF w2, new
        <3> QED BY <3>2, <3>3
    <2> HIDE DEF new
    <2>8. RouteInv(new)
        BY <2>3, <2>6, <2>7 DEF RouteInv, AtWork
    <2> QED BY <2>1, <2>7, <2>8, BecomesKeeps
<1> QED BY <1>2, <1>3

-----------------------------------------------------------------------------
\* Where nothing is named, every key is sound.
LEMMA NothingNamedFits ==
    ASSUME NothingNamed
    PROVE  /\ settings \in [GlobalKeys -> Ref \cup {Absent, Cleared}] /\ override \in Overrides
           /\ RefsFit /\ SettingsKeepTheirMeaning
<1>1. /\ settings = [k \in GlobalKeys |-> Absent] /\ override = [k \in ProjectKeys |-> Absent]
    BY DEF NothingNamed
<1>2. settings \in [GlobalKeys -> Ref \cup {Absent, Cleared}] /\ override \in Overrides
    BY <1>1 DEF Overrides
<1>3. /\ \A k \in GlobalKeys : settings[k] = Absent
      /\ \A k \in ProjectKeys : override[k] = Absent
    BY <1>1
<1>4. RefsFit /\ SettingsKeepTheirMeaning
    BY <1>3 DEF RefsFit, Fits, Names, SettingsKeepTheirMeaning, OwnRef
<1> QED BY <1>2, <1>4

\* The first provider, and a key that names it.
LEMMA OneNamedFits ==
    ASSUME 1 \in OwnIds, NEW models \in ModelLists,
           own = [p \in OwnIds |-> IF p = 1 THEN [serial |-> 1, models |-> models] ELSE NoProvider],
           NEW m \in OwnModels, models[m] # "none"
    PROVE  \A r : r = [provider |-> 1, model |-> m, serial |-> 1] =>
               /\ r \in Ref /\ Means(r) /\ \A k : Fits(r, k)
<1> SUFFICES ASSUME NEW r, r = [provider |-> 1, model |-> m, serial |-> 1]
             PROVE  r \in Ref /\ Means(r) /\ \A k : Fits(r, k)
    OBVIOUS
<1>1. r.provider = 1 /\ r.model = m /\ r.serial = 1 /\ IsOwn(r.provider)
    BY RefAssumed
<1>2. 1 \in Providers /\ m \in Models /\ 1 \in 0..MaxSerial /\ 1 \in 1..MaxSerial
    BY RefAssumed, RoutingAssumption
<1>3. r \in Ref
    BY <1>2 DEF Ref
<1>4. own[1] = [serial |-> 1, models |-> models]
    OBVIOUS
<1>5. own[1] \in [serial : 1..MaxSerial, models : OwnLists]
    BY <1>2, <1>4 DEF ModelLists
<1>6. own[1] # NoProvider /\ own[1].serial = 1 /\ own[1].models = models
    BY <1>4, <1>5, RoutingAssumption
<1>7. Means(r)
    BY <1>1, <1>6 DEF Means, IsDefined, Lists
<1> QED BY <1>1, <1>3, <1>7 DEF Fits

\* A new database is sound, and one in use with one provider.
LEMMA InitHolds == RoutingInit => ConfigInv /\ TasksInv
<1> SUFFICES ASSUME RoutingInit PROVE ConfigInv /\ TasksInv
    OBVIOUS
<1>1. TasksInv
    <2>1. RouteInv(NotYet)
        BY NothingFits DEF RouteInv, AtWork
    <2>2. routed = [t \in RouteTasks |-> NotYet]
        BY DEF RoutingInit
    <2> HIDE DEF RoutingInit
    <2>3. NotYet \in RoutedTask
        BY NothingFits
    <2> DEFINE w == NotYet
    <2> HIDE DEF w
    <2>4. w \in RoutedTask /\ RouteInv(w) /\ routed = [t \in RouteTasks |-> w]
        BY <2>1, <2>2, <2>3 DEF w
    <2> QED BY <2>4 DEF TasksInv
<1>2. /\ ready = ToSet(BuiltIns) /\ sweeping = {} /\ leftOver = {} /\ changes = 0
      /\ changes \in 0..MaxChanges /\ 0 \in 0..MaxSerial /\ 1 \in 0..MaxSerial
    BY RoutingAssumption DEF RoutingInit
<1>3. CASE own = [p \in OwnIds |-> NoProvider] /\ serials = 0 /\ NothingNamed
    <2>1. own \in [OwnIds -> OwnRow \cup {NoProvider}]
        BY <1>3
    <2> QED BY <1>1, <1>2, <1>3, <2>1, NothingNamedFits DEF ConfigInv, ConfigTypeOK
<1>4. ASSUME serials = 1, 1 \in OwnIds, NEW models \in ModelLists,
             own = [p \in OwnIds |-> IF p = 1 THEN [serial |-> 1, models |-> models] ELSE NoProvider]
      PROVE  own \in [OwnIds -> OwnRow \cup {NoProvider}] /\ serials \in 0..MaxSerial
    <2>1. 1 \in 1..MaxSerial /\ models \in OwnLists
        BY RoutingAssumption DEF ModelLists
    <2>2. [serial |-> 1, models |-> models] \in OwnRow
        BY <2>1 DEF OwnRow
    <2> QED BY <1>2, <1>4, <2>2
<1>5. ASSUME serials = 1, 1 \in OwnIds, NEW models \in ModelLists, NothingNamed,
             own = [p \in OwnIds |-> IF p = 1 THEN [serial |-> 1, models |-> models] ELSE NoProvider]
      PROVE  ConfigInv
    BY <1>2, <1>4, <1>5, NothingNamedFits DEF ConfigInv, ConfigTypeOK
<1>6. ASSUME serials = 1, 1 \in OwnIds, NEW models \in ModelLists,
             own = [p \in OwnIds |-> IF p = 1 THEN [serial |-> 1, models |-> models] ELSE NoProvider],
             NEW m \in OwnModels, models[m] # "none", NEW k \in GlobalKeys,
             NEW mine, mine = [provider |-> 1, model |-> m, serial |-> 1],
             \/ /\ settings = [j \in GlobalKeys |-> IF j = k THEN mine ELSE Absent]
                /\ override = [j \in ProjectKeys |-> Absent]
             \/ /\ override = [j \in ProjectKeys |-> IF j = k THEN mine ELSE Absent]
                /\ settings = [j \in GlobalKeys |-> Absent]
      PROVE  ConfigInv
    <2>1. mine \in Ref /\ Means(mine) /\ \A j : Fits(mine, j)
        BY <1>6, OneNamedFits
    <2>2. /\ \A j \in GlobalKeys : settings[j] \in {mine, Absent}
          /\ \A j \in ProjectKeys : override[j] \in {mine, Absent}
        BY <1>6
    <2>3. settings \in [GlobalKeys -> Ref \cup {Absent, Cleared}] /\ override \in Overrides
        BY <1>6, <2>1, <2>2 DEF Overrides
    <2>4. ConfigTypeOK
        BY <1>2, <1>4, <1>6, <2>3 DEF ConfigTypeOK
    <2>5. ~Names(Absent)
        BY DEF Names
    <2>6. RefsFit
        BY <2>1, <2>2, <2>5 DEF RefsFit, Fits
    <2>7. SettingsKeepTheirMeaning
        BY <2>1, <2>2, <2>5 DEF SettingsKeepTheirMeaning, OwnRef
    <2> QED BY <2>4, <2>6, <2>7 DEF ConfigInv
<1>7. ConfigInv
    <2>1. CASE own = [p \in OwnIds |-> NoProvider] /\ serials = 0 /\ NothingNamed
        BY <1>3, <2>1
    <2>2. CASE /\ serials = 1 /\ {1} \subseteq OwnIds
               /\ \E models \in ModelLists :
                     /\ own = [p \in OwnIds |-> IF p = 1 THEN [serial |-> 1, models |-> models] ELSE NoProvider]
                     /\ \/ NothingNamed
                        \/ \E m \in {n \in OwnModels : models[n] # "none"}, k \in GlobalKeys :
                              LET mine == [provider |-> 1, model |-> m, serial |-> 1] IN
                              /\ Lane(k) = LaneOf[m]
                              /\ \/ /\ settings = [j \in GlobalKeys |-> IF j = k THEN mine ELSE Absent]
                                    /\ override = [j \in ProjectKeys |-> Absent]
                                 \/ /\ k \in ProjectKeys
                                    /\ override = [j \in ProjectKeys |-> IF j = k THEN mine ELSE Absent]
                                    /\ settings = [j \in GlobalKeys |-> Absent]
        <3>1. 1 \in OwnIds
            BY <2>2
        <3>2. PICK models \in ModelLists :
                     /\ own = [p \in OwnIds |-> IF p = 1 THEN [serial |-> 1, models |-> models] ELSE NoProvider]
                     /\ \/ NothingNamed
                        \/ \E m \in {n \in OwnModels : models[n] # "none"}, k \in GlobalKeys :
                              LET mine == [provider |-> 1, model |-> m, serial |-> 1] IN
                              /\ Lane(k) = LaneOf[m]
                              /\ \/ /\ settings = [j \in GlobalKeys |-> IF j = k THEN mine ELSE Absent]
                                    /\ override = [j \in ProjectKeys |-> Absent]
                                 \/ /\ k \in ProjectKeys
                                    /\ override = [j \in ProjectKeys |-> IF j = k THEN mine ELSE Absent]
                                    /\ settings = [j \in GlobalKeys |-> Absent]
            BY <2>2
        <3>3. CASE NothingNamed
            BY <1>5, <2>2, <3>1, <3>2, <3>3
        <3>4. CASE ~NothingNamed
            <4>1. PICK m \in {n \in OwnModels : models[n] # "none"}, k \in GlobalKeys :
                     LET mine == [provider |-> 1, model |-> m, serial |-> 1] IN
                     \/ /\ settings = [j \in GlobalKeys |-> IF j = k THEN mine ELSE Absent]
                        /\ override = [j \in ProjectKeys |-> Absent]
                     \/ /\ override = [j \in ProjectKeys |-> IF j = k THEN mine ELSE Absent]
                        /\ settings = [j \in GlobalKeys |-> Absent]
                BY <3>2, <3>4
            <4> DEFINE mine == [provider |-> 1, model |-> m, serial |-> 1]
            <4>2. m \in OwnModels /\ models[m] # "none"
                OBVIOUS
            <4>3. \/ /\ settings = [j \in GlobalKeys |-> IF j = k THEN mine ELSE Absent]
                     /\ override = [j \in ProjectKeys |-> Absent]
                  \/ /\ override = [j \in ProjectKeys |-> IF j = k THEN mine ELSE Absent]
                     /\ settings = [j \in GlobalKeys |-> Absent]
                BY <4>1
            <4>4. own = [p \in OwnIds |-> IF p = 1 THEN [serial |-> 1, models |-> models] ELSE NoProvider]
                BY <3>2
            <4>5. mine = [provider |-> 1, model |-> m, serial |-> 1]
                OBVIOUS
            <4> HIDE DEF mine
            <4>6. serials = 1
                BY <2>2
            <4> QED BY <1>6, <3>1, <4>2, <4>3, <4>4, <4>5, <4>6
        <3> QED BY <3>3, <3>4
    <2> QED BY <2>1, <2>2 DEF RoutingInit
<1> QED BY <1>1, <1>7

\* Every action keeps both parts.
LEMMA RoutingKeeps ==
    ASSUME ConfigInv, TasksInv, [RoutingNext]_routingVars PROVE ConfigInv' /\ TasksInv'
<1>0. ASSUME Changes PROVE TasksInv'
    BY <1>0, ChangesNotes, NotedTasks DEF ConfigInv
<1>1. ASSUME NEW p \in ToSet(BuiltIns), SetCredential(p) PROVE ConfigInv' /\ TasksInv'
    <2>1. Changes
        BY <1>1 DEF SetCredential
    <2> QED BY <1>0, <1>1, <2>1, SetCredentialKeeps
<1>2. ASSUME NEW k \in GlobalKeys, PatchSettings(k) PROVE ConfigInv' /\ TasksInv'
    <2>1. Changes
        BY <1>2 DEF PatchSettings
    <2> QED BY <1>0, <1>2, <2>1, PatchSettingsKeeps
<1>3. ASSUME NEW k \in ProjectKeys, PatchProject(k) PROVE ConfigInv' /\ TasksInv'
    <2>1. Changes
        BY <1>3 DEF PatchProject
    <2> QED BY <1>0, <1>3, <2>1, PatchProjectKeeps
<1>4. ASSUME CreateProvider PROVE ConfigInv' /\ TasksInv'
    <2>1. Changes
        BY <1>4 DEF CreateProvider
    <2> QED BY <1>0, <1>4, <2>1, CreateProviderKeeps
<1>5. ASSUME NEW p \in OwnIds, DeleteProvider(p) PROVE ConfigInv' /\ TasksInv'
    <2>1. Changes
        BY <1>5 DEF DeleteProvider
    <2> QED BY <1>0, <1>5, <2>1, DeleteProviderKeeps
<1>6. ASSUME NEW p \in OwnIds, SweepProject(p) PROVE ConfigInv' /\ TasksInv'
    <2>1. routed' = Noted
        BY <1>6 DEF SweepProject, Noted
    <2> QED BY <1>6, <2>1, NotedTasks, SweepProjectKeeps
<1>7. ASSUME NEW p \in OwnIds, ReplaceModels(p) PROVE ConfigInv' /\ TasksInv'
    <2>1. Changes
        BY <1>7 DEF ReplaceModels
    <2> QED BY <1>0, <1>7, <2>1, ReplaceModelsKeeps
<1>8. ASSUME NEW p \in OwnIds, UpdateProvider(p) PROVE ConfigInv' /\ TasksInv'
    <2>1. Changes
        BY <1>8 DEF UpdateProvider
    <2> QED BY <1>0, <1>8, <2>1, UpdateProviderKeeps
<1>9. ASSUME NEW t \in RouteTasks,
             \/ EnqueueRouted(t) \/ ClaimRouted(t) \/ LoadProject(t) \/ BuildBackends(t)
             \/ CallProvider(t) \/ Restart(t) \/ ResumeRouted(t)
      PROVE  ConfigInv' /\ TasksInv'
    BY <1>9, EnqueueKeeps, ClaimKeeps, LoadKeeps, BuildKeeps, CallKeeps, RestartKeeps, ResumeRoutedKeeps
<1>10. ASSUME UNCHANGED routingVars PROVE ConfigInv' /\ TasksInv'
    <2>1. UNCHANGED configVars /\ routed' = routed
        BY <1>10 DEF routingVars
    <2>2. ASSUME NEW u \in RouteTasks, NEW w, w = routed'[u] PROVE RouteInv(w)'
        BY <2>1, <2>2, RoutesStay DEF TasksInv
    <2> QED BY <2>1, <2>2, ConfigStays DEF TasksInv
<1> QED BY <1>1, <1>2, <1>3, <1>4, <1>5, <1>6, <1>7, <1>8, <1>9, <1>10 DEF RoutingNext

\* The inductive invariant.
LEMMA RoutingHolds == RoutingSpec => [](ConfigInv /\ TasksInv)
<1>1. RoutingInit => ConfigInv /\ TasksInv
    BY InitHolds
<1>2. ConfigInv /\ TasksInv /\ [RoutingNext]_routingVars => (ConfigInv /\ TasksInv)'
    BY RoutingKeeps
<1> QED BY <1>1, <1>2, PTL DEF RoutingSpec

(* The types of the configuration and of the tasks: each look finds a      *)
(* provider and a model, or notes that there is none.                      *)
THEOREM RoutingTypeCorrect == RoutingSpec => []RoutingTypeOK
<1>1. ConfigInv /\ TasksInv => RoutingTypeOK
    BY TwoParts DEF RoutingInv
<1> QED BY <1>1, RoutingHolds, PTL

(* For any providers, models and lists of models, any number of tasks and  *)
(* of changes: a key that names a model of a user's provider means the one *)
(* its writer meant unless it is excused, the slot a video takes and the   *)
(* length it is checked for are of the backend that is called, and a       *)
(* built-in provider is asked for the job its row names.                   *)
THEOREM RoutingStaysSound == RoutingSpec => []RoutingIsSound
<1>1. ConfigInv /\ TasksInv => RoutingIsSound
    BY DEF ConfigInv, TasksInv, RouteInv, RoutingIsSound, RoutesAgree, StandsAt
<1> QED BY <1>1, RoutingHolds, PTL
=============================================================================
