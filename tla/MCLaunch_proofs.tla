--------------------------- MODULE MCLaunch_proofs ---------------------------
(***************************************************************************)
(* Proofs about ToolJobs, for any number of jobs and reports, and about    *)
(* MCLaunch: what is proved of RoleRuntime, Regions and ToolJobs, each by  *)
(* itself, holds where they stand side by side.                            *)
(***************************************************************************)
EXTENDS MCLaunch, RoleRuntime_proofs, Regions_proofs

-----------------------------------------------------------------------------
\* The times of a job agree with its state: it has finished exactly if it ended,
\* and only a job that was cancelled in the queue ended without having started
\* (the three times that apply_tool_job_transition writes).
JobTimesAgree ==
    \A j \in JobIds :
        /\ job[j].finished <=> job[j].state \in Endings
        /\ job[j].started => job[j].state \notin {"absent", "queued"}
        /\ ~job[j].started =>
              \/ job[j].state \in {"absent", "queued"}
              \/ job[j].state = "cancelled" /\ job[j].cancelled

\* What holds of every row: a cancelled job is being cancelled or has ended
\* cancelled, and one that is being cancelled was.
JobOK(old) ==
    /\ old.cancelled => old.state \in {"cancelling", "cancelled"}
    /\ old.state = "cancelling" => old.cancelled
    /\ old.finished <=> old.state \in Endings
    /\ old.started => old.state \notin {"absent", "queued"}
    /\ ~old.started =>
          \/ old.state \in {"absent", "queued"}
          \/ old.state = "cancelled" /\ old.cancelled

JobInv == JobTypeOK /\ \A j \in JobIds : JobOK(job[j])

-----------------------------------------------------------------------------
\* A row that follows another: it is well typed and well formed, and further on.
Follows(new, old) == new \in Jobs /\ JobOK(new) /\ Rank(new.state) > Rank(old.state)

\* The rows that the three transitions and a request make
\* (apply_tool_job_transition, apply_tool_job_request).
LEMMA StartedFollows ==
    ASSUME NEW old \in Jobs, JobOK(old), old.state = "queued"
    PROVE  Follows(StartedJob(old), old)
<1> DEFINE new == StartedJob(old)
<1>1. new \in Jobs /\ new.state = "running" /\ new.started = TRUE
      /\ new.cancelled = old.cancelled /\ new.finished = old.finished
  BY DEF StartedJob, Jobs, JobStates
<1> HIDE DEF new
<1>2. ~old.cancelled /\ ~old.finished
  BY DEF JobOK, Endings
<1>3. JobOK(new)
  BY <1>1, <1>2 DEF JobOK, Endings
<1>4. QED
  BY <1>1, <1>3 DEF Follows, Rank, new

LEMMA CancelledFollows ==
    ASSUME NEW old \in Jobs, JobOK(old), old.state \in {"queued", "running"}
    PROVE  Follows(CancelledJob(old), old)
<1> DEFINE new == CancelledJob(old)
<1>1. CASE old.state = "queued"
  <2>1. new \in Jobs /\ new.state = "cancelled" /\ new.started = old.started
        /\ new.cancelled = TRUE /\ new.finished = TRUE
    BY <1>1 DEF CancelledJob, Jobs, JobStates, Endings
  <2> HIDE DEF new
  <2>2. JobOK(new)
    BY <2>1, <1>1 DEF JobOK, Endings
  <2>3. QED
    BY <2>1, <2>2, <1>1 DEF Follows, Rank, new
<1>2. CASE old.state = "running"
  <2>1. new \in Jobs /\ new.state = "cancelling" /\ new.started = old.started
        /\ new.cancelled = TRUE /\ new.finished = old.finished
    BY <1>2 DEF CancelledJob, Jobs, JobStates
  <2> HIDE DEF new
  <2>2. old.started /\ ~old.finished
    BY <1>2 DEF JobOK, Endings
  <2>3. JobOK(new)
    BY <2>1, <2>2 DEF JobOK, Endings
  <2>4. QED
    BY <2>1, <2>3, <1>2 DEF Follows, Rank, new
<1>3. QED
  BY <1>1, <1>2

LEMMA CompletedFollows ==
    ASSUME NEW old \in Jobs, JobOK(old), old.state \in {"running", "cancelling"},
           NEW ending \in Endings
    PROVE  Follows(CompletedJob(old, ending), old)
<1> DEFINE new == CompletedJob(old, ending)
           last == IF old.state = "cancelling" THEN "cancelled" ELSE ending
<1>1. new \in Jobs /\ new.state = last /\ new.started = old.started
      /\ new.cancelled = old.cancelled /\ new.finished = TRUE
  BY DEF CompletedJob, Jobs, JobStates, Endings
<1> HIDE DEF new
<1>2. old.started /\ (old.cancelled <=> old.state = "cancelling")
  BY DEF JobOK
<1>3. JobOK(new)
  BY <1>1, <1>2 DEF JobOK, Endings
<1>4. Rank(last) = 4 /\ Rank(old.state) \in {2, 3}
  BY DEF Rank, Endings
<1>5. QED
  BY <1>1, <1>3, <1>4 DEF Follows, new

LEMMA RequestFollows ==
    ASSUME NEW old \in Jobs, JobOK(old), old.state = "absent"
    PROVE  Follows([old EXCEPT !.state = "queued"], old)
<1> DEFINE new == [old EXCEPT !.state = "queued"]
<1>1. new \in Jobs /\ new.state = "queued" /\ new.started = old.started
      /\ new.cancelled = old.cancelled /\ new.finished = old.finished
  BY DEF Jobs, JobStates
<1> HIDE DEF new
<1>2. ~old.cancelled /\ ~old.finished /\ ~old.started
  BY DEF JobOK, Endings
<1>3. JobOK(new)
  BY <1>1, <1>2 DEF JobOK, Endings
<1>4. QED
  BY <1>1, <1>3 DEF Follows, Rank, new

\* A step replaces at most one row, by one that follows it.
RowFollows ==
    \/ UNCHANGED job
    \/ \E j \in JobIds, new \in Jobs :
          Follows(new, job[j]) /\ job' = [job EXCEPT ![j] = new]

\* Every step of the kernel.
LEMMA EveryStepFollows ==
    ASSUME JobInv, [JobNext]_jobVars
    PROVE  /\ RowFollows
           /\ assignmentOpen' \in BOOLEAN
           /\ transitionKeys' \subseteq TransitionIds /\ reports' \subseteq Reports
<1> DEFINE Goal == /\ RowFollows
                   /\ assignmentOpen' \in BOOLEAN
                   /\ transitionKeys' \subseteq TransitionIds /\ reports' \subseteq Reports
<1>0. \A j \in JobIds : job[j] \in Jobs /\ JobOK(job[j])
  BY DEF JobInv, JobTypeOK
<1>1. ASSUME NEW j \in JobIds, NEW by \in JobOwners, RequestJob(j, by) PROVE Goal
  <2>1. Follows([job[j] EXCEPT !.state = "queued"], job[j])
    BY <1>0, <1>1, RequestFollows DEF RequestJob
  <2>2. job' = [job EXCEPT ![j] = [job[j] EXCEPT !.state = "queued"]]
    BY <1>1 DEF RequestJob
  <2>3. RowFollows
    BY <2>1, <2>2 DEF RowFollows, Follows
  <2>4. QED
    BY <2>3, <1>1 DEF RequestJob, JobInv, JobTypeOK
<1>2. ASSUME NEW m \in Reports, SendReport(m) PROVE Goal
  BY <1>2 DEF SendReport, JobInv, JobTypeOK, RowFollows
<1>3. ASSUME NEW m \in Reports, TakeReport(m) PROVE Goal
  <2> DEFINE old == job[m.job]
             new == CASE m.kind = "started"   -> StartedJob(old)
                      [] m.kind = "cancel"    -> CancelledJob(old)
                      [] m.kind = "completed" -> CompletedJob(old, m.ending)
  <2>1. m.job \in JobIds /\ m.id \in TransitionIds /\ m.ending \in Endings
        /\ m.kind \in {"started", "cancel", "completed"}
    BY DEF Reports, Endings
  <2>2. old \in Jobs /\ JobOK(old) /\ Admits(old, m.kind)
    BY <1>0, <1>3, <2>1 DEF TakeReport
  <2>3. job' = [job EXCEPT ![m.job] = new]
    BY <1>3 DEF TakeReport
  <2> HIDE DEF old
  <2>4. Follows(new, old)
    <3>1. CASE m.kind = "started"
      BY <3>1, <2>2, StartedFollows DEF Admits
    <3>2. CASE m.kind = "cancel"
      BY <3>2, <2>2, CancelledFollows DEF Admits
    <3>3. CASE m.kind = "completed"
      BY <3>3, <2>1, <2>2, CompletedFollows DEF Admits
    <3>4. QED
      BY <2>1, <3>1, <3>2, <3>3
  <2> HIDE DEF new
  <2>5. RowFollows
    BY <2>1, <2>3, <2>4 DEF RowFollows, Follows, old
  <2>6. QED
    BY <1>3, <2>1, <2>5 DEF TakeReport, JobInv, JobTypeOK
<1>4. ASSUME SettleAssignment PROVE Goal
  BY <1>4 DEF SettleAssignment, JobInv, JobTypeOK, RowFollows
<1>5. ASSUME UNCHANGED jobVars PROVE Goal
  BY <1>5 DEF jobVars, JobInv, JobTypeOK, RowFollows
<1>6. QED
  BY <1>1, <1>2, <1>3, <1>4, <1>5 DEF JobNext

LEMMA JobStart == JobInit => JobInv
<1> SUFFICES ASSUME JobInit PROVE JobInv
  OBVIOUS
<1>1. AbsentJob \in Jobs /\ JobOK(AbsentJob)
  BY DEF AbsentJob, Jobs, JobStates, JobOK, Endings
<1>2. QED
  BY <1>1 DEF JobInit, JobInv, JobTypeOK

LEMMA JobStep == JobInv /\ [JobNext]_jobVars => JobInv'
<1> SUFFICES ASSUME JobInv, [JobNext]_jobVars PROVE JobInv'
  OBVIOUS
<1>1. RowFollows /\ assignmentOpen' \in BOOLEAN
      /\ transitionKeys' \subseteq TransitionIds /\ reports' \subseteq Reports
  BY EveryStepFollows
<1>2. job' \in [JobIds -> Jobs] /\ \A j \in JobIds : JobOK(job'[j])
  BY <1>1 DEF RowFollows, Follows, JobInv, JobTypeOK
<1>3. QED
  BY <1>1, <1>2 DEF JobInv, JobTypeOK

\* Whatever is reported about the jobs, in whatever order and however often, their
\* rows are well typed, and their times agree with their states.
THEOREM JobsAreSound == JobSpec => [](JobTypeOK /\ JobTimesAgree)
<1>1. JobInv => JobTypeOK /\ JobTimesAgree
  BY DEF JobInv, JobOK, JobTimesAgree
<1>2. QED
  BY JobStart, JobStep, <1>1, PTL DEF JobSpec

\* A job whose cancellation was accepted ends cancelled, however its completion
\* crosses it (apply_tool_job_transition).
THEOREM CancellationIsFinal == JobSpec => []CancellationStands
<1>1. JobInv => CancellationStands
  BY DEF JobInv, JobOK, CancellationStands
<1>2. QED
  BY JobStart, JobStep, <1>1, PTL DEF JobSpec

\* No late, repeated or misordered report brings a job back to where it was.
THEOREM JobsOnlyAdvance == JobSpec => JobsAdvance
<1>1. ASSUME JobInv, [JobNext]_jobVars
      PROVE  [\A j \in JobIds :
                 job'[j] # job[j] => Rank(job'[j].state) > Rank(job[j].state)]_jobVars
  <2>1. RowFollows
    BY <1>1, EveryStepFollows
  <2>2. QED
    BY <1>1, <2>1 DEF RowFollows, Follows, JobInv, JobTypeOK
<1>2. QED
  BY JobStart, JobStep, <1>1, PTL DEF JobSpec, JobsAdvance

-----------------------------------------------------------------------------
\* The three modules side by side.

\* A step of one module changes none of the others' variables.
LEMMA LaunchSteps ==
    [LaunchNext]_launchVars =>
        /\ [RuntimeNext]_runtimeVars /\ [RegionNext]_regionVars /\ [JobNext]_jobVars
BY DEF LaunchNext, launchVars

\* A behaviour of the three is a behaviour of each, whichever of them moves.
THEOREM LaunchImplements == LaunchSpec => RuntimeSpec /\ RegionSpec /\ JobSpec
<1>1. LaunchInit => RuntimeInit /\ RegionInit /\ JobInit
  BY DEF LaunchInit
<1>2. QED
  BY <1>1, LaunchSteps, PTL DEF LaunchSpec, RuntimeSpec, RegionSpec, JobSpec

\* Every variable of the three keeps its type, for any constants and missions.
THEOREM LaunchIsTyped == LaunchSpec => []LaunchTypeOK
<1>1. RuntimeTypeOK /\ RegionTypeOK /\ JobTypeOK /\ JobTimesAgree => LaunchTypeOK
  BY DEF LaunchTypeOK
<1>2. QED
  BY <1>1, LaunchImplements, RuntimeIsTyped, RegionsAreTyped, JobsAreSound, PTL

\* Everything the run over MCLaunch checks holds for any constants and missions: who
\* launches a role and where its agent is recorded, which tab is which region's, and
\* how a cancelled job ends.
THEOREM LaunchIsSafe ==
    LaunchSpec =>
        /\ [](/\ AgentsAreRecorded /\ HoldersAreCurrent
              /\ RegionsAreUnique /\ RegionsBelongTogether /\ CancellationStands)
        /\ FencesStay /\ MissingIsNotNews
BY LaunchImplements, AgentsStayRecorded, HoldersStayCurrent, RegionsStayUnique, RegionsStayTogether,
   CancellationIsFinal, FencesAreForGood, MissingWasSeen, PTL
=============================================================================
