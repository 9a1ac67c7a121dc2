------------------------------ MODULE ToolJobs ------------------------------
(***************************************************************************)
(* Tool jobs: commands a worker runs in a pane of its own, whose life the  *)
(* kernel records (apply_tool_job_request and apply_tool_job_transition in *)
(* src/src/domain.rs, their rows in src/src/store.rs).                     *)
(*                                                                         *)
(* The worker asks for the job, its runner reports that it has started and *)
(* how it ended, and somebody may cancel it meanwhile.  Each report is a   *)
(* kernel input of its own, sent by a process that may retry it or die, so *)
(* reports arrive late, in any order, repeatedly or not at all.            *)
(* Every input is one transaction that rebuilds the reducer from the       *)
(* tables first: the row is the whole state of a job.                      *)
(***************************************************************************)
EXTENDS Integers, FiniteSets

CONSTANTS
    JobIds,         \* tool job identifiers
    JobOwners,      \* workers: the possible sources of a job
    TransitionIds,  \* transition identifiers, chosen by the senders
    JobTarget,      \* the worker the jobs' assignment is for
    MaxReports      \* bound: reports that are ever sent

VARIABLES
    job,            \* [JobIds -> Jobs]: table tool_jobs
    assignmentOpen, \* the assignment is queued, active or blocked
    transitionKeys, \* the "tool-job-transition:..." keys in processed_events
    reports         \* the reports that have been sent

jobVars == <<job, assignmentOpen, transitionKeys, reports>>

ASSUME JobAssumption == JobTarget \in JobOwners /\ MaxReports \in Nat

Endings == {"succeeded", "failed", "timed_out", "cancelled"}    \* ToolJobTerminalState
JobStates == {"absent", "queued", "running", "cancelling"} \cup Endings

\* started_at, cancelled_at and finished_at by whether they are set.
Jobs == [state : JobStates, started : BOOLEAN, cancelled : BOOLEAN, finished : BOOLEAN]
AbsentJob == [state |-> "absent", started |-> FALSE, cancelled |-> FALSE, finished |-> FALSE]

\* "ending" matters to completed reports only.
Reports == [id : TransitionIds, job : JobIds, by : JobOwners,
            kind : {"completed"}, ending : Endings]
    \cup [id : TransitionIds, job : JobIds, by : JobOwners,
            kind : {"started", "cancel"}, ending : {"cancelled"}]

JobInit ==
    /\ job = [j \in JobIds |-> AbsentJob]
    /\ assignmentOpen = TRUE
    /\ transitionKeys = {} /\ reports = {}

\* ToolJobRequest: by the worker the open assignment is for.
RequestJob(j, by) ==
    /\ job[j].state = "absent"
    /\ by = JobTarget /\ assignmentOpen
    /\ job' = [job EXCEPT ![j].state = "queued"]
    /\ UNCHANGED <<assignmentOpen, transitionKeys, reports>>

\* A report is made; nothing takes it back.
SendReport(m) ==
    /\ Cardinality(reports) < MaxReports
    /\ reports' = reports \cup {m}
    /\ UNCHANGED <<job, assignmentOpen, transitionKeys>>

\* What the three transitions make of a job, where they apply.
StartedJob(old) == [old EXCEPT !.state = "running", !.started = TRUE]
CancelledJob(old) ==
    IF old.state = "queued"
    THEN [old EXCEPT !.state = "cancelled", !.cancelled = TRUE, !.finished = TRUE]
    ELSE [old EXCEPT !.state = "cancelling", !.cancelled = TRUE]

\* Mutant: the job ends as it is reported to have ended.
CompletedAsReported(old, ending) == [old EXCEPT !.state = ending, !.finished = TRUE]

\* Mutant: the kind of the report is stored.
CompletedByKind(old, ending) == [old EXCEPT !.state = "completed", !.finished = TRUE]

\* A job that is being cancelled ends cancelled.
CompletedJob(old, ending) ==
    [old EXCEPT !.state = IF old.state = "cancelling" THEN "cancelled" ELSE ending,
                !.finished = TRUE]

Admits(old, kind) ==
    CASE kind = "started"   -> old.state = "queued"
      [] kind = "cancel"    -> old.state \in {"queued", "running"}
      [] kind = "completed" -> old.state \in {"running", "cancelling"}

\* ToolJobTransition.  A key that has been processed is answered as a duplicate
\* whatever the report says; a rejected report leaves no key.
TakeReport(m) ==
    /\ m \in reports
    /\ m.id \notin transitionKeys
    /\ m.by = JobTarget /\ Admits(job[m.job], m.kind)
    /\ job' = [job EXCEPT ![m.job] =
          CASE m.kind = "started"   -> StartedJob(@)
            [] m.kind = "cancel"    -> CancelledJob(@)
            [] m.kind = "completed" -> CompletedJob(@, m.ending)]
    /\ transitionKeys' = transitionKeys \cup {m.id}
    /\ UNCHANGED <<assignmentOpen, reports>>

\* The worker replies: its jobs go on.
SettleAssignment ==
    /\ assignmentOpen /\ assignmentOpen' = FALSE
    /\ UNCHANGED <<job, transitionKeys, reports>>

JobNext ==
    \/ \E j \in JobIds, by \in JobOwners : RequestJob(j, by)
    \/ \E m \in Reports : SendReport(m) \/ TakeReport(m)
    \/ SettleAssignment

JobSpec == JobInit /\ [][JobNext]_jobVars

-----------------------------------------------------------------------------
JobTypeOK ==
    /\ job \in [JobIds -> Jobs]
    /\ assignmentOpen \in BOOLEAN
    /\ transitionKeys \subseteq TransitionIds
    /\ reports \subseteq Reports

\* A job whose cancellation was accepted does not end otherwise, however its
\* completion crosses it.
CancellationStands ==
    \A j \in JobIds : job[j].cancelled => job[j].state \in {"cancelling", "cancelled"}

\* A job only moves forward: no late or repeated report brings it back.
Rank(state) == CASE state = "absent" -> 0 [] state = "queued" -> 1
                 [] state = "running" -> 2 [] state = "cancelling" -> 3
                 [] OTHER -> 4
JobsAdvance ==
    [][\A j \in JobIds :
          job'[j] # job[j] => Rank(job'[j].state) > Rank(job[j].state)]_jobVars
=============================================================================
