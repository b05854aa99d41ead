---------------------------- MODULE BenchmarkRun ----------------------------
(***************************************************************************)
(* A detached benchmark run: the launcher, the runner that executes the     *)
(* cases one after another, the SQLite store of its results and the status  *)
(* that is read back from it (benchmarks/target_loop/detached_run.py,       *)
(* runner.py, result_store.py, outcome_checkpoint.py).  The store is        *)
(* written from the runner's loop, and its reports from daemon threads that *)
(* the runner stops waiting for after five seconds while they may still     *)
(* write.  A case's task is cancelled at the watchdog's deadline, and when  *)
(* it does not end within the grace it goes on by itself.  The process may  *)
(* be killed at any step.                                                   *)
(***************************************************************************)
EXTENDS Integers, FiniteSets

CONSTANTS
    MaxCases,    \* cases of the manifest
    MaxTroubles, \* writes that fail and threads given up in a run
    Outcomes,    \* official outcomes an evaluator may find
    NoRow        \* no row, no job, no outcome

VARIABLES
    launch,  \* whether launch.json records a process: "none", "recorded"
    alive,   \* whether the benchmark's process is
    db,      \* the store: one field per table
    files,   \* the projections exported beside it
    late,    \* jobs whose thread still runs though nobody waits for it
    bench,   \* the runner: where it stands, the case, the job it waits for
    case,    \* the locals of _run_case
    task,    \* the case's episode
    strays,  \* earlier cases whose detached episode may still be evaluated
    budget   \* troubles left

benchVars == <<launch, alive, db, files, late, bench, case, task, strays, budget>>

CaseIds == 1 .. MaxCases

\* Revisions of a case's record.
BODY == 1
CLEANUP == 2
FINAL == 3

\* CaseOutcomeRecord
CaseRecords ==
    [revision : {BODY, CLEANUP, FINAL}, official : Outcomes \cup {NoRow},
     cleanup : {"not_attempted", "not_acquired", "not_run", "running", "answered", "timeout"},
     done : [projection : {"not_attempted", "projected", "failed"},
             report : {"not_attempted", "committed", "failed"},
             export : {"not_attempted", "exported", "failed"}]]

ASSUME BenchmarkAssumption ==
    /\ MaxCases \in Nat \ {0}
    /\ MaxTroubles \in Nat
    /\ NoRow \notin CaseRecords \cup Outcomes

Undecided == [report |-> "not_attempted", export |-> "not_attempted"]

Unprojected == [projection |-> "not_attempted", report |-> "not_attempted",
                export |-> "not_attempted"]

EmptyStore ==
    [official |-> [c \in CaseIds |-> NoRow],
     outcome |-> [c \in CaseIds |-> NoRow],
     phases |-> [c \in CaseIds |-> {}],
     reports |-> {}, shown |-> {},
     status |-> [c \in CaseIds |-> "not_generated"],
     cleaned |-> [c \in CaseIds |-> "not_run"],
     run |-> NoRow, suite |-> NoRow]

FreshCase ==
    [acquired |-> FALSE, checkpoint |-> NoRow, persisted |-> "not_attempted",
     trouble |-> FALSE, failure |-> "none",
     record |-> NoRow, cleanup |-> "not_run",
     done |-> Unprojected]

BenchInit ==
    /\ launch = "none" /\ alive = FALSE
    /\ db = EmptyStore /\ files = {} /\ late = {}
    /\ bench = [at |-> "idle", index |-> 0, job |-> NoRow]
    /\ case = FreshCase /\ task = "none" /\ strays = {}
    /\ budget = MaxTroubles

-----------------------------------------------------------------------------
(* The store.  A write is one transaction: refused by its own checks, or     *)
(* failed as a whole.                                                        *)

CommitPhase(d, c, phase) == [d EXCEPT !.phases[c] = @ \cup {phase}]

\* commit_official_outcome takes the first outcome of a case and no other.
OfficialTaken(d, c, outcome) == d.official[c] \in {NoRow, outcome}

CommitOfficial(d, c, outcome) == [d EXCEPT !.official[c] = outcome]

\* commit_case_outcome: BODY first, the same record again, or the next one.
OutcomeTaken(d, c, record) ==
    IF d.outcome[c] = NoRow
    THEN record.revision = BODY
    ELSE record = d.outcome[c] \/ record.revision = d.outcome[c].revision + 1

CommitOutcome(d, c, record) ==
    [d EXCEPT !.outcome[c] = record,
              !.phases[c] = IF record.revision = FINAL THEN @ \cup {"CASE_FINISHED"} ELSE @]

\* The bug of a store that takes any later revision of a verdict.
VerdictTakenAlways(d, verdict) == verdict \in {d.suite, verdict}

\* record_suite_report_disposition: a verdict replaces only the undecided row.
VerdictTaken(d, verdict) == d.suite \in {NoRow, verdict, Undecided}

\* What a thread's job does to the store and to the files, when it is taken.
JobTaken(d, job) ==
    CASE job.kind \in {"start", "verdict"} -> VerdictTaken(d, job.value)
      [] job.kind = "case_export" -> job.value \in d.reports
      [] job.kind = "run_export" -> d.run # NoRow
      [] OTHER -> TRUE

JobWrites(d, job) ==
    CASE job.kind \in {"start", "verdict"} -> [d EXCEPT !.suite = job.value]
      [] job.kind \in {"case_report", "case_again"} -> [d EXCEPT !.reports = @ \cup {job.value}]
      [] job.kind = "case_export" -> [d EXCEPT !.status[job.value] = "exported"]
      [] job.kind = "run_report" -> [d EXCEPT !.run = job.value]
      [] OTHER -> d

JobExports(job) ==
    CASE job.kind = "case_export" -> {<<"case", job.value>>}
      [] job.kind = "run_export" -> {<<"run", 0>>}
      [] OTHER -> {}

\* A failed export of a case's report leaves that in the store.
JobFailed(d, job) ==
    IF job.kind = "case_export" THEN [d EXCEPT !.status[job.value] = "failed"] ELSE d

Faulty == budget > 0 /\ budget' = budget - 1
Sound == UNCHANGED budget

-----------------------------------------------------------------------------
(* The launcher and the runner's process.                                    *)

\* launch_detached into an empty directory: the process, its pid file and its
\* identity.  A directory that holds evidence of a run is refused.
Launch ==
    /\ launch = "none" /\ launch' = "recorded" /\ alive' = TRUE
    /\ bench' = [bench EXCEPT !.at = "waiting",
                              !.job = [kind |-> "start", value |-> Undecided]]
    /\ UNCHANGED <<db, files, late, case, task, strays, budget>>

\* The process is gone, and all it held in memory.
Die ==
    /\ alive' = FALSE /\ late' = {} /\ strays' = {} /\ task' = "none" /\ case' = FreshCase
    /\ bench' = [at |-> "dead", index |-> 0, job |-> NoRow]
    /\ budget' = 0

\* The process is killed; its threads and its tasks end with it.
Killed ==
    /\ alive /\ Die
    /\ UNCHANGED <<launch, db, files>>

\* The runner moves to a place of its code.
Go(place) == bench' = [bench EXCEPT !.at = place, !.job = NoRow]
Await(kind, value) ==
    bench' = [bench EXCEPT !.at = "waiting", !.job = [kind |-> kind, value |-> value]]
At(place) == alive /\ bench.at = place

\* record_case_phase: the runner goes on when it fails, and remembers that.
Phase(phase, locals) ==
    \/ Sound /\ db' = CommitPhase(db, bench.index, phase) /\ case' = locals
    \/ Faulty /\ db' = db /\ case' = [locals EXCEPT !.trouble = TRUE]

\* run_suite's loop: the next case, unless the run was interrupted.  What a
\* detached episode of the last case can still do goes on beside it.
NextCase ==
    /\ At("next") /\ bench.index < MaxCases
    /\ bench' = [bench EXCEPT !.at = "started", !.index = @ + 1]
    /\ strays' = IF task = "detached" THEN strays \cup {bench.index} ELSE strays
    /\ task' = "none" /\ case' = FreshCase
    /\ UNCHANGED <<launch, alive, db, files, late, budget>>

CasesEnd ==
    /\ At("next")
    /\ Await("run_report", bench.index)
    /\ UNCHANGED <<launch, alive, db, files, late, case, task, strays, budget>>

CaseStarted ==
    /\ At("started") /\ Go("building") /\ Phase("CASE_STARTED", case)
    /\ UNCHANGED <<launch, alive, files, late, task, strays>>

\* The environment's factory, then the factories of task, policy and loop.
EnvironmentBuilt ==
    /\ At("building") /\ Go("composing")
    /\ Phase("ENVIRONMENT_READY", [case EXCEPT !.acquired = TRUE])
    /\ UNCHANGED <<launch, alive, files, late, task, strays>>

EpisodeStarts ==
    /\ At("composing") /\ Go("body") /\ task' = "running"
    /\ UNCHANGED <<launch, alive, db, files, late, case, strays, budget>>

StageFails ==
    /\ At("building") \/ At("composing")
    /\ Faulty /\ Go("returned")
    /\ UNCHANGED <<launch, alive, db, files, late, case, task, strays>>

-----------------------------------------------------------------------------
(* The episode's task, and the watchdog that waits for it.  Both share one   *)
(* event loop, so the task moves only where the runner awaits something.     *)

Awaiting == alive /\ bench.at \in {"body", "cancelling", "closing", "waiting"}

\* native_evaluator_returned: the official outcome is stored as soon as the
\* evaluator has spoken, before the case's own record.
Evaluates ==
    /\ Awaiting /\ task \in {"running", "detached"} /\ case.checkpoint = NoRow
    /\ \E outcome \in Outcomes :
        \/ /\ Sound /\ OfficialTaken(db, bench.index, outcome)
           /\ db' = CommitOfficial(db, bench.index, outcome)
           /\ case' = [case EXCEPT !.checkpoint = outcome, !.persisted = "committed"]
        \/ /\ Faulty /\ db' = db
           /\ case' = [case EXCEPT !.checkpoint = outcome, !.persisted = "failed"]
    /\ UNCHANGED <<launch, alive, files, late, bench, task, strays>>

\* So does the detached episode of an earlier case.
StrayEvaluates ==
    /\ Awaiting
    /\ \E c \in strays, outcome \in Outcomes :
        /\ strays' = strays \ {c}
        /\ db' = IF OfficialTaken(db, c, outcome) THEN CommitOfficial(db, c, outcome) ELSE db
    /\ UNCHANGED <<launch, alive, files, late, bench, case, task, budget>>

\* The bug of a join that does not ask whether the outcome was stored.
AnyOutcome(locals) == locals.checkpoint

\* durable_checkpoint: an outcome only once the store has taken it.
StoredOutcome(locals) == IF locals.persisted = "committed" THEN locals.checkpoint ELSE NoRow

EpisodeReturns ==
    /\ At("body") /\ task = "running" /\ task' = "over" /\ Go("returned")
    /\ UNCHANGED <<launch, alive, db, files, late, case, strays, budget>>

\* _run_with_watchdog: the deadline of the case, or of an episode that has
\* reported its end and does not return, or a signal.
Watchdog ==
    /\ At("body") /\ task = "running" /\ Go("cancelling")
    /\ \E why \in {"timeout", "interrupted"} : case' = [case EXCEPT !.failure = why]
    /\ UNCHANGED <<launch, alive, db, files, late, task, strays, budget>>

\* _await_cancel_grace: the task ends in time or is left to itself.
GraceEnds ==
    /\ At("cancelling") /\ Go("returned")
    /\ \E left \in {"over", "detached"} : task' = left
    /\ UNCHANGED <<launch, alive, db, files, late, case, strays, budget>>

-----------------------------------------------------------------------------
(* The end of a case: its record is committed before the environment is      *)
(* closed, again after it, and for the last time after its reports.          *)

BodyReturns ==
    /\ At("returned") /\ Go("body_record")
    /\ Phase("CASE_BODY_RETURNED",
             [case EXCEPT
                !.record = [revision |-> BODY, official |-> StoredOutcome(case),
                            cleanup |-> "not_attempted", done |-> Unprojected]])
    /\ UNCHANGED <<launch, alive, files, late, task, strays>>

\* A commit of the case's record that is taken or fails; the runner goes on.
RecordCommitted(place) ==
    /\ Sound /\ OutcomeTaken(db, bench.index, case.record)
    /\ db' = CommitOutcome(db, bench.index, case.record) /\ case' = case
    /\ Go(place)

RecordRefused(place) ==
    /\ IF OutcomeTaken(db, bench.index, case.record) THEN Faulty ELSE Sound
    /\ db' = db /\ case' = [case EXCEPT !.trouble = TRUE]
    /\ Go(place)

CommitBody ==
    /\ At("body_record")
    /\ RecordCommitted("body_persisted") \/ RecordRefused("cleaning")
    /\ UNCHANGED <<launch, alive, files, late, task, strays>>

BodyPersisted ==
    /\ At("body_persisted") /\ Go("cleaning") /\ Phase("RESULT_PERSISTED", case)
    /\ UNCHANGED <<launch, alive, files, late, task, strays>>

CleanupStarts ==
    /\ At("cleaning") /\ Go(IF case.acquired THEN "closing" ELSE "closed")
    /\ Phase("CLEANUP_STARTED",
             [case EXCEPT !.cleanup = IF case.acquired THEN "running" ELSE @])
    /\ UNCHANGED <<launch, alive, files, late, task, strays>>

\* _close returns or raises before its deadline: succeeded, already_closed and
\* failed lead on in the same way and are one status here.
CloseAnswers ==
    /\ At("closing") /\ Go("closed")
    /\ case' = [case EXCEPT !.cleanup = "answered"]
    /\ UNCHANGED <<launch, alive, db, files, late, task, strays, budget>>

\* The bug of a cleanup that is waited for until it answers.
NoDeadline == FALSE

\* The cleanup's own deadline, whatever the environment does.
CleanupDeadline == At("closing")

CloseTimesOut ==
    /\ CleanupDeadline /\ Go("closed")
    /\ case' = [case EXCEPT !.cleanup = "timeout"]
    /\ UNCHANGED <<launch, alive, db, files, late, task, strays, budget>>

\* _cleanup_disposition
Disposition(locals) == IF locals.acquired THEN locals.cleanup ELSE "not_acquired"

CleanupFinishes ==
    /\ At("closed") /\ Go("cleanup_record")
    /\ Phase("CLEANUP_FINISHED",
             [case EXCEPT !.record.revision = CLEANUP, !.record.cleanup = Disposition(case)])
    /\ UNCHANGED <<launch, alive, files, late, task, strays>>

\* Without a BODY in the store the next record is refused, and so is each one
\* after it.
CommitCleanup ==
    /\ At("cleanup_record")
    /\ RecordCommitted("cleaned") \/ RecordRefused("projecting")
    /\ UNCHANGED <<launch, alive, files, late, task, strays>>

RecordCleanup ==
    /\ At("cleaned") /\ Go("projecting")
    /\ \/ Sound /\ db' = [db EXCEPT !.cleaned[bench.index] = case.cleanup] /\ case' = case
       \/ Faulty /\ db' = db /\ case' = [case EXCEPT !.trouble = TRUE]
    /\ UNCHANGED <<launch, alive, files, late, task, strays>>

FinalAttempt ==
    /\ At("projecting") /\ Go("projected")
    /\ Phase("FINAL_ATTEMPT", case)
    /\ UNCHANGED <<launch, alive, files, late, task, strays>>

\* project_case_result, or the result that says it could not be projected.
Projects ==
    /\ At("projected") /\ Await("case_report", bench.index)
    /\ \/ Sound /\ case' = [case EXCEPT !.done.projection = "projected"]
       \/ Faulty /\ case' = [case EXCEPT !.done.projection = "failed"]
    /\ UNCHANGED <<launch, alive, db, files, late, task, strays>>

-----------------------------------------------------------------------------
(* Jobs: a store call in a thread of its own, for which the runner waits     *)
(* five seconds (_call_sync_owner).                                          *)

Settle(job, outcome) ==
    [case EXCEPT !.done =
        CASE job.kind = "case_report" ->
                [@ EXCEPT !.report = IF outcome THEN "committed" ELSE "failed"]
          [] job.kind = "case_export" ->
                [@ EXCEPT !.export = IF outcome THEN "exported" ELSE "failed"]
          [] OTHER -> @]

Verdict(report, export) == Await("verdict", [report |-> report, export |-> export])

\* Where the runner goes on once the job it waited for is over.
GoOn(job, outcome) ==
    CASE job.kind = "start" -> Go("next")
      [] job.kind = "case_report" ->
            IF outcome THEN Await("case_export", job.value) ELSE Go("report_failed")
      [] job.kind = "case_export" -> Go(IF outcome THEN "presenting" ELSE "report_failed")
      [] job.kind = "case_again" -> Go("presenting")
      [] job.kind = "run_report" ->
            IF outcome THEN Await("run_export", 0) ELSE Verdict("failed", "not_attempted")
      [] job.kind = "run_export" -> Verdict("committed", IF outcome THEN "exported" ELSE "failed")
      [] OTHER -> Go("done")

JobEnds(outcome) == case' = Settle(bench.job, outcome) /\ GoOn(bench.job, outcome)

JobReturns ==
    /\ At("waiting") /\ JobTaken(db, bench.job)
    /\ db' = JobWrites(db, bench.job) /\ files' = files \cup JobExports(bench.job)
    /\ JobEnds(TRUE)
    /\ UNCHANGED <<launch, alive, late, task, strays, budget>>

JobRaises ==
    /\ At("waiting")
    /\ \/ JobTaken(db, bench.job) /\ Faulty /\ db' = JobFailed(db, bench.job)
       \/ ~JobTaken(db, bench.job) /\ Sound /\ db' = db
    /\ JobEnds(FALSE)
    /\ UNCHANGED <<launch, alive, files, late, task, strays>>

\* Five seconds are over: the thread goes on.
JobTimesOut ==
    /\ At("waiting") /\ Faulty
    /\ late' = late \cup {bench.job}
    /\ JobEnds(FALSE)
    /\ UNCHANGED <<launch, alive, db, files, task, strays>>

\* A thread nobody waits for writes after all, or finds itself refused.
LateLands ==
    /\ alive
    /\ \E job \in late :
        /\ late' = late \ {job}
        /\ IF JobTaken(db, job)
           THEN db' = JobWrites(db, job) /\ files' = files \cup JobExports(job)
           ELSE UNCHANGED <<db, files>>
    /\ UNCHANGED <<launch, alive, bench, case, task, strays, budget>>

\* record_report_status, and once more the report when only its export failed.
ReportFailed ==
    /\ At("report_failed")
    /\ \/ Sound /\ db' = [db EXCEPT !.status[bench.index] = "failed"]
       \/ Faulty /\ db' = db
    /\ IF case.done.export = "failed"
       THEN Await("case_again", bench.index) ELSE Go("presenting")
    /\ UNCHANGED <<launch, alive, files, late, case, task, strays>>

\* report_case_presentation: evidence beside the outcome, whose loss is borne.
Presents ==
    /\ At("presenting") /\ Go("finishing")
    /\ case' = [case EXCEPT !.record.revision = FINAL, !.record.done = case.done]
    /\ \/ /\ Sound /\ db' = [db EXCEPT !.shown = @ \cup {bench.index}]
          /\ files' = files \cup {<<"presentation", bench.index>>}
       \/ Faulty /\ UNCHANGED <<db, files>>
    /\ UNCHANGED <<launch, alive, late, task, strays>>

Finish ==
    /\ At("finishing")
    /\ LET place == IF case.failure = "interrupted" THEN "suite" ELSE "next" IN
       RecordCommitted(place) \/ RecordRefused(place)
    /\ task' = IF task = "detached" /\ case.checkpoint = NoRow THEN task ELSE "over"
    /\ UNCHANGED <<launch, alive, files, late, strays>>

Interrupted ==
    /\ At("suite") /\ Await("run_report", bench.index)
    /\ UNCHANGED <<launch, alive, db, files, late, case, task, strays, budget>>

\* The runner is through: its process ends, and its threads with it.
Exits ==
    /\ At("done") /\ Die
    /\ UNCHANGED <<launch, db, files>>

HarnessSteps ==
    \/ NextCase \/ CasesEnd \/ CaseStarted \/ EnvironmentBuilt \/ EpisodeStarts
    \/ Watchdog \/ GraceEnds
    \/ BodyReturns \/ CommitBody \/ BodyPersisted \/ CleanupStarts \/ CloseTimesOut
    \/ CleanupFinishes \/ CommitCleanup \/ RecordCleanup \/ FinalAttempt \/ Projects
    \/ JobReturns \/ JobRaises \/ JobTimesOut
    \/ ReportFailed \/ Presents \/ Finish \/ Interrupted \/ Exits

BenchNext ==
    \/ Launch \/ Killed
    \/ HarnessSteps
    \/ StageFails \/ Evaluates \/ StrayEvaluates \/ EpisodeReturns \/ CloseAnswers \/ LateLands

\* The runner's own steps and its deadlines happen; episodes, environments and
\* threads may hang for good.
BenchFairness == WF_benchVars(HarnessSteps)

BenchSpec == BenchInit /\ [][BenchNext]_benchVars /\ BenchFairness

-----------------------------------------------------------------------------
(* What the status command reads back (detached_status, _durable_status).    *)

Finals == {c \in CaseIds : db.outcome[c] # NoRow /\ db.outcome[c].revision = FINAL}
Rows == {c \in CaseIds : db.outcome[c] # NoRow}

Undetermined ==
    IF db.run # NoRow THEN "run_final"
    ELSE IF Rows = {} THEN "empty"
    ELSE IF Rows = Finals THEN "case_final" ELSE "durable_prefix"

Durability ==
    IF db.suite = NoRow THEN Undetermined
    ELSE IF db.suite.report = "failed" THEN "suite_report_failed"
    ELSE IF db.suite.export = "failed" THEN "suite_export_failed"
    ELSE IF db.suite.export = "exported" /\ db.run # NoRow THEN "run_final"
    ELSE IF Finals = CaseIds THEN "case_complete"
    ELSE "partial_run"

\* The process still running is asked for before anything the store says.
Status ==
    IF alive THEN "running"
    ELSE CASE Durability = "run_final" -> "completed_reported"
           [] Durability \in {"suite_report_failed", "suite_export_failed"} ->
                "stopped_with_suite_report_failure"
           [] Durability = "case_complete" -> "stopped_with_complete_cases"
           [] Durability \in {"partial_run", "case_final", "durable_prefix"} ->
                "stopped_with_partial_cases"
           [] OTHER -> "stopped_without_report"

-----------------------------------------------------------------------------
(* Properties.                                                               *)

\* A case's last record tells what happened to it, whichever writes failed,
\* whichever thread wrote late and wherever the process was killed: the report
\* it calls committed is in the store, the export it claims is on disk, the
\* official outcome it joins is the one stored for the case, and the case is
\* finished in the event log exactly when its record is (runner._run_case,
\* commit_case_outcome).
RecordIsTrue ==
    \A c \in Rows :
        LET record == db.outcome[c] IN
        /\ record.official # NoRow => db.official[c] = record.official
        /\ record.done.report = "committed" => c \in db.reports
        /\ record.done.export = "exported" => <<"case", c>> \in files
        /\ record.revision = FINAL <=> "CASE_FINISHED" \in db.phases[c]

\* A verdict on the run, once stored, is not taken back by a thread that
\* writes its earlier row late (record_suite_report_disposition).
VerdictStays ==
    [][db.suite \notin {NoRow, Undecided} => db'.suite = db.suite]_db

\* However the episodes, the environments and the store's threads hang, a
\* launched run ends (the deadlines of _run_case and run_suite).
RunIsOver == launch # "none" ~> ~alive
=============================================================================
