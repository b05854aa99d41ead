------------------------------ MODULE RunState ------------------------------
(***************************************************************************)
(* RunState and StepResult (agent/run_state.py): the one record of a run   *)
(* and the only methods that change it.  Of its forty fields the model     *)
(* keeps those the control of the loop reads: the status, the control      *)
(* boundary the run stands at, the durable checkpoint that holds it, what  *)
(* is left of the turn budget, the number of execution attempts, and the   *)
(* verdict of the current task evaluation.                                 *)
(***************************************************************************)
EXTENDS RunControl

Waiting == {"waiting_user", "waiting_confirmation"}

Resumable == {"running"} \cup Waiting

Ended == {"done", "blocked", "cancelled", "failed"}

\* _status_for_evaluation: what a task evaluation says of the run
Verdicts == {"running", "done", "blocked"}

\* "none": no RunState has been created yet.  Checkpoint 0 is the empty
\* durable_checkpoint_id; execs is execution_count.
Run == [status     : {"none", "paused"} \cup Resumable \cup Ended,
        boundary   : Outcome \cup {None},
        pausedFrom : Resumable \cup {None},
        checkpoint : Nat,
        remaining  : Nat,
        execs      : Nat,
        verdict    : Verdicts]

NoRun == [status |-> "none", boundary |-> None, pausedFrom |-> None,
          checkpoint |-> 0, remaining |-> 0, execs |-> 0,
          verdict |-> "running"]

Dispatches == {"not_sent", "sent", "sent_unknown"}

\* StepResult.  clean: neither a runtime failure nor a failure code.
Result == [status   : Resumable \cup Ended,
           verdict  : Verdicts,
           dispatch : Dispatches,
           clean    : BOOLEAN,
           boundary : Outcome \cup {None}]

Terminal(r) == r.status \in Ended

\* the run stands at a pause boundary
AtPause(r) == r.boundary # None /\ r.boundary.kind = "pause"

\* StepResult.__post_init__: the statuses that admit a control boundary
Constructible(s) ==
    s.boundary # None =>
        s.status \in (IF s.boundary.kind = "cancel" THEN {"cancelled"}
                                                   ELSE Resumable)

\* apply with uncertain dispatches left out of the count
AppliedWhenCertain(r, s, consume) ==
    [r EXCEPT !.status = s.status, !.verdict = s.verdict,
              !.boundary = IF s.boundary = None THEN @ ELSE s.boundary,
              !.remaining = IF consume /\ @ > 0 THEN @ - 1 ELSE @,
              !.execs = IF s.dispatch = "sent" THEN @ + 1 ELSE @]

\* apply
Applied(r, s, consume) ==
    [r EXCEPT !.status    = s.status,
              !.verdict   = s.verdict,
              !.boundary  = IF s.boundary = None THEN @ ELSE s.boundary,
              !.remaining = IF consume /\ @ > 0 THEN @ - 1 ELSE @,
              !.execs     = IF s.dispatch = "not_sent" THEN @ ELSE @ + 1]

\* resume: the transition out of a waiting status
LeftWaiting(r) == [r EXCEPT !.status = "running"]

\* apply_control_boundary without the end of a cancelled run
BoundaryNoted(r, o) == [r EXCEPT !.boundary = o]

\* apply_control_boundary, on a run that has not ended
BoundaryApplied(r, o) ==
    IF o.kind = "cancel"
    THEN [r EXCEPT !.boundary = o, !.status = "cancelled",
                   !.checkpoint = 0, !.pausedFrom = None]
    ELSE [r EXCEPT !.boundary = o]

\* commit_durable_pause, on a run that stands at a pause boundary
DurablyPaused(r, id) ==
    [r EXCEPT !.status = "paused", !.pausedFrom = r.status, !.checkpoint = id]

\* resume_control_boundary with the boundary left behind
StatusResumed(r) ==
    IF r.status = "paused"
    THEN [r EXCEPT !.status = r.pausedFrom, !.pausedFrom = None,
                   !.checkpoint = 0]
    ELSE r

\* resume_control_boundary, on a run that stands at a pause boundary
BoundaryResumed(r) ==
    IF r.status = "paused"
    THEN [r EXCEPT !.status = r.pausedFrom, !.pausedFrom = None,
                   !.checkpoint = 0, !.boundary = None]
    ELSE [r EXCEPT !.boundary = None]

\* begin_external_currentness_refresh raises unless this holds
MayRefresh(r) ==
    /\ r.boundary = None
    /\ r.checkpoint = 0
    /\ r.status \in Resumable

\* RuntimeCheckpoint facts of a paused run (_run_payload) ...
Facts == [id : Nat, status : Resumable, boundary : Outcome,
          remaining : Nat, execs : Nat]

FactsOf(r, id) ==
    [id |-> id, status |-> r.status, boundary |-> r.boundary,
     remaining |-> r.remaining, execs |-> r.execs]

\* ... and restore_paused: the run they describe, under a fresh evaluation
Hydrated(f, verdict) ==
    DurablyPaused([NoRun EXCEPT !.status    = f.status,
                                !.boundary  = f.boundary,
                                !.remaining = f.remaining,
                                !.execs     = f.execs,
                                !.verdict   = verdict],
                  f.id)
=============================================================================
