--------------------------- MODULE PublicSession ----------------------------
(***************************************************************************)
(* TargetRuntimeSession and TargetRuntimeSessionFactory                    *)
(* (app/public_session.py) over the loop of RunLoop and a durable store of *)
(* checkpoints (app/checkpoint.py): the commands of one public session,    *)
(* the runner task that carries the loop, the two-stage pause that first   *)
(* stops the loop and then commits a checkpoint, the user's takeover, the  *)
(* end of the process and the recovery of the session in another.          *)
(*                                                                         *)
(* One command runs at a time under the session's lock; the runner task,   *)
(* the store and the environment interleave with it at every await.        *)
(* Task revision is not part of this module, and every environment lease   *)
(* can be reconnected, so that every checkpoint is resume-eligible.        *)
(***************************************************************************)
EXTENDS RunLoop, FiniteSets

CONSTANT MaxCheckpoints   \* bound of the model on committed checkpoints

ASSUME CheckpointAssumption == MaxCheckpoints \in Nat

VARIABLES
    session,   \* TargetRuntimeSession, in memory
    settle,    \* where _settle_pause_boundary is
    lock,      \* the command that holds the session's lock across an await
    store,     \* SqliteRuntimeCheckpointStore, durable
    live       \* the process that holds the session is running

sessionOnly == <<session, settle, lock, store, live>>

vars == <<loopVars, sessionOnly>>

PublicStatuses == {"idle", "paused"} \cup Resumable \cup Ended

\* active: the runner task exists.  status is _status, which the public
\* projection shows only while the runner is active or there is no run.
Session == [status     : PublicStatuses,
            active     : BOOLEAN,
            checkpoint : Nat,
            eligible   : BOOLEAN,
            owner      : {"agent", "user"},
            returning  : BOOLEAN,
            closed     : BOOLEAN,
            cleaned    : BOOLEAN]

NewSession == [status |-> "idle", active |-> FALSE, checkpoint |-> 0,
               eligible |-> FALSE, owner |-> "agent", returning |-> FALSE,
               closed |-> FALSE, cleaned |-> FALSE]

\* saved: the committed checkpoints that have no resume outcome; resumed: the
\* ids of those that have one (runtime_resume_outcomes), whose rows stay but
\* which every reader turns down
Store == [saved : SUBSET Facts, resumed : SUBSET Nat]

\* "continued": the persistence failed and the loop was entered again
SettlePhases == {"none", "commit", "committed", "refresh", "continued"}

LockPhases == {"free", "pause", "takeover", "resumed", "granted", "return"}

Init ==
    /\ LoopInit
    /\ session = NewSession
    /\ settle = "none"
    /\ lock = "free"
    /\ store = [saved |-> {}, resumed |-> {}]
    /\ live = TRUE

-----------------------------------------------------------------------------
(* What the session shows, and when a command can run.                     *)

\* _project: the public status
Projected ==
    IF session.owner = "user" \/ session.returning THEN "paused"
    ELSE IF session.active \/ run.status = "none" THEN session.status
    ELSE run.status

\* The runner is between two awaits: nobody else can run.
RunnerBusy ==
    \/ step.at = "top"
    \/ /\ session.active
       /\ step.at \in {"returned", "raised"}
       /\ settle \in {"none", "continued"}

\* admit: a command finds the lock free, the session open and its kind among
\* the capabilities, which exist for an agent-owned session in these statuses
Admits(statuses) ==
    /\ live
    /\ ~RunnerBusy
    /\ lock = "free"
    /\ ~session.closed
    /\ ~session.returning
    /\ session.owner = "agent"
    /\ Projected \in statuses

Open == {"running", "paused"} \cup Waiting

\* _cleanup_if_closed_or_terminal, at the end of the runner
RunnerEnds(s, status) ==
    [s EXCEPT !.status  = status,
              !.active  = FALSE,
              !.cleaned = @ \/ s.closed \/ status \in Ended]

\* a command whose runner starts, or continues, the loop
RunnerStarts(s) == [s EXCEPT !.status = "running", !.active = TRUE]

-----------------------------------------------------------------------------
(* The runner task.                                                        *)

\* _run_start, _run_answer, _run_confirmation, _run_continue: the loop
RunnerSteps ==
    /\ live
    /\ LoopStep
    /\ UNCHANGED sessionOnly

\* the loop has returned: settle a pause boundary (_settle_pause_boundary),
\* but not a second one after a persistence failure
NeedsSettling == AtPause(run) /\ settle = "none"

RunnerSettles ==
    /\ live /\ session.active /\ step.at = "returned"
    /\ NeedsSettling
    /\ settle' = "commit"
    /\ UNCHANGED <<loopVars, session, lock, store, live>>

\* _observe_paused told the session how the loop ended, unless it ended at a
\* pause boundary
RunnerReturns ==
    /\ live /\ session.active /\ step.at = "returned"
    /\ settle \in {"none", "continued"}
    /\ ~NeedsSettling
    /\ session' = RunnerEnds(session, IF AtPause(run) THEN session.status
                                                      ELSE run.status)
    /\ settle' = "none"
    /\ UNCHANGED <<loopVars, lock, store, live>>

\* an exception leaves the loop: _fail
RunnerFails ==
    /\ live /\ session.active /\ step.at = "raised"
    /\ GoTo("returned")
    /\ session' = RunnerEnds(session, "failed")
    /\ settle' = "none"
    /\ UNCHANGED <<control, run, sent, lock, store, live>>

-----------------------------------------------------------------------------
(* _settle_pause_boundary, in the runner or in a command on a waiting run. *)

LastCheckpoint == Cardinality(store.saved) + Cardinality(store.resumed)

\* commit_pause: the checkpoint and the outcome of the pause command become
\* durable in one transaction
CommitPause ==
    /\ live
    /\ settle = "commit"
    /\ LastCheckpoint < MaxCheckpoints
    /\ store' = [store EXCEPT !.saved = @ \cup {FactsOf(run, LastCheckpoint + 1)}]
    /\ settle' = "committed"
    /\ UNCHANGED <<loopVars, session, lock, live>>

\* the transaction's answer arrives: only now is the session paused
PauseCommitted ==
    /\ live
    /\ settle = "committed"
    /\ LET paused == [session EXCEPT !.checkpoint = LastCheckpoint,
                                     !.eligible = TRUE]
       IN  /\ run' = DurablyPaused(run, LastCheckpoint)
           /\ session' = IF session.active THEN RunnerEnds(paused, "paused")
                         ELSE [paused EXCEPT !.status = "paused"]
    /\ settle' = "none"
    /\ lock' = IF lock = "pause" THEN "free" ELSE lock
    /\ UNCHANGED <<control, step, sent, store, live>>

\* The history or the transaction fails: recover_pause_persistence_failure
\* resumes the run, and a running one needs a fresh world first.
PersistenceFails ==
    /\ live
    /\ settle = "commit"
    /\ \E i \in CommandIds :
        /\ ~Known(control, i)
        /\ control' = Resumed(control, i)
    /\ run' = BoundaryResumed(run)
    /\ IF run'.status = "running"
       THEN settle' = "refresh" /\ UNCHANGED <<session, lock>>
       ELSE /\ settle' = "none"
            /\ session' = IF session.active
                          THEN RunnerEnds(session, "running")
                          ELSE [session EXCEPT !.status = "running"]
            /\ lock' = IF lock = "pause" THEN "free" ELSE lock
    /\ UNCHANGED <<step, sent, store, live>>

\* refresh_after_pause_persistence_failure and continue_task
RefreshReturns ==
    /\ live
    /\ settle = "refresh"
    /\ \E v \in Verdicts :
        /\ run' = Applied(run, Evaluated(v), FALSE)
        /\ IF v = "running"
           THEN /\ GoTo("top")
                /\ settle' = "continued"
                /\ UNCHANGED session
           ELSE /\ settle' = "none"
                /\ session' = RunnerEnds(session, "running")
                /\ UNCHANGED step
    /\ UNCHANGED <<control, sent, lock, store, live>>

RefreshFails ==
    /\ live
    /\ settle = "refresh"
    /\ session' = RunnerEnds(session, "failed")
    /\ settle' = "none"
    /\ UNCHANGED <<loopVars, lock, store, live>>

-----------------------------------------------------------------------------
(* Commands that start the runner.                                         *)

\* start, with a task that intake admits
StartTask ==
    /\ Admits({"idle"})
    /\ ~session.active
    /\ StartRun
    /\ session' = RunnerStarts(session)
    /\ UNCHANGED <<settle, lock, store, live>>

\* respond: the intake admits the revised request and the run resumes ...
RespondInteraction ==
    /\ Admits({"waiting_user"})
    /\ ~session.active
    /\ Answer
    /\ session' = RunnerStarts(session)
    /\ UNCHANGED <<settle, lock, store, live>>

\* ... or does not: _run_answer fails the session before the loop is entered
RespondRejected ==
    /\ Admits({"waiting_user"})
    /\ ~session.active
    /\ session' = RunnerEnds(session, "failed")
    /\ UNCHANGED <<loopVars, settle, lock, store, live>>

\* confirm
ConfirmAction ==
    /\ Admits({"waiting_confirmation"})
    /\ ~session.active
    /\ Approve \/ Decline
    /\ session' = RunnerStarts(session)
    /\ UNCHANGED <<settle, lock, store, live>>

-----------------------------------------------------------------------------
(* Control commands.                                                       *)

\* a control request the runner will find at its next boundary
RequestToRunner(kind) ==
    /\ session.active
    /\ \E r \in Request :
        /\ r.kind = kind
        /\ Admission(control, r) = "accepted"
        /\ control' = Requested(control, r)
    /\ UNCHANGED <<run, step, sent>>

\* a control request that the command applies itself, with no runner to do it
RequestApplied(kind) ==
    /\ ~session.active
    /\ ~Terminal(run)
    /\ \E r \in Request : r.kind = kind /\ ControlAtRest(r)
    /\ UNCHANGED <<step, sent>>

\* apply_waiting_control raises on a run that neither waits nor stands at a
\* pause: the request has been accepted and stays
RequestStranded(kind) ==
    /\ ~session.active
    /\ run.status = "running" /\ run.boundary = None
    /\ \E r \in Request :
        /\ r.kind = kind
        /\ Admission(control, r) = "accepted"
        /\ control' = Requested(control, r)
    /\ UNCHANGED <<run, step, sent>>

\* cancel
CancelTask ==
    /\ Admits(Open)
    /\ \/ /\ RequestToRunner("cancel")
          /\ UNCHANGED session
       \/ /\ RequestApplied("cancel")
          /\ session' = [session EXCEPT !.status = "cancelled",
                                        !.eligible = FALSE]
       \/ /\ RequestStranded("cancel")
          /\ UNCHANGED session
    /\ UNCHANGED <<settle, lock, store, live>>

\* pause, and the first half of take_over (_ensure_durable_pause): the pause
\* is requested of the runner, or reached at once and then settled under the
\* lock.  A history that cannot be closed fails the command.
PauseRequested(byRunner, atOnce) ==
    \/ /\ RequestToRunner("pause")
       /\ lock' = byRunner
       /\ UNCHANGED settle
    \/ /\ RequestApplied("pause")
       /\ IF AtPause(run')
          THEN settle' = "commit" /\ lock' = atOnce
          ELSE UNCHANGED <<settle, lock>>
    \/ /\ RequestStranded("pause")
       /\ UNCHANGED <<settle, lock>>

PauseTask ==
    /\ Admits(Open \ {"paused"})
    /\ PauseRequested("free", "pause")
    /\ UNCHANGED <<session, store, live>>

TakeOver ==
    /\ Admits(Open \ {"paused"})
    /\ PauseRequested("takeover", "takeover")
    /\ UNCHANGED <<session, store, live>>

\* the checkpoint that a resume or a takeover may consume
Consumable ==
    /\ run.status = "paused"
    /\ session.checkpoint # 0
    /\ session.checkpoint = run.checkpoint

\* commit_resume with the durable record left out
ConsumedInMemory(phase) ==
    /\ Consumable
    /\ lock' = phase
    /\ UNCHANGED store

\* commit_resume: the checkpoint is consumed, durably and once, before
\* anything in memory changes
Consumed(phase) ==
    /\ Consumable
    /\ session.checkpoint \notin store.resumed
    /\ store' = [saved   |-> {f \in store.saved : f.id # session.checkpoint},
                  resumed |-> store.resumed \cup {session.checkpoint}]
    /\ lock' = phase

\* resume
ResumeTask ==
    /\ Admits({"paused"})
    /\ ~session.active
    /\ session.eligible
    /\ Consumed("resumed")
    /\ UNCHANGED <<loopVars, session, settle, live>>

\* resume_control on a durable pause: the control owner records it, the run
\* leaves the pause and honours the verdict of its evaluation before any
\* policy call (settle_restored_currentness)
ControlResumed ==
    \E i \in CommandIds :
        /\ ~Known(control, i)
        /\ control' = Resumed(control, i)

RunResumed ==
    LET resumed == BoundaryResumed(run)
    IN  IF resumed.verdict = "running" THEN resumed
        ELSE [resumed EXCEPT !.status = resumed.verdict]

\* the end of resume with the runner's task not kept in _active
ResumeCommittedUntracked ==
    /\ live
    /\ lock = "resumed"
    /\ ControlResumed
    /\ run' = RunResumed
    /\ session' = [session EXCEPT !.eligible = FALSE,
                                  !.status   = RunResumed.status]
    /\ IF RunResumed.status = "running" THEN GoTo("top") ELSE UNCHANGED step
    /\ lock' = "free"
    /\ UNCHANGED <<sent, settle, store, live>>

\* the end of resume
ResumeCommitted ==
    /\ live
    /\ lock = "resumed"
    /\ ControlResumed
    /\ run' = RunResumed
    /\ session' = [session EXCEPT !.eligible = FALSE,
                                  !.status   = RunResumed.status,
                                  !.active   = RunResumed.status = "running"]
    /\ IF RunResumed.status = "running" THEN GoTo("top") ELSE UNCHANGED step
    /\ lock' = "free"
    /\ UNCHANGED <<sent, settle, store, live>>

\* take_over of a paused session, and of one whose pause has been settled
TakeOverPaused ==
    /\ \/ Admits({"paused"}) /\ ~session.active
       \/ /\ live /\ lock = "takeover"
          /\ ~session.active /\ settle = "none"
    /\ Consumed("granted")
    /\ UNCHANGED <<loopVars, session, settle, live>>

\* takeover_pause_failed, with a run that ended forgotten
TakeOverFailsIfOpen ==
    /\ live /\ lock = "takeover"
    /\ ~session.active /\ settle = "none"
    /\ ~Consumable
    /\ ~Terminal(run)
    /\ lock' = "free"
    /\ UNCHANGED <<loopVars, session, settle, store, live>>

\* the pause a takeover waited for did not come: takeover_pause_failed
TakeOverFails ==
    /\ live /\ lock = "takeover"
    /\ ~session.active /\ settle = "none"
    /\ ~Consumable
    /\ lock' = "free"
    /\ UNCHANGED <<loopVars, session, settle, store, live>>

TakeOverGranted ==
    /\ live
    /\ lock = "granted"
    /\ session' = [session EXCEPT !.owner = "user", !.eligible = FALSE]
    /\ lock' = "free"
    /\ UNCHANGED <<loopVars, settle, store, live>>

\* return_control: the user's lease is revoked before anything else, then
\* the pause is left, unless an earlier attempt has left it, and a fresh
\* world is awaited.  A run that cannot be refreshed leaves the user in control.
ReturnControl ==
    LET left == IF run.status = "paused" THEN RunResumed ELSE run
    IN  /\ live
        /\ lock = "free"
        /\ ~session.closed
        /\ session.owner = "user"
        /\ IF run.status = "paused" THEN ControlResumed ELSE UNCHANGED control
        /\ IF MayRefresh(left)
           THEN /\ run' = LeftWaiting(left)
                /\ lock' = "return"
                /\ session' = [session EXCEPT !.owner = "agent",
                                              !.returning = TRUE]
           ELSE /\ run' = left
                /\ UNCHANGED <<lock, session>>
        /\ UNCHANGED <<step, sent, settle, store, live>>

\* refresh_after_user_control with _control_return_in_progress left set
ReturnRefreshedOnly ==
    /\ live
    /\ lock = "return"
    /\ \E v \in Verdicts :
        /\ run' = Applied(run, Evaluated(v), FALSE)
        /\ session' = [session EXCEPT !.checkpoint = 0, !.eligible = FALSE,
                                      !.status = v, !.active = v = "running"]
        /\ IF v = "running" THEN GoTo("top") ELSE UNCHANGED step
    /\ lock' = "free"
    /\ UNCHANGED <<control, sent, settle, store, live>>

\* refresh_after_user_control: the run continues on the fresh verdict
ReturnRefreshed ==
    /\ live
    /\ lock = "return"
    /\ \E v \in Verdicts :
        /\ run' = Applied(run, Evaluated(v), FALSE)
        /\ session' = [session EXCEPT !.returning  = FALSE,
                                      !.checkpoint = 0,
                                      !.eligible   = FALSE,
                                      !.status     = v,
                                      !.active     = v = "running"]
        /\ IF v = "running" THEN GoTo("top") ELSE UNCHANGED step
    /\ lock' = "free"
    /\ UNCHANGED <<control, sent, settle, store, live>>

\* no fresh world: the user keeps control, under a new lease
ReturnFails ==
    /\ live
    /\ lock = "return"
    /\ session' = [session EXCEPT !.returning = FALSE, !.owner = "user"]
    /\ lock' = "free"
    /\ UNCHANGED <<loopVars, settle, store, live>>

\* close with the environment released at once
CloseSessionNow ==
    /\ live
    /\ ~RunnerBusy
    /\ lock = "free"
    /\ ~session.closed
    /\ session' = [session EXCEPT !.closed = TRUE, !.cleaned = TRUE]
    /\ UNCHANGED <<loopVars, settle, lock, store, live>>

\* close: not a cancel; an active runner goes on, and the environment is
\* released when it has ended
CloseSession ==
    /\ live
    /\ ~RunnerBusy
    /\ lock = "free"
    /\ ~session.closed
    /\ session' = [session EXCEPT !.closed = TRUE,
                                  !.cleaned = @ \/ ~session.active]
    /\ UNCHANGED <<loopVars, settle, lock, store, live>>

-----------------------------------------------------------------------------
(* The process ends, and another recovers the session.                     *)

Crash ==
    /\ live
    /\ live' = FALSE
    /\ control' = Fresh
    /\ run' = NoRun
    /\ GoTo("idle")
    /\ session' = NewSession
    /\ settle' = "none"
    /\ lock' = "free"
    /\ UNCHANGED <<sent, store>>

\* inspect and recover_typed, with restore_paused_checkpoint
Recover ==
    /\ ~live
    /\ \E f \in store.saved, v \in Verdicts :
        /\ control' = RestoredPaused(f.boundary)
        /\ run' = Hydrated(f, v)
        /\ session' = [NewSession EXCEPT !.status     = "paused",
                                         !.checkpoint = f.id,
                                         !.eligible   = TRUE]
    /\ GoTo("returned")
    /\ live' = TRUE
    /\ UNCHANGED <<sent, settle, lock, store>>

-----------------------------------------------------------------------------
(* The specification.                                                      *)

RunnerNext ==
    \/ RunnerSteps \/ RunnerSettles \/ RunnerReturns \/ RunnerFails
    \/ CommitPause \/ PauseCommitted \/ PersistenceFails
    \/ RefreshReturns \/ RefreshFails

LockNext ==
    \/ ResumeCommitted \/ TakeOverFails \/ TakeOverGranted
    \/ ReturnRefreshed \/ ReturnFails
    \/ (lock = "takeover" /\ TakeOverPaused)

CommandNext ==
    \/ StartTask \/ RespondInteraction \/ RespondRejected \/ ConfirmAction
    \/ CancelTask \/ PauseTask \/ ResumeTask \/ TakeOver \/ TakeOverPaused
    \/ ReturnControl \/ CloseSession

Next == RunnerNext \/ LockNext \/ CommandNext \/ Crash \/ Recover

Spec == Init /\ [][Next]_vars

\* Awaits end and ready coroutines run; no command is ever owed.
FairSpec == Spec /\ WF_vars(RunnerNext) /\ WF_vars(LockNext)

-----------------------------------------------------------------------------
(* Properties.                                                             *)

\* Every field has its type.
SessionTypeOK ==
    /\ LoopTypeOK
    /\ session \in Session
    /\ settle \in SettlePhases
    /\ lock \in LockPhases
    /\ store \in Store
    /\ live \in BOOLEAN

\* A checkpoint that can still be recovered knows every effect that has ever
\* left the Runtime: nothing is dispatched between the boundary it records and
\* the durable record that it was consumed, in this process or a later one.
RecoverableKnowsAll ==
    \A f \in store.saved : f.execs = sent

\* A session that says it is paused, with nobody's command under way, stands
\* on a committed checkpoint of exactly its run that nothing has consumed.
PausedIsDurable ==
    (live /\ Projected = "paused" /\ session.owner = "agent" /\ lock = "free")
        => /\ session.checkpoint = run.checkpoint
           /\ FactsOf([run EXCEPT !.status = run.pausedFrom], run.checkpoint)
                \in store.saved

\* The store and the session tell one story of a pause: what can be recovered
\* knows every effect, and what is shown as paused can be recovered.
CheckpointsAreTrue == RecoverableKnowsAll /\ PausedIsDurable

\* While the user holds the session, the agent has no coroutine that could
\* act, and the checkpoint the user took it from is consumed for good.
UserActsAlone ==
    (session.owner = "user" \/ session.returning) =>
        /\ ~session.active
        /\ step.at = "returned"
        /\ settle = "none"
        /\ session.checkpoint \in store.resumed

\* An effect leaves the Runtime only in a live, agent-owned session whose run
\* is running, with no pause between its boundary and its commit.
DispatchIsOwned ==
    [][ sent' # sent =>
            /\ live /\ session.active /\ session.owner = "agent"
            /\ run.status = "running"
            /\ settle \in {"none", "continued"} ]_vars

\* The environment is never released under a runner that is still going.
ReleaseAfterRunner ==
    [][ (live' /\ session'.cleaned # session.cleaned) =>
            ~session'.active /\ step'.at \in Outside ]_vars

\* No command holds the session's lock forever: a takeover gets its pause or
\* its refusal, a return its world or its refusal, as long as the run still
\* has turns to spend.
LockIsReleased == (lock # "free") ~> (lock = "free" \/ run.remaining = 0)

\* What the documents promise and the code does not keep.

\* A run that was cancelled cannot be reopened from a checkpoint.
CancelRevokes == run.status = "cancelled" => store.saved = {}

\* A run that stands at a pause boundary, with no one working on it, is
\* durably paused.
PauseIsSettled ==
    (live /\ AtPause(run) /\ ~session.active /\ settle = "none")
        => run.status = "paused"
=============================================================================
