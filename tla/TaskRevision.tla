---------------------------- MODULE TaskRevision ----------------------------
(***************************************************************************)
(* The revision of a paused task and the reconciliation of the effect it   *)
(* leaves behind: TargetRuntimeSession.revise with the commands that use   *)
(* up a checkpoint (app/public_session.py), the three transactions of the  *)
(* checkpoint store (app/checkpoint.py), revise_paused and restore_paused, *)
(* and what the loop does while an effect is owed (agent/core_loop.py,     *)
(* actions/reconciliation.py).                                             *)
(*                                                                         *)
(* The task's revision is kept by four owners: the run, the environment,   *)
(* the model history and the checkpoint.  A failing pause transaction and  *)
(* the waiting statuses are in PublicSession, not here; reversible and     *)
(* compensatable effects are one kind ("undoable"), irreversible effects   *)
(* and those of unknown meaning another ("lasting").                       *)
(***************************************************************************)
EXTENDS Naturals, Sequences

CONSTANTS
    Revises,      \* ids of revision commands
    MaxEffects,   \* bound of the model on dispatched effects
    MaxSaved      \* bound of the model on checkpoints

VARIABLES
    work,     \* RunState: what revision and reconciliation read of it
    desk,     \* TargetRuntimeSession: the command and the runner under way
    around,   \* the revision the environment and the model history carry
    ledger,   \* SqliteRuntimeCheckpointStore, durable
    heard     \* RunControl: ids of reconciliation pauses it has an outcome for

revisionVars == <<work, desk, around, ledger, heard>>

Undo == {"undoable", "lasting", "unsure"}

\* CommittedEffect: ref is its number in the run, unsure a SENT_UNKNOWN
Effect(ref, revision, kind) == [ref |-> ref, revision |-> revision, kind |-> kind]
NoEffect == Effect(0, 0, "none")

\* EffectReconciliation: which effect is owed an undoing, and what was done
Owed(status, effect) == [status |-> status, effect |-> effect]
NotOwed == Owed("none", NoEffect)

Work(status, revision, count, effect, owed) ==
    [status |-> status, revision |-> revision, count |-> count,
     effect |-> effect, owed |-> owed]
NoWork == Work("none", 0, 0, NoEffect, NotOwed)

\* RuntimeCheckpoint.capture: the run, the history beside it and the pause it
\* stands at, which a recovery hands back to the run control
Saved(w, history, by) == [work |-> [w EXCEPT !.status = "paused"],
                          history |-> history, by |-> by]

NoCommand == "none"
NoPause == <<>>     \* a pause the user asked for

IdleDesk == [alive |-> TRUE, owner |-> "agent", runner |-> "none",
             asked |-> FALSE, by |-> NoPause, checkpoint |-> 0,
             at |-> "idle", command |-> NoCommand, code |-> "",
             next |-> NoWork]

RevisionInit ==
    /\ work = Work("running", 1, 0, NoEffect, NotOwed)
    /\ desk = [IdleDesk EXCEPT !.runner = "start"]
    /\ around = [environment |-> 1, history |-> 1]
    /\ ledger = [saved |-> <<>>, resumed |-> {}, revised |-> {},
                 outcome |-> [c \in Revises |-> "none"]]
    /\ heard = {}

-----------------------------------------------------------------------------
(* The loop while an effect is owed.                                       *)

Pending(w) == w.owed.status = "pending"

\* require_reconciliation_input
InputRequired(w) == [w EXCEPT !.owed.status = "needs_input"]

\* RunState.apply of a step with a receipt: an owed effect is closed by it
\* (close_attempt), compensated only if the fresh world verifies it
Dispatched(w, kind, verified) ==
    LET done == Effect(w.count + 1, w.revision, kind) IN
    [w EXCEPT !.count = @ + 1,
              !.effect = done,
              !.owed = IF ~Pending(w) THEN @
                       ELSE [@ EXCEPT !.status =
                                IF kind # "unsure" /\ verified
                                THEN "compensated" ELSE "needs_input"]]

\* _request_reconciliation_pause: the id names the revision, the effect, the
\* number of executions and the reason, and nothing that changes on a return
PauseId(w, why) == <<w.revision, w.owed.effect.ref, w.count, why>>

\* The request is admitted if the run control has no request and has not
\* heard this id; else the loop raises and the session fails.
OwnPause(w, id) ==
    IF ~desk.asked /\ id \notin heard
    THEN /\ work' = w
         /\ heard' = heard \cup {id}
         /\ desk' = [desk EXCEPT !.runner = "settle", !.by = id]
    ELSE /\ work' = [w EXCEPT !.status = "failed"]
         /\ desk' = [desk EXCEPT !.runner = "none", !.asked = FALSE]
         /\ UNCHANGED heard

\* the user's pause is acknowledged
UserPause(w) ==
    /\ work' = w
    /\ desk' = [desk EXCEPT !.runner = "settle", !.asked = FALSE, !.by = NoPause]
    /\ UNCHANGED heard

RunEnds(w, status) ==
    /\ work' = [w EXCEPT !.status = status]
    /\ desk' = [desk EXCEPT !.runner = "none", !.asked = FALSE]
    /\ UNCHANGED heard

\* _apply_control_after_closed_step: a step that ended the run resolves the
\* request, any other answers it
StepCloses(w, status) ==
    CASE status # "running" -> RunEnds(w, status)
      [] status = "running" /\ desk.asked -> UserPause(w)
      [] OTHER -> /\ work' = w
                  /\ desk' = [desk EXCEPT !.runner = "top"]
                  /\ UNCHANGED heard

Verdict == {"running", "done", "blocked"}

\* the top of _run_until_pause: _pause_unavailable_reconciliation comes
\* before the user's request
LoopLooks(offered) ==
    /\ desk.alive /\ desk.runner \in {"start", "top"}
    /\ CASE Pending(work) /\ ~offered ->
                OwnPause(InputRequired(work), PauseId(work, "needs-input"))
         [] work.owed.status = "needs_input" ->
                OwnPause(work, PauseId(work, "needs-input"))
         [] OTHER ->
                IF desk.asked THEN UserPause(work)
                ELSE /\ desk' = [desk EXCEPT !.runner = "step"]
                     /\ UNCHANGED <<work, heard>>
    /\ UNCHANGED <<around, ledger>>

RunnerInStep == desk.alive /\ desk.runner = "step"

\* a step that sends nothing
LoopReads(verdict) ==
    /\ RunnerInStep
    /\ StepCloses(work, verdict)
    /\ UNCHANGED <<around, ledger>>

\* a dispatch of unknown fate that blocks the run is paused all the same
Closing(kind, verdict) ==
    IF kind = "unsure" /\ verdict = "blocked" /\ desk.asked THEN "running" ELSE verdict

\* an action, with nothing owed
LoopActs(kind, verdict) ==
    /\ RunnerInStep /\ ~Pending(work)
    /\ work.count < MaxEffects
    /\ StepCloses(Dispatched(work, kind, FALSE), Closing(kind, verdict))
    /\ UNCHANGED <<around, ledger>>

\* an action on the resource of the owed effect.  _close_reconciliation_attempt
\* stops the run there, unless a request is already pending
LoopUndoes(kind, verified, verdict) ==
    /\ RunnerInStep /\ Pending(work)
    /\ work.count < MaxEffects
    /\ LET w == Dispatched(work, kind, verified)
       IN  IF desk.asked THEN StepCloses(w, Closing(kind, verdict))
           ELSE OwnPause(w, PauseId(work, "attempt-closed"))
    /\ UNCHANGED <<around, ledger>>

\* the action is turned down, or sends nothing, and blocks the run
LoopRefused ==
    /\ RunnerInStep /\ Pending(work)
    /\ IF desk.asked THEN RunEnds(work, "blocked")
       ELSE OwnPause(InputRequired(work), PauseId(work, "attempt-rejected"))
    /\ UNCHANGED <<around, ledger>>

\* a final answer or an abort, which an owed effect does not allow; a pending
\* request is looked at before (_control_after_policy)
LoopConcludes ==
    /\ RunnerInStep /\ Pending(work)
    /\ IF desk.asked THEN UserPause(work)
       ELSE OwnPause(InputRequired(work), PauseId(work, "action-not-allowed"))
    /\ UNCHANGED <<around, ledger>>

-----------------------------------------------------------------------------
(* The checkpoint store.                                                   *)

Latest == Len(ledger.saved)

Consumed(c) == c \in ledger.resumed \/ \E r \in ledger.revised : r[1] = c

\* commit_pause and the end of the runner
PauseCommits ==
    /\ desk.alive /\ desk.runner = "settle"
    /\ Latest < MaxSaved
    /\ ledger' = [ledger EXCEPT !.saved =
                    Append(@, Saved(work, around.history, desk.by))]
    /\ work' = [work EXCEPT !.status = "paused"]
    /\ desk' = [desk EXCEPT !.runner = "none", !.checkpoint = Latest + 1]
    /\ UNCHANGED <<around, heard>>

\* commit_resume looks at the resume outcomes only ...
ResumeConsumes(at) ==
    /\ desk.checkpoint \notin ledger.resumed
    /\ ledger' = [ledger EXCEPT !.resumed = @ \cup {desk.checkpoint}]
    /\ desk' = [desk EXCEPT !.at = at]

\* ... and commit_revision at the revision outcomes only
RevisionConsumes(c, w) ==
    /\ ~\E r \in ledger.revised : r[1] = desk.checkpoint
    /\ Latest < MaxSaved
    /\ ledger' = [ledger EXCEPT
            !.saved = Append(@, Saved(w, around.history,
                                      ledger.saved[desk.checkpoint].by)),
            !.revised = @ \cup {<<desk.checkpoint, Latest + 1>>},
            !.outcome[c] = "revised"]

-----------------------------------------------------------------------------
(* Commands that use up a checkpoint.                                      *)

\* a command finds the lock free and the agent in control
AtDesk == desk.alive /\ desk.at = "idle" /\ desk.owner = "agent"

Paused == work.status = "paused"

\* pause, of a run whose runner lives; it gives the lock back at once.  At
\* the top of a later turn nobody else can run.
AsksPause ==
    /\ AtDesk
    /\ work.status = "running" /\ desk.runner \in {"start", "step"}
    /\ ~desk.asked
    /\ desk' = [desk EXCEPT !.asked = TRUE]
    /\ UNCHANGED <<work, around, ledger, heard>>

\* resume is refused while an owed effect waits for the user ...
ResumeCommits ==
    /\ AtDesk /\ Paused
    /\ work.owed.status # "needs_input"
    /\ ResumeConsumes("resuming")
    /\ UNCHANGED <<work, around, heard>>

\* ... a takeover is not
TakeOverCommits ==
    /\ AtDesk /\ Paused
    /\ ResumeConsumes("granting")
    /\ UNCHANGED <<work, around, heard>>

\* the transaction has answered: resume_control, and the runner is created
\* unless the restored evaluation is terminal
ResumeReturns(verdict) ==
    /\ desk.alive /\ desk.at = "resuming"
    /\ work' = [work EXCEPT !.status = verdict]
    /\ desk' = [desk EXCEPT !.at = "idle",
                            !.runner = IF verdict = "running" THEN "start" ELSE "none"]
    /\ UNCHANGED <<around, ledger, heard>>

TakeOverReturns ==
    /\ desk.alive /\ desk.at = "granting"
    /\ desk' = [desk EXCEPT !.at = "idle", !.owner = "user"]
    /\ UNCHANGED <<work, around, ledger, heard>>

\* return_control: the run is resumed first, and stays so when the capture
\* fails and the user keeps control
ReturnFails ==
    /\ desk.alive /\ desk.at = "idle" /\ desk.owner = "user"
    /\ work' = [work EXCEPT !.status = "running"]
    /\ UNCHANGED <<desk, around, ledger, heard>>

ReturnControl(verdict) ==
    /\ desk.alive /\ desk.at = "idle" /\ desk.owner = "user"
    /\ work' = [work EXCEPT !.status = verdict]
    /\ desk' = [desk EXCEPT !.owner = "agent", !.checkpoint = 0,
                            !.runner = IF verdict = "running" THEN "start" ELSE "none"]
    /\ UNCHANGED <<around, ledger, heard>>

-----------------------------------------------------------------------------
(* revise: one command under the session's lock, an await at each step.    *)

Revising(at) == desk.alive /\ desk.at = at

\* _ensure_revision_pause; a request of the user's in the way is a conflict
ReviseBegins(c) ==
    /\ AtDesk
    /\ ledger.outcome[c] = "none"
    /\ \/ Paused /\ desk' = [desk EXCEPT !.at = "load", !.command = c]
       \/ /\ work.status = "running" /\ desk.runner \in {"start", "step"}
          /\ ~desk.asked
          /\ desk' = [desk EXCEPT !.at = "pausing", !.command = c, !.asked = TRUE]
    /\ UNCHANGED <<work, around, ledger, heard>>

CommandEnds == [desk EXCEPT !.at = "idle", !.command = NoCommand,
                           !.code = "", !.next = NoWork]

\* on the way to _reject_revision with this outcome
Rejected(at, code) == [desk EXCEPT !.at = at, !.code = code]

\* the runner is over, at the pause or at the end of the run
PauseAwaited ==
    /\ Revising("pausing") /\ desk.runner = "none"
    /\ desk' = IF Paused THEN [desk EXCEPT !.at = "load"] ELSE CommandEnds
    /\ UNCHANGED <<work, around, ledger, heard>>

\* assess_effect_revision, where only the revised goal's evaluation is new
Assessed(w, satisfied) ==
    IF w.count = 0 THEN "no_effect"
    ELSE IF w.count > 1 THEN "unsupported"
    ELSE IF satisfied THEN "compatible"
    ELSE IF w.effect.kind = "undoable" THEN "compensation_required"
    ELSE "non_compensable"

\* an effect still owed, or more than one, is refused before any work
ReviseLoads ==
    /\ Revising("load")
    /\ desk' = IF \/ work.owed.status \notin {"none", "compensated"}
                  \/ Assessed(work, FALSE) = "unsupported"
               THEN Rejected("reject", "effect_reconciliation_required")
               ELSE [desk EXCEPT !.at = "compile"]
    /\ UNCHANGED <<work, around, ledger, heard>>

\* TaskRevisionBoundary.resolve: what the compiler answers; an answer of no
\* known type, for another revision, or an exception is "failed"
CompilerAnswers == {"ready", "needs_input", "no_change", "new_task_suggested",
                    "unsupported", "failed"}

\* compile_task_revision: the task of the next revision, if the answer is
\* ready and the intake admits it, or an outcome that changes nothing
ReviseCompiles(answer, admitted) ==
    /\ Revising("compile")
    /\ desk' = IF answer # "ready" THEN Rejected("reject", answer)
               ELSE IF ~admitted THEN Rejected("reject", "failed")
               ELSE [desk EXCEPT !.at = "revise_task"]
    /\ UNCHANGED <<work, around, ledger, heard>>

\* revise_paused: the environment takes the new task, then a fresh capture
EnvironmentRevised ==
    /\ Revising("revise_task")
    /\ around' = [around EXCEPT !.environment = work.revision + 1]
    /\ desk' = [desk EXCEPT !.at = "capture"]
    /\ UNCHANGED <<work, ledger, heard>>

Candidate(satisfied) ==
    [work EXCEPT !.revision = @ + 1,
                 !.owed = IF Assessed(work, satisfied) = "compensation_required"
                          THEN Owed("pending", work.effect) ELSE NotOwed]

\* rebind_checkpoint_history, for a candidate that the effect allows
CandidateReady(satisfied) ==
    /\ Revising("capture")
    /\ IF Assessed(work, satisfied) = "non_compensable"
       THEN /\ desk' = Rejected("restore", "effect_reconciliation_required")
            /\ UNCHANGED around
       ELSE /\ desk' = [desk EXCEPT !.at = "commit", !.next = Candidate(satisfied)]
            /\ around' = [around EXCEPT !.history = work.revision + 1]
    /\ UNCHANGED <<work, ledger, heard>>

CaptureFails ==
    /\ Revising("capture")
    /\ desk' = Rejected("restore", "failed")
    /\ UNCHANGED <<work, around, ledger, heard>>

ReviseCommits ==
    /\ Revising("commit")
    /\ RevisionConsumes(desk.command, desk.next)
    /\ desk' = [desk EXCEPT !.at = "install"]
    /\ UNCHANGED <<work, around, heard>>

\* the session restores the source, and then has nothing to record
ReviseCommitFails ==
    /\ Revising("commit")
    /\ desk' = [desk EXCEPT !.at = "withdraw"]
    /\ UNCHANGED <<work, around, ledger, heard>>

ReviseInstalls ==
    /\ Revising("install")
    /\ work' = desk.next
    /\ desk' = [CommandEnds EXCEPT !.checkpoint = Latest]
    /\ UNCHANGED <<around, ledger, heard>>

Source == ledger.saved[desk.checkpoint]

\* the environment keeps the task of the revision that came to nothing
RestoresLess(captured) ==
    /\ Revising("restore") \/ Revising("withdraw")
    /\ around' = [around EXCEPT !.history = Source.history]
    /\ work' = IF captured THEN Source.work ELSE work
    /\ desk' = IF captured /\ desk.at = "restore"
               THEN [desk EXCEPT !.at = "reject"] ELSE CommandEnds
    /\ UNCHANGED <<ledger, heard>>

\* _restore_revision_source: history and environment go back; then a fresh
\* capture for restore_paused, whose failure leaves revise at once
Restores(captured) ==
    /\ Revising("restore") \/ Revising("withdraw")
    /\ around' = [environment |-> Source.work.revision, history |-> Source.history]
    /\ work' = IF captured THEN Source.work ELSE work
    /\ desk' = IF captured /\ desk.at = "restore"
               THEN [desk EXCEPT !.at = "reject"] ELSE CommandEnds
    /\ UNCHANGED <<ledger, heard>>

\* _reject_revision: the outcome of the command is durable, if it can be
ReviseRejects(stored) ==
    /\ Revising("reject")
    /\ ledger' = IF stored
                 THEN [ledger EXCEPT !.outcome[desk.command] = desk.code]
                 ELSE ledger
    /\ desk' = CommandEnds
    /\ UNCHANGED <<work, around, heard>>

-----------------------------------------------------------------------------
(* The end of the process, and the recovery in another one.                *)

DeskCrashes ==
    /\ desk.alive
    /\ desk' = [IdleDesk EXCEPT !.alive = FALSE]
    /\ work' = NoWork
    /\ around' = [environment |-> 0, history |-> 0]
    /\ heard' = {}
    /\ UNCHANGED ledger

\* restore_paused without the reconciliation among the restored facts
DeskRecoversUnowed ==
    /\ ~desk.alive
    /\ Latest > 0 /\ ~Consumed(Latest)
    /\ LET s == ledger.saved[Latest]
       IN  /\ work' = [s.work EXCEPT !.owed = NotOwed]
           /\ around' = [environment |-> s.work.revision, history |-> s.history]
           /\ heard' = {s.by} \ {NoPause}
    /\ desk' = [IdleDesk EXCEPT !.checkpoint = Latest]
    /\ UNCHANGED ledger

\* inspect and recover_typed: the latest checkpoint, unless it was used up.
\* The environment comes back with the checkpoint's task (the reconnector's
\* business), the run control with the checkpoint's pause.
DeskRecovers ==
    /\ ~desk.alive
    /\ Latest > 0 /\ ~Consumed(Latest)
    /\ LET s == ledger.saved[Latest]
       IN  /\ work' = s.work
           /\ around' = [environment |-> s.work.revision, history |-> s.history]
           /\ heard' = {s.by} \ {NoPause}
    /\ desk' = [IdleDesk EXCEPT !.checkpoint = Latest]
    /\ UNCHANGED ledger

-----------------------------------------------------------------------------
LoopMoves ==
    \/ \E offered \in BOOLEAN : LoopLooks(offered)
    \/ LoopRefused
    \/ LoopConcludes
    \/ \E v \in Verdict :
        \/ LoopReads(v)
        \/ \E k \in Undo : \/ LoopActs(k, v)
                          \/ \E ok \in BOOLEAN : LoopUndoes(k, ok, v)

CommandMoves ==
    \/ AsksPause \/ PauseCommits \/ ResumeCommits
    \/ TakeOverCommits \/ TakeOverReturns \/ ReturnFails
    \/ \E v \in Verdict : ResumeReturns(v) \/ ReturnControl(v)
    \/ DeskCrashes \/ DeskRecovers

ReviseMoves ==
    \/ \E c \in Revises : ReviseBegins(c)
    \/ PauseAwaited \/ ReviseLoads \/ EnvironmentRevised \/ CaptureFails
    \/ ReviseCommits \/ ReviseCommitFails \/ ReviseInstalls
    \/ \E ok \in BOOLEAN :
        \/ \E a \in CompilerAnswers : ReviseCompiles(a, ok)
        \/ CandidateReady(ok) \/ Restores(ok) \/ ReviseRejects(ok)

RevisionNext == LoopMoves \/ CommandMoves \/ ReviseMoves

RevisionSpec == RevisionInit /\ [][RevisionNext]_revisionVars

-----------------------------------------------------------------------------
(* Properties.                                                             *)

\* Whenever no command is under way, the run, the environment and the model
\* history carry the same revision of the task, and a paused run is the one
\* its checkpoint holds: a revision that fails at any step leaves nothing of
\* the new revision with any of its owners, and one that is committed leaves
\* nothing of the old one (public_session.py:740-942, 1081-1107).
RevisionIsOne ==
    desk.alive /\ desk.at = "idle" =>
        /\ around.environment = work.revision
        /\ around.history = work.revision
        /\ work.status = "paused" => work = ledger.saved[desk.checkpoint].work

\* No checkpoint has both a resume outcome and a committed revision, though
\* neither transaction looks at the other's outcomes.
ConsumedOnce ==
    \A r \in ledger.revised : r[1] \notin ledger.resumed

\* An effect that the current revision owes an undoing stays known, through
\* resume, takeover, failed revisions, the end of the process and recovery:
\* once a checkpoint of this revision names it, the run names it too
\* (core_loop.py:300-362, run_state.py:620-644).
OwedIsRemembered ==
    desk.alive /\ desk.at = "idle" =>
        \A i \in 1 .. Latest :
            LET w == ledger.saved[i].work IN
            w.revision = work.revision /\ w.owed.status # "none" =>
                /\ work.owed.effect = w.owed.effect
                /\ work.owed.status = "pending" => w.owed.status = "pending"

\* What the store holds is used once and kept whole: a checkpoint is consumed
\* by one resume or one revision (checkpoint.py:641-682, 711-778), and an
\* effect the revision owes an undoing survives resume, takeover, failed
\* revisions, the end of the process and recovery.
RevisionIsDurable == ConsumedOnce /\ OwedIsRemembered

\* A reconciliation that needs the user's input stays a pause and never
\* fails the session (docs/interaction-shell.md:156).  The code raises when
\* the pause's id was heard before, or a request of the user's is pending
\* (core_loop.py:687-702).
UnresolvedStaysPaused ==
    work.owed.status = "needs_input" => work.status # "failed"

=============================================================================
