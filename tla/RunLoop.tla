------------------------------ MODULE RunLoop -------------------------------
(***************************************************************************)
(* CoreAgentLoop (agent/core_loop.py) over one RunState and one control    *)
(* owner: initialise, ask the policy, dispatch at most one effect a turn,  *)
(* close the step, commit it, and look at the pending control request at   *)
(* the safe boundaries only.                                               *)
(*                                                                         *)
(* asyncio gives the interleaving: everything between two awaits is one    *)
(* step, and another coroutine can ask for control only while the loop is  *)
(* inside an await.  step.at names the await; "top" is the head of the     *)
(* while loop, which nobody else ever sees.  What the model, the           *)
(* environment and the evaluator answer is any answer their contracts      *)
(* allow; an effect reconciliation is not part of this module.             *)
(***************************************************************************)
EXTENDS RunState

CONSTANTS
    MaxTurns,   \* task.loop_budget.max_turns
    MaxSends    \* bound of the model on the dispatches of one run

ASSUME LoopAssumption == MaxTurns \in Nat \ {0} /\ MaxSends \in Nat

VARIABLES
    run,        \* RunState
    step,       \* where the loop is
    sent        \* dispatches that crossed to the environment

loopVars == <<control, run, step, sent>>

\* the awaits of one turn
Turn == {"policy", "execute", "after", "observe", "finalize"}

\* the awaits in which other coroutines run
Awaits == Turn \cup {"start", "answer"}

\* nobody is inside the loop: not started, returned, left by an exception
Outside == {"idle", "returned", "raised"}

\* consume: committing the step takes a turn from the budget
Step == [at : Awaits \cup Outside \cup {"top"},
         dispatch : Dispatches, consume : BOOLEAN]

LoopInit ==
    /\ control = Fresh
    /\ run = NoRun
    /\ step = [at |-> "idle", dispatch |-> "not_sent", consume |-> TRUE]
    /\ sent = 0

GoTo(place) ==
    step' = [at |-> place, dispatch |-> "not_sent", consume |-> TRUE]

-----------------------------------------------------------------------------
(* Closing and committing a step.                                          *)

\* a result of the current world: no new verdict, nothing dispatched
SameWorld(status) ==
    [status |-> status, verdict |-> run.verdict, dispatch |-> "not_sent",
     clean |-> TRUE, boundary |-> None]

\* a result whose status is what the fresh evaluation says
Evaluated(verdict) ==
    [SameWorld(verdict) EXCEPT !.verdict = verdict]

\* A pause that meets a clean but uncertain dispatch keeps the run open.
PausesUncertain(c, s) ==
    /\ c.pending.kind = "pause"
    /\ s.dispatch = "sent_unknown"
    /\ s.status = "blocked"
    /\ s.clean

\* _apply_control_after_closed_step.  historyClosed: the policy adapter could
\* close its deferred tool call, without which there is no pause.
Closed(c, s, historyClosed) ==
    LET uncertain == c.pending # None /\ PausesUncertain(c, s)
        boundary  == IF s.status \in Waiting THEN s.status
                                             ELSE "after_evaluation"
        reopened  == IF uncertain THEN "running" ELSE s.status
    IN  CASE c.pending = None ->
               [control |-> c, result |-> s]
          [] c.pending # None /\ s.status \in Ended /\ ~uncertain ->
               [control |-> ResolvedTerminal(c), result |-> s]
          [] c.pending # None /\ (s.status \in Ended => uncertain) ->
               IF c.pending.kind = "pause" /\ ~historyClosed
               THEN [control |-> FailedPending(c), result |-> s]
               ELSE [control |-> Acknowledged(c, boundary),
                     result  |-> [s EXCEPT
                        !.status = IF c.pending.kind = "cancel"
                                   THEN "cancelled" ELSE reopened,
                        !.boundary = Preview(c, boundary)]]

\* _commit_step: the turn that spends the budget blocks the run
Budgeted(s, consume) ==
    IF consume /\ run.remaining = 1 /\ s.status = "running"
    THEN [s EXCEPT !.status = "blocked"] ELSE s

\* _apply_episode_monitor: a running step without a boundary may be stalled
Monitored(s, advance) ==
    {s} \cup (IF advance /\ s.status = "running" /\ s.boundary = None
              THEN {[s EXCEPT !.status = "blocked"]} ELSE {})

\* _commit_step.  The control owner has answered already; when the budgeted
\* result cannot be constructed the step is lost and the exception leaves
\* the loop.
Commit(c, s, consume, advance) ==
    /\ control' = c
    /\ IF Constructible(Budgeted(s, consume))
       THEN /\ \E m \in Monitored(Budgeted(s, consume), advance) :
                run' = Applied(run, m, consume)
            /\ GoTo("top")
       ELSE /\ GoTo("raised")
            /\ UNCHANGED run

\* what the loop, or resume_confirmation, does with the result of a step
CloseStep(s, consume) ==
    /\ \E historyClosed \in BOOLEAN :
        LET closed == Closed(control, s, historyClosed)
        IN  Commit(closed.control, closed.result, consume, TRUE)
    /\ UNCHANGED sent

-----------------------------------------------------------------------------
(* Starting.                                                               *)

\* run_task: initialize begins, with the reset of the environment
StartRun ==
    /\ step.at = "idle"
    /\ GoTo("start")
    /\ UNCHANGED <<control, run, sent>>

\* _initialize_from_world: a goal that lacks input asks for it at once, and
\* only if the first evaluation leaves the run open.
InitialRun(verdict, needsInput) ==
    [NoRun EXCEPT !.status    = IF verdict = "running" /\ needsInput
                                THEN "waiting_user" ELSE verdict,
                  !.verdict   = verdict,
                  !.remaining = MaxTurns]

StartReturns ==
    /\ step.at = "start"
    /\ \E verdict \in Verdicts, needsInput \in BOOLEAN :
        run' = InitialRun(verdict, needsInput)
    /\ GoTo("top")
    /\ UNCHANGED <<control, sent>>

\* reset, goal compiler or evaluator fail: CoreLoopStartError or another
StartRaises ==
    /\ step.at = "start"
    /\ GoTo("raised")
    /\ UNCHANGED <<control, run, sent>>

-----------------------------------------------------------------------------
(* The head of the loop.                                                   *)

\* the condition of the while loop with the boundary forgotten
RunsOn == run.status = "running"

\* the condition of the while loop
Runs == run.status = "running" /\ run.boundary = None

\* _run_until_pause leaves its loop
LoopLeaves ==
    /\ step.at = "top"
    /\ ~Runs
    /\ control' = IF Terminal(run) THEN ResolvedTerminal(control) ELSE control
    /\ GoTo("returned")
    /\ UNCHANGED <<run, sent>>

\* _apply_control_before_policy with a history that could be closed, or a
\* cancel, which needs none
Stoppable(historyClosed) == control.pending.kind = "cancel" \/ historyClosed

StopBeforePolicy ==
    /\ step.at = "top"
    /\ Runs
    /\ control.pending # None
    /\ \E historyClosed \in BOOLEAN :
        IF Stoppable(historyClosed)
        THEN /\ control' = Acknowledged(control, "before_policy")
             /\ run' = BoundaryApplied(run, Preview(control, "before_policy"))
        ELSE /\ control' = FailedPending(control)
             /\ UNCHANGED run
    /\ UNCHANGED <<step, sent>>

\* step: the context is built and handed to the policy
AskPolicy ==
    /\ step.at = "top"
    /\ Runs
    /\ control.pending = None
    /\ GoTo("policy")
    /\ UNCHANGED <<control, run, sent>>

\* step: the public world cannot be grounded, no policy is asked
ContextRefused ==
    /\ step.at = "top"
    /\ Runs
    /\ control.pending = None
    /\ CloseStep(SameWorld("failed"), TRUE)

-----------------------------------------------------------------------------
(* The policy answers.                                                     *)

\* an exception, a PolicyFailure, a stale context, an enclosing deadline
PolicyFails ==
    /\ step.at = "policy"
    /\ \E status \in {"failed", "cancelled"} : CloseStep(SameWorld(status), TRUE)

\* _control_after_policy: a request that came while the policy was thinking
\* keeps the decision from being carried out.
StopAfterPolicy ==
    /\ step.at = "policy"
    /\ control.pending # None
    /\ \E historyClosed \in BOOLEAN :
        IF Stoppable(historyClosed)
        THEN Commit(Acknowledged(control, "after_policy"),
                    [SameWorld(IF control.pending.kind = "cancel"
                               THEN "cancelled" ELSE "running")
                        EXCEPT !.boundary = Preview(control, "after_policy")],
                    TRUE, TRUE)
        ELSE Commit(FailedPending(control), SameWorld("running"), TRUE, TRUE)
    /\ UNCHANGED sent

\* decisions that no await separates from their result: local tools and
\* pages, rejected selections, a question, a confirmation, an abort
DecideLocally ==
    /\ step.at = "policy"
    /\ control.pending = None
    /\ \E status \in Resumable \cup {"blocked", "cancelled", "failed"} :
        CloseStep(SameWorld(status), TRUE)

\* decisions whose result needs the environment: an admitted action, an
\* observation, a wait or a stale binding, the final response
CallEnvironment(place) ==
    /\ step' = [step EXCEPT !.at = place]
    /\ UNCHANGED <<control, run, sent>>

DecideToCall ==
    /\ step.at = "policy"
    /\ control.pending = None
    /\ \E place \in {"execute", "observe", "finalize"} : CallEnvironment(place)

-----------------------------------------------------------------------------
(* The environment answers.                                                *)

\* external: inside environment.execute the effect leaves the Runtime
Cross ==
    /\ step.at = "execute"
    /\ step.dispatch = "not_sent"
    /\ sent < MaxSends
    /\ sent' = sent + 1
    /\ step' = [step EXCEPT !.dispatch = "sent"]
    /\ UNCHANGED <<control, run>>

\* _select: nothing was sent; reselect, give up, or find the binding stale
ExecuteNotSent ==
    /\ step.at = "execute"
    /\ step.dispatch = "not_sent"
    /\ \/ \E status \in {"running", "blocked"} :
            CloseStep(SameWorld(status), step.consume)
       \/ CallEnvironment("observe")

\* what the environment may say of an effect that crossed
Reports == IF step.dispatch = "not_sent" THEN {"not_sent"}
                                         ELSE {"sent", "sent_unknown"}

\* _select: ExecutionCancelled, with what had happened by then
ExecuteCancelled ==
    /\ step.at = "execute"
    /\ \E report \in Reports :
        CloseStep([SameWorld("cancelled") EXCEPT !.dispatch = report],
                  step.consume)

\* _select: the effect was sent, or may have been; the post-action world is
\* captured, recovered, and evaluated in further awaits
ExecuteSent ==
    /\ step.at = "execute"
    /\ step.dispatch # "not_sent"
    /\ \E report \in Reports :
        step' = [step EXCEPT !.at = "after", !.dispatch = report]
    /\ UNCHANGED <<control, run, sent>>

\* What a dispatched step closes with, before its dispatch is written in: the
\* verdict of the world after it; a dead session or a failed evaluation; a
\* cancelled evaluation; no world after a known dispatch; an uncertain
\* dispatch that stays unresolved, with or without a world after it.
DispatchedResults ==
    {Evaluated(v) : v \in Verdicts}
      \cup {[SameWorld("failed") EXCEPT !.clean = FALSE], SameWorld("cancelled")}
      \cup (IF step.dispatch = "sent"
            THEN {[SameWorld("blocked") EXCEPT !.clean = FALSE]}
            ELSE {SameWorld("blocked")}
                   \cup {[Evaluated(v) EXCEPT !.status = "blocked"] : v \in Verdicts})

AfterDispatch ==
    /\ step.at = "after"
    /\ \E s \in DispatchedResults :
        CloseStep([s EXCEPT !.dispatch = step.dispatch], step.consume)

\* _observe, _wait, _refresh_stale_binding: a fresh world is evaluated, a
\* query ends without one, or there is none
ObserveReturns ==
    /\ step.at = "observe"
    /\ \E s \in {Evaluated(v) : v \in Verdicts}
              \cup {SameWorld("running"), SameWorld("blocked")} :
            CloseStep(s, step.consume)

\* the evaluator raises outside a dispatched step
ObserveRaises ==
    /\ step.at = "observe"
    /\ GoTo("raised")
    /\ UNCHANGED <<control, run, sent>>

\* _finalize: whatever the final response led to, the run ends
FinalizeReturns ==
    /\ step.at = "finalize"
    /\ \E s \in {Evaluated("done"), Evaluated("blocked"),
                  SameWorld("failed"), SameWorld("cancelled")} :
            CloseStep(s, TRUE)

-----------------------------------------------------------------------------
(* The entrances of a waiting run.                                         *)

\* resume_user without its check of the status
AnswerUnchecked ==
    /\ step.at = "returned"
    /\ run.boundary = None
    /\ GoTo("answer")
    /\ UNCHANGED <<control, run, sent>>

\* resume_user: revise the environment, evaluate, compile the goal
Answer ==
    /\ step.at = "returned"
    /\ run.status = "waiting_user"
    /\ run.boundary = None
    /\ GoTo("answer")
    /\ UNCHANGED <<control, run, sent>>

\* its resumed step takes no turn, and no request is looked at before the
\* loop is entered
AnswerReturns ==
    /\ step.at = "answer"
    /\ \E s \in {Evaluated(v) : v \in Verdicts} \cup {SameWorld("waiting_user")} :
        run' = Applied(LeftWaiting(run), s, FALSE)
    /\ GoTo("top")
    /\ UNCHANGED <<control, sent>>

AnswerRaises ==
    /\ step.at = "answer"
    /\ GoTo("raised")
    /\ UNCHANGED <<control, run, sent>>

\* resume_confirmation, declined
Decline ==
    /\ step.at = "returned"
    /\ run.status = "waiting_confirmation"
    /\ run.boundary = None
    /\ run' = Applied(LeftWaiting(run), SameWorld("running"), FALSE)
    /\ GoTo("top")
    /\ UNCHANGED <<control, sent>>

\* resume_confirmation, approved: _select runs again and its step takes no
\* turn, whether it reaches the environment or not
Approve ==
    /\ step.at = "returned"
    /\ run.status = "waiting_confirmation"
    /\ run.boundary = None
    /\ \/ /\ run' = LeftWaiting(run)
          /\ \E place \in {"execute", "observe"} :
              step' = [at |-> place, dispatch |-> "not_sent", consume |-> FALSE]
          /\ UNCHANGED <<control, sent>>
       \/ \E status \in {"running", "blocked"} :
              CloseStep(SameWorld(status), FALSE)

-----------------------------------------------------------------------------
(* The control commands of TargetRuntime (app/runtime.py).                 *)

\* request_control while the loop is inside an await
RequestControl ==
    /\ step.at \in Awaits
    /\ \E r \in Request : control' = Requested(control, r)
    /\ UNCHANGED <<run, step, sent>>

\* apply_waiting_control: the boundary of a run that nobody is running
RestBoundary == IF run.status \in Waiting THEN run.status ELSE "before_policy"

\* request_control and apply_waiting_control on a run that waits or stands at
\* a pause: there is no loop to find the request, so it is answered at once.
ControlAtRest(r) ==
    LET c == Requested(control, r)
    IN  /\ Admission(control, r) = "accepted"
        /\ run.status \in Waiting \/ AtPause(run)
        /\ \E historyClosed \in BOOLEAN :
            IF r.kind = "pause" /\ ~historyClosed
            THEN /\ control' = FailedPending(c)
                 /\ UNCHANGED run
            ELSE /\ control' = Acknowledged(c, RestBoundary)
                 /\ run' = BoundaryApplied(run, Preview(c, RestBoundary))

CommandAtRest ==
    /\ step.at = "returned"
    /\ ~Terminal(run)
    /\ \E r \in Request : ControlAtRest(r)
    /\ UNCHANGED <<step, sent>>

\* resume_control and continue_run, with a command that is new to the
\* control owner (public_session.py answers a repeated one itself)
ResumeAtRest ==
    /\ step.at = "returned"
    /\ AtPause(run)
    /\ control.paused # None
    /\ \E i \in CommandIds :
        /\ ~Known(control, i)
        /\ control' = Resumed(control, i)
    /\ run' = BoundaryResumed(run)
    /\ GoTo(IF run'.status = "running" THEN "top" ELSE "returned")
    /\ UNCHANGED sent

-----------------------------------------------------------------------------
(* The specification.                                                      *)

\* the loop's own steps, from one await to the next
LoopStep ==
    \/ StartReturns \/ StartRaises \/ LoopLeaves \/ StopBeforePolicy
    \/ AskPolicy \/ ContextRefused \/ PolicyFails \/ StopAfterPolicy
    \/ DecideLocally \/ DecideToCall \/ Cross \/ ExecuteNotSent
    \/ ExecuteCancelled \/ ExecuteSent \/ AfterDispatch \/ ObserveReturns
    \/ ObserveRaises \/ FinalizeReturns \/ AnswerReturns \/ AnswerRaises

\* what the users of the loop do to it
CallerStep ==
    \/ StartRun \/ Answer \/ Decline \/ Approve
    \/ RequestControl \/ CommandAtRest \/ ResumeAtRest

LoopNext == LoopStep \/ CallerStep

LoopSpec == LoopInit /\ [][LoopNext]_loopVars

\* Every await of the loop ends: policy calls, environment calls and
\* evaluators are bounded by their own deadlines, and asyncio runs a ready
\* coroutine eventually.
FairLoopSpec == LoopSpec /\ WF_loopVars(LoopStep)

-----------------------------------------------------------------------------
(* Properties.                                                             *)

\* Every field has its type; the turn budget never runs below zero.
LoopTypeOK ==
    /\ control \in Control
    /\ run \in Run
    /\ run.remaining <= MaxTurns
    /\ step \in Step
    /\ sent \in Nat

\* Once a step is closed, the run has one execution attempt for every effect
\* that crossed or may have crossed to the environment: certain, uncertain,
\* cancelled, or ended by a failed evaluation.
TruthClosed ==
    step.at \in {"idle", "top", "returned"} => run.execs = sent

\* No effect leaves the Runtime once a pause was acknowledged and not
\* resumed, or a cancel was acknowledged.
NoDispatchUnderControl ==
    [][ sent' # sent =>
            /\ control.paused = None
            /\ run.boundary = None
            /\ \A i \in CommandIds :
                control.outcomes[i] # None =>
                    control.outcomes[i].answer # "cancelled" ]_loopVars

\* The control owner and the run agree on the pause: one holds exactly the
\* boundary the other stands at.
PauseAgrees ==
    step.at # "raised" =>
        control.paused = (IF AtPause(run) THEN run.boundary ELSE None)

\* A cancel that was acknowledged, and told so to its caller, cancelled the
\* run.
CancelledMeansCancelled ==
    (\E i \in CommandIds :
        control.outcomes[i] # None /\ control.outcomes[i].answer = "cancelled")
            => run.status = "cancelled"

\* A run that has ended keeps its status, its boundary and its executions,
\* whatever its callers ask of it.
EndedStays == [][ Terminal(run) => run' = run ]_loopVars

\* A request that waits while a turn is under way is answered (reached,
\* failed, superseded, or too late), unless an exception ends the loop.
TurnAnswersRequests ==
    \A i \in CommandIds :
        (step.at \in Turn /\ IsPending(control, i))
            ~> (~IsPending(control, i) \/ step.at = "raised")

\* What the documents promise and the code does not keep.

\* Truth is closed even for a step that an exception throws away.
TruthClosedOnFailure ==
    step.at \in Outside => run.execs = sent

\* The policy is asked only while the budget has a turn left.
TurnWithinBudget == step.at = "policy" => run.remaining > 0
=============================================================================
