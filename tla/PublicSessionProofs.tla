------------------------ MODULE PublicSessionProofs -------------------------
(***************************************************************************)
(* PublicSession proved for every budget, every number of dispatches, of   *)
(* checkpoints and of commands.                                            *)
(*                                                                         *)
(* A live session is in one of three modes.  Whole: the loop is going or   *)
(* at rest and LoopInv of RunLoopProofs holds of it.  Held: the run is     *)
(* durably paused, which LoopInv knows nothing of.  Lost: an exception has *)
(* left the loop with a running run, whose truth may not be closed, and    *)
(* nobody can enter the loop again.  SessionInv says in each mode who may  *)
(* be at work and what the store then holds; a mode is left by a few       *)
(* actions only, and the others keep it.                                   *)
(***************************************************************************)
EXTENDS SessionLifecycle, RunLoopProofs, FiniteSetTheorems

\* nobody is at work in the session
Still ==
    /\ ~session.active
    /\ settle = "none"
    /\ step.at = "returned"
    /\ step.dispatch = "not_sent"

AgentHolds == session.owner = "agent" /\ ~session.returning

UserHolds == session.owner = "user" \/ session.returning

\* the process is gone, and with it all but the store
Gone ==
    /\ control = Fresh /\ run = NoRun /\ step.at = "idle"
    /\ session = NewSession /\ settle = "none" /\ lock = "free"

\* the facts that stand for a durably paused run
PausedFacts == FactsOf([run EXCEPT !.status = run.pausedFrom], run.checkpoint)

Consuming == lock \in {"resumed", "granted"} \/ session.owner = "user"

Held ==
    /\ Still
    /\ run.status = "paused" /\ run.pausedFrom \in Resumable
    /\ AtPause(run) /\ control.paused = run.boundary
    /\ sent = run.execs
    /\ ~Told(control)
    /\ session.checkpoint = run.checkpoint /\ ~session.returning
    /\ lock \in {"free", "takeover", "resumed", "granted"}
    /\ session.owner = "user" => lock = "free"
    /\ Consuming => store.saved = {} /\ run.checkpoint \in store.resumed
    /\ ~Consuming => store.saved = {PausedFacts}

Lost ==
    /\ Still
    /\ run.status = "running" /\ run.boundary = None
    /\ AgentHolds /\ lock \in {"free", "takeover"}
    /\ store.saved = {}

\* what a run looks like when an exception has left the loop
RaisedShape ==
    step.at = "raised" =>
        /\ run.boundary = None
        /\ \/ run.status = "running"
           \/ /\ run.status \in {"none", "waiting_user"}
              /\ sent = run.execs /\ control.paused = None

\* who is at work
Work ==
    /\ session.active =>
        /\ AgentHolds /\ session.status = "running"
        /\ lock \in {"free", "takeover"} /\ step.at # "idle"
    /\ ~session.active => step.at \in {"idle", "returned"} /\ lock \in LockPhases \ {"resumed", "granted"}
    /\ run.status = "none" =>
        /\ session.status \in {"idle", "running", "failed"}
        /\ session.active => step.at \in {"start", "raised"}
    /\ lock = "pause" => settle \in {"commit", "committed"}
    /\ lock = "return" <=> session.returning

\* what is being settled
Settling ==
    /\ settle \in {"commit", "committed"} =>
        /\ step.at = "returned" /\ AtPause(run) /\ AgentHolds
        /\ \/ session.active
           \/ run.status \in Waiting /\ lock \in {"pause", "takeover"}
    /\ settle = "committed" => store.saved = {FactsOf(run, LastCheckpoint)}
    /\ settle = "refresh" =>
        /\ session.active /\ step.at = "returned"
        /\ run.status = "running" /\ run.boundary = None
    /\ settle = "continued" => session.active

\* what the user may hold
Lease ==
    UserHolds =>
        /\ Still /\ session.checkpoint \in store.resumed
        /\ run.status \in {"running", "done", "blocked"}
        /\ run.status = "running" => run.boundary = None
        /\ session.returning => session.owner = "agent" /\ run.status = "running"
        /\ session.owner = "user" => lock = "free"

\* what may be left in the store
Kept ==
    store.saved # {} =>
        \/ settle = "committed"
        \/ Still /\ AgentHolds /\ run.status = "cancelled"

Whole == LoopInv /\ RaisedShape /\ Work /\ Settling /\ Lease /\ Kept

\* what every checkpoint says, whatever the process does
Saved ==
    /\ IsFiniteSet(store.saved) /\ IsFiniteSet(store.resumed)
    /\ \A f, g \in store.saved : f = g
    /\ \A f \in store.saved :
        /\ f.execs = sent /\ f.remaining <= MaxTurns
        /\ f.boundary.kind = "pause" /\ f.boundary.answer = "pause_boundary_reached"

SessionInv ==
    /\ SessionTypeOK
    /\ Good(control)
    /\ Saved
    /\ live => Whole \/ Held \/ Lost
    /\ ~live => Gone
-----------------------------------------------------------------------------
(* What the lemmas of the loop say in this module's terms.                 *)

\* The loop's own steps keep its invariant.
LEMMA LoopStepKeeps ==
    ASSUME LoopInv, LoopStep
    PROVE  LoopInv'
BY StartKeeps, TopKeeps, PolicyKeeps, CrossingKeeps, DispatchKeeps,
   CallKeeps, AnswerKeeps DEF LoopStep

\* A state of the loop at rest, or at its head, with nothing in flight.
LEMMA RestIsWhole ==
    ASSUME Good(control'), run' \in Run, run'.remaining <= MaxTurns,
           step' \in Step, step'.at \in {"top", "returned"},
           step'.dispatch = "not_sent",
           sent' \in Nat, sent' = run'.execs, run'.status # "paused",
           control'.paused = (IF AtPause(run') THEN run'.boundary ELSE None),
           AtPause(run') => run'.status \in Resumable,
           Told(control') => run'.status = "cancelled"
    PROVE  LoopInv'
<1>1. LoopTypeOK'
  BY DEF LoopTypeOK, Good
<1>2. PlaceAgrees'
  BY DEF PlaceAgrees, Turn
<1>3. Balanced'
  <2>1. run'.execs \in Nat
    BY DEF Run
  <2> QED BY <2>1 DEF Balanced, InFlight
<1>4. PauseAgrees' /\ CancelledMeansCancelled'
  BY DEF PauseAgrees, CancelledMeansCancelled, Told
<1> QED BY <1>1, <1>2, <1>3, <1>4 DEF LoopInv

\* A loop whose variables do not change keeps its invariant.
LEMMA LoopRests ==
    ASSUME LoopInv, control' = control, run' = run, step' = step, sent' = sent
    PROVE  LoopInv'
<1>1. PlaceAgrees' /\ Balanced'
  BY InvParts DEF PlaceAgrees, Balanced, InFlight, AtPause
<1> QED BY <1>1, InvParts, MoveKeeps

\* What the invariant says of a loop that has returned.
LEMMA RestParts ==
    ASSUME LoopInv, step.at = "returned"
    PROVE  /\ Good(control) /\ run \in Run /\ run.remaining <= MaxTurns
           /\ step \in Step /\ step.dispatch = "not_sent"
           /\ sent \in Nat /\ sent = run.execs
           /\ run.status # "paused"
           /\ control.paused = (IF AtPause(run) THEN run.boundary ELSE None)
           /\ AtPause(run) => run.status \in Resumable /\ control.paused # None
           /\ Told(control) => run.status = "cancelled"
<1>1. /\ Good(control) /\ run \in Run /\ run.remaining <= MaxTurns
      /\ step \in Step /\ sent \in Nat
  BY DEF LoopInv, LoopTypeOK
<1>2. step.dispatch = "not_sent" /\ sent = run.execs
  <2>1. run.execs \in Nat
    BY <1>1 DEF Run
  <2> QED BY <2>1 DEF LoopInv, Balanced, InFlight
<1>3. /\ run.status # "paused"
      /\ control.paused = (IF AtPause(run) THEN run.boundary ELSE None)
      /\ AtPause(run) => run.status \in Resumable /\ control.paused # None
  BY DEF LoopInv, PlaceAgrees, PauseAgrees, AtPause
<1>4. Told(control) => run.status = "cancelled"
  BY DEF LoopInv, CancelledMeansCancelled, Told
<1> QED BY <1>1, <1>2, <1>3, <1>4

\* The loop's own steps start inside the loop.
LEMMA LoopStepFrom ==
    ASSUME LoopStep
    PROVE  step.at \in Awaits \cup {"top"}
BY DEF LoopStep, StartReturns, StartRaises, LoopLeaves, StopBeforePolicy,
   AskPolicy, ContextRefused, PolicyFails, StopAfterPolicy, DecideLocally,
   DecideToCall, Cross, ExecuteNotSent, ExecuteCancelled, ExecuteSent,
   AfterDispatch, ObserveReturns, ObserveRaises, FinalizeReturns,
   AnswerReturns, AnswerRaises, Awaits, Turn

\* where a step of the loop may leave it: not outside with a run that never
\* began, unless by an exception, which leaves the run as it was; and what it
\* counts is one execution at most
LeavesNamed ==
    /\ step'.at \in {"start", "top", "returned"} => run'.status # "none"
    /\ step'.at = "raised" => run' = run
    /\ run'.execs \in {run.execs, run.execs + 1}

\* A committed result names the status of the run, or the run is left as it is.
LEMMA CommitNames ==
    ASSUME run \in Run, run.remaining <= MaxTurns, NEW c, NEW s \in Result,
           NEW consume \in BOOLEAN, NEW advance \in BOOLEAN,
           Commit(c, s, consume, advance)
    PROVE  /\ step'.at \in {"top", "raised"}
           /\ step'.at = "top" => run'.status # "none"
           /\ step'.at = "raised" => run' = run /\ ~Constructible(Budgeted(s, consume))
           /\ run'.execs \in {run.execs, run.execs + 1}
<1>1. CASE Constructible(Budgeted(s, consume))
  <2>1. PICK m \in Monitored(Budgeted(s, consume), advance) : run' = Applied(run, m, consume)
    BY <1>1 DEF Commit
  <2>2. m \in Result
    BY <1>1, CommittedParts
  <2>3. run'.status = m.status /\ run'.execs \in {run.execs, run.execs + 1}
    BY <2>1, <2>2, AppliedParts
  <2>4. m.status # "none"
    BY <2>2 DEF Result, Resumable, Waiting, Ended
  <2> QED BY <1>1, <2>3, <2>4 DEF Commit, GoTo
<1>2. CASE ~Constructible(Budgeted(s, consume))
  BY <1>2 DEF Commit, GoTo
<1> QED BY <1>1, <1>2

\* The same of a step that is closed.
LEMMA CloseNames ==
    ASSUME LoopInv, NEW s \in Result, s.boundary = None,
           run.boundary = None, run.status # "cancelled", step.at # "raised",
           NEW consume \in BOOLEAN, CloseStep(s, consume)
    PROVE  /\ step'.at \in {"top", "raised"}
           /\ step'.at = "top" => run'.status # "none"
           /\ step'.at = "raised" => run' = run /\ consume
           /\ run'.execs \in {run.execs, run.execs + 1}
<1>1. PICK h \in BOOLEAN :
        Commit(Closed(control, s, h).control, Closed(control, s, h).result,
               consume, TRUE)
  BY DEF CloseStep
<1> DEFINE c == Closed(control, s, h).control
           t == Closed(control, s, h).result
<1>2. t \in Result /\ Constructible(t)
  BY OpenRun, ClosedFits DEF Fits
<1>3. Commit(c, t, consume, TRUE)
  BY <1>1
<1>4. run \in Run /\ run.remaining <= MaxTurns
  BY InvParts
<1> HIDE DEF c, t
<1>5. /\ step'.at \in {"top", "raised"}
      /\ step'.at = "top" => run'.status # "none"
      /\ step'.at = "raised" => run' = run /\ ~Constructible(Budgeted(t, consume))
      /\ run'.execs \in {run.execs, run.execs + 1}
  <2> DEFINE yes == TRUE
  <2>1. Commit(c, t, consume, yes) /\ yes \in BOOLEAN
    BY <1>3
  <2> HIDE DEF yes
  <2> QED BY <1>2, <1>4, <2>1, CommitNames
<1>6. ~consume => Budgeted(t, consume) = t
  BY DEF Budgeted
<1> QED BY <1>2, <1>5, <1>6

\* Every answer of the environment is closed with a typed result.
LEMMA ClosedResults ==
    ASSUME LoopInv,
           ExecuteNotSent \/ ExecuteCancelled \/ AfterDispatch
             \/ ObserveReturns \/ FinalizeReturns
    PROVE  \/ CallEnvironment("observe")
           \/ \E s \in Result, consume \in BOOLEAN : s.boundary = None /\ CloseStep(s, consume)
<1>1. run \in Run /\ step.consume \in BOOLEAN /\ step.dispatch \in Dispatches
  BY InvParts
<1>2. /\ \A status \in Resumable \cup Ended :
            SameWorld(status) \in Result /\ SameWorld(status).boundary = None
      /\ \A v \in Verdicts : Evaluated(v) \in Result /\ Evaluated(v).boundary = None
      /\ \A s \in DispatchedResults : s \in Result /\ s.boundary = None
      /\ \A s \in Result, d \in Dispatches :
            Dispatched(s, d) \in Result /\ Dispatched(s, d).boundary = s.boundary
  BY <1>1, ResultsAre
<1> USE DEF Dispatched
<1>3. CASE ExecuteNotSent
  BY <1>1, <1>2, <1>3 DEF ExecuteNotSent, Resumable, Ended
<1>4. CASE ExecuteCancelled
  <2>1. PICK report \in Reports : CloseStep(Dispatched(SameWorld("cancelled"), report), step.consume)
    BY <1>4 DEF ExecuteCancelled
  <2>2. report \in Dispatches
    BY <2>1 DEF Reports, Dispatches
  <2> QED BY <1>1, <1>2, <2>1, <2>2 DEF Ended
<1>5. CASE AfterDispatch
  <2>1. PICK s \in DispatchedResults : CloseStep(Dispatched(s, step.dispatch), step.consume)
    BY <1>5 DEF AfterDispatch
  <2> HIDE DEF Dispatched
  <2> QED BY <1>1, <1>2, <2>1
<1>6. CASE ObserveReturns
  <2>1. PICK s \in {Evaluated(v) : v \in Verdicts} \cup {SameWorld("running"), SameWorld("blocked")} :
          CloseStep(s, step.consume)
    BY <1>6 DEF ObserveReturns
  <2>2. s \in Result /\ s.boundary = None
    BY <1>2, <2>1 DEF Resumable, Ended
  <2> QED BY <1>1, <2>1, <2>2
<1>7. CASE FinalizeReturns
  <2>1. PICK s \in {Evaluated("done"), Evaluated("blocked"), SameWorld("failed"), SameWorld("cancelled")} :
          CloseStep(s, TRUE)
    BY <1>7 DEF FinalizeReturns
  <2>2. s \in Result /\ s.boundary = None
    BY <1>2, <2>1 DEF Verdicts, Ended
  <2> QED BY <2>1, <2>2
<1> QED BY <1>3, <1>4, <1>5, <1>6, <1>7

\* What leaves the loop by an exception leaves the run as it was: running, or
\* not begun, or still waiting for its answer.
LEMMA LoopStepRaises ==
    ASSUME LoopInv, LoopStep, run.status = "none" => step.at = "start"
    PROVE  /\ step'.at # "idle"
           /\ RaisedShape'
           /\ LeavesNamed
<1>1. /\ PlaceAgrees /\ Balanced /\ PauseAgrees
      /\ run \in Run /\ run.remaining <= MaxTurns /\ step \in Step
      /\ run.execs \in Nat /\ run.status \in {"none", "paused"} \cup Resumable \cup Ended
  BY DEF LoopInv, LoopTypeOK, Run
<1> DEFINE Going2 == step'.at # "idle" /\ RaisedShape' /\ LeavesNamed
<1>3. ASSUME NEW s \in Result, s.boundary = None, NEW consume \in BOOLEAN,
             CloseStep(s, consume), step.at # "raised",
             run.status = "running", run.boundary = None
      PROVE  Going2
  <2>1. /\ step'.at \in {"top", "raised"}
        /\ step'.at = "top" => run'.status # "none"
        /\ step'.at = "raised" => run' = run
        /\ run'.execs \in {run.execs, run.execs + 1}
    BY <1>3, CloseNames
  <2> QED BY <1>3, <2>1 DEF RaisedShape, LeavesNamed
<1>4. CASE StartReturns
  <2>1. PICK verdict \in Verdicts, needsInput \in BOOLEAN : run' = InitialRun(verdict, needsInput)
    BY <1>4 DEF StartReturns
  <2>2. run'.status # "none" /\ run'.execs = 0
    BY <2>1 DEF InitialRun, NoRun, Verdicts
  <2>3. run.execs = 0
    BY <1>1, <1>4 DEF StartReturns, PlaceAgrees, NoRun
  <2> QED BY <1>4, <2>2, <2>3 DEF StartReturns, GoTo, RaisedShape, LeavesNamed
<1>5. CASE StartRaises
  <2>1. step.at = "start" /\ run = NoRun /\ step.dispatch = "not_sent"
    BY <1>1, <1>5 DEF StartRaises, PlaceAgrees, Balanced
  <2>2. sent = run.execs /\ control.paused = None
    BY <1>1, <2>1 DEF Balanced, InFlight, PauseAgrees, NoRun, AtPause
  <2> QED BY <1>5, <2>1, <2>2 DEF StartRaises, GoTo, RaisedShape, NoRun, LeavesNamed
<1>6. CASE LoopLeaves \/ AskPolicy
  BY <1>1, <1>6 DEF LoopLeaves, AskPolicy, GoTo, RaisedShape, LeavesNamed
<1>7. CASE StopBeforePolicy
  <2>1. /\ step' = step /\ step.at = "top" /\ run.status = "running"
        /\ \/ run' = run
           \/ run' = BoundaryApplied(run, Preview(control, "before_policy"))
    BY <1>7 DEF StopBeforePolicy, Runs
  <2>2. run'.status # "none" /\ run'.execs = run.execs
    BY <1>1, <2>1 DEF BoundaryApplied, Run
  <2> QED BY <2>1, <2>2 DEF RaisedShape, LeavesNamed
<1>8. CASE ContextRefused
  <2>1. CloseStep(SameWorld("failed"), TRUE) /\ Runs /\ step.at = "top"
    BY <1>8 DEF ContextRefused
  <2> DEFINE s == SameWorld("failed")
             yes == TRUE
  <2>2. s \in Result /\ s.boundary = None /\ yes \in BOOLEAN /\ CloseStep(s, yes)
    BY <1>1, <2>1, ResultsAre DEF Ended
  <2> HIDE DEF s, yes
  <2> QED BY <1>3, <2>1, <2>2 DEF Runs
<1>9. CASE PolicyFails \/ DecideLocally
  <2>1. step.at = "policy" /\ run.status = "running" /\ run.boundary = None
    BY <1>1, <1>9 DEF PolicyFails, DecideLocally, PlaceAgrees, Turn
  <2>2. PICK status \in Resumable \cup Ended : CloseStep(SameWorld(status), TRUE)
    BY <1>9 DEF PolicyFails, DecideLocally, Ended
  <2> DEFINE s == SameWorld(status)
             yes == TRUE
  <2>3. s \in Result /\ s.boundary = None /\ yes \in BOOLEAN /\ CloseStep(s, yes)
    BY <1>1, <2>2, ResultsAre
  <2> HIDE DEF s, yes
  <2> QED BY <1>3, <2>1, <2>3
<1>10. CASE StopAfterPolicy
  <2>1. step.at = "policy" /\ run.status = "running" /\ run.boundary = None
    BY <1>1, <1>10 DEF StopAfterPolicy, PlaceAgrees, Turn
  <2>2. control.pending # None /\ Good(control)
    BY <1>10, OpenRun DEF StopAfterPolicy
  <2> DEFINE o == Preview(control, "after_policy")
             status == IF control.pending.kind = "cancel" THEN "cancelled" ELSE "running"
             t == [SameWorld(status) EXCEPT !.boundary = o]
             u == SameWorld("running")
             yes == TRUE
  <2>3. \/ Commit(Acknowledged(control, "after_policy"), t, yes, yes)
        \/ Commit(FailedPending(control), u, yes, yes)
    BY <1>10 DEF StopAfterPolicy
  <2>4. t \in Result /\ u \in Result /\ yes \in BOOLEAN
    <3>1. o \in Outcome
      BY <2>2, AcknowledgedParts DEF Boundaries
    <3>2. status \in Resumable \cup Ended
      BY DEF Resumable, Ended
    <3>3. SameWorld(status) \in Result /\ u \in Result
      BY <1>1, <3>2, ResultsAre DEF Resumable
    <3> HIDE DEF o, status
    <3>4. t \in Result
      BY <3>1, <3>3 DEF Result
    <3> QED BY <3>3, <3>4
  <2> HIDE DEF t, u, yes
  <2>5. /\ step'.at \in {"top", "raised"}
        /\ step'.at = "top" => run'.status # "none"
        /\ step'.at = "raised" => run' = run
        /\ run'.execs \in {run.execs, run.execs + 1}
    BY <1>1, <2>3, <2>4, CommitNames
  <2> QED BY <2>1, <2>5 DEF RaisedShape, LeavesNamed
<1>11. CASE DecideToCall \/ Cross \/ ExecuteSent
  BY <1>1, <1>11 DEF DecideToCall, CallEnvironment, Cross, ExecuteSent,
     RaisedShape, Step, LeavesNamed
<1>12. CASE ExecuteNotSent \/ ExecuteCancelled \/ AfterDispatch \/ ObserveReturns \/ FinalizeReturns
  <2>1. /\ step.at \in {"execute", "after", "observe", "finalize"}
        /\ run.status = "running" /\ run.boundary = None
    BY <1>1, <1>12 DEF ExecuteNotSent, ExecuteCancelled, AfterDispatch,
       ObserveReturns, FinalizeReturns, PlaceAgrees, Turn
  <2>2. \/ CallEnvironment("observe")
        \/ \E s \in Result, consume \in BOOLEAN : s.boundary = None /\ CloseStep(s, consume)
    BY <1>12, ClosedResults
  <2>3. CASE CallEnvironment("observe")
    BY <1>1, <2>1, <2>3 DEF CallEnvironment, RaisedShape, Step, LeavesNamed
  <2> QED BY <1>3, <2>1, <2>2, <2>3
<1>13. CASE ObserveRaises
  BY <1>1, <1>13 DEF ObserveRaises, GoTo, RaisedShape, PlaceAgrees, Turn, LeavesNamed
<1>14. CASE AnswerReturns
  <2>1. PICK s \in {Evaluated(v) : v \in Verdicts} \cup {SameWorld("waiting_user")} :
          run' = Applied(LeftWaiting(run), s, FALSE)
    BY <1>14 DEF AnswerReturns
  <2>2. run'.status = s.status /\ s.status # "none" /\ run'.execs = run.execs
    BY <1>1, <2>1 DEF Applied, LeftWaiting, Evaluated, SameWorld, Verdicts, Run
  <2> QED BY <1>14, <2>2 DEF AnswerReturns, GoTo, RaisedShape, LeavesNamed
<1>15. CASE AnswerRaises
  <2>1. /\ step.at = "answer" /\ run.status = "waiting_user" /\ run.boundary = None
        /\ step.dispatch = "not_sent"
    BY <1>1, <1>15 DEF AnswerRaises, PlaceAgrees, Balanced
  <2>2. sent = run.execs /\ control.paused = None
    BY <1>1, <2>1 DEF Balanced, InFlight, PauseAgrees, AtPause
  <2> QED BY <1>15, <2>1, <2>2 DEF AnswerRaises, GoTo, RaisedShape, LeavesNamed
<1> QED BY <1>4, <1>5, <1>6, <1>7, <1>8, <1>9, <1>10, <1>11, <1>12, <1>13, <1>14, <1>15
        DEF LoopStep
-----------------------------------------------------------------------------
(* The session around the loop.                                            *)

\* Which mode a live session is in, by what can be seen of it.
LEMMA Modes ==
    ASSUME SessionInv, live
    PROVE  /\ Whole \/ Held \/ Lost
           /\ session.active \/ settle # "none" \/ step.at # "returned" => Whole
           /\ run.status \notin {"paused", "running"} => Whole
           /\ run.status = "paused" => Held
           /\ UserHolds /\ run.status # "paused" => Whole
           /\ lock \in {"pause", "return"} => Whole
           /\ lock \in {"resumed", "granted"} => Held
<1>1. Whole \/ Held \/ Lost
  BY DEF SessionInv
<1>2. Held => /\ run.status = "paused" /\ lock \in {"free", "takeover", "resumed", "granted"}
              /\ ~session.active /\ settle = "none" /\ step.at = "returned"
  BY DEF Held, Still
<1>3. Lost => /\ run.status = "running" /\ lock \in {"free", "takeover"} /\ ~UserHolds
              /\ ~session.active /\ settle = "none" /\ step.at = "returned"
  <2>1. SessionTypeOK
    BY DEF SessionInv
  <2> QED BY <2>1 DEF Lost, Still, AgentHolds, UserHolds, SessionTypeOK, Session
<1>4. Whole => run.status # "paused" /\ lock \notin {"resumed", "granted"}
  BY DEF Whole, LoopInv, PlaceAgrees, Work
<1> QED BY <1>1, <1>2, <1>3, <1>4

\* The types of a session's parts.
LEMMA SessionParts ==
    ASSUME SessionInv
    PROVE  /\ session \in Session /\ settle \in SettlePhases /\ lock \in LockPhases
           /\ store \in Store /\ live \in BOOLEAN
           /\ run \in Run /\ run.remaining <= MaxTurns /\ step \in Step /\ sent \in Nat
           /\ control \in Control /\ Good(control)
           /\ session.status \in PublicStatuses /\ session.active \in BOOLEAN
           /\ session.checkpoint \in Nat /\ session.owner \in {"agent", "user"}
           /\ session.returning \in BOOLEAN
           /\ store.saved \in SUBSET Facts /\ store.resumed \in SUBSET Nat
           /\ IsFiniteSet(store.saved) /\ IsFiniteSet(store.resumed)
<1>1. SessionTypeOK /\ Good(control) /\ Saved
  BY DEF SessionInv
<1> QED BY <1>1 DEF SessionTypeOK, LoopTypeOK, Session, Store, Saved

\* What the end of a runner leaves of the session.
LEMMA RunnerEndsParts ==
    ASSUME NEW s \in Session, NEW status \in PublicStatuses
    PROVE  LET e == RunnerEnds(s, status)
           IN  /\ e \in Session /\ e.status = status /\ ~e.active
               /\ e.checkpoint = s.checkpoint /\ e.owner = s.owner
               /\ e.returning = s.returning /\ e.closed = s.closed
BY DEF RunnerEnds, Session

\* The same of its start.
LEMMA RunnerStartsParts ==
    ASSUME NEW s \in Session
    PROVE  LET e == RunnerStarts(s)
           IN  /\ e \in Session /\ e.status = "running" /\ e.active
               /\ e.checkpoint = s.checkpoint /\ e.owner = s.owner
               /\ e.returning = s.returning /\ e.cleaned = s.cleaned
<1>1. "running" \in PublicStatuses /\ TRUE \in BOOLEAN
  BY DEF PublicStatuses, Resumable
<1> QED BY <1>1 DEF RunnerStarts, Session

\* While the store and the number of effects stay, so does what they say.
LEMMA SavedStays ==
    ASSUME SessionInv, store' = store, sent' = sent
    PROVE  Saved' /\ store' \in Store
BY DEF SessionInv, SessionTypeOK, Saved

\* A store without recoverable checkpoints.
LEMMA SavedEmpty ==
    ASSUME SessionInv, store.saved = {}, store' = store
    PROVE  Saved' /\ store' \in Store
BY DEF SessionInv, SessionTypeOK, Saved

\* How the invariant is put together again, in each mode.
LEMMA WholeAgain ==
    ASSUME Saved', store' \in Store, session' \in Session, settle' \in SettlePhases,
           lock' \in LockPhases, live' = TRUE, Whole'
    PROVE  SessionInv'
<1>1. LoopTypeOK' /\ Good(control')
  BY DEF Whole, LoopInv
<1> QED BY <1>1 DEF SessionInv, SessionTypeOK

LEMMA ModeAgain ==
    ASSUME Saved', store' \in Store, session' \in Session, settle' \in SettlePhases,
           lock' \in LockPhases, live' = TRUE, Held' \/ Lost',
           Good(control'), run' \in Run, run'.remaining <= MaxTurns,
           step' \in Step, sent' \in Nat
    PROVE  SessionInv'
<1>1. LoopTypeOK'
  BY DEF LoopTypeOK, Good
<1> QED BY <1>1 DEF SessionInv, SessionTypeOK

\* A session whose loop and store rest, with nobody holding it for the user.
LEMMA AgentRests ==
    ASSUME SessionInv, LoopInv', step'.at = "returned", session' \in Session,
           ~session'.active, AgentHolds', settle' = "none", live' = TRUE,
           lock' \in {"free", "takeover"}, run'.status = "none" => session'.status \in {"idle", "running", "failed"},
           store' = store, sent' = sent,
           store.saved = {} \/ run'.status = "cancelled"
    PROVE  SessionInv'
<1>1. Saved' /\ store' \in Store
  BY SavedStays
<1>2. step'.dispatch = "not_sent"
  BY DEF LoopInv, Balanced
<1>3. RaisedShape'
  BY DEF RaisedShape
<1>4. Work'
  BY DEF Work, AgentHolds, LockPhases
<1>5. Settling' /\ Lease' /\ Kept'
  BY <1>2 DEF Settling, Lease, UserHolds, AgentHolds, Kept, Still
<1> QED BY <1>1, <1>3, <1>4, <1>5, WholeAgain DEF Whole, SettlePhases, LockPhases

-----------------------------------------------------------------------------
(* The runner's actions.                                                   *)

\* The loop's own steps, in the runner (RunnerSteps).
LEMMA RunnerStepsKeeps ==
    ASSUME SessionInv, RunnerSteps
    PROVE  SessionInv'
<1>1. /\ live /\ LoopStep /\ session' = session /\ settle' = settle
      /\ lock' = lock /\ store' = store /\ live' = live
  BY DEF RunnerSteps, sessionOnly
<1>2. step.at \in Awaits \cup {"top"}
  BY <1>1, LoopStepFrom
<1>3. Whole
  BY <1>1, <1>2, Modes DEF Awaits, Turn
<1>4. /\ session.active /\ AgentHolds /\ lock \in {"free", "takeover"}
      /\ settle \in {"none", "continued"} /\ store.saved = {}
      /\ session.status = "running"
      /\ run.status = "none" => step.at = "start"
  BY <1>2, <1>3, SessionParts DEF Whole, Work, Settling, Kept, Still, Awaits, Turn, SettlePhases
<1>5. LoopInv' /\ step'.at # "idle" /\ RaisedShape' /\ LeavesNamed
  BY <1>1, <1>3, <1>4, LoopStepKeeps, LoopStepRaises DEF Whole
<1>6. run'.status = "none" => step'.at \in {"start", "raised"}
  <2>1. step' \in Step /\ PlaceAgrees'
    BY <1>5 DEF LoopInv, LoopTypeOK
  <2> QED BY <1>5, <2>1 DEF LeavesNamed, Step, PlaceAgrees, Awaits, Outside, Turn
<1>7. Work' /\ Settling' /\ Lease' /\ Kept'
  BY <1>1, <1>2, <1>3, <1>4, <1>5, <1>6
  DEF Whole, Work, Settling, Lease, Kept, AgentHolds, UserHolds, Awaits, Turn
<1>8. Saved' /\ store' \in Store
  BY <1>1, <1>4, SavedEmpty
<1> QED BY <1>1, <1>5, <1>7, <1>8, SessionParts, WholeAgain DEF Whole

\* RunnerSettles and RunnerReturns: the loop has returned to its runner.
LEMMA RunnerReturnsKeeps ==
    ASSUME SessionInv, RunnerSettles \/ RunnerReturns
    PROVE  SessionInv'
<1>1. /\ live /\ session.active /\ step.at = "returned" /\ settle \in {"none", "continued"}
      /\ control' = control /\ run' = run /\ step' = step /\ sent' = sent
      /\ lock' = lock /\ store' = store /\ live' = live
  BY DEF RunnerSettles, RunnerReturns, NeedsSettling, loopVars
<1>2. Whole
  BY <1>1, Modes
<1>3. /\ AgentHolds /\ lock \in {"free", "takeover"} /\ session.status = "running"
      /\ store.saved = {} /\ run.status # "none"
  BY <1>1, <1>2 DEF Whole, Work, Kept, Still
<1>4. LoopInv'
  BY <1>1, <1>2, LoopRests DEF Whole
<1>5. CASE RunnerSettles
  <2>1. settle' = "commit" /\ session' = session /\ AtPause(run)
    BY <1>5 DEF RunnerSettles, NeedsSettling
  <2>2. Saved' /\ store' \in Store
    BY <1>1, SavedStays
  <2>3. RaisedShape' /\ Work' /\ Settling' /\ Lease' /\ Kept'
    BY <1>1, <1>2, <1>3, <2>1
    DEF Whole, RaisedShape, Work, Settling, Lease, Kept, AgentHolds, UserHolds, AtPause
  <2> QED BY <1>1, <1>4, <2>1, <2>2, <2>3, SessionParts, WholeAgain DEF Whole, SettlePhases
<1>6. CASE RunnerReturns
  <2> DEFINE status == IF AtPause(run) THEN session.status ELSE run.status
  <2>1. session' = RunnerEnds(session, status) /\ settle' = "none"
    BY <1>6 DEF RunnerReturns
  <2>2. status \in PublicStatuses
    BY <1>3, SessionParts DEF Run, PublicStatuses
  <2>3. session' \in Session /\ ~session'.active /\ AgentHolds'
    <3> HIDE DEF status
    <3> QED BY <1>3, <2>1, <2>2, SessionParts, RunnerEndsParts DEF AgentHolds
  <2> QED BY <1>1, <1>3, <1>4, <2>1, <2>3, AgentRests
<1> QED BY <1>5, <1>6

\* An exception has left the loop (RunnerFails).
LEMMA RunnerFailsKeeps ==
    ASSUME SessionInv, RunnerFails
    PROVE  SessionInv'
<1>1. /\ live /\ session.active /\ step.at = "raised" /\ GoTo("returned")
      /\ session' = RunnerEnds(session, "failed") /\ settle' = "none"
      /\ control' = control /\ run' = run /\ sent' = sent
      /\ lock' = lock /\ store' = store /\ live' = live
  BY DEF RunnerFails
<1>2. Whole
  BY <1>1, Modes
<1>3. /\ AgentHolds /\ lock \in {"free", "takeover"} /\ store.saved = {}
  BY <1>1, <1>2 DEF Whole, Work, Kept, Still, Settling
<1>4. step' \in Step /\ step'.at = "returned" /\ step'.dispatch = "not_sent"
  BY <1>1, Going DEF Outside
<1>5. session' \in Session /\ ~session'.active /\ AgentHolds' /\ session'.status = "failed"
  BY <1>1, <1>3, SessionParts, RunnerEndsParts DEF AgentHolds, PublicStatuses, Ended
<1>6. CASE run.status = "running"
  <2>1. Lost'
    BY <1>1, <1>2, <1>3, <1>4, <1>5, <1>6 DEF Whole, RaisedShape, Lost, Still
  <2>2. Saved' /\ store' \in Store
    BY <1>1, SavedStays
  <2> QED BY <1>1, <1>4, <1>5, <2>1, <2>2, SessionParts, ModeAgain DEF SettlePhases
<1>7. CASE run.status # "running"
  <2>1. /\ run.status \in {"none", "waiting_user"} /\ run.boundary = None
        /\ sent = run.execs /\ control.paused = None
    BY <1>1, <1>2, <1>7 DEF Whole, RaisedShape
  <2>2. ~Told(control)
    BY <1>2, <2>1, OpenRun DEF Whole
  <2>3. LoopInv'
    BY <1>1, <1>4, <2>1, <2>2, SessionParts, RestIsWhole DEF AtPause
  <2> QED BY <1>1, <1>3, <1>4, <1>5, <2>1, <2>3, AgentRests
<1> QED BY <1>6, <1>7
-----------------------------------------------------------------------------
(* Settling a pause (_settle_pause_boundary).                              *)

\* The facts of a run at rest, as a checkpoint.
LEMMA FactsParts ==
    ASSUME NEW r \in Run, r.status \in Resumable, r.boundary \in Outcome, NEW id \in Nat
    PROVE  /\ FactsOf(r, id) \in Facts
           /\ FactsOf(r, id).id = id /\ FactsOf(r, id).status = r.status
           /\ FactsOf(r, id).boundary = r.boundary
           /\ FactsOf(r, id).remaining = r.remaining /\ FactsOf(r, id).execs = r.execs
BY DEF FactsOf, Facts, Run

\* The pause a run stands at.
LEMMA PauseParts ==
    ASSUME Good(control), run \in Run, AtPause(run), control.paused = run.boundary
    PROVE  /\ run.boundary \in Outcome /\ run.boundary # None /\ control.paused # None
           /\ run.boundary.kind = "pause"
           /\ run.boundary.answer = "pause_boundary_reached"
BY NoneAssumption DEF AtPause, Run, Good

\* The checkpoint becomes durable (CommitPause).
LEMMA CommitPauseKeeps ==
    ASSUME SessionInv, CommitPause
    PROVE  SessionInv'
<1>1. /\ live /\ settle = "commit" /\ settle' = "committed"
      /\ store' = [store EXCEPT !.saved = @ \cup {FactsOf(run, LastCheckpoint + 1)}]
      /\ control' = control /\ run' = run /\ step' = step /\ sent' = sent
      /\ session' = session /\ lock' = lock /\ live' = live
  BY DEF CommitPause, loopVars
<1>2. Whole /\ Settling /\ Kept /\ LoopInv
  BY <1>1, Modes DEF Whole
<1>3. step.at = "returned" /\ AtPause(run) /\ AgentHolds
  BY <1>1, <1>2 DEF Settling
<1>4. /\ Good(control) /\ run \in Run /\ run.remaining <= MaxTurns /\ sent = run.execs
      /\ run.status \in Resumable /\ control.paused = run.boundary
  BY <1>2, <1>3, RestParts
<1>5. /\ run.boundary \in Outcome /\ run.boundary # None
      /\ run.boundary.kind = "pause" /\ run.boundary.answer = "pause_boundary_reached"
  BY <1>3, <1>4, PauseParts
<1>6. store.saved = {}
  BY <1>1, <1>2, <1>4 DEF Kept, Still, Resumable
<1> DEFINE last == LastCheckpoint
           f == FactsOf(run, last + 1)
<1>7. last = Cardinality(store.resumed) /\ last \in Nat
  BY <1>6, FS_EmptySet, FS_CardinalityType, SessionParts DEF LastCheckpoint
<1>8. /\ f \in Facts /\ f.execs = sent /\ f.remaining <= MaxTurns
      /\ f.boundary.kind = "pause" /\ f.boundary.answer = "pause_boundary_reached"
  BY <1>4, <1>5, <1>7, FactsParts
<1>9. store'.saved = {f} /\ store'.resumed = store.resumed /\ store' \in Store
  <2> HIDE DEF f
  <2>1. store' = [store EXCEPT !.saved = {f}]
    BY <1>1, <1>6 DEF f
  <2> QED BY <2>1, <1>8, SessionParts DEF Store
<1>10. f = FactsOf(run', LastCheckpoint')
  <2>1. LastCheckpoint' = 1 + Cardinality(store.resumed)
    <3> HIDE DEF f
    <3> QED BY <1>9, FS_Singleton DEF LastCheckpoint
  <2>2. LastCheckpoint' = last + 1
    BY <1>7, <2>1
  <2> QED BY <1>1, <2>2
<1>11. Saved'
  <2> HIDE DEF f
  <2> QED BY <1>1, <1>8, <1>9, FS_Singleton, SessionParts DEF Saved
<1>12. LoopInv'
  BY <1>1, <1>2, LoopRests
<1>13. RaisedShape' /\ Work'
  BY <1>1, <1>2 DEF Whole, RaisedShape, Work, AgentHolds, AtPause
<1>14. Settling'
  <2> HIDE DEF f
  <2> QED BY <1>1, <1>2, <1>3, <1>9, <1>10 DEF Settling, AgentHolds, AtPause
<1>15. Lease' /\ Kept'
  BY <1>1, <1>3 DEF Lease, Kept, AgentHolds, UserHolds
<1> HIDE DEF f, last
<1> QED BY <1>1, <1>9, <1>11, <1>12, <1>13, <1>14, <1>15, SessionParts, WholeAgain
        DEF Whole, SettlePhases

\* What a durable pause makes of the run.
LEMMA PausedParts ==
    ASSUME NEW r \in Run, r.status \in Resumable, NEW id \in Nat
    PROVE  LET p == DurablyPaused(r, id)
           IN  /\ p \in Run /\ p.status = "paused" /\ p.pausedFrom = r.status
               /\ p.checkpoint = id /\ p.boundary = r.boundary
               /\ p.execs = r.execs /\ p.remaining = r.remaining
               /\ FactsOf([p EXCEPT !.status = p.pausedFrom], p.checkpoint) = FactsOf(r, id)
BY DEF DurablyPaused, Run, FactsOf, Resumable

\* Its answer arrives (PauseCommitted): the session is paused.
LEMMA PauseCommittedKeeps ==
    ASSUME SessionInv, PauseCommitted
    PROVE  SessionInv'
<1> DEFINE last == LastCheckpoint
           paused == [session EXCEPT !.checkpoint = last, !.eligible = TRUE]
<1>1. /\ live /\ settle = "committed" /\ settle' = "none"
      /\ run' = DurablyPaused(run, last)
      /\ session' = IF session.active THEN RunnerEnds(paused, "paused")
                    ELSE [paused EXCEPT !.status = "paused"]
      /\ lock' = IF lock = "pause" THEN "free" ELSE lock
      /\ control' = control /\ step' = step /\ sent' = sent /\ store' = store
      /\ live' = live
  BY DEF PauseCommitted
<1>2. Whole /\ Settling /\ LoopInv /\ Work
  BY <1>1, Modes DEF Whole
<1>3. /\ step.at = "returned" /\ AtPause(run) /\ AgentHolds
      /\ store.saved = {FactsOf(run, last)}
      /\ lock \in {"free", "takeover", "pause"}
  BY <1>1, <1>2 DEF Settling, Work
<1>4. /\ Good(control) /\ run \in Run /\ run.remaining <= MaxTurns /\ sent = run.execs
      /\ step.dispatch = "not_sent"
      /\ run.status \in Resumable /\ control.paused = run.boundary
      /\ Told(control) => run.status = "cancelled"
  BY <1>2, <1>3, RestParts
<1>5. last \in Nat
  <2>1. Cardinality(store.saved) \in Nat /\ Cardinality(store.resumed) \in Nat
    BY FS_CardinalityType, SessionParts
  <2> QED BY <2>1 DEF LastCheckpoint
<1>6. ~Told(control')
  BY <1>1, <1>4 DEF Told, Resumable, Waiting
<1>7. paused \in Session /\ paused.checkpoint = last /\ paused.owner = session.owner
      /\ paused.returning = session.returning /\ paused.active = session.active
  <2> HIDE DEF last
  <2> QED BY <1>5, SessionParts DEF Session
<1> HIDE DEF last
<1>8. /\ session' \in Session /\ ~session'.active /\ session'.checkpoint = last
      /\ AgentHolds'
  <2> HIDE DEF paused
  <2>1. "paused" \in PublicStatuses
    BY DEF PublicStatuses
  <2>2. CASE session.active
    BY <1>1, <1>3, <1>7, <2>1, <2>2, RunnerEndsParts DEF AgentHolds
  <2>3. CASE ~session.active
    BY <1>1, <1>3, <1>7, <2>1, <2>3 DEF AgentHolds, Session
  <2> QED BY <2>2, <2>3
<1>9. /\ run' \in Run /\ run'.status = "paused" /\ run'.pausedFrom = run.status
      /\ run'.checkpoint = last /\ run'.boundary = run.boundary
      /\ run'.execs = run.execs /\ run'.remaining = run.remaining
      /\ PausedFacts' = FactsOf(run, last)
  BY <1>1, <1>4, <1>5, PausedParts DEF PausedFacts
<1>10. Held'
  <2>1. Still' /\ AtPause(run') /\ control'.paused = run'.boundary /\ sent' = run'.execs
    BY <1>1, <1>3, <1>4, <1>8, <1>9 DEF Still, AtPause
  <2>2. lock' \in {"free", "takeover"} /\ ~Consuming' /\ session'.owner = "agent" /\ ~session'.returning
    BY <1>1, <1>3, <1>8 DEF AgentHolds, Consuming
  <2>3. store'.saved = {PausedFacts'}
    BY <1>1, <1>3, <1>9
  <2> QED BY <1>4, <1>6, <1>8, <1>9, <2>1, <2>2, <2>3 DEF Held
<1>11. Saved' /\ store' \in Store
  BY <1>1, SavedStays
<1> QED BY <1>1, <1>3, <1>4, <1>8, <1>9, <1>10, <1>11, SessionParts, ModeAgain
        DEF SettlePhases, LockPhases
\* A run at a pause that is not durable leaves it.
LEMMA LeftBoundaryParts ==
    ASSUME NEW r \in Run, r.status # "paused"
    PROVE  LET p == BoundaryResumed(r)
           IN  /\ p \in Run /\ p.status = r.status /\ p.boundary = None
               /\ p.execs = r.execs /\ p.remaining = r.remaining
BY DEF BoundaryResumed, Run

\* The history or the transaction fails (PersistenceFails).
LEMMA PersistenceFailsKeeps ==
    ASSUME SessionInv, PersistenceFails
    PROVE  SessionInv'
<1>1. /\ live /\ settle = "commit"
      /\ run' = BoundaryResumed(run)
      /\ step' = step /\ sent' = sent /\ store' = store /\ live' = live
  BY DEF PersistenceFails
<1>2. PICK i \in CommandIds : ~Known(control, i) /\ control' = Resumed(control, i)
  BY DEF PersistenceFails
<1>3. Whole /\ Settling /\ Kept /\ LoopInv /\ Work
  BY <1>1, Modes DEF Whole
<1>4. /\ step.at = "returned" /\ AtPause(run) /\ AgentHolds /\ store.saved = {}
      /\ \/ session.active
         \/ run.status \in Waiting /\ lock \in {"pause", "takeover"}
      /\ session.active => session.status = "running" /\ lock \in {"free", "takeover"}
  BY <1>1, <1>3 DEF Settling, Kept, Still, Work
<1>5. /\ Good(control) /\ run \in Run /\ run.remaining <= MaxTurns /\ sent = run.execs
      /\ step \in Step /\ step.dispatch = "not_sent" /\ sent \in Nat
      /\ run.status \in Resumable /\ run.status # "paused" /\ control.paused # None
      /\ Told(control) => run.status = "cancelled"
  BY <1>3, <1>4, RestParts
<1>6. /\ run' \in Run /\ run'.status = run.status /\ run'.boundary = None
      /\ run'.execs = run.execs /\ run'.remaining = run.remaining
  BY <1>1, <1>5, LeftBoundaryParts
<1>7. Good(control') /\ control'.paused = None /\ (Told(control') => Told(control))
  BY <1>2, <1>5, ResumedParts
<1>8. LoopInv'
  BY <1>1, <1>4, <1>5, <1>6, <1>7, RestIsWhole DEF AtPause
<1>9. CASE run.status = "running"
  <2>1. settle' = "refresh" /\ session' = session /\ lock' = lock /\ session.active
    BY <1>1, <1>4, <1>6, <1>9 DEF PersistenceFails, Waiting
  <2>2. Saved' /\ store' \in Store
    BY <1>1, SavedStays
  <2>3. RaisedShape' /\ Work' /\ Settling' /\ Lease' /\ Kept'
    BY <1>1, <1>3, <1>4, <1>6, <1>9, <2>1
    DEF Whole, RaisedShape, Work, Settling, Lease, Kept, AgentHolds, UserHolds
  <2> QED BY <1>1, <1>8, <2>1, <2>2, <2>3, SessionParts, WholeAgain DEF Whole, SettlePhases
<1>10. CASE run.status # "running"
  <2>1. /\ settle' = "none"
        /\ session' = IF session.active THEN RunnerEnds(session, "running")
                                        ELSE [session EXCEPT !.status = "running"]
        /\ lock' = IF lock = "pause" THEN "free" ELSE lock
    BY <1>6, <1>10 DEF PersistenceFails
  <2>2. session' \in Session /\ ~session'.active /\ AgentHolds' /\ lock' \in {"free", "takeover"}
    <3>1. "running" \in PublicStatuses
      BY DEF PublicStatuses, Resumable
    <3>2. CASE session.active
      BY <1>4, <2>1, <3>1, <3>2, SessionParts, RunnerEndsParts DEF AgentHolds
    <3>3. CASE ~session.active
      BY <1>4, <2>1, <3>1, <3>3, SessionParts DEF AgentHolds, Session
    <3> QED BY <3>2, <3>3
  <2>3. run'.status # "none"
    BY <1>5, <1>6 DEF Resumable, Waiting
  <2> QED BY <1>1, <1>4, <1>8, <2>1, <2>2, <2>3, AgentRests
<1> QED BY <1>9, <1>10

\* What a fresh verdict makes of a run: it changes the status alone.
LEMMA EvaluatedParts ==
    ASSUME NEW r \in Run, r.remaining <= MaxTurns, run \in Run, NEW v \in Verdicts
    PROVE  LET e == Applied(r, Evaluated(v), FALSE)
           IN  /\ e \in Run /\ e.status = v /\ e.remaining <= MaxTurns
               /\ e.boundary = r.boundary /\ e.execs = r.execs
<1> DEFINE s == Evaluated(v)
           no == FALSE
<1>1. s \in Result /\ s.boundary = None /\ s.dispatch = "not_sent" /\ s.status = v /\ no \in BOOLEAN
  BY ResultsAre
<1> HIDE DEF s, no
<1>2. LET e == Applied(r, s, no)
      IN  /\ e \in Run /\ e.status = v /\ e.remaining <= MaxTurns
          /\ e.boundary = r.boundary /\ e.execs = r.execs
  BY <1>1, AppliedParts
<1> QED BY <1>2 DEF s, no

\* The fresh world after a failed persistence, or none (RefreshReturns,
\* RefreshFails).
LEMMA RefreshKeeps ==
    ASSUME SessionInv, RefreshReturns \/ RefreshFails
    PROVE  SessionInv'
<1>1. /\ live /\ settle = "refresh"
      /\ control' = control /\ sent' = sent /\ store' = store /\ lock' = lock /\ live' = live
  BY DEF RefreshReturns, RefreshFails, loopVars
<1>2. Whole /\ Settling /\ Kept /\ LoopInv /\ Work
  BY <1>1, Modes DEF Whole
<1>3. /\ session.active /\ step.at = "returned" /\ run.status = "running" /\ run.boundary = None
      /\ AgentHolds /\ store.saved = {} /\ lock \in {"free", "takeover"}
      /\ session.status = "running"
  BY <1>1, <1>2 DEF Settling, Kept, Still, Work
<1>4. /\ Good(control) /\ run \in Run /\ run.remaining <= MaxTurns /\ sent = run.execs
      /\ step \in Step /\ step.dispatch = "not_sent" /\ sent \in Nat
      /\ control.paused = None /\ ~Told(control)
  BY <1>2, <1>3, RestParts DEF AtPause
<1>5. ASSUME NEW s \in PublicStatuses, session' = RunnerEnds(session, s)
      PROVE  session' \in Session /\ ~session'.active /\ AgentHolds'
  BY <1>3, <1>5, SessionParts, RunnerEndsParts DEF AgentHolds
<1>6. "running" \in PublicStatuses /\ "failed" \in PublicStatuses
  BY DEF PublicStatuses, Resumable, Ended
<1>7. Saved' /\ store' \in Store
  BY <1>1, SavedStays
<1>8. CASE RefreshReturns
  <2>1. PICK v \in Verdicts :
            /\ run' = Applied(run, Evaluated(v), FALSE)
            /\ IF v = "running"
               THEN GoTo("top") /\ settle' = "continued" /\ UNCHANGED session
               ELSE /\ settle' = "none"
                    /\ session' = RunnerEnds(session, "running")
                    /\ UNCHANGED step
    BY <1>8 DEF RefreshReturns
  <2>2. /\ run' \in Run /\ run'.status = v /\ run'.remaining <= MaxTurns
        /\ run'.boundary = None /\ run'.execs = run.execs
    BY <1>3, <1>4, <2>1, EvaluatedParts
  <2>3. step' \in Step /\ step'.at \in {"top", "returned"} /\ step'.dispatch = "not_sent"
    BY <1>3, <1>4, <2>1, Going
  <2>4. v # "paused" /\ v # "none"
    BY DEF Verdicts
  <2>5. LoopInv'
    BY <1>1, <1>4, <2>2, <2>3, <2>4, RestIsWhole DEF AtPause, Told
  <2>6. CASE v = "running"
    <3>1. step'.at = "top" /\ settle' = "continued" /\ session' = session
      BY <2>1, <2>6, Going
    <3>2. RaisedShape' /\ Work' /\ Settling' /\ Lease' /\ Kept'
      BY <1>1, <1>2, <1>3, <2>2, <2>4, <3>1
      DEF Whole, RaisedShape, Work, Settling, Lease, Kept, AgentHolds, UserHolds
    <3> QED BY <1>1, <1>7, <2>5, <3>1, <3>2, SessionParts, WholeAgain DEF Whole, SettlePhases
  <2>7. CASE v # "running"
    <3>1. settle' = "none" /\ session' = RunnerEnds(session, "running") /\ step' = step
      BY <2>1, <2>7
    <3> QED BY <1>1, <1>3, <1>5, <1>6, <2>2, <2>4, <2>5, <3>1, AgentRests
  <2> QED BY <2>6, <2>7
<1>9. CASE RefreshFails
  <2>1. session' = RunnerEnds(session, "failed") /\ settle' = "none" /\ run' = run /\ step' = step
    BY <1>9 DEF RefreshFails, loopVars
  <2>2. session' \in Session /\ ~session'.active /\ AgentHolds'
    BY <1>5, <1>6, <2>1
  <2>3. Lost'
    BY <1>1, <1>3, <1>4, <2>1, <2>2 DEF Lost, Still, AgentHolds
  <2> QED BY <1>1, <1>3, <1>4, <1>7, <2>1, <2>2, <2>3, SessionParts, ModeAgain DEF SettlePhases
<1> QED BY <1>8, <1>9
-----------------------------------------------------------------------------
(* Consuming a checkpoint, and leaving a durable pause.                    *)

\* The checkpoint is consumed (commit_resume, in ResumeTask and TakeOverPaused).
LEMMA ConsumedKeeps ==
    ASSUME SessionInv, live, lock \in {"free", "takeover"}, session.owner = "agent",
           NEW phase \in {"resumed", "granted"}, Consumed(phase),
           UNCHANGED <<loopVars, session, settle, live>>
    PROVE  SessionInv'
<1>1. /\ control' = control /\ run' = run /\ step' = step /\ sent' = sent
      /\ session' = session /\ settle' = settle /\ live' = live /\ lock' = phase
      /\ run.status = "paused"
      /\ store' = [saved   |-> {f \in store.saved : f.id # session.checkpoint},
                   resumed |-> store.resumed \cup {session.checkpoint}]
  BY DEF Consumed, Consumable, loopVars
<1>2. Held
  BY <1>1, Modes
<1>3. store.saved = {PausedFacts} /\ session.checkpoint = run.checkpoint
  BY <1>2 DEF Held, Consuming
<1>4. PausedFacts.id = run.checkpoint
  BY DEF PausedFacts, FactsOf
<1>5. store'.saved = {} /\ store'.resumed = store.resumed \cup {run.checkpoint}
  BY <1>1, <1>3, <1>4
<1>6. IsFiniteSet(store'.saved) /\ IsFiniteSet(store'.resumed)
  <2>1. IsFiniteSet(store.resumed)
    BY SessionParts
  <2>2. IsFiniteSet(store.resumed \cup {run.checkpoint})
    BY ONLY <2>1, FS_AddElement
  <2> QED BY <1>5, <2>2, FS_EmptySet
<1>7. Saved' /\ store' \in Store
  <2>1. store' = [saved |-> {}, resumed |-> store.resumed \cup {run.checkpoint}]
    BY <1>1, <1>3, <1>5
  <2>2. run.checkpoint \in Nat
    BY <1>3, SessionParts
  <2> QED BY <1>5, <1>6, <2>1, <2>2, SessionParts DEF Saved, Store
<1>8. Held'
  BY <1>1, <1>2, <1>5 DEF Held, Still, Told, AtPause, Consuming
<1> QED BY <1>1, <1>7, <1>8, SessionParts, ModeAgain DEF LockPhases

\* The commands that consume one.
LEMMA TakenKeeps ==
    ASSUME SessionInv, ResumeTask \/ TakeOverPaused
    PROVE  SessionInv'
<1>1. CASE ResumeTask
  BY <1>1, ConsumedKeeps DEF ResumeTask, Admits
<1>2. CASE TakeOverPaused
  <2>1. Held
    BY <1>2, Modes DEF TakeOverPaused, Admits, Consumed, Consumable
  <2>2. live /\ lock \in {"free", "takeover"} /\ session.owner = "agent"
    BY <1>2, <2>1, SessionParts DEF TakeOverPaused, Admits, Held
  <2> QED BY <1>2, <2>2, ConsumedKeeps DEF TakeOverPaused
<1> QED BY <1>1, <1>2

\* The user holds the session, or the takeover gives up (TakeOverGranted,
\* TakeOverFails).
LEMMA TakeOverEndsKeeps ==
    ASSUME SessionInv, TakeOverGranted \/ TakeOverFails
    PROVE  SessionInv'
<1>1. /\ live /\ control' = control /\ run' = run /\ step' = step /\ sent' = sent
      /\ settle' = settle /\ store' = store /\ live' = live /\ lock' = "free"
  BY DEF TakeOverGranted, TakeOverFails, loopVars
<1>2. Saved' /\ store' \in Store /\ "free" \in LockPhases
  BY <1>1, SavedStays DEF LockPhases
<1>3. CASE TakeOverGranted
  <2>1. lock = "granted" /\ session' = [session EXCEPT !.owner = "user", !.eligible = FALSE]
    BY <1>3 DEF TakeOverGranted
  <2>2. Held
    BY <1>1, <2>1, Modes
  <2>3. /\ session' \in Session /\ session'.owner = "user" /\ session'.active = session.active
        /\ session'.checkpoint = session.checkpoint /\ session'.returning = session.returning
    BY <2>1, SessionParts DEF Session
  <2>4. Held'
    BY <1>1, <2>1, <2>2, <2>3 DEF Held, Still, Told, AtPause, Consuming, PausedFacts
  <2> QED BY <1>1, <1>2, <2>3, <2>4, SessionParts, ModeAgain
<1>4. CASE TakeOverFails
  <2>1. lock = "takeover" /\ ~session.active /\ settle = "none" /\ session' = session
    BY <1>4 DEF TakeOverFails
  <2>2. CASE Whole
    <3>1. LoopInv'
      BY <1>1, <2>2, LoopRests DEF Whole
    <3>2. Whole'
      BY <1>1, <2>1, <2>2, <3>1
      DEF Whole, RaisedShape, Work, Settling, Lease, Kept, Still, AgentHolds, UserHolds, LockPhases
    <3> QED BY <1>1, <1>2, <2>1, <3>2, SessionParts, WholeAgain
  <2>3. CASE Held
    <3>1. Held'
      BY <1>1, <2>1, <2>3 DEF Held, Still, Told, AtPause, Consuming, PausedFacts
    <3> QED BY <1>1, <1>2, <2>1, <3>1, SessionParts, ModeAgain
  <2>4. CASE Lost
    <3>1. Lost'
      BY <1>1, <2>1, <2>4 DEF Lost, Still, AgentHolds
    <3> QED BY <1>1, <1>2, <2>1, <3>1, SessionParts, ModeAgain
  <2> QED BY <1>1, <2>2, <2>3, <2>4, Modes
<1> QED BY <1>3, <1>4

\* The run that leaves a durable pause: it runs on, waits on, or ends with the
\* verdict of its evaluation.
LEMMA RunResumedParts ==
    ASSUME run \in Run, run.status = "paused", run.pausedFrom \in Resumable
    PROVE  /\ RunResumed \in Run
           /\ RunResumed.status \in Resumable \cup {"done", "blocked"}
           /\ RunResumed.boundary = None /\ RunResumed.checkpoint = 0
           /\ RunResumed.execs = run.execs /\ RunResumed.remaining = run.remaining
<1> DEFINE r == BoundaryResumed(run)
<1>1. /\ r \in Run /\ r.status = run.pausedFrom /\ r.boundary = None /\ r.checkpoint = 0
      /\ r.execs = run.execs /\ r.remaining = run.remaining
      /\ r.verdict \in Verdicts
  BY DEF BoundaryResumed, Run
<1>2. RunResumed = IF r.verdict = "running" THEN r ELSE [r EXCEPT !.status = r.verdict]
  BY DEF RunResumed
<1> HIDE DEF r
<1> QED BY <1>1, <1>2 DEF Run, Verdicts, Ended

\* The control owner and the run leave a held pause together.
LEMMA LeftPause ==
    ASSUME SessionInv, Held, ControlResumed, run' = RunResumed, sent' = sent,
           step' \in Step, step'.at \in {"top", "returned"}, step'.dispatch = "not_sent"
    PROVE  LoopInv'
<1>1. PICK i \in CommandIds : ~Known(control, i) /\ control' = Resumed(control, i)
  BY DEF ControlResumed
<1>2. control.paused # None /\ ~Told(control) /\ sent = run.execs
  BY SessionParts, PauseParts DEF Held
<1>3. Good(control') /\ control'.paused = None /\ ~Told(control')
  BY <1>1, <1>2, SessionParts, ResumedParts
<1>4. /\ run' \in Run /\ run'.status \in Resumable \cup {"done", "blocked"}
      /\ run'.boundary = None /\ run'.execs = run.execs /\ run'.remaining = run.remaining
  BY RunResumedParts, SessionParts DEF Held
<1>5. run'.status # "paused"
  BY <1>4 DEF Resumable, Waiting
<1> QED BY <1>2, <1>3, <1>4, <1>5, SessionParts, RestIsWhole DEF AtPause

\* The end of resume (ResumeCommitted).
LEMMA ResumeCommittedKeeps ==
    ASSUME SessionInv, ResumeCommitted
    PROVE  SessionInv'
<1>1. /\ live /\ lock = "resumed" /\ lock' = "free" /\ ControlResumed /\ run' = RunResumed
      /\ session' = [session EXCEPT !.eligible = FALSE,
                                    !.status   = RunResumed.status,
                                    !.active   = RunResumed.status = "running"]
      /\ IF RunResumed.status = "running" THEN GoTo("top") ELSE UNCHANGED step
      /\ sent' = sent /\ settle' = settle /\ store' = store /\ live' = live
  BY DEF ResumeCommitted
<1>2. Held
  BY <1>1, Modes
<1>3. /\ settle = "none" /\ store.saved = {} /\ AgentHolds /\ step.at = "returned"
      /\ step.dispatch = "not_sent"
  BY <1>1, <1>2, SessionParts DEF Held, Still, Consuming, AgentHolds
<1>4. RunResumed.status \in Resumable \cup {"done", "blocked"}
  BY <1>2, RunResumedParts, SessionParts DEF Held
<1>5. /\ session' \in Session /\ session'.status = RunResumed.status /\ AgentHolds'
      /\ session'.active <=> RunResumed.status = "running"
  <2>1. RunResumed.status \in PublicStatuses /\ (RunResumed.status = "running") \in BOOLEAN
    BY <1>4 DEF PublicStatuses, Ended
  <2> QED BY <1>1, <1>3, <2>1, SessionParts DEF Session, AgentHolds
<1>6. step' \in Step /\ step'.at \in {"top", "returned"} /\ step'.dispatch = "not_sent"
  BY <1>1, <1>3, SessionParts, Going
<1>7. LoopInv'
  BY <1>1, <1>2, <1>6, LeftPause
<1>8. RunResumed.status # "none" /\ RunResumed.status # "paused"
  BY <1>4 DEF Resumable, Waiting
<1>9. CASE RunResumed.status = "running"
  <2>1. step'.at = "top" /\ session'.active
    BY <1>1, <1>5, <1>9, Going
  <2>2. RaisedShape' /\ Work' /\ Settling' /\ Lease' /\ Kept'
    BY <1>1, <1>3, <1>5, <1>8, <1>9, <2>1
    DEF RaisedShape, Work, Settling, Lease, Kept, AgentHolds, UserHolds
  <2>3. Saved' /\ store' \in Store
    BY <1>1, SavedStays
  <2> QED BY <1>1, <1>5, <1>7, <2>2, <2>3, SessionParts, WholeAgain DEF Whole, LockPhases
<1>10. CASE RunResumed.status # "running"
  BY <1>1, <1>3, <1>5, <1>7, <1>8, <1>10, AgentRests
<1> QED BY <1>9, <1>10
-----------------------------------------------------------------------------
(* The user gives control back (return_control).                           *)

\* The transition out of a waiting status.
LEMMA LeftWaitingParts ==
    ASSUME NEW r \in Run
    PROVE  /\ LeftWaiting(r) \in Run /\ LeftWaiting(r).status = "running"
           /\ LeftWaiting(r).boundary = r.boundary
           /\ LeftWaiting(r).execs = r.execs /\ LeftWaiting(r).remaining = r.remaining
BY DEF LeftWaiting, Run, Resumable

\* Nothing changes at all.
LEMMA StutterKeeps ==
    ASSUME SessionInv, UNCHANGED vars
    PROVE  SessionInv'
<1>1. /\ control' = control /\ run' = run /\ step' = step /\ sent' = sent
      /\ session' = session /\ settle' = settle /\ lock' = lock /\ store' = store /\ live' = live
  BY DEF vars, loopVars, sessionOnly
<1>2. Saved' /\ store' \in Store
  BY <1>1, SavedStays
<1>3. CASE ~live
  BY <1>1, <1>2, <1>3 DEF SessionInv, SessionTypeOK, LoopTypeOK, Gone
<1>4. CASE live
  <2>1. CASE Whole
    <3>1. LoopInv'
      BY <1>1, <2>1, LoopRests DEF Whole
    <3>2. Whole'
      BY <1>1, <2>1, <3>1
      DEF Whole, RaisedShape, Work, Settling, Lease, Kept, Still, AgentHolds, UserHolds,
          LastCheckpoint
    <3> QED BY <1>1, <1>2, <1>4, <3>2, SessionParts, WholeAgain
  <2>2. CASE Held
    <3>1. Held'
      BY <1>1, <2>2 DEF Held, Still, Told, AtPause, Consuming, PausedFacts
    <3> QED BY <1>1, <1>2, <1>4, <3>1, SessionParts, ModeAgain
  <2>3. CASE Lost
    <3>1. Lost'
      BY <1>1, <2>3 DEF Lost, Still, AgentHolds
    <3> QED BY <1>1, <1>2, <1>4, <3>1, SessionParts, ModeAgain
  <2> QED BY <1>4, <2>1, <2>2, <2>3, Modes
<1> QED BY <1>3, <1>4, SessionParts

\* A session the user holds, or has just given back, around a loop at rest.
LEMMA UserRests ==
    ASSUME SessionInv, LoopInv', step'.at = "returned", session' \in Session, ~session'.active,
           settle' = "none", live' = TRUE, lock' \in {"free", "return"},
           UserHolds', session'.checkpoint \in store.resumed,
           run'.status \in {"running", "done", "blocked"},
           run'.status = "running" => run'.boundary = None,
           lock' = "return" <=> session'.returning,
           session'.returning => session'.owner = "agent" /\ run'.status = "running",
           store' = store, sent' = sent, store.saved = {}
    PROVE  SessionInv'
<1>1. Saved' /\ store' \in Store
  BY SavedStays
<1>2. step'.dispatch = "not_sent"
  BY DEF LoopInv, Balanced
<1>3. RaisedShape'
  BY DEF RaisedShape
<1>4. Work'
  BY DEF Work, LockPhases
<1>5. Settling' /\ Lease' /\ Kept'
  BY <1>2 DEF Settling, Lease, Kept, Still
<1> QED BY <1>1, <1>3, <1>4, <1>5, WholeAgain DEF Whole, SettlePhases, LockPhases

\* What a session that the user holds says of its run, when the loop is at rest.
LEMMA UserParts ==
    ASSUME SessionInv, live, UserHolds, run.status # "paused"
    PROVE  /\ Whole /\ LoopInv /\ Still /\ session.checkpoint \in store.resumed
           /\ run.status \in {"running", "done", "blocked"}
           /\ run.status = "running" => run.boundary = None
           /\ session.returning => session.owner = "agent" /\ run.status = "running"
           /\ lock = "return" <=> session.returning
           /\ store.saved = {}
<1>1. Whole
  BY Modes
<1> QED BY <1>1, SessionParts DEF Whole, Lease, UserHolds, Kept, AgentHolds, Work, Still

\* The user's lease is revoked, or the run cannot be refreshed (ReturnControl).
LEMMA ReturnControlKeeps ==
    ASSUME SessionInv, ReturnControl
    PROVE  SessionInv'
<1> DEFINE left == IF run.status = "paused" THEN RunResumed ELSE run
           given == [session EXCEPT !.owner = "agent", !.returning = TRUE]
<1>1. /\ live /\ lock = "free" /\ session.owner = "user" /\ UserHolds
      /\ IF run.status = "paused" THEN ControlResumed ELSE UNCHANGED control
      /\ IF MayRefresh(left)
         THEN run' = LeftWaiting(left) /\ lock' = "return" /\ session' = given
         ELSE run' = left /\ lock' = lock /\ session' = session
      /\ step' = step /\ sent' = sent /\ settle' = settle /\ store' = store /\ live' = live
  BY DEF ReturnControl, UserHolds
<1>2. /\ given \in Session /\ given.owner = "agent" /\ given.returning
      /\ given.active = session.active /\ given.checkpoint = session.checkpoint
  BY SessionParts DEF Session
<1> HIDE DEF given
<1>3. CASE run.status = "paused"
  <2>1. Held
    BY <1>1, <1>3, Modes
  <2>2. /\ Still /\ store.saved = {} /\ session.checkpoint \in store.resumed
        /\ sent = run.execs /\ ~session.returning
    BY <1>1, <2>1 DEF Held, Consuming
  <2>3. /\ left = RunResumed /\ left \in Run
        /\ left.status \in Resumable \cup {"done", "blocked"}
        /\ left.boundary = None /\ left.checkpoint = 0
        /\ left.execs = run.execs /\ left.remaining = run.remaining
    BY <1>3, <2>1, RunResumedParts, SessionParts DEF Held
  <2>4. PICK i \in CommandIds : ~Known(control, i) /\ control' = Resumed(control, i)
    BY <1>1, <1>3 DEF ControlResumed
  <2>5. control.paused # None /\ ~Told(control)
    BY <2>1, SessionParts, PauseParts DEF Held
  <2>6. Good(control') /\ control'.paused = None /\ ~Told(control')
    BY <2>4, <2>5, SessionParts, ResumedParts
  <2>7. /\ LeftWaiting(left) \in Run /\ LeftWaiting(left).status = "running"
        /\ LeftWaiting(left).boundary = None
        /\ LeftWaiting(left).execs = run.execs /\ LeftWaiting(left).remaining = run.remaining
    BY <2>3, LeftWaitingParts
  <2>8. MayRefresh(left) <=> left.status \in Resumable
    BY <2>3 DEF MayRefresh
  <2> HIDE DEF left
  <2>9. /\ run' \in Run /\ run'.boundary = None
        /\ run'.execs = run.execs /\ run'.remaining = run.remaining
        /\ run'.status \in {"running", "done", "blocked"}
        /\ MayRefresh(left) => run'.status = "running"
    BY <1>1, <2>3, <2>7, <2>8
  <2>10. run'.status # "paused"
    BY <2>9
  <2>11. LoopInv'
    BY <1>1, <2>2, <2>6, <2>9, <2>10, SessionParts, RestIsWhole DEF Still, AtPause
  <2>12. CASE MayRefresh(left)
    BY <1>1, <1>2, <2>2, <2>9, <2>11, <2>12, UserRests DEF UserHolds, Still
  <2>13. CASE ~MayRefresh(left)
    <3>1. session' = session /\ lock' = "free"
      BY <1>1, <2>13
    <3>2. UserHolds' /\ run'.status \in {"running", "done", "blocked"}
      BY <1>1, <2>9, <3>1 DEF UserHolds
    <3> QED BY <1>1, <2>2, <2>9, <2>11, <3>1, <3>2, SessionParts, UserRests DEF Still
  <2> QED BY <2>12, <2>13
<1>4. CASE run.status # "paused"
  <2>1. /\ left = run /\ control' = control
        /\ Whole /\ LoopInv /\ Still /\ session.checkpoint \in store.resumed
        /\ ~session.returning /\ store.saved = {}
        /\ run.status \in {"running", "done", "blocked"}
        /\ run.status = "running" => run.boundary = None
    BY <1>1, <1>4, UserParts
  <2>2. CASE MayRefresh(run)
    <3>1. run.status = "running" /\ run.boundary = None /\ step.at = "returned"
      BY <2>1, <2>2 DEF MayRefresh, Resumable, Waiting, Still
    <3>2. LeftWaiting(run) = run
      BY <3>1, SessionParts DEF LeftWaiting, Run
    <3>3. run' = run /\ lock' = "return" /\ session' = given
      BY <1>1, <2>1, <2>2, <3>2
    <3>4. LoopInv'
      BY <1>1, <2>1, <3>3, LoopRests
    <3> QED BY <1>1, <1>2, <2>1, <3>1, <3>3, <3>4, UserRests DEF UserHolds, Still
  <2>3. CASE ~MayRefresh(run)
    <3>1. UNCHANGED vars
      BY <1>1, <2>1, <2>3 DEF vars, loopVars, sessionOnly
    <3> QED BY <3>1, StutterKeeps
  <2> QED BY <2>2, <2>3
<1> QED BY <1>3, <1>4

\* The fresh world after the user's turn, or none (ReturnRefreshed,
\* ReturnFails).
LEMMA ReturnEndsKeeps ==
    ASSUME SessionInv, ReturnRefreshed \/ ReturnFails
    PROVE  SessionInv'
<1>1. /\ live /\ lock = "return" /\ lock' = "free" /\ control' = control /\ sent' = sent
      /\ settle' = settle /\ store' = store /\ live' = live
  BY DEF ReturnRefreshed, ReturnFails, loopVars
<1>2. Whole
  BY <1>1, Modes
<1>3. UserHolds /\ session.returning /\ run.status # "paused"
  BY <1>1, <1>2 DEF Whole, Work, UserHolds, LoopInv, PlaceAgrees
<1>4. /\ LoopInv /\ Still /\ session.checkpoint \in store.resumed /\ session.owner = "agent"
      /\ run.status = "running" /\ run.boundary = None /\ store.saved = {}
  BY <1>1, <1>3, UserParts
<1>5. /\ Good(control) /\ run \in Run /\ run.remaining <= MaxTurns /\ sent = run.execs
      /\ step \in Step /\ step.dispatch = "not_sent" /\ sent \in Nat
      /\ control.paused = None /\ ~Told(control)
  BY <1>4, RestParts DEF AtPause, Still
<1>6. CASE ReturnRefreshed
  <2>1. PICK v \in Verdicts :
            /\ run' = Applied(run, Evaluated(v), FALSE)
            /\ session' = [session EXCEPT !.returning  = FALSE,
                                          !.checkpoint = 0,
                                          !.eligible   = FALSE,
                                          !.status     = v,
                                          !.active     = v = "running"]
            /\ IF v = "running" THEN GoTo("top") ELSE UNCHANGED step
    BY <1>6 DEF ReturnRefreshed
  <2>2. /\ run' \in Run /\ run'.status = v /\ run'.remaining <= MaxTurns
        /\ run'.boundary = None /\ run'.execs = run.execs
    BY <1>4, <1>5, <2>1, EvaluatedParts
  <2>3. /\ session' \in Session /\ session'.status = v /\ AgentHolds'
        /\ session'.active <=> v = "running"
    <3>1. v \in PublicStatuses /\ (v = "running") \in BOOLEAN
      BY DEF PublicStatuses, Verdicts, Resumable, Ended
    <3> QED BY <1>4, <2>1, <3>1, SessionParts DEF Session, AgentHolds
  <2>4. step' \in Step /\ step'.at \in {"top", "returned"} /\ step'.dispatch = "not_sent"
    BY <1>4, <1>5, <2>1, Going DEF Still
  <2>5. v # "paused" /\ v # "none"
    BY DEF Verdicts
  <2>6. LoopInv'
    BY <1>1, <1>5, <2>2, <2>4, <2>5, RestIsWhole DEF AtPause, Told
  <2>7. settle' = "none"
    BY <1>1, <1>4 DEF Still
  <2>8. CASE v = "running"
    <3>1. step'.at = "top"
      BY <2>1, <2>8, Going
    <3>2. RaisedShape' /\ Work' /\ Settling' /\ Lease' /\ Kept'
      BY <1>1, <1>4, <2>2, <2>3, <2>5, <2>7, <2>8, <3>1
      DEF RaisedShape, Work, Settling, Lease, Kept, AgentHolds, UserHolds
    <3>3. Saved' /\ store' \in Store
      BY <1>1, SavedStays
    <3> QED BY <1>1, <2>3, <2>6, <2>7, <3>2, <3>3, SessionParts, WholeAgain
            DEF Whole, LockPhases
  <2>9. CASE v # "running"
    <3>1. step'.at = "returned"
      BY <1>4, <2>1, <2>9 DEF Still
    <3> QED BY <1>1, <1>4, <2>2, <2>3, <2>5, <2>6, <2>7, <2>9, <3>1, AgentRests
  <2> QED BY <2>8, <2>9
<1>7. CASE ReturnFails
  <2>1. /\ run' = run /\ step' = step
        /\ session' = [session EXCEPT !.returning = FALSE, !.owner = "user"]
    BY <1>7 DEF ReturnFails, loopVars
  <2>2. /\ session' \in Session /\ session'.owner = "user" /\ ~session'.returning
        /\ session'.active = session.active /\ session'.checkpoint = session.checkpoint
    BY <2>1, SessionParts DEF Session
  <2>3. LoopInv'
    BY <1>1, <1>4, <2>1, LoopRests
  <2> QED BY <1>1, <1>4, <2>1, <2>2, <2>3, UserRests DEF UserHolds, Still
<1> QED BY <1>6, <1>7
-----------------------------------------------------------------------------
(* Commands that start the runner.                                         *)

\* What an admitted command finds.
LEMMA AdmittedParts ==
    ASSUME SessionInv, NEW statuses, Admits(statuses)
    PROVE  /\ live /\ ~RunnerBusy /\ lock = "free" /\ AgentHolds
           /\ ~session.active /\ run.status # "paused" => settle = "none"
           /\ ~session.active /\ run.status \notin {"paused", "cancelled"} => store.saved = {}
<1>1. live /\ ~RunnerBusy /\ lock = "free" /\ AgentHolds
  BY DEF Admits, AgentHolds
<1>2. ~session.active /\ run.status # "paused" => settle = "none"
  BY <1>1, Modes, SessionParts DEF Whole, Settling, Lost, Still, SettlePhases, Held
<1>3. ~session.active /\ run.status \notin {"paused", "cancelled"} => store.saved = {}
  BY <1>1, <1>2, Modes DEF Whole, Kept, Lost, Still, Held
<1> QED BY <1>1, <1>2, <1>3

\* The runner is created for a loop that has been entered.
LEMMA RunnerEnters ==
    ASSUME SessionInv, live, lock = "free", AgentHolds, settle = "none", store.saved = {},
           LoopInv', step'.at \in Awaits \cup {"top"},
           run'.status = "none" => step'.at = "start",
           session' = RunnerStarts(session), sent' = sent,
           settle' = settle, lock' = lock, store' = store, live' = live
    PROVE  SessionInv'
<1>1. Saved' /\ store' \in Store
  BY SavedStays
<1>2. session' \in Session /\ session'.status = "running" /\ session'.active /\ AgentHolds'
  BY SessionParts, RunnerStartsParts DEF AgentHolds
<1>3. step'.at # "raised" /\ step'.at # "idle"
  BY DEF Awaits, Turn
<1>4. RaisedShape' /\ Work' /\ Settling' /\ Lease' /\ Kept'
  BY <1>2, <1>3 DEF RaisedShape, Work, Settling, Lease, Kept, AgentHolds, UserHolds
<1> QED BY <1>1, <1>2, <1>4, SessionParts, WholeAgain DEF Whole

\* start, respond, and what respond does with a request it cannot admit.
LEMMA StartRespondKeeps ==
    ASSUME SessionInv, StartTask \/ RespondInteraction \/ RespondRejected
    PROVE  SessionInv'
<1>1. /\ live /\ ~RunnerBusy /\ lock = "free" /\ AgentHolds /\ ~session.active
      /\ settle' = settle /\ lock' = lock /\ store' = store /\ live' = live /\ sent' = sent
      /\ Admits({"idle"}) \/ Admits({"waiting_user"})
  <2>1. Admits({"idle"}) \/ Admits({"waiting_user"})
    BY DEF StartTask, RespondInteraction, RespondRejected
  <2>2. live /\ ~RunnerBusy /\ lock = "free" /\ AgentHolds
    BY <2>1, AdmittedParts
  <2> QED BY <2>1, <2>2 DEF StartTask, RespondInteraction, RespondRejected, StartRun, Answer, loopVars
<1>2. CASE StartTask
  <2>1. StartRun /\ session' = RunnerStarts(session)
    BY <1>2 DEF StartTask
  <2>2. Whole
    BY <1>1, <2>1, Modes DEF StartRun
  <2>3. run = NoRun /\ run' = run
    BY <2>1, <2>2 DEF StartRun, Whole, LoopInv, PlaceAgrees
  <2>4. run.status \notin {"paused", "cancelled"}
    BY <2>3 DEF NoRun
  <2>5. settle = "none" /\ store.saved = {}
    BY <1>1, <2>4, AdmittedParts
  <2>6. LoopInv'
    BY <2>1, <2>2, EntranceKeeps DEF Whole
  <2>7. step'.at = "start"
    BY <2>1 DEF StartRun, GoTo
  <2> QED BY <1>1, <2>1, <2>5, <2>6, <2>7, RunnerEnters DEF Awaits
<1>3. CASE RespondInteraction \/ RespondRejected
  <2>1. Projected = "waiting_user"
    BY <1>3 DEF RespondInteraction, RespondRejected, Admits
  <2>2. session.active \/ run.status = "none" \/ run.status = "waiting_user"
    BY <1>1, <2>1 DEF Projected, AgentHolds
  <2>3. CASE RespondInteraction
    <3>1. Answer /\ session' = RunnerStarts(session)
      BY <2>3 DEF RespondInteraction
    <3>2. run.status = "waiting_user" /\ run' = run /\ step'.at = "answer"
      BY <3>1 DEF Answer, GoTo
    <3>3. Whole /\ settle = "none" /\ store.saved = {}
      BY <1>1, <3>2, Modes, AdmittedParts
    <3>4. LoopInv'
      BY <3>1, <3>3, EntranceKeeps DEF Whole
    <3> QED BY <1>1, <3>1, <3>2, <3>3, <3>4, RunnerEnters DEF Awaits
  <2>4. CASE RespondRejected
    <3>1. session' = RunnerEnds(session, "failed") /\ UNCHANGED loopVars
      BY <2>4 DEF RespondRejected
    <3>2. run.status \in {"none", "waiting_user"}
      BY <1>1, <2>2
    <3>3. Whole /\ settle = "none" /\ store.saved = {}
      BY <1>1, <3>2, Modes, AdmittedParts
    <3>6. run.status = "waiting_user"
      BY <1>1, <2>1, <3>2, <3>3 DEF Whole, Work, Projected, AgentHolds
    <3>7. step.at = "returned" /\ step' = step /\ run' = run
      BY <1>1, <3>1, <3>3, <3>6
      DEF Whole, Work, LoopInv, PlaceAgrees, NoRun, loopVars
    <3>4. /\ session' \in Session /\ ~session'.active /\ AgentHolds' /\ session'.status = "failed"
      BY <1>1, <3>1, SessionParts, RunnerEndsParts DEF AgentHolds, PublicStatuses, Ended
    <3>5. LoopInv'
      BY <3>1, <3>3, LoopRests DEF Whole, loopVars
    <3> QED BY <1>1, <3>3, <3>4, <3>5, <3>6, <3>7, AgentRests
  <2> QED BY <1>3, <2>3, <2>4
<1> QED BY <1>2, <1>3
\* confirm (ConfirmAction): the approved action is taken outside the budget,
\* so that its step can always be committed.
LEMMA ConfirmKeeps ==
    ASSUME SessionInv, ConfirmAction
    PROVE  SessionInv'
<1>1. /\ live /\ lock = "free" /\ AgentHolds /\ ~session.active
      /\ session' = RunnerStarts(session)
      /\ settle' = settle /\ lock' = lock /\ store' = store /\ live' = live
      /\ Approve \/ Decline
  BY AdmittedParts DEF ConfirmAction
<1>2. /\ step.at = "returned" /\ run.status = "waiting_confirmation" /\ run.boundary = None
  BY <1>1 DEF Approve, Decline
<1>3. Whole /\ settle = "none" /\ store.saved = {}
  BY <1>1, <1>2, Modes, AdmittedParts DEF ConfirmAction
<1>4. LoopInv'
  BY <1>1, <1>3, EntranceKeeps DEF Whole
<1>5. LeftWaiting(run).status = "running" /\ run \in Run
  BY SessionParts, LeftWaitingParts
<1>6. sent' = sent /\ step'.at \in {"top", "execute", "observe"} /\ run'.status # "none"
  <2>1. CASE Decline
    <3>1. run'.status = "running"
      BY <1>5, <2>1 DEF Decline, Applied, SameWorld, LeftWaiting, Run
    <3> QED BY <2>1, <3>1 DEF Decline, GoTo
  <2>2. CASE /\ run' = LeftWaiting(run)
             /\ \E place \in {"execute", "observe"} :
                 step' = [at |-> place, dispatch |-> "not_sent", consume |-> FALSE]
             /\ UNCHANGED <<control, sent>>
    BY <1>5, <2>2
  <2>3. CASE \E status \in {"running", "blocked"} : CloseStep(SameWorld(status), FALSE)
    <3>1. PICK status \in {"running", "blocked"} : CloseStep(SameWorld(status), FALSE)
      BY <2>3
    <3> DEFINE s == SameWorld(status)
               no == FALSE
    <3>2. s \in Result /\ s.boundary = None /\ no \in BOOLEAN /\ ~no /\ CloseStep(s, no)
      BY <1>5, <3>1, ResultsAre DEF Resumable, Ended
    <3> HIDE DEF s, no
    <3>3. /\ step'.at \in {"top", "raised"}
          /\ step'.at = "top" => run'.status # "none"
          /\ step'.at = "raised" => no
      BY <1>2, <1>3, <3>2, CloseNames DEF Whole
    <3> QED BY <3>2, <3>3 DEF CloseStep
  <2> QED BY <1>1, <2>1, <2>2, <2>3 DEF Approve
<1>7. step'.at \in Awaits \cup {"top"}
  BY <1>6 DEF Awaits, Turn
<1> QED BY <1>1, <1>3, <1>4, <1>6, <1>7, RunnerEnters

-----------------------------------------------------------------------------
(* Control commands.                                                       *)

\* A request for the runner, with or without a takeover that waits for it.
LEMMA RequestToRunnerKeeps ==
    ASSUME SessionInv, live, AgentHolds, NEW kind, RequestToRunner(kind),
           lock' \in {"free", "takeover"},
           session' = session, settle' = settle, store' = store, live' = live
    PROVE  SessionInv'
<1>1. session.active /\ run' = run /\ step' = step /\ sent' = sent
  BY DEF RequestToRunner
<1>2. PICK r \in Request : control' = Requested(control, r)
  BY DEF RequestToRunner
<1>3. Whole /\ LoopInv
  BY <1>1, Modes DEF Whole
<1>4. /\ Good(control') /\ control'.paused = control.paused
      /\ Told(control') => Told(control)
  BY <1>2, SessionParts, RequestedParts
<1>5. PlaceAgrees' /\ Balanced'
  BY <1>1, <1>3 DEF LoopInv, PlaceAgrees, Balanced, InFlight, AtPause
<1>6. LoopInv'
  BY <1>1, <1>3, <1>4, <1>5, SessionParts, StayKeeps
<1>7. Whole'
  BY <1>1, <1>3, <1>4, <1>6
  DEF Whole, RaisedShape, Work, Settling, Lease, Kept, Still, AgentHolds, UserHolds,
      LastCheckpoint
<1>8. Saved' /\ store' \in Store
  BY <1>1, SavedStays
<1> QED BY <1>7, <1>8, SessionParts, WholeAgain DEF LockPhases

\* A request that reaches nobody: the run goes on by itself, or is lost.
LEMMA RequestStrandedKeeps ==
    ASSUME SessionInv, live, AgentHolds, lock = "free", settle = "none",
           NEW kind, RequestStranded(kind),
           lock' = lock, session' = session, settle' = settle, store' = store, live' = live
    PROVE  SessionInv'
<1>1. /\ ~session.active /\ run.status = "running" /\ run.boundary = None
      /\ run' = run /\ step' = step /\ sent' = sent
  BY DEF RequestStranded
<1>2. PICK r \in Request : control' = Requested(control, r)
  BY DEF RequestStranded
<1>3. /\ Good(control') /\ control'.paused = control.paused
      /\ Told(control') => Told(control)
  BY <1>2, SessionParts, RequestedParts
<1>4. CASE Whole
  <2>1. LoopInv /\ step.at = "returned" /\ store.saved = {}
    BY <1>1, <1>4 DEF Whole, LoopInv, PlaceAgrees, NoRun, Work, Kept
  <2>2. PlaceAgrees' /\ Balanced'
    BY <1>1, <2>1 DEF LoopInv, PlaceAgrees, Balanced, InFlight, AtPause
  <2>3. LoopInv'
    BY <1>1, <1>3, <2>1, <2>2, SessionParts, StayKeeps
  <2> QED BY <1>1, <2>1, <2>3, SessionParts, AgentRests DEF AgentHolds
<1>5. CASE Lost
  <2>1. Lost'
    BY <1>1, <1>5 DEF Lost, Still, AgentHolds
  <2>2. Saved' /\ store' \in Store
    BY <1>1, SavedStays
  <2> QED BY <1>1, <1>3, <2>1, <2>2, SessionParts, ModeAgain
<1> QED BY <1>1, <1>4, <1>5, Modes DEF Held

\* What a reached boundary makes of a run.
LEMMA BoundaryAppliedParts ==
    ASSUME NEW r \in Run, NEW o \in Outcome
    PROVE  LET p == BoundaryApplied(r, o)
           IN  /\ p \in Run /\ p.execs = r.execs /\ p.remaining = r.remaining
               /\ p.boundary = o
               /\ p.status = IF o.kind = "cancel" THEN "cancelled" ELSE r.status
BY DEF BoundaryApplied, Run, Ended

\* A request that the command answers itself: a cancel ends the run, and a
\* pause is reached by a waiting run only.
LEMMA RequestAppliedParts ==
    ASSUME SessionInv, live, AgentHolds, lock = "free", NEW kind \in Kinds,
           RequestApplied(kind)
    PROVE  /\ ~session.active /\ settle = "none"
           /\ step.at = "returned" /\ step' = step /\ sent' = sent
           /\ LoopInv' /\ run'.status # "none"
           /\ kind = "cancel" => run'.status = "cancelled"
           /\ kind = "pause" =>
                /\ store.saved = {}
                /\ AtPause(run') => run'.status \in Waiting
<1>1. ~session.active /\ ~Terminal(run) /\ step' = step /\ sent' = sent
  BY DEF RequestApplied
<1>2. PICK r \in Request : r.kind = kind /\ ControlAtRest(r)
  BY DEF RequestApplied
<1> DEFINE c == Requested(control, r)
           b == RestBoundary
<1>3. /\ Admission(control, r) = "accepted"
      /\ run.status \in Waiting \/ AtPause(run)
      /\ \/ kind = "pause" /\ control' = FailedPending(c) /\ run' = run
         \/ control' = Acknowledged(c, b) /\ run' = BoundaryApplied(run, Preview(c, b))
      /\ kind = "cancel" =>
            control' = Acknowledged(c, b) /\ run' = BoundaryApplied(run, Preview(c, b))
  BY <1>2 DEF ControlAtRest
<1>4. Good(c) /\ c.pending = r /\ c.pending # None /\ c.paused = control.paused /\ (Told(c) => Told(control))
  BY <1>2, <1>3, SessionParts, RequestedParts, NoneAssumption
<1>5. b \in Boundaries
  BY DEF RestBoundary, Boundaries, Waiting
<1> HIDE DEF c, b
<1>6. /\ Good(Acknowledged(c, b)) /\ Preview(c, b) \in Outcome
      /\ Preview(c, b).kind = kind
      /\ Acknowledged(c, b).paused = (IF kind = "pause" THEN Preview(c, b) ELSE None)
  BY <1>2, <1>4, <1>5, AcknowledgedParts
<1>7. /\ BoundaryApplied(run, Preview(c, b)) \in Run
      /\ BoundaryApplied(run, Preview(c, b)).execs = run.execs
      /\ BoundaryApplied(run, Preview(c, b)).remaining = run.remaining
      /\ BoundaryApplied(run, Preview(c, b)).boundary = Preview(c, b)
      /\ BoundaryApplied(run, Preview(c, b)).status =
            IF kind = "cancel" THEN "cancelled" ELSE run.status
  BY <1>6, SessionParts, BoundaryAppliedParts
<1>8. kind = "cancel" => run'.status = "cancelled"
  BY <1>3, <1>7
<1>9. kind = "pause" => control.paused = None
  BY <1>2, <1>3 DEF Admission, Refuses
<1>10. CASE Whole
  <2>1. LoopInv /\ step.at = "returned" /\ settle = "none" /\ (store.saved # {} => run.status = "cancelled")
    BY <1>1, <1>3, <1>10, SessionParts
    DEF Whole, LoopInv, PlaceAgrees, NoRun, Work, Kept, Settling, SettlePhases, AtPause, Waiting
  <2>2. LoopInv'
    <3>1. CommandAtRest
      BY <1>1, <1>2, <2>1 DEF CommandAtRest
    <3> QED BY <2>1, <3>1, CommandKeeps
  <2>3. ASSUME kind = "pause"
        PROVE  run.status \in Waiting /\ run'.status = run.status /\ store.saved = {}
    <3>1. ~AtPause(run)
      BY <1>9, <2>1, <2>3, RestParts
    <3>2. run.status \in Waiting /\ run'.status = run.status
      BY <1>3, <1>7, <2>3, <3>1
    <3> QED BY <2>1, <3>2 DEF Waiting
  <2>4. run'.status # "none"
    BY <1>2, <1>8, <2>3 DEF Request, Kinds, Waiting
  <2> QED BY <1>1, <1>8, <2>1, <2>2, <2>3, <2>4
<1>11. CASE Held
  <2>1. kind = "cancel"
    BY <1>9, <1>11, SessionParts, PauseParts DEF Held, Kinds
  <2>2. /\ control' = Acknowledged(c, b) /\ run' = BoundaryApplied(run, Preview(c, b))
    BY <1>3, <2>1
  <2>3. /\ Still /\ sent = run.execs
    BY <1>11 DEF Held
  <2>4. /\ run'.status = "cancelled" /\ ~AtPause(run') /\ control'.paused = None
    BY <1>6, <1>7, <2>1, <2>2 DEF AtPause
  <2>5. LoopInv'
    BY <1>1, <1>6, <1>7, <2>2, <2>3, <2>4, SessionParts, RestIsWhole DEF Still
  <2> QED BY <1>1, <2>1, <2>3, <2>4, <2>5 DEF Still
<1>12. ~Lost
  BY <1>3 DEF Lost, Waiting, AtPause
<1> QED BY <1>10, <1>11, <1>12, Modes

\* cancel.
LEMMA CancelKeeps ==
    ASSUME SessionInv, CancelTask
    PROVE  SessionInv'
<1>1. /\ live /\ lock = "free" /\ AgentHolds
      /\ settle' = settle /\ lock' = lock /\ store' = store /\ live' = live
      /\ ~session.active /\ run.status # "paused" => settle = "none"
  BY AdmittedParts DEF CancelTask
<1>2. CASE RequestToRunner("cancel") /\ UNCHANGED session
  BY <1>1, <1>2, RequestToRunnerKeeps
<1>3. CASE /\ RequestApplied("cancel")
           /\ session' = [session EXCEPT !.status = "cancelled", !.eligible = FALSE]
  <2>1. /\ ~session.active /\ settle = "none" /\ step.at = "returned" /\ step' = step
        /\ sent' = sent /\ LoopInv' /\ run'.status = "cancelled"
    <3> DEFINE kind == "cancel"
    <3>1. kind \in Kinds /\ RequestApplied(kind)
      BY <1>3 DEF Kinds
    <3> HIDE DEF kind
    <3>2. /\ ~session.active /\ settle = "none" /\ step.at = "returned" /\ step' = step
          /\ sent' = sent /\ LoopInv' /\ (kind = "cancel" => run'.status = "cancelled")
      BY <1>1, <3>1, RequestAppliedParts
    <3> QED BY <3>2 DEF kind
  <2>2. session' \in Session /\ ~session'.active /\ AgentHolds'
    BY <1>1, <1>3, <2>1, SessionParts DEF Session, AgentHolds, PublicStatuses, Ended
  <2> QED BY <1>1, <2>1, <2>2, AgentRests
<1>4. CASE RequestStranded("cancel") /\ UNCHANGED session
  <2>1. ~session.active /\ run.status = "running"
    BY <1>4 DEF RequestStranded
  <2> QED BY <1>1, <1>4, <2>1, RequestStrandedKeeps
<1> QED BY <1>2, <1>3, <1>4 DEF CancelTask

\* pause, and the first half of take_over.
LEMMA PauseKeeps ==
    ASSUME SessionInv, PauseTask \/ TakeOver
    PROVE  SessionInv'
<1>1. PICK byRunner \in {"free", "takeover"}, atOnce \in {"pause", "takeover"} :
          PauseRequested(byRunner, atOnce)
  BY DEF PauseTask, TakeOver
<1>2. /\ live /\ lock = "free" /\ AgentHolds
      /\ session' = session /\ store' = store /\ live' = live
      /\ ~session.active /\ run.status # "paused" => settle = "none"
  BY AdmittedParts DEF PauseTask, TakeOver
<1>3. CASE RequestToRunner("pause") /\ lock' = byRunner /\ UNCHANGED settle
  BY <1>2, <1>3, RequestToRunnerKeeps
<1>4. CASE /\ RequestApplied("pause")
           /\ IF AtPause(run') THEN settle' = "commit" /\ lock' = atOnce
                               ELSE UNCHANGED <<settle, lock>>
  <2>1. /\ ~session.active /\ settle = "none" /\ step.at = "returned" /\ step' = step
        /\ sent' = sent /\ LoopInv' /\ run'.status # "none" /\ store.saved = {}
        /\ AtPause(run') => run'.status \in Waiting
    <3> DEFINE kind == "pause"
    <3>1. kind \in Kinds /\ RequestApplied(kind)
      BY <1>4 DEF Kinds
    <3> HIDE DEF kind
    <3>2. /\ ~session.active /\ settle = "none" /\ step.at = "returned" /\ step' = step
          /\ sent' = sent /\ LoopInv' /\ run'.status # "none"
          /\ kind = "pause" => /\ store.saved = {}
                               /\ AtPause(run') => run'.status \in Waiting
      BY <1>2, <3>1, RequestAppliedParts
    <3> QED BY <3>2 DEF kind
  <2>2. CASE AtPause(run')
    <3>1. settle' = "commit" /\ lock' = atOnce
      BY <1>4, <2>2
    <3>2. RaisedShape' /\ Work' /\ Settling' /\ Lease' /\ Kept'
      BY <1>2, <2>1, <2>2, <3>1
      DEF RaisedShape, Work, Settling, Lease, Kept, AgentHolds, UserHolds, LockPhases, Waiting
    <3>3. Saved' /\ store' \in Store
      BY <1>2, <2>1, SavedStays
    <3> QED BY <1>2, <2>1, <3>1, <3>2, <3>3, SessionParts, WholeAgain
            DEF Whole, SettlePhases, LockPhases
  <2>3. CASE ~AtPause(run')
    <3>1. settle' = settle /\ lock' = lock
      BY <1>4, <2>3
    <3> QED BY <1>2, <2>1, <3>1, SessionParts, AgentRests DEF AgentHolds
  <2> QED BY <2>2, <2>3
<1>5. CASE RequestStranded("pause") /\ UNCHANGED <<settle, lock>>
  <2>1. ~session.active /\ run.status = "running"
    BY <1>5 DEF RequestStranded
  <2> QED BY <1>2, <1>5, <2>1, RequestStrandedKeeps
<1> QED BY <1>1, <1>3, <1>4, <1>5 DEF PauseRequested

-----------------------------------------------------------------------------
(* The end of the session, of the process, and the recovery.               *)

\* close.
LEMMA CloseKeepsSession ==
    ASSUME SessionInv, CloseSession
    PROVE  SessionInv'
<1>1. /\ live /\ control' = control /\ run' = run /\ step' = step /\ sent' = sent
      /\ settle' = settle /\ lock' = lock /\ store' = store /\ live' = live
      /\ session' = [session EXCEPT !.closed = TRUE, !.cleaned = @ \/ ~session.active]
  BY DEF CloseSession, loopVars
<1>2. /\ session' \in Session /\ session'.status = session.status
      /\ session'.active = session.active /\ session'.checkpoint = session.checkpoint
      /\ session'.owner = session.owner /\ session'.returning = session.returning
  <2>1. (session.cleaned \/ ~session.active) \in BOOLEAN
    OBVIOUS
  <2> QED BY <1>1, <2>1, SessionParts DEF Session
<1>3. Saved' /\ store' \in Store
  BY <1>1, SavedStays
<1>4. CASE Whole
  <2>1. LoopInv'
    BY <1>1, <1>4, LoopRests DEF Whole
  <2>2. Whole'
    BY <1>1, <1>2, <1>4, <2>1
    DEF Whole, RaisedShape, Work, Settling, Lease, Kept, Still, AgentHolds, UserHolds,
        LastCheckpoint
  <2> QED BY <1>1, <1>2, <1>3, <2>2, SessionParts, WholeAgain
<1>5. CASE Held
  <2>1. Held'
    BY <1>1, <1>2, <1>5 DEF Held, Still, Told, AtPause, Consuming, PausedFacts
  <2> QED BY <1>1, <1>2, <1>3, <2>1, SessionParts, ModeAgain
<1>6. CASE Lost
  <2>1. Lost'
    BY <1>1, <1>2, <1>6 DEF Lost, Still, AgentHolds
  <2> QED BY <1>1, <1>2, <1>3, <2>1, SessionParts, ModeAgain
<1> QED BY <1>1, <1>4, <1>5, <1>6, Modes

\* The types of a session that has just been created.
LEMMA NewParts ==
    /\ NewSession \in Session /\ NewSession.status = "idle" /\ ~NewSession.active
    /\ NewSession.checkpoint = 0 /\ NewSession.owner = "agent" /\ ~NewSession.returning
    /\ NoRun \in Run /\ NoRun.remaining <= MaxTurns
BY LoopAssumption DEF NewSession, Session, PublicStatuses, NoRun, Run, Verdicts

\* The process ends.
LEMMA CrashKeeps ==
    ASSUME SessionInv, Crash
    PROVE  SessionInv'
<1>1. /\ ~live' /\ live' \in BOOLEAN /\ control' = Fresh /\ run' = NoRun /\ GoTo("idle")
      /\ session' = NewSession /\ settle' = "none" /\ lock' = "free"
      /\ sent' = sent /\ store' = store
  BY DEF Crash
<1>2. Saved' /\ store' \in Store
  BY <1>1, SavedStays
<1>3. step' \in Step /\ step'.at = "idle"
  BY <1>1, Going DEF Outside
<1>4. Good(control') /\ control' \in Control
  BY <1>1, FreshIsGood DEF Good
<1>5. SessionTypeOK'
  BY <1>1, <1>2, <1>3, <1>4, NewParts, SessionParts
  DEF SessionTypeOK, LoopTypeOK, SettlePhases, LockPhases
<1> QED BY <1>1, <1>2, <1>3, <1>4, <1>5 DEF SessionInv, Gone

\* What is hydrated from a checkpoint.
LEMMA HydratedParts ==
    ASSUME NEW f \in Facts, NEW v \in Verdicts
    PROVE  LET h == Hydrated(f, v)
           IN  /\ h \in Run /\ h.status = "paused" /\ h.pausedFrom = f.status
               /\ h.checkpoint = f.id /\ h.boundary = f.boundary
               /\ h.execs = f.execs /\ h.remaining = f.remaining
               /\ FactsOf([h EXCEPT !.status = h.pausedFrom], h.checkpoint) = f
<1> DEFINE r == [NoRun EXCEPT !.status    = f.status,
                              !.boundary  = f.boundary,
                              !.remaining = f.remaining,
                              !.execs     = f.execs,
                              !.verdict   = v]
<1>1. /\ r \in Run /\ r.status = f.status /\ r.status \in Resumable
      /\ r.boundary = f.boundary /\ r.remaining = f.remaining /\ r.execs = f.execs
  BY DEF NoRun, Run, Facts
<1>2. FactsOf(r, f.id) = f /\ f.id \in Nat
  BY <1>1 DEF FactsOf, Facts
<1>3. Hydrated(f, v) = DurablyPaused(r, f.id)
  BY DEF Hydrated
<1> HIDE DEF r
<1> QED BY <1>1, <1>2, <1>3, PausedParts

\* What the control owner restores of a pause.
LEMMA RestoredParts ==
    ASSUME NEW o \in Outcome, o.kind = "pause", o.answer = "pause_boundary_reached"
    PROVE  /\ Good(RestoredPaused(o)) /\ RestoredPaused(o).paused = o
           /\ ~Told(RestoredPaused(o))
<1> DEFINE e == [Fresh EXCEPT !.paused = o]
<1>1. Good(RestoredPaused(o))
  BY FreshIsGood
<1>2. /\ e \in Control /\ e.paused = o /\ e.outcomes = Fresh.outcomes /\ e.order = Fresh.order
  BY FreshIsGood DEF Good, Control, Fresh
<1>3. InStep(Fresh) /\ Fresh \in Control /\ \A i \in CommandIds : Fresh.outcomes[i] = None
  BY FreshIsGood DEF Good, Fresh
<1>4. RestoredPaused(o) = Record(e, o)
  BY DEF RestoredPaused
<1> HIDE DEF e
<1>5. InStep(e) /\ ~Told(e) /\ o.id \in CommandIds /\ e.outcomes[o.id] = None
  BY <1>2, <1>3 DEF InStep, Told, Outcome
<1>6. Record(e, o).paused = o /\ ~Told(Record(e, o))
  BY <1>2, <1>5, RecordKeeps, RecordTells
<1> QED BY <1>1, <1>4, <1>6

\* Another process recovers the session from its checkpoint.
LEMMA RecoverKeeps ==
    ASSUME SessionInv, Recover
    PROVE  SessionInv'
<1>1. PICK f \in store.saved, v \in Verdicts :
        /\ control' = RestoredPaused(f.boundary)
        /\ run' = Hydrated(f, v)
        /\ session' = [NewSession EXCEPT !.status     = "paused",
                                         !.checkpoint = f.id,
                                         !.eligible   = TRUE]
  BY DEF Recover
<1>2. /\ ~live /\ live' = TRUE /\ GoTo("returned")
      /\ sent' = sent /\ settle' = settle /\ lock' = lock /\ store' = store
  BY DEF Recover
<1>3. Gone /\ Saved
  BY <1>2 DEF SessionInv
<1>4. /\ f \in Facts /\ f.execs = sent /\ f.remaining <= MaxTurns
      /\ f.boundary.kind = "pause" /\ f.boundary.answer = "pause_boundary_reached"
      /\ store.saved = {f} /\ f.boundary \in Outcome /\ f.status \in Resumable /\ f.id \in Nat
  BY <1>1, <1>3, SessionParts DEF Saved, Facts
<1>5. Good(control') /\ control'.paused = f.boundary /\ ~Told(control')
  BY <1>1, <1>4, RestoredParts
<1>6. /\ run' \in Run /\ run'.status = "paused" /\ run'.pausedFrom = f.status
      /\ run'.checkpoint = f.id /\ run'.boundary = f.boundary
      /\ run'.execs = f.execs /\ run'.remaining = f.remaining
      /\ PausedFacts' = f
  BY <1>1, <1>4, HydratedParts DEF PausedFacts
<1>7. /\ session' \in Session /\ ~session'.active /\ session'.checkpoint = f.id
      /\ session'.owner = "agent" /\ ~session'.returning
  BY <1>1, <1>4, NewParts DEF Session, PublicStatuses
<1>8. step' \in Step /\ step'.at = "returned" /\ step'.dispatch = "not_sent"
  BY <1>2, Going DEF Outside
<1>9. Held'
  <2>1. Still' /\ AtPause(run')
    BY <1>2, <1>3, <1>4, <1>6, <1>7, <1>8, NoneAssumption DEF Still, AtPause, Gone
  <2>2. lock' = "free" /\ ~Consuming'
    BY <1>2, <1>3, <1>7 DEF Gone, Consuming
  <2> QED BY <1>2, <1>4, <1>5, <1>6, <1>7, <2>1, <2>2 DEF Held
<1>10. Saved' /\ store' \in Store
  BY <1>2, SavedStays
<1> QED BY <1>2, <1>4, <1>5, <1>6, <1>7, <1>8, <1>9, <1>10, SessionParts, ModeAgain
-----------------------------------------------------------------------------
(* The theorems.                                                           *)

\* The session begins in its invariant.
LEMMA SessionStarts == Init => SessionInv
<1> SUFFICES ASSUME Init PROVE SessionInv
  OBVIOUS
<1>1. /\ control = Fresh /\ run = NoRun
      /\ step = [at |-> "idle", dispatch |-> "not_sent", consume |-> TRUE] /\ sent = 0
      /\ session = NewSession /\ settle = "none" /\ lock = "free"
      /\ store = [saved |-> {}, resumed |-> {}] /\ live = TRUE
  BY DEF Init, LoopInit
<1>2. Good(control) /\ control \in Control /\ control.paused = None /\ ~Told(control)
  BY <1>1, FreshIsGood DEF Good, Fresh, Told
<1>3. run.status = "none" /\ run.boundary = None /\ run.execs = 0
  BY <1>1 DEF NoRun
<1>4. LoopTypeOK
  BY <1>1, <1>2, NewParts DEF LoopTypeOK, Step, Dispatches, Outside
<1>5. LoopInv
  BY <1>1, <1>2, <1>3, <1>4
  DEF LoopInv, PlaceAgrees, Turn, AtPause, Balanced, InFlight, PauseAgrees,
      CancelledMeansCancelled, Told
<1>6. SessionTypeOK
  BY <1>1, <1>4, NewParts DEF SessionTypeOK, SettlePhases, LockPhases, Store
<1>7. Saved
  BY <1>1, FS_EmptySet DEF Saved
<1>8. Whole
  BY <1>1, <1>3, <1>5, NewParts
  DEF Whole, RaisedShape, Work, Settling, Lease, Kept, UserHolds, LockPhases
<1> QED BY <1>1, <1>2, <1>6, <1>7, <1>8 DEF SessionInv

\* Every step keeps it.
LEMMA SessionStep == SessionInv /\ [Next]_vars => SessionInv'
<1> SUFFICES ASSUME SessionInv, [Next]_vars PROVE SessionInv'
  OBVIOUS
<1>1. CASE RunnerNext
  BY <1>1, RunnerStepsKeeps, RunnerReturnsKeeps, RunnerFailsKeeps, CommitPauseKeeps,
     PauseCommittedKeeps, PersistenceFailsKeeps, RefreshKeeps DEF RunnerNext
<1>2. CASE LockNext
  BY <1>2, ResumeCommittedKeeps, TakeOverEndsKeeps, ReturnEndsKeeps, TakenKeeps
  DEF LockNext
<1>3. CASE CommandNext
  BY <1>3, StartRespondKeeps, ConfirmKeeps, CancelKeeps, PauseKeeps, TakenKeeps,
     ReturnControlKeeps, CloseKeepsSession DEF CommandNext
<1>4. CASE Crash \/ Recover
  BY <1>4, CrashKeeps, RecoverKeeps
<1>5. CASE UNCHANGED vars
  BY <1>5, StutterKeeps
<1> QED BY <1>1, <1>2, <1>3, <1>4, <1>5 DEF Next

\* The session's invariant holds of every reachable state.
THEOREM SessionIsSafe == Spec => []SessionInv
BY SessionStarts, SessionStep, PTL DEF Spec

\* Every field of the loop, the session and the store keeps its type.
THEOREM SessionTypeSafe == Spec => []SessionTypeOK
<1>1. SessionInv => SessionTypeOK
  BY DEF SessionInv
<1> QED BY <1>1, SessionIsSafe, PTL

\* What the store holds knows every effect, through crashes and recoveries,
\* and a session shown as paused with nobody's command under way stands on a
\* checkpoint that nothing has consumed (checkpoint.py, public_session.py).
THEOREM CheckpointsStayTrue == Spec => []CheckpointsAreTrue
<1>1. SessionInv => RecoverableKnowsAll
  BY DEF SessionInv, Saved, RecoverableKnowsAll
<1>2. SessionInv => PausedIsDurable
  <2> SUFFICES ASSUME SessionInv, live, Projected = "paused", session.owner = "agent",
                      lock = "free"
               PROVE  /\ session.checkpoint = run.checkpoint
                      /\ PausedFacts \in store.saved
    BY DEF PausedIsDurable, PausedFacts
  <2>1. run.status = "paused"
    <3>1. CASE Whole
      BY <3>1, SessionParts DEF Whole, Work, AgentHolds, Projected
    <3>2. CASE Held
      BY <3>2 DEF Held
    <3>3. CASE Lost
      BY <3>3 DEF Lost, Still, AgentHolds, Projected
    <3> QED BY <3>1, <3>2, <3>3, Modes
  <2>2. Held /\ ~Consuming
    BY <2>1, Modes DEF Consuming
  <2> QED BY <2>2 DEF Held
<1>3. SessionInv => CheckpointsAreTrue
  BY <1>1, <1>2 DEF CheckpointsAreTrue
<1> QED BY <1>3, SessionIsSafe, PTL

\* While the user holds the session no coroutine of the agent can act, and the
\* checkpoint it was taken from is consumed (take_over, return_control).
THEOREM UserIsAlone == Spec => []UserActsAlone
<1>1. SessionInv => UserActsAlone
  <2> SUFFICES ASSUME SessionInv, UserHolds
               PROVE  Still /\ session.checkpoint \in store.resumed
    BY DEF UserActsAlone, UserHolds, Still
  <2>1. CASE ~live
    BY <2>1, NewParts DEF SessionInv, Gone, UserHolds
  <2>2. CASE live /\ run.status # "paused"
    BY <2>2, UserParts
  <2>3. CASE live /\ run.status = "paused"
    BY <2>3, Modes DEF Held, UserHolds, Consuming
  <2> QED BY <2>1, <2>2, <2>3
<1> QED BY <1>1, SessionIsSafe, PTL

\* Only the loop's own crossing sends an effect.
LEMMA OnlyTheLoopSends ==
    ASSUME SessionInv, [Next]_vars, sent' # sent
    PROVE  RunnerSteps /\ Cross /\ Whole
<1>1. RunnerSteps
  <2>1. Approve => sent' = sent
    BY DEF Approve, CloseStep
  <2> QED BY <2>1
    DEF Next, vars, loopVars, RunnerNext, RunnerSettles, RunnerReturns, RunnerFails, CommitPause,
        PauseCommitted, PersistenceFails, RefreshReturns, RefreshFails, LockNext,
        ResumeCommitted, TakeOverFails, TakeOverGranted, ReturnRefreshed, ReturnFails,
        TakeOverPaused, CommandNext, StartTask, StartRun, RespondInteraction, Answer,
        RespondRejected, ConfirmAction, Decline, CancelTask, RequestToRunner,
        RequestApplied, RequestStranded, PauseTask, PauseRequested, ResumeTask,
        TakeOver, ReturnControl, CloseSession, Crash, Recover
<1>2. Cross
  BY <1>1 DEF RunnerSteps, LoopStep, StartReturns, StartRaises, LoopLeaves, StopBeforePolicy,
     AskPolicy, ContextRefused, PolicyFails, StopAfterPolicy, DecideLocally,
     DecideToCall, CallEnvironment, ExecuteNotSent, ExecuteCancelled,
     ExecuteSent, AfterDispatch, ObserveReturns, ObserveRaises,
     FinalizeReturns, AnswerReturns, AnswerRaises, CloseStep
<1> QED BY <1>1, <1>2, Modes DEF RunnerSteps, Cross

\* An effect leaves only a live, agent-owned session whose run is running,
\* with no pause between its boundary and its commit.
THEOREM DispatchStaysOwned == Spec => DispatchIsOwned
<1> DEFINE Owned == sent' # sent =>
        /\ live /\ session.active /\ session.owner = "agent"
        /\ run.status = "running"
        /\ settle \in {"none", "continued"}
<1>1. SessionInv /\ [Next]_vars => [Owned]_vars
  <2> SUFFICES ASSUME SessionInv, [Next]_vars, sent' # sent PROVE Owned
    OBVIOUS
  <2>1. live /\ Cross /\ Whole
    BY OnlyTheLoopSends DEF RunnerSteps
  <2> QED BY <2>1, SessionParts
          DEF Cross, Whole, Work, Settling, SettlePhases, AgentHolds, LoopInv, PlaceAgrees, Turn
<1> QED BY <1>1, SessionIsSafe, PTL DEF Spec, DispatchIsOwned

\* The environment is released when nobody is in the loop
\* (_cleanup_if_closed_or_terminal, close).
THEOREM ReleaseWaits == Spec => ReleaseAfterRunner
<1> DEFINE Waits == (live' /\ session'.cleaned # session.cleaned) =>
                        ~session'.active /\ step'.at \in Outside
<1>1. SessionInv /\ [Next]_vars => [Waits]_vars
  <2> SUFFICES ASSUME SessionInv, [Next]_vars, live', session'.cleaned # session.cleaned
               PROVE  ~session'.active /\ step'.at \in Outside
    OBVIOUS
  <2>1. SessionInv'
    BY SessionStep
  <2>2. session \in Session
    BY SessionParts
  <2>3. ~session'.active
    <3>1. CASE RunnerNext
      BY <2>2, <3>1
      DEF RunnerNext, RunnerSteps, sessionOnly, RunnerSettles, RunnerReturns, RunnerFails,
          CommitPause, PauseCommitted, PersistenceFails, RefreshReturns, RefreshFails,
          RunnerEnds, Session
    <3>2. CASE LockNext
      BY <2>2, <3>2
      DEF LockNext, ResumeCommitted, TakeOverFails, TakeOverGranted, ReturnRefreshed,
          ReturnFails, TakeOverPaused, Session
    <3>3. CASE CommandNext
      BY <2>2, <3>3
      DEF CommandNext, StartTask, RespondInteraction, RespondRejected, ConfirmAction,
          CancelTask, PauseTask, ResumeTask, TakeOver, TakeOverPaused, ReturnControl,
          CloseSession, RunnerStarts, RunnerEnds, Session
    <3>4. CASE Recover
      BY <3>4 DEF Recover, SessionInv, Gone, NewSession
    <3>5. ~Crash
      BY DEF Crash
    <3>6. session' # session
      OBVIOUS
    <3> QED BY <3>1, <3>2, <3>3, <3>4, <3>5, <3>6 DEF Next, vars, sessionOnly
  <2>4. step'.at \in Outside
    BY <2>1, <2>3 DEF SessionInv, Whole, Work, Held, Lost, Still, Outside
  <2> QED BY <2>3, <2>4
<1> QED BY <1>1, SessionIsSafe, PTL DEF Spec, ReleaseAfterRunner
-----------------------------------------------------------------------------
(* The refinement of RunLifecycle.                                         *)

\* What each stage says of the session.
LEMMA StageIs ==
    ASSUME live \in BOOLEAN
    PROVE  /\ Stage = "gone" <=> ~live
           /\ Stage = "new" <=> live /\ run.status = "none"
           /\ Stage = "over" <=> live /\ run.status # "none" /\ Terminal(run)
           /\ Stage = "user" <=> live /\ run.status # "none" /\ ~Terminal(run) /\ UserHolds
           /\ Stage = "held" <=> /\ live /\ run.status # "none" /\ ~Terminal(run)
                                 /\ ~UserHolds /\ AtPause(run)
           /\ Stage = "open" <=> /\ live /\ run.status # "none" /\ ~Terminal(run)
                                 /\ ~UserHolds /\ ~AtPause(run)
BY DEF Stage, UserHolds

\* A session that is not open, or not in the loop, knows every effect.
LEMMA KnowsAll ==
    ASSUME SessionInv, live,
           \/ Stage # "open"
           \/ step.at = "returned" /\ LoopInv
           \/ step.at \in {"start", "top", "answer"}
    PROVE  run.execs = sent
<1>1. run.execs \in Nat /\ live \in BOOLEAN
  BY SessionParts DEF Run
<1>2. CASE Held
  BY <1>2 DEF Held
<1>3. CASE Lost /\ Stage # "open"
  <2>1. run.status # "none" /\ ~Terminal(run) /\ ~UserHolds /\ ~AtPause(run)
    BY <1>3, SessionParts DEF Lost, AgentHolds, UserHolds, Terminal, Ended, AtPause
  <2> QED BY <1>1, <1>3, <2>1, StageIs
<1>4. CASE step.at \in {"idle", "start", "top", "answer", "returned"} /\ LoopInv
  BY <1>1, <1>4 DEF LoopInv, Balanced, InFlight
<1>5. CASE step.at \in Turn /\ Whole /\ Stage # "open"
  <2>1. run.status = "running" /\ run.boundary = None /\ session.active
    BY <1>5 DEF Whole, LoopInv, PlaceAgrees, Work, Turn
  <2>2. ~Terminal(run) /\ ~UserHolds /\ ~AtPause(run)
    BY <1>5, <2>1, SessionParts DEF Whole, Work, AgentHolds, UserHolds, Terminal, Ended, AtPause
  <2> QED BY <1>1, <1>5, <2>1, <2>2, StageIs
<1>6. CASE step.at = "raised" /\ Whole /\ Stage # "open"
  <2>1. CASE run.status = "running"
    <3>1. session.active
      BY <1>6 DEF Whole, Work
    <3>2. ~Terminal(run) /\ ~UserHolds /\ ~AtPause(run)
      BY <1>6, <2>1, <3>1, SessionParts
      DEF Whole, RaisedShape, Work, AgentHolds, UserHolds, Terminal, Ended, AtPause
    <3> QED BY <1>1, <1>6, <2>1, <3>2, StageIs
  <2>2. CASE run.status # "running"
    BY <1>6, <2>2 DEF Whole, RaisedShape
  <2> QED BY <2>1, <2>2
<1>7. step.at \in {"idle", "start", "top", "answer", "returned", "raised"} \cup Turn
  BY SessionParts DEF Step, Awaits, Outside
<1>8. CASE Lost /\ Stage = "open"
  BY <1>4, <1>8 DEF Lost, Still
<1>9. CASE Whole
  BY <1>4, <1>5, <1>6, <1>7, <1>9 DEF Whole, Turn
<1> QED BY <1>2, <1>3, <1>8, <1>9, Modes

\* A step that knows every effect before and after is a move of the lifecycle,
\* if it goes where the lifecycle may go.
LEMMA MayMove ==
    ASSUME live, live', live \in BOOLEAN, live' \in BOOLEAN,
           run.execs = sent, run'.execs = sent, sent' = sent,
           run'.status = "none" => run.status = "none",
           run.status = "none" => ~AtPause(run') /\ ~UserHolds',
           Terminal(run) => Terminal(run'),
           UserHolds' => UserHolds \/ AtPause(run),
           UserHolds /\ ~UserHolds' => ~AtPause(run') \/ Terminal(run')
    PROVE  [Lifecycle!Next]_(Lifecycle!lifecycle)
<1>1. /\ Stage \in {"new", "over", "user", "held", "open"}
      /\ Stage' \in {"new", "over", "user", "held", "open"}
  BY DEF Stage
<1>2. /\ Stage = "new" => Stage' \in {"new", "open", "over"}
      /\ Stage = "over" => Stage' = "over"
      /\ Stage = "user" => Stage' \in {"user", "open", "over"}
      /\ Stage = "open" => Stage' \in {"open", "held", "over"}
      /\ Stage = "held" => Stage' \in {"held", "open", "user", "over"}
  BY DEF Stage, UserHolds, Terminal, Ended
<1> QED BY <1>1, <1>2
        DEF Lifecycle!Next, Lifecycle!Begin, Lifecycle!Settle, Lifecycle!Move, Lifecycle!lifecycle
\* A step that leaves the run, the lease and the process alone is none.
LEMMA StageStays ==
    ASSUME run' = run, sent' = sent, live' = live,
           session'.owner = session.owner, session'.returning = session.returning
    PROVE  [Lifecycle!Next]_(Lifecycle!lifecycle)
<1>1. Stage' = Stage
  BY DEF Stage
<1> QED BY <1>1 DEF Lifecycle!lifecycle

\* The loop's steps are steps of the lifecycle: an effect, the account of it,
\* the beginning, or a move.
LEMMA RunnerStepsMove ==
    ASSUME SessionInv, SessionInv', RunnerSteps
    PROVE  [Lifecycle!Next]_(Lifecycle!lifecycle)
<1>1. /\ live /\ LoopStep /\ session' = session /\ live' = live
  BY DEF RunnerSteps, sessionOnly
<1>2. step.at \in Awaits \cup {"top"}
  BY <1>1, LoopStepFrom
<1>3. Whole /\ LoopInv /\ PlaceAgrees /\ Balanced
  BY <1>1, <1>2, Modes DEF Awaits, Turn, Whole, LoopInv
<1>4. /\ session.active /\ ~UserHolds /\ ~UserHolds'
      /\ run.status = "none" => step.at = "start"
  BY <1>1, <1>2, <1>3, SessionParts DEF Whole, Work, Awaits, Turn, AgentHolds, UserHolds
<1>5. LoopInv' /\ LeavesNamed /\ PlaceAgrees' /\ Balanced' /\ step'.at # "idle"
  BY <1>1, <1>3, <1>4, LoopStepKeeps, LoopStepRaises DEF LoopInv
<1>6. /\ run.execs \in Nat /\ run'.execs \in Nat /\ sent \in Nat /\ sent' \in Nat
      /\ live \in BOOLEAN /\ step' \in Step
  BY <1>5, SessionParts DEF Run, LoopInv, LoopTypeOK
<1>7. CASE step'.at = "raised" /\ sent' = sent
  BY <1>1, <1>5, <1>7, StageStays DEF LeavesNamed
<1>8. CASE sent' # sent
  <2>1. Cross
    BY <1>8, OnlyTheLoopSends DEF Next, RunnerNext
  <2>2. /\ step.at = "execute" /\ step.dispatch = "not_sent" /\ sent' = sent + 1
        /\ run' = run /\ run.status = "running" /\ run.boundary = None
    BY <1>3, <2>1 DEF Cross, PlaceAgrees, Turn
  <2>3. run.execs = sent
    BY <1>3, <1>6, <2>2 DEF Balanced, InFlight
  <2>4. Stage = "open" /\ Stage' = "open"
    BY <1>1, <1>4, <2>2 DEF Stage, UserHolds, Terminal, Ended, AtPause
  <2> QED BY <2>2, <2>3, <2>4 DEF Lifecycle!Next, Lifecycle!Effect
<1>9. CASE step.at = "start" /\ step'.at # "raised" /\ sent' = sent
  <2>1. StartReturns
    BY <1>1, <1>9 DEF LoopStep, StartRaises, LoopLeaves, StopBeforePolicy,
       AskPolicy, ContextRefused, PolicyFails, StopAfterPolicy, DecideLocally,
       DecideToCall, Cross, ExecuteNotSent, ExecuteCancelled, ExecuteSent,
       AfterDispatch, ObserveReturns, ObserveRaises, FinalizeReturns,
       AnswerReturns, AnswerRaises, GoTo
  <2>2. run = NoRun /\ run'.boundary = None /\ run'.execs = 0 /\ run'.status # "none"
    BY <1>3, <1>9, <2>1 DEF StartReturns, PlaceAgrees, InitialRun, NoRun, Verdicts
  <2>3. run.execs = sent
    BY <1>1, <1>9, KnowsAll
  <2> QED BY <1>1, <1>4, <1>6, <1>9, <2>2, <2>3, MayMove DEF NoRun, AtPause, Terminal, Ended
<1>10. CASE Terminal(run) /\ sent' = sent
  <2>1. /\ run.status \in Ended /\ run # NoRun
    BY <1>10 DEF Terminal, Ended, NoRun
  <2>2. step.at = "top" /\ ~Runs
    BY <1>2, <1>3, <2>1 DEF PlaceAgrees, Awaits, Turn, Ended, Runs
  <2>3. run' = run
    BY <1>1, <2>2 DEF LoopStep, StartReturns, StartRaises, LoopLeaves, StopBeforePolicy,
       AskPolicy, ContextRefused, PolicyFails, StopAfterPolicy, DecideLocally,
       DecideToCall, Cross, ExecuteNotSent, ExecuteCancelled, ExecuteSent,
       AfterDispatch, ObserveReturns, ObserveRaises, FinalizeReturns,
       AnswerReturns, AnswerRaises
  <2> QED BY <1>1, <1>10, <2>3, StageStays
<1>11. CASE step.at # "start" /\ ~Terminal(run) /\ step'.at # "raised" /\ sent' = sent
  <2>1. run.status # "none" /\ run'.status # "none"
    BY <1>4, <1>5, <1>6, <1>11 DEF LeavesNamed, PlaceAgrees, Step, Awaits, Outside, Turn, NoRun, LoopInv
  <2>2. /\ sent = run.execs + InFlight /\ sent = run'.execs + InFlight'
        /\ InFlight \in {0, 1} /\ InFlight' \in {0, 1}
        /\ run'.execs \in {run.execs, run.execs + 1}
    BY <1>3, <1>2, <1>5, <1>11 DEF Balanced, InFlight, LeavesNamed, Awaits, Turn
  <2>3. CASE run.execs = sent /\ run'.execs = sent
    BY <1>1, <1>4, <1>6, <1>11, <2>1, <2>3, MayMove
  <2>4. CASE run.execs # sent
    <3>1. /\ InFlight = 1 /\ run.execs < sent
          /\ \/ run'.execs = sent
             \/ run'.execs = run.execs /\ InFlight' = 1
      BY <1>6, <2>2, <2>4
    <3>2. step.at \in Turn
      BY <1>3, <3>1 DEF Balanced, InFlight, Turn
    <3>3. Stage = "open"
      BY <1>1, <1>3, <1>4, <3>2 DEF PlaceAgrees, Stage, UserHolds, Terminal, Ended, AtPause
    <3>4. CASE run'.execs = sent
      <4>1. Stage' \in {"open", "held", "over"}
        BY <1>1, <1>4, <2>1 DEF Stage, UserHolds
      <4> QED BY <1>11, <3>1, <3>3, <3>4, <4>1 DEF Lifecycle!Next, Lifecycle!Account
    <3>5. CASE run'.execs = run.execs /\ InFlight' = 1
      <4>1. step'.at \in Turn
        BY <1>5, <3>5 DEF Balanced, InFlight, Turn
      <4>2. Stage' = "open"
        BY <1>1, <1>4, <1>5, <4>1 DEF PlaceAgrees, Stage, UserHolds, Terminal, Ended, AtPause
      <4> QED BY <1>11, <3>3, <3>5, <4>2 DEF Lifecycle!lifecycle
    <3> QED BY <3>1, <3>4, <3>5
  <2> QED BY <1>6, <2>2, <2>3, <2>4
<1> QED BY <1>7, <1>8, <1>9, <1>10, <1>11
\* A step of an agent-owned session at rest, whatever it makes of the run.
LEMMA AgentMoves ==
    ASSUME SessionInv, live, live' = live, sent' = sent, step.at = "returned",
           ~UserHolds, ~UserHolds', run.status # "none", run'.status # "none",
           ~Terminal(run), run'.execs = run.execs, Whole \/ Held
    PROVE  [Lifecycle!Next]_(Lifecycle!lifecycle)
<1>1. run.execs = sent
  BY KnowsAll DEF Held, Whole
<1> QED BY <1>1, SessionParts, MayMove

\* The runner between two awaits, and the settling of a pause.
LEMMA SettlingMoves ==
    ASSUME SessionInv, RunnerSettles \/ RunnerReturns \/ RunnerFails \/ CommitPause
                         \/ PauseCommitted \/ PersistenceFails \/ RefreshReturns \/ RefreshFails
    PROVE  [Lifecycle!Next]_(Lifecycle!lifecycle)
<1>1. live /\ live' = live /\ sent' = sent
  BY DEF RunnerSettles, RunnerReturns, RunnerFails, CommitPause, PauseCommitted,
     PersistenceFails, RefreshReturns, RefreshFails, loopVars
<1>2. session'.owner = session.owner /\ session'.returning = session.returning
  BY SessionParts
  DEF RunnerSettles, RunnerReturns, RunnerFails, CommitPause, PauseCommitted,
      PersistenceFails, RefreshReturns, RefreshFails, RunnerEnds, Session
<1>3. CASE RunnerSettles \/ RunnerReturns \/ RunnerFails \/ CommitPause \/ RefreshFails
  <2>1. run' = run
    BY <1>3 DEF RunnerSettles, RunnerReturns, RunnerFails, CommitPause, RefreshFails, loopVars
  <2> QED BY <1>1, <1>2, <2>1, StageStays
<1>4. CASE PauseCommitted \/ PersistenceFails \/ RefreshReturns
  <2>1. settle \in {"commit", "committed", "refresh"}
    BY <1>4 DEF PauseCommitted, PersistenceFails, RefreshReturns
  <2>2. Whole
    BY <1>1, <2>1, Modes
  <2>3. /\ step.at = "returned" /\ ~UserHolds /\ ~UserHolds'
        /\ settle # "refresh" => AtPause(run)
        /\ settle = "refresh" => run.status = "running"
    BY <1>2, <2>1, <2>2, SessionParts DEF Whole, Settling, Work, AgentHolds, UserHolds
  <2>4. run.status \in Resumable /\ run \in Run
    BY <2>1, <2>2, <2>3, RestParts DEF Whole, Resumable
  <2>5. run'.status # "none" /\ run'.execs = run.execs
    <3>1. CASE PauseCommitted
      BY <2>4, <3>1 DEF PauseCommitted, DurablyPaused, Run
    <3>2. CASE PersistenceFails
      BY <2>4, <3>2 DEF PersistenceFails, BoundaryResumed, Run, Resumable, Waiting
    <3>3. CASE RefreshReturns
      <4>1. PICK v \in Verdicts : run' = Applied(run, Evaluated(v), FALSE)
        BY <3>3 DEF RefreshReturns
      <4> QED BY <4>1, EvaluatedParts, SessionParts DEF Verdicts
    <3> QED BY <1>4, <3>1, <3>2, <3>3
  <2>6. run.status # "none" /\ ~Terminal(run)
    BY <2>4 DEF Resumable, Waiting, Terminal, Ended
  <2> QED BY <1>1, <2>2, <2>3, <2>5, <2>6, AgentMoves
<1> QED BY <1>3, <1>4

\* Commands that start the runner.
LEMMA EntranceMoves ==
    ASSUME SessionInv, SessionInv',
           StartTask \/ RespondInteraction \/ RespondRejected \/ ConfirmAction
    PROVE  [Lifecycle!Next]_(Lifecycle!lifecycle)
<1>1. live /\ live' = live /\ session.owner = "agent" /\ ~session.returning
  BY DEF StartTask, RespondInteraction, RespondRejected, ConfirmAction, Admits
<1>2. session'.owner = session.owner /\ session'.returning = session.returning
  BY SessionParts
  DEF StartTask, RespondInteraction, RespondRejected, ConfirmAction, RunnerEnds,
      RunnerStarts, Session
<1>3. CASE StartTask \/ RespondInteraction \/ RespondRejected
  <2>1. run' = run /\ sent' = sent
    BY <1>3 DEF StartTask, StartRun, RespondInteraction, Answer, RespondRejected, loopVars
  <2> QED BY <1>1, <1>2, <2>1, StageStays
<1>4. CASE ConfirmAction
  <2>1. step.at = "returned" /\ run.status = "waiting_confirmation" /\ run.boundary = None
    BY <1>4 DEF ConfirmAction, Approve, Decline
  <2>2. Whole /\ ~UserHolds /\ ~UserHolds'
    BY <1>1, <1>2, <2>1, Modes DEF UserHolds
  <2>3. run.status # "none" /\ ~Terminal(run) /\ run \in Run /\ run.execs = sent
    BY <1>1, <2>1, <2>2, KnowsAll, SessionParts DEF Terminal, Ended, Whole
  <2>4. session'.active
    BY <1>4, SessionParts, RunnerStartsParts DEF ConfirmAction
  <2>5. sent' = sent
    BY <1>4 DEF ConfirmAction, Approve, Decline, CloseStep
  <2>6. run'.status # "none" /\ run'.execs = run.execs
    <3>1. CASE Decline
      BY <2>3, <3>1 DEF Decline, Applied, LeftWaiting, SameWorld, Run
    <3>2. CASE run' = LeftWaiting(run)
      BY <2>3, <3>2 DEF LeftWaiting, Run
    <3>3. CASE \E status \in {"running", "blocked"} : CloseStep(SameWorld(status), FALSE)
      <4>1. PICK status \in {"running", "blocked"} : CloseStep(SameWorld(status), FALSE)
        BY <3>3
      <4> DEFINE s == SameWorld(status)
                 no == FALSE
      <4>2. s \in Result /\ s.boundary = None /\ no \in BOOLEAN /\ ~no /\ CloseStep(s, no)
        BY <2>3, <4>1, ResultsAre DEF Resumable, Ended
      <4> HIDE DEF s, no
      <4>3. step'.at = "top" /\ run'.status # "none"
        BY <2>1, <2>2, <4>2, CloseNames DEF Whole
      <4>4. Whole'
        <5>1. LoopInv'
          <6>1. Approve
            BY <1>4, <2>1, <4>1 DEF Approve
          <6> QED BY <2>2, <6>1, EntranceKeeps DEF Whole
        <5> QED BY <5>1, <2>4, <1>1, <4>3 DEF SessionInv, Held, Lost, Still
      <4>5. sent' = run'.execs + 0 /\ run'.execs \in Nat
        BY <4>3, <4>4 DEF Whole, LoopInv, Balanced, InFlight, LoopTypeOK, Run
      <4> QED BY <2>3, <2>5, <4>3, <4>5
    <3> QED BY <1>4, <3>1, <3>2, <3>3 DEF ConfirmAction, Approve
  <2> QED BY <1>1, <2>1, <2>2, <2>3, <2>5, <2>6, AgentMoves
<1> QED BY <1>3, <1>4

\* A loop that will have returned will know every effect.
LEMMA RestExecs ==
    ASSUME LoopInv', step'.at = "returned"
    PROVE  run'.execs = sent'
<1>1. run'.execs \in Nat
  BY DEF LoopInv, LoopTypeOK, Run
<1> QED BY <1>1 DEF LoopInv, Balanced, InFlight

\* Control commands.
LEMMA ControlMoves ==
    ASSUME SessionInv, CancelTask \/ PauseTask \/ TakeOver
    PROVE  [Lifecycle!Next]_(Lifecycle!lifecycle)
<1>1. /\ live /\ live' = live /\ AgentHolds /\ lock = "free"
      /\ session'.owner = session.owner /\ session'.returning = session.returning
  BY SessionParts, AdmittedParts DEF CancelTask, PauseTask, TakeOver, Session
<1>2. PICK kind \in Kinds :
        RequestToRunner(kind) \/ RequestApplied(kind) \/ RequestStranded(kind)
  BY DEF CancelTask, PauseTask, TakeOver, PauseRequested, Kinds
<1>3. CASE RequestToRunner(kind) \/ RequestStranded(kind)
  BY <1>1, <1>3, StageStays DEF RequestToRunner, RequestStranded
<1>4. CASE RequestApplied(kind)
  <2>1. step.at = "returned" /\ sent' = sent /\ LoopInv' /\ run'.status # "none" /\ step' = step
    BY <1>1, <1>4, RequestAppliedParts
  <2>2. /\ ~Terminal(run)
        /\ run.status \in Waiting \/ AtPause(run)
    BY <1>4 DEF RequestApplied, ControlAtRest
  <2>3. Whole \/ Held
    BY <1>1, <2>2, Modes DEF Lost, Waiting, AtPause
  <2>4. run.status # "none" /\ run.execs = sent
    <3>1. CASE Whole
      BY <2>1, <2>2, <3>1, <1>1, KnowsAll, RestParts DEF Whole, Waiting, Resumable
    <3>2. CASE Held
      BY <3>2 DEF Held
    <3> QED BY <2>3, <3>1, <3>2
  <2>5. run'.execs = sent
    BY <2>1, RestExecs
  <2> QED BY <1>1, <2>1, <2>2, <2>3, <2>4, <2>5, SessionParts, AgentMoves
          DEF AgentHolds, UserHolds, RequestApplied
<1> QED BY <1>2, <1>3, <1>4

\* The lock's own steps, and the commands of the lease.
LEMMA LeaseMoves ==
    ASSUME SessionInv,
           \/ ResumeTask \/ ResumeCommitted \/ TakeOverPaused \/ TakeOverFails \/ TakeOverGranted
           \/ ReturnControl \/ ReturnRefreshed \/ ReturnFails \/ CloseSession
    PROVE  [Lifecycle!Next]_(Lifecycle!lifecycle)
<1>1. live /\ live' = live /\ sent' = sent
  BY DEF ResumeTask, Admits, ResumeCommitted, TakeOverPaused, TakeOverFails, TakeOverGranted,
     ReturnControl, ReturnRefreshed, ReturnFails, CloseSession, loopVars
<1>2. CASE ResumeTask \/ TakeOverPaused \/ TakeOverFails \/ CloseSession
  <2>1. /\ run' = run /\ session'.owner = session.owner
        /\ session'.returning = session.returning
    BY <1>2, SessionParts
    DEF ResumeTask, TakeOverPaused, TakeOverFails, CloseSession, loopVars, Session
  <2> QED BY <1>1, <2>1, StageStays
<1>3. CASE ResumeCommitted
  <2>1. Held
    BY <1>1, <1>3, Modes DEF ResumeCommitted
  <2>2. run' = RunResumed /\ session'.owner = session.owner /\ session'.returning = session.returning
    BY <1>3, SessionParts DEF ResumeCommitted, Session
  <2>3. run'.status \in Resumable \cup {"done", "blocked"} /\ run'.execs = run.execs
    BY <2>1, <2>2, RunResumedParts, SessionParts DEF Held
  <2>4. ~UserHolds
    BY <1>3, <2>1 DEF Held, UserHolds, ResumeCommitted
  <2> QED BY <1>1, <2>1, <2>2, <2>3, <2>4, AgentMoves
          DEF Held, Still, UserHolds, Resumable, Waiting, Terminal, Ended
<1>4. CASE TakeOverGranted
  <2>1. Held /\ run' = run
    BY <1>1, <1>4, Modes DEF TakeOverGranted, loopVars
  <2>2. /\ run.status = "paused" /\ run.execs = sent /\ AtPause(run) /\ ~Terminal(run)
    BY <2>1 DEF Held, Terminal, Ended
  <2>3. UserHolds'
    BY <1>4, SessionParts DEF TakeOverGranted, UserHolds, Session
  <2> QED BY <1>1, <2>1, <2>2, <2>3, SessionParts, MayMove
<1>5. CASE ReturnControl
  <2> DEFINE left == IF run.status = "paused" THEN RunResumed ELSE run
  <2>1. /\ session.owner = "user" /\ UserHolds
        /\ \/ /\ MayRefresh(left) /\ run' = LeftWaiting(left)
              /\ session' = [session EXCEPT !.owner = "agent", !.returning = TRUE]
           \/ run' = left /\ session' = session
    BY <1>5 DEF ReturnControl, UserHolds
  <2>2. UserHolds'
    BY <2>1, SessionParts DEF UserHolds, Session
  <2>3. /\ left \in Run /\ left.execs = run.execs /\ run.execs = sent
        /\ left.status \notin {"none"} /\ run.status # "none"
        /\ Terminal(run) => left = run
    <3>1. CASE run.status = "paused"
      <4>1. Held
        BY <1>1, <3>1, Modes
      <4>2. /\ RunResumed \in Run /\ RunResumed.execs = run.execs /\ RunResumed.status # "none"
        BY <4>1, RunResumedParts, SessionParts DEF Held, Resumable, Waiting
      <4> QED BY <3>1, <4>1, <4>2 DEF Held, Terminal, Ended
    <3>2. CASE run.status # "paused"
      <4>1. Whole /\ Still /\ run.status \in {"running", "done", "blocked"}
        BY <1>1, <2>1, <3>2, UserParts
      <4> QED BY <1>1, <3>2, <4>1, KnowsAll, SessionParts DEF Whole, Still
    <3> QED BY <3>1, <3>2
  <2>4. MayRefresh(left) => left.status \notin Ended
    BY DEF MayRefresh, Resumable, Waiting, Ended
  <2> HIDE DEF left
  <2>5. /\ run'.execs = sent /\ run'.status # "none"
        /\ Terminal(run) => Terminal(run')
    BY <2>1, <2>3, <2>4, LeftWaitingParts DEF Terminal
  <2> QED BY <1>1, <2>1, <2>2, <2>3, <2>5, SessionParts, MayMove
<1>6. CASE ReturnRefreshed
  <2>1. Whole /\ UserHolds
    BY <1>1, <1>6, Modes DEF ReturnRefreshed, Whole, Work, UserHolds
  <2>2. /\ Still /\ run.status = "running" /\ run.boundary = None /\ session.owner = "agent"
    BY <1>6, <2>1 DEF Whole, Lease, Work, ReturnRefreshed
  <2>3. run.execs = sent
    BY <1>1, <2>1, <2>2, KnowsAll DEF Whole, Still
  <2>4. PICK v \in Verdicts : run' = Applied(run, Evaluated(v), FALSE)
    BY <1>6 DEF ReturnRefreshed
  <2>5. run'.status = v /\ run'.boundary = None /\ run'.execs = sent
    BY <2>2, <2>3, <2>4, EvaluatedParts, SessionParts
  <2>6. ~UserHolds'
    BY <1>6, <2>2, SessionParts DEF ReturnRefreshed, UserHolds, Session
  <2> QED BY <1>1, <2>1, <2>2, <2>3, <2>5, <2>6, SessionParts, MayMove
          DEF Terminal, Ended, AtPause, Verdicts
<1>7. CASE ReturnFails
  <2>1. Whole /\ UserHolds
    BY <1>1, <1>7, Modes DEF ReturnFails, Whole, Work, UserHolds
  <2>2. Still /\ run' = run /\ run.status = "running"
    BY <1>7, <2>1 DEF Whole, Lease, Work, ReturnFails, loopVars
  <2>3. run.execs = sent
    BY <1>1, <2>1, <2>2, KnowsAll DEF Whole, Still
  <2>4. UserHolds'
    BY <1>7, SessionParts DEF ReturnFails, UserHolds, Session
  <2> QED BY <1>1, <2>1, <2>2, <2>3, <2>4, SessionParts, MayMove
<1> QED BY <1>2, <1>3, <1>4, <1>5, <1>6, <1>7

\* The initial state is one of the lifecycle.
LEMMA LifecycleStarts == Init => Lifecycle!Init
BY DEF Init, LoopInit, NoRun, Lifecycle!Init, Stage

\* Every step is a step of the lifecycle, or none.
LEMMA LifecycleStep ==
    ASSUME SessionInv, SessionInv', [Next]_vars
    PROVE  [Lifecycle!Next]_(Lifecycle!lifecycle)
<1>1. CASE RunnerNext
  BY <1>1, RunnerStepsMove, SettlingMoves DEF RunnerNext
<1>2. CASE LockNext
  BY <1>2, LeaseMoves DEF LockNext
<1>3. CASE CommandNext
  BY <1>3, EntranceMoves, ControlMoves, LeaseMoves DEF CommandNext
<1>4. CASE Crash
  <2>1. Stage # "gone" /\ Stage' = "gone" /\ run'.execs = 0 /\ sent' = sent
    BY <1>4, SessionParts, StageIs DEF Crash, Stage, NoRun
  <2> QED BY <2>1 DEF Lifecycle!Next, Lifecycle!Die
<1>5. CASE Recover
  <2>1. PICK f \in store.saved, v \in Verdicts : run' = Hydrated(f, v)
    BY <1>5 DEF Recover
  <2>2. f \in Facts /\ f.execs = sent /\ f.boundary # None /\ f.boundary.kind = "pause"
    BY <2>1, SessionParts, NoneAssumption DEF SessionInv, Saved, Facts
  <2>3. /\ run'.status = "paused" /\ run'.boundary = f.boundary /\ run'.execs = sent
    BY <2>1, <2>2, HydratedParts
  <2>4. ~live /\ live' /\ sent' = sent /\ session'.owner = "agent" /\ ~session'.returning
    BY <1>5, NewParts DEF Recover, Session
  <2>5. Stage = "gone" /\ Stage' = "held"
    BY <2>2, <2>3, <2>4 DEF Stage, Terminal, Ended, AtPause
  <2> QED BY <2>3, <2>4, <2>5 DEF Lifecycle!Next, Lifecycle!Revive
<1>6. CASE UNCHANGED vars
  BY <1>6, StageStays DEF vars, loopVars, sessionOnly
<1> QED BY <1>1, <1>2, <1>3, <1>4, <1>5, <1>6 DEF Next

\* The session, with its runner, locks, transactions, crashes and recoveries,
\* implements the abstract run: an effect leaves only an open run the agent
\* holds, one at a time, and whoever stops, takes, ends or recovers the run
\* knows of every effect.
THEOREM SessionImplements == Spec => ImplementsLifecycle
<1>1. SessionInv /\ SessionInv' /\ [Next]_vars => [Lifecycle!Next]_(Lifecycle!lifecycle)
  BY LifecycleStep
<1> QED BY <1>1, LifecycleStarts, SessionIsSafe, PTL
        DEF Spec, ImplementsLifecycle, Lifecycle!Spec
=============================================================================
