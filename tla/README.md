# Verification of the affordance runtime

This directory models the runtime of a browser agent as TLA+ modules: who may act and when, what is
durable, what is reported of an effect, what the model is shown and asked, and when a task counts as
done. TLC checks every module on small instances. TLAPS proves nearly all of their safety, for every
value of the constants. Paths are relative to `src/src/affordance_runtime/` unless they start with
`docs/` or `external/`; `external/` is `src/external/interaction-shell/backend/interaction_shell/`.

## 1. The system

A client of the *interaction shell* holds one managed session. Inside it an *assistant* may delegate a
task to a *public session*, which the client can also hold directly. The public session starts a task,
answers questions, confirms risky actions, pauses, resumes, revises, cancels, hands the browser to the user
and takes it back. A *runner* (an asyncio task) carries the *core loop*: acquire the world, deliver a turn
to the policy model, dispatch at most one action, judge the world after it, commit the step.
Commands reach the loop only through the *control owner*, which the loop reads at safe boundaries.
A pause becomes durable as a *checkpoint* in SQLite, from which another process recovers the session.

    client ─> shell manager ─> assistant port ─┐         compilers, judge ─> model port
                    │                          ▼
                    └── command ──> PublicSession ── request ──> control owner
                                      │  ▲                         │  ▲
                            starts,   │  │ how it ended    pending │  │ acknowledge / fail /
                            awaits    ▼  │                         ▼  │ resolve / resume
                                   runner task ────────────────> core loop ──> turn, policy bridge,
                                      │                            │            monitor, judgement
                       settles pause  ▼                            ▼ execute, observe, finalize
                                 checkpoint store        dispatch ─> coordinator ─> surfaces

| Component | State it keeps | What makes it correct | Module |
|---|---|---|---|
| control owner, `agent/run_control.py` | pending request, held pause, bounded history with its eviction order | no request is lost or answered twice; history and order agree | RunControl, proved |
| run state, `agent/run_state.py` | status, boundary, durable checkpoint, budget, execution count, verdict | budget in range, every dispatch counted | RunState (operators) |
| core loop, `agent/core_loop.py` | where it awaits | closed truth for every dispatch; none after an acknowledged pause or cancel | RunLoop, proved |
| public session, `app/public_session*.py`, `app/runtime.py` | status, runner, checkpoint, control lease, lock | paused means durable; user and agent never act together; the lock comes free | PublicSession, proved |
| checkpoint store, `app/checkpoint.py` | checkpoints, command outcomes | a recoverable checkpoint knows every effect and is used up once | in PublicSession, TaskRevision |
| task revision and reconciliation, `actions/reconciliation.py`, `task/revision.py` | the revision at its four owners, the owed effect | owners agree again after every failure; an owed effect is not forgotten | TaskRevision, proved |
| shell session manager, `external/manager.py` | handles, the durable row, locks, expiry | one open handle, a row that lasts, input only under the lease | ShellManager, proved |
| dispatch, risk, confirmation, `actions/`, `risk/`, `confirmation/`, `execution/` | action space, subject of an approval, receipts | what is offered can be done; what is risky was approved | ActionDispatch, proved |
| benchmarks, `benchmarks/target_loop/` | store of results, files, late threads | a record tells the truth, a verdict stays, a run ends | BenchmarkRun, proved |
| goals, task revision compiler, judge's port, `goals/`, `model/providers/port.py` | last call, transcript, circuit, threads of given-up calls | each caller reads its own record; its retry reaches the provider; a plan has an order | ModelCalls, proved |
| policy bridge, `model/policy/pydantic_ai_bridge.py` | the message history | every answer in it is what happened; one allowance for nested retries | PolicyBridge, proved |
| monitor and recovery, `agent/monitor.py`, `agent/recovery.py` | failure center, signals, streaks | a stall ends the run, and only one that earned it | EpisodeMonitor, proved |
| world acquisition, `world/`, and the surfaces' adapters | the current world, sources, owner thread | what is reported of an effect is what happened to it | ObservationSelection, WorldAcquisition, its safety proved |
| turn delivery, `agent/context/`, `model/policy/turn_packer.py`, ... | page, search, plan, catalog | what the policy needs is in its turn | TurnDelivery |
| evaluation, `evaluation/`, `agent/evaluation_control.py` | criteria, evidence, verdicts | done means really done; composer and validator agree | TaskJudgement, proved |
| DOM surface, `surfaces/dom/` | the document of a page, the browser's thread | an observation is one moment; a deed hits what was seen | DomDocument, DomBrowser, proved but for what a complete capture shows |
| assistant port, `external/assistant_port.py` | outer turn, inner GUI session | one turn at a time; it follows its GUI task | AssistantTurns, its safety proved |

What is hard here: a request may arrive in any await of a turn; an effect may be certain, unknown or
cancelled half-way when a pause is waiting for it; a pause has two stages and may fail or die between
commit and memory; threads given up at a deadline go on and write late; pages change between two reads;
several owners keep copies of one fact, and a step that changes all of them may fail in the middle.
`PROJECT.json` lists these hazards at their lines. Five of them have no property; their notes say why.

## 2. The modules

**RunControl** models `CooperativeRunControl`. Its methods are operators from one control record to the
next (`Requested`, `Acknowledged`, `FailedPending`, `ResolvedTerminal`, `Resumed`, `RestoredPaused`), so that
other modules take several in one step. `Record` keeps the dictionary and the order list apart, as the code
does, so that their agreement is a property and not a convention.

**RunState** holds `RunState`, `StepResult` and the methods that change them as operators; `Constructible`
is the check in `StepResult.__post_init__`.

**RunLoop** is the core loop. `step.at` names the await (`start`, `policy`, `execute`, `after`, `observe`,
`finalize`, `answer`), `top` the head of the `while`, `idle`, `returned` and `raised` the places outside.
Everything between two awaits is one action, as asyncio runs it; `RequestControl` interleaves at every
await. `Closed` is `_apply_control_after_closed_step`, `Commit` is `_commit_step`, `CloseStep` their
composition, `Cross` the moment in which an effect leaves (`sent` counts these, and nothing in the code
reads it). Answers of policy, environment and evaluator are free within their contracts.

**PublicSession** EXTENDS RunLoop and adds the session, the phase of `_settle_pause_boundary`, the command
that holds the lock across an await, the durable store, and whether the process lives. `Crash` may happen
anywhere, also between a transaction and its answer; `Recover` hydrates a checkpoint that no resume has consumed.
A command's status check and its taking of the lock are one step (`Admits`): what could come between them is
another command, which the manager's lock of the session keeps out, or a close, which each command looks for under the lock.
**RunLifecycle** is what a session promises of its run (new, open, held, user's, over, gone; effects sent and known), and
**SessionLifecycle** maps the session to it: `ImplementsLifecycle`.

**TaskRevision** is `revise` from its pause to its transaction with every rejection, restored source, crash
and recovery, and the loop's treatment of an owed effect. The revision has four owners: run, environment, model
history, checkpoint. Left out: a failing pause transaction and the waiting statuses (both in PublicSession),
a COMMIT that fails after it took effect, the environment's task after a reconnect, the monitor's
episode after a failed restore, a roll-back whose history or environment step itself raises (only its capture may fail).

**ShellManager** is the manager over one session with concurrent requests, expiry, recovery, shutdown and a
restarted process. **AssistantTurns** is the port behind one of its handles. The two are not composed.

**ActionDispatch** goes from the affordances of a page over classification, action space, admission, risk,
confirmation and binding to dispatch, recovery capture and receipts. Left out: the currentness of a source
inside a fused world, parameter schemas (parameters are legal or not), control requests (RunLoop), a revision
during a confirmation, the public confirm command, the world kept by a cancelled execution, the destination mode
`OPTIONAL`, which no capability of the registry declares.

**ObservationSelection** and **WorldAcquisition** are the choice of sources under a budget and the
coordinator with the three deployments (`dom`, `bundle`, `gym`), their captures, probes, dispatches, owner
thread and deadlines. The page carries a version; an observation remembers the version it saw.

**TurnDelivery** is one turn's page of controls, search, plan, packing and catalog. Left out: rendering (a
record costs one token), the ranker (any one suggestion), path words in the search, parameter schemas, the
steps of the evidence, count and region tools, retained pages (always the default page), the grounding of reads
for observations refused because the world changed, workspace notes.

**ModelCalls** is the structured-model port with its worker threads, retries and circuit, and its callers:
goal compiler, revision compiler, judge, and a caller with the default configuration. One set of roles
per behaviour, since the judge has a port of its own. Left out: the content of messages, private capture, spans, token
counts; a deadline is the choice "no time left".

**PolicyBridge** is the message history from the first call to the stored checkpoint. **EpisodeMonitor**
is every rule of the no-progress verdict with its receipts and signals.

**TaskJudgement** judges trials: a task, at most one requested action, and what may vary from one screen,
or from one observation of a screen, to the next. The screen is real, a showing is how the
sources present it; parts of a control are whole, cut or segmented. The judge may give any answer that cites one
shown or one unseen record. Integrity digests and the bounds of an expression are abstracted, and
`verification/mechanical.py` (route calibration) is left out.

**DomDocument** and **DomBrowser** are the document made of a page's tokens with its controls and selectors,
and the browser session on its thread with capture in steps, projection, probe and deed. Left out: the SVG and
visual-orchestrator branches of a capture, targeted captures, bounding boxes and coordinate transforms,
keyboard and mouse helpers, authored extensions, structured documents, pagination, the before-frame of a bundle, goto history.

**BenchmarkRun** is launcher, runner, store and status of a detached run. Left out: the path without a store,
a launcher that fails after the spawn, the timing of the pid file, metrics, acceptance and viewer flush, a conflicting second official
outcome; cleanup statuses count as "answered". A case without a suite row reads `run_final` though its export may have failed, as in the code.

**MC...** modules instantiate these; **MCComponents** and **MCServices** put components without shared state side by
side: one of them moves in each behaviour, and each is explored in full. **...Proofs** hold the proofs.

Definitions named after a mistake (`RecordForever`, `ConsumedInMemory`, `RunsOn`, ...) are variants of
the one they precede. No specification uses them; substituted for the correct one they break the property they are paired with in `PROJECT.json`.

## 3. The runs

| Run | Distinct states | Shows |
|---|---|---|
| `components` | 474,620 | `HistoryAgrees` (RunControl); `OneTurn`, and under fairness `TurnFollowsGui` (AssistantTurns); `HistoryTellsTheTruth`, `OneAllowance` (PolicyBridge); `StallEnds`, `BlockIsEarned` (EpisodeMonitor); `RecordIsTrue`, `VerdictStays`, and under fairness `RunIsOver` (BenchmarkRun) |
| `public_session` | 165,006 | `CheckpointsAreTrue` (a recoverable checkpoint misses no effect, and paused means durable), `UserActsAlone`, `DispatchIsOwned`, `ReleaseAfterRunner`, the refinement `ImplementsLifecycle`; under fairness `LockIsReleased`, `TurnAnswersRequests` |
| `world` | 79,288 | `ReportIsTrue`, `FaultFreeActionIsSeen`, `EffectLandsOnce`, `AbandonedOwnerIsLeftAlone`; under fairness `DispatchEnds` |
| `services` | 495,439 | `TruthClosed`, `PauseAgrees`, `CancelledMeansCancelled`, `NoDispatchUnderControl`, `EndedStays` (RunLoop); `OfferedCanBeDone`, `RiskyNeedsApproval` (ActionDispatch); `TurnServesAgent` (TurnDelivery); `SessionIsKept`, `InputUnderLease` (ShellManager); `RevisionIsOne`, `RevisionIsDurable` (TaskRevision); `CallsKeepApart`, `PlanIsOrdered` (ModelCalls); `EvaluationIsAccepted`, `JudgementIsEarned` (TaskJudgement); `ObservationIsTrue`, `DeedIsTrue` (DomBrowser) |
| `lost_truth`, `turn_budget`, `cancelled_reopens`, `unsettled_pause`, `unreported`, `unresolved_fails`, `unanswerable`, `stale_history` | violations | one disagreement each, below |

A property that is a conjunction names its parts where it is defined: `CheckpointsAreTrue` is
`RecoverableKnowsAll` and `PausedIsDurable`, `SessionIsKept` is `OneHandle` and `RowUntilExpiry`,
`RevisionIsDurable` is `ConsumedOnce` and `OwedIsRemembered`, `CallsKeepApart` is `RecordIsOwn` and
`RetryReachesProvider`, `TurnServesAgent` is `TurnIsNotLost` and `RequiredIsOffered`, `JudgementIsEarned` is
`CompleteIsEarned` and `OutcomeIsTrue`, `ObservationIsTrue` is `CaptureIsOneMoment` and `CompleteShowsControls`.

### Disagreements of the code with its documents

1. `lost_truth`. A pause acknowledged on the last turn: `_commit_step` (`agent/core_loop.py:903`) turns RUNNING
   into BLOCKED on a result that carries the pause, `StepResult` refuses it, and the exception takes the step's
   execution truth along. `docs/interaction-shell.md:1427` promises one closed truth for every dispatch-crossing attempt.
2. `turn_budget`. A last turn that ends waiting takes the budget to zero; the test for one never fires again,
   and the loop has no bound. `docs/architecture.md:3339` says it has.
3. `cancelled_reopens`. `cancel` of a paused session leaves its checkpoint recoverable, against `docs/interaction-shell.md:978-980`.
4. `unsettled_pause`. After a failed commit the runner continues the loop itself; a second pause reached there
   is never committed, against `docs/interaction-shell.md:967-968`.
5. `unreported`. A cancellation that meets the capture after an uncertain dispatch, its recovery or the health probe
   ends the selection by an exception (`agent/core_loop.py:2041`), and no step reports the dispatch.
6. `unresolved_fails`. A reconciliation asks for a pause under an id that was heard before, or beside a request of the
   user's: the loop raises (`agent/core_loop.py:695`) and the session fails, against `docs/interaction-shell.md:156`.
7. `unanswerable`. The answer to a question asked after a GUI task goes to the finished inner session, which
   refuses it (`external/assistant_port.py:243`, `docs/interaction-shell.md:811`).
8. `stale_history`. A pause between the user's answer and the next policy turn stores a checkpoint whose history
   belongs to the revision before (`app/runtime.py:509`): it is offered for recovery and cannot be restored.

Met while modelling, without a run of their own:

* `EvaluationIsAccepted` holds but for the cases of `NotReviewable`, where composer and validator disagree:
  an unsupported criterion or a malformed expression (the composer answers BLOCKED, the validator raises), a fact,
  artifact or acceptance criterion whose evidence scope does not contain its subject, and a semantic rubric with a
  target and an output scope whose judge cites an artifact.
* The mechanical evaluator ignores the marks of truncation and segments, so a shown part can satisfy a criterion;
  `docs/architecture.md:535-537` and 634 say otherwise. `CompleteIsEarned` leaves these out. A vanished target counts as
  changed, and "unchanged" of a cut control is about the part shown.
* `surfaces/dom/document_model.py:269-272`: a void tag other than `meta` and `link` inside a stripped element
  (`<base>` in the head, `<img>` in `noscript`) leaves the skipping on, and the rest of the page
  loses its controls while the coverage says complete. One page of the run does this, and `CompleteShowsControls` leaves it out.
* A class or positional selector may stand for several controls, and the click goes to the first; a cached picture may be
  paired with an older snapshot (`surfaces/browser_bundle.py:221`); a launch that times out leaves its thread
  and browser behind (`surfaces/dom/thread_session.py:45-47`). `DeedIsTrue` and `ObservationIsTrue` say in their comments what they promise.

### Bounds

* RunControl: three commands (one remembered, one pending, one new), a history of two, the least that tells the
  oldest entry from the newest (128 in the code).
* RunLoop: two turns (the last and one before it; more repeat the first), two sends, a history of two.
  PublicSession: one send, a history of one, two checkpoints (pause, consume, pause again), and three commands. A used-up
  bound makes the environment report "not sent" and a commit fail, both of which the code handles.
* TaskRevision: two commands, two effects, four checkpoints: every order of two runs of `revise`.
  ShellManager: three concurrent requests, three handles (the first, the recovered, one more), two events.
* AssistantTurns: two turns, a log of four, three messages. PolicyBridge: four calls, three revisions, one
  retry. EpisodeMonitor: a window of four, six decisions, one or two tools: a cycle of two shows; members
  beyond the window do not. Cycles longer than half the window are not seen by the monitor at all, and end with the turn budget.
* BenchmarkRun: two cases, one failing write or late thread, a kill at any step. ModelCalls: two threads, plans of three
  items, a delay of one tick, circuits of one and two ticks.
* ActionDispatch: pages of up to three affordances that differ in a declared fact, two selections. TurnDelivery:
  three pages of three to five controls, a page size of two, a soft target of three and a limit of five tokens, three turns, two further worlds.
* TaskJudgement: some twenty trials over four texts, one action each. DomBrowser: nine screens, six webs, two changes of the page, two looks, one action.
* WorldAcquisition: two dispatches, one cancellation, and per deployment the captures and drifts of `MCCaptures`, `MCDrift`.
* No run checks for deadlock: a run, a session, a dispatch that is over stops for good. The liveness properties say what must not stop early.

### Fairness and assumptions

Weak fairness is stated where the code schedules the step itself: the runner's steps and the second half of a command that
holds the lock (PublicSession: policy, environment and evaluator calls have deadlines, SQLite transactions end, asyncio runs
a ready coroutine); the coroutines of the assistant port; the harness of a benchmark and its deadlines; the run's steps and
the timeouts of an acquisition. No command, crash or recovery is ever owed, and episodes, environments, owner threads and worker threads may hang.
`LockIsReleased` has the disjunct `run.remaining = 0`: a takeover whose pause failed waits for the runner, and with an
exhausted budget (disagreement 2) that runner may turn forever.

Assumed of code outside the models: an environment adapter or outcome recovery that fails after a dispatch crossed answers
with a typed result or a typed cancellation; every environment lease can be reconnected; the store does not report the
failure of a transaction it has committed.

## 4. The proofs

| Module | Theorems | Properties |
|---|---|---|
| RunLoopProofs (RunControl) | `ControlTypeSafe`, `HistoryStaysInStep`, `AnsweredOnce`, `PauseHeld` | `HistoryAgrees` |
| RunLoopProofs (RunLoop) | `LoopIsSafe`, `LoopTypeSafe`, `TruthIsClosed`, `PauseStaysAgreed`, `CancelIsFinal`, `NoDispatchAfterControl`, `EndedStaysEnded` | `TruthClosed`, `PauseAgrees`, `CancelledMeansCancelled`, `NoDispatchUnderControl`, `EndedStays` |
| PublicSessionProofs | `SessionTypeSafe`, `CheckpointsStayTrue`, `UserIsAlone`, `DispatchStaysOwned`, `ReleaseWaits`, `SessionImplements` | `CheckpointsAreTrue`, `UserActsAlone`, `DispatchIsOwned`, `ReleaseAfterRunner`, `ImplementsLifecycle` |
| EffectProofs (TaskRevision) | `RevisionIsSafe`, `RevisionTypeSafe`, `RevisionStaysOne`, `RevisionStaysDurable`, `RevisionIsAlone`, `RevisionIsKept` | `RevisionIsOne`, `RevisionIsDurable` |
| EffectProofs (WorldAcquisition) | `WorldIsSound`, `ReportsAreTrue`, `EffectsLandOnce`, `OwnerIsLeftAlone` | `ReportIsTrue`, `EffectLandsOnce`, `AbandonedOwnerIsLeftAlone` |
| AcquisitionProofs (ObservationSelection, WorldAcquisition) | `FaultFreeActionsAreSeen` | `FaultFreeActionIsSeen` |
| ShellManagerProofs | `ManagerIsSafe`, `ManagerTypeSafe`, `SessionStaysKept`, `InputStaysUnderLease` | `SessionIsKept`, `InputUnderLease` |
| ActionProofs (ActionDispatch) | `DispatchIsSound`, `DispatchTypeSafe`, `OffersCanBeDone`, `RiskyIsApproved` | `OfferedCanBeDone`, `RiskyNeedsApproval` |
| ActionProofs (DomBrowser) | `BrowserIsSound`, `CapturesAreOneMoment`, `DeedsAreTrue` | `DeedIsTrue`; of `ObservationIsTrue` its part `CaptureIsOneMoment` |
| ActionProofs (BenchmarkRun) | `BenchIsSound`, `BenchTypeSafe`, `RecordStaysTrue`, `VerdictIsKept` | `RecordIsTrue`, `VerdictStays` |
| CallAndJudgementProofs (ModelCalls) | `CallsAreSound`, `CallTypeSafe`, `CallsStayApart`, `PlanStaysOrdered` | `CallsKeepApart`, `PlanIsOrdered` |
| CallAndJudgementProofs (TaskJudgement) | `EvaluationsAreAccepted`, `JudgementsAreEarned`, `JudgementTypeSafe` | `EvaluationIsAccepted`, `JudgementIsEarned` |
| ComponentProofs (AssistantTurns) | `TurnsAreAlone`, `OneTurnWorks` | `OneTurn` |
| ComponentProofs (EpisodeMonitor) | `MonitorIsSound`, `StallsEnd`, `BlocksAreEarned` | `StallEnds`, `BlockIsEarned` |
| ComponentProofs (PolicyBridge) | `BridgeIsSound`, `HistoriesTellTheTruth`, `AllowanceIsOne` | `HistoryTellsTheTruth`, `OneAllowance` |

**RunControl.** `Good` joins the type, `InStep` (history and order agree, no repetition), `PendingUnanswered` and
`PausedAdmitsOnlyCancel`. They are not inductive apart: that an answer enters the history once needs
`PendingUnanswered`, and only with distinct entries does the eviction drop another command than the one just answered.
`Good` is a predicate on a record, not on the variable, so that the loop's proofs reuse its lemmas.

**RunLoop.** `LoopInv` is `PlaceAgrees` (where the loop is says how the run stands), `Balanced` (`sent` is the
execution count plus the one effect in flight: `TruthClosed` strengthened to the awaits, where it is false as stated),
`PauseAgrees`, `CancelledMeansCancelled`, `Good(control)` and the type. `Fits` links a result with the control
owner it leaves, `ClosedFits` and `CommitKeeps` carry it through the end of a step, also one lost to an exception.

**PublicSession.** A live session is *whole* (`LoopInv` holds), *held* (durably paused, of which `LoopInv` knows nothing) or
*lost* (an exception left the loop with a running run, and nobody can enter it again); a dead one is *gone*.
`SessionInv` says in each mode who may be at work and what the store holds. Most actions keep the mode; the few that
leave it (the commit, the resume, the exception, crash and recovery) are where the argument lies. The refinement follows from `Stage`,
`KnowsAll` (whoever stops, takes, ends or recovers the run knows every effect) and `MayMove`, action by action; `RunLifecycle` has no fairness, so it is proved in full.

**TaskRevision.** Store rows are in order (`StoreIsOrdered`), one command is at work (`OneAtWork`), the checkpoint is the
run's (`CheckpointIsCurrent`), and `OwnersOfRevision` says, for each step of `revise`, which owner already has the new
revision and which run it belongs to. While a revision is installed the latest checkpoint is that of the run to come and not used up.

**WorldAcquisition.** `WorldInv` says of each dispatch where its effect may still come from: a step command that waits in the
owner's queue or is worked on (at most one per dispatch), or a submitted navigation that is out (`PageOK`, `CommandsOK`). `WaitOK`
says who waits for which command. Once a dispatch is known as sent, whatever frame is held, awaited or
accepted since is at least as young as its landing (`SentOK`, `Fresh`, `FrameOK`, `StepOK`); `ClosedOK` is then the report. The steps
of an acquisition are many, but each leads the dispatch on in one of the few ways of `Leads`, and the
invariant is carried over by `Leads` once.

That a dispatch whose every call went well is closed with a world (`FaultFreeActionIsSeen`) is an argument about plans first. A plan
that does not fail requires at least one source, and asks a source only for what it offers (`PlanOK`, through each
step of `Select`: `AddKeeps`, `ResolvedKeeps`, `SelectionKeeps`). The plan of the acquisition that closes
a dispatch requires the structural source and nothing else, because its one need is the verification's or the
lifecycle's; the refined plan keeps that and at most adds an optional look (`RefinedSafe`, `SafeSelection`). `SeenInv` then
follows the one frame that the browsergym step brings: held for the acquisition after the step (`FrameHeld`), and if the page would
not come to rest, captured again once by the recovery (`Recoverable`, `FrameFree`), without which
no sent and faultless dispatch is closed with nothing to show.
It needs `FramesInv` (a frame that the owner thread answers was captured) and `WorldInv`.

**ShellManager.** Each request knows the handle it works on, a handle has one maker and one closer, and
`HandleIsSound` follows it from creation to its close. `MovesKeep` says that one request and one handle change in a
step, which reduces every action to the request's own place in the code. `OneIsOpen` gives one handle.

**ActionDispatch.** The lemmas are about operators: `RiskIsFloored` (declared facts bound the risk), `OneBinding`,
`RouteIsThere` (a least rank by well-foundedness of the naturals), `OptionIs`, `PlaceIsOpen`, `OneAnswers`, `SelectionBinds`,
`OfferIsNotRefused`. `DispatchInv` adds that the selection in progress is of the space it was made from, binds, and is approved where it must be.

**DomBrowser.** The caller waits for the last command it sent and no other, and an action's command is never behind another
one (`QueueIsSound`). While a reading is under way and the page has changed at most once, all that was read
is of the document or of the page as it is now (`ReadingIsSound`), so one comparison of revision and address at the
end tells (`OneMoment`). An action whose command is to come was current when it was probed, and still is if the page stood
still since (`Sound`). That a selector found once in a text finds the control's own element needs an invariant of the parser:
it keeps the opening tags of the text in their order (`FoundOnce`), for texts of every length.

**BenchmarkRun.** `StoreIsTrue` and `CaseIsTrue` say what the tables and files tell of each other and of the case in
progress; `Grows` says what a write, timely or late, may change, and everything a record tells is kept by what grows.

**ModelCalls.** `Recorded` follows what the port has on record through the thread's own steps: nothing until the
response, then its own call. It needs `NoOther` (beside a call that nothing crosses no thread runs) and
`RolesAgree`; that a retry reaches the provider needs `CircuitIsOwned` (a compiler's port opens its circuit only
for a quota) and `RetryIsOpen`. `PlanStaysOrdered` rests on `VisitedIs`, which unfolds the recursive function of the boundary
for the three items of a plan, and `ItemsInTurn`, which finds the order.

**TaskJudgement.** The invariant (`JudgementInv`) is short, the argument is about operators. Every decision rests on the records that its
kind calls for (`JudgedBy`), and the validator, which is written apart from the composer, accepts each of these unless the criterion is
at odds with itself (`AtOdds`). A decided criterion is true of the real screen (`TruthIs`), and an expression that is decided
keeps its value when more of its criteria are (`ExpressionGrows`, by induction on its nodes), so a task that counts as complete
is true under the real values of all its mechanical parts. What an outcome claims of an action holds of the two worlds it compares (`OutcomeIs`).

**AssistantTurns.** At most one turn works, none while a command is about to start one, and none while the
assistant's own question is shown (`TurnInv`): the last part is what lets an answer start a turn.

**EpisodeMonitor.** A center that has seen n steps has more than n members and no more than fit in the window (`Roomy`), so
a stall ends within the window; a center is armed only when its signal is gone, and then the policy was warned. `FewMembers`
bounds the members of a cycle by the length of the window.

**PolicyBridge.** A history is truthful when it pairs every call with an answer of what happened (`Truthful`); a turn at work also has a local
history that closes over the run's last step, and its attempts stay within the one allowance of its
envelope (`TurnTrue`), whichever of the nested loops retries. The invariant covers the stored history too.

Each inductive invariant agrees with TLC on small instances too. The assumptions are the named ones on constants, and TLC
evaluates them on every run:

* bounds are (positive) naturals, the source budget is one or two; `None`, `Nobody`, `Nothing` and `NoRow` are none of the values they stand beside;
* `DispatchAssumption`: the affordances of a page have distinct ids and records of the declared form;
* `BrowserAssumption`: a page is the tokens a browser serializes, with named tags; pages lead to pages, and `Documents` is what `DocumentsOf` makes of them;
* `JudgementAssumption`: an expression is a table of nodes, each after those it is of; a trial requests at most one action, on a named
  target; assurances are the known ones; what a disputed picture reads as is no text of a control.

Data of any length (the text of a page, the nodes of an expression) is met by induction: the provers do not take the library's
induction rules, whose parameter is an operator, but they take well-foundedness of the naturals, from which `ActionProofs`
and `CallAndJudgementProofs` derive a rule (`UpToInduction`) whose hypothesis is about a *set* of numbers.

Only model-checked:

* liveness, which is out of the prover's reach: `LockIsReleased`, `TurnAnswersRequests`, `TurnFollowsGui`, `DispatchEnds`, `RunIsOver`;
* `TurnServesAgent`: paging, planning and packing are sorts, folds and choices over sequences, nested several deep;
* `CompleteShowsControls`, the other part of `ObservationIsTrue`: that the parser's stack follows the nesting of every
  well-formed text needs an invariant of parser and text together, and is false of the texts listed above under disagreements;
* plans of more than three items (`PlanIsOrdered` is proved for the three of the model).

Not composed: AssistantTurns under ShellManager, for the race of a close with the retirement of the inner session.

## 5. Not modelled

Shell API, deployment and front end: transport and rendering, no state of a run. `memory/`: a small cache outside the
control of the run. `agent/context/compact_world_renderer.py` and `agent/observability.py`: text and logs. The semantic projection
of browsergym, visual grounding, the web-of-things and HTTP surfaces: what they report enters as the outcomes of a capture or a dispatch.
The event feed of the public session, the command lines, the other benchmark drivers, metrics.
