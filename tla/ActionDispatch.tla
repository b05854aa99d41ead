--------------------------- MODULE ActionDispatch ---------------------------
(* One action of the agent, from the page's affordances to the step that    *)
(* reports it: classification (actions/classification.py), the action space *)
(* (actions/action_space.py), admission, risk and confirmation (risk/,      *)
(* confirmation/), binding (actions/binder.py, actions/route_selector.py),  *)
(* dispatch, recovery capture, judgement and receipts (_select of           *)
(* agent/core_loop.py, execution/contracts.py).                             *)
(*                                                                          *)
(* An affordance is a record of the facts a page or a thing declares; the   *)
(* parameter schema, the barrier and the verification family of a binding   *)
(* are one token, its form.  Parameters are legal or not.  The surfaces'    *)
(* own currentness and captures are in WorldAcquisition, control requests   *)
(* at the awaits are in RunLoop.                                            *)
EXTENDS Integers, FiniteSets, FiniteSetsExt, Functions

CONSTANTS
    Pages,         \* the sets of affordances a page may show
    Contested,     \* the sets of targets the sources of a world may disagree about
    Goals,         \* task records: profile, allowed, forbidden, owed
    Trusted,       \* trusted_interaction_operations
    MaxActions     \* bound of the model on selections

VARIABLES
    goal,      \* TaskGoal, and the resource an unreconciled effect is owed on
    page,      \* what the page shows now
    world,     \* current_world: its observation id and what it has seen
    pending,   \* the selection that waits for a confirmation
    act,       \* the selection in progress
    ended,     \* status of the run
    credit     \* the subjects the user has approved for the selection in progress: none or one

dispatchVars == <<goal, page, world, pending, act, ended, credit>>

Nil == "nil"
Low == 0
Medium == 1
High == 2
Irreversible == 3

\* An affordance has its identity to itself on its page.
ASSUME DispatchAssumption ==
    /\ \A shown \in Pages : \A f \in shown :
        /\ f.surface \in {"dom", "wot", "visual"}
        /\ f.asserted \in Low .. Irreversible
        /\ f.rank \in Nat /\ Nil \notin f.dests
        /\ \A e \in shown : e.id = f.id => e = f
    /\ \A g \in Goals : g.profile \in {"read_only", "low", "medium", "high"}
    /\ MaxActions \in Nat

-----------------------------------------------------------------------------
(* Classification.                                                          *)

\* OPERATION_SEMANTICS, as far as classification tells operations apart
OperationUndo == [reveal |-> "reversible", share |-> "compensatable",
                  pay |-> "irreversible", actuate |-> "unknown"]

IsReveal(op) == op = "reveal"

\* _base_category
BaseCategory(action, role) ==
    CASE action = "read"                         -> "observation"
      [] action # "read" /\ role = "link"        -> "external"
      [] action # "read" /\ role # "link"        -> "local_reversible"

\* classify_dom_action: a trusted operation lowers the category, what the page
\* declares raises it again
DomCategory(f) ==
    IF f.undo = "irreversible" THEN "irreversible"
    ELSE IF f.external THEN "external"
    ELSE IF f.op \in Trusted /\ IsReveal(f.op) THEN "interaction"
    ELSE BaseCategory(f.action, f.role)

\* classify_wot_action: the deployment decides, never the thing's description
WotCategory(f) ==
    CASE f.action = "read"                  -> "observation"
      [] f.action # "read" /\ ~f.external   -> "local_reversible"
      [] f.action # "read" /\ f.external    -> "external"

CategoryOf(f) ==
    CASE f.surface = "dom"    -> DomCategory(f)
      [] f.surface = "wot"    -> WotCategory(f)
      [] f.surface = "visual" -> BaseCategory(f.action, f.role)

CategoryRisk == [observation |-> Low, interaction |-> Low, local_reversible |-> Low,
                 external |-> High, irreversible |-> Irreversible]

\* the category's risk, raised by what the page asserts and never lowered
RiskOf(f) ==
    IF f.surface = "visual" THEN CategoryRisk[CategoryOf(f)]
    ELSE Max({CategoryRisk[CategoryOf(f)], f.asserted})

\* _business_effects
BusinessEffects(g, hint, category) ==
    IF g.profile = "read_only" \/ category = "observation" THEN {}
    ELSE IF hint \in g.forbidden \cup g.allowed THEN {hint}
    ELSE IF Cardinality(g.allowed) = 1 THEN g.allowed ELSE {}

UndoRank == [reversible |-> 0, compensatable |-> 1, irreversible |-> 2, unknown |-> 3]

\* _declared_reversibility: a page can make its effect look worse, not better
DeclaredUndo(f) ==
    LET registered == IF f.op \in DOMAIN OperationUndo THEN OperationUndo[f.op] ELSE Nil
    IN  CASE f.undo = Nil      -> IF registered = Nil THEN "unknown" ELSE registered
          [] f.undo # Nil /\ registered = Nil ->
                 IF f.undo = "irreversible" THEN "irreversible" ELSE "unknown"
          [] f.undo # Nil /\ registered # Nil ->
                 IF UndoRank[f.undo] > UndoRank[registered] THEN f.undo ELSE registered

UndoOf(f) ==
    CASE f.surface = "dom"    -> DeclaredUndo(f)
      [] f.surface = "wot"    -> IF CategoryOf(f) = "external" THEN "unknown" ELSE "reversible"
      [] f.surface = "visual" -> IF CategoryOf(f) = "observation" THEN "reversible" ELSE "unknown"

\* ActionBinding as the adapters build it for the task
BindingOf(g, f) ==
    [id |-> f.id, target |-> f.target, action |-> f.action, dests |-> f.dests,
     form |-> f.form, rank |-> f.rank,
     resource |-> IF f.resource = Nil THEN f.target ELSE f.resource,
     category |-> CategoryOf(f), risk |-> RiskOf(f), undo |-> UndoOf(f),
     effects |-> BusinessEffects(g, IF f.surface = "dom" THEN f.hint ELSE Nil, CategoryOf(f))]

-----------------------------------------------------------------------------
(* The action space.                                                        *)

\* what the policy says to point at a binding
Selector(b) == <<b.target, b.action>>

\* the fields of a group but its destinations (_GroupKey)
Contract(b) == <<b.category, b.effects, b.form, b.resource, b.undo>>

Routes(b) == IF b.dests = {} THEN {Nil} ELSE b.dests

\* _effects_allowed
EffectsAllowed(g, b) ==
    LET harmless == b.effects = {} /\ b.risk = Low
        observes == harmless /\ b.category = "observation" /\ b.action = "read"
        reveals  == harmless /\ b.category = "interaction" /\ b.action = "activate"
    IN  /\ b.effects \cap g.forbidden = {}
        /\ b.action = "read" => observes
        /\ \/ observes \/ reveals
           \/ g.profile # "read_only" /\ b.effects # {} /\ b.effects \subseteq g.allowed

\* the bindings of a world that the task lets through; a target its sources
\* disagree about offers nothing
Admissible(g, w) ==
    {b \in {BindingOf(g, f) : f \in w.seen} :
        b.target \notin w.conflicts /\ EffectsAllowed(g, b)}

\* a group without destinations claims no route
DisputedByDestination(bindings, b) ==
    UNION {b.dests \cap c.dests :
             c \in {c \in bindings : Selector(c) = Selector(b) /\ Contract(c) # Contract(b)}}

\* routes of a group that a group of another contract claims too
\* (conflicted_routes_by_group, _conflicting_contract_fields)
Disputed(bindings, b) ==
    UNION {Routes(b) \cap Routes(c) :
             c \in {c \in bindings : Selector(c) = Selector(b) /\ Contract(c) # Contract(b)}}

Undisputed(bindings, b) == Routes(b) \ Disputed(bindings, b)

\* ActionSpaceBuilder.build: equal contracts share an option, with the
\* destinations of all and the highest risk of any; its identity is all of it
OptionOf(w, group, kept) ==
    LET b == CHOOSE b \in group : TRUE
    IN  [observation |-> w.n, target |-> b.target, action |-> b.action,
         category |-> b.category, effects |-> b.effects, form |-> b.form,
         resource |-> b.resource, undo |-> b.undo,
         dests |-> kept \ {Nil}, eligible |-> {c.id : c \in group},
         risk |-> Max({c.risk : c \in group})]

Space(g, w) ==
    LET all  == Admissible(g, w)
        left == {b \in all : Undisputed(all, b) # {}}
    IN  {LET group == {c \in left : Selector(c) = Selector(b) /\ Contract(c) = Contract(b)}
         IN  OptionOf(w, group, UNION {Undisputed(all, c) : c \in group}) : b \in left}

\* _reconciliation_action_space: while an effect is owed, only its resource
Offered(g, w) ==
    {o \in Space(g, w) : g.owed = Nil \/ o.resource = g.owed}

\* the destinations a selection of the option may name
Destinations(o) == IF o.dests = {} THEN {Nil} ELSE o.dests

-----------------------------------------------------------------------------
(* Admission, risk, confirmation and binding.                                *)

\* AdmittedActionSelection: the option and where to
Selected(o, d) == [option |-> o, dest |-> d]

\* try_admit_selection: an option of this space, legal parameters, a
\* destination it offers
Admits(space, o, d, legal) == o \in space /\ legal /\ d \in Destinations(o)

\* _effective_risk: the task's profile is a floor
Floor == [read_only |-> Low, low |-> Low, medium |-> Medium, high |-> High]
EffectiveRisk(g, o) == Max({Floor[g.profile], o.risk})

\* _decision of RiskPolicy
Decision(g, o) ==
    LET reveals == o.category = "interaction" /\ o.action = "activate"
                   /\ o.effects = {} /\ o.risk = Low
    IN  IF \/ o.effects \cap g.forbidden # {} \/ ~(o.effects \subseteq g.allowed)
           \/ g.profile = "read_only" /\ o.action # "read" /\ ~reveals
        THEN "block"
        ELSE IF EffectiveRisk(g, o) > Low THEN "needs_confirmation" ELSE "allow"

\* ConfirmationSubject: what the user is asked about.  No observation and no
\* binding is part of it.
Subject(g, s) ==
    [action |-> s.option.action, target |-> s.option.target, dest |-> s.dest,
     effects |-> s.option.effects, risk |-> EffectiveRisk(g, s.option),
     category |-> s.option.category]

\* _equivalent_current of RouteSelector
Equivalent(g, b, s) ==
    LET o == s.option IN
    /\ b.id \in o.eligible
    /\ Selector(b) = <<o.target, o.action>>
    /\ <<b.category, b.effects, b.form>> = <<o.category, o.effects, o.form>>
    /\ b.risk <= o.risk
    /\ IF s.dest # Nil THEN s.dest \in b.dests ELSE b.dests = o.dests

Candidates(g, w, s) ==
    {b \in {BindingOf(g, f) : f \in w.seen} : Equivalent(g, b, s)}

\* RouteSelector.select: the most confident, then the cheapest
Route(g, w, s) ==
    CHOOSE b \in Candidates(g, w, s) : \A c \in Candidates(g, w, s) : b.rank <= c.rank

\* the constructor of BoundActionRequest, beyond what the route has shown
RequestHolds(g, w, s) ==
    LET b == Route(g, w, s)
    IN  b.resource = s.option.resource /\ b.undo = s.option.undo

\* ActionBinder.bind
Binds(g, w, s) == s.option.observation = w.n /\ Candidates(g, w, s) # {}

-----------------------------------------------------------------------------
(* Receipts (execution/contracts.py).                                       *)

Results == {"not_sent", "sent", "sent_unknown"}

\* an execution: its dispatch status, whether it was cancelled while being
\* sent, and what became of the captures after it
Crossed(x) == x.dispatch # "not_sent"

\* ExecutionReceiptBatch.from_atomic
BatchOf(x, completion) ==
    LET complete == IF completion # Nil THEN completion
                    ELSE CASE x.dispatch = "not_sent"     -> "partial"
                           [] x.dispatch = "sent_unknown" -> "unknown"
                           [] x.dispatch = "sent"         -> "complete"
    IN  [receipts |-> IF Crossed(x) THEN 1 ELSE 0, dispatch |-> x.dispatch,
         sentCancelled |-> x.sentCancelled, completion |-> complete,
         phase |-> CASE complete # "cancelled"  -> Nil
                     [] complete = "cancelled"  ->
                          IF x.sentCancelled THEN "dispatch"
                          ELSE IF "cancelled" \in {x.post, x.recovery} THEN "post_capture"
                          ELSE Nil]

\* with the phase given by the caller
BatchInPhase(x, phase) == [BatchOf(x, "cancelled") EXCEPT !.phase = phase]

\* the constructor of ExecutionReceiptBatch
LegalBatch(b) ==
    CASE b.completion = "complete"  -> b.dispatch = "sent"
      [] b.completion = "unknown"   -> b.dispatch = "sent_unknown" /\ ~b.sentCancelled
      [] b.completion = "partial"   -> b.dispatch = "not_sent" /\ ~b.sentCancelled
      [] b.completion = "cancelled" ->
           CASE b.phase = Nil            -> FALSE
             [] b.phase = "dispatch"     -> b.sentCancelled
             [] b.phase = "post_capture" -> b.dispatch = "sent"
             [] b.phase = "evaluation"   -> b.receipts = 1 /\ ~b.sentCancelled

-----------------------------------------------------------------------------
(* The selection in progress.                                               *)

Untouched == [dispatch |-> "not_sent", sentCancelled |-> FALSE, post |-> Nil, recovery |-> Nil]

Resting == [at |-> "idle", s |-> Nil, x |-> Untouched]

NewWorld(shown, conflicts) == [n |-> world.n + 1, seen |-> shown, conflicts |-> conflicts]

DispatchInit ==
    /\ goal \in Goals
    /\ page \in Pages
    /\ \E c \in Contested : world = [n |-> 1, seen |-> page, conflicts |-> c]
    /\ pending = Nil
    /\ act = Resting
    /\ ended = "running"
    /\ credit = {}

\* the step is committed with this status; its world is the current one
Closes(status) ==
    /\ act' = Resting
    /\ ended' = status
    /\ credit' = {}
    /\ pending' = Nil

\* a step on the world the selection was made in
ClosesHere(status) == Closes(status) /\ UNCHANGED <<goal, page, world>>

\* a step that crossed, or tried to, reports its batch; a batch that cannot be
\* constructed raises instead
ClosesWith(status, batch) ==
    Closes(IF LegalBatch(batch) THEN status ELSE "raised")

\* an approval is taken for whatever selection it is given with
GateByPresence(s, confirmed) ==
    CASE goal.owed # Nil /\ s.option.resource # goal.owed -> "blocked"
      [] Decision(goal, s.option) = "block"               -> "blocked"
      [] Decision(goal, s.option) = "needs_confirmation" /\ confirmed = {} -> "ask"
      [] OTHER -> IF Binds(goal, world, s) THEN "bound" ELSE "blocked"

\* _select up to the probe of the environment, for an admitted selection and
\* the subject the user has confirmed: none or one
Gate(s, confirmed) ==
    CASE goal.owed # Nil /\ s.option.resource # goal.owed -> "blocked"
      [] Decision(goal, s.option) = "block"               -> "blocked"
      [] Decision(goal, s.option) = "needs_confirmation" /\ confirmed = {} -> "ask"
      [] Decision(goal, s.option) = "needs_confirmation" /\ confirmed # {}
            /\ confirmed # {Subject(goal, s)}               -> "running"
      [] OTHER -> IF Binds(goal, world, s) THEN "bound" ELSE "blocked"

Asks(s) ==
    /\ ended' = "waiting_confirmation"
    /\ pending' = [s |-> s, subject |-> Subject(goal, s)]
    /\ act' = Resting
    /\ credit' = {}
    /\ UNCHANGED <<goal, page, world>>

Passes(s, confirmed) ==
    /\ act' = [at |-> "bound", s |-> s, x |-> Untouched]
    /\ ended' = "running"
    /\ pending' = Nil
    /\ credit' = confirmed
    /\ UNCHANGED <<goal, page, world>>

\* what the gate says is what happens to the step
Selects(s, confirmed) ==
    CASE Gate(s, confirmed) = "ask"   -> Asks(s)
      [] Gate(s, confirmed) = "bound" -> Passes(s, confirmed)
      [] Gate(s, confirmed) \in {"blocked", "running"} -> ClosesHere(Gate(s, confirmed))

AtRest == act.at = "idle" /\ ended = "running"

\* The policy selects an option of the current space and a place it offers.
SelectOffered ==
    /\ AtRest /\ world.n <= MaxActions
    /\ \E o \in Offered(goal, world) : \E d \in Destinations(o) :
        Selects(Selected(o, d), {})

\* The policy selects something else: an option of another observation, an
\* illegal parameter, a place the option does not offer.
SelectRejected == AtRest /\ ClosesHere("blocked")

\* The policy repeats an attempt that the recovery signal prohibits
\* (EpisodeMonitor): rejected, and the run goes on.
SelectProhibited == AtRest /\ ClosesHere("running")

\* resume_confirmation, approved: the space is built again and the decision
\* of the pending step goes through the whole of _select
ApproveSelection ==
    /\ ended = "waiting_confirmation"
    /\ LET s == pending.s IN
       IF Admits(Offered(goal, world), s.option, s.dest, TRUE)
       THEN Selects(s, {pending.subject})
       ELSE ClosesHere("blocked")

\* resume_confirmation, declined
DeclineSelection ==
    /\ ended = "waiting_confirmation"
    /\ ClosesHere("running")

\* _rebase_checkpoint_confirmation: the options of the fresh world that mean
\* what the user was asked about
Meant(w, subject) ==
    {o \in Space(goal, w) :
        /\ <<o.action, o.target, o.category, o.effects>>
             = <<subject.action, subject.target, subject.category, subject.effects>>
        /\ subject.dest \in Destinations(o)}

\* A waiting run that was paused and restored in a new process looks afresh
\* (restore_paused): the selection is carried over to the one option that
\* means the same, or the restoration fails; a complete task ends the run.
RestoreWaiting ==
    /\ ended = "waiting_confirmation" /\ world.n <= MaxActions
    /\ \E c \in Contested :
        LET w     == NewWorld(page, c)
            meant == Meant(w, pending.subject)
        IN  /\ world' = w
            /\ IF Cardinality(meant) = 1
               THEN pending' = [pending EXCEPT !.s.option = CHOOSE o \in meant : TRUE]
                    /\ ended' \in {"waiting_confirmation", "done"}
               ELSE pending' = Nil /\ ended' = "failed"
    /\ act' = Resting /\ credit' = {}
    /\ UNCHANGED <<goal, page>>

\* The page becomes another one by itself.
PageChanges ==
    /\ act.at = "bound" \/ ended = "waiting_confirmation"
    /\ page' \in Pages
    /\ UNCHANGED <<goal, world, pending, act, ended, credit>>

-----------------------------------------------------------------------------
(* The dispatch and what follows it.                                        *)

GoesOn(at, x) ==
    /\ act' = [act EXCEPT !.at = at, !.x = x]
    /\ UNCHANGED <<goal, page, world, pending, ended, credit>>

\* the affordance behind the route is still on the page
RouteStands ==
    \E f \in page : BindingOf(goal, f) = Route(goal, world, act.s)

\* is_current: the probe before the dispatch
Probe ==
    /\ act.at = "bound"
    /\ GoesOn(IF RouteStands THEN "executing" ELSE "refresh", act.x)

\* environment.execute refuses: the page changed under it, or it cannot say
ExecuteStale == act.at = "executing" /\ GoesOn("refresh", act.x)

\* it refuses for another reason; a bad parameter lets the policy try again
ExecuteRefused ==
    /\ act.at = "executing"
    /\ \E status \in {"running", "blocked"} : ClosesWith(status, BatchOf(act.x, Nil))
    /\ UNCHANGED <<goal, page, world>>

\* the caller is cancelled while the action is being sent, or while the world
\* is captured after it (ExecutionCancelled)
ExecuteIsCancelled ==
    /\ act.at = "executing"
    /\ \E d \in Results, inSending \in BOOLEAN :
        /\ inSending \/ Crossed([act.x EXCEPT !.dispatch = d])
        /\ inSending => d # "sent"
        /\ ClosesWith("cancelled",
                   BatchOf([act.x EXCEPT !.dispatch = d, !.sentCancelled = inSending,
                                         !.post = IF d = "not_sent" THEN Nil ELSE "cancelled"],
                           "cancelled"))
    /\ UNCHANGED <<goal, page, world>>

\* it is sent, for certain or not, and the world is captured after it, or not
ExecuteCrosses ==
    /\ act.at = "executing"
    /\ \E d \in {"sent", "sent_unknown"}, post \in {"acquired", "failed"} :
        GoesOn(IF post = "acquired" THEN "outcome" ELSE "recover",
               [act.x EXCEPT !.dispatch = d, !.post = post])

\* _recover_post_dispatch_observation: one more capture, and only one
RecoverCapture ==
    /\ act.at = "recover"
    /\ \/ GoesOn("outcome", [act.x EXCEPT !.recovery = "acquired"])
       \/ /\ act.x.dispatch = "sent_unknown"
          /\ GoesOn("health", [act.x EXCEPT !.recovery = "failed"])
       \/ /\ act.x.dispatch = "sent"
          /\ ClosesWith("blocked", BatchOf([act.x EXCEPT !.recovery = "failed"], Nil))
          /\ UNCHANGED <<goal, page, world>>

\* a cancellation in that capture or in the probe of the session leaves
\* _select without a result
RecoverIsCancelled ==
    /\ act.at \in {"recover", "health"}
    /\ Closes("raised")
    /\ UNCHANGED <<goal, page, world>>

\* _unresolved_dispatch_step
ProbeHealth ==
    /\ act.at = "health"
    /\ \E alive \in BOOLEAN : ClosesWith(IF alive THEN "blocked" ELSE "failed",
                                      BatchOf(act.x, "unknown"))
    /\ UNCHANGED <<goal, page, world>>

\* the new world of a step that closes with one
Looks == world' \in {NewWorld(page, c) : c \in Contested}

\* validated_action_outcome is cancelled or fails
OutcomeFails ==
    /\ act.at = "outcome"
    /\ \/ ClosesWith("cancelled", BatchInPhase(act.x, "evaluation"))
       \/ ClosesWith("failed", BatchOf(act.x, Nil))
    /\ Looks
    /\ UNCHANGED <<goal, page>>

\* It says what the action did; the postcondition of an uncertain dispatch
\* may stay unknown.  Then the task is judged (_task_evaluation_after_dispatch).
OutcomeKnown == act.at = "outcome" /\ GoesOn("judge", act.x)
OutcomeUnknown == act.at = "outcome" /\ act.x.dispatch = "sent_unknown" /\ GoesOn("doubt", act.x)

JudgeFails ==
    /\ act.at \in {"judge", "doubt"}
    /\ \/ ClosesWith("cancelled", BatchInPhase(act.x, "evaluation"))
       \/ ClosesWith("failed", BatchOf(act.x, Nil))
    /\ Looks
    /\ UNCHANGED <<goal, page>>

\* _status_for_task: an effect in doubt blocks the run whatever the task says
Judged ==
    /\ act.at \in {"judge", "doubt"}
    /\ \E status \in {"running", "done", "blocked"} :
        ClosesWith(IF act.at = "doubt" THEN "blocked" ELSE status, BatchOf(act.x, Nil))
    /\ Looks
    /\ UNCHANGED <<goal, page>>

\* _refresh_stale_binding: a capture, and the task judged on what it shows
RefreshFails ==
    /\ act.at = "refresh"
    /\ ClosesHere("blocked")

RefreshLooks ==
    /\ act.at = "refresh"
    /\ \E status \in {"running", "done", "blocked"} : Closes(status)
    /\ Looks
    /\ UNCHANGED <<goal, page>>

\* its capture or its judgement ends by an exception
RefreshRaises == act.at = "refresh" /\ ClosesHere("failed")

DispatchNext ==
    \/ SelectOffered \/ SelectRejected \/ SelectProhibited
    \/ ApproveSelection \/ DeclineSelection \/ RestoreWaiting \/ PageChanges
    \/ Probe \/ ExecuteStale \/ ExecuteRefused \/ ExecuteIsCancelled \/ ExecuteCrosses
    \/ RecoverCapture \/ RecoverIsCancelled \/ ProbeHealth
    \/ OutcomeFails \/ OutcomeKnown \/ OutcomeUnknown \/ JudgeFails \/ Judged
    \/ RefreshFails \/ RefreshLooks \/ RefreshRaises

DispatchSpec == DispatchInit /\ [][DispatchNext]_dispatchVars

-----------------------------------------------------------------------------
(* Properties.                                                              *)

\* Whatever the space offers can be done as it was offered: one option only
\* answers for a target, an action and a place, the selection binds to a route
\* whose request can be constructed, and the risk policy does not refuse it.
OfferedCanBeDone ==
    \A o \in Space(goal, world) : \A d \in Destinations(o) :
        /\ \A p \in Space(goal, world) :
               <<o.target, o.action>> = <<p.target, p.action>> /\ d \in Destinations(p) => o = p
        /\ Binds(goal, world, Selected(o, d))
        /\ RequestHolds(goal, world, Selected(o, d))
        /\ Decision(goal, o) # "block"

\* what the page, the thing or the task says about an affordance that calls
\* for the user
CallsForUser(f) ==
    \/ goal.profile \in {"medium", "high"}
    \/ f.surface = "dom" /\ (f.undo = "irreversible" \/ f.external \/ f.asserted > Low)

\* An action that its page declares external, irreversible or risky, or that
\* belongs to a risky task, is sent only when the user has just approved that
\* action on that target with that effect, at no more risk than it has.
RiskyNeedsApproval ==
    act.at \in {"executing", "recover", "health", "outcome", "judge", "doubt"} =>
        \A f \in world.seen :
            f.id = Route(goal, world, act.s).id /\ CallsForUser(f) =>
                \E subject \in credit :
                    /\ <<subject.target, subject.action, subject.effects>>
                         = <<f.target, f.action, BindingOf(goal, f).effects>>
                    /\ subject.risk >= RiskOf(f)

\* A dispatch that crossed is reported by its step, however it is cancelled
\* (ExecutionCancelled: "Host cancellation propagated only after exact
\* execution closure").
CrossingIsReported == ended # "raised"
=============================================================================
