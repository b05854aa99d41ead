-------------------------- MODULE WorldAcquisition --------------------------
(***************************************************************************)
(* How the Runtime sees and touches the world: the coordinator of          *)
(* acquisitions and effects (world/orchestrator.py), the part of the core  *)
(* loop that dispatches one action and closes it                           *)
(* (agent/core_loop.py), and the adapters of the three deployments:        *)
(*   "dom"    one page read through the DOM (surfaces/dom/adapter.py),     *)
(*   "bundle" DOM and screenshots of one page (surfaces/browser_bundle.py),*)
(*   "gym"    a BrowserGym environment behind an owner thread              *)
(*            (surfaces/browsergym/environment.py, backend.py).            *)
(*                                                                         *)
(* A deployment has one adapter, whose sources form one group: "dom" is    *)
(* its structural source, "visual" its screenshots.  The page carries a    *)
(* version, which grows with every effect and with what the page does by   *)
(* itself; an observation remembers the version it has seen.  The dom and  *)
(* bundle adapters never suspend, the gym adapter suspends wherever it     *)
(* waits for its owner thread, and there it can be cancelled.              *)
(***************************************************************************)
EXTENDS ObservationSelection

CONSTANTS
    Deployments,     \* the deployments to consider
    MaxDispatches,   \* bound of the model on effects
    MaxDrift,        \* bound of the model on what the page does by itself, for each deployment
    MaxCaptures,     \* bound of the model on captured frames, for each deployment
    MaxCancels       \* bound of the model on cancelled waits

ASSUME DispatchesAssumption == MaxDispatches \in Nat

VARIABLES
    deployment,
    page,     \* the external page and the effects on it
    co,       \* ObservationAcquisitionCoordinator
    acq,      \* the acquisition in progress
    act,      \* the step of the core loop in progress
    ad,       \* the adapter
    owner,    \* ThreadBoundBrowserGym
    closed    \* the last dispatch that was closed

vars == <<deployment, page, co, acq, act, ad, owner, closed>>

Sends == 1 .. MaxDispatches

\* serial: identity of the capture; acts: it carries bindings
Obs(source, frame, acts) ==
    [source |-> source, serial |-> frame.serial, seen |-> frame.seen, acts |-> acts]

NoFrame == [serial |-> 0, seen |-> 0]

NoBinding == [source |-> "dom", serial |-> 0, seen |-> 0, acts |-> FALSE]

NoAcquisition == [at |-> "none", round |-> 1, kind |-> "policy", requested |-> {},
                  route |-> "", then |-> "reset",
                  plan |-> [selections |-> <<>>, needs |-> {}, failure |-> ""],
                  asked |-> {}, results |-> <<>>, layer |-> FALSE]

OwnerAnswer(kind, frame) == [kind |-> kind, frame |-> frame]

\* queue and busy hold commands [name, n, waited]; a command that is not waited
\* for any more was abandoned by a cancelled wait
IdleOwner == [queue |-> <<>>, busy |-> <<>>, timedOut |-> FALSE, cancels |-> 0,
              answer |-> OwnerAnswer("none", NoFrame)]

Doing(at, n) == [at |-> at, n |-> n, binding |-> NoBinding, needs |-> {},
                status |-> "not_sent", faulty |-> FALSE]

NothingClosed == [n |-> 0, status |-> "not_sent", after |-> {}, error |-> "none", faulty |-> FALSE]

Init ==
    /\ deployment \in Deployments
    /\ page = [v |-> 1, drift |-> 0, serial |-> 0, landed |-> [n \in Sends |-> 0],
               out |-> {}]
    /\ co = [seq |-> 0, world |-> {}, raised |-> FALSE]
    /\ acq = NoAcquisition
    /\ act = Doing("start", 0)
    /\ ad = [dom |-> 0, visual |-> 0, pend |-> NoFrame, pendFor |-> 0,
             before |-> FALSE, err |-> "none", final |-> FALSE]
    /\ owner = IdleOwner
    /\ closed = NothingClosed

-----------------------------------------------------------------------------
(* What the adapters offer, and what the loop asks for.                    *)

Structural == [source |-> "dom", modality |-> "structural", assurance |-> "structural",
               purposes |-> {"grounding", "effect", "criterion", "refresh"}]

\* with a provider for every visual purpose; the bundle interprets a change of
\* layers only against a frame from before the action
Visual == [source |-> "visual", modality |-> "visual", assurance |-> "weak",
           purposes |-> {"grounding", "look", "point"} \cup
               (IF deployment = "gym" THEN {"effect", "criterion"}
                ELSE IF ad.before THEN {"effect"} ELSE {})]

Offers == IF deployment = "dom" THEN <<Structural>> ELSE <<Structural, Visual>>

\* _observe: the need of a RequestObservation decision
Query(purpose) ==
    [id |-> <<"query", purpose>>, purpose |-> purpose,
     modality |-> IF purpose \in {"look", "point"} THEN "visual" ELSE "any",
     assurance |-> IF purpose \in {"look", "point"} THEN "weak" ELSE "structural"]

QueryPurposes == {"look", "point", "criterion"}

\* observation_needs_for_verification: a change of the world, a fact
Verification(i) ==
    [id |-> <<"verification", i>>, purpose |-> "effect", modality |-> "any",
     assurance |-> IF i = 0 THEN "weak" ELSE "structural"]

VerificationNeeds == {{}, {Verification(0)}, {Verification(1)}}

-----------------------------------------------------------------------------
(* The answer of one grouped call: a result per asked source.              *)

Need(request) == {need.id : need \in request.needs}

\* query: the result carries an outcome for a query of the policy
SourceResult(request, status, fulfilled, obs) ==
    [status |-> status, needs |-> Need(request), fulfilled |-> fulfilled, obs |-> obs,
     query |-> FALSE]

AllFail(requests, status) ==
    [src \in {r.source : r \in requests} |->
        SourceResult(CHOOSE r \in requests : r.source = src, status, {}, NoBinding)]

\* _visual_purpose: the first of these that a need has, none is an error
VisualPurpose(request) ==
    LET has(p) == \E need \in request.needs : need.purpose = p
    IN  IF has("look") THEN "look" ELSE IF has("effect") THEN "effect"
        ELSE IF has("point") THEN "point" ELSE IF has("grounding") THEN "grounding"
        ELSE "none"

\* project_snapshot and _project_requests: a structural source fulfils all its needs
DomResult(request, frame) == SourceResult(request, "acquired", Need(request), Obs("dom", frame, TRUE))

\* project_frame and the classifiers: only the need of the purpose is answered,
\* and only a grounded point can be acted upon
VisualResults(request, frame) ==
    LET purpose == VisualPurpose(request)
        own     == {need.id : need \in {m \in request.needs : m.purpose = purpose}}
    IN  {SourceResult(request, "acquired", f, Obs("visual", frame, purpose = "point" /\ f # {}))
            : f \in IF purpose = "point" THEN {{}, own} ELSE {own}}

Reading(results, faulty, layer) == [results |-> results, faulty |-> faulty, layer |-> layer]

RequestOf(requests, source) == CHOOSE r \in requests : r.source = source

Asks(requests, source) == \E r \in requests : r.source = source

\* the results of the first, then those of the second
Over(first, second) ==
    [src \in DOMAIN first \cup DOMAIN second |->
        IF src \in DOMAIN first THEN first[src] ELSE second[src]]

Only(source, result) == [src \in {source} |-> result]

\* The outcomes of a group whose frame is there.  A visual request without any
\* visual purpose, and in the bundle a failing provider, take the structural
\* source of the call along (browser_bundle.acquire_group); in gym a provider
\* fails alone and answers the query with its failure (_project_visual_request).
Projected(requests, frame, structured) ==
    LET visual  == RequestOf(requests, "visual")
        purpose == VisualPurpose(visual)
        dom     == IF Asks(requests, "dom")
                   THEN Only("dom", DomResult(RequestOf(requests, "dom"), frame)) ELSE <<>>
        refused(status) == SourceResult(visual, status, {}, NoBinding)
        with(x) == Over(dom, Only("visual", x))
    IN  IF ~Asks(requests, "visual") THEN {Reading(dom, FALSE, FALSE)}
        ELSE IF purpose = "none" THEN {Reading(AllFail(requests, "failed"), FALSE, FALSE)}
        ELSE IF deployment = "gym"
        THEN {Reading(with(x), FALSE, FALSE) : x \in VisualResults(visual, frame)}
             \cup {Reading(with([refused("failed") EXCEPT !.query = purpose \in {"look", "point"}]),
                           TRUE, FALSE)}
        ELSE {Reading(AllFail(requests, "failed"), TRUE, FALSE)}
             \cup IF ~structured /\ purpose \in {"look", "effect"}
                  THEN {Reading(with(refused("unavailable")), FALSE, FALSE)}
                  ELSE {Reading(with(x), FALSE, FALSE) : x \in VisualResults(visual, frame)}

-----------------------------------------------------------------------------
(* The coordinator's acquisition: _acquire.                                *)

\* _source_results: the required sources all came
RequiredAcquired(plan, results) ==
    \A src \in DOMAIN results :
        IsRequired(plan, src) => results[src].status = "acquired"

AllFulfilled(results) ==
    \A src \in DOMAIN results : results[src].fulfilled = results[src].needs

\* the coordinator starts an acquisition, or finds no plan for it
Begin(kind, requested, route, then) ==
    [NoAcquisition EXCEPT !.at = "ask", !.kind = kind, !.requested = requested,
                          !.route = route, !.then = then,
                          !.plan = Select(Offers, kind, requested, route, {}, FALSE)]

\* the requests of this round: all of the plan, then those whose needs are new
Asked(a) ==
    IF a.round = 1 THEN RequestsOf(a.plan)
    ELSE {r \in RequestsOf(a.plan) :
             \/ r.source \notin DOMAIN a.results
             \/ a.results[r.source].needs # Need(r)}

\* stage one leaves room in the budget and a source unasked
ShouldRefine(a) ==
    /\ a.round = 1
    /\ "dom" \in DOMAIN a.results /\ a.results["dom"].status = "acquired"
    /\ Len(a.plan.selections) < Budget
    /\ Sources(Offers) \ Sources(a.plan.selections) # {}

Refined(a) ==
    SelectAfterBaseline(Offers, a.kind, a.requested, a.layer, RouteOf(a.plan), a.plan,
                        DOMAIN a.results)

World(results) == {results[src].obs : src \in {s \in DOMAIN results :
                                                  results[s].status = "acquired"}}

\* the acquisition is over: the world is installed, or the old one stays
Installed(c, a, fused) ==
    LET ok    == RequiredAcquired(a.plan, a.results) /\ fused
        stage == IF ~ok THEN "failed" ELSE IF AllFulfilled(a.results) THEN "fulfilled"
                 ELSE "unresolved"
    IN  [c EXCEPT !.world  = IF ok THEN World(a.results) ELSE @,
                  !.raised = \/ @
                             \/ a.plan.failure = "" /\ ~PlanLegal(a.plan)
                             \/ a.plan.failure = "" /\ ~AcquisitionLegal(a.plan, a.results, stage)]

Acquired(a, fused) == a.plan.failure = "" /\ RequiredAcquired(a.plan, a.results) /\ fused

-----------------------------------------------------------------------------
(* What becomes of the step (m) when its acquisition is over.              *)

Close(m, after, error) ==
    closed' = [n |-> m.n, status |-> m.status, after |-> after, error |-> error,
               faulty |-> m.faulty]

\* the query of a failed acquisition has an outcome of its own only in gym
QueryAnswered(a) ==
    /\ deployment = "gym"
    /\ "visual" \in DOMAIN a.results /\ a.results["visual"].status = "failed"
    /\ a.results["visual"].query

\* reset, _observe, _refresh_stale_binding and the refresh of a resumed run
LoopAdopts(m, a, ok) ==
    /\ act' = Doing(IF ok \/ (a.then = "observe" /\ QueryAnswered(a)) THEN "idle" ELSE "ended",
                   m.n)
    /\ UNCHANGED closed

\* _select after the post-action acquisition: closed with the world that has
\* come, recovered once, or unresolved; an uncertain dispatch whose effect
\* cannot be seen blocks the run
DispatchCloses(m, a, ok) ==
    \/ /\ ok
       /\ Close(m, World(a.results), "none")
       /\ \E at \in IF m.status = "unknown" THEN {"idle", "blocked"} ELSE {"idle"} :
             act' = Doing(IF a.then = "final" THEN "ended" ELSE at, m.n)
    \/ /\ ~ok /\ a.then = "post"
       /\ act' = [m EXCEPT !.at = "recover"]
       /\ UNCHANGED closed
    \/ /\ ~ok /\ a.then = "recover" /\ m.status = "unknown"
       /\ act' = [m EXCEPT !.at = "health"]
       /\ UNCHANGED closed
    \/ /\ ~ok
       /\ a.then = "final" \/ (a.then = "recover" /\ m.status = "sent")
       /\ Close(m, {}, "no_observation")
       /\ act' = Doing("ended", m.n)

Done(m, a, fused) ==
    /\ co' = Installed(co, a, fused)
    /\ acq' = NoAcquisition
    /\ IF a.then \in {"post", "recover", "final"}
       THEN DispatchCloses(m, a, Acquired(a, fused))
       ELSE LoopAdopts(m, a, Acquired(a, fused))

\* one round of _acquire has its results: another round, or the end, where
\* the fusion may be inconclusive
CaptureAnswered(m, a, outcome) ==
    LET b      == [a EXCEPT !.results = Over(outcome.results, @), !.layer = @ \/ outcome.layer]
        r      == Refined(b)
        next   == [b EXCEPT !.plan = r, !.round = 2, !.at = "ask"]
        refine == ShouldRefine(b)
        faulty == m.faulty \/ outcome.faulty
    IN  IF refine /\ r.failure = "" /\ Asked(next) # {}
        THEN /\ acq' = next
             /\ act' = [m EXCEPT !.faulty = faulty]
             /\ UNCHANGED <<co, closed>>
        ELSE \E fused \in BOOLEAN :
                Done([m EXCEPT !.faulty = faulty \/ ~fused],
                     IF refine /\ r.failure = "" THEN next ELSE b,
                     fused /\ ~(refine /\ r.failure # ""))

\* every acquisition starts with a fresh identity; one without a plan is over
Starts(m, a) ==
    IF a.plan.failure # ""
    THEN Done(m, a, FALSE)
    ELSE /\ acq' = a
         /\ co' = [co EXCEPT !.seq = @ + 1]
         /\ act' = m
         /\ UNCHANGED closed

-----------------------------------------------------------------------------
(* The loop: what starts an acquisition or a dispatch.                     *)

NextFrame == [serial |-> page.serial + 1, seen |-> page.v]

Lands(p, n) == [p EXCEPT !.v = @ + 1, !.landed[n] = p.v + 1, !.out = @ \ {n}]

PageDrifts ==
    /\ page.drift < MaxDrift[deployment] /\ act.at # "ended"
    /\ page' = [page EXCEPT !.v = @ + 1, !.drift = @ + 1]
    /\ UNCHANGED <<deployment, co, acq, act, ad, owner, closed>>

\* reset: initialize_task and the physical reset, which in gym only takes up
\* the frame that was prepared when the environment was opened
Reset ==
    /\ act.at = "start"
    /\ \/ /\ IF deployment = "gym"
             THEN /\ ad' = [ad EXCEPT !.pend = NextFrame]
                  /\ page' = [page EXCEPT !.serial = @ + 1]
             ELSE UNCHANGED <<page, ad>>
          /\ Starts([act EXCEPT !.at = "acquire"], Begin("policy", {}, "", "reset"))
       \/ /\ act' = Doing("ended", act.n)
          /\ UNCHANGED <<page, co, acq, ad, closed>>
    /\ UNCHANGED <<deployment, owner>>

Observe ==
    /\ act.at = "idle"
    /\ \E purpose \in QueryPurposes :
          Starts([act EXCEPT !.at = "acquire"], Begin("policy", {Query(purpose)}, "", "observe"))
    /\ UNCHANGED <<deployment, page, ad, owner>>

\* _refresh_stale_binding; a blocked run that a pause kept open is resumed the same way
Refresh ==
    /\ act.at \in {"refresh", "blocked"}
    /\ Starts([act EXCEPT !.at = "acquire"], Begin("refresh", {}, "", "refresh"))
    /\ UNCHANGED <<deployment, page, ad, owner>>

\* _recover_post_dispatch_observation
Recover ==
    /\ act.at = "recover"
    /\ Starts([act EXCEPT !.at = "acquire"], Begin("post", act.needs, "", "recover"))
    /\ UNCHANGED <<deployment, page, ad, owner>>

\* _select: the policy acts on the world that it was shown
SelectAction ==
    /\ act.at = "idle"
    /\ act.n < MaxDispatches
    /\ \E obs \in co.world, needs \in VerificationNeeds :
          /\ obs.acts
          /\ act' = [at |-> "bound", n |-> act.n + 1, binding |-> obs, needs |-> needs,
                     status |-> "not_sent", faulty |-> FALSE]
    /\ closed' = NothingClosed
    /\ UNCHANGED <<deployment, page, co, acq, ad, owner>>

\* the binding belongs to what the adapter projected last
Bound == ad[act.binding.source] = act.binding.serial

\* nothing was sent: a stale binding is refreshed, bad parameters go back to
\* the policy, anything else blocks the run
NotSent(error) ==
    /\ closed' = [n |-> act.n, status |-> "not_sent", after |-> {}, error |-> error,
                  faulty |-> act.faulty]
    /\ act' = Doing(IF error = "stale" THEN "refresh"
                   ELSE IF error = "parameters" THEN "idle" ELSE "ended", act.n)
    /\ UNCHANGED <<co, acq>>

\* an uncertain dispatch tried once more
SentOrTriedAgain(status, faulty) ==
    IF status = "unknown" /\ ~act.faulty
    THEN /\ act' = [act EXCEPT !.at = "bound", !.faulty = TRUE]
         /\ UNCHANGED <<co, acq, closed>>
    ELSE Starts([act EXCEPT !.at = "acquire", !.status = status, !.faulty = faulty],
                Begin("post", act.needs, act.binding.source, "post"))

\* something may have been sent: the post-action acquisition, whose plan is
\* made from the offers of the last acquisition and routed to the acting source
Sent(status, faulty) ==
    Starts([act EXCEPT !.at = "acquire", !.status = status, !.faulty = faulty],
           Begin("post", act.needs, act.binding.source, "post"))

-----------------------------------------------------------------------------
(* The dom and bundle adapters, which never suspend.                       *)

\* the observations that the adapters remember, by which bindings are current
SessionAdapter(requests, frame, outcome) ==
    LET whole   == "visual" \notin DOMAIN outcome.results
                   \/ outcome.results["visual"].status # "failed"
        located == /\ Asks(requests, "visual") /\ whole
                   /\ VisualPurpose(RequestOf(requests, "visual")) \in {"point", "grounding"}
    IN  [ad EXCEPT
            !.dom     = IF Asks(requests, "dom") THEN frame.serial ELSE @,
            !.visual  = IF located THEN frame.serial ELSE @,
            !.pend    = IF ~Asks(requests, "visual") THEN frame ELSE @,
            !.pendFor = IF ~Asks(requests, "visual") THEN co.seq
                        ELSE IF whole /\ @ = co.seq THEN 0 ELSE @]

\* an overlay that was not there before the action asks for an interpretation
LayerMayChange(requests) ==
    /\ deployment = "bundle" /\ acq.kind = "post" /\ ad.before
    /\ ~Asks(requests, "visual")

\* acquire and acquire_group: the capture fails, has no frame, or is projected
SessionAcquires ==
    LET requests   == Asked(acq)
        structured == Asks(requests, "dom") \/ ad.pendFor = co.seq
    IN  /\ deployment # "gym" /\ acq.at = "ask"
        /\ \/ /\ \E status \in {"failed"} \cup
                     (IF Asks(requests, "visual") THEN {"unavailable"} ELSE {}) :
                    CaptureAnswered(act, acq, Reading(AllFail(requests, status), TRUE, FALSE))
              /\ UNCHANGED <<page, ad>>
           \/ /\ page.serial < MaxCaptures[deployment]
              /\ page' = [page EXCEPT !.serial = @ + 1]
              /\ \E outcome \in Projected(requests, NextFrame, structured),
                    layer \in IF LayerMayChange(requests) THEN BOOLEAN ELSE {FALSE} :
                    /\ ad' = SessionAdapter(requests, NextFrame, outcome)
                    /\ CaptureAnswered(act, acq, [outcome EXCEPT !.layer = layer])
        /\ UNCHANGED <<deployment, owner>>

\* execute: the probe of the live page, then one physical call, which returns
\* or fails after it may have had its effect
SessionExecutes ==
    /\ deployment # "gym" /\ act.at = "bound"
    /\ \/ /\ ~Bound \/ page.v # act.binding.seen
          /\ NotSent("stale")
          /\ UNCHANGED <<page, ad>>
       \/ /\ Bound
          /\ \E error \in {"parameters", "unsupported"} \cup
                 (IF act.binding.source = "visual" THEN {"unavailable"} ELSE {}) : NotSent(error)
          /\ UNCHANGED <<page, ad>>
       \/ /\ Bound
          /\ \E before \in BOOLEAN :
                ad' = [ad EXCEPT !.before = deployment = "bundle" /\ before]
          /\ \/ page' = Lands(page, act.n) /\ Sent("sent", FALSE)
             \/ page' \in {page, Lands(page, act.n)} /\ Sent("unknown", TRUE)
    /\ UNCHANGED <<deployment, owner>>

\* _unresolved_dispatch_step without a health probe
SessionUnresolved ==
    /\ deployment # "gym" /\ act.at = "health"
    /\ Close(act, {}, "environment_unresponsive")
    /\ act' = Doing("ended", act.n)
    /\ UNCHANGED <<deployment, page, co, acq, ad, owner>>

-----------------------------------------------------------------------------
(* The gym adapter: every wait is a command to the owner thread.           *)

\* the command put in the queue of the owner
SubmittedAnyway(name) ==
    [owner EXCEPT !.queue = Append(@, [name |-> name, n |-> act.n, waited |-> TRUE])]

\* _call: refused after a timeout, or put in the queue of the owner
Submitted(name) ==
    IF owner.timedOut
    THEN [owner EXCEPT !.answer = OwnerAnswer("raised", NoFrame)]
    ELSE SubmittedAnyway(name)

Read == owner' = [owner EXCEPT !.answer = OwnerAnswer("none", NoFrame)]

Has(kinds) == owner.answer.kind \in kinds

\* _prepare_frame
Prepared(a, frame) == [a EXCEPT !.pend = frame, !.pendFor = 0, !.err = "none"]

\* one frame serves every round of an acquisition
Claimed(a) == [a EXCEPT !.pendFor = co.seq]

\* _project_requests: the projection of the frame replaces the private bindings,
\* unless the frame has no meaning
GymProjects(a) ==
    LET requests == Asked(acq)
        b        == Claimed(a)
        failed   == Reading(AllFail(requests, "failed"), TRUE, FALSE)
        points(outcome) == /\ "visual" \in DOMAIN outcome.results
                           /\ outcome.results["visual"].obs.acts
    IN  \/ /\ ad' = [b EXCEPT !.err = IF @ = "none" /\ b.pend # NoFrame
                                      THEN "projection_failed" ELSE @]
           /\ CaptureAnswered(act, acq, failed)
        \/ /\ b.pend # NoFrame
           /\ \E outcome \in Projected(requests, b.pend, TRUE) :
                 /\ ad' = [b EXCEPT !.dom = b.pend.serial,
                                    !.visual = IF points(outcome) THEN b.pend.serial ELSE 0]
                 /\ CaptureAnswered(act, acq, outcome)

\* the kind of instability not looked at
RecapturableOnce(a) == a.pendFor \notin {0, co.seq}

\* no page is ever captured again
NeverRecapturable(a) == FALSE

\* a navigation that has not been committed is never recaptured, an unstable
\* page is, by a later acquisition than the first
Recapturable(a) == a.err = "acquisition_unstable" /\ RecapturableOnce(a)

\* acquire_group: the frame at hand, or a capture of its own
GymAcquires ==
    LET guarded == ad.err \in {"navigation_pending", "acquisition_unstable"}
        claimed == [ad EXCEPT !.pendFor = IF @ = 0 /\ (guarded \/ ad.pend # NoFrame)
                                          THEN co.seq ELSE @]
    IN  /\ deployment = "gym" /\ acq.at = "ask"
        /\ IF guarded /\ ~Recapturable(ad)
           THEN /\ CaptureAnswered(act, acq, Reading(AllFail(Asked(acq), "failed"),
                                              ad.err = "navigation_pending", FALSE))
                /\ ad' = claimed
                /\ UNCHANGED owner
           ELSE IF claimed.pendFor # co.seq
           THEN /\ acq' = [acq EXCEPT !.at = "frame"]
                /\ owner' = Submitted("capture")
                /\ UNCHANGED <<co, act, ad, closed>>
           ELSE /\ GymProjects(claimed)
                /\ UNCHANGED owner
        /\ UNCHANGED <<deployment, page>>

FrameAnswered ==
    /\ acq.at = "frame"
    /\ \/ /\ Has({"frame"})
          /\ GymProjects(Prepared(ad, owner.answer.frame))
       \/ /\ Has({"raised"})
          /\ CaptureAnswered(act, acq, Reading(AllFail(Asked(acq), "failed"), TRUE, FALSE))
          /\ UNCHANGED ad
    /\ Read
    /\ UNCHANGED <<deployment, page>>

\* execute: the private binding, then the probe of the live page
GymExecutes ==
    /\ deployment = "gym" /\ act.at = "bound"
    /\ \/ /\ ~Bound
          /\ NotSent("unavailable")
          /\ UNCHANGED owner
       \/ /\ Bound
          /\ act' = [act EXCEPT !.at = "probe"]
          /\ owner' = Submitted("probe")
          /\ UNCHANGED <<co, acq, closed>>
    /\ UNCHANGED <<deployment, page, ad>>

\* a current binding is sent, once; everything else was not sent
ProbeAnswered ==
    /\ act.at = "probe"
    /\ \/ /\ Has({"current"})
          /\ \/ /\ NotSent("parameters")
                /\ Read
                /\ UNCHANGED ad
             \/ /\ ad' = [ad EXCEPT !.pend = NoFrame, !.pendFor = 0, !.err = "none",
                                    !.before = TRUE]
                /\ act' = [act EXCEPT !.at = "step"]
                /\ owner' = [Submitted("step") EXCEPT !.answer =
                                 IF owner.timedOut THEN @ ELSE OwnerAnswer("none", NoFrame)]
                /\ UNCHANGED <<co, acq, closed>>
       \/ /\ Has({"stale"}) /\ NotSent("stale") /\ Read /\ UNCHANGED ad
       \/ /\ Has({"unavailable", "raised"}) /\ NotSent("unavailable") /\ Read /\ UNCHANGED ad
    /\ UNCHANGED <<deployment, page>>

\* the transition: stable with its frame, or with the reason why there is none
StepAnswered ==
    /\ act.at = "step"
    /\ \/ /\ Has({"frame"})
          /\ ad' = Prepared(ad, owner.answer.frame)
          /\ Sent("sent", FALSE)
       \/ /\ Has({"navigation_pending", "acquisition_unstable"})
          /\ ad' = [ad EXCEPT !.err = owner.answer.kind]
          /\ Sent("sent", Has({"navigation_pending"}))
       \/ /\ Has({"raised"})
          /\ ad' = [ad EXCEPT !.err = "step_failed"]
          /\ Sent("unknown", TRUE)
    /\ Read
    /\ UNCHANGED <<deployment, page>>

\* finalize: the answer to the user, sent once
Finalize ==
    /\ deployment = "gym" /\ act.at = "idle" /\ ~ad.final
    /\ ad' = [ad EXCEPT !.final = TRUE, !.pend = NoFrame, !.pendFor = 0]
    /\ act' = [act EXCEPT !.at = "final", !.n = 0]
    /\ owner' = Submitted("final")
    /\ UNCHANGED <<deployment, page, co, acq, closed>>

FinalStarts(status, faulty) ==
    Starts([act EXCEPT !.at = "acquire", !.status = status, !.faulty = faulty],
           Begin("post", {}, "dom", "final"))

FinalAnswered ==
    /\ act.at = "final"
    /\ \/ /\ Has({"frame"})
          /\ ad' = Prepared(ad, owner.answer.frame)
          /\ FinalStarts("sent", FALSE)
       \/ /\ Has({"raised"})
          /\ ad' = [ad EXCEPT !.err = "step_failed"]
          /\ FinalStarts("unknown", TRUE)
    /\ Read
    /\ UNCHANGED <<deployment, page>>

\* _unresolved_dispatch_step: the session is alive, and the run can be blocked
\* with the world it had, or the run ends
Probes ==
    /\ deployment = "gym" /\ act.at = "health"
    /\ act' = [act EXCEPT !.at = "health_probe"]
    /\ owner' = Submitted("health")
    /\ UNCHANGED <<deployment, page, co, acq, ad, closed>>

HealthAnswered ==
    /\ act.at = "health_probe"
    /\ Has({"alive", "raised", "lost"})
    /\ Close(act, {}, IF Has({"alive"}) THEN "environment_unresponsive" ELSE "session_lost")
    /\ act' = Doing(IF Has({"alive"}) THEN "blocked" ELSE "ended", act.n)
    /\ Read
    /\ UNCHANGED <<deployment, page, co, acq, ad>>

-----------------------------------------------------------------------------
(* The owner thread, its deadline, and waits that are cancelled.           *)

Awaiting == acq.at = "frame" \/ act.at \in {"probe", "step", "final", "health_probe"}

\* the owner takes its commands in the order in which they were submitted
OwnerTakes ==
    /\ owner.queue # <<>> /\ owner.busy = <<>>
    /\ owner' = [owner EXCEPT !.busy = <<Head(owner.queue)>>, !.queue = Tail(@)]
    /\ UNCHANGED <<deployment, page, co, acq, act, ad, closed>>

\* only a command that is still waited for has somebody to answer to
Finishes(kind, frame) ==
    owner' = [owner EXCEPT !.busy = <<>>,
                           !.answer = IF owner.busy[1].waited THEN OwnerAnswer(kind, frame) ELSE @]

Works(name) == owner.busy # <<>> /\ owner.busy[1].name = name

Captures(frame) ==
    /\ page.serial < MaxCaptures[deployment]
    /\ page' = [page EXCEPT !.serial = @ + 1]
    /\ Finishes("frame", frame)

\* _run: the command that the owner works on ends, or raises
OwnerFinishes ==
    /\ \/ /\ Works("capture") /\ Captures(NextFrame)
       \/ /\ Works("probe")
          /\ \E kind \in {"current", "unavailable"} \cup
                 (IF page.v # act.binding.seen THEN {"stale"} ELSE {}) : Finishes(kind, NoFrame)
          /\ UNCHANGED page
       \/ /\ Works("final") /\ Captures(NextFrame)
       \/ /\ Works("health")
          /\ \E kind \in {"alive", "lost"} : Finishes(kind, NoFrame)
          /\ UNCHANGED page
       \/ /\ owner.busy # <<>>
          /\ Finishes("raised", NoFrame)
          /\ UNCHANGED page
    /\ UNCHANGED <<deployment, co, acq, act, ad, closed>>

\* _causal_step: the effect lands on a page that comes to rest, on one that
\* does not, or stays out until a navigation commits; or the step fails late
OwnerSteps ==
    /\ Works("step")
    /\ LET n == owner.busy[1].n
           landed == Lands(page, n)
       IN  \/ /\ page.serial < MaxCaptures[deployment]
              /\ page' = [landed EXCEPT !.serial = @ + 1]
              /\ Finishes("frame", [serial |-> landed.serial + 1, seen |-> landed.v])
           \/ /\ page' = landed
              /\ \E kind \in {"acquisition_unstable", "raised"} : Finishes(kind, NoFrame)
           \/ /\ page' = [page EXCEPT !.out = @ \cup {n}]
              /\ Finishes("navigation_pending", NoFrame)
    /\ UNCHANGED <<deployment, co, acq, act, ad, closed>>

NavigationCommits ==
    /\ \E n \in page.out : page' = Lands(page, n)
    /\ UNCHANGED <<deployment, co, acq, act, ad, owner, closed>>

GivenUp(commands) == [i \in DOMAIN commands |-> [commands[i] EXCEPT !.waited = FALSE]]

Unwaited(o) == [o EXCEPT !.queue = GivenUp(@), !.busy = GivenUp(@)]

Overdue == owner.queue # <<>> \/ owner.busy # <<>>

\* only commands that have not been taken have a deadline
DeadlineOfQueue == owner.queue # <<>>

\* every command has its deadline, also the one whose answer has just come
Deadline == Awaiting \/ Overdue

\* _call: the deadline of a wait; the owner that has not answered is given up for
\* good, an answer that came with the deadline is only lost
Timeout ==
    /\ Deadline
    /\ owner' = [Unwaited(owner) EXCEPT
                    !.timedOut = @ \/ Overdue,
                    !.answer = IF Awaiting THEN OwnerAnswer("raised", NoFrame) ELSE @]
    /\ owner.answer.kind # "raised"
    /\ UNCHANGED <<deployment, page, co, acq, act, ad, closed>>

Abandoned == [Unwaited(owner) EXCEPT !.answer = OwnerAnswer("none", NoFrame), !.cancels = @ + 1]

\* a wait is cancelled: a probe and a health check close the dispatch, a capture
\* closes it if it was the first after the action, and a sent command is
\* answered for as an uncertain one
Cancel ==
    /\ owner.cancels < MaxCancels
    /\ Awaiting
    /\ owner' = Abandoned
    /\ \/ /\ act.at = "probe"
          /\ Close(act, {}, "cancelled")
          /\ act' = Doing("ended", act.n)
          /\ UNCHANGED <<co, acq, ad>>
       \/ /\ act.at = "health_probe"
          /\ Close(act, {}, "session_lost")
          /\ act' = Doing("ended", act.n)
          /\ UNCHANGED <<co, acq, ad>>
       \/ /\ act.at = "step"
          /\ ad' = [ad EXCEPT !.err = "step_failed"]
          /\ Sent("unknown", TRUE)
       \/ /\ act.at = "final"
          /\ ad' = [ad EXCEPT !.err = "step_failed"]
          /\ FinalStarts("unknown", TRUE)
       \/ /\ acq.at = "frame"
          /\ IF acq.then = "post" THEN Close(act, {}, "cancelled") ELSE UNCHANGED closed
          /\ acq' = NoAcquisition
          /\ act' = Doing("ended", act.n)
          /\ UNCHANGED <<co, ad>>
    /\ UNCHANGED <<deployment, page>>

-----------------------------------------------------------------------------
\* the run's own steps, which its event loop takes
RunSteps ==
    \/ Reset \/ Refresh \/ Recover
    \/ SessionAcquires \/ SessionExecutes \/ SessionUnresolved
    \/ GymAcquires \/ FrameAnswered \/ GymExecutes \/ ProbeAnswered
    \/ StepAnswered \/ FinalAnswered \/ Probes \/ HealthAnswered

Next ==
    \/ RunSteps
    \/ Observe \/ SelectAction \/ Finalize
    \/ PageDrifts \/ NavigationCommits
    \/ OwnerTakes \/ OwnerFinishes \/ OwnerSteps \/ Timeout \/ Cancel

Spec == Init /\ [][Next]_vars

\* the event loop goes on, and every wait has a deadline; the owner thread, the
\* page and the decisions of the policy are owed nothing
FairSpec == Spec /\ WF_vars(RunSteps) /\ WF_vars(Timeout)

-----------------------------------------------------------------------------
\* A step is closed with a world only if that world was seen after the effect:
\* no effect of the closed dispatch is outstanding, and every source of the
\* world shows the version in which it landed (orchestrator.execute,
\* environment.acquire_group).
FreshAfterEffect ==
    (closed.n # 0 /\ closed.after # {} /\ closed.status = "sent") =>
        /\ closed.n \notin page.out
        /\ \A obs \in closed.after : obs.seen >= page.landed[closed.n]

\* A dispatch that is reported as not sent never has an effect, not even a late
\* one of a command that was given up (environment.execute, ThreadBoundBrowserGym).
NotSentMeansNoEffect ==
    (closed.n # 0 /\ closed.status = "not_sent") =>
        closed.n \notin page.out /\ page.landed[closed.n] = 0

\* What a step reports of its dispatch is what happened to it: a world younger than
\* the effect if it was sent, no effect at any time if it was not.
ReportIsTrue == FreshAfterEffect /\ NotSentMeansNoEffect

\* An action whose every call went well is closed with a world: no legal plan of
\* the post-action acquisition, routed to the acting source, is beyond what the
\* adapters can answer once the recovery is counted (orchestrator.execute,
\* core_loop._recover_post_dispatch_observation).
FaultFreeActionIsSeen ==
    (closed.status = "sent" /\ ~closed.faulty) => closed.after # {}

\* The effect of a dispatch lands at most once: no failure, refresh or recovery
\* replays it, and no command of the owner is worked on twice (orchestrator.execute,
\* core_loop._refresh_stale_binding, ThreadBoundBrowserGym._run).
EffectLandsOnce ==
    [][\A n \in Sends :
          page.landed[n] # 0 => page'.landed[n] = page.landed[n] /\ n \notin page'.out]_vars

\* After a deadline the owner is not given another command, so that no effect is
\* started behind one whose fate is unknown (ThreadBoundBrowserGym._call).
AbandonedOwnerIsLeftAlone ==
    [][owner.timedOut => Len(owner'.queue) <= Len(owner.queue)]_vars

\* Every dispatch comes to an end, whatever the owner thread does: each of its
\* waits has a deadline, and no acquisition is retried more than once.
DispatchEnds ==
    act.at = "bound" ~> act.at \in {"idle", "refresh", "blocked", "ended"}
=============================================================================
