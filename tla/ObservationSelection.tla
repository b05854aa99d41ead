------------------------ MODULE ObservationSelection ------------------------
(***************************************************************************)
(* The choice of the sources that one acquisition of the world asks:       *)
(* ObservationOrchestrator (world/observation_orchestrator.py), and the    *)
(* checks that the constructors of the plan, of the activations and of the *)
(* acquisition make of it (world/acquisition.py).                          *)
(*                                                                         *)
(* An offer is [source, modality, assurance, purposes]; a sequence of      *)
(* offers is in the order of _offer_rank.  A need is [id, purpose,         *)
(* modality, assurance]; "any" stands for no required modality.            *)
(***************************************************************************)
EXTENDS Integers, Sequences, FiniteSets, SequencesExt

CONSTANT Budget   \* acquisition_budget: the sources one plan may select

ASSUME BudgetAssumption == Budget \in {1, 2}

Requirements == {"required", "optional"}

\* assurance_satisfies: the order of the assurances
AssuranceRank == [weak |-> 0, structural |-> 1, authoritative |-> 2]

\* A need is named by its kind and, for a baseline, the need it grounds.
Baseline(need) ==
    [id |-> <<"baseline", need.id>>, purpose |-> "grounding",
     modality |-> "structural", assurance |-> "structural"]

Lifecycle(kind) ==
    [id |-> <<"lifecycle", kind>>,
     purpose |-> IF kind = "policy" THEN "grounding" ELSE "refresh",
     modality |-> "any", assurance |-> "weak"]

\* what stage two asks for: a newly visible overlay to be interpreted
LayerTransition ==
    [id |-> <<"residual", "effect">>, purpose |-> "effect",
     modality |-> "visual", assurance |-> "weak"]

\* the order of need_id: baseline:, lifecycle:, query ids, residual:, verification:
NeedRank == [baseline |-> 0, lifecycle |-> 1, query |-> 2, residual |-> 3,
             verification |-> 4]

\* the members of a set, no two of which have the same rank, in its order
InOrder(S, rank) ==
    CHOOSE s \in [1 .. Cardinality(S) -> S] :
        \A i, j \in 1 .. Cardinality(S) : i < j => rank[s[i]] < rank[s[j]]

ById(needs) == InOrder(needs, [need \in needs |-> NeedRank[need.id[1]]])

\* _offer_satisfies
Satisfies(offer, need) ==
    /\ need.modality \in {"any", offer.modality}
    /\ need.purpose \in offer.purposes
    /\ AssuranceRank[offer.assurance] >= AssuranceRank[need.assurance]

OfferOf(offers, source) == offers[CHOOSE i \in DOMAIN offers : offers[i].source = source]

Sources(selections) == {selections[i].source : i \in DOMAIN selections}

-----------------------------------------------------------------------------
(* _select: a fold over the needs.  The state is the selections in the     *)
(* order in which they were made (a dict keeps it), the needs of the plan  *)
(* and the reason of the failure, if any.                                  *)

Selection(source, requirement, reason, ids) ==
    [source |-> source, requirement |-> requirement, reason |-> reason, needs |-> ids]

\* _add: a further source, within the budget
Add(s, selection) ==
    IF selection.source \in Sources(s.selections) THEN s
    ELSE IF Len(s.selections) >= Budget THEN [s EXCEPT !.failure = "source_budget_exhausted"]
    ELSE [s EXCEPT !.selections = Append(@, selection)]

\* a selected source takes one more need, and its requirement
Extended(s, i, need, requirement) ==
    [s EXCEPT !.selections[i].needs = @ \cup {need.id},
              !.selections[i].requirement =
                  IF requirement = "required" THEN "required" ELSE @]

\* the structural source that has to ground a visual answer
BaselineOffers(offers) ==
    {i \in DOMAIN offers : offers[i].modality = "structural" /\ "grounding" \in offers[i].purposes}

NeedsBaseline(s, offers, adequate, baselineThere) ==
    /\ adequate # {}
    /\ \A i \in adequate : offers[i].modality = "visual"
    /\ ~baselineThere
    /\ \A src \in Sources(s.selections) : OfferOf(offers, src).modality # "structural"
    /\ BaselineOffers(offers) # {}

WithBaseline(s, offers, need) ==
    Add([s EXCEPT !.needs = @ \cup {Baseline(need)}],
        Selection(offers[Min(BaselineOffers(offers))].source, "required", "structured_baseline",
                  {Baseline(need).id}))

\* one need: a selected source that satisfies it, or a source of its own
Resolved(s, offers, need, optional, baselineThere) ==
    LET requirement == IF need.id \in optional THEN "optional" ELSE "required"
        holders  == {i \in DOMAIN s.selections :
                        Satisfies(OfferOf(offers, s.selections[i].source), need)}
        adequate == {i \in DOMAIN offers : Satisfies(offers[i], need)}
        grounded == IF NeedsBaseline(s, offers, adequate, baselineThere)
                    THEN WithBaseline(s, offers, need) ELSE s
        unused   == {i \in adequate : offers[i].source \notin Sources(grounded.selections)}
    IN  IF s.failure # "" THEN s
        ELSE IF holders # {} THEN Extended(s, Min(holders), need, requirement)
        ELSE IF grounded.failure # "" THEN grounded
        ELSE IF adequate = {} THEN [grounded EXCEPT !.failure = "unavailable"]
        ELSE IF unused # {}
             THEN Add(grounded, Selection(offers[Min(unused)].source, requirement, "grounding", {need.id}))
             ELSE Extended(grounded,
                           CHOOSE i \in DOMAIN grounded.selections :
                               grounded.selections[i].source = offers[Min(adequate)].source,
                           need, requirement)

\* the selections in the order of the offers
InOfferOrder(offers, selections) ==
    LET RankOf(src) == CHOOSE n \in DOMAIN offers : offers[n].source = src
        order == InOrder(DOMAIN selections,
                         [i \in DOMAIN selections |-> RankOf(selections[i].source)])
    IN  [n \in DOMAIN selections |-> selections[order[n]]]

\* the plan in the order of the offers; _lifecycle_need and the route source
Select(offers, kind, requested, route, optional, baselineThere) ==
    LET routed == [selections |-> <<Selection(route, "required", "route_source_refresh",
                                              {Lifecycle(kind).id})>>,
                   needs      |-> {Lifecycle(kind)} \cup requested,
                   failure    |-> IF route \in Sources(offers) THEN "" ELSE "unavailable"]
        free   == [selections |-> <<>>,
                   needs      |-> IF requested = {} THEN {Lifecycle(kind)} ELSE requested,
                   failure    |-> IF offers = <<>> THEN "unavailable" ELSE ""]
        start  == IF route # "" THEN routed ELSE free
        open   == IF route # "" THEN requested ELSE free.needs
        order  == ById(open)
        after[n \in 0 .. Cardinality(open)] ==
            IF n = 0 THEN start ELSE Resolved(after[n - 1], offers, order[n], optional, baselineThere)
        final  == after[Cardinality(open)]
    IN  IF final.failure # ""
        THEN [selections |-> <<>>, needs |-> {}, failure |-> final.failure]
        ELSE [final EXCEPT !.selections = InOfferOrder(offers, @)]

\* _retain_acquired_sources: what stage one has acquired stays in the plan
Retained(prior, refined, acquired) ==
    LET kept  == {i \in DOMAIN prior.selections :
                     prior.selections[i].source \in acquired \ Sources(refined.selections)}
        order == InOrder(kept, [i \in kept |-> i])
        all   == [n \in DOMAIN order |-> prior.selections[order[n]]] \o refined.selections
    IN  IF refined.failure # "" \/ kept = {} THEN refined
        ELSE [refined EXCEPT
                 !.selections = all,
                 !.needs = {need \in prior.needs \cup refined.needs :
                                \E i \in DOMAIN all : need.id \in all[i].needs}]

\* select_after_baseline, with the residual needs that the structured source shows
SelectAfterBaseline(offers, kind, requested, layerChanged, route, prior, acquired) ==
    LET residual == IF /\ layerChanged
                       /\ \A need \in requested : need.purpose # "effect"
                       /\ \E i \in DOMAIN offers : Satisfies(offers[i], LayerTransition)
                    THEN {LayerTransition} ELSE {}
        needs    == (IF requested = {} THEN {Lifecycle(kind)} ELSE requested) \cup residual
    IN  Retained(prior,
                 Select(offers, kind, needs, route, {need.id : need \in residual}, TRUE),
                 acquired)

-----------------------------------------------------------------------------
(* What the constructors demand.                                           *)

\* ObservationSelectionPlan.__post_init__: within the budget, every source
\* once, and the needs partitioned over the selections
PlanLegal(plan) ==
    LET ids == {need.id : need \in plan.needs}
        own(i) == plan.selections[i].needs
    IN  /\ Len(plan.selections) <= Budget
        /\ Cardinality(Sources(plan.selections)) = Len(plan.selections)
        /\ Cardinality(ids) = Cardinality(plan.needs)
        /\ \A i \in DOMAIN plan.selections : own(i) # {}
        /\ \A i, j \in DOMAIN plan.selections : i # j => own(i) \cap own(j) = {}
        /\ UNION {own(i) : i \in DOMAIN plan.selections} = ids

\* selected_observation_requests: one request per selection, with its needs
RequestsOf(plan) ==
    {[source |-> plan.selections[i].source,
      needs  |-> {need \in plan.needs : need.id \in plan.selections[i].needs}]
        : i \in DOMAIN plan.selections}

IsRequired(plan, source) ==
    \E i \in DOMAIN plan.selections :
        /\ plan.selections[i].source = source
        /\ plan.selections[i].requirement = "required"

RouteOf(plan) ==
    LET routes == {plan.selections[i].source : i \in
                      {j \in DOMAIN plan.selections :
                          plan.selections[j].reason = "route_source_refresh"}}
    IN  IF routes = {} THEN "" ELSE CHOOSE r \in routes : TRUE

\* ObservationAcquisition._validate_correlation and _validate_stage_shape:
\* results is a function from sources to results
AcquisitionLegal(plan, results, stage) ==
    /\ DOMAIN results \subseteq Sources(plan.selections)
    /\ \A r \in RequestsOf(plan) :
          r.source \in DOMAIN results =>
              results[r.source].needs = {need.id : need \in r.needs}
    /\ stage # "initialization" => DOMAIN results = Sources(plan.selections)
    /\ stage = "fulfilled" =>
          \A src \in DOMAIN results : results[src].fulfilled = results[src].needs
    /\ stage = "unresolved" =>
          \E src \in DOMAIN results : results[src].fulfilled # results[src].needs
=============================================================================
