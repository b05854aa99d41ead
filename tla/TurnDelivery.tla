--------------------------- MODULE TurnDelivery ---------------------------
(* What one model turn may see and call: the plan of the current page's       *)
(* controls, its packing into one request, the catalog of tools compiled from *)
(* it, and the resolution of the model's call.  A control is named by a       *)
(* reference of the page (E1, E2, ...): another page uses the same references *)
(* for other elements.  The renderer, the ranking and the count of tokens are *)
(* external: a suggestion is any one control, and a record costs one token.   *)
EXTENDS Naturals, Sequences, SequencesExt, FiniteSets

CONSTANTS
    Sites,       \* the pages by name: controls, regions and their kinds, focus, labels
    PageSize,    \* controls on one action page
    SoftTarget, HardLimit,  \* tokens of a request: wished for, and allowed
    MaxSites,    \* bound: pages met in a behaviour
    MaxDeliveries     \* bound: turns

ASSUME DeliveryAssumption ==
    /\ SoftTarget \in Nat \ {0} /\ HardLimit \in Nat
    /\ PageSize \in Nat \ {0} /\ MaxSites \in Nat /\ MaxDeliveries \in Nat

VARIABLES
    site,        \* [id, name]: the current world and its page
    found,       \* {} or {the routes the last search of this world returned}
    lastRead,    \* {} or {[id, page, routes]}: the last step, when it was a read
    plan,        \* the plan of this turn
    pack,        \* the state of its packing
    turn,        \* turns begun
    phase        \* ready, bare, minimum, extend, model, refused, failed, over

\* The page of the current world.
Here == Sites[site.name]

deliveryVars == <<site, found, lastRead, plan, pack, turn, phase>>

Phases == {"ready", "bare", "minimum", "extend", "model", "refused", "failed", "over"}
ObligationKinds == {"query", "interaction", "base", "issues"}

----------------------------------------------------------------------------
(* Controls and routes.                                                      *)
Distinct(s) == FoldLeft(LAMBDA acc, x : IF x \in ToSet(acc) THEN acc ELSE Append(acc, x), <<>>, s)
MapSeq(f(_), s) == [i \in DOMAIN s |-> f(s[i])]

\* One row per destination of a control, or the one row of a control without.
ExpandRows(o) == IF o.dests = <<>> THEN << <<o.op, o.target, "">> >>
                 ELSE MapSeq(LAMBDA d : <<o.op, o.target, d>>, o.dests)
RoutesOf(s) == FlattenSeq(MapSeq(ExpandRows, s))
RouteSet(s) == ToSet(RoutesOf(s))

\* The target of a record; an issue has none.
TargetOf(r) == r[2]
IsRoute(r) == r[1] # "issue"

GroupRoutesByTarget(rs) ==
    FlattenSeq(MapSeq(LAMBDA t : SelectSeq(rs, LAMBDA r : TargetOf(r) = t),
                      Distinct(MapSeq(TargetOf, rs))))

IsTargetAtomicPrefix(rs, n) ==
    n = 0 \/ n >= Len(rs) \/ ~(IsRoute(rs[n]) /\ TargetOf(rs[n]) = TargetOf(rs[n + 1]))
NextAtomicPrefix(rs, n) ==
    IF n >= Len(rs) THEN n
    ELSE CHOOSE m \in n + 1 .. Len(rs) :
            /\ IsTargetAtomicPrefix(rs, m)
            /\ \A k \in n + 1 .. m - 1 : ~IsTargetAtomicPrefix(rs, k)

\* A required prefix holds the required targets and no other; else no plan.
NoPrefix == 99
RequiredPrefix(rs, targets) ==
    LET last == {i \in DOMAIN rs : TargetOf(rs[i]) \in targets}
        n == CHOOSE i \in last : \A j \in last : j <= i
    IN IF targets = {} THEN 0
       ELSE IF \/ ~(targets \subseteq ToSet(MapSeq(TargetOf, rs)))
               \/ \E i \in 1 .. n : TargetOf(rs[i]) \notin targets
            THEN NoPrefix ELSE n

----------------------------------------------------------------------------
(* Searching the controls of a page by words.                                *)
Matches(p, query) ==
    LET roles == query \cap {o.role : o \in ToSet(p.options)}
        ops == query \cap {o.op : o \in ToSet(p.options)}
        words == query \ (roles \cup ops)
        exact(o) == o.label # {} /\ (o.label \subseteq query \/ query \subseteq o.label)
        named(o) == IF exact(o) THEN query \cap o.label ELSE {}
        overlap(o) == (words \cup named(o)) \cap o.label
    IN {o \in ToSet(p.options) :
          /\ roles \ named(o) \subseteq {o.role}
          /\ ops \ named(o) \subseteq {o.op}
          /\ IF words \cup named(o) # {} THEN overlap(o) # {}
             ELSE (roles \cup ops) \ named(o) # {} \/ exact(o)}
\* Ranked by the share of the wanted words a control has, exact labels first.
RankedMatches(p, query) ==
    LET pos(o) == CHOOSE i \in DOMAIN p.options : p.options[i] = o
        score(o) == 10 * Cardinality(query \cap o.label)
                    + (IF o.label # {} /\ o.label \subseteq query THEN 5 ELSE 0)
    IN SetToSortSeq(Matches(p, query),
           LAMBDA a, b : score(a) > score(b) \/ (score(a) = score(b) /\ pos(a) < pos(b)))
\* The first PageSize routes, as controls with the destinations still in them.
ActionPage(options) ==
    LET visible == SubSeq(RoutesOf(options), 1,
                          IF Len(RoutesOf(options)) < PageSize THEN Len(RoutesOf(options)) ELSE PageSize)
        shown(o) == [o EXCEPT !.dests = SelectSeq(@, LAMBDA d : <<o.op, o.target, d>> \in ToSet(visible))]
    IN MapSeq(shown, SelectSeq(options, LAMBDA o : \E r \in ToSet(visible) : r[1] = o.op /\ r[2] = o.target))

----------------------------------------------------------------------------
(* The plan of a turn.                                                       *)
Entities(p) == {o \in ToSet(p.options) : o.kind = "entity"}
InCollection(p, t) == p.region[t] \in p.collections
\* Regions that hold the focus of a form, dialog or search.
FocusedContainers(p) ==
    {p.region[t] : t \in {u \in p.focused \cap p.holders :
        p.region[u] \in p.forms /\ ~InCollection(p, u) /\ \E o \in ToSet(p.options) : o.target = u}}
ActiveTargets(p) == {o.target : o \in {e \in Entities(p) : p.region[e.target] \in FocusedContainers(p)}}
IsDirectValue(p, o) == o.kind = "entity" /\ o.op = "fill"
IsStateful(p, o) == o.kind = "entity" /\ o.target \in p.stateful
ValueRegions(p) == {p.region[o.target] : o \in {e \in Entities(p) : IsDirectValue(p, e) /\ ~InCollection(p, e.target)}}

LessKey(a, b) == \E i \in DOMAIN a : a[i] < b[i] /\ \A j \in 1 .. i - 1 : a[j] = b[j]
Rank(b) == IF b THEN 0 ELSE 1
\* As InteractionKey, but a focused control outside the form may come before its fields.
InteractionKeyByFocus(p, o) ==
    LET pos == CHOOSE i \in DOMAIN p.options : p.options[i] = o
    IN IF o.target \in p.focused \/ p.region[o.target] \in FocusedContainers(p)
       THEN <<0, Rank(o.target \in p.focused), pos, 0, 0, 0>> ELSE <<1, 2, 0, 0, 0, pos>>
InteractionKey(p, o) ==
    LET \* _INTERACTION_CONTAINER_ORDER: dialogs first, navigation last
        container_order == p.order[p.region[o.target]]
        focus == o.target \in p.focused
        container == p.region[o.target] \in FocusedContainers(p)
        required == Rank(o.target \in ActiveTargets(p))
        pos == CHOOSE i \in DOMAIN p.options : p.options[i] = o
    IN IF focus \/ container THEN <<required, Rank(focus), pos, 0, 0, 0>>
       ELSE <<required, 2, Rank(o.target \in p.visible), container_order,
              IF IsDirectValue(p, o) THEN 0 ELSE IF IsStateful(p, o) THEN 1 ELSE 2, pos>>

BuildPlan(p, base, suggested, search) ==
    LET present == {<<o.target, o.op>> : o \in ToSet(base) \cup suggested}
        absent(o) == <<o.target, o.op>> \notin present
        isInteraction(o) ==
            \/ o.target \in p.focused
            \/ p.region[o.target] \in FocusedContainers(p)
            \/ absent(o) /\ (IsDirectValue(p, o) \/ IsStateful(p, o))
            \/ absent(o) /\ o.kind = "entity" /\ p.region[o.target] \in ValueRegions(p)
        interaction == SelectSeq(SortSeq(p.options, LAMBDA a, b :
                                     LessKey(InteractionKey(p, a), InteractionKey(p, b))), isInteraction)
        elsewhere(o) == o.target \notin {q.target : q \in ToSet(interaction)}
        browser == SelectSeq(p.options, LAMBDA o : o.kind = "browser")
        baseList == browser \o SelectSeq(SetToSeq(suggested) \o base, elsewhere)
        returned == UNION {f.routes : f \in search}
        records ==
            [query |-> SetToSeq(returned \cap RouteSet(p.options)),
             interaction |-> RoutesOf(interaction), base |-> RoutesOf(baseList),
             issues |-> MapSeq(LAMBDA i : <<"issue", i, "">>, p.issues)]
        inventory == [k \in ObligationKinds |-> GroupRoutesByTarget(Distinct(records[k]))]
        active == ActiveTargets(p)
        required ==
            [query |-> Len(inventory.query),
             base |-> IF active # {} THEN RequiredPrefix(inventory.base, {o.target : o \in ToSet(browser)})
                      ELSE IF search = {} THEN Len(inventory.base) ELSE 0,
             interaction |-> IF active # {} THEN RequiredPrefix(inventory.interaction, active)
                             ELSE IF search = {} THEN NextAtomicPrefix(inventory.interaction, 0) ELSE 0,
             issues |-> 0]
        priority ==
            [query |-> IF search # {} THEN 1 ELSE 6,
             interaction |-> IF search # {} THEN 2 ELSE IF active # {} THEN 1 ELSE 3,
             base |-> IF search # {} /\ active # {} THEN 3 ELSE 2,
             issues |-> 5]
        kinds == {k \in ObligationKinds : inventory[k] # <<>>}
        name == [base |-> 1, interaction |-> 2, issues |-> 3, query |-> 4]
    IN [records |-> inventory, required |-> required,
        order |-> SetToSortSeq(kinds, LAMBDA a, b :
                     LessKey(<<priority[a], name[a]>>, <<priority[b], name[b]>>)),
        valid |-> /\ returned \subseteq RouteSet(p.options)
                  /\ \A k \in kinds : /\ required[k] # NoPrefix
                                      /\ IsTargetAtomicPrefix(inventory[k], required[k])]

EmptyPlan == [records |-> [k \in ObligationKinds |-> <<>>], required |-> [k \in ObligationKinds |-> 0],
           order |-> <<>>, valid |-> TRUE]

----------------------------------------------------------------------------
(* Packing the plan into one request.                                        *)
Delivered(pl, counts) == UNION {ToSet(SubSeq(pl.records[k], 1, counts[k])) : k \in ObligationKinds}
\* RequestAdmission's estimate: the rest of the request costs one token.
EstimatedTokens(pl, counts) == 1 + Cardinality(Delivered(pl, counts))
FitsBudget(pl, counts, limit) == EstimatedTokens(pl, counts) <= limit
NoRecords == [k \in ObligationKinds |-> 0]
\* The simultaneous minimum: what the owners require, else the foreground's first target.
HardMinimum(pl) ==
    IF \A k \in ObligationKinds : pl.required[k] = 0
    THEN IF pl.order = <<>> THEN NoRecords
         ELSE [NoRecords EXCEPT ![pl.order[1]] = NextAtomicPrefix(pl.records[pl.order[1]], 0)]
    ELSE pl.required
MinimumKinds(pl) == {k \in ObligationKinds : HardMinimum(pl)[k] > 0}
IdlePack == [admitted |-> NoRecords, blocked |-> {}, queue |-> <<>>, first |-> FALSE, progressed |-> FALSE]
PackingLimit == IF SoftTarget < HardLimit THEN SoftTarget ELSE HardLimit

----------------------------------------------------------------------------
(* What the catalog offers.                                                  *)
\* Routes a read tool returned, while the world it read is this one.
ReadRoutes ==
    UNION {r.routes \cap {row \in RouteSet(Here.options) : row[3] = ""} :
             r \in {x \in lastRead : x.before = site.id /\ x.after = site.id}}
OfferedRoutes == {r \in Delivered(plan, pack.admitted) : IsRoute(r)} \cup ReadRoutes
FindControlsOffered == RouteSet(Here.options) \ OfferedRoutes # {}
\* A tool per operation, resolved by the references of its delivered rows.
Resolves(r) == r \in OfferedRoutes
\* The compiler refuses a delivered route that the space has not.
CatalogCloses == OfferedRoutes \subseteq RouteSet(Here.options)

----------------------------------------------------------------------------
DeliveryTypeOK ==
    /\ phase \in Phases /\ turn \in 0 .. MaxDeliveries
    /\ site.id \in 0 .. MaxSites /\ site.name \in DOMAIN Sites
    /\ pack.admitted \in [ObligationKinds -> Nat] /\ pack.blocked \subseteq ObligationKinds
    /\ Cardinality(found) <= 1 /\ Cardinality(lastRead) <= 1

DeliveryInit ==
    /\ site \in {[id |-> 0, name |-> p] : p \in DOMAIN Sites}
    /\ found = {} /\ lastRead = {}
    /\ plan = EmptyPlan /\ pack = IdlePack /\ turn = 0 /\ phase = "ready"

\* ContextBuilder.build: the page, the ranker's suggestion, the plan.
BuildContext(suggested) ==
    /\ phase = "ready" /\ turn < MaxDeliveries
    /\ plan' = BuildPlan(Here, ActionPage(Here.options), suggested, found)
    /\ pack' = IdlePack /\ turn' = turn + 1
    /\ phase' = IF plan'.valid THEN "bare" ELSE "failed"
    /\ UNCHANGED <<site, found, lastRead>>

\* The first request carries no record at all.
AttemptBare ==
    /\ phase = "bare"
    /\ phase' = IF FitsBudget(plan, NoRecords, HardLimit) THEN "minimum" ELSE "refused"
    /\ UNCHANGED <<site, found, lastRead, plan, pack, turn>>

\* The complete minimum, or no turn.
AttemptMinimum ==
    /\ phase = "minimum"
    /\ IF FitsBudget(plan, HardMinimum(plan), HardLimit)
       THEN /\ phase' = "extend"
            /\ pack' = [IdlePack EXCEPT !.admitted = HardMinimum(plan), !.queue = plan.order,
                                        !.first = MinimumKinds(plan) # {}]
       ELSE phase' = "refused" /\ UNCHANGED pack
    /\ UNCHANGED <<site, found, lastRead, plan, turn>>

\* One kind of the round: its next whole target, when it fits the soft target.
Extend ==
    /\ phase = "extend" /\ pack.queue # <<>>
    /\ LET k == Head(pack.queue)
           rest == [pack EXCEPT !.queue = Tail(@)]
           more == [pack.admitted EXCEPT ![k] = NextAtomicPrefix(plan.records[k], @)]
       IN pack' = IF \/ pack.first /\ k \in MinimumKinds(plan)
                     \/ k \in pack.blocked \/ pack.admitted[k] = Len(plan.records[k])
                  THEN rest
                  ELSE IF FitsBudget(plan, more, PackingLimit)
                  THEN [rest EXCEPT !.admitted = more, !.progressed = TRUE]
                  ELSE [rest EXCEPT !.blocked = @ \cup {k}]
    /\ UNCHANGED <<site, found, lastRead, plan, turn, phase>>

\* A round ends: another one, or the final request.
EndRound ==
    /\ phase = "extend" /\ pack.queue = <<>>
    /\ LET more == \E k \in MinimumKinds(plan) : pack.admitted[k] < Len(plan.records[k])
       IN IF pack.progressed \/ (pack.first /\ more)
          THEN /\ pack' = [pack EXCEPT !.queue = plan.order, !.first = FALSE, !.progressed = FALSE]
               /\ UNCHANGED phase
          ELSE /\ pack' = [IdlePack EXCEPT !.admitted = pack.admitted]
               /\ phase' = IF ~FitsBudget(plan, pack.admitted, HardLimit) THEN "refused"
                           ELSE IF CatalogCloses THEN "model" ELSE "failed"
    /\ UNCHANGED <<site, found, lastRead, plan, turn>>

TurnEnds ==
    /\ phase' = IF turn = MaxDeliveries THEN "over" ELSE "ready"
    /\ plan' = EmptyPlan /\ pack' = IdlePack /\ UNCHANGED turn
NextSite(p) ==
    /\ site.id < MaxSites
    /\ site' = [id |-> site.id + 1, name |-> p]
    /\ found' = {}

\* The model selects an offered route; the action leads to another world.
SelectRoute(r, p) ==
    /\ phase = "model" /\ Resolves(r)
    /\ NextSite(p) /\ lastRead' = {} /\ TurnEnds

\* A reference that is not offered is rejected: a step of the same world.
RejectRoute ==
    /\ phase = "model"
    /\ \E q \in DOMAIN Sites : \E r \in RouteSet(Sites[q].options) : ~Resolves(r)
    /\ lastRead' = {} /\ TurnEnds
    /\ UNCHANGED <<site, found>>

\* find_controls: never executes; the page that was shown is kept.
FindControls(query) ==
    /\ phase = "model" /\ FindControlsOffered
    /\ LET shown == ActionPage(RankedMatches(Here, query))
       IN found' = {[query |-> query, routes |-> RouteSet(shown)]}
    /\ lastRead' = {} /\ TurnEnds /\ UNCHANGED site

\* A read of this world returns references of readable records, some executable.
ReadRegion(routes) ==
    /\ phase = "model"
    /\ lastRead' = {[before |-> site.id, after |-> site.id, routes |-> routes]}
    /\ TurnEnds /\ UNCHANGED <<site, found>>

\* An observation acquires a world, and answers with references of it.
RequestObservation(p) ==
    /\ phase = "model"
    /\ NextSite(p)
    /\ lastRead' = {[before |-> site.id, after |-> site.id + 1,
                     routes |-> {r \in RouteSet(Sites[p].options) : r[3] = ""}]}
    /\ TurnEnds

\* A takeover between turns: the call is closed, the world observed anew.
RefreshExternal(p) ==
    /\ phase = "ready" /\ turn > 0
    /\ NextSite(p) /\ lastRead' = {}
    /\ UNCHANGED <<plan, pack, turn, phase>>

Suggestions == {{}} \cup {{o} : o \in ToSet(Here.options)}
Queries == {o.label : o \in ToSet(Here.options)} \cup {o.label \cup {o.role} : o \in ToSet(Here.options)}
Readable == {{}, {r \in RouteSet(Here.options) : r[3] = ""}}

DeliveryNext ==
    \/ \E s \in Suggestions : BuildContext(s)
    \/ AttemptBare \/ AttemptMinimum \/ Extend \/ EndRound
    \/ \E p \in DOMAIN Sites : \/ \E r \in OfferedRoutes : SelectRoute(r, p)
                        \/ RequestObservation(p) \/ RefreshExternal(p)
    \/ RejectRoute
    \/ \E q \in Queries \ {{}} : FindControls(q)
    \/ \E routes \in Readable : ReadRegion(routes)

DeliverySpec == DeliveryInit /\ [][DeliveryNext]_deliveryVars

----------------------------------------------------------------------------
\* A supported page gets its turn: what is required together forms a prefix of its
\* group, a returned search closes over the current space, the catalog compiles, and
\* only a minimum that does not fit on its own has the turn refused.
TurnIsNotLost ==
    /\ phase # "failed"
    /\ phase = "refused" => ~FitsBudget(plan, HardMinimum(plan), HardLimit)

\* A turn that reaches the model offers every route of the last search, every route of
\* the form that holds the focus, and then the browser's own controls; a control
\* searched by its label, with or without its role, is among them.
RequiredIsOffered ==
    phase = "model" =>
        LET p == Here
            rows(T) == {r \in RouteSet(p.options) : TargetOf(r) \in T}
            browser == {b \in ToSet(p.options) : b.kind = "browser"}
        IN /\ rows(ActiveTargets(p)) \subseteq OfferedRoutes
           /\ ActiveTargets(p) # {} \/ found = {} => rows({o.target : o \in browser}) \subseteq OfferedRoutes
           /\ \A f \in found :
                 /\ f.routes \subseteq OfferedRoutes
                 /\ \A o \in ToSet(p.options) : f.query \in {o.label, o.label \cup {o.role}} =>
                        ToSet(ExpandRows(o)) \cap OfferedRoutes # {}

\* A turn serves its agent: no supported page loses its turn, and the turn that is
\* taken offers what the search, the focused form and the browser require of it.
TurnServesAgent == TurnIsNotLost /\ RequiredIsOffered
=============================================================================
