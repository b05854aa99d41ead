-------------------------- MODULE AcquisitionProofs --------------------------
(***************************************************************************)
(* Proofs about what an acquisition of the world can show, for every       *)
(* deployment, budget (1 or 2) and number of dispatches.                   *)
(*                                                                         *)
(* ObservationSelection: a plan that does not fail asks for something, and *)
(* asks of no source what it cannot give; a plan that closes a dispatch    *)
(* requires nothing but the structural source, also when it is refined.    *)
(*                                                                         *)
(* WorldAcquisition: an action whose every call went well is closed with a *)
(* world, by the acquisition after its step or by the one recovery.        *)
(***************************************************************************)
EXTENDS EffectProofs, FiniteSetTheorems

-----------------------------------------------------------------------------
(* The plan of an acquisition: what the selection makes of at most two     *)
(* needs.                                                                  *)

\* One thing alone is in order.
LEMMA OneInOrder ==
    ASSUME NEW x, NEW rank
    PROVE  /\ Cardinality({x}) = 1
           /\ InOrder({x}, rank) \in [1 .. 1 -> {x}]
           /\ InOrder({x}, rank)[1] = x
PROOF
<1> DEFINE P(s) == \A i, j \in 1 .. Cardinality({x}) : i < j => rank[s[i]] < rank[s[j]]
           s == InOrder({x}, rank)
<1>1. Cardinality({x}) = 1
  BY FS_Singleton
<1>2. [i \in 1 .. 1 |-> x] \in [1 .. Cardinality({x}) -> {x}]
  BY <1>1
<1>3. P([i \in 1 .. 1 |-> x])
  BY <1>1
<1>4. s \in [1 .. Cardinality({x}) -> {x}]
  BY <1>2, <1>3 DEF InOrder
<1> HIDE DEF s
<1> QED  BY <1>1, <1>4 DEF s

\* Two things of different ranks are in the order of the ranks.
LEMMA TwoInOrder ==
    ASSUME NEW x, NEW y, NEW rank, rank[x] \in Int, rank[y] \in Int, rank[x] < rank[y]
    PROVE  /\ Cardinality({x, y}) = 2
           /\ InOrder({x, y}, rank) \in [1 .. 2 -> {x, y}]
           /\ InOrder({x, y}, rank)[1] = x /\ InOrder({x, y}, rank)[2] = y
PROOF
<1> DEFINE S == {x, y}
           P(s) == \A i, j \in 1 .. Cardinality(S) : i < j => rank[s[i]] < rank[s[j]]
           s == InOrder(S, rank)
           t == [i \in 1 .. 2 |-> IF i = 1 THEN x ELSE y]
<1>0. x # y
  OBVIOUS
<1>1. Cardinality(S) = 2
  <2>1. IsFiniteSet({x}) /\ Cardinality({x}) = 1
    BY FS_Singleton
  <2>2. y \notin {x} /\ S = {x} \cup {y}
    BY <1>0
  <2> HIDE DEF S
  <2> QED  BY <2>1, <2>2, FS_AddElement
<1>2. rank[x] < rank[y] /\ ~(rank[y] < rank[x]) /\ ~(rank[x] < rank[x]) /\ ~(rank[y] < rank[y])
  OBVIOUS
<1>3. t \in [1 .. Cardinality(S) -> S] /\ t[1] = x /\ t[2] = y
  BY <1>1
<1> HIDE DEF t
<1>4. P(t)
  BY <1>1, <1>2, <1>3
<1>5. s \in [1 .. Cardinality(S) -> S] /\ P(s)
  <2> HIDE DEF S
  <2> QED  BY <1>3, <1>4 DEF InOrder
<1> HIDE DEF s
<1>7. s[1] \in {x, y} /\ s[2] \in {x, y} /\ rank[s[1]] < rank[s[2]] /\ s \in [1 .. 2 -> {x, y}]
  BY <1>1, <1>5
<1>8. s[1] = x /\ s[2] = y
  BY <1>2, <1>7
<1> QED  BY <1>1, <1>7, <1>8 DEF s

\* One need is in order.
LEMMA NeedInOrder ==
    ASSUME NEW x
    PROVE  Cardinality({x}) = 1 /\ ById({x})[1] = x
PROOF BY OneInOrder DEF ById

\* Needs of different kinds are in the order of their kinds.
LEMMA NeedsInOrder ==
    ASSUME NEW x, NEW y, NeedRank[x.id[1]] \in Nat, NeedRank[y.id[1]] \in Nat,
           NeedRank[x.id[1]] < NeedRank[y.id[1]]
    PROVE  Cardinality({x, y}) = 2 /\ ById({x, y})[1] = x /\ ById({x, y})[2] = y
PROOF
<1>1. PICK rank : rank = [need \in {x, y} |-> NeedRank[need.id[1]]]
  OBVIOUS
<1>2. rank[x] = NeedRank[x.id[1]] /\ rank[y] = NeedRank[y.id[1]]
  BY <1>1
<1>3. ById({x, y}) = InOrder({x, y}, rank)
  BY <1>1 DEF ById
<1>4. rank[x] \in Int /\ rank[y] \in Int /\ rank[x] < rank[y]
  BY <1>2
<1> QED  BY ONLY <1>3, <1>4, TwoInOrder

\* No route, or no failure.
Absent == ""

\* The failures of a selection are failures.
LEMMA Failures == "unavailable" # Absent /\ "source_budget_exhausted" # Absent
PROOF BY DEF Absent

\* How the selection starts, and the needs it goes through.
StartOf(offers, kind, requested, route) ==
    IF route # Absent
    THEN [selections |-> <<Selection(route, "required", "route_source_refresh", {Lifecycle(kind).id})>>,
          needs      |-> {Lifecycle(kind)} \cup requested,
          failure    |-> IF route \in Sources(offers) THEN Absent ELSE "unavailable"]
    ELSE [selections |-> <<>>,
          needs      |-> IF requested = {} THEN {Lifecycle(kind)} ELSE requested,
          failure    |-> IF offers = <<>> THEN "unavailable" ELSE Absent]

OpenOf(kind, requested, route) ==
    IF route = Absent /\ requested = {} THEN {Lifecycle(kind)} ELSE requested

\* A failed selection is no plan; a plan is in the order of the offers.
Chosen(offers, s) ==
    IF s.failure # Absent THEN [selections |-> <<>>, needs |-> {}, failure |-> s.failure]
    ELSE [s EXCEPT !.selections = InOfferOrder(offers, @)]

\* The plan for as many needs as there are.
PlanIs(plan, open, start, one, two, offers) ==
    /\ Cardinality(open) = 0 => plan = Chosen(offers, start)
    /\ Cardinality(open) = 1 => plan = Chosen(offers, one)
    /\ Cardinality(open) = 2 => plan = Chosen(offers, two)

\* The selection is the start, resolved for one need after the other.
LEMMA SelectIs ==
    ASSUME NEW offers, NEW kind, NEW requested, NEW route, NEW optional, NEW there,
           NEW start, start = StartOf(offers, kind, requested, route),
           NEW open, open = OpenOf(kind, requested, route), Cardinality(open) \in 0 .. 2,
           NEW order, order = ById(open),
           NEW one, one = Resolved(start, offers, order[1], optional, there),
           NEW two, two = Resolved(one, offers, order[2], optional, there),
           NEW plan, plan = Select(offers, kind, requested, route, optional, there)
    PROVE  PlanIs(plan, open, start, one, two, offers)
PROOF
<1> DEFINE routed == [selections |-> <<Selection(route, "required", "route_source_refresh",
                                               {Lifecycle(kind).id})>>,
                     needs      |-> {Lifecycle(kind)} \cup requested,
                     failure    |-> IF route \in Sources(offers) THEN Absent ELSE "unavailable"]
           free == [selections |-> <<>>,
                    needs      |-> IF requested = {} THEN {Lifecycle(kind)} ELSE requested,
                    failure    |-> IF offers = <<>> THEN "unavailable" ELSE Absent]
           begin == IF route # Absent THEN routed ELSE free
           needed == IF route # Absent THEN requested ELSE free.needs
           n == Cardinality(needed)
           Round(f) == [m \in 0 .. n |-> IF m = 0 THEN begin
                                         ELSE Resolved(f[m - 1], offers, ById(needed)[m], optional, there)]
           after == CHOOSE f : f = Round(f)
           g == [m \in 0 .. n |-> IF m = 0 THEN start ELSE IF m = 1 THEN one ELSE two]
<1>0. begin = start /\ needed = open
  BY DEF StartOf, OpenOf
<1>5. plan = Chosen(offers, after[n])
  BY DEF Select, Chosen, Absent
<1> HIDE DEF begin, needed
<1>1. n \in {0, 1, 2} /\ \A m \in 0 .. n : m = 0 \/ (m = 1 /\ m - 1 = 0) \/ (m = 2 /\ m - 1 = 1 /\ n = 2)
  BY <1>0
<1> HIDE DEF n
<1>2. /\ g[0] = start
      /\ n # 0 => g[1] = one
      /\ n = 2 => g[2] = two
  BY <1>1
<1>3. g = Round(g)
  <2>1. \A m \in 0 .. n : g[m] = IF m = 0 THEN start
                                 ELSE Resolved(g[m - 1], offers, order[m], optional, there)
    <3> SUFFICES ASSUME NEW m \in 0 .. n
                 PROVE  g[m] = IF m = 0 THEN start
                               ELSE Resolved(g[m - 1], offers, order[m], optional, there)
      OBVIOUS
    <3> HIDE DEF g
    <3>1. CASE m = 0
      BY <1>2, <3>1
    <3>2. CASE m = 1 /\ m - 1 = 0
      <4>1. n # 0
        BY <1>1, <3>2
      <4> QED  BY <1>2, <3>2, <4>1
    <3>3. CASE m = 2 /\ m - 1 = 1 /\ n = 2
      BY <1>2, <3>3
    <3> QED  BY <1>1, <3>1, <3>2, <3>3
  <2>2. g = [m \in 0 .. n |-> g[m]]
    OBVIOUS
  <2> HIDE DEF g
  <2> QED  BY <1>0, <2>1, <2>2
<1>4. after = Round(after)
  <2> HIDE DEF g, Round
  <2>1. \E f : f = Round(f)
    BY <1>3
  <2> QED  BY <2>1
<1> HIDE DEF after
<1>6. after[0] = start
  BY <1>0, <1>1, <1>4
<1>7. n # 0 => after[1] = one
  BY <1>0, <1>1, <1>4, <1>6
<1>8. n = 2 => after[2] = two
  <2> SUFFICES ASSUME n = 2 PROVE after[2] = two
    OBVIOUS
  <2>1. after[2] = Resolved(after[2 - 1], offers, order[2], optional, there)
    BY <1>0, <1>4
  <2>2. 2 - 1 = 1 /\ after[1] = one
    BY <1>7
  <2> QED  BY <2>1, <2>2
<1> QED  BY <1>0, <1>5, <1>6, <1>7, <1>8 DEF n, PlanIs
-----------------------------------------------------------------------------
(* What one need makes of the selections.                                  *)

\* A source that a deployment has; with a budget of one it is the structural one.
IsSource(src) == src \in {"dom", "visual"} /\ (Budget = 1 => src = "dom")

SelectionReasons == {"route_source_refresh", "structured_baseline", "grounding"}

Entries(I) ==
    [source : {src \in {"dom", "visual"} : IsSource(src)}, requirement : Requirements,
     reason : SelectionReasons, needs : SUBSET I]

\* Selections of needs with ids of I: each source once, some of them required.
Listed(xs, I) ==
    /\ xs \in Seq(Entries(I)) /\ Len(xs) \in 0 .. 2
    /\ \A i, j \in 1 .. Len(xs) : i # j => xs[i].source # xs[j].source

Offered(xs, offers) == \A i \in 1 .. Len(xs) : xs[i].source \in Sources(offers)

Demands(xs) == \E i \in 1 .. Len(xs) : xs[i].requirement = "required"

\* The selections made so far.
Selecting(s, I, offers) ==
    /\ \E xs, needs, failure : s = [selections |-> xs, needs |-> needs, failure |-> failure]
    /\ Listed(s.selections, I)
    /\ s.failure = Absent => Offered(s.selections, offers)

HasRequired(s) == Demands(s.selections)

\* Selections are a sequence of at most two entries.
LEMMA ListIs ==
    ASSUME NEW I, NEW xs, Listed(xs, I)
    PROVE  /\ xs \in Seq(Entries(I)) /\ Len(xs) \in {0, 1, 2} /\ DOMAIN xs = 1 .. Len(xs)
           /\ \A i \in 1 .. Len(xs) : xs[i] \in Entries(I)
PROOF
<1>1. xs \in Seq(Entries(I)) /\ Len(xs) \in 0 .. 2
  BY DEF Listed
<1> QED  BY ONLY <1>1

\* One more selection.
Longer(more, xs, x, I) ==
    /\ Listed(more, I) /\ Len(more) = Len(xs) + 1
    /\ \A i \in 1 .. Len(xs) : more[i] = xs[i]
    /\ more[Len(xs) + 1] = x
    /\ \A i \in 1 .. Len(more) : i \in 1 .. Len(xs) \/ i = Len(xs) + 1
    /\ Len(xs) + 1 \in 1 .. Len(more)

\* It is another source.
LEMMA ListAppends ==
    ASSUME NEW I, NEW xs, Listed(xs, I), NEW x \in Entries(I), x.source \notin Sources(xs),
           Len(xs) < 2
    PROVE  Longer(Append(xs, x), xs, x, I)
PROOF
<1>1. xs \in Seq(Entries(I)) /\ Len(xs) \in 0 .. 1 /\ DOMAIN xs = 1 .. Len(xs)
  BY DEF Listed
<1>m. PICK more : more = Append(xs, x)
  OBVIOUS
<1>2. /\ more \in Seq(Entries(I)) /\ Len(more) = Len(xs) + 1
      /\ \A i \in 1 .. Len(xs) : more[i] = xs[i]
      /\ more[Len(xs) + 1] = x
  BY <1>1, <1>m
<1>3. \A i \in 1 .. Len(xs) : xs[i].source # x.source
  BY <1>1 DEF Sources
<1>4. /\ \A i \in 1 .. Len(more) : i \in 1 .. Len(xs) \/ i = Len(xs) + 1
      /\ Len(xs) + 1 \in 1 .. Len(more)
  BY <1>1, <1>2
<1>5. \A i, j \in 1 .. Len(more) : i # j => more[i].source # more[j].source
  BY <1>1, <1>2, <1>3, <1>4
<1>6. Listed(more, I)
  BY <1>1, <1>2, <1>5 DEF Listed
<1> QED  BY ONLY <1>m, <1>2, <1>4, <1>6 DEF Longer

\* A selection replaced by one of the same source.
Replaced(more, xs, i, y, I) ==
    /\ Listed(more, I) /\ Len(more) = Len(xs)
    /\ \A j \in 1 .. Len(xs) : more[j] = IF j = i THEN y ELSE xs[j]
    /\ \A j \in 1 .. Len(xs) : more[j].source = xs[j].source

\* The sources stay the same.
LEMMA ListReplaces ==
    ASSUME NEW I, NEW xs, Listed(xs, I), NEW i \in 1 .. Len(xs), NEW y \in Entries(I),
           y.source = xs[i].source
    PROVE  Replaced([xs EXCEPT ![i] = y], xs, i, y, I)
PROOF
<1>1. xs \in Seq(Entries(I)) /\ Len(xs) \in 0 .. 2
  BY DEF Listed
<1>m. PICK more : more = [xs EXCEPT ![i] = y]
  OBVIOUS
<1>2. /\ more \in Seq(Entries(I)) /\ Len(more) = Len(xs)
      /\ \A j \in 1 .. Len(xs) : more[j] = IF j = i THEN y ELSE xs[j]
  BY <1>1, <1>m
<1>3. \A j \in 1 .. Len(xs) : more[j].source = xs[j].source
  BY <1>2
<1>4. Listed(more, I)
  BY <1>1, <1>2, <1>3 DEF Listed
<1> QED  BY ONLY <1>m, <1>2, <1>3, <1>4 DEF Replaced

\* The least of one or two positions.
LEMMA LeastOf ==
    ASSUME NEW I \in SUBSET {1, 2}, I # {}
    PROVE  Min(I) \in I /\ \A i \in I : Min(I) <= i
PROOF
<1>1. \E x \in I : \A y \in I : x <= y
  <2>1. CASE 1 \in I
    BY <2>1
  <2>2. CASE 1 \notin I
    <3>1. 2 \in I /\ \A y \in I : y = 2
      BY <2>2
    <3> QED  BY <3>1
  <2> QED  BY <2>1, <2>2
<1> QED  BY <1>1 DEF Min

\* What a deployment offers: its structural source, and perhaps its screenshots.
OffersOK(offers) ==
    /\ DOMAIN offers \in {{1}, {1, 2}} /\ offers # <<>> /\ offers[1] = Structural
    /\ 2 \in DOMAIN offers => offers[2].source = "visual" /\ offers[2].modality = "visual"

\* The structural source comes first.
DomFirst(offers) ==
    /\ Structural.source = "dom" /\ Structural.modality = "structural"
    /\ "dom" \in Sources(offers) /\ Sources(offers) \subseteq {"dom", "visual"}
    /\ \A i \in DOMAIN offers : offers[i].source = IF i = 1 THEN "dom" ELSE "visual"
    /\ OfferOf(offers, "dom") = Structural
    /\ 2 \in DOMAIN offers => OfferOf(offers, "visual") = offers[2]
    /\ BaselineOffers(offers) = {1}

\* It is the only one that can be a baseline.
LEMMA OffersGive ==
    ASSUME NEW offers, OffersOK(offers)
    PROVE  DomFirst(offers)
PROOF
<1>0. /\ Structural.source = "dom" /\ Structural.modality = "structural"
      /\ "grounding" \in Structural.purposes
  BY DEF Structural
<1>1. /\ DOMAIN offers \in {{1}, {1, 2}} /\ offers[1].source = "dom" /\ 1 \in DOMAIN offers
      /\ offers[1].modality = "structural" /\ "grounding" \in offers[1].purposes /\ offers[1] = Structural
      /\ 2 \in DOMAIN offers => offers[2].source = "visual" /\ offers[2].modality = "visual"
  BY <1>0 DEF OffersOK
<1>2. \A i \in DOMAIN offers : offers[i].source = IF i = 1 THEN "dom" ELSE "visual"
  BY <1>1
<1>3. "dom" \in Sources(offers) /\ Sources(offers) \subseteq {"dom", "visual"}
  BY <1>1, <1>2 DEF Sources
<1>4. OfferOf(offers, "dom") = Structural
  <2>1. (CHOOSE i \in DOMAIN offers : offers[i].source = "dom") = 1
    BY <1>1, <1>2
  <2> QED  BY <1>1, <2>1 DEF OfferOf
<1>5. 2 \in DOMAIN offers => OfferOf(offers, "visual") = offers[2]
  <2> SUFFICES ASSUME 2 \in DOMAIN offers PROVE OfferOf(offers, "visual") = offers[2]
    OBVIOUS
  <2>1. \A i \in DOMAIN offers : offers[i].source = "visual" <=> i = 2
    BY <1>1
  <2>2. (CHOOSE i \in DOMAIN offers : offers[i].source = "visual") = 2
    BY <2>1
  <2> QED  BY <2>2 DEF OfferOf
<1>6. BaselineOffers(offers) = {1}
  <2>1. \A i \in DOMAIN offers : i = 1 \/ (i = 2 /\ offers[2].modality = "visual")
    BY <1>1
  <2> QED  BY <1>1, <2>1 DEF BaselineOffers
<1> QED  BY <1>0, <1>2, <1>3, <1>4, <1>5, <1>6 DEF DomFirst

\* Every deployment offers that.
LEMMA OffersAre == OffersOK(Offers) /\ (2 \in DOMAIN Offers => Offers[2] = Visual)
PROOF
<1>1. Visual.source = "visual" /\ Visual.modality = "visual"
  BY DEF Visual
<1>2. PICK structural, visual : structural = Structural /\ visual = Visual
  OBVIOUS
<1>3. Offers = IF deployment = "dom" THEN <<structural>> ELSE <<structural, visual>>
  BY <1>2 DEF Offers
<1>4. /\ DOMAIN Offers \in {{1}, {1, 2}} /\ Offers # <<>> /\ Offers[1] = structural
      /\ 2 \in DOMAIN Offers => Offers[2] = visual
  BY ONLY <1>3
<1> QED  BY <1>1, <1>2, <1>4 DEF OffersOK

\* A further selection, for which there is room.
Grown(r, s, x, I, offers) ==
    /\ Selecting(r, I, offers) /\ r.needs = s.needs
    /\ HasRequired(s) => HasRequired(r)
    /\ Len(r.selections) \in {0, 1, 2} /\ Len(s.selections) <= Len(r.selections)
    /\ x.source \in Sources(s.selections) => r = s
    /\ x.source \notin Sources(s.selections) /\ ~(Len(s.selections) < Budget) =>
          r.failure = "source_budget_exhausted" /\ r.selections = s.selections
    /\ x.source \notin Sources(s.selections) /\ Len(s.selections) < Budget =>
          /\ r.selections = Append(s.selections, x) /\ r.failure = s.failure
          /\ x.requirement = "required" => HasRequired(r)
          /\ 1 <= Len(r.selections)

\* It has to be offered.
LEMMA AddKeeps ==
    ASSUME NEW offers, NEW I, NEW s, Selecting(s, I, offers), NEW x,
           Len(s.selections) < Budget => x \in Entries(I) /\ x.source \in Sources(offers)
    PROVE  Grown(Add(s, x), s, x, I, offers)
PROOF
<1>r. PICK r : r = Add(s, x)
  OBVIOUS
<1>1. PICK xs, nd, fl : s = [selections |-> xs, needs |-> nd, failure |-> fl]
  BY DEF Selecting
<1>2. s.selections = xs /\ s.needs = nd /\ s.failure = fl
  BY <1>1
<1>3. Listed(xs, I) /\ (fl = Absent => Offered(xs, offers))
  BY <1>2 DEF Selecting
<1>n. PICK n \in {0, 1, 2} : n = Len(xs)
  BY ONLY <1>3, ListIs
<1>m. Budget \in {1, 2}
  BY BudgetAssumption
<1>x. n < Budget => x \in Entries(I) /\ x.source \in Sources(offers)
  BY <1>2, <1>n
<1>4. r = IF x.source \in Sources(xs) THEN s
          ELSE IF n >= Budget
               THEN [selections |-> xs, needs |-> nd, failure |-> "source_budget_exhausted"]
               ELSE [selections |-> Append(xs, x), needs |-> nd, failure |-> fl]
  <2>3. PICK more : more = Append(xs, x)
    OBVIOUS
  <2>4. [s EXCEPT !.failure = "source_budget_exhausted"] =
        [selections |-> xs, needs |-> nd, failure |-> "source_budget_exhausted"]
    BY ONLY <1>1
  <2>5. [s EXCEPT !.selections = more] =
        [selections |-> more, needs |-> nd, failure |-> fl]
    BY ONLY <1>1
  <2>1. /\ [s EXCEPT !.failure = "source_budget_exhausted"] =
           [selections |-> xs, needs |-> nd, failure |-> "source_budget_exhausted"]
        /\ [s EXCEPT !.selections = Append(xs, x)] =
           [selections |-> Append(xs, x), needs |-> nd, failure |-> fl]
    BY ONLY <2>3, <2>4, <2>5
  <2>2. r = IF x.source \in Sources(xs) THEN s
            ELSE IF n >= Budget THEN [s EXCEPT !.failure = "source_budget_exhausted"]
            ELSE [s EXCEPT !.selections = Append(xs, x)]
    BY <1>2, <1>n, <1>r, Zenon DEF Add
  <2> QED  BY ONLY <2>1, <2>2
<1>5. CASE x.source \in Sources(xs)
  <2>1. r = s /\ x.source \in Sources(s.selections)
    BY <1>2, <1>4, <1>5
  <2>2. Len(s.selections) \in {0, 1, 2} /\ Len(s.selections) <= Len(s.selections)
    BY ONLY <1>2, <1>n
  <2> QED  BY <1>r, <2>1, <2>2 DEF Grown
<1>6. CASE x.source \notin Sources(xs) /\ n >= Budget
  <2>1. r = [selections |-> xs, needs |-> nd, failure |-> "source_budget_exhausted"]
    BY <1>4, <1>6
  <2>2. r.selections = xs /\ r.needs = nd /\ r.failure = "source_budget_exhausted" /\ ~(n < Budget)
    BY ONLY <1>n, <1>m, <1>6, <2>1
  <2>3. Selecting(r, I, offers)
    BY ONLY <1>3, <2>1, <2>2, Failures DEF Selecting
  <2>4. Len(xs) \in {0, 1, 2} /\ Len(xs) <= Len(xs) /\ ~(Len(xs) < Budget)
    BY ONLY <1>n, <2>2
  <2> QED  BY ONLY <1>r, <1>2, <2>2, <2>3, <2>4, <1>6 DEF Grown, HasRequired
<1>7. CASE x.source \notin Sources(xs) /\ ~(n >= Budget)
  <2>1. PICK more : more = Append(xs, x)
    OBVIOUS
  <2>2. r = [selections |-> more, needs |-> nd, failure |-> fl]
    BY <1>4, <1>7, <2>1
  <2>3. n < 2 /\ n < Budget /\ Len(xs) < 2
    BY ONLY <1>n, <1>m, <1>7
  <2>4. r.selections = more /\ r.needs = nd /\ r.failure = fl
    BY <2>2
  <2>5. /\ Listed(more, I) /\ Len(more) = Len(xs) + 1
        /\ Offered(xs, offers) => Offered(more, offers)
        /\ Demands(xs) => Demands(more)
        /\ x.requirement = "required" => Demands(more)
    <3>1. Len(xs) < 2 /\ x.source \notin Sources(xs) /\ x \in Entries(I) /\ Listed(xs, I)
          /\ x.source \in Sources(offers)
      BY ONLY <1>3, <1>7, <1>x, <2>3
    <3>2. Longer(more, xs, x, I)
      BY ONLY <2>1, <3>1, ListAppends
    <3>3. Offered(xs, offers) => Offered(more, offers)
      BY ONLY <3>1, <3>2 DEF Longer, Offered
    <3>4. (Demands(xs) => Demands(more)) /\ (x.requirement = "required" => Demands(more))
      BY ONLY <3>2 DEF Longer, Demands
    <3> QED  BY ONLY <3>2, <3>3, <3>4 DEF Longer
  <2>6. Selecting(r, I, offers)
    BY ONLY <1>3, <1>x, <2>2, <2>3, <2>4, <2>5 DEF Selecting
  <2>7. Len(more) \in {0, 1, 2} /\ Len(xs) <= Len(more) /\ 1 <= Len(more)
        /\ Len(xs) < Budget
    BY ONLY <1>n, <2>3, <2>5
  <2> QED  BY ONLY <1>r, <1>2, <1>7, <2>1, <2>4, <2>5, <2>6, <2>7 DEF Grown, HasRequired
<1> QED  BY ONLY <1>5, <1>6, <1>7

\* A selection that takes one more need.
Covering(r, s, i, need, requirement, I, offers) ==
    /\ Selecting(r, I, offers) /\ r.needs = s.needs /\ r.failure = s.failure
    /\ HasRequired(s) => HasRequired(r)
    /\ requirement = "required" => HasRequired(r)
    /\ Len(r.selections) = Len(s.selections)
    /\ \A j \in 1 .. Len(s.selections) :
          r.selections[j] = IF j = i
                            THEN [s.selections[i] EXCEPT !.needs = @ \cup {need.id},
                                                         !.requirement = IF requirement = "required" THEN "required" ELSE @]
                            ELSE s.selections[j]

\* Its requirement may rise.
LEMMA ExtendedKeeps ==
    ASSUME NEW offers, NEW I, NEW s, Selecting(s, I, offers), NEW i \in 1 .. Len(s.selections), NEW need, need.id \in I,
           NEW requirement \in Requirements
    PROVE  Covering(Extended(s, i, need, requirement), s, i, need, requirement, I, offers)
PROOF
<1>r. PICK r : r = Extended(s, i, need, requirement)
  OBVIOUS
<1>0. PICK xs, nd, fl : s = [selections |-> xs, needs |-> nd, failure |-> fl]
  BY DEF Selecting
<1>1. s.selections = xs /\ s.needs = nd /\ s.failure = fl
  BY <1>0
<1>a. /\ Listed(xs, I) /\ (fl = Absent => Offered(xs, offers)) /\ i \in 1 .. Len(xs)
      /\ xs \in Seq(Entries(I)) /\ i \in DOMAIN xs
  <2>1. Listed(xs, I) /\ (fl = Absent => Offered(xs, offers)) /\ i \in 1 .. Len(xs)
    BY <1>1 DEF Selecting
  <2> QED  BY ONLY <2>1, ListIs
<1>2. PICK x : x = xs[i]
  OBVIOUS
<1>3. x \in Entries(I)
  BY ONLY <1>a, <1>2, ListIs
<1>4. PICK y : y = [x EXCEPT !.needs = @ \cup {need.id},
                             !.requirement = IF requirement = "required" THEN "required" ELSE @]
  OBVIOUS
<1>5. y \in Entries(I) /\ (requirement = "required" => y.requirement = "required")
      /\ (x.requirement = "required" => y.requirement = "required") /\ y.source = x.source
  BY <1>3, <1>4 DEF Entries
<1>6. PICK more : more = [xs EXCEPT ![i] = y]
  OBVIOUS
<1>7. /\ Listed(more, I) /\ Len(more) = Len(xs)
      /\ \A j \in 1 .. Len(xs) : more[j] = IF j = i THEN y ELSE xs[j]
      /\ Offered(xs, offers) => Offered(more, offers)
      /\ Demands(xs) => Demands(more)
      /\ y.requirement = "required" => Demands(more)
  <2>1. /\ Listed(xs, I) /\ i \in 1 .. Len(xs) /\ y \in Entries(I) /\ y.source = xs[i].source
        /\ xs[i].requirement = "required" => y.requirement = "required"
    BY ONLY <1>a, <1>2, <1>5
  <2>2. Replaced(more, xs, i, y, I)
    BY ONLY <1>6, <2>1, ListReplaces
  <2>3. Offered(xs, offers) => Offered(more, offers)
    BY ONLY <2>2 DEF Replaced, Offered
  <2>4. (Demands(xs) => Demands(more)) /\ (y.requirement = "required" => Demands(more))
    BY ONLY <2>1, <2>2 DEF Replaced, Demands
  <2> QED  BY ONLY <2>2, <2>3, <2>4 DEF Replaced
<1>8. r = [selections |-> more, needs |-> nd, failure |-> fl]
  <2>1. PICK x1 : x1 = [x EXCEPT !.needs = @ \cup {need.id}]
    OBVIOUS
  <2>2. PICK more1 : more1 = [xs EXCEPT ![i] = x1]
    OBVIOUS
  <2>3. PICK s1 : s1 = [s EXCEPT !.selections = more1]
    OBVIOUS
  <2>4. s1 = [selections |-> more1, needs |-> nd, failure |-> fl] /\ s1.selections = more1
    BY ONLY <1>0, <2>3
  <2>5. more1[i] = x1 /\ x1.requirement = x.requirement
    BY ONLY <1>a, <1>3, <2>1, <2>2 DEF Entries
  <2>6. [x1 EXCEPT !.requirement = IF requirement = "required" THEN "required" ELSE @] = y
    BY <1>3, <1>4, <2>1 DEF Entries
  <2>7. [more1 EXCEPT ![i] = y] = more
    BY ONLY <1>a, <1>6, <2>2
  <2>8. r = [s1 EXCEPT !.selections[i].requirement = IF requirement = "required" THEN "required" ELSE @]
    BY <1>r, <1>1, <1>2, <2>1, <2>2, <2>3, Zenon DEF Extended
  <2>9. r = [s1 EXCEPT !.selections = [more1 EXCEPT ![i] =
                          [x1 EXCEPT !.requirement = IF requirement = "required" THEN "required" ELSE @]]]
    BY ONLY <2>4, <2>5, <2>8
  <2>10. r = [s1 EXCEPT !.selections = more]
    BY ONLY <2>6, <2>7, <2>9
  <2> QED  BY ONLY <2>4, <2>10
<1>9. r.selections = more /\ r.needs = nd /\ r.failure = fl
  BY <1>8
<1>10. Selecting(r, I, offers)
  BY ONLY <1>a, <1>7, <1>8, <1>9 DEF Selecting
<1>11. (HasRequired(s) => HasRequired(r)) /\ (requirement = "required" => HasRequired(r))
  BY ONLY <1>1, <1>5, <1>7, <1>9 DEF HasRequired
<1> QED  BY ONLY <1>r, <1>1, <1>2, <1>4, <1>7, <1>9, <1>10, <1>11 DEF Covering

\* A need that nothing can answer leaves the selections as they are.
LEMMA FailedKeeps ==
    ASSUME NEW offers, NEW I, NEW s, Selecting(s, I, offers),
           NEW t, t = [s EXCEPT !.failure = "unavailable"]
    PROVE  Selecting(t, I, offers) /\ t.selections = s.selections /\ t.failure = "unavailable"
PROOF
<1>0. PICK failure : failure = "unavailable"
  OBVIOUS
<1>1. PICK xs, nd, fl : s = [selections |-> xs, needs |-> nd, failure |-> fl]
  BY DEF Selecting
<1>2. PICK r : r = [s EXCEPT !.failure = failure] /\ r = t
  BY <1>0
<1>3. r = [selections |-> xs, needs |-> nd, failure |-> failure] /\ s.selections = xs
  BY ONLY <1>1, <1>2
<1>4. r.selections = xs /\ r.failure = failure /\ Listed(xs, I)
  BY <1>3 DEF Selecting
<1>5. Selecting(r, I, offers)
  BY ONLY <1>0, <1>3, <1>4, Failures DEF Selecting
<1> QED  BY ONLY <1>0, <1>2, <1>3, <1>4, <1>5

\* A further need of the plan leaves the selections as they are.
LEMMA NeedsKeep ==
    ASSUME NEW offers, NEW I, NEW s, Selecting(s, I, offers), NEW needs
    PROVE  /\ Selecting([s EXCEPT !.needs = needs], I, offers)
           /\ [s EXCEPT !.needs = needs].selections = s.selections
           /\ [s EXCEPT !.needs = needs].failure = s.failure
PROOF
<1>1. PICK xs, nd, fl : s = [selections |-> xs, needs |-> nd, failure |-> fl]
  BY DEF Selecting
<1>2. PICK r : r = [s EXCEPT !.needs = needs]
  OBVIOUS
<1>3. r = [selections |-> xs, needs |-> needs, failure |-> fl] /\ s.selections = xs /\ s.failure = fl
  BY ONLY <1>1, <1>2
<1>4. r.selections = xs /\ r.failure = fl /\ Listed(xs, I) /\ (fl = Absent => Offered(xs, offers))
  BY <1>3 DEF Selecting
<1>5. Selecting(r, I, offers)
  BY ONLY <1>3, <1>4 DEF Selecting
<1> QED  BY ONLY <1>2, <1>3, <1>4, <1>5

\* The baseline of a visual need is a selection, too; without it there is none
\* yet to stand on.
LEMMA BaselineKeeps ==
    ASSUME NEW offers, OffersOK(offers), NEW I, NEW s, Selecting(s, I, offers),
           NEW need, Baseline(need).id \in I, NEW r, r = WithBaseline(s, offers, need)
    PROVE  /\ Selecting(r, I, offers)
           /\ HasRequired(s) => HasRequired(r)
           /\ Len(s.selections) <= Len(r.selections)
           /\ 1 <= Len(r.selections)
PROOF
<1>1. PICK t : t = [s EXCEPT !.needs = @ \cup {Baseline(need)}]
  OBVIOUS
<1>2. Selecting(t, I, offers) /\ t.selections = s.selections /\ t.failure = s.failure
  BY <1>1, NeedsKeep
<1>3. offers[Min(BaselineOffers(offers))].source = "dom" /\ "dom" \in Sources(offers)
  <2>1. Min({1}) = 1
    BY LeastOf
  <2>2. 1 \in DOMAIN offers
    BY DEF OffersOK
  <2>3. DomFirst(offers)
    BY OffersGive
  <2> QED  BY <2>1, <2>2, <2>3 DEF DomFirst
<1>4. PICK x : x = Selection("dom", "required", "structured_baseline", {Baseline(need).id})
  OBVIOUS
<1>5. x \in Entries(I) /\ x.source = "dom"
  BY <1>4 DEF Selection, Entries, IsSource, Requirements, SelectionReasons
<1>6. Grown(r, t, x, I, offers)
  <2>1. r = Add(t, x)
    BY <1>1, <1>3, <1>4 DEF WithBaseline
  <2> QED  BY <1>2, <1>3, <1>5, <2>1, AddKeeps
<1>7. PICK xs : xs = s.selections
  OBVIOUS
<1>8. Len(xs) \in {0, 1, 2} /\ DOMAIN xs = 1 .. Len(xs)
  BY <1>7, ListIs DEF Selecting
<1>9. 1 <= Len(r.selections)
  <2>0. Budget \in {1, 2}
    BY BudgetAssumption
  <2>1. CASE x.source \in Sources(xs)
    <3>1. r = t /\ DOMAIN xs # {}
      BY <1>2, <1>6, <1>7, <2>1 DEF Grown, Sources
    <3>2. Len(xs) # 0
      BY <1>8, <3>1
    <3> QED  BY <1>2, <1>7, <1>8, <3>1, <3>2
  <2>2. CASE x.source \notin Sources(xs) /\ Len(xs) < Budget
    BY <1>2, <1>6, <1>7, <2>2 DEF Grown
  <2>3. CASE x.source \notin Sources(xs) /\ ~(Len(xs) < Budget)
    <3>1. r.selections = xs
      BY <1>2, <1>6, <1>7, <2>3 DEF Grown
    <3> QED  BY <1>8, <2>0, <2>3, <3>1
  <2> QED  BY <2>1, <2>2, <2>3
<1> QED  BY <1>2, <1>6, <1>9 DEF Grown, HasRequired

\* A required selection stays required, and a need that is not optional is
\* answered by a required one.
Answered(r, s, need, optional, I, offers) ==
    /\ Selecting(r, I, offers)
    /\ HasRequired(s) => HasRequired(r)
    /\ s.failure = Absent /\ r.failure = Absent /\ need.id \notin optional => HasRequired(r)

\* What one need makes of the selections.
LEMMA ResolvedKeeps ==
    ASSUME NEW offers, OffersOK(offers), NEW I, NEW s, Selecting(s, I, offers),
           NEW need, need.id \in I, Baseline(need).id \in I, NEW optional, NEW there,
           Budget = 1 => there = FALSE,
           NEW r, r = Resolved(s, offers, need, optional, there)
    PROVE  Answered(r, s, need, optional, I, offers)
PROOF
<1> SUFFICES /\ Selecting(r, I, offers)
             /\ HasRequired(s) => HasRequired(r)
             /\ s.failure = Absent /\ r.failure = Absent /\ need.id \notin optional => HasRequired(r)
  BY DEF Answered
<1> DEFINE requirement == IF need.id \in optional THEN "optional" ELSE "required"
           answering == {i \in DOMAIN s.selections :
                            Satisfies(OfferOf(offers, s.selections[i].source), need)}
           able == {i \in DOMAIN offers : Satisfies(offers[i], need)}
           grounded == IF NeedsBaseline(s, offers, able, there) THEN WithBaseline(s, offers, need) ELSE s
           left == {i \in able : offers[i].source \notin Sources(grounded.selections)}
<1>0. r = IF s.failure # Absent THEN s
          ELSE IF answering # {} THEN Extended(s, Min(answering), need, requirement)
          ELSE IF grounded.failure # Absent THEN grounded
          ELSE IF able = {} THEN [grounded EXCEPT !.failure = "unavailable"]
          ELSE IF left # {}
               THEN Add(grounded, Selection(offers[Min(left)].source, requirement, "grounding", {need.id}))
               ELSE Extended(grounded, CHOOSE i \in DOMAIN grounded.selections :
                                grounded.selections[i].source = offers[Min(able)].source, need, requirement)
  BY DEF Resolved, Absent
<1>1. PICK req : req = requirement
  OBVIOUS
<1>2. PICK holders : holders = answering
  OBVIOUS
<1>3. PICK adequate : adequate = able
  OBVIOUS
<1>4. PICK g : g = grounded
  OBVIOUS
<1>5. PICK unused : unused = left
  OBVIOUS
<1>a. /\ req = IF need.id \in optional THEN "optional" ELSE "required"
      /\ holders = {i \in DOMAIN s.selections :
                       Satisfies(OfferOf(offers, s.selections[i].source), need)}
      /\ adequate = {i \in DOMAIN offers : Satisfies(offers[i], need)}
      /\ g = IF NeedsBaseline(s, offers, adequate, there) THEN WithBaseline(s, offers, need) ELSE s
      /\ unused = {i \in adequate : offers[i].source \notin Sources(g.selections)}
  BY <1>1, <1>2, <1>3, <1>4, <1>5, Zenon
<1> HIDE DEF requirement, answering, able, grounded, left
<1>6. r = IF s.failure # Absent THEN s
          ELSE IF holders # {} THEN Extended(s, Min(holders), need, req)
          ELSE IF g.failure # Absent THEN g
          ELSE IF adequate = {} THEN [g EXCEPT !.failure = "unavailable"]
          ELSE IF unused # {}
               THEN Add(g, Selection(offers[Min(unused)].source, req, "grounding", {need.id}))
               ELSE Extended(g, CHOOSE i \in DOMAIN g.selections :
                                   g.selections[i].source = offers[Min(adequate)].source, need, req)
  BY <1>0, <1>1, <1>2, <1>3, <1>4, <1>5, Zenon
<1>7. /\ DOMAIN s.selections = 1 .. Len(s.selections) /\ Len(s.selections) \in {0, 1, 2}
      /\ req \in Requirements /\ (need.id \notin optional => req = "required")
  BY <1>a, ListIs DEF Selecting, Requirements
<1>8. /\ Selecting(g, I, offers) /\ (HasRequired(s) => HasRequired(g))
      /\ Len(s.selections) <= Len(g.selections)
      /\ NeedsBaseline(s, offers, adequate, there) => 1 <= Len(g.selections)
  <2>1. CASE NeedsBaseline(s, offers, adequate, there)
    BY <1>a, <2>1, BaselineKeeps
  <2>2. CASE ~NeedsBaseline(s, offers, adequate, there)
    BY <1>a, <1>7, <2>2
  <2> QED  BY <2>1, <2>2
<1>9. DOMAIN g.selections = 1 .. Len(g.selections) /\ Len(g.selections) \in {0, 1, 2}
  BY <1>8, ListIs DEF Selecting
<1>o. DomFirst(offers) /\ DOMAIN offers \subseteq {1, 2}
  BY OffersGive DEF OffersOK
<1>10. CASE s.failure # Absent
  BY <1>6, <1>10
<1>11. CASE s.failure = Absent /\ holders # {}
  <2>1. holders \in SUBSET {1, 2}
    BY <1>a, <1>7
  <2>2. Min(holders) \in 1 .. Len(s.selections)
    BY <1>a, <1>7, <1>11, <2>1, LeastOf
  <2>3. r = Extended(s, Min(holders), need, req)
    BY <1>6, <1>11
  <2>4. Covering(r, s, Min(holders), need, req, I, offers)
    BY ONLY <1>7, <2>2, <2>3, Selecting(s, I, offers), need.id \in I, ExtendedKeeps
  <2> QED  BY <1>7, <2>4 DEF Covering
<1>12. CASE s.failure = Absent /\ holders = {} /\ g.failure # Absent
  BY <1>6, <1>8, <1>12
<1>13. CASE s.failure = Absent /\ holders = {} /\ g.failure = Absent /\ adequate = {}
  <2>1. r = [g EXCEPT !.failure = "unavailable"]
    BY <1>6, <1>13
  <2>2. Selecting(r, I, offers) /\ r.selections = g.selections /\ r.failure = "unavailable"
    BY <1>8, <2>1, FailedKeeps
  <2> QED  BY <1>8, <2>2, Failures DEF HasRequired
<1>14. CASE s.failure = Absent /\ holders = {} /\ g.failure = Absent /\ adequate # {} /\ unused # {}
  <2>1. PICK x : x = Selection(offers[Min(unused)].source, req, "grounding", {need.id})
    OBVIOUS
  <2>2. Min(unused) \in unused
    BY <1>a, <1>14, <1>o, LeastOf
  <2>3. /\ x.source = offers[Min(unused)].source /\ Min(unused) \in DOMAIN offers
        /\ x.source \notin Sources(g.selections) /\ x.requirement = req
    BY <1>a, <2>1, <2>2 DEF Selection
  <2>4. x.source \in Sources(offers) /\ x.source \in {"dom", "visual"}
    BY <1>o, <2>3 DEF Sources, DomFirst
  <2>5. Len(g.selections) < Budget => IsSource(x.source)
    <3> SUFFICES ASSUME Budget = 1, Len(g.selections) < 1 PROVE x.source = "dom"
      BY <2>4 DEF IsSource
    <3>1. Len(g.selections) = 0 /\ Len(s.selections) = 0 /\ ~NeedsBaseline(s, offers, adequate, there)
      BY <1>7, <1>8, <1>9
    <3>2. Sources(s.selections) = {} /\ Sources(g.selections) = {}
      BY <1>7, <1>9, <3>1 DEF Sources
    <3>3. ~(\A i \in adequate : offers[i].modality = "visual")
      BY <1>14, <1>o, <3>1, <3>2 DEF NeedsBaseline, DomFirst
    <3>4. 1 \in adequate
      BY <1>a, <1>o, <3>3 DEF OffersOK
    <3>5. 1 \in unused /\ unused \in SUBSET {1, 2}
      BY <1>a, <1>o, <3>2, <3>4
    <3>6. Min(unused) <= 1 /\ Min(unused) \in {1, 2}
      BY <2>2, <3>5, LeastOf
    <3>7. Min(unused) = 1
      BY <3>6
    <3> QED  BY <1>o, <2>3, <3>7 DEF DomFirst
  <2>6. Len(g.selections) < Budget => x \in Entries(I)
    BY <1>7, <2>1, <2>4, <2>5 DEF Selection, Entries, SelectionReasons
  <2>7. r = Add(g, x)
    BY <1>6, <1>14, <2>1
  <2>8. Grown(r, g, x, I, offers)
    BY <1>8, <2>4, <2>6, <2>7, AddKeeps
  <2>9. r.failure = Absent => (req = "required" => HasRequired(r))
    BY <2>3, <2>8, Failures DEF Grown
  <2> QED  BY <1>7, <1>8, <2>8, <2>9 DEF Grown
<1>15. CASE s.failure = Absent /\ holders = {} /\ g.failure = Absent /\ adequate # {} /\ unused = {}
  <2>1. Min(adequate) \in adequate
    BY <1>a, <1>15, <1>o, LeastOf
  <2>2. offers[Min(adequate)].source \in Sources(g.selections)
    BY <1>a, <1>15, <2>1
  <2>3. PICK i \in 1 .. Len(g.selections) :
           i = CHOOSE j \in DOMAIN g.selections : g.selections[j].source = offers[Min(adequate)].source
    BY <1>9, <2>2 DEF Sources
  <2>4. r = Extended(g, i, need, req)
    BY <1>6, <1>15, <2>3
  <2>5. Covering(r, g, i, need, req, I, offers)
    BY ONLY <1>7, <1>8, <2>3, <2>4, need.id \in I, ExtendedKeeps
  <2> QED  BY <1>7, <1>8, <2>5 DEF Covering
<1> QED  BY <1>10, <1>11, <1>12, <1>13, <1>14, <1>15

\* Selections in the order of the offers are the same selections, and those of
\* the structural source come first.
LEMMA OfferOrderKeeps ==
    ASSUME NEW offers, OffersOK(offers), NEW I, NEW xs, Listed(xs, I), Offered(xs, offers),
           Len(xs) \in {1, 2}, NEW ys, ys = InOfferOrder(offers, xs)
    PROVE  /\ Listed(ys, I) /\ (Demands(xs) => Demands(ys))
           /\ Len(xs) = 1 \/ xs[1].source = "dom" => ys = xs
PROOF
<1> DEFINE RankOf(src) == CHOOSE n \in DOMAIN offers : offers[n].source = src
           ranks == [i \in DOMAIN xs |-> RankOf(xs[i].source)]
<1>1. PICK rank : rank = ranks
  OBVIOUS
<1>2. PICK order : order = InOrder(DOMAIN xs, rank)
  OBVIOUS
<1>3. ys = [n \in DOMAIN xs |-> xs[order[n]]]
  <2>1. order = InOrder(DOMAIN xs, ranks)
    BY <1>1, <1>2
  <2> QED  BY ONLY <2>1, ys = InOfferOrder(offers, xs) DEF InOfferOrder
<1>4. /\ xs \in Seq(Entries(I)) /\ DOMAIN xs = 1 .. Len(xs)
      /\ \A i, j \in 1 .. Len(xs) : i # j => xs[i].source # xs[j].source
      /\ DomFirst(offers)
  <2>1. xs \in Seq(Entries(I)) /\ \A i, j \in 1 .. Len(xs) : i # j => xs[i].source # xs[j].source
    BY DEF Listed
  <2>2. DomFirst(offers) /\ DOMAIN xs = 1 .. Len(xs)
    BY OffersGive, ListIs
  <2> QED  BY ONLY <2>1, <2>2
<1>5. \A i \in 1 .. Len(xs) : rank[i] = IF xs[i].source = "dom" THEN 1 ELSE 2
  <2> SUFFICES ASSUME NEW i \in 1 .. Len(xs)
               PROVE  rank[i] = IF xs[i].source = "dom" THEN 1 ELSE 2
    OBVIOUS
  <2>1. rank[i] = RankOf(xs[i].source)
    BY <1>1, <1>4
  <2>2. /\ DOMAIN offers \in {{1}, {1, 2}} /\ offers[1].source = "dom"
        /\ 2 \in DOMAIN offers => offers[2].source = "visual"
    BY <1>4 DEF OffersOK, DomFirst
  <2>3. RankOf("dom") = 1
    BY <2>2
  <2>4. xs[i].source \in Sources(offers) /\ Sources(offers) \subseteq {"dom", "visual"}
    BY <1>4 DEF Offered, DomFirst
  <2>5. CASE xs[i].source = "dom"
    BY <2>1, <2>3, <2>5
  <2>6. CASE xs[i].source = "visual"
    <3>1. PICK n \in DOMAIN offers : offers[n].source = "visual"
      BY <2>4, <2>6 DEF Sources
    <3>2. 2 \in DOMAIN offers
      BY <2>2, <3>1
    <3>3. \A m \in DOMAIN offers : offers[m].source = "visual" <=> m = 2
      BY <2>2, <3>2
    <3>4. RankOf("visual") = 2
      BY <3>2, <3>3
    <3> QED  BY <2>1, <2>6, <3>4
  <2> QED  BY <2>4, <2>5, <2>6
<1> HIDE DEF RankOf, ranks
<1>6. CASE Len(xs) = 1
  <2>1. DOMAIN xs = {1}
    BY <1>4, <1>6
  <2>2. order[1] = 1
    BY <1>2, <2>1, OneInOrder
  <2>3. ys = xs
    BY <1>3, <1>4, <2>1, <2>2
  <2> QED  BY <2>3
<1>7. CASE Len(xs) = 2 /\ rank[1] < rank[2]
  <2>1. DOMAIN xs = {1, 2} /\ rank[1] \in Int /\ rank[2] \in Int
    BY <1>4, <1>5, <1>7
  <2>2. order[1] = 1 /\ order[2] = 2
    BY <1>2, <1>7, <2>1, TwoInOrder
  <2>3. ys = xs
    BY <1>3, <1>4, <2>1, <2>2
  <2> QED  BY <2>3
<1>8. CASE Len(xs) = 2 /\ ~(rank[1] < rank[2])
  <2>1. /\ 1 \in 1 .. Len(xs) /\ 2 \in 1 .. Len(xs) /\ xs[1].source # xs[2].source
        /\ xs[1].source \in {"dom", "visual"} /\ xs[2].source \in {"dom", "visual"}
    BY <1>4, <1>8 DEF Offered, DomFirst
  <2>2. rank[1] = 2 /\ rank[2] = 1 /\ xs[1].source = "visual"
    BY <1>5, <1>8, <2>1
  <2>3. DOMAIN xs = {2, 1} /\ rank[1] \in Int /\ rank[2] \in Int /\ rank[2] < rank[1]
    BY <1>4, <1>8, <2>2
  <2>4. order[1] = 2 /\ order[2] = 1
    BY <1>2, <2>3, TwoInOrder
  <2>5. ys = <<xs[2], xs[1]>>
    BY <1>3, <1>4, <1>8, <2>3, <2>4
  <2>6. xs[1] \in Entries(I) /\ xs[2] \in Entries(I)
    BY <1>4, <2>1
  <2>7. ys \in Seq(Entries(I)) /\ Len(ys) = 2 /\ ys[1] = xs[2] /\ ys[2] = xs[1]
    BY ONLY <2>5, <2>6
  <2>8. Listed(ys, I)
    BY <2>1, <2>7 DEF Listed
  <2>9. Demands(xs) => Demands(ys)
    BY <1>8, <2>7 DEF Demands
  <2> QED  BY <1>8, <2>2, <2>8, <2>9
<1> QED  BY <1>6, <1>7, <1>8

\* A plan: selections of sources, some of them required.
PlanOK(plan) ==
    /\ Demands(plan.selections) /\ \E I : plan.selections \in Seq(Entries(I))
    /\ \E xs, needs, failure : plan = [selections |-> xs, needs |-> needs, failure |-> failure]

\* What is selected so far, brought into order, is a plan if it asks for something.
LEMMA ChosenIsPlan ==
    ASSUME NEW offers, OffersOK(offers), NEW I, NEW s, Selecting(s, I, offers),
           NEW plan, plan = Chosen(offers, s), plan.failure = Absent, HasRequired(s) \/ s.failure # Absent
    PROVE  /\ PlanOK(plan) /\ s.failure = Absent
           /\ plan.needs = s.needs
           /\ Len(s.selections) = 1 \/ s.selections[1].source = "dom" => plan.selections = s.selections
PROOF
<1>1. PICK xs, nd, fl : s = [selections |-> xs, needs |-> nd, failure |-> fl]
  BY DEF Selecting
<1>2. s.selections = xs /\ s.failure = fl /\ s.needs = nd
  BY <1>1
<1>3. fl = Absent
  <2>1. CASE fl # Absent
    <3>1. plan = [selections |-> <<>>, needs |-> {}, failure |-> fl]
      BY <1>2, <2>1 DEF Chosen
    <3>2. plan.failure = fl
      BY ONLY <3>1
    <3> QED  BY <2>1, <3>2
  <2> QED  BY <2>1
<1>4. PICK ys : ys = InOfferOrder(offers, xs)
  OBVIOUS
<1>5. plan = [selections |-> ys, needs |-> nd, failure |-> fl]
  <2>1. plan = [s EXCEPT !.selections = InOfferOrder(offers, xs)]
    BY <1>2, <1>3, Zenon DEF Chosen
  <2> QED  BY ONLY <1>1, <1>4, <2>1
<1>6. Listed(xs, I) /\ Offered(xs, offers) /\ Demands(xs)
  BY <1>2, <1>3 DEF Selecting, HasRequired
<1>7. Len(xs) \in {1, 2}
  <2>1. Len(xs) \in {0, 1, 2} /\ 1 .. Len(xs) # {}
    BY <1>6, ListIs DEF Demands
  <2> QED  BY ONLY <2>1
<1>8. /\ Listed(ys, I) /\ (Demands(xs) => Demands(ys))
      /\ Len(xs) = 1 \/ xs[1].source = "dom" => ys = xs
  BY <1>4, <1>6, <1>7, OfferOrderKeeps
<1>9. ys \in Seq(Entries(I))
  BY <1>8 DEF Listed
<1>10. plan.selections = ys /\ plan.needs = nd
  BY ONLY <1>5
<1>11. \E xx, needs, failure : plan = [selections |-> xx, needs |-> needs, failure |-> failure]
  BY ONLY <1>5
<1> QED  BY ONLY <1>2, <1>3, <1>6, <1>8, <1>9, <1>10, <1>11 DEF PlanOK

\* The source of the route is asked for from the start.
Started(s, route, I, offers) == Selecting(s, I, offers) /\ (route # Absent => HasRequired(s))

\* The selection starts with the source of the route, or with none.
LEMMA StartIs ==
    ASSUME NEW offers, OffersOK(offers), NEW I, NEW kind, NEW requested, NEW route,
           Lifecycle(kind).id \in I, route = Absent \/ IsSource(route),
           NEW start, start = StartOf(offers, kind, requested, route)
    PROVE  Started(start, route, I, offers)
PROOF
<1>1. CASE route # Absent
  <2>1. PICK x : x = Selection(route, "required", "route_source_refresh", {Lifecycle(kind).id})
    OBVIOUS
  <2>2. x \in Entries(I) /\ x.source = route /\ x.requirement = "required"
    BY <1>1, <2>1 DEF Selection, Entries, IsSource, Requirements, SelectionReasons
  <2>3. PICK nd, fl : /\ nd = {Lifecycle(kind)} \cup requested
                      /\ fl = IF route \in Sources(offers) THEN Absent ELSE "unavailable"
    OBVIOUS
  <2>4. start = [selections |-> <<x>>, needs |-> nd, failure |-> fl]
    BY <1>1, <2>1, <2>3 DEF StartOf
  <2>5. start.selections = <<x>> /\ start.failure = fl
    BY ONLY <2>4
  <2>6. <<x>> \in Seq(Entries(I)) /\ Len(<<x>>) = 1 /\ <<x>>[1] = x
    BY ONLY <2>2
  <2>7. Listed(<<x>>, I) /\ Demands(<<x>>)
    BY ONLY <2>2, <2>6 DEF Listed, Demands
  <2>9. fl = Absent => route \in Sources(offers)
    BY ONLY <2>3, Failures
  <2>8. fl = Absent => Offered(<<x>>, offers)
    <3>1. PICK xs : xs = <<x>>
      OBVIOUS
    <3>2. Len(xs) = 1 /\ xs[1] = x
      BY ONLY <2>6, <3>1
    <3>4. \A i \in 1 .. Len(xs) : xs[i].source = route
      BY ONLY <2>2, <3>2
    <3>3. fl = Absent => Offered(xs, offers)
      BY ONLY <2>9, <3>4 DEF Offered
    <3> QED  BY ONLY <3>1, <3>3
  <2> QED  BY ONLY <2>4, <2>5, <2>7, <2>8 DEF Selecting, HasRequired, Started
<1>2. CASE route = Absent
  <2>3. PICK nd, fl : /\ nd = IF requested = {} THEN {Lifecycle(kind)} ELSE requested
                      /\ fl = IF offers = <<>> THEN "unavailable" ELSE Absent
    OBVIOUS
  <2>4. start = [selections |-> <<>>, needs |-> nd, failure |-> fl]
    BY <1>2, <2>3 DEF StartOf
  <2>5. start.selections = <<>> /\ start.failure = fl
    BY ONLY <2>4
  <2>6. <<>> \in Seq(Entries(I)) /\ Len(<<>>) = 0
    BY ONLY TRUE
  <2>7. Listed(<<>>, I) /\ Offered(<<>>, offers)
    BY ONLY <2>6 DEF Listed, Offered
  <2> QED  BY ONLY <1>2, <2>4, <2>5, <2>7 DEF Selecting, Started
<1> QED  BY <1>1, <1>2

\* Every plan for one need, or for two of which the first is not optional, asks
\* for something; so does every plan with a route.
LEMMA SelectionKeeps ==
    ASSUME NEW offers, OffersOK(offers), NEW kind, NEW requested, NEW route,
           route = Absent \/ IsSource(route), NEW optional, NEW there, Budget = 1 => there = FALSE,
           NEW x, NEW y, NeedRank[x.id[1]] \in Nat, NeedRank[y.id[1]] \in Nat,
           x.id \notin optional,
           NEW open, open = OpenOf(kind, requested, route),
           \/ open = {} /\ route # Absent
           \/ open = {x}
           \/ open = {x, y} /\ NeedRank[x.id[1]] < NeedRank[y.id[1]],
           NEW plan, plan = Select(offers, kind, requested, route, optional, there),
           plan.failure = Absent
    PROVE  PlanOK(plan)
PROOF
<1>0. PICK I : I = {Lifecycle(kind).id, x.id, y.id, Baseline(x).id, Baseline(y).id}
  OBVIOUS
<1>1. PICK start : start = StartOf(offers, kind, requested, route)
  OBVIOUS
<1>2. Started(start, route, I, offers)
  <2>1. Lifecycle(kind).id \in I
    BY <1>0
  <2> QED  BY <1>1, <2>1, StartIs
<1>3. PICK one : one = Resolved(start, offers, ById(open)[1], optional, there)
  OBVIOUS
<1>4. PICK two : two = Resolved(one, offers, ById(open)[2], optional, there)
  OBVIOUS
<1>5. ASSUME Cardinality(open) \in 0 .. 2
      PROVE  PlanIs(plan, open, start, one, two, offers)
  BY <1>1, <1>3, <1>4, <1>5, SelectIs
<1>6. ASSUME NEW s, Selecting(s, I, offers), plan = Chosen(offers, s), s.failure = Absent => HasRequired(s)
      PROVE  PlanOK(plan)
  BY <1>6, ChosenIsPlan
<1>7. CASE open = {} /\ route # Absent
  <2>1. Cardinality(open) = 0
    BY <1>7, FS_EmptySet
  <2>2. plan = Chosen(offers, start)
    BY ONLY <1>5, <2>1 DEF PlanIs
  <2>3. Selecting(start, I, offers) /\ HasRequired(start)
    BY <1>2, <1>7 DEF Started
  <2> QED  BY ONLY <1>6, <2>2, <2>3
<1>8. ASSUME ById(open)[1] = x
      PROVE  Answered(one, start, x, optional, I, offers)
  <2>1. one = Resolved(start, offers, x, optional, there)
    BY <1>3, <1>8
  <2>2. x.id \in I /\ Baseline(x).id \in I
    BY <1>0
  <2>3. Selecting(start, I, offers)
    BY <1>2 DEF Started
  <2> QED  BY <2>1, <2>2, <2>3, ResolvedKeeps
<1>f. start.failure # Absent => one = start
  BY <1>3 DEF Resolved, Absent
<1>g. one.failure # Absent => two = one
  BY <1>4 DEF Resolved, Absent
<1>h. ASSUME ById(open)[1] = x
      PROVE  Selecting(one, I, offers) /\ (one.failure = Absent => HasRequired(one))
  <2>1. Answered(one, start, x, optional, I, offers)
    BY <1>8, <1>h
  <2> QED  BY ONLY <1>f, <2>1, x.id \notin optional DEF Answered
<1>9. CASE open = {x}
  <2>1. Cardinality(open) = 1 /\ ById(open)[1] = x
    BY <1>9, NeedInOrder
  <2>2. plan = Chosen(offers, one)
    BY ONLY <1>5, <2>1 DEF PlanIs
  <2>3. Selecting(one, I, offers) /\ (one.failure = Absent => HasRequired(one))
    BY ONLY <1>h, <2>1
  <2> QED  BY ONLY <1>6, <2>2, <2>3
<1>10. CASE open = {x, y} /\ NeedRank[x.id[1]] < NeedRank[y.id[1]]
  <2>8. NeedRank[x.id[1]] \in Nat /\ NeedRank[y.id[1]] \in Nat
    OBVIOUS
  <2>9. Cardinality({x, y}) = 2 /\ ById({x, y})[1] = x /\ ById({x, y})[2] = y
    <3>1. NeedRank[x.id[1]] < NeedRank[y.id[1]]
      BY ONLY <1>10
    <3> QED  BY ONLY <2>8, <3>1, NeedsInOrder
  <2>1. Cardinality(open) = 2 /\ ById(open)[1] = x /\ ById(open)[2] = y
    BY ONLY <1>10, <2>9
  <2>7. plan = Chosen(offers, two)
    BY ONLY <1>5, <2>1 DEF PlanIs
  <2>2. Selecting(one, I, offers) /\ (one.failure = Absent => HasRequired(one))
    BY ONLY <1>h, <2>1
  <2>3. two = Resolved(one, offers, y, optional, there)
    BY <1>4, <2>1
  <2>4. y.id \in I /\ Baseline(y).id \in I
    BY <1>0
  <2>5. Answered(two, one, y, optional, I, offers)
    BY <2>2, <2>3, <2>4, ResolvedKeeps
  <2>6. Selecting(two, I, offers) /\ (two.failure = Absent => HasRequired(two))
    BY ONLY <1>g, <2>2, <2>5 DEF Answered
  <2> QED  BY ONLY <1>6, <2>6, <2>7
<1> QED  BY <1>7, <1>9, <1>10

-----------------------------------------------------------------------------
(* The plans of the acquisitions that close a dispatch, field by field.    *)

\* The selected sources and the offers that satisfy a need.
HoldersOf(s, offers, need) ==
    {i \in DOMAIN s.selections : Satisfies(OfferOf(offers, s.selections[i].source), need)}

AdequateOf(offers, need) == {i \in DOMAIN offers : Satisfies(offers[i], need)}

\* Those that are not selected.
UnusedOf(adequate, s, offers) == {i \in adequate : offers[i].source \notin Sources(s.selections)}

RequirementOf(need, optional) == IF need.id \in optional THEN "optional" ELSE "required"

\* A need that a selected source satisfies.
LEMMA ResolvedByHolder ==
    ASSUME NEW offers, NEW s, s.failure = Absent, NEW need, NEW optional, NEW there,
           HoldersOf(s, offers, need) # {}, NEW r, r = Resolved(s, offers, need, optional, there)
    PROVE  r = Extended(s, Min(HoldersOf(s, offers, need)), need, RequirementOf(need, optional))
PROOF BY DEF Resolved, HoldersOf, RequirementOf, Absent

\* A need that a source of its own satisfies, without a baseline.
LEMMA ResolvedByOther ==
    ASSUME NEW offers, NEW s, s.failure = Absent, NEW need, NEW optional, NEW there,
           HoldersOf(s, offers, need) = {}, ~NeedsBaseline(s, offers, AdequateOf(offers, need), there),
           UnusedOf(AdequateOf(offers, need), s, offers) # {}
    PROVE  Resolved(s, offers, need, optional, there) =
             Add(s, Selection(offers[Min(UnusedOf(AdequateOf(offers, need), s, offers))].source,
                              RequirementOf(need, optional), "grounding", {need.id}))
PROOF
<1> DEFINE able == {i \in DOMAIN offers : Satisfies(offers[i], need)}
           grounded == IF NeedsBaseline(s, offers, able, there) THEN WithBaseline(s, offers, need) ELSE s
           left == {i \in able : offers[i].source \notin Sources(grounded.selections)}
           requirement == IF need.id \in optional THEN "optional" ELSE "required"
           answering == {i \in DOMAIN s.selections :
                            Satisfies(OfferOf(offers, s.selections[i].source), need)}
<1>0. Resolved(s, offers, need, optional, there) =
        IF s.failure # Absent THEN s
          ELSE IF answering # {} THEN Extended(s, Min(answering), need, requirement)
          ELSE IF grounded.failure # Absent THEN grounded
          ELSE IF able = {} THEN [grounded EXCEPT !.failure = "unavailable"]
          ELSE IF left # {}
               THEN Add(grounded, Selection(offers[Min(left)].source, requirement, "grounding", {need.id}))
               ELSE Extended(grounded, CHOOSE i \in DOMAIN grounded.selections :
                                grounded.selections[i].source = offers[Min(able)].source, need, requirement)
  BY DEF Resolved, Absent
<1>1. able = AdequateOf(offers, need) /\ answering = {}
  BY DEF HoldersOf, AdequateOf
<1> HIDE DEF able, answering
<1>2. grounded = s
  BY <1>1
<1> HIDE DEF grounded
<1>3. left = UnusedOf(AdequateOf(offers, need), s, offers) /\ able # {}
  BY <1>1, <1>2 DEF UnusedOf
<1> HIDE DEF left
<1>5. requirement = RequirementOf(need, optional)
  BY DEF RequirementOf
<1> HIDE DEF requirement
<1>4. Resolved(s, offers, need, optional, there) =
        Add(s, Selection(offers[Min(left)].source, requirement, "grounding", {need.id}))
  BY <1>0, <1>1, <1>2, <1>3
<1> QED  BY ONLY <1>3, <1>4, <1>5

\* A further source, for which there is room.
LEMMA AddIs ==
    ASSUME NEW xs, NEW needs, NEW x, x.source \notin Sources(xs), Len(xs) \in Nat, Len(xs) < Budget,
           NEW s, s = [selections |-> xs, needs |-> needs, failure |-> Absent]
    PROVE  Add(s, x) = [selections |-> Append(xs, x), needs |-> needs, failure |-> Absent]
PROOF
<1>1. s.selections = xs
  OBVIOUS
<1>2. ~(Len(xs) >= Budget)
  <2>1. PICK n \in Nat : n = Len(xs)
    OBVIOUS
  <2>2. Budget \in {1, 2} /\ n < Budget
    BY <2>1, BudgetAssumption
  <2>3. ~(n >= Budget)
    BY ONLY <2>1, <2>2
  <2> QED  BY ONLY <2>1, <2>3
<1>3. Add(s, x) = [s EXCEPT !.selections = Append(xs, x)]
  BY ONLY <1>1, <1>2, x.source \notin Sources(xs) DEF Add
<1> QED  BY ONLY <1>3, s = [selections |-> xs, needs |-> needs, failure |-> Absent]

\* The positions of the first offer and of others.
LEMMA FirstIsLeast ==
    ASSUME NEW I, 1 \in I, I \subseteq {1, 2}
    PROVE  Min(I) = 1
PROOF
<1>1. Min(I) \in I /\ Min(I) <= 1
  BY LeastOf
<1>2. Min(I) = 1 \/ Min(I) = 2
  BY <1>1
<1> QED  BY <1>1, <1>2

\* What starts with no selection.
Bare(needs) == [selections |-> <<>>, needs |-> needs, failure |-> Absent]

\* A plan that only asks the structural source.
DomOnly(reason, ids, needs) ==
    [selections |-> <<Selection("dom", "required", reason, ids)>>, needs |-> needs, failure |-> Absent]

\* One that also looks at what the structural source cannot tell.
DomThenVisual(reason, ids, need, needs) ==
    [selections |-> <<Selection("dom", "required", reason, ids),
                      Selection("visual", "optional", "grounding", {need.id})>>,
     needs |-> needs, failure |-> Absent]

\* Nothing is selected, and the structural source satisfies the need.
LEMMA DomAnswers ==
    ASSUME NEW offers, OffersOK(offers), NEW need, Satisfies(Structural, need), NEW optional,
           need.id \notin optional, NEW there, NEW needs
    PROVE  Resolved(Bare(needs), offers, need, optional, there) = DomOnly("grounding", {need.id}, needs)
PROOF
<1>s. PICK s : s = Bare(needs)
  OBVIOUS
<1>1. s.selections = <<>> /\ s.failure = Absent /\ DOMAIN s.selections = {}
  <2>1. s.selections = <<>> /\ s.failure = Absent
    BY ONLY <1>s DEF Bare
  <2>2. DOMAIN <<>> = {}
    BY ONLY TRUE
  <2> QED  BY ONLY <2>1, <2>2
<1>2. Sources(s.selections) = {} /\ Sources(<<>>) = {}
  BY <1>1 DEF Sources
<1>3. PICK adequate : AdequateOf(offers, need) = adequate
  OBVIOUS
<1>4. 1 \in adequate /\ adequate \subseteq {1, 2} /\ adequate # {}
  BY <1>3 DEF OffersOK, AdequateOf
<1>5. Min(adequate) = 1
  BY <1>4, FirstIsLeast
<1>6. offers[1].source = "dom" /\ offers[1].modality = "structural"
  <2>1. DomFirst(offers) /\ offers[1] = Structural
    BY OffersGive DEF OffersOK
  <2> QED  BY <2>1 DEF DomFirst
<1>7. ~NeedsBaseline(s, offers, adequate, there)
  <2>1. "structural" # "visual"
    OBVIOUS
  <2> QED  BY <1>4, <1>6, <2>1 DEF NeedsBaseline
<1>8. UnusedOf(adequate, s, offers) = adequate
  BY <1>2 DEF UnusedOf
<1>9. HoldersOf(s, offers, need) = {}
  BY <1>1 DEF HoldersOf
<1>x. PICK x : x = Selection("dom", "required", "grounding", {need.id})
  OBVIOUS
<1>10. Resolved(s, offers, need, optional, there) = Add(s, x)
  <2>0. s.failure = Absent /\ adequate # {}
    BY <1>1, <1>4
  <2>2. RequirementOf(need, optional) = "required"
    BY DEF RequirementOf
  <2>3. /\ UnusedOf(AdequateOf(offers, need), s, offers) = adequate
        /\ ~NeedsBaseline(s, offers, AdequateOf(offers, need), there)
    BY ONLY <1>3, <1>7, <1>8
  <2>4. UnusedOf(AdequateOf(offers, need), s, offers) # {}
    BY ONLY <2>0, <2>3
  <2>1. Resolved(s, offers, need, optional, there) =
             Add(s, Selection(offers[Min(UnusedOf(AdequateOf(offers, need), s, offers))].source,
                              RequirementOf(need, optional), "grounding", {need.id}))
    BY ONLY <1>9, <2>0, <2>3, <2>4, ResolvedByOther
  <2> QED  BY ONLY <1>5, <1>6, <1>x, <2>1, <2>2, <2>3
<1>11. Add(s, x) = [selections |-> Append(<<>>, x), needs |-> needs, failure |-> Absent]
  <2>1. Len(<<>>) \in Nat /\ Len(<<>>) < Budget
    <3>1. Budget \in {1, 2}
      BY BudgetAssumption
    <3> QED  BY ONLY <3>1
  <2>2. x.source \notin Sources(<<>>)
    BY <1>2
  <2>3. s = [selections |-> <<>>, needs |-> needs, failure |-> Absent]
    BY <1>s DEF Bare
  <2> QED  BY <2>1, <2>2, <2>3, AddIs
<1>12. Append(<<>>, x) = <<x>>
  OBVIOUS
<1> QED  BY <1>s, <1>x, <1>10, <1>11, <1>12 DEF DomOnly

\* A sequence of one element.
LEMMA LoneEntry ==
    ASSUME NEW S, NEW zs \in Seq(S), Len(zs) = 1
    PROVE  zs = <<zs[1]>>
PROOF
<1>1. zs \in [1 .. 1 -> S]
  OBVIOUS
<1>2. PICK y : y = zs[1]
  OBVIOUS
<1>3. y \in S
  BY <1>1, <1>2
<1>4. <<y>> \in [1 .. 1 -> S] /\ <<y>>[1] = y
  BY ONLY <1>3
<1>5. \A i \in 1 .. 1 : zs[i] = <<y>>[i]
  BY ONLY <1>2, <1>4
<1>6. zs = <<y>>
  BY ONLY <1>1, <1>4, <1>5
<1> QED  BY <1>2, <1>6

\* The structural source is selected, and satisfies the need as well.
LEMMA DomHolds ==
    ASSUME NEW offers, OffersOK(offers), NEW need, Satisfies(Structural, need), NEW optional,
           need.id \notin optional, NEW there, NEW reason \in SelectionReasons, NEW needs
    PROVE  Resolved(DomOnly(reason, {need.id}, needs), offers, need, optional, there) =
             DomOnly(reason, {need.id}, needs)
PROOF
<1>x. PICK x : x = Selection("dom", "required", reason, {need.id})
  OBVIOUS
<1>s. PICK s : s = DomOnly(reason, {need.id}, needs)
  OBVIOUS
<1>1. s = [selections |-> <<x>>, needs |-> needs, failure |-> Absent]
  BY <1>s, <1>x DEF DomOnly
<1>2. x = [source |-> "dom", requirement |-> "required", reason |-> reason, needs |-> {need.id}]
  BY <1>x DEF Selection
<1>3. s.selections = <<x>> /\ s.failure = Absent /\ DOMAIN s.selections = {1} /\ s.selections[1] = x
  <2>1. s.selections = <<x>> /\ s.failure = Absent
    BY ONLY <1>1
  <2>2. DOMAIN <<x>> = {1} /\ <<x>>[1] = x
    BY ONLY TRUE
  <2> QED  BY ONLY <2>1, <2>2
<1>4. OfferOf(offers, "dom") = Structural /\ x.source = "dom"
  BY <1>2, OffersGive DEF DomFirst
<1>5. PICK holders : HoldersOf(s, offers, need) = holders
  OBVIOUS
<1>6. holders = {1}
  BY <1>3, <1>4, <1>5 DEF HoldersOf
<1>7. Min(holders) = 1 /\ holders # {}
  BY <1>6, FirstIsLeast
<1>8. Resolved(s, offers, need, optional, there) = Extended(s, 1, need, "required")
  <2>1. RequirementOf(need, optional) = "required"
    BY DEF RequirementOf
  <2>2. Resolved(s, offers, need, optional, there) =
             Extended(s, Min(HoldersOf(s, offers, need)), need, RequirementOf(need, optional))
    <3>1. s.failure = Absent /\ HoldersOf(s, offers, need) # {}
      BY ONLY <1>3, <1>5, <1>7
    <3>2. PICK r : r = Resolved(s, offers, need, optional, there)
      OBVIOUS
    <3>3. r = Extended(s, Min(HoldersOf(s, offers, need)), need, RequirementOf(need, optional))
      BY ONLY <3>1, <3>2, ResolvedByHolder
    <3> QED  BY ONLY <3>2, <3>3
  <2> QED  BY ONLY <1>5, <1>7, <2>1, <2>2
<1>9. Extended(s, 1, need, "required") = s
  <2>1. PICK I : I = {need.id}
    OBVIOUS
  <2>2. Selecting(s, I, offers)
    <3>1. x \in Entries(I)
      BY <1>2, <2>1 DEF Entries, IsSource, Requirements
    <3>2. <<x>> \in Seq(Entries(I)) /\ Len(<<x>>) = 1 /\ <<x>>[1] = x
      BY ONLY <3>1
    <3>3. Listed(<<x>>, I)
      BY ONLY <3>2 DEF Listed
    <3>4. "dom" \in Sources(offers)
      BY OffersGive DEF DomFirst
    <3>5. Offered(<<x>>, offers)
      <4>1. \A i \in 1 .. Len(<<x>>) : <<x>>[i] = x
        BY ONLY <3>2
      <4> QED  BY ONLY <1>4, <3>4, <4>1 DEF Offered
    <3> QED  BY ONLY <1>1, <1>3, <3>3, <3>5 DEF Selecting
  <2>3. PICK r : r = Extended(s, 1, need, "required")
    OBVIOUS
  <2>4. Covering(r, s, 1, need, "required", I, offers)
    <3>1. 1 \in 1 .. Len(s.selections) /\ need.id \in I /\ "required" \in Requirements
      <4>1. 1 \in 1 .. Len(<<x>>)
        BY ONLY TRUE
      <4> QED  BY ONLY <1>3, <2>1, <4>1 DEF Requirements
    <3> QED  BY ONLY <2>2, <2>3, <3>1, ExtendedKeeps
  <2>5. PICK zs, nd, fl : r = [selections |-> zs, needs |-> nd, failure |-> fl]
    BY <2>4 DEF Covering, Selecting
  <2>6. r.selections = zs /\ r.needs = nd /\ r.failure = fl
    BY ONLY <2>5
  <2>7. PICK y : y = [s.selections[1] EXCEPT !.needs = @ \cup {need.id},
                        !.requirement = IF "required" = "required" THEN "required" ELSE @]
    OBVIOUS
  <2>8. zs[1] = y /\ Len(zs) = 1 /\ zs \in Seq(Entries(I)) /\ nd = needs /\ fl = Absent
    <3>1. Len(s.selections) = 1 /\ 1 \in 1 .. Len(s.selections)
      <4>1. 1 \in 1 .. Len(<<x>>) /\ Len(<<x>>) = 1
        BY ONLY TRUE
      <4> QED  BY ONLY <1>3, <4>1
    <3>2. s.needs = needs /\ s.failure = Absent
      BY ONLY <1>1
    <3>3. \A j \in 1 .. Len(s.selections) : j = 1 => zs[j] = y
      BY <2>4, <2>6, <2>7 DEF Covering
    <3>4. Len(zs) = Len(s.selections) /\ nd = s.needs /\ fl = s.failure /\ Selecting(r, I, offers)
      BY ONLY <2>4, <2>6 DEF Covering
    <3>5. Listed(zs, I)
      BY ONLY <2>6, <3>4 DEF Selecting
    <3> QED  BY ONLY <3>1, <3>2, <3>3, <3>4, <3>5 DEF Listed
  <2>9. y = x
    <3>1. PICK ids : ids = {need.id}
      OBVIOUS
    <3>2. ids \cup {need.id} = ids
      BY ONLY <3>1
    <3>3. x = [source |-> "dom", requirement |-> "required", reason |-> reason, needs |-> ids]
      BY ONLY <1>2, <3>1
    <3>a. s.selections[1] = x /\ y = [x EXCEPT !.needs = x.needs \cup {need.id}, !.requirement = "required"]
      BY ONLY <1>3, <2>7
    <3>4. x.needs = ids /\ y = [x EXCEPT !.needs = x.needs \cup {need.id}, !.requirement = "required"]
      BY ONLY <3>a, <3>3
    <3>5. PICK z : z = [x EXCEPT !.needs = ids]
      OBVIOUS
    <3>6. z = x
      BY ONLY <3>3, <3>5
    <3>7. y = [z EXCEPT !.requirement = "required"]
      BY ONLY <3>2, <3>4, <3>5
    <3> QED  BY ONLY <3>3, <3>6, <3>7
  <2>10. zs = <<x>>
    BY ONLY <2>8, <2>9, LoneEntry
  <2> QED  BY ONLY <1>1, <2>3, <2>5, <2>8, <2>10
<1> QED  BY <1>s, <1>8, <1>9

\* The structural baseline is there.
IsThere(there) == there = TRUE

\* The screenshots join the structural source for what it cannot tell.
LEMMA VisualJoins ==
    ASSUME NEW offers, OffersOK(offers), 2 \in DOMAIN offers, Budget = 2, NEW need,
           need.modality = "visual", Satisfies(offers[2], need), NEW optional, need.id \in optional,
           NEW reason, NEW ids, NEW needs, NEW there, IsThere(there)
    PROVE  Resolved(DomOnly(reason, ids, needs), offers, need, optional, there) =
             DomThenVisual(reason, ids, need, needs)
PROOF
<1>x. PICK x : x = Selection("dom", "required", reason, ids)
  OBVIOUS
<1>y. PICK y : y = Selection("visual", "optional", "grounding", {need.id})
  OBVIOUS
<1>s. PICK s : s = DomOnly(reason, ids, needs)
  OBVIOUS
<1>1. s = [selections |-> <<x>>, needs |-> needs, failure |-> Absent]
  BY <1>s, <1>x DEF DomOnly
<1>2. x.source = "dom" /\ y.source = "visual"
  BY <1>x, <1>y DEF Selection
<1>3. s.selections = <<x>> /\ s.failure = Absent /\ DOMAIN s.selections = {1} /\ s.selections[1] = x
  BY <1>1
<1>4. DomFirst(offers) /\ offers[2].source = "visual" /\ 1 \in DOMAIN offers /\ DOMAIN offers = {1, 2}
      /\ offers[1] = Structural
  BY OffersGive DEF OffersOK
<1>5. ~Satisfies(Structural, need)
  <2>1. Structural.modality = "structural"
    BY DEF Structural
  <2> QED  BY <2>1 DEF Satisfies
<1>6. HoldersOf(s, offers, need) = {}
  <2>1. OfferOf(offers, "dom") = Structural
    BY <1>4 DEF DomFirst
  <2> QED  BY <1>2, <1>3, <1>5, <2>1 DEF HoldersOf
<1>7. AdequateOf(offers, need) = {2}
  BY <1>4, <1>5 DEF AdequateOf
<1>8. Sources(s.selections) = {"dom"}
  BY <1>2, <1>3 DEF Sources
<1>9. UnusedOf(AdequateOf(offers, need), s, offers) = {2}
  BY <1>4, <1>7, <1>8 DEF UnusedOf
<1>10. ~NeedsBaseline(s, offers, AdequateOf(offers, need), there)
  BY DEF NeedsBaseline, IsThere
<1>11. Min({2}) = 2
  BY LeastOf
<1>12. RequirementOf(need, optional) = "optional"
  BY DEF RequirementOf
<1>13. Resolved(s, offers, need, optional, there) =
             Add(s, Selection(offers[Min(UnusedOf(AdequateOf(offers, need), s, offers))].source,
                              RequirementOf(need, optional), "grounding", {need.id}))
  <2>1. UnusedOf(AdequateOf(offers, need), s, offers) # {}
    BY <1>9
  <2> QED  BY ONLY <1>3, <1>6, <1>10, <2>1, ResolvedByOther
<1>14. Resolved(s, offers, need, optional, there) = Add(s, y)
  BY ONLY <1>4, <1>9, <1>11, <1>12, <1>13, <1>y
<1>15. Add(s, y) = [selections |-> Append(<<x>>, y), needs |-> needs, failure |-> Absent]
  <2>1. Len(<<x>>) \in Nat /\ Len(<<x>>) < Budget
    OBVIOUS
  <2>2. y.source \notin Sources(<<x>>)
    BY <1>2, <1>3, <1>8
  <2> QED  BY <1>1, <2>1, <2>2, AddIs
<1>16. Append(<<x>>, y) = <<x, y>>
  <2>1. PICK S : S = {x, y}
    OBVIOUS
  <2>2. <<x>> \in Seq(S) /\ Len(<<x>>) = 1 /\ y \in S
    BY ONLY <2>1
  <2>3. PICK zs : zs = Append(<<x>>, y)
    OBVIOUS
  <2>4. zs \in Seq(S) /\ Len(zs) = 2 /\ zs[1] = x /\ zs[2] = y
    BY ONLY <2>2, <2>3
  <2>5. zs \in [1 .. 2 -> S]
    BY ONLY <2>4
  <2>6. <<x, y>> \in [1 .. 2 -> S] /\ <<x, y>>[1] = x /\ <<x, y>>[2] = y
    BY ONLY <2>1
  <2>7. \A i \in 1 .. 2 : zs[i] = <<x, y>>[i]
    BY ONLY <2>4, <2>6
  <2>8. zs = <<x, y>>
    BY ONLY <2>5, <2>6, <2>7
  <2> QED  BY <2>3, <2>8
<1> QED  BY ONLY <1>s, <1>x, <1>y, <1>14, <1>15, <1>16 DEF DomThenVisual

\* Selections that are in order already are chosen as they are.
LEMMA ChosenSame ==
    ASSUME NEW offers, OffersOK(offers), NEW I, NEW xs, Listed(xs, I), Offered(xs, offers),
           Len(xs) \in {1, 2}, Len(xs) = 1 \/ xs[1].source = "dom", NEW needs,
           NEW s, s = [selections |-> xs, needs |-> needs, failure |-> Absent]
    PROVE  Chosen(offers, s) = s
PROOF
<1>1. PICK ys : ys = InOfferOrder(offers, xs)
  OBVIOUS
<1>2. ys = xs
  BY <1>1, OfferOrderKeeps
<1>3. s.failure = Absent /\ s.selections = xs
  OBVIOUS
<1>4. Chosen(offers, s) = [s EXCEPT !.selections = ys]
  BY ONLY <1>1, <1>3 DEF Chosen, Absent
<1> QED  BY ONLY <1>2, <1>4, s = [selections |-> xs, needs |-> needs, failure |-> Absent]

\* A plan that only asks the structural source is in order.
LEMMA DomChosen ==
    ASSUME NEW offers, OffersOK(offers), NEW reason \in SelectionReasons, NEW ids, NEW needs
    PROVE  Chosen(offers, DomOnly(reason, ids, needs)) = DomOnly(reason, ids, needs)
PROOF
<1>x. PICK x : x = Selection("dom", "required", reason, ids)
  OBVIOUS
<1>1. x = [source |-> "dom", requirement |-> "required", reason |-> reason, needs |-> ids]
  BY <1>x DEF Selection
<1>2. DomFirst(offers) /\ x.source = "dom" /\ "dom" \in Sources(offers)
  BY <1>1, OffersGive DEF DomFirst
<1>3. x \in Entries(ids)
  BY <1>1 DEF Entries, IsSource, Requirements
<1>4. PICK xs : xs = <<x>>
  OBVIOUS
<1>5. xs \in Seq(Entries(ids)) /\ Len(xs) = 1 /\ xs[1] = x
  BY ONLY <1>3, <1>4
<1>6. Listed(xs, ids) /\ Offered(xs, offers)
  BY ONLY <1>2, <1>5 DEF Listed, Offered
<1>7. DomOnly(reason, ids, needs) = [selections |-> xs, needs |-> needs, failure |-> Absent]
  BY <1>x, <1>4 DEF DomOnly
<1> QED  BY <1>5, <1>6, <1>7, ChosenSame

\* So is one that looks at the page as well.
LEMMA DomThenVisualChosen ==
    ASSUME NEW offers, OffersOK(offers), NEW reason \in SelectionReasons, NEW ids, NEW needs,
           NEW need, Budget = 2, 2 \in DOMAIN offers
    PROVE  Chosen(offers, DomThenVisual(reason, ids, need, needs)) =
             DomThenVisual(reason, ids, need, needs)
PROOF
<1>x. PICK x : x = Selection("dom", "required", reason, ids)
  OBVIOUS
<1>1. x = [source |-> "dom", requirement |-> "required", reason |-> reason, needs |-> ids]
  BY <1>x DEF Selection
<1>2. DomFirst(offers) /\ x.source = "dom" /\ "dom" \in Sources(offers)
  BY <1>1, OffersGive DEF DomFirst
<1>y. PICK y : y = Selection("visual", "optional", "grounding", {need.id})
  OBVIOUS
<1>3. y = [source |-> "visual", requirement |-> "optional", reason |-> "grounding", needs |-> {need.id}]
  BY <1>y DEF Selection
<1>i. PICK I : I = ids \cup {need.id}
  OBVIOUS
<1>4. x \in Entries(I) /\ y \in Entries(I)
  BY <1>1, <1>3, <1>i DEF Entries, IsSource, Requirements, SelectionReasons
<1>5. PICK xs : xs = <<x, y>>
  OBVIOUS
<1>6. xs \in Seq(Entries(I)) /\ Len(xs) = 2 /\ xs[1] = x /\ xs[2] = y
  BY ONLY <1>4, <1>5
<1>7. y.source = "visual" /\ "visual" \in Sources(offers)
  BY <1>2, <1>3 DEF DomFirst, Sources
<1>8. Listed(xs, I) /\ Offered(xs, offers)
  BY ONLY <1>2, <1>6, <1>7 DEF Listed, Offered
<1>9. DomThenVisual(reason, ids, need, needs) = [selections |-> xs, needs |-> needs, failure |-> Absent]
  BY <1>x, <1>y, <1>5 DEF DomThenVisual
<1> QED  BY <1>2, <1>6, <1>8, <1>9, ChosenSame

\* The selection for no need, for one and for two.
LEMMA SelectNone ==
    ASSUME NEW offers, NEW kind, NEW requested, NEW route, NEW optional, NEW there,
           OpenOf(kind, requested, route) = {}
    PROVE  Select(offers, kind, requested, route, optional, there) =
             Chosen(offers, StartOf(offers, kind, requested, route))
PROOF
<1>1. PICK open, start, one, two, plan :
        /\ open = OpenOf(kind, requested, route)
        /\ start = StartOf(offers, kind, requested, route)
        /\ one = Resolved(start, offers, ById(open)[1], optional, there)
        /\ two = Resolved(one, offers, ById(open)[2], optional, there)
        /\ plan = Select(offers, kind, requested, route, optional, there)
  OBVIOUS
<1>2. Cardinality(open) = 0
  BY <1>1, FS_EmptySet
<1>3. PlanIs(plan, open, start, one, two, offers)
  <2>1. Cardinality(open) \in 0 .. 2
    BY ONLY <1>2
  <2> QED  BY <1>1, <2>1, SelectIs
<1> QED  BY ONLY <1>1, <1>2, <1>3 DEF PlanIs

\* One need.
LEMMA SelectOne ==
    ASSUME NEW offers, NEW kind, NEW requested, NEW route, NEW optional, NEW there,
           NEW x, NeedRank[x.id[1]] \in Nat, OpenOf(kind, requested, route) = {x}
    PROVE  Select(offers, kind, requested, route, optional, there) =
             Chosen(offers, Resolved(StartOf(offers, kind, requested, route), offers, x, optional, there))
PROOF
<1>1. PICK open, start, one, two, plan :
        /\ open = OpenOf(kind, requested, route)
        /\ start = StartOf(offers, kind, requested, route)
        /\ one = Resolved(start, offers, ById(open)[1], optional, there)
        /\ two = Resolved(one, offers, ById(open)[2], optional, there)
        /\ plan = Select(offers, kind, requested, route, optional, there)
  OBVIOUS
<1>2. Cardinality(open) = 1 /\ ById(open)[1] = x
  BY <1>1, NeedInOrder
<1>3. PlanIs(plan, open, start, one, two, offers)
  <2>1. Cardinality(open) \in 0 .. 2
    BY ONLY <1>2
  <2> QED  BY <1>1, <2>1, SelectIs
<1> QED  BY ONLY <1>1, <1>2, <1>3 DEF PlanIs

\* Two needs.
LEMMA SelectTwo ==
    ASSUME NEW offers, NEW kind, NEW requested, NEW route, NEW optional, NEW there,
           NEW x, NEW y, NeedRank[x.id[1]] \in Nat, NeedRank[y.id[1]] \in Nat,
           NeedRank[x.id[1]] < NeedRank[y.id[1]], OpenOf(kind, requested, route) = {x, y}
    PROVE  Select(offers, kind, requested, route, optional, there) =
             Chosen(offers,
                    Resolved(Resolved(StartOf(offers, kind, requested, route), offers, x, optional, there),
                             offers, y, optional, there))
PROOF
<1>1. PICK open, start, one, two, plan :
        /\ open = OpenOf(kind, requested, route)
        /\ start = StartOf(offers, kind, requested, route)
        /\ one = Resolved(start, offers, ById(open)[1], optional, there)
        /\ two = Resolved(one, offers, ById(open)[2], optional, there)
        /\ plan = Select(offers, kind, requested, route, optional, there)
  OBVIOUS
<1>2. Cardinality(open) = 2 /\ ById(open)[1] = x /\ ById(open)[2] = y
  <2>1. Cardinality({x, y}) = 2 /\ ById({x, y})[1] = x /\ ById({x, y})[2] = y
    BY ONLY NeedsInOrder, NeedRank[x.id[1]] \in Nat, NeedRank[y.id[1]] \in Nat,
            NeedRank[x.id[1]] < NeedRank[y.id[1]]
  <2> QED  BY ONLY <1>1, <2>1, OpenOf(kind, requested, route) = {x, y}
<1>3. PlanIs(plan, open, start, one, two, offers)
  <2>1. Cardinality(open) \in 0 .. 2
    BY ONLY <1>2
  <2> QED  BY <1>1, <2>1, SelectIs
<1> QED  BY ONLY <1>1, <1>2, <1>3 DEF PlanIs

\* The start without a route, and with that of the structural source.
LEMMA StartsBare ==
    ASSUME NEW offers, offers # <<>>, NEW kind, NEW requested,
           NEW needs, needs = OpenOf(kind, requested, Absent)
    PROVE  StartOf(offers, kind, requested, Absent) = Bare(needs)
PROOF BY DEF StartOf, OpenOf, Bare

\* The structural source is offered.
LEMMA StartsWithDom ==
    ASSUME NEW offers, OffersOK(offers), NEW kind, NEW requested
    PROVE  StartOf(offers, kind, requested, "dom") =
             DomOnly("route_source_refresh", {Lifecycle(kind).id}, {Lifecycle(kind)} \cup requested)
PROOF
<1>1. "dom" # Absent
  BY DEF Absent
<1>2. "dom" \in Sources(offers)
  BY OffersGive DEF DomFirst
<1> QED  BY <1>1, <1>2 DEF StartOf, DomOnly

-----------------------------------------------------------------------------
\* The need of a plan that closes a dispatch.
Sole(requested) == IF requested = {} THEN Lifecycle("post") ELSE CHOOSE need \in requested : TRUE

\* The structural source satisfies it.
LEMMA SoleIs ==
    ASSUME NEW requested \in VerificationNeeds
    PROVE  /\ OpenOf("post", requested, Absent) = {Sole(requested)}
           /\ NeedRank[Sole(requested).id[1]] \in Nat
           /\ Satisfies(Structural, Sole(requested))
           /\ Sole(requested).id # LayerTransition.id
PROOF
<1>1. CASE requested = {}
  <2>1. Sole(requested) = Lifecycle("post")
    BY <1>1 DEF Sole
  <2>2. Lifecycle("post") = [id |-> <<"lifecycle", "post">>, purpose |-> "refresh", modality |-> "any", assurance |-> "weak"]
    BY DEF Lifecycle
  <2>3. Satisfies(Structural, Lifecycle("post"))
    BY <2>2 DEF Satisfies, Structural, AssuranceRank
  <2>4. NeedRank[Lifecycle("post").id[1]] \in Nat /\ Lifecycle("post").id # LayerTransition.id
    BY <2>2 DEF NeedRank, LayerTransition
  <2>5. OpenOf("post", requested, Absent) = {Lifecycle("post")}
    BY <1>1 DEF OpenOf
  <2> QED  BY <2>1, <2>3, <2>4, <2>5
<1>2. ASSUME NEW i \in {0, 1}, requested = {Verification(i)}
      PROVE  /\ OpenOf("post", requested, Absent) = {Sole(requested)}
             /\ NeedRank[Sole(requested).id[1]] \in Nat
             /\ Satisfies(Structural, Sole(requested))
             /\ Sole(requested).id # LayerTransition.id
  <2>1. Sole(requested) = Verification(i)
    BY <1>2 DEF Sole
  <2>2. PICK assurance \in {"weak", "structural"} :
          Verification(i) = [id |-> <<"verification", i>>, purpose |-> "effect", modality |-> "any",
                             assurance |-> assurance]
    BY DEF Verification
  <2>3. Satisfies(Structural, Verification(i))
    BY <2>2 DEF Satisfies, Structural, AssuranceRank
  <2>4. NeedRank[Verification(i).id[1]] \in Nat /\ Verification(i).id # LayerTransition.id
    BY <2>2 DEF NeedRank, LayerTransition
  <2>5. OpenOf("post", requested, Absent) = {Verification(i)}
    BY <1>2 DEF OpenOf
  <2> QED  BY <2>1, <2>3, <2>4, <2>5
<1>3. requested = {} \/ requested = {Verification(0)} \/ requested = {Verification(1)}
  BY DEF VerificationNeeds
<1> QED  BY <1>1, <1>2, <1>3

\* The recovery of a dispatch asks the structural source.
LEMMA RecoverPlan ==
    ASSUME NEW requested \in VerificationNeeds, NEW then
    PROVE  Begin("post", requested, Absent, then).plan =
             DomOnly("grounding", {Sole(requested).id}, {Sole(requested)})
PROOF
<1>0. PICK offers : offers = Offers
  OBVIOUS
<1>1. OffersOK(offers) /\ offers # <<>>
  BY <1>0, OffersAre DEF OffersOK
<1>x. PICK x : x = Sole(requested)
  OBVIOUS
<1>2. OpenOf("post", requested, Absent) = {x} /\ NeedRank[x.id[1]] \in Nat /\ Satisfies(Structural, x)
  BY <1>x, SoleIs
<1>3. Begin("post", requested, Absent, then).plan = Select(offers, "post", requested, Absent, {}, FALSE)
  <2>1. PICK plan : plan = Select(offers, "post", requested, Absent, {}, FALSE)
    OBVIOUS
  <2>2. Begin("post", requested, Absent, then) =
          [NoAcquisition EXCEPT !.at = "ask", !.kind = "post", !.requested = requested,
                                !.route = Absent, !.then = then, !.plan = plan]
    BY <1>0, <2>1, Zenon DEF Begin
  <2>3. Begin("post", requested, Absent, then).plan = plan
    BY ONLY <2>2 DEF NoAcquisition
  <2> QED  BY ONLY <2>1, <2>3
<1>4. Select(offers, "post", requested, Absent, {}, FALSE) =
        Chosen(offers, Resolved(StartOf(offers, "post", requested, Absent), offers, x, {}, FALSE))
  <2>1. OpenOf("post", requested, Absent) = {x} /\ NeedRank[x.id[1]] \in Nat
    BY ONLY <1>2
  <2> QED  BY ONLY <2>1, SelectOne
<1>5. StartOf(offers, "post", requested, Absent) = Bare({x})
  BY <1>1, <1>2, StartsBare
<1>6. Resolved(Bare({x}), offers, x, {}, FALSE) = DomOnly("grounding", {x.id}, {x})
  <2>1. PICK optional, needs, there : optional = {} /\ needs = {x} /\ there = FALSE
    OBVIOUS
  <2>2. x.id \notin optional
    BY <2>1
  <2>3. Resolved(Bare(needs), offers, x, optional, there) = DomOnly("grounding", {x.id}, needs)
    BY ONLY <1>1, <1>2, <2>2, DomAnswers
  <2> QED  BY ONLY <2>1, <2>3
<1>7. Chosen(offers, DomOnly("grounding", {x.id}, {x})) = DomOnly("grounding", {x.id}, {x})
  <2>1. "grounding" \in SelectionReasons
    BY DEF SelectionReasons
  <2> QED  BY <1>1, <2>1, DomChosen
<1> QED  BY <1>x, <1>3, <1>4, <1>5, <1>6, <1>7

\* The look after the answer to the user asks the source of its route.
LEMMA FinalPlan ==
    ASSUME NEW then
    PROVE  Begin("post", {}, "dom", then).plan =
             DomOnly("route_source_refresh", {Sole({}).id}, {Sole({})})
PROOF
<1>0. PICK offers : offers = Offers
  OBVIOUS
<1>1. OffersOK(offers)
  BY <1>0, OffersAre
<1>x. PICK x : x = Lifecycle("post")
  OBVIOUS
<1>2. Sole({}) = x
  BY <1>x DEF Sole
<1>3. Begin("post", {}, "dom", then).plan = Select(offers, "post", {}, "dom", {}, FALSE)
  BY <1>0 DEF Begin, NoAcquisition
<1>4. Select(offers, "post", {}, "dom", {}, FALSE) = Chosen(offers, StartOf(offers, "post", {}, "dom"))
  <2>1. OpenOf("post", {}, "dom") = {}
    BY DEF OpenOf, Absent
  <2> QED  BY <2>1, SelectNone
<1>5. StartOf(offers, "post", {}, "dom") = DomOnly("route_source_refresh", {x.id}, {x} \cup {})
  BY <1>1, <1>x, StartsWithDom
<1>6. {x} \cup {} = {x}
  OBVIOUS
<1>7. Chosen(offers, DomOnly("route_source_refresh", {x.id}, {x})) = DomOnly("route_source_refresh", {x.id}, {x})
  <2>1. "route_source_refresh" \in SelectionReasons
    BY DEF SelectionReasons
  <2> QED  BY <1>1, <2>1, DomChosen
<1> QED  BY <1>2, <1>3, <1>4, <1>5, <1>6, <1>7

\* The plan after stage one of an acquisition that closes a dispatch: the same,
\* or one that looks as well.
SafePlans(reason, x) ==
    {DomOnly(reason, {x.id}, {x}), DomThenVisual(reason, {x.id}, LayerTransition, {x, LayerTransition})}

\* Routes, and why the structural source was selected.
RouteReason(route, reason, requested) ==
    \/ route = Absent /\ reason = "grounding"
    \/ route = "dom" /\ reason = "route_source_refresh" /\ requested = {}

\* The selection with what the structural source has shown.
LEMMA SafeSelection ==
    ASSUME NEW offers, OffersOK(offers), Budget = 2, NEW requested \in VerificationNeeds,
           NEW route, NEW reason, RouteReason(route, reason, requested), NEW x, x = Sole(requested),
           NEW residual, \/ residual = {}
                         \/ /\ residual = {LayerTransition} /\ requested = {}
                            /\ \E i \in DOMAIN offers : Satisfies(offers[i], LayerTransition)
    PROVE  Select(offers, "post", {x} \cup residual, route, {need.id : need \in residual}, TRUE)
             \in SafePlans(reason, x)
PROOF
<1>n. PICK needs, optional, there : /\ needs = {x} \cup residual /\ optional = {need.id : need \in residual}
                                    /\ there = TRUE
  OBVIOUS
<1>1. /\ NeedRank[x.id[1]] \in Nat /\ Satisfies(Structural, x) /\ x.id # LayerTransition.id
  BY SoleIs
<1>2. x.id \notin optional
  BY <1>1, <1>n
<1>3. OpenOf("post", needs, route) = needs /\ offers # <<>>
  BY <1>n DEF OpenOf, OffersOK
<1>r. reason \in SelectionReasons
  BY DEF RouteReason, SelectionReasons
<1>4. PICK start : start = StartOf(offers, "post", needs, route)
  OBVIOUS
<1>5. Resolved(start, offers, x, optional, there) = DomOnly(reason, {x.id}, needs)
  <2>1. CASE route = Absent /\ reason = "grounding"
    <3>1. start = Bare(needs)
      BY <1>3, <1>4, <2>1, StartsBare
    <3>2. Resolved(Bare(needs), offers, x, optional, there) = DomOnly("grounding", {x.id}, needs)
      BY ONLY <1>1, <1>2, OffersOK(offers), DomAnswers
    <3> QED  BY <2>1, <3>1, <3>2
  <2>2. CASE route = "dom" /\ reason = "route_source_refresh" /\ requested = {}
    <3>1. x = Lifecycle("post")
      BY <2>2 DEF Sole
    <3>2. start = DomOnly("route_source_refresh", {x.id}, {x} \cup needs)
      BY <1>4, <2>2, <3>1, StartsWithDom
    <3>3. {x} \cup needs = needs
      BY <1>n
    <3>4. start = DomOnly(reason, {x.id}, needs)
      BY ONLY <2>2, <3>2, <3>3
    <3>5. Resolved(DomOnly(reason, {x.id}, needs), offers, x, optional, there) = DomOnly(reason, {x.id}, needs)
      BY ONLY <1>1, <1>2, <1>r, OffersOK(offers), DomHolds
    <3> QED  BY ONLY <3>4, <3>5
  <2> QED  BY <2>1, <2>2 DEF RouteReason
<1>6. CASE residual = {}
  <2>1. needs = {x}
    BY <1>6, <1>n
  <2>2. Select(offers, "post", needs, route, optional, there) =
          Chosen(offers, Resolved(start, offers, x, optional, there))
    <3>1. OpenOf("post", needs, route) = {x}
      BY <1>3, <2>1
    <3> QED  BY <1>1, <1>4, <3>1, SelectOne
  <2>3. Chosen(offers, DomOnly(reason, {x.id}, needs)) = DomOnly(reason, {x.id}, needs)
    BY <1>r, DomChosen
  <2> QED  BY <1>5, <1>n, <2>1, <2>2, <2>3 DEF SafePlans
<1>7. CASE /\ residual = {LayerTransition} /\ requested = {}
           /\ \E i \in DOMAIN offers : Satisfies(offers[i], LayerTransition)
  <2>y. PICK y : y = LayerTransition
    OBVIOUS
  <2>1. y.id[1] = "residual" /\ y.modality = "visual"
    BY <2>y DEF LayerTransition
  <2>2. NeedRank[y.id[1]] \in Nat /\ NeedRank[x.id[1]] < NeedRank[y.id[1]]
    <3>1. x.id[1] = "lifecycle"
      BY <1>7 DEF Sole, Lifecycle
    <3> QED  BY <2>1, <3>1 DEF NeedRank
  <2>3. 2 \in DOMAIN offers /\ Satisfies(offers[2], y)
    <3>1. ~Satisfies(Structural, y)
      <4>1. Structural.modality = "structural"
        BY DEF Structural
      <4> QED  BY <2>1, <4>1 DEF Satisfies
    <3> QED  BY <1>7, <2>y, <3>1 DEF OffersOK
  <2>4. needs = {x, y} /\ y.id \in optional
    BY <1>7, <1>n, <2>y
  <2>5. Select(offers, "post", needs, route, optional, there) =
          Chosen(offers, Resolved(Resolved(start, offers, x, optional, there), offers, y, optional, there))
    <3>1. OpenOf("post", needs, route) = {x, y}
      BY <1>3, <2>4
    <3> QED  BY <1>1, <1>4, <2>2, <3>1, SelectTwo
  <2>6. Resolved(DomOnly(reason, {x.id}, needs), offers, y, optional, there) = DomThenVisual(reason, {x.id}, y, needs)
    <3>1. IsThere(there)
      BY <1>n DEF IsThere
    <3>2. y.id \in optional
      BY <2>4
    <3> QED  BY ONLY <3>1, <3>2, <2>1, <2>3, Budget = 2, OffersOK(offers), VisualJoins
  <2>7. Chosen(offers, DomThenVisual(reason, {x.id}, y, needs)) = DomThenVisual(reason, {x.id}, y, needs)
    BY <1>r, <2>3, DomThenVisualChosen
  <2>8. Select(offers, "post", needs, route, optional, there) = DomThenVisual(reason, {x.id}, y, needs)
    BY ONLY <1>5, <2>5, <2>6, <2>7
  <2> QED  BY <1>n, <2>4, <2>8, <2>y DEF SafePlans
<1> QED  BY <1>6, <1>7

\* What a safe plan asks for, and of whom.
LEMMA SafePlanIs ==
    ASSUME NEW reason \in SelectionReasons, NEW x, x.id # LayerTransition.id,
           NEW plan \in SafePlans(reason, x)
    PROVE  /\ plan.failure = Absent
           /\ "dom" \in Sources(plan.selections)
           /\ \A src : IsRequired(plan, src) => src = "dom"
           /\ IsRequired(plan, "dom")
           /\ \A r \in RequestsOf(plan) : r.source = "dom" => Need(r) = {x.id}
PROOF
<1>1. CASE plan = DomOnly(reason, {x.id}, {x})
  <2>d. PICK d : d = Selection("dom", "required", reason, {x.id})
    OBVIOUS
  <2>1. d.source = "dom" /\ d.requirement = "required" /\ d.needs = {x.id}
    BY <2>d DEF Selection
  <2>2. plan = [selections |-> <<d>>, needs |-> {x}, failure |-> Absent]
    BY <1>1, <2>d DEF DomOnly
  <2>3. plan.selections = <<d>> /\ plan.needs = {x} /\ plan.failure = Absent
    BY ONLY <2>2
  <2>4. DOMAIN plan.selections = {1} /\ plan.selections[1] = d
    BY ONLY <2>3
  <2>5. /\ "dom" \in Sources(plan.selections) /\ IsRequired(plan, "dom")
        /\ \A src : IsRequired(plan, src) => src = "dom"
    BY ONLY <2>1, <2>4 DEF Sources, IsRequired
  <2>6. \A r \in RequestsOf(plan) : r.needs = {x}
    BY ONLY <2>1, <2>3, <2>4 DEF RequestsOf
  <2>7. \A r \in RequestsOf(plan) : Need(r) = {x.id}
    BY <2>6 DEF Need
  <2> QED  BY <2>3, <2>5, <2>7
<1>2. CASE plan = DomThenVisual(reason, {x.id}, LayerTransition, {x, LayerTransition})
  <2>d. PICK d, v, y : /\ d = Selection("dom", "required", reason, {x.id})
                       /\ v = Selection("visual", "optional", "grounding", {LayerTransition.id})
                       /\ y = LayerTransition
    OBVIOUS
  <2>1. /\ d.source = "dom" /\ d.requirement = "required" /\ d.needs = {x.id}
        /\ v.source = "visual" /\ v.requirement = "optional"
    BY <2>d DEF Selection
  <2>2. plan = [selections |-> <<d, v>>, needs |-> {x, y}, failure |-> Absent]
    BY <1>2, <2>d DEF DomThenVisual
  <2>3. plan.selections = <<d, v>> /\ plan.needs = {x, y} /\ plan.failure = Absent
    BY ONLY <2>2
  <2>4. DOMAIN plan.selections = {1, 2} /\ plan.selections[1] = d /\ plan.selections[2] = v
    BY ONLY <2>3
  <2>5. /\ "dom" \in Sources(plan.selections) /\ IsRequired(plan, "dom")
        /\ \A src : IsRequired(plan, src) => src = "dom"
    BY ONLY <2>1, <2>4 DEF Sources, IsRequired
  <2>6. \A r \in RequestsOf(plan) : r.source = "dom" => r.needs = {need \in {x, y} : need.id \in {x.id}}
    BY ONLY <2>1, <2>3, <2>4 DEF RequestsOf
  <2>7. {need \in {x, y} : need.id \in {x.id}} = {x}
    BY <2>d
  <2>8. \A r \in RequestsOf(plan) : r.source = "dom" => Need(r) = {x.id}
    BY <2>6, <2>7 DEF Need
  <2> QED  BY <2>3, <2>5, <2>8
<1> QED  BY <1>1, <1>2 DEF SafePlans

\* The route of a plan is one of its sources, if it has one.
LEMMA RouteIs ==
    ASSUME NEW plan, PlanOK(plan)
    PROVE  RouteOf(plan) = Absent \/ IsSource(RouteOf(plan))
PROOF
<1>1. PICK I : plan.selections \in Seq(Entries(I))
  BY DEF PlanOK
<1>2. PICK routes : routes = {plan.selections[i].source : i \in
                                 {j \in DOMAIN plan.selections :
                                     plan.selections[j].reason = "route_source_refresh"}}
  OBVIOUS
<1>3. RouteOf(plan) = IF routes = {} THEN Absent ELSE CHOOSE r \in routes : TRUE
  BY <1>2, Zenon DEF RouteOf, Absent
<1>4. \A i \in DOMAIN plan.selections : plan.selections[i] \in Entries(I)
  BY <1>1
<1>5. \A r \in routes : IsSource(r)
  BY <1>2, <1>4 DEF Entries
<1>6. CASE routes = {}
  BY ONLY <1>3, <1>6
<1>7. CASE routes # {}
  <2>1. (CHOOSE r \in routes : TRUE) \in routes
    BY ONLY <1>7
  <2> QED  BY ONLY <1>3, <1>5, <1>7, <2>1
<1> QED  BY <1>6, <1>7

\* The route of a plan with the structural source alone.
LEMMA DomRoute ==
    ASSUME NEW reason, NEW ids, NEW needs, NEW requested,
           reason = "grounding" \/ (reason = "route_source_refresh" /\ requested = {})
    PROVE  RouteReason(RouteOf(DomOnly(reason, ids, needs)), reason, requested)
PROOF
<1>1. PICK plan, d : plan = DomOnly(reason, ids, needs) /\ d = Selection("dom", "required", reason, ids)
  OBVIOUS
<1>2. plan = [selections |-> <<d>>, needs |-> needs, failure |-> Absent]
  BY <1>1 DEF DomOnly
<1>3. plan.selections = <<d>>
  BY ONLY <1>2
<1>4. DOMAIN plan.selections = {1} /\ plan.selections[1] = d
  BY ONLY <1>3
<1>5. d.source = "dom" /\ d.reason = reason
  BY <1>1 DEF Selection
<1>6. PICK routes : routes = {plan.selections[i].source : i \in
                                 {j \in DOMAIN plan.selections :
                                     plan.selections[j].reason = "route_source_refresh"}}
  OBVIOUS
<1>7. RouteOf(plan) = IF routes = {} THEN Absent ELSE CHOOSE r \in routes : TRUE
  BY <1>6, Zenon DEF RouteOf, Absent
<1>8. CASE reason = "grounding"
  <2>1. routes = {}
    BY ONLY <1>4, <1>5, <1>6, <1>8
  <2>2. RouteOf(plan) = Absent
    BY ONLY <1>7, <2>1
  <2> QED  BY <1>1, <1>8, <2>2 DEF RouteReason
<1>9. CASE reason = "route_source_refresh" /\ requested = {}
  <2>1. routes = {"dom"}
    BY ONLY <1>4, <1>5, <1>6, <1>9
  <2>2. RouteOf(plan) = "dom"
    BY ONLY <1>7, <2>1
  <2> QED  BY <1>1, <1>9, <2>2 DEF RouteReason
<1> QED  BY <1>8, <1>9

\* What was asked for, and what stage one has shown to ask as well.
BaseOf(kind, requested) == IF requested = {} THEN {Lifecycle(kind)} ELSE requested

ResidualOf(offers, requested, layer) ==
    IF /\ layer
       /\ \A need \in requested : need.purpose # "effect"
       /\ \E i \in DOMAIN offers : Satisfies(offers[i], LayerTransition)
    THEN {LayerTransition} ELSE {}

\* The selection after stage one.
StageTwo(offers, kind, needs, residual, route) ==
    Select(offers, kind, needs, route, {need.id : need \in residual}, TRUE)

\* The plan after stage one.
LEMMA AfterBaseline ==
    ASSUME NEW offers, NEW kind, NEW requested, NEW layer, NEW route, NEW prior, NEW acquired,
           NEW residual, residual = ResidualOf(offers, requested, layer)
    PROVE  SelectAfterBaseline(offers, kind, requested, layer, route, prior, acquired) =
             Retained(prior, StageTwo(offers, kind, BaseOf(kind, requested) \cup residual, residual, route),
                      acquired)
PROOF BY DEF SelectAfterBaseline, ResidualOf, BaseOf, StageTwo

\* A plan that keeps the structural source retains nothing else.
LEMMA RetainedSafe ==
    ASSUME NEW prior, \A i \in DOMAIN prior.selections : prior.selections[i].source = "dom",
           NEW refined, "dom" \in Sources(refined.selections), NEW acquired
    PROVE  Retained(prior, refined, acquired) = refined
PROOF
<1>1. {i \in DOMAIN prior.selections :
          prior.selections[i].source \in acquired \ Sources(refined.selections)} = {}
  OBVIOUS
<1> QED  BY <1>1, Zenon DEF Retained

\* What stage one has acquired is asked for besides: still a plan.
LEMMA RetainedPlan ==
    ASSUME NEW prior, PlanOK(prior), Len(prior.selections) = 1,
           NEW refined, PlanOK(refined), NEW acquired, NEW x, x = Retained(prior, refined, acquired)
    PROVE  PlanOK(x)
PROOF
<1> DEFINE kept == {i \in DOMAIN prior.selections :
                       prior.selections[i].source \in acquired \ Sources(refined.selections)}
           order == InOrder(kept, [i \in kept |-> i])
           front == [n \in DOMAIN order |-> prior.selections[order[n]]]
           all == front \o refined.selections
           ids == {need \in prior.needs \cup refined.needs : \E i \in DOMAIN all : need.id \in all[i].needs}
<1>5. x = IF refined.failure # Absent \/ kept = {} THEN refined
          ELSE [refined EXCEPT !.selections = all, !.needs = ids]
  BY Zenon DEF Retained, Absent
<1>2. order = InOrder(kept, [i \in kept |-> i])
  OBVIOUS
<1>1. kept = {i \in DOMAIN prior.selections :
                 prior.selections[i].source \in acquired \ Sources(refined.selections)}
  OBVIOUS
<1>3. front = [n \in DOMAIN order |-> prior.selections[order[n]]]
  OBVIOUS
<1>4. all = front \o refined.selections
  OBVIOUS
<1> HIDE DEF kept, order, front, all, ids
<1>6. CASE x = refined
  BY <1>6
<1>7. CASE kept # {} /\ x = [refined EXCEPT !.selections = all, !.needs = ids]
  <2>1. PICK I, J : prior.selections \in Seq(Entries(I)) /\ refined.selections \in Seq(Entries(J))
    BY DEF PlanOK
  <2>2. PICK K : K = I \cup J
    OBVIOUS
  <2>3. Entries(I) \subseteq Entries(K) /\ Entries(J) \subseteq Entries(K)
    BY <2>2 DEF Entries
  <2>4. DOMAIN prior.selections = {1} /\ prior.selections[1] \in Entries(K)
    BY <2>1, <2>3
  <2>5. kept = {1}
    BY ONLY <1>1, <1>7, <2>4
  <2>6. order \in [1 .. 1 -> {1}] /\ order[1] = 1
    BY <1>2, <2>5, OneInOrder
  <2>7. DOMAIN order = 1 .. 1 /\ order[1] = 1
    BY ONLY <2>6
  <2>8. front \in [1 .. 1 -> Entries(K)] /\ front[1] = prior.selections[1]
    BY ONLY <1>3, <2>4, <2>7
  <2>9. front = <<prior.selections[1]>>
    BY ONLY <2>8
  <2>10. refined.selections \in Seq(Entries(K))
    <3>1. refined.selections \in Seq(Entries(J)) /\ Entries(J) \subseteq Entries(K)
      BY ONLY <2>1, <2>3
    <3> QED  BY ONLY <3>1
  <2>11. PICK ys, y : ys = refined.selections /\ y = prior.selections[1]
    OBVIOUS
  <2>12. PICK zs : zs = all
    OBVIOUS
  <2>13. zs \in Seq(Entries(K)) /\ Len(zs) = 1 + Len(ys) /\ \A i \in 1 .. Len(ys) : zs[1 + i] = ys[i]
    <3>1. zs = <<y>> \o ys /\ ys \in Seq(Entries(K)) /\ y \in Entries(K)
      BY ONLY <1>4, <2>4, <2>9, <2>10, <2>11, <2>12
    <3>2. <<y>> \in Seq(Entries(K)) /\ Len(<<y>>) = 1
      BY ONLY <3>1
    <3>3. zs \in Seq(Entries(K)) /\ Len(zs) = 1 + Len(ys)
      BY ONLY <3>1, <3>2
    <3>4. \A i \in 1 .. Len(ys) : zs[1 + i] = ys[i]
      BY ONLY <3>1, <3>2
    <3> QED  BY <3>3, <3>4
  <2>14. Demands(ys) /\ Len(ys) \in Nat
    BY <2>10, <2>11 DEF PlanOK
  <2>15. Demands(zs)
    <3>1. PICK i \in 1 .. Len(ys) : ys[i].requirement = "required"
      BY ONLY <2>14 DEF Demands
    <3>2. PICK n \in Nat : n = Len(ys)
      BY <2>14
    <3>3. 1 + i \in 1 .. (1 + n)
      BY ONLY <3>1, <3>2
    <3>4. 1 + i \in 1 .. Len(zs)
      BY ONLY <2>13, <3>2, <3>3
    <3> QED  BY ONLY <2>13, <3>1, <3>4 DEF Demands
  <2>16. PICK fl : x = [selections |-> zs, needs |-> ids, failure |-> fl]
    <3>1. PICK xs, needs, failure : refined = [selections |-> xs, needs |-> needs, failure |-> failure]
      BY DEF PlanOK
    <3>2. x = [refined EXCEPT !.selections = zs, !.needs = ids]
      BY ONLY <1>7, <2>12
    <3> QED  BY ONLY <3>1, <3>2
  <2>17. x.selections = zs
    BY ONLY <2>16
  <2> QED  BY ONLY <2>13, <2>15, <2>16, <2>17 DEF PlanOK
<1> QED  BY <1>5, <1>6, <1>7

\* What the loop asks for: what a dispatch demands, or the one query of a policy.
Wanted == VerificationNeeds \cup {{Query(p)} : p \in QueryPurposes}

LookKinds == {"policy", "refresh", "post"}

\* It is one need at most, which has its place in the order of the needs, before
\* what stage one may add if it is not an effect.
WantedBy(x, kind, requested) ==
    /\ BaseOf(kind, requested) = {x} /\ NeedRank[x.id[1]] \in Nat
    /\ x.id # LayerTransition.id
    /\ NeedRank[x.id[1]] < NeedRank[LayerTransition.id[1]] \/ \E need \in requested : need.purpose = "effect"

\* Everything that is asked for is such a need.
LEMMA WantedIs ==
    ASSUME NEW kind \in LookKinds, NEW requested \in Wanted
    PROVE  \E x : WantedBy(x, kind, requested)
PROOF
<1>0. NeedRank["residual"] = 3 /\ NeedRank["lifecycle"] = 1 /\ NeedRank["query"] = 2 /\ NeedRank["verification"] = 4
  BY DEF NeedRank
<1>l. LayerTransition.id = <<"residual", "effect">> /\ LayerTransition.id[1] = "residual"
  BY DEF LayerTransition
<1>1. CASE requested = {}
  <2>1. PICK x : x = Lifecycle(kind)
    OBVIOUS
  <2>2. x.id = <<"lifecycle", kind>>
    BY <2>1 DEF Lifecycle
  <2>3. x.id[1] = "lifecycle" /\ x.id # LayerTransition.id
    BY ONLY <2>2, <1>l
  <2>4. BaseOf(kind, requested) = {x}
    BY <1>1, <2>1 DEF BaseOf
  <2> QED  BY <1>0, <1>l, <2>3, <2>4 DEF WantedBy
<1>2. ASSUME NEW i \in {0, 1}, requested = {Verification(i)}
      PROVE  \E x : WantedBy(x, kind, requested)
  <2>1. PICK x : x = Verification(i)
    OBVIOUS
  <2>2. x.id = <<"verification", i>> /\ x.purpose = "effect"
    BY <2>1 DEF Verification
  <2>3. x.id[1] = "verification" /\ x.id # LayerTransition.id
    BY ONLY <2>2, <1>l
  <2>4. BaseOf(kind, requested) = {x}
    BY <1>2, <2>1 DEF BaseOf
  <2>5. \E need \in requested : need.purpose = "effect"
    BY <1>2, <2>1, <2>2
  <2>6. NeedRank[x.id[1]] \in Nat
    BY <1>0, <2>3
  <2> QED  BY ONLY <2>3, <2>4, <2>5, <2>6 DEF WantedBy
<1>3. ASSUME NEW p \in QueryPurposes, requested = {Query(p)}
      PROVE  \E x : WantedBy(x, kind, requested)
  <2>1. PICK x : x = Query(p)
    OBVIOUS
  <2>2. x.id = <<"query", p>>
    BY <2>1 DEF Query
  <2>3. x.id[1] = "query" /\ x.id # LayerTransition.id
    BY ONLY <2>2, <1>l
  <2>4. BaseOf(kind, requested) = {x}
    BY <1>3, <2>1 DEF BaseOf
  <2> QED  BY <1>0, <1>l, <2>3, <2>4 DEF WantedBy
<1>4. requested = {} \/ (\E i \in {0, 1} : requested = {Verification(i)}) \/ (\E p \in QueryPurposes : requested = {Query(p)})
  BY DEF Wanted, VerificationNeeds
<1> QED  BY <1>1, <1>2, <1>3, <1>4

\* Every plan that an acquisition begins with asks for something.
LEMMA BeginPlan ==
    ASSUME NEW kind \in LookKinds, NEW requested \in Wanted, NEW route,
           route = Absent \/ IsSource(route), NEW then, NEW plan,
           plan = Begin(kind, requested, route, then).plan, plan.failure = Absent
    PROVE  PlanOK(plan)
PROOF
<1>1. PICK offers : offers = Offers
  OBVIOUS
<1>2. OffersOK(offers)
  BY <1>1, OffersAre
<1>3. PICK x : WantedBy(x, kind, requested)
  BY WantedIs
<1>4. PICK optional, there : optional = {} /\ there = FALSE
  OBVIOUS
<1>5. plan = Select(offers, kind, requested, route, optional, there)
  BY <1>1, <1>4 DEF Begin, NoAcquisition
<1>6. PICK open : open = OpenOf(kind, requested, route)
  OBVIOUS
<1>7. (open = {} /\ route # Absent) \/ open = {x}
  <2>1. BaseOf(kind, requested) = {x}
    BY <1>3 DEF WantedBy
  <2>2. CASE requested = {} /\ route # Absent
    BY <1>6, <2>2 DEF OpenOf
  <2>3. CASE ~(requested = {} /\ route # Absent)
    BY <1>6, <2>1, <2>3 DEF OpenOf, BaseOf
  <2> QED  BY <2>2, <2>3
<1>8. NeedRank[x.id[1]] \in Nat /\ x.id \notin optional
  BY <1>3, <1>4 DEF WantedBy
<1>9. Budget = 1 => there = FALSE
  BY <1>4
<1> QED  BY ONLY <1>2, <1>5, <1>6, <1>7, <1>8, <1>9, route = Absent \/ IsSource(route), plan.failure = Absent, SelectionKeeps

\* Stage one is refined only if there is room for one source more.
LEMMA RefineIs ==
    ASSUME NEW a, PlanOK(a.plan), ShouldRefine(a)
    PROVE  /\ Budget = 2 /\ Len(a.plan.selections) = 1 /\ a.round = 1
           /\ "dom" \in DOMAIN a.results /\ a.results["dom"].status = "acquired"
PROOF
<1>1. PICK xs : xs = a.plan.selections
  OBVIOUS
<1>2. PICK I : xs \in Seq(Entries(I))
  BY <1>1 DEF PlanOK
<1>3. Demands(xs)
  BY <1>1 DEF PlanOK
<1>4. PICK n \in Nat : n = Len(xs)
  BY ONLY <1>2
<1>5. 1 .. n # {}
  BY ONLY <1>3, <1>4 DEF Demands
<1>6. n < Budget
  BY <1>1, <1>4 DEF ShouldRefine
<1>7. Budget = 2 /\ n = 1
  BY ONLY <1>5, <1>6, BudgetAssumption
<1> QED  BY <1>1, <1>4, <1>7 DEF ShouldRefine

\* The residual needs come after what was wanted.
LEMMA ResidualIs ==
    ASSUME NEW offers, NEW kind, NEW requested, NEW layer, NEW x, WantedBy(x, kind, requested),
           NEW residual, residual = ResidualOf(offers, requested, layer)
    PROVE  \/ residual = {}
           \/ /\ residual = {LayerTransition} /\ NeedRank[x.id[1]] < NeedRank[LayerTransition.id[1]]
              /\ \E i \in DOMAIN offers : Satisfies(offers[i], LayerTransition)
PROOF BY DEF ResidualOf, WantedBy

\* A refined plan asks for something as well.
LEMMA RefinedPlan ==
    ASSUME NEW a, a.kind \in LookKinds, a.requested \in Wanted, PlanOK(a.plan), ShouldRefine(a),
           NEW r, r = Refined(a), r.failure = Absent
    PROVE  PlanOK(r)
PROOF
<1>1. PICK offers, kind, requested, layer, route, prior, acquired :
        /\ offers = Offers /\ kind = a.kind /\ requested = a.requested /\ layer = a.layer
        /\ route = RouteOf(a.plan) /\ prior = a.plan /\ acquired = DOMAIN a.results
  OBVIOUS
<1>2. r = SelectAfterBaseline(offers, kind, requested, layer, route, prior, acquired)
  BY <1>1 DEF Refined
<1>3. OffersOK(offers)
  BY <1>1, OffersAre
<1>4. PICK x : WantedBy(x, kind, requested)
  BY <1>1, WantedIs
<1>5. PICK residual : residual = ResidualOf(offers, requested, layer)
  OBVIOUS
<1>6. PICK needs, optional, there :
        /\ needs = BaseOf(kind, requested) \cup residual
        /\ optional = {need.id : need \in residual} /\ there = TRUE
  OBVIOUS
<1>t. PICK refined : refined = StageTwo(offers, kind, BaseOf(kind, requested) \cup residual, residual, route)
  OBVIOUS
<1>7. refined = Select(offers, kind, needs, route, optional, there)
  BY <1>6, <1>t DEF StageTwo
<1>8. r = Retained(prior, refined, acquired)
  BY ONLY <1>2, <1>5, <1>t, AfterBaseline
<1>9. Budget = 2 /\ Len(prior.selections) = 1
  BY <1>1, RefineIs
<1>10. refined.failure = Absent
  <2>1. CASE refined.failure # Absent
    <3>1. r = refined
      BY <1>8, <2>1, Zenon DEF Retained, Absent
    <3> QED  BY <2>1, <3>1
  <2> QED  BY <2>1
<1>11. PICK y : y = LayerTransition
  OBVIOUS
<1>12. BaseOf(kind, requested) = {x} /\ NeedRank[x.id[1]] \in Nat /\ x.id # y.id
  BY <1>4, <1>11 DEF WantedBy
<1>13. residual = {} \/ (residual = {y} /\ NeedRank[x.id[1]] < NeedRank[y.id[1]])
  BY <1>4, <1>5, <1>11, ResidualIs
<1>14. needs = {x} \/ (needs = {x, y} /\ NeedRank[x.id[1]] < NeedRank[y.id[1]])
  BY ONLY <1>6, <1>12, <1>13
<1>15. x.id \notin optional
  BY ONLY <1>6, <1>12, <1>13
<1>16. NeedRank[y.id[1]] \in Nat
  BY <1>11 DEF LayerTransition, NeedRank
<1>17. PICK open : open = OpenOf(kind, needs, route)
  OBVIOUS
<1>18. open = needs
  BY <1>14, <1>17 DEF OpenOf
<1>19. route = Absent \/ IsSource(route)
  BY <1>1, RouteIs
<1>20. Budget = 1 => there = FALSE
  BY ONLY <1>9
<1>21. PlanOK(refined)
  <2>1. \/ open = {} /\ route # Absent
        \/ open = {x}
        \/ open = {x, y} /\ NeedRank[x.id[1]] < NeedRank[y.id[1]]
    BY ONLY <1>14, <1>18
  <2> QED  BY ONLY <1>3, <1>7, <1>10, <1>12, <1>15, <1>16, <1>17, <1>19, <1>20, <2>1, SelectionKeeps
<1> QED  BY <1>1, <1>8, <1>9, <1>21, RetainedPlan

\* An acquisition that closes a dispatch in its first round.
SafeStart(a, reason) ==
    /\ a.kind = "post" /\ a.requested \in VerificationNeeds
    /\ reason = "grounding" \/ (reason = "route_source_refresh" /\ a.requested = {})
    /\ a.plan = DomOnly(reason, {Sole(a.requested).id}, {Sole(a.requested)})

\* Its refined plan asks the structural source, and perhaps to look.
LEMMA RefinedSafe ==
    ASSUME NEW a, NEW reason, SafeStart(a, reason), Budget = 2, NEW r, r = Refined(a)
    PROVE  r \in SafePlans(reason, Sole(a.requested))
PROOF
<1>1. PICK offers, requested, layer, route, prior, acquired :
        /\ offers = Offers /\ requested = a.requested /\ layer = a.layer
        /\ route = RouteOf(a.plan) /\ prior = a.plan /\ acquired = DOMAIN a.results
  OBVIOUS
<1>2. r = SelectAfterBaseline(offers, "post", requested, layer, route, prior, acquired)
  BY <1>1 DEF Refined, SafeStart
<1>3. OffersOK(offers)
  BY <1>1, OffersAre
<1>4. PICK x : x = Sole(requested)
  OBVIOUS
<1>5. PICK residual : residual = ResidualOf(offers, requested, layer)
  OBVIOUS
<1>t. PICK refined : refined = StageTwo(offers, "post", BaseOf("post", requested) \cup residual, residual, route)
  OBVIOUS
<1>7. requested \in VerificationNeeds /\ prior = DomOnly(reason, {x.id}, {x})
      /\ (reason = "grounding" \/ (reason = "route_source_refresh" /\ requested = {}))
  BY <1>1, <1>4 DEF SafeStart
<1>8. BaseOf("post", requested) = {x}
  <2>1. OpenOf("post", requested, Absent) = {x}
    BY <1>4, <1>7, SoleIs
  <2> QED  BY <2>1 DEF OpenOf, BaseOf
<1>6. refined = Select(offers, "post", {x} \cup residual, route, {need.id : need \in residual}, TRUE)
  BY <1>t, <1>8 DEF StageTwo
<1>9. r = Retained(prior, refined, acquired)
  <2>1. PICK kind : kind = "post"
    OBVIOUS
  <2>2. refined = StageTwo(offers, kind, BaseOf(kind, requested) \cup residual, residual, route)
    BY ONLY <1>t, <2>1
  <2>3. r = SelectAfterBaseline(offers, kind, requested, layer, route, prior, acquired)
    BY ONLY <1>2, <2>1
  <2> QED  BY ONLY <2>2, <2>3, <1>5, AfterBaseline
<1>10. RouteReason(route, reason, requested)
  BY <1>1, <1>7, DomRoute
<1>11. \/ residual = {}
       \/ /\ residual = {LayerTransition} /\ requested = {}
          /\ \E i \in DOMAIN offers : Satisfies(offers[i], LayerTransition)
  <2>1. requested = {} \/ \E need \in requested : need.purpose = "effect"
    BY <1>7 DEF VerificationNeeds, Verification
  <2> QED  BY <1>5, <2>1 DEF ResidualOf
<1>12. refined \in SafePlans(reason, x)
  BY <1>3, <1>4, <1>6, <1>7, <1>10, <1>11, SafeSelection
<1>13. "dom" \in Sources(refined.selections)
  <2>1. reason \in SelectionReasons /\ x.id # LayerTransition.id
    BY <1>4, <1>7, SoleIs DEF SelectionReasons
  <2> QED  BY <1>12, <2>1, SafePlanIs
<1>14. \A i \in DOMAIN prior.selections : prior.selections[i].source = "dom"
  BY <1>7 DEF DomOnly, Selection
<1>15. r = refined
  BY <1>9, <1>13, <1>14, RetainedSafe
<1> QED  BY <1>1, <1>4, <1>12, <1>15

\* A selection that has not failed is chosen without a failure.
LEMMA ChosenFailure ==
    ASSUME NEW offers, NEW s, NEW xs, NEW needs,
           s = [selections |-> xs, needs |-> needs, failure |-> Absent]
    PROVE  Chosen(offers, s).failure = Absent
PROOF
<1>1. s.failure = Absent
  OBVIOUS
<1>2. PICK ys : ys = InOfferOrder(offers, s.selections)
  OBVIOUS
<1>3. Chosen(offers, s) = [s EXCEPT !.selections = ys]
  BY <1>1, <1>2, Zenon DEF Chosen
<1> QED  BY ONLY <1>3, s = [selections |-> xs, needs |-> needs, failure |-> Absent]

\* What answers one more need does not fail by it.
LEMMA ExtendedFailure ==
    ASSUME NEW s, NEW xs, NEW needs, NEW failure,
           s = [selections |-> xs, needs |-> needs, failure |-> failure],
           NEW i, NEW need, NEW requirement, NEW r, r = Extended(s, i, need, requirement)
    PROVE  \E ys : r = [selections |-> ys, needs |-> needs, failure |-> failure]
PROOF
<1>1. \E ys, zs : r = [[s EXCEPT !.selections = ys] EXCEPT !.selections = zs]
  <2> DEFINE t == [s EXCEPT !.selections[i].needs = @ \cup {need.id}]
  <2>1. \E ys : t = [s EXCEPT !.selections = ys]
    BY Zenon
  <2>2. \E zs : r = [t EXCEPT !.selections = zs]
    BY Zenon DEF Extended
  <2> HIDE DEF t
  <2> QED  BY ONLY <2>1, <2>2
<1> QED  BY ONLY <1>1, s = [selections |-> xs, needs |-> needs, failure |-> failure]

\* A selection that has not failed.
NotFailed(r) == \E ys, nd : r = [selections |-> ys, needs |-> nd, failure |-> Absent]

\* What a dispatch demands can be answered: by its own source, or by the
\* structural one besides.
LEMMA RoutedAnswers ==
    ASSUME NEW offers, OffersOK(offers), DOMAIN offers = {1, 2}, NEW src, IsSource(src),
           NEW v, Satisfies(Structural, v), NEW optional, NEW there, NEW needs,
           NEW x, x.source = src, NEW xs, xs = <<x>>,
           NEW s, s = [selections |-> xs, needs |-> needs, failure |-> Absent],
           NEW r, r = Resolved(s, offers, v, optional, there)
    PROVE  NotFailed(r)
PROOF
<1>2. s.failure = Absent /\ s.selections = <<x>> /\ x.source = src
  OBVIOUS
<1>3. DOMAIN s.selections = {1} /\ s.selections[1] = x /\ Len(s.selections) = 1
  BY ONLY <1>2
<1>4. CASE HoldersOf(s, offers, v) # {}
  <2>1. r = Extended(s, Min(HoldersOf(s, offers, v)), v, RequirementOf(v, optional))
    BY <1>2, <1>4, ResolvedByHolder
  <2>2. PICK i, requirement : i = Min(HoldersOf(s, offers, v)) /\ requirement = RequirementOf(v, optional)
    OBVIOUS
  <2>3. r = Extended(s, i, v, requirement)
    BY ONLY <2>1, <2>2
  <2>5. s = [selections |-> xs, needs |-> needs, failure |-> Absent]
    OBVIOUS
  <2>6. PICK none : none = Absent
    OBVIOUS
  <2>7. \E ys : r = [selections |-> ys, needs |-> needs, failure |-> none]
    BY ONLY <2>3, <2>5, <2>6, ExtendedFailure
  <2> QED  BY ONLY <2>6, <2>7 DEF NotFailed
<1>5. CASE HoldersOf(s, offers, v) = {}
  <2>1. DomFirst(offers)
    BY OffersGive
  <2>2. src = "visual" /\ Budget = 2
    <3>1. ~Satisfies(OfferOf(offers, src), v)
      BY <1>2, <1>3, <1>5 DEF HoldersOf
    <3>2. src # "dom"
      BY <2>1, <3>1 DEF DomFirst
    <3>3. src \in {"dom", "visual"} /\ (Budget = 1 => src = "dom")
      BY DEF IsSource
    <3> QED  BY ONLY <3>2, <3>3, BudgetAssumption
  <2>3. offers[1] = Structural /\ Structural.modality = "structural" /\ Structural.source = "dom"
    BY <2>1 DEF DomFirst, OffersOK
  <2>4. 1 \in AdequateOf(offers, v)
    BY <2>3 DEF AdequateOf
  <2>5. ~NeedsBaseline(s, offers, AdequateOf(offers, v), there)
    BY <2>3, <2>4 DEF NeedsBaseline
  <2>6. PICK unused : unused = UnusedOf(AdequateOf(offers, v), s, offers)
    OBVIOUS
  <2>7. Sources(s.selections) = {"visual"}
    BY <1>2, <1>3, <2>2 DEF Sources
  <2>8. unused \in SUBSET {1, 2} /\ 1 \in unused
    BY <2>3, <2>4, <2>6, <2>7 DEF UnusedOf, AdequateOf
  <2>9. Min(unused) = 1
    BY <2>8, FirstIsLeast
  <2>10. PICK y : y = Selection("dom", RequirementOf(v, optional), "grounding", {v.id})
    OBVIOUS
  <2>11. r = Add(s, y)
    <3>1. Resolved(s, offers, v, optional, there) =
             Add(s, Selection(offers[Min(unused)].source, RequirementOf(v, optional), "grounding", {v.id}))
      BY ONLY <1>2, <1>5, <2>5, <2>6, <2>8, ResolvedByOther
    <3> QED  BY <2>3, <2>9, <2>10, <3>1
  <2>12. y.source = "dom"
    BY <2>10 DEF Selection
  <2>14. s = [selections |-> xs, needs |-> needs, failure |-> Absent]
    OBVIOUS
  <2>15. y.source \notin Sources(xs) /\ Len(xs) \in Nat /\ Len(xs) < Budget
    BY <1>2, <1>3, <2>2, <2>7, <2>12
  <2>16. Add(s, y) = [selections |-> Append(xs, y), needs |-> needs, failure |-> Absent]
    BY ONLY <2>14, <2>15, AddIs
  <2> QED  BY ONLY <2>11, <2>16 DEF NotFailed
<1> QED  BY <1>4, <1>5

\* In gym the acquisition after a sent dispatch never lacks a plan.
LEMMA PostPlan ==
    ASSUME deployment = "gym", NEW requested \in VerificationNeeds, NEW src, IsSource(src), NEW then
    PROVE  Begin("post", requested, src, then).plan.failure = Absent
PROOF
<1>1. PICK offers : offers = Offers
  OBVIOUS
<1>2. OffersOK(offers)
  BY <1>1, OffersAre
<1>3. DOMAIN offers = {1, 2}
  BY <1>1 DEF Offers
<1>4. src # Absent /\ src \in Sources(offers)
  <2>1. DomFirst(offers) /\ 1 \in DOMAIN offers /\ 2 \in DOMAIN offers
    BY <1>2, <1>3, OffersGive
  <2>2. offers[1].source = "dom" /\ offers[2].source = "visual"
    BY <2>1 DEF DomFirst
  <2>3. Sources(offers) = {offers[i].source : i \in {1, 2}}
    BY <1>3 DEF Sources
  <2>4. src \in Sources(offers)
    BY <2>2, <2>3 DEF IsSource
  <2>5. src # Absent
    BY DEF IsSource, Absent
  <2> QED  BY <2>4, <2>5
<1>5. PICK kind, optional, there : kind = "post" /\ optional = {} /\ there = FALSE
  OBVIOUS
<1>6. Begin("post", requested, src, then).plan = Select(offers, kind, requested, src, optional, there)
  BY <1>1, <1>5 DEF Begin, NoAcquisition
<1>7. PICK ids, needs : ids = {Lifecycle(kind).id} /\ needs = {Lifecycle(kind)} \cup requested
  OBVIOUS
<1>8. PICK start : start = StartOf(offers, kind, requested, src)
  OBVIOUS
<1>9. start = [selections |-> <<Selection(src, "required", "route_source_refresh", ids)>>,
               needs |-> needs, failure |-> Absent]
  BY <1>4, <1>7, <1>8 DEF StartOf
<1>10. OpenOf(kind, requested, src) = requested
  BY <1>4 DEF OpenOf
<1>11. CASE requested = {}
  <2>1. Select(offers, kind, requested, src, optional, there) = Chosen(offers, start)
    BY <1>8, <1>10, <1>11, SelectNone
  <2> QED  BY <1>6, <1>9, <2>1, ChosenFailure
<1>12. CASE requested # {}
  <2>1. PICK v : requested = {v}
    BY <1>12 DEF VerificationNeeds
  <2>2. Sole(requested) = v
    BY <2>1 DEF Sole
  <2>3. NeedRank[v.id[1]] \in Nat /\ Satisfies(Structural, v)
    BY <2>2, SoleIs
  <2>4. PICK one : one = Resolved(start, offers, v, optional, there)
    OBVIOUS
  <2>5. Select(offers, kind, requested, src, optional, there) = Chosen(offers, one)
    <3>1. OpenOf(kind, requested, src) = {v}
      BY <1>10, <2>1
    <3> QED  BY ONLY <1>8, <2>3, <2>4, <3>1, SelectOne
  <2>6. NotFailed(one)
    <3>1. PICK x : x = Selection(src, "required", "route_source_refresh", ids)
      OBVIOUS
    <3>2. PICK xs : xs = <<x>>
      OBVIOUS
    <3>3. start = [selections |-> xs, needs |-> needs, failure |-> Absent] /\ x.source = src
      BY <1>9, <3>1, <3>2 DEF Selection
    <3> QED  BY ONLY <1>2, <1>3, IsSource(src), <2>3, <2>4, <3>2, <3>3, RoutedAnswers
  <2>7. Chosen(offers, one).failure = Absent
    BY <2>6, ChosenFailure DEF NotFailed
  <2> QED  BY <1>6, <2>5, <2>7
<1> QED  BY <1>11, <1>12

-----------------------------------------------------------------------------
(* What a round tells of the sources that it asks.                         *)

SourcesOf(requests) == {r.source : r \in requests}

\* A source speaks for itself, if it has anything to say.
Speaks(results) ==
    \A src \in DOMAIN results : results[src].status = "acquired" => results[src].obs.source = src

Told(results, requests) == DOMAIN results = SourcesOf(requests) /\ Speaks(results)

\* A round asks sources, and those of the plan that have not been asked.
LEMMA AskedIs ==
    ASSUME NEW a, PlanOK(a.plan)
    PROVE  /\ \A r \in Asked(a) : IsSource(r.source)
           /\ \A src \in Sources(a.plan.selections) : src \in SourcesOf(Asked(a)) \/ src \in DOMAIN a.results
           /\ SourcesOf(Asked(a)) \subseteq Sources(a.plan.selections)
PROOF
<1>1. PICK plan, I : plan = a.plan /\ plan.selections \in Seq(Entries(I))
  BY DEF PlanOK
<1>e. \A i \in DOMAIN plan.selections : plan.selections[i] \in Entries(I)
  BY <1>1
<1>2. \A i \in DOMAIN plan.selections : IsSource(plan.selections[i].source)
  BY <1>e DEF Entries
<1>3. \A r \in RequestsOf(plan) : \E i \in DOMAIN plan.selections : r.source = plan.selections[i].source
  BY DEF RequestsOf
<1>4. ASSUME NEW i \in DOMAIN plan.selections
      PROVE  \E r \in RequestsOf(plan) : r.source = plan.selections[i].source
  <2>1. PICK r : r = [source |-> plan.selections[i].source,
                      needs |-> {need \in plan.needs : need.id \in plan.selections[i].needs}]
    OBVIOUS
  <2>2. r \in RequestsOf(plan)
    BY <2>1 DEF RequestsOf
  <2>3. r.source = plan.selections[i].source
    BY ONLY <2>1
  <2> QED  BY <2>2, <2>3
<1>5. Asked(a) \subseteq RequestsOf(plan)
  BY <1>1 DEF Asked
<1>6. \A r \in RequestsOf(plan) : r \in Asked(a) \/ r.source \in DOMAIN a.results
  BY <1>1 DEF Asked
<1>7. \A src \in Sources(plan.selections) : \E r \in RequestsOf(plan) : r.source = src
  BY <1>4 DEF Sources
<1>8. \A r \in Asked(a) : IsSource(r.source) /\ r.source \in Sources(plan.selections)
  BY <1>2, <1>3, <1>5 DEF Sources
<1> QED  BY <1>1, <1>6, <1>7, <1>8 DEF SourcesOf

\* A round that failed tells nothing.
LEMMA FailTold ==
    ASSUME NEW requests, NEW status \in {"failed", "unavailable"}
    PROVE  /\ Told(AllFail(requests, status), requests)
           /\ \A src \in SourcesOf(requests) : AllFail(requests, status)[src].status = status
PROOF
<1>1. PICK f : f = AllFail(requests, status)
  OBVIOUS
<1>2. DOMAIN f = SourcesOf(requests)
  BY <1>1 DEF AllFail, SourcesOf
<1>3. \A src \in DOMAIN f : f[src].status = status
  BY <1>1 DEF AllFail, SourceResult
<1>4. status # "acquired"
  OBVIOUS
<1> QED  BY <1>1, <1>2, <1>3, <1>4 DEF Told, Speaks

\* One result, and one over another.
Single(f, src, x) == Speaks(f) /\ DOMAIN f = {src} /\ f[src] = x

Laid(h, f, g) ==
    /\ Speaks(f) /\ Speaks(g) => Speaks(h)
    /\ DOMAIN h = DOMAIN f \cup DOMAIN g
    /\ \A src \in DOMAIN f : h[src] = f[src]
    /\ \A src \in DOMAIN g : src \notin DOMAIN f => h[src] = g[src]

\* The result of one source speaks for it.
LEMMA OnlySpeaks ==
    ASSUME NEW src, NEW x, x.status = "acquired" => x.obs.source = src
    PROVE  Single(Only(src, x), src, x)
PROOF BY DEF Speaks, Only, Single

\* The results of two are those of both.
LEMMA OverSpeaks ==
    ASSUME NEW f, NEW g
    PROVE  Laid(Over(f, g), f, g)
PROOF BY DEF Over, Speaks, Laid

\* What becomes of a frame: every source that is asked has a result of its own.
LEMMA ProjectedTold ==
    ASSUME NEW requests, SourcesOf(requests) \subseteq {"dom", "visual"},
           NEW frame, NEW structured, NEW outcome \in Projected(requests, frame, structured)
    PROVE  Told(outcome.results, requests)
PROOF
<1>1. PICK visual : visual = RequestOf(requests, "visual")
  OBVIOUS
<1>2. PICK domain : domain = IF Asks(requests, "dom")
                     THEN Only("dom", DomResult(RequestOf(requests, "dom"), frame)) ELSE <<>>
  OBVIOUS
<1>3. /\ Asks(requests, "dom") <=> "dom" \in SourcesOf(requests)
      /\ Asks(requests, "visual") <=> "visual" \in SourcesOf(requests)
  BY DEF Asks, SourcesOf
<1>4. /\ DOMAIN domain = IF "dom" \in SourcesOf(requests) THEN {"dom"} ELSE {}
      /\ Speaks(domain)
  <2>1. DomResult(RequestOf(requests, "dom"), frame).obs.source = "dom"
    BY DEF DomResult, SourceResult, Obs
  <2>2. CASE Asks(requests, "dom")
    <3>1. PICK d, x, src : d = Only(src, x) /\ x = DomResult(RequestOf(requests, "dom"), frame) /\ src = "dom"
      OBVIOUS
    <3>2. Single(d, src, x)
      BY <2>1, <3>1, OnlySpeaks
    <3>3. Speaks(d) /\ DOMAIN d = {"dom"} /\ domain = d
      BY <1>2, <2>2, <3>1, <3>2 DEF Single
    <3> QED  BY <1>3, <2>2, <3>3
  <2>3. CASE ~Asks(requests, "dom")
    BY <1>2, <1>3, <2>3 DEF Speaks
  <2> QED  BY <2>2, <2>3
<1>5. \A x \in VisualResults(visual, frame) : x.obs.source = "visual"
  BY DEF VisualResults, SourceResult, Obs
<1>6. \A status, q :
          /\ SourceResult(visual, status, {}, NoBinding).status = status
          /\ [SourceResult(visual, status, {}, NoBinding) EXCEPT !.query = q].status = status
  BY DEF SourceResult
<1>7. \/ ~Asks(requests, "visual") /\ outcome = Reading(domain, FALSE, FALSE)
      \/ \E faulty : outcome = Reading(AllFail(requests, "failed"), faulty, FALSE)
      \/ Asks(requests, "visual") /\ \E x \in VisualResults(visual, frame) :
              outcome = Reading(Over(domain, Only("visual", x)), FALSE, FALSE)
      \/ Asks(requests, "visual") /\ \E q : outcome =
              Reading(Over(domain, Only("visual",
                 [SourceResult(visual, "failed", {}, NoBinding) EXCEPT !.query = q])), TRUE, FALSE)
      \/ Asks(requests, "visual") /\ outcome = Reading(Over(domain, Only("visual",
                 SourceResult(visual, "unavailable", {}, NoBinding))), FALSE, FALSE)
  BY <1>1, <1>2 DEF Projected
<1>8. \A f, faulty, layer : Reading(f, faulty, layer).results = f
  BY DEF Reading
<1>9. CASE ~Asks(requests, "visual") /\ outcome = Reading(domain, FALSE, FALSE)
  <2>1. DOMAIN domain = SourcesOf(requests)
    BY <1>3, <1>4, <1>9
  <2> QED  BY <1>4, <1>8, <1>9, <2>1 DEF Told
<1>10. CASE \E faulty : outcome = Reading(AllFail(requests, "failed"), faulty, FALSE)
  <2>1. PICK faulty, status : outcome = Reading(AllFail(requests, status), faulty, FALSE) /\ status = "failed"
    BY <1>10
  <2>2. Told(AllFail(requests, status), requests)
    BY <2>1, FailTold
  <2> QED  BY <1>8, <2>1, <2>2
<1>11. ASSUME NEW x, x.status = "acquired" => x.obs.source = "visual", Asks(requests, "visual"),
              NEW g, g = Only("visual", x), outcome.results = Over(domain, g)
       PROVE  Told(outcome.results, requests)
  <2>1. Speaks(g) /\ DOMAIN g = {"visual"}
    BY <1>11, OnlySpeaks DEF Single
  <2>2. DOMAIN outcome.results = DOMAIN domain \cup {"visual"} /\ Speaks(outcome.results)
    <3>1. Laid(outcome.results, domain, g)
      BY <1>11, OverSpeaks
    <3> QED  BY ONLY <3>1, <2>1, <1>4 DEF Laid
  <2>3. DOMAIN outcome.results = SourcesOf(requests)
    BY <1>3, <1>4, <1>11, <2>2
  <2> QED  BY <2>2, <2>3 DEF Told
<1>12. CASE Asks(requests, "visual") /\ \E x \in VisualResults(visual, frame) :
              outcome = Reading(Over(domain, Only("visual", x)), FALSE, FALSE)
  <2>1. PICK x, g, faulty, layer : /\ x \in VisualResults(visual, frame)
                    /\ outcome = Reading(Over(domain, g), faulty, layer) /\ g = Only("visual", x)
    BY <1>12
  <2>2. outcome.results = Over(domain, g) /\ x.obs.source = "visual"
    BY <1>5, <1>8, <2>1
  <2> QED  BY <1>11, <1>12, <2>1, <2>2
<1>13. CASE Asks(requests, "visual") /\ \E q : outcome =
              Reading(Over(domain, Only("visual",
                 [SourceResult(visual, "failed", {}, NoBinding) EXCEPT !.query = q])), TRUE, FALSE)
  <2>1. PICK q, x, g, faulty, layer :
           /\ x = [SourceResult(visual, "failed", {}, NoBinding) EXCEPT !.query = q]
           /\ outcome = Reading(Over(domain, g), faulty, layer) /\ g = Only("visual", x)
    BY <1>13
  <2>2. x.status # "acquired" /\ outcome.results = Over(domain, g)
    <3>1. x.status = "failed"
      BY ONLY <1>6, <2>1
    <3>2. outcome.results = Over(domain, g)
      BY ONLY <1>8, <2>1
    <3> QED  BY ONLY <3>1, <3>2
  <2> QED  BY <1>11, <1>13, <2>1, <2>2
<1>14. CASE Asks(requests, "visual") /\ outcome = Reading(Over(domain, Only("visual",
                 SourceResult(visual, "unavailable", {}, NoBinding))), FALSE, FALSE)
  <2>1. PICK x, g, faulty, layer :
           /\ x = SourceResult(visual, "unavailable", {}, NoBinding)
           /\ outcome = Reading(Over(domain, g), faulty, layer) /\ g = Only("visual", x)
    BY <1>14
  <2>2. x.status # "acquired" /\ outcome.results = Over(domain, g)
    <3>1. x.status = "unavailable"
      BY ONLY <1>6, <2>1
    <3>2. outcome.results = Over(domain, g)
      BY ONLY <1>8, <2>1
    <3> QED  BY ONLY <3>1, <3>2
  <2> QED  BY <1>11, <1>14, <2>1, <2>2
<1> QED  BY ONLY <1>7, <1>9, <1>10, <1>12, <1>13, <1>14

\* The structural source, asked alone, shows all it is asked for.
DomShown(results, ids) ==
    /\ DOMAIN results = {"dom"} /\ results["dom"].status = "acquired"
    /\ results["dom"].needs = ids /\ results["dom"].obs.source = "dom"

\* It tells so of every frame.
LEMMA DomTold ==
    ASSUME NEW x, NEW request, request = [source |-> "dom", needs |-> {x}],
           NEW requests, requests = {request}, NEW frame, NEW structured,
           NEW outcome \in Projected(requests, frame, structured)
    PROVE  DomShown(outcome.results, {x.id})
PROOF
<1>1. request.source = "dom" /\ request.needs = {x}
  OBVIOUS
<1>2. Asks(requests, "dom") /\ ~Asks(requests, "visual") /\ RequestOf(requests, "dom") = request
  BY <1>1 DEF Asks, RequestOf
<1>3. PICK result : result = DomResult(request, frame)
  OBVIOUS
<1>4. outcome = Reading(Only("dom", result), FALSE, FALSE)
  BY <1>2, <1>3 DEF Projected
<1>5. outcome.results = Only("dom", result)
  BY <1>4 DEF Reading
<1>6. result.status = "acquired" /\ result.needs = Need(request) /\ result.obs.source = "dom"
  BY <1>3 DEF DomResult, SourceResult, Obs
<1>7. Need(request) = {x.id}
  BY <1>1 DEF Need
<1>8. PICK src : src = "dom"
  OBVIOUS
<1>9. Single(Only(src, result), src, result)
  BY ONLY <1>6, <1>8, OnlySpeaks
<1> QED  BY ONLY <1>5, <1>6, <1>7, <1>8, <1>9 DEF DomShown, Single

-----------------------------------------------------------------------------
(* The rounds of an acquisition.                                           *)

Grounded(results) ==
    \A src \in DOMAIN results : results[src].status = "acquired" => IsSource(results[src].obs.source)

\* An acquisition has a plan that asks for something, and what it has shows sources.
LookOK(a) ==
    /\ a.kind \in LookKinds /\ a.requested \in Wanted
    /\ PlanOK(a.plan) /\ a.plan.failure = Absent
    /\ a.round \in {1, 2} /\ (a.round = 1 => a.results = <<>>) /\ (Budget = 1 => a.round = 1)
    /\ Grounded(a.results)

\* The structural source has answered, and nothing else is required.
DomHeld(a) ==
    /\ "dom" \in DOMAIN a.results /\ a.results["dom"].status = "acquired"
    /\ \A src : IsRequired(a.plan, src) => src = "dom"

\* An acquisition that closes a dispatch lacks nothing but the structural source.
Safe(a) ==
    IF a.round = 1 THEN a.results = <<>> /\ \E reason : SafeStart(a, reason)
    ELSE DomHeld(a) /\ \A r \in Asked(a) : r.source # "dom"

\* An acquisition with the results of a round, and with a plan for the next one.
RoundOf(b, a, results) ==
    /\ b.kind = a.kind /\ b.requested = a.requested /\ b.plan = a.plan /\ b.round = a.round
    /\ b.results = Over(results, a.results)

NextOf(next, b) ==
    /\ next.kind = b.kind /\ next.requested = b.requested /\ next.plan = Refined(b)
    /\ next.round = 2 /\ next.results = b.results

\* A plan whose required sources have all come shows a world.
LEMMA PlanShows ==
    ASSUME NEW plan, PlanOK(plan), NEW results, Sources(plan.selections) \subseteq DOMAIN results,
           RequiredAcquired(plan, results)
    PROVE  World(results) # {}
PROOF
<1>1. PICK I : plan.selections \in Seq(Entries(I)) /\ Demands(plan.selections)
  BY DEF PlanOK
<1>2. PICK i \in DOMAIN plan.selections : plan.selections[i].requirement = "required"
  BY <1>1 DEF Demands
<1>3. PICK src : src = plan.selections[i].source
  OBVIOUS
<1>4. src \in DOMAIN results /\ IsRequired(plan, src)
  BY <1>2, <1>3 DEF Sources, IsRequired
<1>5. results[src].status = "acquired"
  BY <1>4 DEF RequiredAcquired
<1> QED  BY <1>4, <1>5 DEF World

\* A round leaves no source of its plan unanswered.
LEMMA RoundLooks ==
    ASSUME NEW a, LookOK(a), NEW results, Told(results, Asked(a)), NEW b, RoundOf(b, a, results)
    PROVE  Grounded(b.results) /\ Sources(b.plan.selections) \subseteq DOMAIN b.results
PROOF
<1>1. PICK f : f = a.results
  OBVIOUS
<1>2. Laid(b.results, results, f)
  BY <1>1, OverSpeaks DEF RoundOf
<1>3. PlanOK(a.plan) /\ Grounded(f)
  BY <1>1 DEF LookOK
<1>4. /\ \A r \in Asked(a) : IsSource(r.source)
      /\ \A src \in Sources(a.plan.selections) : src \in SourcesOf(Asked(a)) \/ src \in DOMAIN f
  BY <1>1, <1>3, AskedIs
<1>5. \A src \in DOMAIN results : IsSource(src)
  BY <1>4 DEF Told, SourcesOf
<1>6. ASSUME NEW src \in DOMAIN b.results, b.results[src].status = "acquired"
      PROVE  IsSource(b.results[src].obs.source)
  <2>1. CASE src \in DOMAIN results
    BY <1>2, <1>5, <1>6, <2>1 DEF Laid, Told, Speaks
  <2>2. CASE src \notin DOMAIN results
    BY <1>2, <1>3, <1>6, <2>2 DEF Laid, Grounded
  <2> QED  BY <2>1, <2>2
<1>7. Sources(b.plan.selections) \subseteq DOMAIN b.results
  BY <1>2, <1>4 DEF Told, Laid, RoundOf
<1> QED  BY <1>6, <1>7 DEF Grounded

\* A refined plan is a plan as well, and one that asks nothing new has its answers.
LEMMA NextLooks ==
    ASSUME NEW a, LookOK(a), NEW b, NEW results, RoundOf(b, a, results), Grounded(b.results),
           ShouldRefine(b), NEW next, NextOf(next, b), next.plan.failure = Absent
    PROVE  /\ LookOK(next)
           /\ Asked(next) = {} => Sources(next.plan.selections) \subseteq DOMAIN next.results
PROOF
<1>1. b.kind \in LookKinds /\ b.requested \in Wanted /\ PlanOK(b.plan)
  BY DEF LookOK, RoundOf
<1>2. PlanOK(next.plan)
  BY <1>1, RefinedPlan DEF NextOf
<1>3. Budget = 2
  BY <1>1, RefineIs
<1>4. LookOK(next)
  BY <1>1, <1>2, <1>3 DEF LookOK, NextOf
<1>5. \A src \in Sources(next.plan.selections) : src \in SourcesOf(Asked(next)) \/ src \in DOMAIN next.results
  BY <1>2, AskedIs
<1> QED  BY <1>4, <1>5 DEF SourcesOf

\* What is required of an acquisition that holds the structural source has come.
LEMMA HeldIsAcquired ==
    ASSUME NEW a, DomHeld(a)
    PROVE  RequiredAcquired(a.plan, a.results) /\ World(a.results) # {}
PROOF BY DEF DomHeld, RequiredAcquired, World

\* A round of an acquisition that closes a dispatch brings the structural source,
\* or keeps it.
LEMMA SafeRound ==
    ASSUME NEW a, Safe(a), NEW results, Told(results, Asked(a)),
           a.round = 1 => DomShown(results, {Sole(a.requested).id}),
           NEW b, RoundOf(b, a, results)
    PROVE  DomHeld(b)
PROOF
<1>1. PICK f : f = a.results
  OBVIOUS
<1>2. Laid(b.results, results, f)
  BY <1>1, OverSpeaks DEF RoundOf
<1>3. CASE a.round = 1
  <2>1. PICK reason, x : SafeStart(a, reason) /\ x = Sole(a.requested)
    BY <1>3 DEF Safe
  <2>2. DOMAIN results = {"dom"} /\ results["dom"].status = "acquired"
    BY <1>3 DEF DomShown
  <2>3. "dom" \in DOMAIN b.results /\ b.results["dom"].status = "acquired"
    BY <1>2, <2>2 DEF Laid
  <2>4. b.plan = DomOnly(reason, {x.id}, {x})
    BY <2>1 DEF SafeStart, RoundOf
  <2>5. \A src : IsRequired(b.plan, src) => src = "dom"
    BY <2>4 DEF IsRequired, DomOnly, Selection
  <2> QED  BY <2>3, <2>5 DEF DomHeld
<1>4. CASE a.round # 1
  <2>1. DomHeld(a) /\ \A r \in Asked(a) : r.source # "dom"
    BY <1>4 DEF Safe
  <2>2. "dom" \notin DOMAIN results
    BY <2>1 DEF Told, SourcesOf
  <2>3. "dom" \in DOMAIN b.results /\ b.results["dom"] = f["dom"]
    BY <1>1, <1>2, <2>1, <2>2 DEF Laid, DomHeld
  <2> QED  BY <1>1, <2>1, <2>3 DEF DomHeld, RoundOf
<1> QED  BY <1>3, <1>4

\* Its refined plan does not ask the structural source again.
LEMMA SafeNext ==
    ASSUME NEW a, LookOK(a), Safe(a), NEW results, Told(results, Asked(a)),
           a.round = 1 => DomShown(results, {Sole(a.requested).id}),
           NEW b, RoundOf(b, a, results), ShouldRefine(b), NEW next, NextOf(next, b)
    PROVE  next.plan.failure = Absent /\ DomHeld(next) /\ Safe(next)
PROOF
<1>1. PlanOK(b.plan)
  BY DEF LookOK, RoundOf
<1>2. Budget = 2 /\ b.round = 1
  BY <1>1, RefineIs
<1>3. a.round = 1
  BY <1>2 DEF RoundOf
<1>4. PICK reason, x : SafeStart(a, reason) /\ x = Sole(a.requested)
  BY <1>3 DEF Safe
<1>5. SafeStart(b, reason) /\ x = Sole(b.requested)
  BY <1>4 DEF SafeStart, RoundOf
<1>6. next.plan \in SafePlans(reason, x)
  BY <1>2, <1>5, RefinedSafe DEF NextOf
<1>7. reason \in SelectionReasons /\ x.id # LayerTransition.id
  BY <1>5, SoleIs DEF SelectionReasons, SafeStart
<1>8. /\ next.plan.failure = Absent
      /\ \A src : IsRequired(next.plan, src) => src = "dom"
      /\ \A r \in RequestsOf(next.plan) : r.source = "dom" => Need(r) = {x.id}
  BY <1>6, <1>7, SafePlanIs
<1>9. /\ "dom" \in DOMAIN next.results /\ next.results["dom"].status = "acquired"
      /\ next.results["dom"].needs = {x.id}
  <2>1. PICK f : f = a.results
    OBVIOUS
  <2>2. Laid(b.results, results, f)
    BY <2>1, OverSpeaks DEF RoundOf
  <2>3. DomShown(results, {x.id})
    BY <1>3, <1>4
  <2> QED  BY <2>2, <2>3 DEF DomShown, Laid, NextOf
<1>10. \A r \in Asked(next) : r.source # "dom"
  <2>1. next.round # 1
    BY DEF NextOf
  <2>2. \A r \in Asked(next) : /\ r \in RequestsOf(next.plan)
                               /\ r.source \in DOMAIN next.results => next.results[r.source].needs # Need(r)
    BY <2>1 DEF Asked
  <2> QED  BY <1>8, <1>9, <2>2
<1>11. DomHeld(next)
  BY <1>8, <1>9 DEF DomHeld
<1> QED  BY <1>8, <1>10, <1>11 DEF Safe, NextOf

-----------------------------------------------------------------------------
(* The dispatch that every call served is closed with a world.             *)

\* Every call of the dispatch went well so far.
Clean(m) == m.status = "sent" /\ ~m.faulty

\* A page that would not come to rest was looked at once.
Recoverable(seq, d) ==
    /\ d.err # "navigation_pending"
    /\ d.err = "acquisition_unstable" => d.pendFor \in 1 .. seq

\* The frame after the step is at hand for this acquisition.
FrameHeld(seq, d) ==
    /\ d.err # "navigation_pending" /\ d.pendFor \in {0, seq}
    /\ d.err = "acquisition_unstable" \/ d.pend # NoFrame \/ d.pendFor = seq

\* A frame can be captured.
FrameFree(seq, d) ==
    /\ d.err # "navigation_pending"
    /\ d.err = "acquisition_unstable" => d.pendFor \notin {0, seq}

\* An acquisition of a step that has gone well so far.
Looking(g, seq, d, m, q) ==
    /\ LookOK(q) /\ seq # 0
    /\ q.then \in After => m.needs \in VerificationNeeds
    /\ Clean(m) /\ q.then = "post" /\ g = "gym" => q.at = "ask" /\ FrameHeld(seq, d)
    /\ Clean(m) /\ q.then \in {"recover", "final"} => Safe(q) /\ (g = "gym" => FrameFree(seq, d))

FrameThere(o) == o.answer.kind = "frame" => o.answer.frame # NoFrame

Dispatching(d, m) ==
    /\ m.at \in {"bound", "probe", "step"} => IsSource(m.binding.source) /\ m.needs \in VerificationNeeds
    /\ m.at = "step" => d.pendFor = 0

CoOK(c) ==
    /\ c \in [seq : Nat, world : {c.world}, raised : {c.raised}]
    /\ \A obs \in c.world : IsSource(obs.source)

SeenInv ==
    /\ CoOK(co) /\ FrameThere(owner)
    /\ acq.at = "frame" => deployment = "gym"
    /\ Dispatching(ad, act)
    /\ act.at = "acquire" => Looking(deployment, co.seq, ad, act, acq)
    /\ act.at = "recover" =>
          /\ act.needs \in VerificationNeeds
          /\ Clean(act) /\ deployment = "gym" => Recoverable(co.seq, ad)
    /\ FaultFreeActionIsSeen

\* How an acquisition ends.
Ends(g, seq, d, m, a, fused) ==
    /\ Grounded(a.results)
    /\ a.then \in After => m.needs \in VerificationNeeds
    /\ Clean(m) =>
          /\ a.then \in {"post", "recover", "final"} /\ Acquired(a, fused) => World(a.results) # {}
          /\ a.then \in {"recover", "final"} => Acquired(a, fused)
          /\ a.then = "post" /\ g = "gym" /\ ~Acquired(a, fused) => Recoverable(seq, d)

\* What the coordinator installs are sources.
LEMMA InstalledKeeps ==
    ASSUME CoOK(co), NEW a, Grounded(a.results), NEW fused, co' = Installed(co, a, fused)
    PROVE  CoOK(co') /\ co'.seq = co.seq
PROOF
<1> DEFINE ok == RequiredAcquired(a.plan, a.results) /\ fused
           seen == IF ok THEN World(a.results) ELSE co.world
<1>a. \E raised : co' = [co EXCEPT !.world = seen, !.raised = raised]
  BY Zenon DEF Installed
<1>b. seen \in {World(a.results), co.world}
  OBVIOUS
<1>c. PICK world : world = seen
  OBVIOUS
<1> HIDE DEF seen
<1>d. PICK raised : co' = [co EXCEPT !.world = world, !.raised = raised]
  BY ONLY <1>a, <1>c
<1>1. /\ world \in {World(a.results), co.world}
      /\ co' = [co EXCEPT !.world = world, !.raised = raised]
  BY ONLY <1>b, <1>c, <1>d
<1>2. co \in [seq : Nat, world : {co.world}, raised : {co.raised}]
  BY DEF CoOK
<1>3. /\ co'.seq = co.seq /\ co'.world = world /\ co'.raised = raised
      /\ co' \in [seq : Nat, world : {world}, raised : {raised}]
  BY ONLY <1>1, <1>2
<1>4. \A obs \in world : IsSource(obs.source)
  BY <1>1 DEF CoOK, World, Grounded
<1> QED  BY <1>3, <1>4 DEF CoOK

\* A step elsewhere in the loop leaves nothing to be shown.
LEMMA RestSeen ==
    ASSUME CoOK(co'), FrameThere(owner'), acq'.at # "frame", FaultFreeActionIsSeen',
           act'.at \notin {"bound", "probe", "step", "acquire", "recover"}
    PROVE  SeenInv'
PROOF BY DEF SeenInv, Dispatching

\* What becomes of the step when its acquisition is over.
LEMMA DoneSeen ==
    ASSUME CoOK(co), FaultFreeActionIsSeen, FrameThere(owner'), deployment' = deployment,
           NEW m, ActShape(m), NEW a, NEW fused, Done(m, a, fused),
           Ends(deployment, co.seq, ad', m, a, fused)
    PROVE  SeenInv'
PROOF
<1>1. CoOK(co') /\ co'.seq = co.seq
  BY InstalledKeeps DEF Done, Ends
<1>2. acq'.at = "none"
  BY DEF Done, NoAcquisition
<1>3. \A at, n : Doing(at, n).at = at
  BY DEF Doing
<1>4. CASE a.then \in {"post", "recover", "final"}
  <2>1. PICK ok : ok = Acquired(a, fused)
    OBVIOUS
  <2>2. DispatchCloses(m, a, ok)
    BY <1>4, <2>1 DEF Done
  <2>3. CASE /\ ok /\ Close(m, World(a.results), "none")
             /\ \E at \in IF m.status = "unknown" THEN {"idle", "blocked"} ELSE {"idle"} :
                   act' = Doing(IF a.then = "final" THEN "ended" ELSE at, m.n)
    <3>1. act'.at \in {"idle", "blocked", "ended"}
      BY <1>3, <2>3
    <3>2. closed'.status = m.status /\ closed'.faulty = m.faulty /\ closed'.after = World(a.results)
      BY <2>3 DEF Close
    <3>3. Clean(m) => World(a.results) # {}
      BY <1>4, <2>1, <2>3 DEF Ends
    <3>4. FaultFreeActionIsSeen'
      BY <3>2, <3>3 DEF FaultFreeActionIsSeen, Clean
    <3> QED  BY <1>1, <1>2, <3>1, <3>4, RestSeen
  <2>4. CASE ~ok /\ a.then = "post" /\ act' = [m EXCEPT !.at = "recover"] /\ UNCHANGED closed
    <3>1. /\ act'.at = "recover" /\ act'.status = m.status /\ act'.needs = m.needs /\ act'.faulty = m.faulty
      BY <2>4 DEF ActShape
    <3>2. Clean(act') <=> Clean(m)
      BY <3>1 DEF Clean
    <3>3. m.needs \in VerificationNeeds
      BY <2>4 DEF Ends, After
    <3>4. Clean(m) /\ deployment = "gym" => Recoverable(co.seq, ad')
      BY <2>1, <2>4 DEF Ends
    <3>5. FaultFreeActionIsSeen'
      BY <2>4 DEF FaultFreeActionIsSeen
    <3> QED  BY <1>1, <1>2, <3>1, <3>2, <3>3, <3>4, <3>5 DEF SeenInv, Dispatching
  <2>5. CASE ~ok /\ a.then = "recover" /\ m.status = "unknown" /\ act' = [m EXCEPT !.at = "health"] /\ UNCHANGED closed
    <3>1. act'.at = "health"
      BY <2>5 DEF ActShape
    <3>2. FaultFreeActionIsSeen'
      BY <2>5 DEF FaultFreeActionIsSeen
    <3> QED  BY <1>1, <1>2, <3>1, <3>2, RestSeen
  <2>6. CASE /\ ~ok
             /\ a.then = "final" \/ (a.then = "recover" /\ m.status = "sent")
             /\ Close(m, {}, "no_observation") /\ act' = Doing("ended", m.n)
    <3>1. act'.at = "ended"
      BY <1>3, <2>6
    <3>2. closed'.status = m.status /\ closed'.faulty = m.faulty
      BY <2>6 DEF Close
    <3>3. ~Clean(m)
      BY <2>1, <2>6 DEF Ends
    <3>4. FaultFreeActionIsSeen'
      BY <3>2, <3>3 DEF FaultFreeActionIsSeen, Clean
    <3> QED  BY <1>1, <1>2, <3>1, <3>4, RestSeen
  <2> QED  BY <2>2, <2>3, <2>4, <2>5, <2>6 DEF DispatchCloses
<1>5. CASE a.then \notin {"post", "recover", "final"}
  <2>1. PICK ok : LoopAdopts(m, a, ok)
    BY <1>5 DEF Done
  <2>2. act'.at \in {"idle", "ended"} /\ closed' = closed
    BY <1>3, <2>1 DEF LoopAdopts
  <2>3. FaultFreeActionIsSeen'
    BY <2>2 DEF FaultFreeActionIsSeen
  <2> QED  BY <1>1, <1>2, <2>2, <2>3, RestSeen
<1> QED  BY <1>4, <1>5

\* What an acquisition begins with.
Entry(g, seq, d, m, kind, requested, route, then) ==
    /\ kind \in LookKinds /\ requested \in Wanted /\ (route = Absent \/ IsSource(route))
    /\ then \in Purposes /\ (then \in After => m.needs \in VerificationNeeds)
    /\ Clean(m) /\ then = "post" /\ g = "gym" =>
          kind = "post" /\ requested \in VerificationNeeds /\ IsSource(route) /\ FrameHeld(seq + 1, d)
    /\ Clean(m) /\ then \in {"recover", "final"} =>
          /\ kind = "post"
          /\ \/ requested \in VerificationNeeds /\ route = Absent
             \/ requested = {} /\ route = "dom"
          /\ g = "gym" => FrameFree(seq + 1, d)

\* The start of an acquisition, or its end when there is no plan.
LEMMA StartsAre ==
    ASSUME NEW m, NEW a, Starts(m, a)
    PROVE  \/ a.plan.failure # Absent /\ \E fused : ~fused /\ Done(m, a, fused)
           \/ /\ a.plan.failure = Absent
              /\ acq' = a /\ co' = [co EXCEPT !.seq = @ + 1] /\ act' = m /\ closed' = closed
PROOF
<1>1. PICK fused : fused = FALSE
  OBVIOUS
<1>2. CASE a.plan.failure # Absent
  <2>1. Done(m, a, FALSE)
    BY <1>2, Zenon DEF Starts, Absent
  <2>2. Done(m, a, fused)
    BY ONLY <1>1, <2>1
  <2>3. ~fused
    BY ONLY <1>1
  <2> QED  BY ONLY <1>2, <2>2, <2>3, Zenon
<1>3. CASE a.plan.failure = Absent
  <2>1. /\ acq' = a /\ co' = [co EXCEPT !.seq = @ + 1] /\ act' = m /\ UNCHANGED closed
    BY <1>3, Zenon DEF Starts, Absent
  <2> QED  BY <1>3, <2>1
<1> QED  BY <1>2, <1>3

\* A fresh acquisition.
LEMMA BeginIs ==
    ASSUME NEW kind, NEW requested, NEW route, NEW then, NEW a, a = Begin(kind, requested, route, then)
    PROVE  /\ a.at = "ask" /\ a.kind = kind /\ a.requested = requested /\ a.then = then
           /\ a.round = 1 /\ a.results = <<>>
PROOF
<1>1. PICK plan : plan = Select(Offers, kind, requested, route, {}, FALSE)
  OBVIOUS
<1>2. PICK q : q = NoAcquisition
  OBVIOUS
<1>3. a = [q EXCEPT !.at = "ask", !.kind = kind, !.requested = requested,
                    !.route = route, !.then = then, !.plan = plan]
  BY <1>1, <1>2, Zenon DEF Begin
<1>4. /\ q \in [at : {q.at}, round : {q.round}, kind : {q.kind},
           requested : {q.requested}, route : {q.route}, then : {q.then}, plan : {q.plan},
           asked : {q.asked}, results : {q.results}, layer : {q.layer}]
      /\ q.round = 1 /\ q.results = <<>>
  BY <1>2 DEF NoAcquisition
<1> QED  BY ONLY <1>3, <1>4

\* Its plan does not fail where everything has gone well.
LEMMA EntryPlan ==
    ASSUME NEW seq, NEW d, NEW m, NEW kind, NEW requested, NEW route, NEW then,
           Entry(deployment, seq, d, m, kind, requested, route, then),
           NEW a, a = Begin(kind, requested, route, then), Clean(m)
    PROVE  /\ then = "post" /\ deployment = "gym" => a.plan.failure = Absent
           /\ then \in {"recover", "final"} => a.plan.failure = Absent /\ Safe(a)
PROOF
<1>0. /\ a.at = "ask" /\ a.kind = kind /\ a.requested = requested /\ a.then = then
      /\ a.round = 1 /\ a.results = <<>>
  BY BeginIs
<1>1. CASE then = "post" /\ deployment = "gym"
  <2>1. a = Begin("post", requested, route, then) /\ requested \in VerificationNeeds /\ IsSource(route)
    BY <1>1 DEF Entry
  <2> QED  BY <1>1, <2>1, PostPlan
<1>2. CASE then \in {"recover", "final"}
  <2>0. \A reason, ids, needs : DomOnly(reason, ids, needs).failure = Absent
    BY DEF DomOnly
  <2>1. kind = "post"
    BY <1>2 DEF Entry
  <2>2. CASE requested \in VerificationNeeds /\ route = Absent
    <3>1. a = Begin("post", requested, Absent, then)
      BY <2>1, <2>2
    <3>2. a.plan = DomOnly("grounding", {Sole(requested).id}, {Sole(requested)})
      BY <2>2, <3>1, RecoverPlan
    <3>3. PICK reason : reason = "grounding"
      OBVIOUS
    <3>4. SafeStart(a, reason)
      BY <1>0, <2>1, <2>2, <3>2, <3>3 DEF SafeStart
    <3> QED  BY <1>0, <1>2, <2>0, <3>2, <3>4 DEF Safe
  <2>3. CASE requested = {} /\ route = "dom"
    <3>1. a = Begin("post", {}, "dom", then)
      BY <2>1, <2>3
    <3>2. a.plan = DomOnly("route_source_refresh", {Sole(requested).id}, {Sole(requested)})
      BY <2>3, <3>1, FinalPlan
    <3>3. PICK reason : reason = "route_source_refresh"
      OBVIOUS
    <3>4. SafeStart(a, reason)
      BY <1>0, <2>1, <2>3, <3>2, <3>3 DEF SafeStart, VerificationNeeds
    <3> QED  BY <1>0, <1>2, <2>0, <3>2, <3>4 DEF Safe
  <2> QED  BY <1>2, <2>2, <2>3 DEF Entry
<1> QED  BY <1>1, <1>2

\* What becomes of the step that starts an acquisition.
LEMMA StartSeen ==
    ASSUME CoOK(co), FaultFreeActionIsSeen, FrameThere(owner'), deployment' = deployment,
           NEW m, ActShape(m), m.at = "acquire",
           NEW kind, NEW requested, NEW route, NEW then,
           Entry(deployment, co.seq, ad', m, kind, requested, route, then),
           Starts(m, Begin(kind, requested, route, then))
    PROVE  SeenInv'
PROOF
<1>1. PICK a : a = Begin(kind, requested, route, then)
  OBVIOUS
<1>2. /\ a.at = "ask" /\ a.kind = kind /\ a.requested = requested /\ a.then = then
      /\ a.round = 1 /\ a.results = <<>>
  BY <1>1, BeginIs
<1>3. Starts(m, a)
  BY <1>1
<1>4. Grounded(a.results)
  BY <1>2 DEF Grounded
<1>5. CASE a.plan.failure # Absent /\ \E fused : ~fused /\ Done(m, a, fused)
  <2>1. PICK fused : ~fused /\ Done(m, a, fused)
    BY <1>5
  <2>2. ~Acquired(a, fused)
    BY <2>1 DEF Acquired
  <2>3. /\ Clean(m) => ~(then = "post" /\ deployment = "gym") /\ then \notin {"recover", "final"}
        /\ then \in After => m.needs \in VerificationNeeds
    <3>1. Clean(m) => /\ then = "post" /\ deployment = "gym" => a.plan.failure = Absent
                      /\ then \in {"recover", "final"} => a.plan.failure = Absent /\ Safe(a)
      BY <1>1, EntryPlan
    <3> QED  BY <1>5, <3>1 DEF Entry
  <2>4. Ends(deployment, co.seq, ad', m, a, fused)
    BY <1>2, <1>4, <2>2, <2>3 DEF Ends
  <2> QED  BY <2>1, <2>4, DoneSeen
<1>6. CASE /\ a.plan.failure = Absent
           /\ acq' = a /\ co' = [co EXCEPT !.seq = @ + 1] /\ act' = m /\ closed' = closed
  <2>1. /\ co'.seq = co.seq + 1 /\ co'.world = co.world /\ CoOK(co') /\ co'.seq # 0
    <3>1. co \in [seq : Nat, world : {co.world}, raised : {co.raised}]
      BY DEF CoOK
    <3>2. /\ co'.seq = co.seq + 1 /\ co'.world = co.world /\ co'.seq \in Nat /\ co'.seq # 0
          /\ co' \in [seq : Nat, world : {co'.world}, raised : {co'.raised}]
      BY ONLY <1>6, <3>1
    <3> QED  BY <3>2 DEF CoOK
  <2>2. PlanOK(a.plan)
    BY <1>1, <1>6, BeginPlan DEF Entry
  <2>3. LookOK(a)
    BY <1>2, <1>4, <1>6, <2>2 DEF LookOK, Entry
  <2>4. Clean(m) /\ then = "post" /\ deployment = "gym" => FrameHeld(co'.seq, ad')
    BY <2>1 DEF Entry
  <2>5. Clean(m) /\ then \in {"recover", "final"} => Safe(a) /\ (deployment = "gym" => FrameFree(co'.seq, ad'))
    BY <1>1, <2>1, EntryPlan DEF Entry
  <2>6. Looking(deployment', co'.seq, ad', act', acq')
    BY <1>2, <1>6, <2>1, <2>3, <2>4, <2>5 DEF Looking, Entry
  <2>7. FaultFreeActionIsSeen'
    BY <1>6 DEF FaultFreeActionIsSeen
  <2> QED  BY <1>2, <1>6, <2>1, <2>6, <2>7 DEF SeenInv, Dispatching
<1> QED  BY <1>3, <1>5, <1>6, StartsAre

\* An acquisition is acquired as far as its plan and its results go.
LEMMA AcquiredIs ==
    ASSUME NEW a, NEW fused
    PROVE  Acquired(a, fused) <=> a.plan.failure = Absent /\ RequiredAcquired(a.plan, a.results) /\ fused
PROOF BY Zenon DEF Acquired, Absent

\* The dispatch m with what a round of its acquisition makes of it.
Marks(k, m, clean) ==
    /\ ActShape(k) /\ k.at = m.at /\ k.n = m.n /\ k.status = m.status /\ k.needs = m.needs
    /\ Clean(k) => Clean(m) /\ clean

\* An acquisition is over: refined without a further question, unrefined, or refined in vain.
IsOver(b, next, q, fused, ok) ==
    \/ ShouldRefine(b) /\ next.plan.failure = Absent /\ Asked(next) = {} /\ q = next /\ (ok <=> fused)
    \/ ~ShouldRefine(b) /\ q = b /\ (ok <=> fused)
    \/ ShouldRefine(b) /\ next.plan.failure # Absent /\ q = b /\ ~ok

\* The results of a round lead to a further one, or to the end.
LEMMA AnsweredIs ==
    ASSUME NEW m, ActShape(m), NEW a, AcqShape(a), NEW outcome, CaptureAnswered(m, a, outcome)
    PROVE  \E b, next :
              /\ RoundOf(b, a, outcome.results) /\ NextOf(next, b)
              /\ b.then = a.then /\ next.then = a.then /\ next.at = "ask"
              /\ \/ /\ ShouldRefine(b) /\ next.plan.failure = Absent
                    /\ acq' = next /\ Marks(act', m, ~outcome.faulty) /\ UNCHANGED <<co, closed>>
                 \/ \E k, q, fused, ok :
                       /\ Marks(k, m, ~outcome.faulty /\ fused) /\ IsOver(b, next, q, fused, ok)
                       /\ Done(k, q, ok)
PROOF
<1>1. PICK b : b = [a EXCEPT !.results = Over(outcome.results, @),
                             !.layer = @ \/ outcome.layer]
  OBVIOUS
<1>2. PICK r : r = Refined(b)
  OBVIOUS
<1>3. PICK next : next = [b EXCEPT !.plan = r, !.round = 2, !.at = "ask"]
  OBVIOUS
<1>4. PICK faulty : faulty = (m.faulty \/ outcome.faulty)
  OBVIOUS
<1>5. /\ AcqShape(b) /\ b.then = a.then /\ b.kind = a.kind /\ b.requested = a.requested
      /\ b.plan = a.plan /\ b.round = a.round
      /\ b.results = Over(outcome.results, a.results)
  BY ONLY <1>1, AcqShape(a) DEF AcqShape
<1>6. /\ next.at = "ask" /\ next.then = b.then /\ next.kind = b.kind /\ next.requested = b.requested
      /\ next.plan = r /\ next.round = 2 /\ next.results = b.results
  BY ONLY <1>3, <1>5 DEF AcqShape
<1>7. RoundOf(b, a, outcome.results) /\ NextOf(next, b)
  BY ONLY <1>2, <1>5, <1>6 DEF RoundOf, NextOf
<1>8. IF ShouldRefine(b) /\ r.failure = Absent /\ Asked(next) # {}
      THEN /\ acq' = next
           /\ act' = [m EXCEPT !.faulty = faulty]
           /\ UNCHANGED <<co, closed>>
      ELSE \E fused \in BOOLEAN :
              Done([m EXCEPT !.faulty = faulty \/ ~fused],
                   IF ShouldRefine(b) /\ r.failure = Absent THEN next ELSE b,
                   fused /\ ~(ShouldRefine(b) /\ r.failure # Absent))
  BY ONLY <1>1, <1>2, <1>3, <1>4, CaptureAnswered(m, a, outcome), Zenon DEF CaptureAnswered, Absent
<1>9. CASE ShouldRefine(b) /\ r.failure = Absent /\ Asked(next) # {}
  <2>1. act' = [m EXCEPT !.faulty = faulty] /\ acq' = next /\ UNCHANGED <<co, closed>>
    BY ONLY <1>8, <1>9
  <2>2. Marks(act', m, ~outcome.faulty)
    BY ONLY <1>4, <2>1, ActShape(m) DEF Marks, ActShape, Clean
  <2> QED  BY ONLY <1>5, <1>6, <1>7, <1>9, <2>1, <2>2
<1>10. CASE ~(ShouldRefine(b) /\ r.failure = Absent /\ Asked(next) # {})
  <2>1. PICK fused \in BOOLEAN :
              Done([m EXCEPT !.faulty = faulty \/ ~fused],
                   IF ShouldRefine(b) /\ r.failure = Absent THEN next ELSE b,
                   fused /\ ~(ShouldRefine(b) /\ r.failure # Absent))
    BY ONLY <1>8, <1>10
  <2>2. PICK q : q = IF ShouldRefine(b) /\ r.failure = Absent THEN next ELSE b
    OBVIOUS
  <2>3. PICK k : k = [m EXCEPT !.faulty = faulty \/ ~fused]
    OBVIOUS
  <2>4. PICK ok : ok = (fused /\ ~(ShouldRefine(b) /\ r.failure # Absent))
    OBVIOUS
  <2>5. Done(k, q, ok)
    BY ONLY <2>1, <2>2, <2>3, <2>4
  <2>6. Marks(k, m, ~outcome.faulty /\ fused)
    BY ONLY <1>4, <2>1, <2>3, ActShape(m) DEF Marks, ActShape, Clean
  <2>7. IsOver(b, next, q, fused, ok)
    BY ONLY <1>6, <1>10, <2>1, <2>2, <2>4 DEF IsOver
  <2> QED  BY ONLY <1>5, <1>6, <1>7, <2>5, <2>6, <2>7
<1> QED  BY <1>9, <1>10

\* What a round without a fault finds.
Answering(g, seq, d, m, a, outcome) ==
    Clean(m) /\ ~outcome.faulty =>
        /\ a.then = "post" /\ g = "gym" => FrameHeld(seq, d) /\ d.pendFor = seq
        /\ a.then \in {"recover", "final"} =>
              /\ a.round = 1 => DomShown(outcome.results, {Sole(a.requested).id})
              /\ g = "gym" => FrameFree(seq, d)

\* The end of an acquisition, as it is put down.
LEMMA AnswerEnds ==
    ASSUME CoOK(co), NEW m, NEW a, Looking(deployment, co.seq, ad, m, a), NEW outcome,
           Told(outcome.results, Asked(a)), Answering(deployment, co.seq, ad', m, a, outcome),
           NEW b, RoundOf(b, a, outcome.results), NEW next, NextOf(next, b),
           b.then = a.then, next.then = a.then,
           NEW k, NEW fused, Marks(k, m, ~outcome.faulty /\ fused),
           NEW q, NEW ok, IsOver(b, next, q, fused, ok)
    PROVE  Ends(deployment, co.seq, ad', k, q, ok)
PROOF
<1>1. LookOK(a) /\ co.seq # 0 /\ (a.then \in After => m.needs \in VerificationNeeds)
  BY DEF Looking
<1>2. PICK results : results = outcome.results
  OBVIOUS
<1>3. Told(results, Asked(a)) /\ RoundOf(b, a, results)
  BY <1>2
<1>4. Grounded(b.results) /\ Sources(b.plan.selections) \subseteq DOMAIN b.results
  BY <1>1, <1>3, RoundLooks
<1>5. PlanOK(b.plan) /\ b.plan.failure = Absent
  BY <1>1, <1>3 DEF LookOK, RoundOf
<1>6. q = b \/ (ShouldRefine(b) /\ next.plan.failure = Absent /\ Asked(next) = {} /\ q = next)
  BY DEF IsOver
<1>7. /\ Grounded(q.results) /\ Sources(q.plan.selections) \subseteq DOMAIN q.results
      /\ PlanOK(q.plan) /\ q.plan.failure = Absent /\ q.then = a.then
  <2>1. CASE q = b
    BY <1>4, <1>5, <2>1
  <2>2. CASE ShouldRefine(b) /\ next.plan.failure = Absent /\ Asked(next) = {} /\ q = next
    <3>1. LookOK(next) /\ Sources(next.plan.selections) \subseteq DOMAIN next.results
      BY <1>1, <1>3, <1>4, <2>2, NextLooks
    <3> QED  BY <2>2, <3>1 DEF LookOK
  <2> QED  BY <1>6, <2>1, <2>2
<1>8. Acquired(q, ok) => World(q.results) # {}
  <2>1. PICK plan, got : plan = q.plan /\ got = q.results
    OBVIOUS
  <2>2. RequiredAcquired(plan, got) => World(got) # {}
    BY <1>7, <2>1, PlanShows
  <2> QED  BY <2>1, <2>2, AcquiredIs
<1>9. Clean(k) => Clean(m) /\ ~outcome.faulty /\ fused
  BY DEF Marks
<1>10. Clean(k) /\ a.then \in {"recover", "final"} => Acquired(q, ok)
  <2> SUFFICES ASSUME Clean(k), a.then \in {"recover", "final"}
               PROVE  Acquired(q, ok)
    OBVIOUS
  <2>1. Safe(a)
    BY <1>9 DEF Looking
  <2>2. a.round = 1 => DomShown(results, {Sole(a.requested).id})
    BY <1>2, <1>9 DEF Answering
  <2>3. DomHeld(b)
    BY <1>3, <2>1, <2>2, SafeRound
  <2>4. ShouldRefine(b) => next.plan.failure = Absent /\ DomHeld(next)
    BY <1>1, <1>3, <2>1, <2>2, SafeNext
  <2>5. DomHeld(q) /\ ok
    BY <1>9, <2>3, <2>4 DEF IsOver
  <2>6. RequiredAcquired(q.plan, q.results)
    BY <2>5, HeldIsAcquired
  <2> QED  BY <1>7, <2>5, <2>6, AcquiredIs
<1>11. Clean(k) /\ a.then = "post" /\ deployment = "gym" => Recoverable(co.seq, ad')
  <2>1. co.seq \in Nat
    BY DEF CoOK
  <2>2. Clean(k) /\ a.then = "post" /\ deployment = "gym" => FrameHeld(co.seq, ad') /\ ad'.pendFor = co.seq
    BY <1>9 DEF Answering
  <2> QED  BY <1>1, <2>1, <2>2 DEF Recoverable, FrameHeld
<1>12. k.needs = m.needs
  BY DEF Marks
<1> QED  BY <1>1, <1>7, <1>8, <1>10, <1>11, <1>12 DEF Ends

\* What becomes of the step when a round of its acquisition is answered.
LEMMA AnswerSeen ==
    ASSUME SeenInv, ActShape(act), AcqShape(acq), act.at = "acquire", NEW outcome,
           CaptureAnswered(act, acq, outcome), Told(outcome.results, Asked(acq)),
           Answering(deployment, co.seq, ad', act, acq, outcome),
           FrameThere(owner'), deployment' = deployment
    PROVE  SeenInv'
PROOF
<1>1. PICK b, next :
              /\ RoundOf(b, acq, outcome.results) /\ NextOf(next, b)
              /\ b.then = acq.then /\ next.then = acq.then /\ next.at = "ask"
              /\ \/ /\ ShouldRefine(b) /\ next.plan.failure = Absent
                    /\ acq' = next /\ Marks(act', act, ~outcome.faulty) /\ UNCHANGED <<co, closed>>
                 \/ \E k, q, fused, ok :
                       /\ Marks(k, act, ~outcome.faulty /\ fused) /\ IsOver(b, next, q, fused, ok)
                       /\ Done(k, q, ok)
  BY AnsweredIs
<1>2. Looking(deployment, co.seq, ad, act, acq) /\ CoOK(co) /\ FaultFreeActionIsSeen
  BY DEF SeenInv
<1>3. CASE \E k, q, fused, ok :
                       /\ Marks(k, act, ~outcome.faulty /\ fused) /\ IsOver(b, next, q, fused, ok)
                       /\ Done(k, q, ok)
  <2>1. PICK k, q, fused, ok :
                       /\ Marks(k, act, ~outcome.faulty /\ fused) /\ IsOver(b, next, q, fused, ok)
                       /\ Done(k, q, ok)
    BY <1>3
  <2>2. Ends(deployment, co.seq, ad', k, q, ok)
    BY <1>1, <1>2, <2>1, AnswerEnds
  <2>3. ActShape(k)
    BY <2>1 DEF Marks
  <2> QED  BY <1>2, <2>1, <2>2, <2>3, DoneSeen
<1>4. CASE /\ ShouldRefine(b) /\ next.plan.failure = Absent
           /\ acq' = next /\ Marks(act', act, ~outcome.faulty) /\ UNCHANGED <<co, closed>>
  <2>1. PICK results, a : results = outcome.results /\ a = acq
    OBVIOUS
  <2>2. /\ LookOK(a) /\ Told(results, Asked(a)) /\ RoundOf(b, a, results)
        /\ (a.then \in After => act.needs \in VerificationNeeds) /\ co.seq # 0
    BY <1>1, <1>2, <2>1 DEF Looking
  <2>3. Grounded(b.results)
    BY <2>2, RoundLooks
  <2>4. LookOK(next)
    BY <1>1, <1>4, <2>2, <2>3, NextLooks
  <2>5. Clean(act') => Clean(act) /\ ~outcome.faulty
    BY <1>4 DEF Marks
  <2>6. Clean(act') /\ a.then \in {"recover", "final"} => Safe(next) /\ (deployment = "gym" => FrameFree(co.seq, ad'))
    <3> SUFFICES ASSUME Clean(act'), a.then \in {"recover", "final"}
                 PROVE  Safe(next) /\ (deployment = "gym" => FrameFree(co.seq, ad'))
      OBVIOUS
    <3>1. Safe(a)
      BY <1>2, <2>1, <2>5 DEF Looking
    <3>2. /\ a.round = 1 => DomShown(results, {Sole(a.requested).id})
          /\ deployment = "gym" => FrameFree(co.seq, ad')
      BY <2>1, <2>5 DEF Answering
    <3>3. Safe(next)
      BY <1>1, <1>4, <2>2, <3>1, <3>2, SafeNext
    <3> QED  BY <3>2, <3>3
  <2>7. Clean(act') /\ a.then = "post" /\ deployment = "gym" => FrameHeld(co.seq, ad')
    BY <2>1, <2>5 DEF Answering
  <2>8. act'.at = act.at /\ act'.needs = act.needs
    BY <1>4 DEF Marks
  <2>9. Looking(deployment', co'.seq, ad', act', acq')
    BY <1>1, <1>4, <2>1, <2>2, <2>4, <2>6, <2>7, <2>8 DEF Looking
  <2>10. FaultFreeActionIsSeen' /\ CoOK(co')
    BY <1>2, <1>4 DEF FaultFreeActionIsSeen, CoOK
  <2> QED  BY <1>1, <1>4, <2>8, <2>9, <2>10 DEF SeenInv, Dispatching
<1> QED  BY <1>1, <1>3, <1>4

-----------------------------------------------------------------------------
(* Frames that have been captured.                                         *)

FramesInv == page.serial \in Nat /\ FrameThere(owner)

\* What the owner answers when a command of it ends.
LEMMA FinishesAnswer ==
    ASSUME OwnerShape(owner), FrameThere(owner), NEW kind, NEW frame,
           kind = "frame" => frame # NoFrame, Finishes(kind, frame)
    PROVE  FrameThere(owner')
PROOF
<1>1. owner \in [queue : Seq(Commands), busy : Seq(Commands), timedOut : BOOLEAN,
           cancels : {owner.cancels},
           answer : [kind : {owner.answer.kind}, frame : {owner.answer.frame}]]
  BY DEF OwnerShape
<1>2. PICK a : /\ owner' = [owner EXCEPT !.busy = <<>>, !.answer = a]
               /\ a = OwnerAnswer(kind, frame) \/ a = owner.answer
  <2> DEFINE new == IF owner.busy[1].waited THEN OwnerAnswer(kind, frame) ELSE owner.answer
  <2>1. owner' = [owner EXCEPT !.busy = <<>>, !.answer = new]
    BY Zenon DEF Finishes
  <2>2. new = OwnerAnswer(kind, frame) \/ new = owner.answer
    OBVIOUS
  <2> HIDE DEF new
  <2> QED  BY ONLY <2>1, <2>2
<1>3. owner'.answer = a
  BY ONLY <1>1, <1>2
<1>4. OwnerAnswer(kind, frame).kind = kind /\ OwnerAnswer(kind, frame).frame = frame
  BY DEF OwnerAnswer
<1> QED  BY <1>2, <1>3, <1>4 DEF FrameThere

\* The answer that is read is no frame, and no command is an answer.
LEMMA AnswersGone ==
    ASSUME OwnerShape(owner), FrameThere(owner)
    PROVE  /\ Read => FrameThere(owner')
           /\ \A name : owner' = Submitted(name) => FrameThere(owner')
           /\ \A name : owner' = [Submitted(name) EXCEPT !.answer =
                                 IF owner.timedOut THEN @ ELSE OwnerAnswer("none", NoFrame)]
                            => FrameThere(owner')
           /\ owner' = Abandoned => FrameThere(owner')
           /\ Timeout => FrameThere(owner')
           /\ OwnerTakes => FrameThere(owner')
PROOF
<1>0. owner \in [queue : Seq(Commands), busy : Seq(Commands), timedOut : BOOLEAN,
           cancels : {owner.cancels},
           answer : [kind : {owner.answer.kind}, frame : {owner.answer.frame}]]
  BY DEF OwnerShape
<1>1. OwnerAnswer("none", NoFrame).kind # "frame" /\ OwnerAnswer("raised", NoFrame).kind # "frame"
  BY DEF OwnerAnswer
<1>2. Read => FrameThere(owner')
  <2>1. PICK none : none = OwnerAnswer("none", NoFrame)
    OBVIOUS
  <2>2. Read => owner' = [owner EXCEPT !.answer = none]
    BY <2>1 DEF Read
  <2>3. Read => owner'.answer = none
    BY ONLY <1>0, <2>2
  <2> QED  BY <1>1, <2>1, <2>3 DEF FrameThere
<1>3. ASSUME NEW o, NEW name, o = Submitted(name)
      PROVE  /\ o.answer.kind = "frame" => o.answer = owner.answer
             /\ owner' = o => FrameThere(owner')
             /\ owner' = [o EXCEPT !.answer = IF owner.timedOut THEN @ ELSE OwnerAnswer("none", NoFrame)]
                   => FrameThere(owner')
  <2>1. PICK raised, none : raised = OwnerAnswer("raised", NoFrame) /\ none = OwnerAnswer("none", NoFrame)
    OBVIOUS
  <2>2. PICK queue : queue = Append(owner.queue, [name |-> name, n |-> act.n, waited |-> TRUE])
    OBVIOUS
  <2>3. o = IF owner.timedOut THEN [owner EXCEPT !.answer = raised] ELSE [owner EXCEPT !.queue = queue]
    BY <1>3, <2>1, <2>2, Zenon DEF Submitted, SubmittedAnyway
  <2>4. o.answer = IF owner.timedOut THEN raised ELSE owner.answer
    BY ONLY <1>0, <2>3
  <2>5. PICK a : /\ a = IF owner.timedOut THEN o.answer ELSE none
                 /\ [o EXCEPT !.answer = IF owner.timedOut THEN @ ELSE OwnerAnswer("none", NoFrame)]
                       = [o EXCEPT !.answer = a]
    BY <2>1
  <2>6. [o EXCEPT !.answer = a].answer = a
    BY ONLY <1>0, <2>3
  <2>7. a.kind # "frame"
    BY <1>1, <2>1, <2>4, <2>5
  <2>8. owner' = [o EXCEPT !.answer = IF owner.timedOut THEN @ ELSE OwnerAnswer("none", NoFrame)]
           => owner'.answer = a
    BY ONLY <2>5, <2>6
  <2> QED  BY <1>1, <2>1, <2>4, <2>7, <2>8 DEF FrameThere
<1>4. \A a : [owner EXCEPT !.answer = a].answer = a
  BY ONLY <1>0
<1>5. /\ owner' = Abandoned => FrameThere(owner')
      /\ Timeout => FrameThere(owner')
  <2>1. PICK queue, busy : queue = GivenUp(owner.queue) /\ busy = GivenUp(owner.busy)
    OBVIOUS
  <2>2. PICK u : u = Unwaited(owner)
    OBVIOUS
  <2>3. u = [owner EXCEPT !.queue = queue, !.busy = busy]
    BY <2>1, <2>2 DEF Unwaited
  <2>4. PICK raised, none : raised = OwnerAnswer("raised", NoFrame) /\ none = OwnerAnswer("none", NoFrame)
    OBVIOUS
  <2>5. Abandoned = [u EXCEPT !.answer = none, !.cancels = owner.cancels + 1]
    <3>1. u.cancels = owner.cancels
      BY ONLY <1>0, <2>3
    <3> QED  BY <2>2, <2>4, <3>1 DEF Abandoned
  <2>6. owner' = Abandoned => owner'.answer = none
    BY ONLY <1>0, <2>3, <2>5
  <2>7. Timeout => \E t, a : owner' = [u EXCEPT !.timedOut = t, !.answer = a] /\ (a = raised \/ a = u.answer)
    <3> SUFFICES ASSUME Timeout PROVE \E t, a : owner' = [u EXCEPT !.timedOut = t, !.answer = a] /\ (a = raised \/ a = u.answer)
      OBVIOUS
    <3>1. PICK t : t = (u.timedOut \/ Overdue)
      OBVIOUS
    <3>2. PICK a : a = IF Awaiting THEN raised ELSE u.answer
      OBVIOUS
    <3>3. owner' = [u EXCEPT !.timedOut = t, !.answer = a]
      BY <2>2, <2>4, <3>1, <3>2, Zenon DEF Timeout
    <3> QED  BY ONLY <3>2, <3>3
  <2>8. u.answer = owner.answer
    BY ONLY <1>0, <2>3
  <2>11. u \in [queue : {queue}, busy : {busy}, timedOut : {owner.timedOut},
                cancels : {owner.cancels}, answer : {owner.answer}]
    <3>1. PICK q, b, d, c, a : owner = [queue |-> q, busy |-> b, timedOut |-> d, cancels |-> c, answer |-> a]
      BY ONLY <1>0
    <3>2. u = [queue |-> queue, busy |-> busy, timedOut |-> d, cancels |-> c, answer |-> a]
      BY ONLY <2>3, <3>1
    <3> QED  BY ONLY <3>1, <3>2
  <2>9. \A t, a : [u EXCEPT !.timedOut = t, !.answer = a].answer = a
    BY ONLY <2>11
  <2>10. Timeout => owner'.answer \in {raised, owner.answer}
    <3> SUFFICES ASSUME Timeout PROVE owner'.answer \in {raised, owner.answer}
      OBVIOUS
    <3>1. PICK t, a : owner' = [u EXCEPT !.timedOut = t, !.answer = a] /\ (a = raised \/ a = u.answer)
      BY ONLY Timeout, <2>7
    <3>2. owner'.answer = a
      BY ONLY <2>9, <3>1
    <3> QED  BY ONLY <2>8, <3>1, <3>2
  <2> QED  BY <1>1, <2>4, <2>6, <2>10 DEF FrameThere
<1>6. OwnerTakes => FrameThere(owner')
  <2>1. PICK busy, queue : busy = <<Head(owner.queue)>> /\ queue = Tail(owner.queue)
    OBVIOUS
  <2>2. OwnerTakes => owner' = [owner EXCEPT !.busy = busy, !.queue = queue]
    BY <2>1 DEF OwnerTakes
  <2>3. OwnerTakes => owner'.answer = owner.answer
    BY ONLY <1>0, <2>2
  <2> QED  BY <2>3 DEF FrameThere
<1> QED  BY <1>2, <1>3, <1>5, <1>6

\* Every step leaves an answered frame a captured one.
LEMMA FramesKeep == FramesInv /\ WorldInv /\ [Next]_vars => FramesInv'
PROOF
<1> SUFFICES ASSUME FramesInv, WorldInv, [Next]_vars PROVE FramesInv'
  OBVIOUS
<1>1. OwnerShape(owner) /\ PageShape(page) /\ FrameThere(owner) /\ page.serial \in Nat
  BY DEF FramesInv, WorldInv, PageOK, CommandsOK
<1>2. /\ Read => FrameThere(owner')
      /\ \A name : owner' = Submitted(name) => FrameThere(owner')
      /\ \A name : owner' = [Submitted(name) EXCEPT !.answer =
                            IF owner.timedOut THEN @ ELSE OwnerAnswer("none", NoFrame)]
                       => FrameThere(owner')
      /\ owner' = Abandoned => FrameThere(owner')
      /\ Timeout => FrameThere(owner')
      /\ OwnerTakes => FrameThere(owner')
      /\ owner' = owner => FrameThere(owner')
  BY <1>1, AnswersGone DEF FrameThere
<1>3. page' = page => page'.serial \in Nat
  BY <1>1
<1>4. ASSUME NEW t, PageShape(t), t.serial = page.serial
      PROVE  /\ page' = t => page'.serial \in Nat
             /\ page' = [t EXCEPT !.serial = @ + 1] => page'.serial \in Nat
  <2>1. t \in [v : Nat, drift : {t.drift}, serial : {t.serial}, landed : [Sends -> Nat], out : SUBSET Sends]
    BY <1>4 DEF PageShape
  <2>2. page' = [t EXCEPT !.serial = @ + 1] => page'.serial = t.serial + 1
    BY ONLY <2>1
  <2> QED  BY <1>1, <1>4, <2>2
<1>5. \A n \in Sends : PageShape(Lands(page, n)) /\ Lands(page, n).serial = page.serial
  BY <1>1, LandsGives
<1>6. page' = [page EXCEPT !.serial = @ + 1] => page'.serial \in Nat
  BY <1>1, <1>4
<1>7. CASE Reset \/ SessionAcquires
  BY <1>2, <1>3, <1>6, <1>7 DEF Reset, SessionAcquires, FramesInv
<1>8. CASE SessionExecutes
  <2>1. act.n \in Sends
    BY <1>8 DEF SessionExecutes, WorldInv, ActOK
  <2>2. (page' = page \/ page' = Lands(page, act.n)) /\ owner' = owner
    BY <1>8 DEF SessionExecutes
  <2> QED  BY <1>2, <1>3, <1>4, <1>5, <2>1, <2>2 DEF FramesInv
<1>9. CASE NavigationCommits
  <2>1. PICK n \in page.out : page' = Lands(page, n)
    BY <1>9 DEF NavigationCommits
  <2>2. n \in Sends /\ owner' = owner
    BY <1>1, <1>9 DEF PageShape, NavigationCommits
  <2> QED  BY <1>2, <1>4, <1>5, <2>1, <2>2 DEF FramesInv
<1>10. CASE PageDrifts
  <2>1. page \in [v : Nat, drift : {page.drift}, serial : {page.serial}, landed : [Sends -> Nat], out : SUBSET Sends]
    BY <1>1 DEF PageShape
  <2>2. page' = [page EXCEPT !.v = @ + 1, !.drift = @ + 1] /\ owner' = owner
    BY <1>10 DEF PageDrifts
  <2>3. page'.serial = page.serial
    BY ONLY <2>1, <2>2
  <2> QED  BY <1>1, <1>2, <2>2, <2>3 DEF FramesInv
<1>11. \A seen : [serial |-> page.serial + 1, seen |-> seen] # NoFrame
  <2> SUFFICES ASSUME NEW seen PROVE [serial |-> page.serial + 1, seen |-> seen] # NoFrame
    OBVIOUS
  <2>1. PICK f : f = [serial |-> page.serial + 1, seen |-> seen]
    OBVIOUS
  <2>2. f.serial # 0 /\ NoFrame.serial = 0
    BY <1>1, <2>1 DEF NoFrame
  <2> QED  BY <2>1, <2>2
<1>12. CASE OwnerFinishes
  <2>1. NextFrame # NoFrame
    BY <1>11 DEF NextFrame
  <2>2. \/ page' = [page EXCEPT !.serial = @ + 1] /\ Finishes("frame", NextFrame)
        \/ page' = page /\ \E kind : kind # "frame" /\ Finishes(kind, NoFrame)
    BY <1>12 DEF OwnerFinishes, Captures
  <2>3. FrameThere(owner')
    <3>1. PICK kind, frame : Finishes(kind, frame) /\ (kind = "frame" => frame # NoFrame)
      BY <2>1, <2>2
    <3> QED  BY <1>1, <3>1, FinishesAnswer
  <2> QED  BY <1>3, <1>6, <2>2, <2>3 DEF FramesInv
<1>13. CASE OwnerSteps
  <2>1. owner.busy # <<>> /\ owner.busy[1].name = "step"
    BY <1>13 DEF OwnerSteps, Works
  <2>2. PICK n : n = owner.busy[1].n
    OBVIOUS
  <2>3. n \in Sends
    BY <2>1, <2>2, CommandsAre DEF WorldInv, CommandsOK, Commands, Sends
  <2>4. PICK landed : landed = Lands(page, n)
    OBVIOUS
  <2>5. landed.serial = page.serial /\ PageShape(landed)
    BY <1>5, <2>3, <2>4
  <2>6. \/ /\ page' = [landed EXCEPT !.serial = @ + 1]
           /\ Finishes("frame", [serial |-> landed.serial + 1, seen |-> landed.v])
        \/ page' = landed /\ \E kind : kind # "frame" /\ Finishes(kind, NoFrame)
        \/ /\ page' = [page EXCEPT !.out = @ \cup {n}]
           /\ \E kind : kind # "frame" /\ Finishes(kind, NoFrame)
    BY <1>13, <2>2, <2>4 DEF OwnerSteps
  <2>7. FrameThere(owner')
    <3>1. PICK kind, frame : Finishes(kind, frame) /\ (kind = "frame" => frame # NoFrame)
      BY <1>11, <2>5, <2>6
    <3> QED  BY <1>1, <3>1, FinishesAnswer
  <2>8. page' = [page EXCEPT !.out = @ \cup {n}] => page'.serial = page.serial
    BY <1>1 DEF PageShape
  <2> QED  BY <1>1, <1>4, <2>5, <2>6, <2>7, <2>8 DEF FramesInv
<1>14. CASE Observe \/ Refresh \/ Recover \/ SelectAction \/ SessionUnresolved \/ GymAcquires
            \/ FrameAnswered \/ GymExecutes \/ ProbeAnswered
  <2>1. page' = page
    BY <1>14 DEF Observe, Refresh, Recover, SelectAction, SessionUnresolved, GymAcquires,
       FrameAnswered, GymExecutes, ProbeAnswered
  <2>2. \/ owner' = owner \/ Read \/ (\E name : owner' = Submitted(name))
        \/ \E name : owner' = [Submitted(name) EXCEPT !.answer =
                              IF owner.timedOut THEN @ ELSE OwnerAnswer("none", NoFrame)]
    BY <1>14, Zenon DEF Observe, Refresh, Recover, SelectAction, SessionUnresolved, GymAcquires,
       FrameAnswered, GymExecutes, ProbeAnswered
  <2> QED  BY <1>2, <1>3, <2>1, <2>2 DEF FramesInv
<1>15. CASE StepAnswered \/ Finalize \/ FinalAnswered \/ Probes \/ HealthAnswered \/ OwnerTakes
            \/ Timeout \/ Cancel \/ UNCHANGED vars
  <2>1. page' = page
    BY <1>15 DEF StepAnswered, Finalize, FinalAnswered, Probes, HealthAnswered, OwnerTakes,
       Timeout, Cancel, vars
  <2>2. \/ owner' = owner \/ Read \/ (\E name : owner' = Submitted(name))
        \/ OwnerTakes \/ Timeout \/ owner' = Abandoned
    BY <1>15 DEF StepAnswered, Finalize, FinalAnswered, Probes, HealthAnswered, Cancel, vars
  <2> QED  BY <1>2, <1>3, <2>1, <2>2 DEF FramesInv
<1> QED  BY <1>7, <1>8, <1>9, <1>10, <1>12, <1>13, <1>14, <1>15 DEF Next, RunSteps

-----------------------------------------------------------------------------
(* The steps of the loop.                                                  *)

\* The loop starts with nothing to show.
LEMMA SeenStarts == Init => SeenInv /\ FramesInv
PROOF
<1> SUFFICES ASSUME Init PROVE SeenInv /\ FramesInv
  OBVIOUS
<1>1. CoOK(co)
  BY DEF Init, CoOK
<1>2. FrameThere(owner) /\ page.serial \in Nat
  BY DEF Init, IdleOwner, OwnerAnswer, FrameThere
<1>3. act.at = "start" /\ acq.at = "none"
  BY DEF Init, Doing, NoAcquisition
<1>4. FaultFreeActionIsSeen
  BY DEF Init, NothingClosed, FaultFreeActionIsSeen
<1> QED  BY <1>1, <1>2, <1>3, <1>4 DEF SeenInv, FramesInv, Dispatching

\* Whatever happens to the page and the owner changes nothing of the dispatch.
LEMMA ElsewhereSeen ==
    ASSUME SeenInv, UNCHANGED <<deployment, co, acq, act, ad, closed>>, FrameThere(owner')
    PROVE  SeenInv'
PROOF BY DEF SeenInv, CoOK, Dispatching, FaultFreeActionIsSeen

\* The dispatch at another place of the loop.
LEMMA AtAcquisition ==
    ASSUME NEW m, ActShape(m), NEW t, t = [m EXCEPT !.at = "acquire"]
    PROVE  ActShape(t) /\ t.at = "acquire" /\ t.needs = m.needs /\ (Clean(t) <=> Clean(m))
PROOF BY DEF ActShape, LoopPlaces, Clean

\* The dispatch as it is acquired after it was sent.
LEMMA EnteredAct ==
    ASSUME NEW m, ActShape(m), NEW faulty, NEW status \in {"not_sent", "sent", "unknown"},
           NEW t, t = Entering(m, status, faulty)
    PROVE  /\ ActShape(t) /\ t.at = "acquire" /\ t.needs = m.needs
           /\ Clean(t) => status = "sent" /\ ~faulty
PROOF BY DEF Entering, ActShape, LoopPlaces, Clean

\* The purpose of an acquisition is one of these.
LEMMA PurposesAre ==
    /\ {"reset", "observe", "refresh", "post", "recover", "final"} = Purposes
    /\ {"reset", "observe", "refresh", "final"} \cap After = {}
    /\ {} \in Wanted /\ VerificationNeeds \subseteq Wanted
PROOF BY DEF Purposes, After, Wanted, VerificationNeeds

\* An acquisition of the loop that closes no dispatch.
LEMMA LookSeen ==
    ASSUME SeenInv, WorldInv, FrameThere(owner'), deployment' = deployment,
           NEW kind \in LookKinds, NEW requested \in Wanted, NEW then \in {"reset", "observe", "refresh"},
           NEW m, m = [act EXCEPT !.at = "acquire"],
           Starts(m, Begin(kind, requested, Absent, then))
    PROVE  SeenInv'
PROOF
<1>1. ActShape(m) /\ m.at = "acquire"
  BY AtAcquisition DEF WorldInv
<1>2. PICK route : route = Absent
  OBVIOUS
<1>3. Entry(deployment, co.seq, ad', m, kind, requested, route, then)
  BY <1>2 DEF Entry, Purposes, After
<1>4. Starts(m, Begin(kind, requested, route, then))
  BY <1>2
<1> QED  BY <1>1, <1>3, <1>4, StartSeen DEF SeenInv

\* The loop at rest.
LEMMA RestsSeen ==
    ASSUME SeenInv, WorldInv, FrameThere(owner'), acq' = acq, co' = co, act.at # "acquire",
           FaultFreeActionIsSeen', act'.at \notin {"bound", "probe", "step", "acquire", "recover"}
    PROVE  SeenInv'
PROOF
<1>1. acq'.at # "frame"
  BY DEF WorldInv
<1>2. CoOK(co')
  BY DEF SeenInv
<1> QED  BY <1>1, <1>2, RestSeen

\* reset.
LEMMA ResetSeen == ASSUME SeenInv, WorldInv, Reset PROVE SeenInv'
PROOF
<1>1. deployment' = deployment /\ owner' = owner /\ act.at = "start"
  BY DEF Reset
<1>2. FrameThere(owner')
  BY <1>1 DEF SeenInv
<1>3. CASE act' = Doing("ended", act.n) /\ UNCHANGED <<page, co, acq, ad, closed>>
  <2>1. act'.at = "ended"
    BY <1>3, DoingIs DEF Doing
  <2>2. FaultFreeActionIsSeen'
    BY <1>3 DEF SeenInv, FaultFreeActionIsSeen
  <2> QED  BY <1>1, <1>2, <1>3, <2>1, <2>2, RestsSeen
<1>4. CASE Starts([act EXCEPT !.at = "acquire"], Begin("policy", {}, "", "reset"))
  <2>1. PICK m, kind, requested, then :
           /\ Starts(m, Begin(kind, requested, Absent, then))
           /\ m = [act EXCEPT !.at = "acquire"] /\ kind = "policy" /\ requested = {} /\ then = "reset"
    BY <1>4, Zenon DEF Absent
  <2>2. kind \in LookKinds /\ requested \in Wanted
    BY <2>1, PurposesAre DEF LookKinds
  <2> QED  BY <1>1, <1>2, <2>1, <2>2, LookSeen
<1> QED  BY <1>3, <1>4 DEF Reset

\* _observe, and the refresh of a stale binding.
LEMMA LooksSeen == ASSUME SeenInv, WorldInv, Observe \/ Refresh PROVE SeenInv'
PROOF
<1>1. deployment' = deployment /\ owner' = owner
  BY DEF Observe, Refresh
<1>2. FrameThere(owner')
  BY <1>1 DEF SeenInv
<1>3. \E m, kind, requested, then :
           /\ Starts(m, Begin(kind, requested, Absent, then))
           /\ m = [act EXCEPT !.at = "acquire"] /\ kind \in LookKinds /\ requested \in Wanted
           /\ then \in {"reset", "observe", "refresh"}
  <2>1. CASE Observe
    <3>1. PICK purpose \in QueryPurposes :
             Starts([act EXCEPT !.at = "acquire"], Begin("policy", {Query(purpose)}, "", "observe"))
      BY <2>1 DEF Observe
    <3>2. PICK m, kind, requested, then :
           /\ Starts(m, Begin(kind, requested, Absent, then))
           /\ m = [act EXCEPT !.at = "acquire"] /\ kind = "policy" /\ requested = {Query(purpose)} /\ then = "observe"
      BY <3>1, Zenon DEF Absent
    <3>3. kind \in LookKinds /\ requested \in Wanted /\ then \in {"reset", "observe", "refresh"}
      BY <3>2 DEF LookKinds, Wanted
    <3> QED  BY ONLY <3>2, <3>3
  <2>2. CASE Refresh
    <3>1. PICK m, kind, requested, then :
           /\ Starts(m, Begin(kind, requested, Absent, then))
           /\ m = [act EXCEPT !.at = "acquire"] /\ kind = "refresh" /\ requested = {} /\ then = "refresh"
      BY <2>2, Zenon DEF Absent, Refresh
    <3>2. kind \in LookKinds /\ requested \in Wanted /\ then \in {"reset", "observe", "refresh"}
      BY <3>1, PurposesAre DEF LookKinds
    <3> QED  BY ONLY <3>1, <3>2
  <2> QED  BY <2>1, <2>2
<1> QED  BY <1>1, <1>2, <1>3, LookSeen

\* _recover_post_dispatch_observation.
LEMMA RecoverSeen == ASSUME SeenInv, WorldInv, Recover PROVE SeenInv'
PROOF
<1>1. deployment' = deployment /\ owner' = owner /\ ad' = ad /\ act.at = "recover"
  BY DEF Recover
<1>2. FrameThere(owner') /\ act.needs \in VerificationNeeds /\ CoOK(co) /\ FaultFreeActionIsSeen
  BY <1>1 DEF SeenInv
<1>3. PICK m, kind, requested, route, then :
           /\ Starts(m, Begin(kind, requested, route, then)) /\ m = [act EXCEPT !.at = "acquire"]
           /\ kind = "post" /\ requested = act.needs /\ route = Absent /\ then = "recover"
  BY Zenon DEF Absent, Recover
<1>4. ActShape(m) /\ m.at = "acquire" /\ m.needs = act.needs /\ (Clean(m) <=> Clean(act))
  BY <1>3, AtAcquisition DEF WorldInv
<1>5. Clean(act) /\ deployment = "gym" => FrameFree(co.seq + 1, ad')
  <2>1. Clean(act) /\ deployment = "gym" => Recoverable(co.seq, ad)
    BY <1>1 DEF SeenInv
  <2>2. co.seq \in Nat
    BY <1>2 DEF CoOK
  <2> QED  BY <1>1, <2>1, <2>2 DEF Recoverable, FrameFree
<1>6. Entry(deployment, co.seq, ad', m, kind, requested, route, then)
  <2>1. kind \in LookKinds /\ requested \in Wanted /\ then \in Purposes
    BY <1>2, <1>3, PurposesAre DEF LookKinds
  <2> QED  BY <1>2, <1>3, <1>4, <1>5, <2>1 DEF Entry
<1> QED  BY <1>1, <1>2, <1>3, <1>4, <1>6, StartSeen

\* _select: an action is bound to what was shown.
LEMMA SelectSeen == ASSUME SeenInv, WorldInv, SelectAction PROVE SeenInv'
PROOF
<1>1. PICK obs \in co.world, needs \in VerificationNeeds :
         act' = [at |-> "bound", n |-> act.n + 1, binding |-> obs, needs |-> needs,
                 status |-> "not_sent", faulty |-> FALSE]
  BY DEF SelectAction
<1>2. act'.at = "bound" /\ act'.binding = obs /\ act'.needs = needs
  BY ONLY <1>1
<1>3. IsSource(obs.source)
  BY DEF SeenInv, CoOK
<1>4. closed' = NothingClosed /\ UNCHANGED <<deployment, page, co, acq, ad, owner>>
  BY DEF SelectAction
<1>5. FaultFreeActionIsSeen'
  BY <1>4 DEF FaultFreeActionIsSeen, NothingClosed
<1>6. acq.at # "frame"
  BY DEF SelectAction, WorldInv
<1> QED  BY <1>2, <1>3, <1>4, <1>5, <1>6 DEF SeenInv, Dispatching

\* A dispatch that was not sent is not closed as one that was.
LEMMA NotSentSeen ==
    ASSUME SeenInv, WorldInv, FrameThere(owner'), act.at # "acquire", NEW error, NotSent(error)
    PROVE  SeenInv'
PROOF
<1>1. closed'.status = "not_sent"
  BY DEF NotSent
<1>2. act'.at \in {"refresh", "idle", "ended"} /\ UNCHANGED <<co, acq>>
  BY DoingIs DEF NotSent, Doing
<1>3. FaultFreeActionIsSeen'
  BY <1>1 DEF FaultFreeActionIsSeen
<1> QED  BY <1>2, <1>3, RestsSeen

\* The acquisition after a dispatch that was, or may have been, sent.
LEMMA SentSeen ==
    ASSUME SeenInv, WorldInv, FrameThere(owner'), deployment' = deployment,
           act.at \in {"bound", "probe", "step"}, NEW status \in {"sent", "unknown"}, NEW faulty,
           Sent(status, faulty),
           deployment = "gym" /\ status = "sent" /\ ~faulty => FrameHeld(co.seq + 1, ad')
    PROVE  SeenInv'
PROOF
<1>1. PICK m, kind, requested, route, then :
           /\ Starts(m, Begin(kind, requested, route, then)) /\ m = Entering(act, status, faulty)
           /\ kind = "post" /\ requested = act.needs /\ route = act.binding.source /\ then = "post"
  BY DEF Sent, Entering
<1>2. ActShape(m) /\ m.at = "acquire" /\ m.needs = act.needs /\ (Clean(m) => status = "sent" /\ ~faulty)
  BY <1>1, EnteredAct DEF WorldInv
<1>3. act.needs \in VerificationNeeds /\ IsSource(act.binding.source) /\ CoOK(co) /\ FaultFreeActionIsSeen
  BY DEF SeenInv, Dispatching
<1>4. kind \in LookKinds /\ requested \in Wanted /\ then \in Purposes
  BY <1>1, <1>3, PurposesAre DEF LookKinds
<1>5. Entry(deployment, co.seq, ad', m, kind, requested, route, then)
  BY <1>1, <1>2, <1>3, <1>4 DEF Entry
<1> QED  BY <1>1, <1>2, <1>3, <1>5, StartSeen

\* The requests of an acquisition that closes a dispatch, in its first round.
LEMMA SafeAsks ==
    ASSUME NEW a, Safe(a), a.round = 1
    PROVE  Asked(a) = {[source |-> "dom", needs |-> {Sole(a.requested)}]}
PROOF
<1>1. PICK reason, x : SafeStart(a, reason) /\ x = Sole(a.requested)
  BY DEF Safe
<1>2. PICK plan : plan = a.plan
  OBVIOUS
<1>3. plan.selections = <<Selection("dom", "required", reason, {x.id})>> /\ plan.needs = {x}
  BY <1>1, <1>2 DEF SafeStart, DomOnly
<1>4. PICK s : s = Selection("dom", "required", reason, {x.id})
  OBVIOUS
<1>5. s.source = "dom" /\ s.needs = {x.id}
  BY <1>4 DEF Selection
<1>6. DOMAIN plan.selections = {1} /\ plan.selections[1] = s
  BY <1>3, <1>4
<1>7. RequestsOf(plan) = {[source |-> "dom", needs |-> {x}]}
  BY <1>3, <1>5, <1>6 DEF RequestsOf
<1> QED  BY <1>1, <1>2, <1>7 DEF Asked

\* What a frame tells such an acquisition.
LEMMA SafeShown ==
    ASSUME NEW a, Safe(a), a.round = 1, NEW frame, NEW structured,
           NEW outcome \in Projected(Asked(a), frame, structured)
    PROVE  DomShown(outcome.results, {Sole(a.requested).id})
PROOF
<1>1. PICK x, request, requests :
         x = Sole(a.requested) /\ request = [source |-> "dom", needs |-> {x}] /\ requests = {request}
  OBVIOUS
<1>2. requests = Asked(a)
  BY <1>1, SafeAsks
<1>3. outcome \in Projected(requests, frame, structured)
  BY <1>2
<1> QED  BY <1>1, <1>3, DomTold

\* A round asks sources that are there.
LEMMA AsksSources ==
    ASSUME NEW a, LookOK(a)
    PROVE  SourcesOf(Asked(a)) \subseteq {"dom", "visual"}
PROOF
<1>1. PlanOK(a.plan)
  BY DEF LookOK
<1>2. \A r \in Asked(a) : IsSource(r.source)
  BY <1>1, AskedIs
<1> QED  BY <1>2 DEF SourcesOf, IsSource

\* A round that failed for one reason or another.
LEMMA FailSeen ==
    ASSUME SeenInv, WorldInv, act.at = "acquire", FrameThere(owner'), deployment' = deployment,
           NEW status \in {"failed", "unavailable"}, NEW faulty, NEW layer,
           CaptureAnswered(act, acq, Reading(AllFail(Asked(acq), status), faulty, layer)),
           Clean(act) /\ ~faulty =>
               /\ acq.then = "post" /\ deployment = "gym" => FrameHeld(co.seq, ad') /\ ad'.pendFor = co.seq
               /\ acq.then \notin {"recover", "final"}
    PROVE  SeenInv'
PROOF
<1>1. PICK outcome : outcome = Reading(AllFail(Asked(acq), status), faulty, layer)
  OBVIOUS
<1>2. outcome.results = AllFail(Asked(acq), status) /\ outcome.faulty = faulty
  BY <1>1 DEF Reading
<1>3. Told(outcome.results, Asked(acq))
  BY <1>2, FailTold
<1>4. Answering(deployment, co.seq, ad', act, acq, outcome)
  BY <1>2 DEF Answering
<1>5. CaptureAnswered(act, acq, outcome)
  BY <1>1
<1>6. ActShape(act) /\ AcqShape(acq)
  BY DEF WorldInv
<1> QED  BY <1>3, <1>4, <1>5, <1>6, AnswerSeen

\* A round that a frame answers.
LEMMA FrameSeen ==
    ASSUME SeenInv, WorldInv, act.at = "acquire", FrameThere(owner'), deployment' = deployment,
           NEW frame, NEW structured, NEW outcome \in Projected(Asked(acq), frame, structured),
           NEW told, told.results = outcome.results, CaptureAnswered(act, acq, told),
           Clean(act) /\ deployment = "gym" =>
               /\ acq.then = "post" => FrameHeld(co.seq, ad') /\ ad'.pendFor = co.seq
               /\ acq.then \in {"recover", "final"} => FrameFree(co.seq, ad')
    PROVE  SeenInv'
PROOF
<1>1. Looking(deployment, co.seq, ad, act, acq)
  BY DEF SeenInv
<1>2. PICK a : a = acq
  OBVIOUS
<1>3. LookOK(a)
  BY <1>1, <1>2 DEF Looking
<1>4. PICK requests : requests = Asked(a)
  OBVIOUS
<1>5. SourcesOf(requests) \subseteq {"dom", "visual"} /\ outcome \in Projected(requests, frame, structured)
  BY <1>2, <1>3, <1>4, AsksSources
<1>6. Told(told.results, Asked(acq))
  BY <1>2, <1>4, <1>5, ProjectedTold
<1>7. Clean(act) /\ a.then \in {"recover", "final"} /\ a.round = 1
        => DomShown(told.results, {Sole(a.requested).id})
  <2> SUFFICES ASSUME Clean(act), a.then \in {"recover", "final"}, a.round = 1
               PROVE  DomShown(outcome.results, {Sole(a.requested).id})
    OBVIOUS
  <2>1. Safe(a)
    BY <1>1, <1>2 DEF Looking
  <2> QED  BY <1>2, <2>1, SafeShown
<1>8. Answering(deployment, co.seq, ad', act, acq, told)
  BY <1>2, <1>7 DEF Answering
<1>9. ActShape(act) /\ AcqShape(acq)
  BY DEF WorldInv
<1> QED  BY <1>6, <1>8, <1>9, AnswerSeen

\* A reading with another mark of its layer has the same results.
LEMMA ProjectedReads ==
    ASSUME NEW requests, NEW frame, NEW structured, NEW outcome \in Projected(requests, frame, structured),
           NEW layer
    PROVE  [outcome EXCEPT !.layer = layer].results = outcome.results
PROOF
<1>1. \E results, faulty, l : outcome = Reading(results, faulty, l)
  BY DEF Projected
<1> QED  BY <1>1 DEF Reading

\* acquire and acquire_group of the adapters that never suspend.
LEMMA SessionAcquiresSeen == ASSUME SeenInv, WorldInv, SessionAcquires PROVE SeenInv'
PROOF
<1>1. deployment' = deployment /\ owner' = owner /\ deployment # "gym" /\ act.at = "acquire"
  BY DEF SessionAcquires, WorldInv
<1>2. FrameThere(owner')
  BY <1>1 DEF SeenInv
<1>3. PICK structured :
        \/ \E status \in {"failed", "unavailable"} :
              CaptureAnswered(act, acq, Reading(AllFail(Asked(acq), status), TRUE, FALSE))
        \/ \E outcome \in Projected(Asked(acq), NextFrame, structured), layer \in BOOLEAN :
              CaptureAnswered(act, acq, [outcome EXCEPT !.layer = layer])
  BY DEF SessionAcquires
<1>4. CASE \E status \in {"failed", "unavailable"} :
              CaptureAnswered(act, acq, Reading(AllFail(Asked(acq), status), TRUE, FALSE))
  <2>1. PICK status \in {"failed", "unavailable"}, faulty \in BOOLEAN, layer \in BOOLEAN :
            faulty /\ CaptureAnswered(act, acq, Reading(AllFail(Asked(acq), status), faulty, layer))
    BY <1>4
  <2> QED  BY <1>1, <1>2, <2>1, FailSeen
<1>5. CASE \E outcome \in Projected(Asked(acq), NextFrame, structured), layer \in BOOLEAN :
              CaptureAnswered(act, acq, [outcome EXCEPT !.layer = layer])
  <2>1. PICK outcome \in Projected(Asked(acq), NextFrame, structured), layer \in BOOLEAN :
              CaptureAnswered(act, acq, [outcome EXCEPT !.layer = layer])
    BY <1>5
  <2>2. PICK told : told = [outcome EXCEPT !.layer = layer]
    OBVIOUS
  <2>3. told.results = outcome.results
    BY <2>2, ProjectedReads
  <2>4. CaptureAnswered(act, acq, told)
    BY <2>1, <2>2
  <2> QED  BY <1>1, <1>2, <2>3, <2>4, FrameSeen
<1> QED  BY <1>3, <1>4, <1>5

\* execute of the adapters that never suspend.
LEMMA SessionExecutesSeen == ASSUME SeenInv, WorldInv, SessionExecutes PROVE SeenInv'
PROOF
<1>1. deployment' = deployment /\ owner' = owner /\ deployment # "gym" /\ act.at = "bound"
  BY DEF SessionExecutes
<1>2. FrameThere(owner')
  BY <1>1 DEF SeenInv
<1>3. \/ \E error : NotSent(error)
      \/ \E status \in {"sent", "unknown"}, faulty \in BOOLEAN : Sent(status, faulty)
  BY DEF SessionExecutes
<1> QED  BY <1>1, <1>2, <1>3, NotSentSeen, SentSeen

\* The end of a dispatch whose fate is unknown.
LEMMA UnresolvedSeen ==
    ASSUME SeenInv, WorldInv, FrameThere(owner'), act.at \in {"health", "health_probe"},
           NEW error, Close(act, {}, error), acq' = acq, co' = co,
           act'.at \in {"ended", "blocked"}
    PROVE  SeenInv'
PROOF
<1>1. act.status = "unknown"
  BY DEF WorldInv, ActOK
<1>2. closed'.status = "unknown"
  BY <1>1 DEF Close
<1>3. FaultFreeActionIsSeen'
  BY <1>2 DEF FaultFreeActionIsSeen
<1> QED  BY <1>3, RestsSeen

\* _unresolved_dispatch_step without a health probe.
LEMMA SessionUnresolvedSeen == ASSUME SeenInv, WorldInv, SessionUnresolved PROVE SeenInv'
PROOF
<1>1. owner' = owner /\ act.at = "health" /\ acq' = acq /\ co' = co
      /\ (\E error : Close(act, {}, error)) /\ act' = Doing("ended", act.n)
  BY DEF SessionUnresolved
<1>2. FrameThere(owner') /\ act'.at = "ended"
  BY <1>1 DEF SeenInv, Doing
<1> QED  BY <1>1, <1>2, UnresolvedSeen

-----------------------------------------------------------------------------
(* The steps of the gym deployment.                                        *)

\* The adapter after its frame was claimed and projected.
LEMMA ClaimedAd ==
    ASSUME NEW d, AdShape(d)
    PROVE  /\ Claimed(d).err = d.err /\ Claimed(d).pend = d.pend /\ Claimed(d).pendFor = co.seq
           /\ \A dom, visual :
                 LET e == [Claimed(d) EXCEPT !.dom = dom, !.visual = visual]
                 IN  e.err = d.err /\ e.pend = d.pend /\ e.pendFor = co.seq
PROOF
<1>1. d \in [dom : {d.dom}, visual : {d.visual}, pend : {d.pend}, pendFor : {d.pendFor},
           before : {d.before}, err : {d.err}, final : {d.final}]
  BY DEF AdShape
<1>2. PICK c : c = Claimed(d)
  OBVIOUS
<1>3. c = [d EXCEPT !.pendFor = co.seq]
  BY <1>2 DEF Claimed
<1>4. /\ c.err = d.err /\ c.pend = d.pend /\ c.pendFor = co.seq
      /\ \A dom, visual : LET e == [c EXCEPT !.dom = dom, !.visual = visual]
                          IN  e.err = d.err /\ e.pend = d.pend /\ e.pendFor = co.seq
  BY ONLY <1>1, <1>3
<1> QED  BY ONLY <1>2, <1>4

\* _project_requests, for an acquisition that has the frame to itself.
LEMMA ProjectsSeen ==
    ASSUME SeenInv, WorldInv, act.at = "acquire", FrameThere(owner'), deployment' = deployment,
           NEW d, AdShape(d), GymProjects(d),
           Clean(act) => /\ acq.then = "post" => d.err # "navigation_pending"
                         /\ acq.then \in {"recover", "final"} =>
                               d.err \notin {"navigation_pending", "acquisition_unstable"}
    PROVE  SeenInv'
PROOF
<1>1. CASE CaptureAnswered(act, acq, Reading(AllFail(Asked(acq), "failed"), TRUE, FALSE))
  <2>1. PICK status \in {"failed", "unavailable"}, faulty \in BOOLEAN, layer \in BOOLEAN :
            faulty /\ CaptureAnswered(act, acq, Reading(AllFail(Asked(acq), status), faulty, layer))
    BY <1>1
  <2> QED  BY <2>1, FailSeen
<1>2. ASSUME NEW outcome \in Projected(Asked(acq), Claimed(d).pend, TRUE), NEW dom, NEW visual,
             ad' = [Claimed(d) EXCEPT !.dom = dom, !.visual = visual],
             CaptureAnswered(act, acq, outcome)
      PROVE  SeenInv'
  <2>1. ad'.err = d.err /\ ad'.pend = d.pend /\ ad'.pendFor = co.seq
    BY <1>2, ClaimedAd
  <2>2. Clean(act) /\ deployment = "gym" =>
               /\ acq.then = "post" => FrameHeld(co.seq, ad') /\ ad'.pendFor = co.seq
               /\ acq.then \in {"recover", "final"} => FrameFree(co.seq, ad')
    BY <2>1 DEF FrameHeld, FrameFree
  <2> QED  BY <1>2, <2>2, FrameSeen
<1>3. \/ CaptureAnswered(act, acq, Reading(AllFail(Asked(acq), "failed"), TRUE, FALSE))
      \/ \E outcome \in Projected(Asked(acq), Claimed(d).pend, TRUE) :
            /\ \E dom, visual : ad' = [Claimed(d) EXCEPT !.dom = dom, !.visual = visual]
            /\ CaptureAnswered(act, acq, outcome)
  BY Zenon DEF GymProjects
<1> QED  BY <1>1, <1>2, <1>3

\* An acquisition that waits for a frame is the one that it was.
LEMMA WaitingLooks ==
    ASSUME NEW g, NEW seq, NEW d, NEW m, NEW a, AcqShape(a), Looking(g, seq, d, m, a),
           ~(Clean(m) /\ a.then = "post" /\ g = "gym"), NEW q, q = [a EXCEPT !.at = "frame"]
    PROVE  Looking(g, seq, d, m, q)
PROOF
<1>1. /\ q.kind = a.kind /\ q.requested = a.requested /\ q.plan = a.plan /\ q.round = a.round
      /\ q.results = a.results /\ q.then = a.then
  BY ONLY AcqShape(a), q = [a EXCEPT !.at = "frame"] DEF AcqShape
<1>2. LookOK(q) <=> LookOK(a)
  BY <1>1 DEF LookOK
<1>3. Asked(q) = Asked(a)
  BY <1>1 DEF Asked
<1>4. \A reason : SafeStart(q, reason) <=> SafeStart(a, reason)
  BY <1>1 DEF SafeStart
<1>5. DomHeld(q) <=> DomHeld(a)
  BY <1>1 DEF DomHeld
<1>6. Safe(q) <=> Safe(a)
  BY <1>1, <1>3, <1>4, <1>5 DEF Safe
<1> QED  BY <1>1, <1>2, <1>6 DEF Looking

\* acquire_group: the frame at hand, or a capture of its own.
LEMMA GymAcquiresSeen == ASSUME SeenInv, WorldInv, FrameThere(owner'), GymAcquires PROVE SeenInv'
PROOF
<1>1. deployment = "gym" /\ deployment' = deployment /\ acq.at = "ask" /\ act.at = "acquire"
  BY DEF GymAcquires, WorldInv
<1>2. AdShape(ad) /\ AcqShape(acq) /\ ActShape(act)
  BY DEF WorldInv
<1>3. Looking(deployment, co.seq, ad, act, acq) /\ co.seq # 0 /\ CoOK(co) /\ FaultFreeActionIsSeen
  BY <1>1 DEF SeenInv, Looking
<1>4. PICK guarded \in BOOLEAN : guarded <=> ad.err \in {"navigation_pending", "acquisition_unstable"}
  OBVIOUS
<1>5. PICK mine : mine = IF ad.pendFor = 0 /\ (guarded \/ ad.pend # NoFrame) THEN co.seq ELSE ad.pendFor
  OBVIOUS
<1>6. PICK claimed : claimed = [ad EXCEPT !.pendFor = mine]
  OBVIOUS
<1>7. /\ claimed.pendFor = mine /\ claimed.err = ad.err /\ claimed.pend = ad.pend /\ AdShape(claimed)
  BY ONLY <1>2, <1>6 DEF AdShape
<1>8. \/ /\ guarded /\ ~Recapturable(ad)
         /\ CaptureAnswered(act, acq, Reading(AllFail(Asked(acq), "failed"),
                                              ad.err = "navigation_pending", FALSE))
         /\ ad' = claimed
      \/ /\ ~(guarded /\ ~Recapturable(ad)) /\ mine # co.seq
         /\ acq' = [acq EXCEPT !.at = "frame"] /\ UNCHANGED <<co, act, ad, closed>>
      \/ /\ ~(guarded /\ ~Recapturable(ad)) /\ mine = co.seq /\ GymProjects(claimed)
  <2>1. claimed = [ad EXCEPT !.pendFor = IF @ = 0 /\ (ad.err \in {"navigation_pending", "acquisition_unstable"} \/ ad.pend # NoFrame)
                                          THEN co.seq ELSE @]
    BY <1>4, <1>5, <1>6
  <2> QED  BY <1>4, <1>7, <2>1, Zenon DEF GymAcquires
<1>9. CASE /\ guarded /\ ~Recapturable(ad)
           /\ CaptureAnswered(act, acq, Reading(AllFail(Asked(acq), "failed"),
                                              ad.err = "navigation_pending", FALSE))
           /\ ad' = claimed
  <2>1. PICK status, faulty, layer :
          /\ status = "failed" /\ faulty = (ad.err = "navigation_pending") /\ layer = FALSE
    OBVIOUS
  <2>2. CaptureAnswered(act, acq, Reading(AllFail(Asked(acq), status), faulty, layer))
    BY <1>9, <2>1
  <2>3. ~faulty => ad.err = "acquisition_unstable" /\ ad.pendFor \in {0, co.seq}
    BY <1>4, <1>9, <2>1 DEF Recapturable, RecapturableOnce
  <2>4. Clean(act) /\ ~faulty =>
               /\ acq.then = "post" /\ deployment = "gym" => FrameHeld(co.seq, ad') /\ ad'.pendFor = co.seq
               /\ acq.then \notin {"recover", "final"}
    <3> SUFFICES ASSUME Clean(act), ~faulty
                 PROVE  FrameHeld(co.seq, ad') /\ ad'.pendFor = co.seq /\ acq.then \notin {"recover", "final"}
      OBVIOUS
    <3>1. acq.then \notin {"recover", "final"}
      BY <1>1, <1>3, <2>3 DEF Looking, FrameFree
    <3>2. ad'.pendFor = co.seq /\ ad'.err = ad.err
      BY <1>4, <1>5, <1>7, <1>9, <2>3
    <3> QED  BY <2>3, <3>1, <3>2 DEF FrameHeld
  <2>5. status \in {"failed", "unavailable"}
    BY <2>1
  <2> QED  BY <1>1, <2>2, <2>4, <2>5, FailSeen
<1>10. CASE /\ ~(guarded /\ ~Recapturable(ad)) /\ mine # co.seq
            /\ acq' = [acq EXCEPT !.at = "frame"] /\ UNCHANGED <<co, act, ad, closed>>
  <2>1. ~(Clean(act) /\ acq.then = "post" /\ deployment = "gym")
    <3>1. Clean(act) /\ acq.then = "post" => FrameHeld(co.seq, ad)
      BY <1>1, <1>3 DEF Looking
    <3>2. FrameHeld(co.seq, ad) => mine = co.seq
      BY <1>3, <1>4, <1>5 DEF FrameHeld
    <3> QED  BY <1>10, <3>1, <3>2
  <2>2. PICK q : q = [acq EXCEPT !.at = "frame"]
    OBVIOUS
  <2>3. Looking(deployment, co.seq, ad, act, q)
    BY <1>2, <1>3, <2>1, <2>2, WaitingLooks
  <2>4. FaultFreeActionIsSeen' /\ CoOK(co')
    BY <1>3, <1>10 DEF FaultFreeActionIsSeen, CoOK
  <2> QED  BY <1>1, <1>10, <2>2, <2>3, <2>4 DEF SeenInv, Dispatching
<1>11. CASE ~(guarded /\ ~Recapturable(ad)) /\ mine = co.seq /\ GymProjects(claimed)
  <2>1. Clean(act) => /\ acq.then = "post" => claimed.err # "navigation_pending"
                      /\ acq.then \in {"recover", "final"} =>
                            claimed.err \notin {"navigation_pending", "acquisition_unstable"}
    <3> SUFFICES ASSUME Clean(act)
                 PROVE  /\ acq.then = "post" => ad.err # "navigation_pending"
                        /\ acq.then \in {"recover", "final"} =>
                              ad.err \notin {"navigation_pending", "acquisition_unstable"}
      BY <1>7
    <3>1. acq.then = "post" => FrameHeld(co.seq, ad)
      BY <1>1, <1>3 DEF Looking
    <3>2. acq.then \in {"recover", "final"} => FrameFree(co.seq, ad)
      BY <1>1, <1>3 DEF Looking
    <3>3. FrameFree(co.seq, ad) => ad.err # "acquisition_unstable"
      BY <1>5, <1>11 DEF FrameFree
    <3> QED  BY <3>1, <3>2, <3>3 DEF FrameHeld, FrameFree
  <2> QED  BY <1>1, <1>7, <1>11, <2>1, ProjectsSeen
<1> QED  BY <1>8, <1>9, <1>10, <1>11

\* The frame that was waited for.
LEMMA FrameAnsweredSeen == ASSUME SeenInv, WorldInv, FrameThere(owner'), FrameAnswered PROVE SeenInv'
PROOF
<1>1. deployment' = deployment /\ acq.at = "frame" /\ act.at = "acquire" /\ AdShape(ad)
  BY DEF FrameAnswered, WorldInv
<1>2. CASE GymProjects(Prepared(ad, owner.answer.frame))
  <2>1. PICK d : d = Prepared(ad, owner.answer.frame)
    OBVIOUS
  <2>2. PICK frame : frame = owner.answer.frame
    OBVIOUS
  <2>3. d = [ad EXCEPT !.pend = frame, !.pendFor = 0, !.err = "none"]
    BY <2>1, <2>2 DEF Prepared
  <2>4. AdShape(d) /\ d.err = "none"
    BY ONLY <1>1, <2>3 DEF AdShape
  <2> QED  BY <1>1, <1>2, <2>1, <2>4, ProjectsSeen
<1>3. CASE CaptureAnswered(act, acq, Reading(AllFail(Asked(acq), "failed"), TRUE, FALSE))
  <2>1. PICK status \in {"failed", "unavailable"}, faulty \in BOOLEAN, layer \in BOOLEAN :
            faulty /\ CaptureAnswered(act, acq, Reading(AllFail(Asked(acq), status), faulty, layer))
    BY <1>3
  <2> QED  BY <1>1, <2>1, FailSeen
<1> QED  BY <1>2, <1>3 DEF FrameAnswered

\* execute: the probe of the page.
LEMMA GymExecutesSeen == ASSUME SeenInv, WorldInv, FrameThere(owner'), GymExecutes PROVE SeenInv'
PROOF
<1>1. act.at = "bound" /\ deployment' = deployment /\ ad' = ad
  BY DEF GymExecutes
<1>2. CASE \E error : NotSent(error)
  BY <1>1, <1>2, NotSentSeen
<1>3. CASE act' = [act EXCEPT !.at = "probe"] /\ UNCHANGED <<co, acq, closed>>
  <2>1. act'.at = "probe" /\ act'.binding = act.binding /\ act'.needs = act.needs
    BY <1>3 DEF WorldInv, ActShape
  <2>2. acq.at # "frame" /\ Dispatching(ad, act) /\ CoOK(co) /\ FaultFreeActionIsSeen
    BY <1>1 DEF WorldInv, SeenInv
  <2> QED  BY <1>1, <1>3, <2>1, <2>2 DEF SeenInv, Dispatching, CoOK, FaultFreeActionIsSeen
<1> QED  BY <1>2, <1>3 DEF GymExecutes

\* A current binding is sent; the frame before it is gone.
LEMMA ProbeAnsweredSeen == ASSUME SeenInv, WorldInv, FrameThere(owner'), ProbeAnswered PROVE SeenInv'
PROOF
<1>1. act.at = "probe" /\ deployment' = deployment
  BY DEF ProbeAnswered
<1>2. CASE \E error : NotSent(error)
  BY <1>1, <1>2, NotSentSeen
<1>3. CASE /\ ad' = [ad EXCEPT !.pend = NoFrame, !.pendFor = 0, !.err = "none", !.before = TRUE]
           /\ act' = [act EXCEPT !.at = "step"] /\ UNCHANGED <<co, acq, closed>>
  <2>1. act'.at = "step" /\ act'.binding = act.binding /\ act'.needs = act.needs
    BY <1>3 DEF WorldInv, ActShape
  <2>2. acq.at # "frame" /\ Dispatching(ad, act) /\ CoOK(co) /\ FaultFreeActionIsSeen
    BY <1>1 DEF WorldInv, SeenInv
  <2>3. ad'.pendFor = 0
    BY <1>3 DEF WorldInv, AdShape
  <2> QED  BY <1>1, <1>3, <2>1, <2>2, <2>3 DEF SeenInv, Dispatching, CoOK, FaultFreeActionIsSeen
<1> QED  BY <1>2, <1>3 DEF ProbeAnswered

\* The transition has come to rest, or not.
LEMMA StepAnsweredSeen == ASSUME SeenInv, WorldInv, FrameThere(owner'), StepAnswered PROVE SeenInv'
PROOF
<1>1. act.at = "step" /\ deployment' = deployment /\ AdShape(ad) /\ ad.pendFor = 0 /\ FrameThere(owner)
  BY DEF StepAnswered, WorldInv, SeenInv, Dispatching
<1>2. CASE /\ Has({"frame"}) /\ ad' = Prepared(ad, owner.answer.frame) /\ Sent("sent", FALSE)
  <2>1. PICK frame : frame = owner.answer.frame
    OBVIOUS
  <2>2. ad' = [ad EXCEPT !.pend = frame, !.pendFor = 0, !.err = "none"]
    BY <1>2, <2>1 DEF Prepared
  <2>3. ad'.pend = frame /\ ad'.pendFor = 0 /\ ad'.err = "none"
    BY ONLY <1>1, <2>2 DEF AdShape
  <2>4. frame # NoFrame
    BY <1>1, <1>2, <2>1 DEF FrameThere, Has
  <2>5. FrameHeld(co.seq + 1, ad')
    BY <2>3, <2>4 DEF FrameHeld
  <2>6. PICK status \in {"sent", "unknown"}, faulty \in BOOLEAN : Sent(status, faulty)
    BY <1>2
  <2> QED  BY <1>1, <2>5, <2>6, SentSeen
<1>3. CASE /\ Has({"navigation_pending", "acquisition_unstable"})
           /\ ad' = [ad EXCEPT !.err = owner.answer.kind]
           /\ Sent("sent", Has({"navigation_pending"}))
  <2>1. PICK kind : kind = owner.answer.kind
    OBVIOUS
  <2>2. ad'.err = kind /\ ad'.pendFor = 0
    BY ONLY <1>1, <1>3, <2>1 DEF AdShape
  <2>3. PICK faulty, status : faulty = Has({"navigation_pending"}) /\ status = "sent"
    OBVIOUS
  <2>4. Sent(status, faulty) /\ status \in {"sent", "unknown"}
    BY <1>3, <2>3
  <2>5. ~faulty => FrameHeld(co.seq + 1, ad')
    BY <1>3, <2>1, <2>2, <2>3 DEF Has, FrameHeld
  <2> QED  BY <1>1, <2>4, <2>5, SentSeen
<1>4. CASE Sent("unknown", TRUE)
  <2>1. PICK status \in {"sent", "unknown"}, faulty \in BOOLEAN : faulty /\ Sent(status, faulty)
    BY <1>4
  <2> QED  BY <1>1, <2>1, SentSeen
<1> QED  BY <1>2, <1>3, <1>4 DEF StepAnswered

\* finalize: the answer to the user.
LEMMA FinalizeSeen == ASSUME SeenInv, WorldInv, FrameThere(owner'), Finalize PROVE SeenInv'
PROOF
<1>1. act.at = "idle" /\ act' = [act EXCEPT !.at = "final", !.n = 0] /\ UNCHANGED <<deployment, co, acq, closed>>
  BY DEF Finalize
<1>2. act'.at = "final"
  BY <1>1 DEF WorldInv, ActShape
<1>3. FaultFreeActionIsSeen'
  BY <1>1 DEF SeenInv, FaultFreeActionIsSeen
<1> QED  BY <1>1, <1>2, <1>3, RestsSeen

\* The acquisition after the answer to the user.
LEMMA FinalStartsSeen ==
    ASSUME SeenInv, WorldInv, FrameThere(owner'), deployment' = deployment,
           NEW status \in {"sent", "unknown"}, NEW faulty, FinalStarts(status, faulty),
           status = "sent" /\ ~faulty => FrameFree(co.seq + 1, ad')
    PROVE  SeenInv'
PROOF
<1>1. PICK m, kind, requested, route, then :
           /\ Starts(m, Begin(kind, requested, route, then)) /\ m = Entering(act, status, faulty)
           /\ kind = "post" /\ requested = {} /\ route = "dom" /\ then = "final"
  BY DEF FinalStarts, Entering
<1>2. ActShape(m) /\ m.at = "acquire" /\ m.needs = act.needs /\ (Clean(m) => status = "sent" /\ ~faulty)
  BY <1>1, EnteredAct DEF WorldInv
<1>3. CoOK(co) /\ FaultFreeActionIsSeen
  BY DEF SeenInv
<1>4. kind \in LookKinds /\ requested \in Wanted /\ then \in Purposes
  BY <1>1, PurposesAre DEF LookKinds
<1>5. route = Absent \/ IsSource(route)
  BY <1>1 DEF IsSource
<1>6. Entry(deployment, co.seq, ad', m, kind, requested, route, then)
  BY <1>1, <1>2, <1>4, <1>5 DEF Entry, After
<1> QED  BY <1>1, <1>2, <1>3, <1>6, StartSeen

\* The answer to the user was given, or may have been.
LEMMA FinalAnsweredSeen == ASSUME SeenInv, WorldInv, FrameThere(owner'), FinalAnswered PROVE SeenInv'
PROOF
<1>1. deployment' = deployment /\ AdShape(ad)
  BY DEF FinalAnswered, WorldInv
<1>2. CASE ad' = Prepared(ad, owner.answer.frame) /\ FinalStarts("sent", FALSE)
  <2>1. PICK frame : frame = owner.answer.frame
    OBVIOUS
  <2>2. ad' = [ad EXCEPT !.pend = frame, !.pendFor = 0, !.err = "none"]
    BY <1>2, <2>1 DEF Prepared
  <2>3. ad'.err = "none"
    BY ONLY <1>1, <2>2 DEF AdShape
  <2>4. FrameFree(co.seq + 1, ad')
    BY <2>3 DEF FrameFree
  <2>5. PICK status \in {"sent", "unknown"}, faulty \in BOOLEAN : FinalStarts(status, faulty)
    BY <1>2
  <2> QED  BY <1>1, <2>4, <2>5, FinalStartsSeen
<1>3. CASE FinalStarts("unknown", TRUE)
  <2>1. PICK status \in {"sent", "unknown"}, faulty \in BOOLEAN : faulty /\ FinalStarts(status, faulty)
    BY <1>3
  <2> QED  BY <1>1, <2>1, FinalStartsSeen
<1> QED  BY <1>2, <1>3 DEF FinalAnswered

\* The health of the session.
LEMMA HealthSeen == ASSUME SeenInv, WorldInv, FrameThere(owner'), Probes \/ HealthAnswered PROVE SeenInv'
PROOF
<1>1. CASE Probes
  <2>1. act.at = "health" /\ act' = [act EXCEPT !.at = "health_probe"] /\ UNCHANGED <<deployment, co, acq, closed>>
    BY <1>1 DEF Probes
  <2>2. act'.at = "health_probe"
    BY <2>1 DEF WorldInv, ActShape
  <2>3. FaultFreeActionIsSeen'
    BY <2>1 DEF SeenInv, FaultFreeActionIsSeen
  <2> QED  BY <2>1, <2>2, <2>3, RestsSeen
<1>2. CASE HealthAnswered
  <2>1. /\ act.at = "health_probe" /\ acq' = acq /\ co' = co /\ (\E error : Close(act, {}, error))
        /\ act'.at \in {"ended", "blocked"}
    BY <1>2, DoingIs DEF HealthAnswered, Doing
  <2> QED  BY <2>1, UnresolvedSeen
<1> QED  BY <1>1, <1>2

\* A wait is cancelled.
LEMMA CancelSeen == ASSUME SeenInv, WorldInv, FrameThere(owner'), Cancel PROVE SeenInv'
PROOF
<1>1. deployment' = deployment /\ CoOK(co) /\ FaultFreeActionIsSeen
  BY DEF Cancel, SeenInv
<1>2. Doing("ended", act.n).at = "ended" /\ NoAcquisition.at = "none"
  BY DEF Doing, NoAcquisition
<1>3. CASE /\ act.at = "probe" /\ Close(act, {}, "cancelled")
           /\ act' = Doing("ended", act.n) /\ UNCHANGED <<co, acq, ad>>
  <2>1. act.status = "not_sent"
    BY <1>3 DEF WorldInv, ActOK
  <2>2. FaultFreeActionIsSeen'
    BY <1>3, <2>1 DEF Close, FaultFreeActionIsSeen
  <2> QED  BY <1>2, <1>3, <2>2, RestsSeen
<1>4. CASE /\ act.at = "health_probe" /\ Close(act, {}, "session_lost")
           /\ act' = Doing("ended", act.n) /\ UNCHANGED <<co, acq, ad>>
  BY <1>2, <1>4, UnresolvedSeen
<1>5. CASE act.at = "step" /\ Sent("unknown", TRUE)
  <2>1. PICK status \in {"sent", "unknown"}, faulty \in BOOLEAN : faulty /\ Sent(status, faulty)
    BY <1>5
  <2> QED  BY <1>1, <1>5, <2>1, SentSeen
<1>6. CASE act.at = "final" /\ FinalStarts("unknown", TRUE)
  <2>1. PICK status \in {"sent", "unknown"}, faulty \in BOOLEAN : faulty /\ FinalStarts(status, faulty)
    BY <1>6
  <2> QED  BY <1>1, <2>1, FinalStartsSeen
<1>7. CASE /\ acq.at = "frame"
           /\ IF acq.then = "post" THEN Close(act, {}, "cancelled") ELSE UNCHANGED closed
           /\ acq' = NoAcquisition /\ act' = Doing("ended", act.n) /\ UNCHANGED <<co, ad>>
  <2>1. deployment = "gym" /\ act.at = "acquire" /\ Looking(deployment, co.seq, ad, act, acq)
    BY <1>7 DEF SeenInv, WorldInv
  <2>2. acq.then = "post" => ~Clean(act)
    BY <1>7, <2>1 DEF Looking
  <2>3. FaultFreeActionIsSeen'
    <3>1. CASE acq.then = "post"
      BY <1>7, <2>2, <3>1 DEF Close, Clean, FaultFreeActionIsSeen
    <3>2. CASE acq.then # "post"
      BY <1>1, <1>7, <3>2 DEF FaultFreeActionIsSeen
    <3> QED  BY <3>1, <3>2
  <2>4. CoOK(co')
    BY <1>1, <1>7 DEF CoOK
  <2> QED  BY <1>2, <1>7, <2>3, <2>4, RestSeen
<1> QED  BY <1>3, <1>4, <1>5, <1>6, <1>7 DEF Cancel

\* Every step keeps what is known of a dispatch that is going well.
LEMMA SeenStep == SeenInv /\ FramesInv /\ WorldInv /\ [Next]_vars => SeenInv' /\ FramesInv'
PROOF
<1> SUFFICES ASSUME SeenInv, FramesInv, WorldInv, [Next]_vars PROVE SeenInv' /\ FramesInv'
  OBVIOUS
<1>1. FramesInv' /\ FrameThere(owner')
  BY FramesKeep DEF FramesInv
<1>2. CASE Reset \/ Observe \/ Refresh \/ Recover \/ SelectAction
  BY <1>1, <1>2, ResetSeen, LooksSeen, RecoverSeen, SelectSeen
<1>3. CASE SessionAcquires \/ SessionExecutes \/ SessionUnresolved
  BY <1>1, <1>3, SessionAcquiresSeen, SessionExecutesSeen, SessionUnresolvedSeen
<1>4. CASE GymAcquires \/ FrameAnswered \/ GymExecutes \/ ProbeAnswered \/ StepAnswered
  BY <1>1, <1>4, GymAcquiresSeen, FrameAnsweredSeen, GymExecutesSeen, ProbeAnsweredSeen,
     StepAnsweredSeen
<1>5. CASE Finalize \/ FinalAnswered \/ Probes \/ HealthAnswered \/ Cancel
  BY <1>1, <1>5, FinalizeSeen, FinalAnsweredSeen, HealthSeen, CancelSeen
<1>6. CASE PageDrifts \/ NavigationCommits \/ OwnerTakes \/ OwnerFinishes \/ OwnerSteps \/ Timeout
           \/ UNCHANGED vars
  <2>1. UNCHANGED <<deployment, co, acq, act, ad, closed>>
    BY <1>6 DEF PageDrifts, NavigationCommits, OwnerTakes, OwnerFinishes, OwnerSteps, Timeout, vars
  <2> QED  BY <1>1, <2>1, ElsewhereSeen
<1> QED  BY <1>1, <1>2, <1>3, <1>4, <1>5, <1>6 DEF Next, RunSteps

\* An action whose every call went well is closed with a world: whatever it demands,
\* its plan can be answered by the frame that its own step brought, or else by the
\* one recovery (orchestrator.execute, environment.acquire_group,
\* core_loop._recover_post_dispatch_observation).
THEOREM FaultFreeActionsAreSeen == Spec => []FaultFreeActionIsSeen
PROOF
<1>1. Init => SeenInv /\ FramesInv
  BY SeenStarts
<1>2. SeenInv /\ FramesInv /\ WorldInv /\ [Next]_vars => (SeenInv /\ FramesInv)'
  BY SeenStep
<1>3. SeenInv => FaultFreeActionIsSeen
  BY DEF SeenInv
<1> QED  BY <1>1, <1>2, <1>3, WorldIsSound, PTL DEF Spec
=============================================================================
