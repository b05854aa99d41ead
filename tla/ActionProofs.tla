---------------------------- MODULE ActionProofs ----------------------------
(***************************************************************************)
(* Proofs about ActionDispatch, DomBrowser and BenchmarkRun: the surfaces  *)
(* an action goes through, and the benchmark that records what came of it. *)
(*                                                                         *)
(* ActionDispatch, for every set of pages: whatever the action space lists *)
(* can be done as it was offered, and what a page declares risky is sent   *)
(* only with the user's approval.                                          *)
(*                                                                         *)
(* DomBrowser, for every set of documents: what a capture reads is of one  *)
(* page, unless the page changed twice meanwhile, and what an action is    *)
(* told to have done is what it did, to what was chosen.                   *)
(*                                                                         *)
(* BenchmarkRun, for every number of cases and of troubles: what the store *)
(* says of a case is true and its verdict on the run stays, whichever      *)
(* writes fail, whichever thread writes late, and wherever the process is  *)
(* killed.                                                                 *)
(***************************************************************************)
EXTENDS ActionDispatch, DomBrowser, BenchmarkRun, FiniteSetTheorems, SequenceTheorems,
        WellFoundedInduction, TLAPS

-----------------------------------------------------------------------------
(* Numbers.                                                                *)

\* A set of natural numbers has a least one, if it has any.
LEMMA LeastExists ==
    ASSUME NEW S \in SUBSET Nat, S # {}
    PROVE  \E x \in S : \A y \in S : x <= y
<1>1. \E x \in S : \A y \in S : ~(<<y, x>> \in OpToRel(<, Nat))
  BY NatLessThanWellFounded, WFMin
<1>2. PICK x \in S : \A y \in S : ~(<<y, x>> \in OpToRel(<, Nat))
  BY <1>1
<1>3. ASSUME NEW y \in S PROVE x <= y
  <2>1. x \in Nat /\ y \in Nat
    OBVIOUS
  <2>2. ~(<<y, x>> \in OpToRel(<, Nat))
    BY <1>2
  <2>3. ~(y < x)
    BY <2>1, <2>2 DEF OpToRel
  <2> QED BY ONLY <2>1, <2>3
<1> QED BY <1>3

\* The highest of some risks is one of them.
LEMMA HighestRisk ==
    ASSUME NEW S \in SUBSET (0 .. 3), S # {}
    PROVE  Max(S) \in S /\ \A y \in S : y <= Max(S)
<1>1. \A y \in S : y \in {0, 1, 2, 3}
  OBVIOUS
<1>2. \E x \in S : \A y \in S : x >= y
  <2>1. CASE 3 \in S
    BY <1>1, <2>1
  <2>2. CASE 3 \notin S /\ 2 \in S
    BY <1>1, <2>2
  <2>3. CASE 3 \notin S /\ 2 \notin S /\ 1 \in S
    BY <1>1, <2>3
  <2>4. CASE 3 \notin S /\ 2 \notin S /\ 1 \notin S
    <3>1. 0 \in S /\ \A y \in S : y = 0
      BY <1>1, <2>4
    <3> QED BY <3>1
  <2> QED BY <2>1, <2>2, <2>3, <2>4
<1>3. Max(S) \in S /\ \A y \in S : Max(S) >= y
  BY <1>2 DEF Max
<1> QED BY <1>1, <1>3

-----------------------------------------------------------------------------
(* Classification.                                                         *)

\* what a page shows
PageLike(shown) ==
    \A f \in shown :
        /\ f.surface \in {"dom", "wot", "visual"}
        /\ f.asserted \in 0 .. 3
        /\ f.rank \in Nat /\ Nil \notin f.dests
        /\ \A e \in shown : e.id = f.id => e = f

GoalLike(g) == g.profile \in {"read_only", "low", "medium", "high"}

Categories == {"observation", "interaction", "local_reversible", "external", "irreversible"}

\* Every affordance has a category.
LEMMA CategoryIsKnown ==
    ASSUME NEW f, f.surface \in {"dom", "wot", "visual"}
    PROVE  CategoryOf(f) \in Categories
<1>1. BaseCategory(f.action, f.role) \in Categories
  <2>1. CASE f.action = "read"
    BY <2>1 DEF BaseCategory, Categories
  <2>2. CASE f.action # "read" /\ f.role = "link"
    BY <2>2 DEF BaseCategory, Categories
  <2>3. CASE f.action # "read" /\ f.role # "link"
    BY <2>3 DEF BaseCategory, Categories
  <2> QED BY <2>1, <2>2, <2>3
<1>2. DomCategory(f) \in Categories
  BY <1>1 DEF DomCategory, Categories
<1>3. WotCategory(f) \in Categories
  <2>1. CASE f.action = "read"
    BY <2>1 DEF WotCategory, Categories
  <2>2. CASE f.action # "read" /\ ~f.external
    BY <2>2 DEF WotCategory, Categories
  <2>3. CASE f.action # "read" /\ f.external
    BY <2>3 DEF WotCategory, Categories
  <2> QED BY <2>1, <2>2, <2>3
<1>4. CASE f.surface = "dom"
  BY <1>2, <1>4 DEF CategoryOf
<1>5. CASE f.surface = "wot"
  BY <1>3, <1>5 DEF CategoryOf
<1>6. CASE f.surface = "visual"
  BY <1>1, <1>6 DEF CategoryOf
<1> QED BY <1>4, <1>5, <1>6

\* Its category and what its page asserts bound its risk from below.
LEMMA RiskIsFloored ==
    ASSUME NEW f, f.surface \in {"dom", "wot", "visual"}, f.asserted \in 0 .. 3
    PROVE  /\ RiskOf(f) \in 0 .. 3
           /\ CategoryRisk[CategoryOf(f)] <= RiskOf(f)
           /\ f.surface # "visual" => f.asserted <= RiskOf(f)
<1> DEFINE c == CategoryRisk[CategoryOf(f)]
<1>1. c \in 0 .. 3
  BY CategoryIsKnown DEF Categories, CategoryRisk, Low, High, Irreversible
<1> HIDE DEF c
<1>2. CASE f.surface = "visual"
  <2>1. RiskOf(f) = c
    BY <1>2 DEF RiskOf, c
  <2> QED BY <1>1, <1>2, <2>1 DEF c
<1>3. CASE f.surface # "visual"
  <2>1. RiskOf(f) = Max({c, f.asserted})
    BY <1>3 DEF RiskOf, c
  <2>2. {c, f.asserted} \in SUBSET (0 .. 3)
    BY <1>1
  <2>3. /\ Max({c, f.asserted}) \in {c, f.asserted}
        /\ \A y \in {c, f.asserted} : y <= Max({c, f.asserted})
    BY <2>2, HighestRisk
  <2> QED BY <1>1, <2>1, <2>3 DEF c
<1> QED BY <1>2, <1>3

\* A page that declares its affordance external, irreversible or risky gives
\* it a risk.
LEMMA DeclaredIsRisky ==
    ASSUME NEW f, f.surface = "dom", f.asserted \in 0 .. 3,
           f.undo = "irreversible" \/ f.external \/ f.asserted > Low
    PROVE  RiskOf(f) > Low
<1>1. /\ RiskOf(f) \in 0 .. 3 /\ f.asserted <= RiskOf(f)
      /\ CategoryRisk[CategoryOf(f)] <= RiskOf(f)
  BY RiskIsFloored
<1>2. CASE f.asserted > Low
  BY <1>1, <1>2 DEF Low
<1>3. CASE f.undo = "irreversible" \/ f.external
  <2>1. CategoryOf(f) = "irreversible" \/ CategoryOf(f) = "external"
    BY <1>3 DEF CategoryOf, DomCategory
  <2>2. CategoryRisk[CategoryOf(f)] = 2 \/ CategoryRisk[CategoryOf(f)] = 3
    BY <2>1 DEF CategoryRisk, High, Irreversible
  <2> QED BY <1>1, <2>2 DEF Low
<1> QED BY <1>2, <1>3

-----------------------------------------------------------------------------
(* PageBindings.                                                               *)

PageBindings(g, w) == {BindingOf(g, f) : f \in w.seen}

\* What a binding takes from its affordance.
LEMMA BindingIs ==
    ASSUME NEW g, NEW f
    PROVE  /\ BindingOf(g, f).id = f.id /\ BindingOf(g, f).target = f.target
           /\ BindingOf(g, f).action = f.action /\ BindingOf(g, f).dests = f.dests
           /\ BindingOf(g, f).rank = f.rank /\ BindingOf(g, f).risk = RiskOf(f)
BY DEF BindingOf

\* The identity of a binding is its own.
LEMMA OneBinding ==
    ASSUME NEW g, NEW w, PageLike(w.seen), NEW b \in PageBindings(g, w), NEW c \in PageBindings(g, w),
           b.id = c.id
    PROVE  b = c
<1>1. PICK e \in w.seen : b = BindingOf(g, e)
  BY DEF PageBindings
<1>2. PICK f \in w.seen : c = BindingOf(g, f)
  BY DEF PageBindings
<1>3. e.id = f.id
  BY <1>1, <1>2, BindingIs
<1>4. e = f
  BY <1>3 DEF PageLike
<1> QED BY <1>1, <1>2, <1>4

\* Its risk, rank and destinations are those of an affordance of the page.
LEMMA BindingLike ==
    ASSUME NEW g, NEW w, PageLike(w.seen), NEW b \in PageBindings(g, w)
    PROVE  b.risk \in 0 .. 3 /\ b.rank \in Nat /\ Nil \notin b.dests
<1>1. PICK f \in w.seen : b = BindingOf(g, f)
  BY DEF PageBindings
<1>2. /\ b.risk = RiskOf(f) /\ b.rank = f.rank /\ b.dests = f.dests
  BY <1>1, BindingIs
<1>3. f.surface \in {"dom", "wot", "visual"} /\ f.asserted \in 0 .. 3
      /\ f.rank \in Nat /\ Nil \notin f.dests
  BY DEF PageLike
<1> QED BY <1>2, <1>3, RiskIsFloored

\* A selection that has candidates has a route among them.
LEMMA RouteIsThere ==
    ASSUME NEW g, NEW w, NEW s, PageLike(w.seen), Candidates(g, w, s) # {}
    PROVE  Route(g, w, s) \in Candidates(g, w, s)
<1> DEFINE R == {b.rank : b \in Candidates(g, w, s)}
<1>1. \A b \in Candidates(g, w, s) : b \in PageBindings(g, w) /\ b.rank \in Nat
  BY BindingLike DEF Candidates, PageBindings
<1>2. R \in SUBSET Nat /\ R # {}
  BY <1>1
<1>3. PICK x \in R : \A y \in R : x <= y
  BY <1>2, LeastExists
<1>4. PICK b \in Candidates(g, w, s) : b.rank = x
  BY <1>3
<1>5. \A c \in Candidates(g, w, s) : b.rank <= c.rank
  BY <1>3, <1>4
<1> QED BY <1>4, <1>5 DEF Route

-----------------------------------------------------------------------------
(* The action space.                                                       *)

Left(g, w) == {b \in Admissible(g, w) : Undisputed(Admissible(g, w), b) # {}}

Group(g, w, b) ==
    {c \in Left(g, w) : Selector(c) = Selector(b) /\ Contract(c) = Contract(b)}

OpenRoutes(g, w, b) == UNION {Undisputed(Admissible(g, w), c) : c \in Group(g, w, b)}

\* The space has an option of every group.
LEMMA SpaceIs ==
    ASSUME NEW g, NEW w
    PROVE  Space(g, w) = {OptionOf(w, Group(g, w, b), OpenRoutes(g, w, b)) : b \in Left(g, w)}
BY DEF Space, Left, Group, OpenRoutes

\* A group is made of admissible bindings.
LEMMA GroupIs ==
    ASSUME NEW g, NEW w, NEW b \in Left(g, w)
    PROVE  /\ b \in Group(g, w, b)
           /\ \A c \in Group(g, w, b) :
                /\ c \in PageBindings(g, w) /\ EffectsAllowed(g, c) /\ c \in Admissible(g, w)
                /\ c.target = b.target /\ c.action = b.action /\ c.category = b.category
                /\ c.effects = b.effects /\ c.form = b.form /\ c.resource = b.resource
                /\ c.undo = b.undo
BY DEF Group, Left, Admissible, PageBindings, Selector, Contract

\* What an option takes from its group.
LEMMA OptionIs ==
    ASSUME NEW g, NEW w, PageLike(w.seen), NEW b \in Left(g, w), NEW o,
           o = OptionOf(w, Group(g, w, b), OpenRoutes(g, w, b))
    PROVE  /\ o.observation = w.n /\ o.target = b.target /\ o.action = b.action
           /\ o.category = b.category /\ o.effects = b.effects /\ o.form = b.form
           /\ o.resource = b.resource /\ o.undo = b.undo
           /\ o.dests = OpenRoutes(g, w, b) \ {Nil}
           /\ o.eligible = {c.id : c \in Group(g, w, b)}
           /\ o.risk \in 0 .. 3
           /\ \A c \in Group(g, w, b) : c.risk <= o.risk
           /\ \E c \in Group(g, w, b) : c.risk = o.risk
<1> DEFINE group == Group(g, w, b)
           one == CHOOSE c \in group : TRUE
           risks == {c.risk : c \in group}
<1>1. one \in group
  BY GroupIs
<1>2. /\ one.target = b.target /\ one.action = b.action /\ one.category = b.category
      /\ one.effects = b.effects /\ one.form = b.form /\ one.resource = b.resource
      /\ one.undo = b.undo
  BY <1>1, GroupIs
<1>3. o = [observation |-> w.n, target |-> one.target, action |-> one.action,
           category |-> one.category, effects |-> one.effects, form |-> one.form,
           resource |-> one.resource, undo |-> one.undo,
           dests |-> OpenRoutes(g, w, b) \ {Nil}, eligible |-> {c.id : c \in group},
           risk |-> Max(risks)]
  BY DEF OptionOf
<1>4. risks \in SUBSET (0 .. 3) /\ risks # {}
  <2>1. \A c \in group : c.risk \in 0 .. 3
    BY GroupIs, BindingLike
  <2> QED BY <1>1, <2>1
<1>5. Max(risks) \in risks /\ \A y \in risks : y <= Max(risks)
  BY ONLY <1>4, HighestRisk
<1>6. o.risk = Max(risks)
  BY ONLY <1>3
<1>7. /\ o.risk \in 0 .. 3
      /\ \A c \in group : c.risk <= o.risk
      /\ \E c \in group : c.risk = o.risk
  BY ONLY <1>4, <1>5, <1>6
<1> HIDE DEF one, risks
<1> QED BY ONLY <1>2, <1>3, <1>7 DEF group

\* A place that an option offers is open for a binding of its group, which
\* has no destination exactly if the option has none.
LEMMA PlaceIsOpen ==
    ASSUME NEW g, NEW w, PageLike(w.seen), NEW b \in Left(g, w), NEW o,
           o = OptionOf(w, Group(g, w, b), OpenRoutes(g, w, b)),
           NEW d \in Destinations(o)
    PROVE  \E c \in Group(g, w, b) :
              /\ d \in Routes(c) /\ d \notin Disputed(Admissible(g, w), c)
              /\ IF d # Nil THEN d \in c.dests ELSE c.dests = o.dests
<1>1. o.dests = OpenRoutes(g, w, b) \ {Nil}
  BY OptionIs
<1>2. OpenRoutes(g, w, b) # {}
  BY GroupIs DEF OpenRoutes, Left
<1>3. d \in OpenRoutes(g, w, b) /\ (d = Nil => o.dests = {})
  BY <1>1, <1>2 DEF Destinations
<1>4. PICK c \in Group(g, w, b) : d \in Undisputed(Admissible(g, w), c)
  BY <1>3 DEF OpenRoutes
<1>5. d \in Routes(c) /\ d \notin Disputed(Admissible(g, w), c)
  BY <1>4 DEF Undisputed
<1>6. Nil \notin c.dests
  BY GroupIs, BindingLike
<1>7. IF d # Nil THEN d \in c.dests ELSE c.dests = o.dests
  BY <1>3, <1>5, <1>6 DEF Routes
<1> QED BY <1>5, <1>7

\* One option only answers for a target, an action and a place.
LEMMA OneAnswers ==
    ASSUME NEW g, NEW w, PageLike(w.seen), NEW o \in Space(g, w), NEW p \in Space(g, w),
           o.target = p.target, o.action = p.action,
           NEW d \in Destinations(o), d \in Destinations(p)
    PROVE  o = p
<1>1. PICK b \in Left(g, w) : o = OptionOf(w, Group(g, w, b), OpenRoutes(g, w, b))
  BY SpaceIs
<1>2. PICK c \in Left(g, w) : p = OptionOf(w, Group(g, w, c), OpenRoutes(g, w, c))
  BY SpaceIs
<1>3. PICK x \in Group(g, w, b) : d \in Routes(x) /\ d \notin Disputed(Admissible(g, w), x)
  BY <1>1, PlaceIsOpen
<1>4. PICK y \in Group(g, w, c) : d \in Routes(y) /\ d \notin Disputed(Admissible(g, w), y)
  BY <1>2, PlaceIsOpen
<1>5. o.target = b.target /\ o.action = b.action /\ p.target = c.target /\ p.action = c.action
  BY <1>1, <1>2, OptionIs
<1>6. Selector(b) = Selector(c)
  BY <1>5 DEF Selector
<1>7. /\ Selector(x) = Selector(b) /\ Contract(x) = Contract(b)
      /\ Selector(y) = Selector(c) /\ Contract(y) = Contract(c)
      /\ y \in Admissible(g, w)
  BY GroupIs DEF Group
<1>8. Contract(x) = Contract(y)
  <2>1. CASE Contract(y) # Contract(x)
    <3>1. d \in Routes(x) \cap Routes(y)
      BY <1>3, <1>4
    <3>2. y \in {z \in Admissible(g, w) : Selector(z) = Selector(x) /\ Contract(z) # Contract(x)}
      BY <1>6, <1>7, <2>1
    <3>3. d \in Disputed(Admissible(g, w), x)
      BY <3>1, <3>2 DEF Disputed
    <3> QED BY <1>3, <3>3
  <2> QED BY <2>1
<1>9. Group(g, w, b) = Group(g, w, c)
  BY <1>6, <1>7, <1>8 DEF Group
<1>10. OpenRoutes(g, w, b) = OpenRoutes(g, w, c)
  BY <1>9 DEF OpenRoutes
<1> QED BY <1>1, <1>2, <1>9, <1>10

\* A selection of what is offered binds to a route whose request holds.
LEMMA SelectionBinds ==
    ASSUME NEW g, NEW w, PageLike(w.seen), NEW o \in Space(g, w), NEW d \in Destinations(o)
    PROVE  Binds(g, w, Selected(o, d)) /\ RequestHolds(g, w, Selected(o, d))
<1> DEFINE s == Selected(o, d)
<1>1. s.option = o /\ s.dest = d
  BY DEF Selected
<1> HIDE DEF s
<1>2. PICK b \in Left(g, w) : o = OptionOf(w, Group(g, w, b), OpenRoutes(g, w, b))
  BY SpaceIs
<1>3. PICK c \in Group(g, w, b) : IF d # Nil THEN d \in c.dests ELSE c.dests = o.dests
  BY <1>2, PlaceIsOpen
<1>4. c \in PageBindings(g, w)
  BY GroupIs
<1>5. Equivalent(g, c, s)
  <2>1. /\ o.target = b.target /\ o.action = b.action
        /\ o.category = b.category /\ o.effects = b.effects /\ o.form = b.form
        /\ c.id \in o.eligible /\ c.risk <= o.risk
    BY <1>2, OptionIs
  <2>2. /\ c.target = b.target /\ c.action = b.action /\ c.category = b.category
        /\ c.effects = b.effects /\ c.form = b.form
    BY GroupIs
  <2> QED BY <1>1, <1>3, <2>1, <2>2 DEF Equivalent, Selector
<1>6. Candidates(g, w, s) # {}
  BY <1>4, <1>5 DEF Candidates, PageBindings
<1>7. o.observation = w.n
  BY <1>2, OptionIs
<1>8. Binds(g, w, s)
  BY <1>1, <1>6, <1>7 DEF Binds
<1>9. RequestHolds(g, w, s)
  <2> DEFINE r == Route(g, w, s)
  <2>1. r \in Candidates(g, w, s)
    BY <1>6, RouteIsThere
  <2> HIDE DEF r
  <2>2. r \in PageBindings(g, w) /\ r.id \in o.eligible
    BY <1>1, <2>1 DEF Candidates, PageBindings, Equivalent
  <2>3. PICK x \in Group(g, w, b) : r.id = x.id
    BY <1>2, <2>2, OptionIs
  <2>4. x \in PageBindings(g, w) /\ x.resource = b.resource /\ x.undo = b.undo
    BY GroupIs
  <2>5. r = x
    BY <2>2, <2>3, <2>4, OneBinding
  <2>6. o.resource = b.resource /\ o.undo = b.undo
    BY <1>2, OptionIs
  <2> QED BY <1>1, <2>4, <2>5, <2>6 DEF RequestHolds, r
<1> QED BY <1>8, <1>9 DEF s

\* The risk policy does not refuse what the space offers.
LEMMA OfferIsNotRefused ==
    ASSUME NEW g, NEW w, PageLike(w.seen), NEW o \in Space(g, w)
    PROVE  Decision(g, o) # "block"
<1>1. PICK b \in Left(g, w) : o = OptionOf(w, Group(g, w, b), OpenRoutes(g, w, b))
  BY SpaceIs
<1>2. PICK c \in Group(g, w, b) : c.risk = o.risk
  BY <1>1, OptionIs
<1>3. /\ EffectsAllowed(g, c)
      /\ c.action = o.action /\ c.category = o.category /\ c.effects = o.effects
  BY <1>1, GroupIs, OptionIs
<1>4. /\ o.effects \cap g.forbidden = {} /\ o.effects \subseteq g.allowed
      /\ g.profile = "read_only" =>
            \/ o.action = "read"
            \/ /\ o.category = "interaction" /\ o.action = "activate"
               /\ o.effects = {} /\ o.risk = Low
  BY <1>2, <1>3 DEF EffectsAllowed
<1> QED BY <1>4 DEF Decision

-----------------------------------------------------------------------------
(* The inductive invariant.                                                *)

Places == {"idle", "bound", "executing", "refresh", "recover", "health", "outcome",
           "judge", "doubt"}

DispatchTypeOK ==
    /\ goal \in Goals
    /\ page \in Pages
    /\ world.seen \in Pages
    /\ act \in [at : Places, s : {act.s}, x : {act.x}]

\* A selection in progress is one of the space it was made in, has a route
\* there, and has the approval that its risk calls for.
SelectionHolds ==
    act.at # "idle" =>
        /\ act.s.option \in Space(goal, world)
        /\ Binds(goal, world, act.s)
        /\ Decision(goal, act.s.option) # "block"
        /\ Decision(goal, act.s.option) = "needs_confirmation" => credit = {Subject(goal, act.s)}

DispatchInv == DispatchTypeOK /\ SelectionHolds

\* What the assumption says of pages and tasks.
LEMMA PagesAreSound ==
    /\ \A shown \in Pages : PageLike(shown)
    /\ \A g \in Goals : GoalLike(g)
BY DispatchAssumption DEF PageLike, GoalLike, Low, Irreversible

\* A step is committed: nothing is in progress.
LEMMA StepCloses ==
    ASSUME DispatchTypeOK, act' = Resting, goal' = goal, page' \in Pages,
           world' = world \/ Looks
    PROVE  DispatchInv'
<1>1. world'.seen \in Pages
  BY DEF DispatchTypeOK, Looks, NewWorld
<1>2. act'.at = "idle" /\ act' \in [at : Places, s : {act'.s}, x : {act'.x}]
  BY DEF Resting, Places
<1> QED BY <1>1, <1>2 DEF DispatchInv, DispatchTypeOK, SelectionHolds

\* The gate lets a selection pass that it need not ask about, or that the
\* user was asked about.
LEMMA SelectsKeeps ==
    ASSUME DispatchInv, NEW s, NEW confirmed, confirmed = {} \/ \E c : confirmed = {c},
           s.option \in Space(goal, world), Selects(s, confirmed)
    PROVE  DispatchInv'
<1>1. Gate(s, confirmed) \in {"ask", "bound", "blocked", "running"}
  <2>1. CASE goal.owed # Nil /\ s.option.resource # goal.owed
    BY <2>1 DEF Gate
  <2> QED BY DEF Gate
<1>2. CASE Gate(s, confirmed) = "ask"
  <2>1. Asks(s)
    BY <1>2 DEF Selects
  <2> QED BY <2>1, StepCloses DEF Asks, DispatchInv, DispatchTypeOK
<1>3. CASE Gate(s, confirmed) \in {"blocked", "running"}
  <2>1. ClosesHere(Gate(s, confirmed))
    BY <1>3 DEF Selects
  <2> QED BY <2>1, StepCloses DEF ClosesHere, Closes, DispatchInv, DispatchTypeOK
<1>4. CASE Gate(s, confirmed) = "bound"
  <2>1. Passes(s, confirmed)
    BY <1>4 DEF Selects
  <2>2. /\ Decision(goal, s.option) # "block" /\ Binds(goal, world, s)
        /\ Decision(goal, s.option) = "needs_confirmation" => confirmed = {Subject(goal, s)}
    BY <1>4 DEF Gate
  <2>3. /\ act'.at = "bound" /\ act'.s = s
        /\ act' \in [at : Places, s : {act'.s}, x : {act'.x}]
    BY <2>1 DEF Passes, Places
  <2>4. goal' = goal /\ page' = page /\ world' = world /\ credit' = confirmed
    BY <2>1 DEF Passes
  <2>5. DispatchTypeOK'
    BY <2>3, <2>4 DEF DispatchInv, DispatchTypeOK
  <2>6. SelectionHolds'
    BY <2>2, <2>3, <2>4 DEF SelectionHolds
  <2> QED BY <2>5, <2>6 DEF DispatchInv
<1> QED BY <1>1, <1>2, <1>3, <1>4

\* A selection in progress goes on: it stays what it was.
LEMMA StepGoesOn ==
    ASSUME DispatchInv, act.at # "idle", NEW at \in Places, NEW x, GoesOn(at, x)
    PROVE  DispatchInv'
<1>1. /\ act'.s = act.s
      /\ act' \in [at : Places, s : {act'.s}, x : {act'.x}]
  BY DEF GoesOn, DispatchInv, DispatchTypeOK
<1>2. goal' = goal /\ page' = page /\ world' = world /\ credit' = credit
  BY DEF GoesOn
<1>3. DispatchTypeOK'
  BY <1>1, <1>2 DEF DispatchInv, DispatchTypeOK
<1>4. SelectionHolds'
  BY <1>1, <1>2 DEF DispatchInv, SelectionHolds
<1> QED BY <1>3, <1>4 DEF DispatchInv

\* The steps up to the dispatch keep the invariant.
LEMMA ChoiceKeeps ==
    ASSUME DispatchInv,
           SelectOffered \/ SelectRejected \/ SelectProhibited \/ ApproveSelection
             \/ DeclineSelection \/ RestoreWaiting \/ PageChanges
    PROVE  DispatchInv'
<1>1. DispatchTypeOK
  BY DEF DispatchInv
<1>2. CASE SelectOffered
  <2>1. PICK o \in Offered(goal, world) :
            \E d \in Destinations(o) : Selects(Selected(o, d), {})
    BY <1>2 DEF SelectOffered
  <2>3. PICK d \in Destinations(o) : Selects(Selected(o, d), {})
    BY <2>1
  <2>2. Selected(o, d).option \in Space(goal, world)
    BY DEF Selected, Offered
  <2> QED BY <2>2, <2>3, SelectsKeeps
<1>3. CASE SelectRejected \/ SelectProhibited \/ DeclineSelection
  BY <1>1, <1>3, StepCloses
     DEF SelectRejected, SelectProhibited, DeclineSelection, ClosesHere, Closes, DispatchTypeOK
<1>4. CASE ApproveSelection
  <2>1. CASE Admits(Offered(goal, world), pending.s.option, pending.s.dest, TRUE)
    <3>1. Selects(pending.s, {pending.subject})
      BY <1>4, <2>1 DEF ApproveSelection
    <3>2. pending.s.option \in Space(goal, world)
      BY <2>1 DEF Admits, Offered
    <3> QED BY <3>1, <3>2, SelectsKeeps
  <2>2. CASE ~Admits(Offered(goal, world), pending.s.option, pending.s.dest, TRUE)
    <3>1. ClosesHere("blocked")
      BY <1>4, <2>2 DEF ApproveSelection
    <3> QED BY <1>1, <3>1, StepCloses DEF ClosesHere, Closes, DispatchTypeOK
  <2> QED BY <2>1, <2>2
<1>5. CASE RestoreWaiting
  <2>1. act' = Resting /\ UNCHANGED <<goal, page>>
    BY <1>5 DEF RestoreWaiting
  <2>2. Looks
    BY <1>5 DEF RestoreWaiting, Looks
  <2> QED BY <1>1, <2>1, <2>2, StepCloses DEF DispatchTypeOK
<1>6. CASE PageChanges
  <2>1. page' \in Pages /\ UNCHANGED <<goal, world, act, credit>>
    BY <1>6 DEF PageChanges
  <2> QED BY <2>1 DEF DispatchInv, DispatchTypeOK, SelectionHolds
<1> QED BY <1>2, <1>3, <1>4, <1>5, <1>6

\* The dispatch, and what follows it, keep the invariant.
LEMMA DispatchKeeps ==
    ASSUME DispatchInv,
           Probe \/ ExecuteStale \/ ExecuteRefused \/ ExecuteIsCancelled \/ ExecuteCrosses
             \/ RecoverCapture \/ RecoverIsCancelled \/ ProbeHealth
    PROVE  DispatchInv'
<1>1. DispatchTypeOK
  BY DEF DispatchInv
<1>2. CASE Probe \/ ExecuteStale
  <2>1. act.at # "idle" /\ \E at \in Places : GoesOn(at, act.x)
    BY <1>2 DEF Probe, ExecuteStale, Places
  <2> QED BY <2>1, StepGoesOn
<1>3. CASE ExecuteRefused \/ ExecuteIsCancelled \/ RecoverIsCancelled \/ ProbeHealth
  BY <1>1, <1>3, StepCloses
     DEF ExecuteRefused, ExecuteIsCancelled, RecoverIsCancelled, ProbeHealth, ClosesWith,
         Closes, DispatchTypeOK
<1>4. CASE ExecuteCrosses
  <2>1. act.at # "idle" /\ \E at \in Places : \E x : GoesOn(at, x)
    BY <1>4 DEF ExecuteCrosses, Places
  <2> QED BY <2>1, StepGoesOn
<1>5. CASE RecoverCapture
  <2>1. CASE GoesOn("outcome", [act.x EXCEPT !.recovery = "acquired"])
             \/ GoesOn("health", [act.x EXCEPT !.recovery = "failed"])
    <3>1. act.at # "idle" /\ \E at \in Places : \E x : GoesOn(at, x)
      BY <1>5, <2>1 DEF RecoverCapture, Places
    <3> QED BY <3>1, StepGoesOn
  <2>2. CASE /\ ClosesWith("blocked", BatchOf([act.x EXCEPT !.recovery = "failed"], Nil))
             /\ UNCHANGED <<goal, page, world>>
    BY <1>1, <2>2, StepCloses DEF ClosesWith, Closes, DispatchTypeOK
  <2> QED BY <1>5, <2>1, <2>2 DEF RecoverCapture
<1> QED BY <1>2, <1>3, <1>4, <1>5

\* So do the judgement of the step and the refresh of a stale route.
LEMMA JudgementKeeps ==
    ASSUME DispatchInv,
           OutcomeFails \/ OutcomeKnown \/ OutcomeUnknown \/ JudgeFails \/ Judged
             \/ RefreshFails \/ RefreshLooks \/ RefreshRaises
    PROVE  DispatchInv'
<1>1. DispatchTypeOK
  BY DEF DispatchInv
<1>2. CASE OutcomeKnown \/ OutcomeUnknown
  <2>1. act.at # "idle" /\ \E at \in Places : GoesOn(at, act.x)
    BY <1>2 DEF OutcomeKnown, OutcomeUnknown, Places
  <2> QED BY <2>1, StepGoesOn
<1>3. CASE OutcomeFails \/ JudgeFails \/ Judged \/ RefreshLooks
  <2>1. act' = Resting /\ Looks /\ UNCHANGED <<goal, page>>
    BY <1>3 DEF OutcomeFails, JudgeFails, Judged, RefreshLooks, ClosesWith, Closes
  <2> QED BY <1>1, <2>1, StepCloses DEF DispatchTypeOK
<1>4. CASE RefreshFails \/ RefreshRaises
  BY <1>1, <1>4, StepCloses
     DEF RefreshFails, RefreshRaises, ClosesHere, Closes, DispatchTypeOK
<1> QED BY <1>2, <1>3, <1>4

\* A selection in progress is bound, admitted and approved, for every set of
\* pages and tasks (_select of agent/core_loop.py).
THEOREM DispatchIsSound == DispatchSpec => []DispatchInv
<1>1. DispatchInit => DispatchInv
  <2> SUFFICES ASSUME DispatchInit PROVE DispatchInv
    OBVIOUS
  <2>1. world.seen = page /\ act = Resting
    BY DEF DispatchInit
  <2> QED BY <2>1 DEF DispatchInit, DispatchInv, DispatchTypeOK, SelectionHolds, Resting, Places
<1>2. DispatchInv /\ [DispatchNext]_dispatchVars => DispatchInv'
  <2> SUFFICES ASSUME DispatchInv, [DispatchNext]_dispatchVars PROVE DispatchInv'
    OBVIOUS
  <2>1. CASE UNCHANGED dispatchVars
    BY <2>1 DEF dispatchVars, DispatchInv, DispatchTypeOK, SelectionHolds
  <2>2. CASE DispatchNext
    BY <2>2, ChoiceKeeps, DispatchKeeps, JudgementKeeps DEF DispatchNext
  <2> QED BY <2>1, <2>2
<1> QED BY <1>1, <1>2, PTL DEF DispatchSpec

\* The state is well formed, and what is seen is a page.
THEOREM DispatchTypeSafe == DispatchSpec => []DispatchTypeOK
<1>1. DispatchInv => DispatchTypeOK
  BY DEF DispatchInv
<1> QED BY <1>1, DispatchIsSound, PTL

\* Whatever the action space offers can be done as it was offered: to one
\* option, with a route, a request that can be constructed, and no refusal
\* (action_space.py, route_selector.py, risk/policy.py).
THEOREM OffersCanBeDone == DispatchSpec => []OfferedCanBeDone
<1>1. DispatchInv => OfferedCanBeDone
  <2> SUFFICES ASSUME DispatchInv, NEW o \in Space(goal, world), NEW d \in Destinations(o)
               PROVE  /\ \A p \in Space(goal, world) :
                            <<o.target, o.action>> = <<p.target, p.action>>
                              /\ d \in Destinations(p) => o = p
                      /\ Binds(goal, world, Selected(o, d))
                      /\ RequestHolds(goal, world, Selected(o, d))
                      /\ Decision(goal, o) # "block"
    BY DEF OfferedCanBeDone
  <2>1. PageLike(world.seen)
    BY PagesAreSound DEF DispatchInv, DispatchTypeOK
  <2>2. ASSUME NEW p \in Space(goal, world), <<o.target, o.action>> = <<p.target, p.action>>,
               d \in Destinations(p)
        PROVE  o = p
    <3>1. o.target = p.target /\ o.action = p.action
      BY <2>2
    <3> QED BY <2>1, <2>2, <3>1, OneAnswers
  <2> QED BY <2>1, <2>2, SelectionBinds, OfferIsNotRefused
<1> QED BY <1>1, DispatchIsSound, PTL

\* What calls for the user has a risk above the lowest.
LEMMA RiskNeedsConfirmation ==
    ASSUME DispatchInv, act.at # "idle", NEW f \in world.seen,
           f.id = Route(goal, world, act.s).id, CallsForUser(f)
    PROVE  /\ Decision(goal, act.s.option) = "needs_confirmation"
           /\ BindingOf(goal, f) = Route(goal, world, act.s)
           /\ Route(goal, world, act.s) \in Candidates(goal, world, act.s)
           /\ RiskOf(f) <= EffectiveRisk(goal, act.s.option)
<1> DEFINE o == act.s.option
           r == Route(goal, world, act.s)
<1>1. PageLike(world.seen) /\ GoalLike(goal)
  BY PagesAreSound DEF DispatchInv, DispatchTypeOK
<1>2. /\ o \in Space(goal, world) /\ Decision(goal, o) # "block"
      /\ Candidates(goal, world, act.s) # {}
  BY DEF DispatchInv, SelectionHolds, Binds
<1>3. r \in Candidates(goal, world, act.s)
  BY <1>1, <1>2, RouteIsThere
<1>4. r \in PageBindings(goal, world) /\ r.risk <= o.risk
  BY <1>3 DEF Candidates, PageBindings, Equivalent
<1>5. BindingOf(goal, f) = r
  <2>1. BindingOf(goal, f) \in PageBindings(goal, world) /\ BindingOf(goal, f).id = f.id
    BY BindingIs DEF PageBindings
  <2> QED BY <1>1, <1>4, <2>1, OneBinding
<1>6. r.risk = RiskOf(f) /\ RiskOf(f) \in 0 .. 3
  <2>1. f.surface \in {"dom", "wot", "visual"} /\ f.asserted \in 0 .. 3
    BY <1>1 DEF PageLike
  <2> QED BY <1>5, <2>1, BindingIs, RiskIsFloored
<1>7. o.risk \in 0 .. 3
  BY <1>1, <1>2, SpaceIs, OptionIs
<1> DEFINE e == EffectiveRisk(goal, o)
           floor == Floor[goal.profile]
<1>8. floor \in 0 .. 3 /\ (goal.profile \in {"medium", "high"} => floor \in {1, 2})
  BY <1>1 DEF GoalLike, Floor, Low, Medium, High
<1>9. e \in 0 .. 3 /\ floor <= e /\ o.risk <= e
  <2>1. e = Max({floor, o.risk})
    BY DEF EffectiveRisk
  <2>2. {floor, o.risk} \in SUBSET (0 .. 3)
    BY <1>7, <1>8
  <2>3. Max({floor, o.risk}) \in {floor, o.risk}
        /\ \A y \in {floor, o.risk} : y <= Max({floor, o.risk})
    BY <2>2, HighestRisk
  <2> QED BY <2>1, <2>2, <2>3
<1>10. RiskOf(f) <= e
  BY <1>4, <1>6, <1>7, <1>9
<1>11. e > Low
  <2>1. CASE goal.profile \in {"medium", "high"}
    BY <1>8, <1>9, <2>1 DEF Low
  <2>2. CASE f.surface = "dom" /\ (f.undo = "irreversible" \/ f.external \/ f.asserted > Low)
    <3>1. RiskOf(f) > Low
      BY <1>1, <2>2, DeclaredIsRisky DEF PageLike
    <3> QED BY <1>6, <1>9, <1>10, <3>1 DEF Low
  <2> QED BY <2>1, <2>2 DEF CallsForUser
<1>12. Decision(goal, o) = "needs_confirmation"
  BY <1>2, <1>11 DEF Decision
<1> QED BY <1>3, <1>5, <1>10, <1>12

\* An action that its page declares external, irreversible or risky, or that
\* belongs to a risky task, is sent only when the user has just approved that
\* action on that target with that effect, at no more risk than it has
\* (risk/policy.py, confirmation/contracts.py, resume_confirmation).
THEOREM RiskyIsApproved == DispatchSpec => []RiskyNeedsApproval
<1>1. DispatchInv => RiskyNeedsApproval
  <2> SUFFICES ASSUME DispatchInv, act.at # "idle", NEW f \in world.seen,
                      f.id = Route(goal, world, act.s).id, CallsForUser(f)
               PROVE  \E subject \in credit :
                        /\ <<subject.target, subject.action, subject.effects>>
                             = <<f.target, f.action, BindingOf(goal, f).effects>>
                        /\ subject.risk >= RiskOf(f)
    BY DEF RiskyNeedsApproval
  <2> DEFINE r == Route(goal, world, act.s)
             o == act.s.option
             q == Subject(goal, act.s)
  <2>1. /\ Decision(goal, o) = "needs_confirmation"
        /\ BindingOf(goal, f) = r
        /\ r \in Candidates(goal, world, act.s)
        /\ RiskOf(f) <= EffectiveRisk(goal, o)
    BY RiskNeedsConfirmation
  <2>2. credit = {q}
    BY <2>1 DEF DispatchInv, SelectionHolds
  <2>3. r.target = f.target /\ r.action = f.action
    BY <2>1, BindingIs
  <2> HIDE DEF r
  <2>4. o.target = r.target /\ o.action = r.action /\ o.effects = r.effects
    BY <2>1 DEF Candidates, Equivalent, Selector
  <2>5. /\ q.target = o.target /\ q.action = o.action /\ q.effects = o.effects
        /\ q.risk = EffectiveRisk(goal, o)
    BY DEF Subject
  <2>6. f.surface \in {"dom", "wot", "visual"} /\ f.asserted \in 0 .. 3 /\ GoalLike(goal)
    BY PagesAreSound DEF PageLike, DispatchInv, DispatchTypeOK
  <2> HIDE DEF q, o
  <2>7. RiskOf(f) \in 0 .. 3
    BY <2>6, RiskIsFloored
  <2>8. q.risk >= RiskOf(f)
    BY <2>1, <2>5
  <2> QED BY <2>1, <2>2, <2>3, <2>4, <2>5, <2>8
<1> QED BY <1>1, DispatchIsSound, PTL

-----------------------------------------------------------------------------
(* Numbers up to a bound.                                                    *)

\* A set that has 0 and the next of each has all numbers up to a bound.
LEMMA UpToInduction ==
    ASSUME NEW S, NEW n \in Nat, 0 \in S,
           \A m \in 0 .. n : m < n /\ m \in S => m + 1 \in S
    PROVE  \A m \in 0 .. n : m \in S
PROOF
<1> DEFINE B == {m \in 0 .. n : m \notin S}
<1> SUFFICES ASSUME B # {} PROVE FALSE
  OBVIOUS
<1>1. B \in SUBSET Nat
  OBVIOUS
<1>2. PICK x \in B : \A y \in B : x <= y
  BY ONLY <1>1, B # {}, LeastExists
<1>3. x # 0 /\ x \in 0 .. n
  OBVIOUS
<1>4. x - 1 \in 0 .. n /\ x - 1 < n /\ x - 1 + 1 = x /\ ~(x <= x - 1)
  BY <1>3
<1>5. x - 1 \notin B
  BY <1>2, <1>4
<1>6. x - 1 \in S
  BY <1>4, <1>5
<1>7. x \in S
  BY <1>4, <1>6
<1> QED  BY <1>7

-----------------------------------------------------------------------------
(* The browser session: what an observation says, and what an action meets.  *)

\* What waits in the queue, and what the thread works on.
Pending == ToSet(orders) \cup thread.order
Acts(n) == \E o \in Pending : o.name = "act" /\ o.arg = n
Arguments == Nat \cup {"dom", "visual", "beside", ""}
Commands == [name : {"capture", "tabs", "frame", "probe", "act", "stop"}, arg : Arguments, heard : BOOLEAN]
ReadPlaces == {"url", "controls", "layers", "shot", "final"}
Tabs == [id : Nat, page : DOMAIN WebPages]
IsSequence(s) == s \in Seq({s[i] : i \in 1 .. Len(s)})

DeskShape ==
    /\ web \in Webs /\ visits \in Nat /\ tabs \in Seq(Tabs)
    /\ thread = [at |-> thread.at, tries |-> thread.tries, order |-> thread.order, got |-> thread.got]
    /\ client = [at |-> client.at, held |-> client.held, looks |-> client.looks, shot |-> client.shot]

OrdersShape ==
    /\ orders \in Seq(Commands)
    /\ \A o \in thread.order : o \in Commands /\ thread.order = {o}

\* The caller waits for the last command of all, and for no other; an action's
\* own command is never behind another.
WaitsFor(name) == IF name = "stop" THEN {"closing", "closed"} ELSE {name}

QueueIsSound ==
    /\ \A i \in 1 .. Len(orders) : orders[i].heard =>
          /\ i = Len(orders) /\ client.at \in WaitsFor(orders[i].name)
          /\ \A o \in thread.order : ~o.heard
    /\ \A o \in thread.order : o.heard => orders = <<>> /\ client.at \in WaitsFor(o.name)
    /\ \A i \in 1 .. Len(orders) : orders[i].name = "act" => i = 1 /\ thread.order = {}

\* What one moment means for a capture.
OneMoment(g) ==
    /\ (web.ax \/ g.shot # 0) /\ g.moves <= 1 =>
          \A p \in {g.states, g.layers, g.shot} \ {0} :
             WebPages[p].url = g.url /\ Html(p).revision = ModelOf(g).revision
    /\ g.moves = 0 =>
          /\ g.doc \in DOMAIN WebPages /\ g.layers = g.doc
          /\ g.url = WebPages[g.doc].url

\* While the page changed at most once, whatever was read is of the document
\* or of the page as it is now.
ReadingIsSound ==
    thread.at \in ReadPlaces =>
       LET g == thread.got
           moved == visits - g.moves
       IN /\ g = [doc |-> g.doc, url |-> g.url, states |-> g.states, layers |-> g.layers,
                  shot |-> g.shot, end |-> g.end, again |-> g.again, moves |-> g.moves]
          /\ g.doc \in DOMAIN WebPages
          /\ g.moves \in Nat /\ moved \in Nat
          /\ thread.at \in {"url", "controls"} => g.states = 0
          /\ thread.at \in {"url", "controls", "layers"} => g.layers = 0
          /\ thread.at # "final" => g.shot = 0
          /\ moved = 0 => /\ Live = g.doc
                          /\ thread.at # "url" => g.url = WebPages[g.doc].url
                          /\ thread.at \in {"shot", "final"} => g.layers = g.doc
          /\ moved <= 1 =>
               /\ \A p \in {g.states, g.layers, g.shot} \ {0} :
                     p = Live \/ (p = g.doc /\ g.url = WebPages[g.doc].url)
               /\ thread.at \notin {"url", "controls"} /\ g.states = 0 => Live = 0 /\ g.layers = 0

IsObservation(o) ==
    o = [no |-> o.no, got |-> o.got, tabs |-> o.tabs, coverage |-> o.coverage, picture |-> o.picture]

ViewsAreSound ==
    /\ client.at = "tabs" => client.shot = <<client.shot[1]>> /\ OneMoment(client.shot[1])
    /\ \A o \in view \cup unframed : IsObservation(o) /\ OneMoment(o.got)

\* The point of an action is on top in the picture it was chosen from.
Pointed(h) == h.x.kind = "point" => Topmost(h.o.picture, h.x.is)

\* What took effect on a page unchanged since the probe met what was chosen.
HitsWhatWasChosen(d) ==
    LET sought == ChosenControl(d.chosen).selector
        exact == sought.by # "nth" /\ Documents[d.on].found[sought] = 1
    IN /\ d.chosen.x.kind = "control" =>
            /\ Html(d.on).revision = ModelOf(d.chosen.o.got).revision
            /\ exact => \E c \in ToSet(Html(d.on).controls) :
                           Fingerprint(c) = Fingerprint(ChosenControl(d.chosen)) /\ d.met = {c.is}
       /\ d.chosen.x.kind = "point" => d.on = d.chosen.o.picture /\ d.met = {d.chosen.x.is}

\* An action whose command is still to come was current when it was probed.
SoundDeed(n, d) ==
    /\ d = [chosen |-> d.chosen, told |-> d.told, landed |-> d.landed, met |-> d.met,
            on |-> d.on, when |-> d.when]
    /\ d.when \in Nat /\ d.landed \in BOOLEAN
    /\ Pointed(d.chosen)
    /\ d.told \in {"not_sent", "raised"} => ~d.landed /\ ~Acts(n)
    /\ d.told = "sent" => d.landed
    /\ Acts(n) => /\ ~d.landed /\ visits - d.when \in Nat
                  /\ visits - d.when = 0 => IsCurrent(d.chosen)
    /\ d.landed /\ d.when = 0 => HitsWhatWasChosen(d)

DeedIsSound(n) == \A d \in {deeds[n]} : SoundDeed(n, d)

DeedsAreSound ==
    /\ IsSequence(deeds)
    /\ \A n \in 1 .. Len(deeds) : DeedIsSound(n)
    /\ \A h \in client.held : Pointed(h)

\* The last action is the one its caller waits for; a probe comes before its
\* command.
AskedIsSound ==
    /\ \A o \in Pending : o.name \in {"probe", "act"} =>
          /\ o.arg \in 1 .. Len(deeds)
          /\ o.heard => o.arg = Len(deeds)
          /\ o.name = "probe" => ~deeds[o.arg].landed /\ ~Acts(o.arg)
    /\ client.at = "probe" =>
          /\ Len(deeds) # 0 /\ deeds[Len(deeds)].told = "pending"
          /\ ~deeds[Len(deeds)].landed /\ ~Acts(Len(deeds))
    /\ client.at = "act" => Len(deeds) # 0

BrowserInv ==
    /\ DeskShape /\ OrdersShape /\ QueueIsSound /\ ReadingIsSound
    /\ ViewsAreSound /\ DeedsAreSound /\ AskedIsSound

-----------------------------------------------------------------------------
(* Sequences of commands, tabs and actions.                                  *)

\* A sequence with one more entry, and its members.
LEMMA MembersGrow ==
    ASSUME NEW S, NEW s \in Seq(S), NEW x
    PROVE  ToSet(Append(s, x)) = ToSet(s) \cup {x}
PROOF
<1>1. s \in Seq(S \cup {x}) /\ x \in S \cup {x}
  OBVIOUS
<1>2. /\ Append(s, x) \in Seq(S \cup {x})
      /\ Len(Append(s, x)) = Len(s) + 1
      /\ \A i \in 1 .. Len(s) : Append(s, x)[i] = s[i]
      /\ Append(s, x)[Len(s) + 1] = x
  BY <1>1, AppendProperties
<1>3. Len(s) \in Nat /\ DOMAIN s = 1 .. Len(s) /\ DOMAIN Append(s, x) = 1 .. (Len(s) + 1)
  BY <1>1, <1>2, LenProperties
<1>4. \A i \in 1 .. (Len(s) + 1) : i \in 1 .. Len(s) \/ i = Len(s) + 1
  BY <1>3
<1>5. \A i \in 1 .. Len(s) : i \in 1 .. (Len(s) + 1)
  BY <1>3
<1>6. Len(s) + 1 \in 1 .. (Len(s) + 1)
  BY <1>3
<1> QED  BY <1>2, <1>3, <1>4, <1>5, <1>6 DEF ToSet

\* The same in full.
LEMMA LongerBy ==
    ASSUME NEW S, NEW s \in Seq(S), NEW x
    PROVE  LET t == Append(s, x)
           IN /\ Len(t) = Len(s) + 1 /\ Len(t) \in Nat
              /\ \A i \in 1 .. Len(s) : t[i] = s[i]
              /\ t[Len(s) + 1] = x
              /\ t \in Seq(S \cup {x})
              /\ ToSet(t) = ToSet(s) \cup {x}
PROOF
<1>1. s \in Seq(S \cup {x}) /\ x \in S \cup {x}
  OBVIOUS
<1>2. /\ Append(s, x) \in Seq(S \cup {x})
      /\ Len(Append(s, x)) = Len(s) + 1
      /\ \A i \in 1 .. Len(s) : Append(s, x)[i] = s[i]
      /\ Append(s, x)[Len(s) + 1] = x
  BY <1>1, AppendProperties
<1>3. Len(s) \in Nat
  OBVIOUS
<1> QED  BY <1>2, <1>3, MembersGrow

\* A sequence without its head.
LEMMA ShorterBy ==
    ASSUME NEW S, NEW s \in Seq(S), s # <<>>
    PROVE  /\ Tail(s) \in Seq(S) /\ Head(s) \in S /\ Head(s) = s[1] /\ 1 \in 1 .. Len(s)
           /\ Len(Tail(s)) = Len(s) - 1 /\ Len(Tail(s)) \in Nat
           /\ \A i \in 1 .. Len(Tail(s)) : i + 1 \in 1 .. Len(s) /\ Tail(s)[i] = s[i + 1]
           /\ ToSet(s) = ToSet(Tail(s)) \cup {Head(s)}
PROOF
<1>1. /\ Tail(s) \in Seq(S) /\ Head(s) \in S /\ Head(s) = s[1]
      /\ Len(Tail(s)) = Len(s) - 1 /\ Len(s) \in Nat /\ Len(s) # 0
      /\ DOMAIN s = 1 .. Len(s) /\ DOMAIN Tail(s) = 1 .. (Len(s) - 1)
      /\ \A i \in 1 .. (Len(s) - 1) : Tail(s)[i] = s[i + 1]
  BY HeadTailProperties, EmptySeq, LenProperties
<1>2. ToSet(s) = ToSet(Tail(s)) \cup {Head(s)}
  <2>1. \A i \in 1 .. Len(s) : i = 1 \/ (i - 1 \in 1 .. (Len(s) - 1) /\ i - 1 + 1 = i)
    BY <1>1
  <2>2. \A i \in 1 .. (Len(s) - 1) : i + 1 \in 1 .. Len(s)
    BY <1>1
  <2>3. 1 \in 1 .. Len(s)
    BY <1>1
  <2>4. ToSet(s) = {s[i] : i \in 1 .. Len(s)} /\ ToSet(Tail(s)) = {Tail(s)[i] : i \in 1 .. (Len(s) - 1)}
    BY <1>1 DEF ToSet
  <2>5. \A i \in 1 .. Len(s) : s[i] \in ToSet(Tail(s)) \cup {Head(s)}
    BY <1>1, <2>1, <2>4
  <2>6. \A i \in 1 .. (Len(s) - 1) : Tail(s)[i] \in ToSet(s)
    BY <1>1, <2>2, <2>4
  <2>7. Head(s) \in ToSet(s)
    BY <1>1, <2>3, <2>4
  <2> QED  BY <2>4, <2>5, <2>6, <2>7
<1> QED  BY <1>1, <1>2

\* The entries of a sequence.
LEMMA EntriesAre ==
    ASSUME NEW S, NEW s \in Seq(S)
    PROVE  /\ ToSet(s) = {s[i] : i \in 1 .. Len(s)} /\ Len(s) \in Nat
           /\ ToSet(s) \subseteq S /\ \A i \in 1 .. Len(s) : s[i] \in S
           /\ DOMAIN s = 1 .. Len(s)
PROOF BY LenProperties, ElementOfSeq DEF ToSet
-----------------------------------------------------------------------------
(* Steps that leave a part alone.                                            *)

SamePage == web' = web /\ tabs' = tabs /\ focus' = focus /\ visits' = visits

\* An action stays sound when nothing new is to come for it, on the same page
\* or on one that has changed.
LEMMA SoundStays ==
    ASSUME NEW n, NEW d, SoundDeed(n, d), web' = web, visits \in Nat,
           Acts(n)' => Acts(n),
           SamePage \/ visits' = visits + 1 \/ ~Acts(n)'
    PROVE  SoundDeed(n, d)'
PROOF
<1>2. HitsWhatWasChosen(d) => HitsWhatWasChosen(d)'
  BY DEF HitsWhatWasChosen, ChosenControl, ModelOf, Html
<1>3. Pointed(d.chosen) => Pointed(d.chosen)'
  BY DEF Pointed, Topmost, Layers
<1>4. CASE SamePage
  <2>0. Live' = Live /\ TabsPrint' = TabsPrint
    BY <1>4 DEF SamePage, Live, TabsPrint
  <2>1. IsCurrent(d.chosen) => IsCurrent(d.chosen)'
    BY <2>0 DEF IsCurrent, Html, ModelOf, ChosenControl, ReceivesPointer, Topmost, Layers
  <2> QED  BY <1>2, <1>3, <1>4, <2>1 DEF SoundDeed, SamePage
<1>5. CASE visits' = visits + 1
  <2>1. ASSUME visits - d.when \in Nat
        PROVE  visits' - d.when \in Nat /\ visits' - d.when # 0
    <3>1. d.when \in Nat
      BY DEF SoundDeed
    <3> QED  BY <1>5, <2>1, <3>1
  <2> QED  BY <1>2, <1>3, <2>1 DEF SoundDeed
<1>6. CASE ~Acts(n)'
  BY <1>2, <1>3, <1>6 DEF SoundDeed
<1> QED  BY <1>4, <1>5, <1>6

\* An action stays sound when it stays as it is and no command comes for it.
LEMMA DeedStays ==
    ASSUME NEW n, DeedIsSound(n), deeds'[n] = deeds[n], web' = web, visits \in Nat,
           Acts(n)' => Acts(n),
           SamePage \/ visits' = visits + 1 \/ ~Acts(n)'
    PROVE  DeedIsSound(n)'
PROOF
<1>1. ASSUME NEW d \in {deeds'[n]} PROVE SoundDeed(n, d)'
  <2>1. SoundDeed(n, d)
    BY DEF DeedIsSound
  <2> QED  BY <2>1, SoundStays
<1> QED  BY <1>1 DEF DeedIsSound

\* So do all actions, and all that may yet be chosen.
LEMMA DeedsStay ==
    ASSUME DeedsAreSound, deeds' = deeds, web' = web, visits \in Nat,
           \A n : Acts(n)' => Acts(n),
           SamePage \/ visits' = visits + 1,
           \A h \in client'.held : h \in client.held
    PROVE  DeedsAreSound'
PROOF
<1>1. ASSUME NEW n \in 1 .. Len(deeds) PROVE DeedIsSound(n)'
  <2>1. DeedIsSound(n) /\ deeds'[n] = deeds[n]
    BY DEF DeedsAreSound
  <2> QED  BY <2>1, DeedStays
<1>2. IsSequence(deeds)'
  BY DEF DeedsAreSound, IsSequence
<1>3. ASSUME NEW h \in client'.held PROVE Pointed(h)'
  BY DEF DeedsAreSound, Pointed, Topmost, Layers
<1> QED  BY <1>1, <1>2, <1>3 DEF DeedsAreSound

\* What one moment means depends on nothing that changes.
LEMMA MomentStays ==
    ASSUME NEW g, OneMoment(g), web' = web
    PROVE  OneMoment(g)'
PROOF BY DEF OneMoment, Html, ModelOf

\* Observations stay sound when none comes and the caller reads no tabs anew.
LEMMA ViewsStay ==
    ASSUME ViewsAreSound, web' = web, \A o \in view' \cup unframed' : o \in view \cup unframed,
           client'.at = "tabs" => client.at = "tabs" /\ client'.shot = client.shot
    PROVE  ViewsAreSound'
PROOF
<1>1. \A g : OneMoment(g) => OneMoment(g)'
  BY MomentStays
<1>2. (\A o \in view \cup unframed : IsObservation(o) /\ OneMoment(o.got))'
  <2>1. \A o \in view' \cup unframed' : IsObservation(o) /\ OneMoment(o.got)
    BY DEF ViewsAreSound
  <2>2. \A o : IsObservation(o) => IsObservation(o)'
    BY DEF IsObservation
  <2> QED  BY <1>1, <2>1, <2>2
<1>3. (client.at = "tabs" => client.shot = <<client.shot[1]>> /\ OneMoment(client.shot[1]))'
  BY <1>1 DEF ViewsAreSound, OneMoment, Html, ModelOf
<1> QED  BY <1>2, <1>3 DEF ViewsAreSound

\* A reading stays sound on the same page.
LEMMA ReadingStays ==
    ASSUME ReadingIsSound, SamePage,
           thread'.at \in ReadPlaces => thread'.at = thread.at /\ thread'.got = thread.got
    PROVE  ReadingIsSound'
PROOF BY DEF ReadingIsSound, SamePage, Live, ReadPlaces

\* What the caller waits for stays when no command comes and none is answered.
LEMMA AskedStays ==
    ASSUME AskedIsSound, deeds' = deeds,
           \A o \in Pending' : o \in Pending \/ (~o.heard /\ \E q \in Pending : q.name = o.name /\ q.arg = o.arg),
           \A n : Acts(n)' => Acts(n),
           client'.at \in {"probe", "act"} => client'.at = client.at
    PROVE  AskedIsSound'
PROOF
<1>1. ASSUME NEW o \in Pending', o.name \in {"probe", "act"}
      PROVE  /\ o.arg \in 1 .. Len(deeds)
             /\ o.heard => o.arg = Len(deeds)
             /\ o.name = "probe" => ~deeds[o.arg].landed /\ ~Acts(o.arg)
  <2>1. CASE o \in Pending
    BY <1>1, <2>1 DEF AskedIsSound
  <2>2. CASE ~o.heard /\ \E q \in Pending : q.name = o.name /\ q.arg = o.arg
    BY <1>1, <2>2 DEF AskedIsSound
  <2> QED  BY <1>1, <2>1, <2>2
<1>2. client'.at = "probe" => client.at = "probe"
  OBVIOUS
<1>3. client'.at = "act" => client.at = "act"
  OBVIOUS
<1> QED  BY <1>1, <1>2, <1>3 DEF AskedIsSound
-----------------------------------------------------------------------------
(* The queue.                                                                *)

\* A caller that is free, or at its launch, waits for nothing.
LEMMA NobodyIsHeard ==
    ASSUME OrdersShape, QueueIsSound,
           client.at \notin {"capture", "tabs", "frame", "probe", "act", "closing", "closed"}
    PROVE  \A o \in Pending : ~o.heard
PROOF
<1>1. /\ ToSet(orders) = {orders[i] : i \in 1 .. Len(orders)}
      /\ \A i \in 1 .. Len(orders) : orders[i] \in Commands
  BY EntriesAre DEF OrdersShape
<1>2. \A o \in Commands : client.at \notin WaitsFor(o.name)
  BY DEF Commands, WaitsFor
<1>3. ASSUME NEW o \in ToSet(orders) PROVE ~o.heard
  BY <1>1, <1>2 DEF QueueIsSound
<1>4. ASSUME NEW o \in thread.order PROVE ~o.heard
  BY <1>2 DEF QueueIsSound, OrdersShape
<1> QED  BY <1>3, <1>4 DEF Pending

\* The command the thread works on, when its caller listens: nothing waits
\* behind it, and the caller is where the command was sent.
LEMMA ListenedIs ==
    ASSUME OrdersShape, QueueIsSound, Listened
    PROVE  /\ orders = <<>> /\ Len(orders) = 0 /\ ToSet(orders) = {}
           /\ \E o \in thread.order : thread.order = {o} /\ o \in Commands /\ o.heard /\ client.at \in WaitsFor(o.name)
PROOF
<1>1. PICK o \in thread.order : o.heard /\ thread.order = {o} /\ o \in Commands
  BY DEF Listened, OrdersShape
<1>2. orders = <<>> /\ client.at \in WaitsFor(o.name)
  BY <1>1 DEF QueueIsSound
<1>3. Len(orders) = 0 /\ DOMAIN orders = {}
  BY <1>2
<1>4. ToSet(orders) = {}
  BY <1>3 DEF ToSet
<1> QED  BY <1>1, <1>2, <1>3, <1>4

\* The thread goes on or comes to an end with its command, and the caller stays.
LEMMA QueueStays ==
    ASSUME OrdersShape, QueueIsSound, orders' = orders, thread'.order \in {thread.order, {}},
           client'.at = client.at \/ (\A o \in Pending : ~o.heard)
              \/ (thread'.order = {} /\ Listened)
    PROVE  OrdersShape' /\ QueueIsSound' /\ Pending' \subseteq Pending
PROOF
<1>1. OrdersShape' /\ Pending' \subseteq Pending
  BY DEF OrdersShape, Pending
<1>2. CASE client'.at = client.at
  BY <1>1, <1>2 DEF QueueIsSound
<1>3. CASE \A o \in Pending : ~o.heard
  <2>1. /\ \A i \in 1 .. Len(orders) : ~orders[i].heard
        /\ \A o \in thread.order : ~o.heard
    BY <1>3, EntriesAre DEF Pending, OrdersShape
  <2> QED  BY <1>1, <2>1 DEF QueueIsSound
<1>4. CASE thread'.order = {} /\ Listened
  <2>1. Len(orders) = 0
    BY <1>4, ListenedIs
  <2> QED  BY <1>1, <1>4, <2>1 DEF QueueIsSound
<1> QED  BY <1>1, <1>2, <1>3, <1>4

\* A command joins the queue of a thread nobody waits for.
LEMMA QueueGrows ==
    ASSUME OrdersShape, QueueIsSound, NEW name, NEW arg, Order(name, arg) \in Commands,
           Sends(name, arg), thread'.order \in {thread.order, {}},
           client'.at \in WaitsFor(name),
           \A q \in ToSet(orders) \cup thread'.order : ~q.heard,
           name = "act" => orders = <<>> /\ thread'.order = {}
    PROVE  /\ OrdersShape' /\ QueueIsSound'
           /\ Pending' \subseteq Pending \cup {Order(name, arg)}
PROOF
<1> DEFINE o == Order(name, arg)
<1>0. o.name = name /\ o.arg = arg /\ o.heard
  BY DEF Order
<1> HIDE DEF o
<1>1. /\ Len(orders') = Len(orders) + 1 /\ Len(orders) \in Nat
      /\ \A i \in 1 .. Len(orders) : orders'[i] = orders[i]
      /\ orders'[Len(orders) + 1] = o
      /\ orders' \in Seq(Commands)
      /\ ToSet(orders') = ToSet(orders) \cup {o}
  <2>1. orders \in Seq(Commands) /\ o \in Commands /\ Commands \cup {o} = Commands
    BY DEF OrdersShape, o
  <2>2. orders' = Append(orders, o)
    BY DEF Sends, o
  <2>3. Len(orders) \in Nat
    BY <2>1, EntriesAre
  <2> QED  BY <2>1, <2>2, <2>3, LongerBy
<1>2. \A i \in 1 .. Len(orders) : ~orders[i].heard
  BY EntriesAre DEF OrdersShape
<1>3. ASSUME NEW i \in 1 .. Len(orders')
      PROVE  \/ i \in 1 .. Len(orders) /\ orders'[i] = orders[i]
             \/ i = Len(orders') /\ orders'[i] = o
  BY <1>1
<1>4. OrdersShape' /\ Pending' \subseteq Pending \cup {o}
  BY <1>1 DEF OrdersShape, Pending
<1>5. ASSUME NEW i \in 1 .. Len(orders'), orders'[i].heard
      PROVE  /\ i = Len(orders') /\ client'.at \in WaitsFor(orders'[i].name)
             /\ \A q \in thread'.order : ~q.heard
  BY <1>0, <1>2, <1>3, <1>5
<1>6. ASSUME NEW i \in 1 .. Len(orders'), orders'[i].name = "act"
      PROVE  i = 1 /\ thread'.order = {}
  <2>1. CASE i \in 1 .. Len(orders) /\ orders'[i] = orders[i]
    BY <1>6, <2>1 DEF QueueIsSound
  <2>2. CASE i = Len(orders') /\ orders'[i] = o
    <3>1. name = "act" /\ orders = <<>> /\ thread'.order = {}
      BY <1>0, <1>6, <2>2
    <3>2. Len(orders) = 0
      BY <3>1
    <3> QED  BY <1>1, <2>2, <3>1, <3>2
  <2> QED  BY <1>3, <2>1, <2>2
<1>7. \A q \in thread'.order : ~q.heard
  OBVIOUS
<1> QED  BY <1>4, <1>5, <1>6, <1>7 DEF QueueIsSound, o
-----------------------------------------------------------------------------
(* The entries kept of a sequence.                                           *)

\* What EntriesAt computes on the way.
KeptUpTo(s, places, n, f) ==
    f = [i \in 0 .. n |-> IF i = 0 THEN <<>> ELSE (IF i \in places THEN Append(f[i - 1], s[i]) ELSE f[i - 1])]

\* Such a function exists.
LEMMA KeptExists ==
    ASSUME NEW s, NEW places, NEW n \in Nat
    PROVE  \E f : KeptUpTo(s, places, n, f)
PROOF
<1> DEFINE S == {m \in 0 .. n : \E f : KeptUpTo(s, places, m, f)}
<1>1. 0 \in S
  <2> DEFINE f == [i \in 0 .. 0 |-> <<>>]
  <2>1. \A i \in 0 .. 0 : i = 0
    OBVIOUS
  <2>2. KeptUpTo(s, places, 0, f)
    BY <2>1 DEF KeptUpTo
  <2> QED  BY <2>2
<1>2. ASSUME NEW m \in 0 .. n, m < n, m \in S PROVE m + 1 \in S
  <2>1. PICK f : KeptUpTo(s, places, m, f)
    BY <1>2
  <2> DEFINE last == (IF (m + 1) \in places THEN Append(f[m], s[(m + 1)]) ELSE f[m])
             g == [i \in 0 .. (m + 1) |-> IF i = m + 1 THEN last ELSE f[i]]
             body(i) == IF i = 0 THEN <<>> ELSE (IF i \in places THEN Append(g[i - 1], s[i]) ELSE g[i - 1])
  <2>2. ASSUME NEW i \in 0 .. (m + 1) PROVE g[i] = body(i)
    <3>1. CASE i = 0
      <4>1. f[0] = <<>>
        BY <2>1 DEF KeptUpTo
      <4>2. m + 1 # 0
        OBVIOUS
      <4> HIDE DEF last
      <4> QED  BY <3>1, <4>1, <4>2
    <3>2. CASE i \in 1 .. m
      <4>1. i - 1 \in 0 .. m /\ i \in 0 .. m /\ i # m + 1 /\ i - 1 # m + 1 /\ i # 0
            /\ i - 1 \in 0 .. (m + 1)
        BY <3>2
      <4> HIDE DEF last
      <4>2. g[i] = f[i] /\ g[i - 1] = f[i - 1]
        BY <4>1
      <4>3. f[i] = (IF i \in places THEN Append(f[i - 1], s[i]) ELSE f[i - 1])
        BY <2>1, <4>1 DEF KeptUpTo
      <4> HIDE DEF g
      <4> QED  BY <4>1, <4>2, <4>3
    <3>3. CASE i = m + 1
      <4>1. m \in 0 .. (m + 1) /\ m # m + 1 /\ i # 0 /\ i - 1 = m
        BY <3>3
      <4> HIDE DEF last
      <4>2. g[i] = last /\ g[i - 1] = f[m]
        BY <3>3, <4>1
      <4> HIDE DEF g
      <4> USE DEF last
      <4> QED  BY <3>3, <4>1, <4>2
    <3> QED  BY <3>1, <3>2, <3>3
  <2>3. g = [i \in 0 .. (m + 1) |-> body(i)]
    BY <2>2
  <2>4. KeptUpTo(s, places, m + 1, g)
    BY <2>3 DEF KeptUpTo
  <2>5. m + 1 \in 0 .. n
    BY <1>2
  <2> QED  BY <2>4, <2>5
<1> HIDE DEF S
<1>3. \A m \in 0 .. n : m \in S
  BY <1>1, <1>2, UpToInduction
<1> QED  BY <1>3 DEF S

\* EntriesAt is what the last of these steps gives.
LEMMA KeptIs ==
    ASSUME NEW s, NEW places, Len(s) \in Nat
    PROVE  \E f : KeptUpTo(s, places, Len(s), f) /\ EntriesAt(s, places) = f[Len(s)]
PROOF
<1> DEFINE f == CHOOSE f : KeptUpTo(s, places, Len(s), f)
<1>1. KeptUpTo(s, places, Len(s), f)
  BY KeptExists
<1>2. EntriesAt(s, places) = f[Len(s)]
  BY DEF EntriesAt, KeptUpTo
<1> QED  BY <1>1, <1>2

\* What is kept are entries of the sequence at the places kept.
LEMMA KeptEntries ==
    ASSUME NEW S, NEW s \in Seq(S), NEW places
    PROVE  EntriesAt(s, places) \in Seq({s[i] : i \in {j \in 1 .. Len(s) : j \in places}})
PROOF
<1> DEFINE E == {s[i] : i \in {j \in 1 .. Len(s) : j \in places}}
           n == Len(s)
<1>0. n \in Nat
  OBVIOUS
<1>1. PICK f : KeptUpTo(s, places, n, f) /\ EntriesAt(s, places) = f[n]
  BY <1>0, KeptIs
<1> DEFINE G == {m \in 0 .. n : f[m] \in Seq(E)}
<1>2. 0 \in G
  BY <1>0, <1>1 DEF KeptUpTo
<1>3. ASSUME NEW m \in 0 .. n, m < n, m \in G PROVE m + 1 \in G
  <2>1. m + 1 \in 1 .. n /\ m + 1 \in 0 .. n /\ m + 1 # 0 /\ m + 1 - 1 = m
    BY <1>0, <1>3
  <2>2. f[m + 1] = IF m + 1 \in places THEN Append(f[m], s[m + 1]) ELSE f[m]
    <3>1. \A i \in 0 .. n : i # 0 =>
             f[i] = IF i \in places THEN Append(f[i - 1], s[i]) ELSE f[i - 1]
      BY <1>1 DEF KeptUpTo
    <3> HIDE DEF n
    <3> QED  BY ONLY <2>1, <3>1
  <2>3. m + 1 \in places => s[m + 1] \in E
    BY <2>1
  <2> HIDE DEF E
  <2>4. f[m] \in Seq(E)
    BY <1>3
  <2>5. f[m + 1] \in Seq(E)
    BY <2>2, <2>3, <2>4
  <2> QED  BY <2>1, <2>5
<1> HIDE DEF G
<1>4. n \in G
  <2>1. \A m \in 0 .. n : m \in G
    BY <1>0, <1>2, <1>3, UpToInduction
  <2> QED  BY <1>0, <2>1
<1> QED  BY <1>1, <1>4 DEF G
-----------------------------------------------------------------------------
(* The page moves on.                                                        *)

\* The page shown in the selected tab, if there is that tab.
LEMMA LiveIsPage ==
    ASSUME tabs \in Seq(Tabs)
    PROVE  /\ Live \in DOMAIN WebPages \cup {0}
           /\ Live # 0 => \E i \in DOMAIN tabs : tabs[i].id = focus
PROOF
<1>1. CASE \E i \in DOMAIN tabs : tabs[i].id = focus
  <2> DEFINE i == CHOOSE j \in DOMAIN tabs : tabs[j].id = focus
  <2>1. i \in DOMAIN tabs
    BY <1>1
  <2>2. tabs[i] \in Tabs
    BY <2>1, EntriesAre
  <2>3. Live = tabs[i].page
    BY <1>1 DEF Live
  <2> QED  BY <1>1, <2>2, <2>3 DEF Tabs
<1>2. CASE ~\E i \in DOMAIN tabs : tabs[i].id = focus
  BY <1>2 DEF Live
<1> QED  BY <1>1, <1>2

\* Closing the selected tab leaves tabs.
LEMMA OtherTabsAreTabs ==
    ASSUME tabs \in Seq(Tabs)
    PROVE  OtherTabs \in Seq(Tabs)
PROOF
<1> DEFINE places == {i \in DOMAIN tabs : tabs[i].id # focus}
           E == {tabs[i] : i \in {j \in 1 .. Len(tabs) : j \in places}}
<1>1. OtherTabs \in Seq(E)
  BY KeptEntries DEF OtherTabs
<1>2. E \subseteq Tabs
  BY EntriesAre
<1> HIDE DEF E
<1> QED  BY <1>1, <1>2

\* A page that changes while it is read is one change away from its document.
LEMMA ReadingMoves ==
    ASSUME ReadingIsSound, DeskShape, visits' = visits + 1, web' = web, thread' = thread
    PROVE  ReadingIsSound'
PROOF
<1> SUFFICES ASSUME thread.at \in ReadPlaces PROVE ReadingIsSound'
  BY DEF ReadingIsSound
<1> DEFINE g == thread.got
           moved == visits - g.moves
<1>1. /\ g = [doc |-> g.doc, url |-> g.url, states |-> g.states, layers |-> g.layers,
              shot |-> g.shot, end |-> g.end, again |-> g.again, moves |-> g.moves]
      /\ g.doc \in DOMAIN WebPages
      /\ g.moves \in Nat /\ moved \in Nat /\ visits \in Nat
      /\ thread.at \in {"url", "controls"} => g.states = 0
      /\ thread.at \in {"url", "controls", "layers"} => g.layers = 0
      /\ thread.at # "final" => g.shot = 0
  BY DEF ReadingIsSound, DeskShape
<1>2. /\ moved = 0 => Live = g.doc /\ (thread.at # "url" => g.url = WebPages[g.doc].url)
      /\ moved <= 1 =>
               /\ \A p \in {g.states, g.layers, g.shot} \ {0} :
                     p = Live \/ (p = g.doc /\ g.url = WebPages[g.doc].url)
               /\ thread.at \notin {"url", "controls"} /\ g.states = 0 => Live = 0 /\ g.layers = 0
  BY DEF ReadingIsSound
<1>3. visits' - g.moves = moved + 1
  BY <1>1
<1>4. visits' - g.moves \in Nat /\ visits' - g.moves # 0 /\ (visits' - g.moves <= 1 => moved = 0)
  BY <1>1, <1>3
<1>5. ASSUME moved = 0
      PROVE  /\ \A p \in {g.states, g.layers, g.shot} \ {0} :
                    p = g.doc /\ g.url = WebPages[g.doc].url
             /\ ~(thread.at \notin {"url", "controls"} /\ g.states = 0)
  <2>1. moved <= 1 /\ Live = g.doc /\ Live # 0
    <3>1. 0 \notin DOMAIN WebPages
      BY BrowserAssumption
    <3>2. moved <= 1
      BY <1>5
    <3> HIDE DEF moved, g
    <3> QED  BY <1>1, <1>2, <1>5, <3>1, <3>2
  <2>2. thread.at = "url" => {g.states, g.layers, g.shot} \ {0} = {}
    BY <1>1
  <2> QED  BY <1>2, <1>5, <2>1, <2>2
<1> HIDE DEF moved
<1>6. thread'.at = thread.at /\ thread'.got = g
  OBVIOUS
<1> HIDE DEF g
<1> QED  BY <1>1, <1>4, <1>5, <1>6 DEF ReadingIsSound

\* Whatever page is shown next, the rest of the state does not know of it.
LEMMA PageChangesKeep ==
    ASSUME BrowserInv, visits' = visits + 1, tabs' \in Seq(Tabs),
           UNCHANGED <<web, focus, thread, orders, client, view, unframed, deeds>>
    PROVE  BrowserInv'
PROOF
<1> USE DEF BrowserInv
<1>1. DeskShape'
  BY DEF DeskShape
<1>2. OrdersShape' /\ QueueIsSound' /\ Pending' = Pending
  BY DEF OrdersShape, QueueIsSound, Pending
<1>3. ReadingIsSound'
  BY ReadingMoves
<1>4. ViewsAreSound'
  BY ViewsStay
<1>5. \A n : Acts(n)' = Acts(n)
  BY <1>2 DEF Acts
<1>6. DeedsAreSound'
  BY <1>5, DeedsStay DEF DeskShape
<1>7. AskedIsSound'
  BY <1>2, <1>5, AskedStays
<1> QED  BY <1>1, <1>2, <1>3, <1>4, <1>6, <1>7

\* The page goes on by itself.
LEMMA PageMovesOnKeeps ==
    ASSUME BrowserInv, PageMovesOn
    PROVE  BrowserInv'
PROOF
<1>1. PICK p \in web.next[Live] : ShowsPage(p)
  BY DEF PageMovesOn
<1>2. tabs \in Seq(Tabs) /\ web \in Webs /\ Live # 0
  BY DEF BrowserInv, DeskShape, PageMovesOn
<1>3. p \in DOMAIN WebPages
  BY <1>1, <1>2, LiveIsPage, BrowserAssumption
<1>4. tabs' \in Seq(Tabs)
  <2>1. \A i \in 1 .. Len(tabs) :
           (IF tabs[i].id = focus THEN [tabs[i] EXCEPT !.page = p] ELSE tabs[i]) \in Tabs
    <3>1. \A t \in Tabs : [t EXCEPT !.page = p] \in Tabs
      BY <1>3 DEF Tabs
    <3> QED  BY <1>2, <3>1, EntriesAre
  <2>2. DOMAIN tabs = 1 .. Len(tabs) /\ Len(tabs) \in Nat
    BY <1>2, EntriesAre
  <2>3. tabs' = [i \in 1 .. Len(tabs) |->
                   IF tabs[i].id = focus THEN [tabs[i] EXCEPT !.page = p] ELSE tabs[i]]
    BY <1>1, <2>2 DEF ShowsPage
  <2> QED  BY <2>1, <2>2, <2>3
<1> QED  BY <1>4, PageChangesKeep DEF PageMovesOn

\* The site opens a tab or closes one.
LEMMA SiteTouchesTabsKeeps ==
    ASSUME BrowserInv, SiteTouchesTabs
    PROVE  BrowserInv'
PROOF
<1>1. tabs \in Seq(Tabs) /\ web.start \in DOMAIN WebPages
  BY BrowserAssumption DEF BrowserInv, DeskShape
<1>2. [id |-> 3, page |-> web.start] \in Tabs
  BY <1>1 DEF Tabs
<1>3. tabs' \in Seq(Tabs)
  BY <1>1, <1>2, OtherTabsAreTabs DEF SiteTouchesTabs
<1> QED  BY <1>3, PageChangesKeep DEF SiteTouchesTabs
-----------------------------------------------------------------------------
(* The thread and its caller.                                                *)

\* Steps in which no command comes and no action is touched.
LEMMA QuietStepKeeps ==
    ASSUME BrowserInv, SamePage, UNCHANGED <<deeds, orders>>,
           thread' = [at |-> thread'.at, tries |-> thread'.tries, order |-> thread'.order, got |-> thread'.got],
           client' = [at |-> client'.at, held |-> client'.held, looks |-> client'.looks, shot |-> client'.shot],
           thread'.order \in {thread.order, {}},
           client'.at = client.at \/ (\A o \in Pending : ~o.heard)
              \/ (thread'.order = {} /\ Listened),
           client'.at \in {"probe", "act"} => client'.at = client.at,
           \A h \in client'.held : h \in client.held \/ Pointed(h),
           ReadingIsSound', ViewsAreSound'
    PROVE  BrowserInv'
PROOF
<1> USE DEF BrowserInv
<1>1. DeskShape'
  BY DEF DeskShape, SamePage
<1>2. OrdersShape' /\ QueueIsSound' /\ Pending' \subseteq Pending
  BY QueueStays
<1>3. \A n : Acts(n)' => Acts(n)
  BY <1>2 DEF Acts
<1>4. DeedsAreSound'
  <2>1. ASSUME NEW n \in 1 .. Len(deeds) PROVE DeedIsSound(n)'
    <3>1. DeedIsSound(n) /\ deeds'[n] = deeds[n] /\ web' = web /\ visits \in Nat
      BY DEF DeedsAreSound, SamePage, DeskShape
    <3> QED  BY <1>3, <3>1, DeedStays
  <2>2. IsSequence(deeds)'
    BY DEF DeedsAreSound, IsSequence
  <2>3. ASSUME NEW h \in client'.held PROVE Pointed(h)'
    BY DEF DeedsAreSound, Pointed, Topmost, Layers
  <2> QED  BY <2>1, <2>2, <2>3 DEF DeedsAreSound
<1>5. AskedIsSound'
  BY <1>2, <1>3, AskedStays
<1> QED  BY <1>1, <1>2, <1>4, <1>5

\* The thread and the caller are their parts.
LEMMA ShapesAre ==
    ASSUME BrowserInv
    PROVE  /\ thread = [at |-> thread.at, tries |-> thread.tries, order |-> thread.order, got |-> thread.got]
           /\ client = [at |-> client.at, held |-> client.held, looks |-> client.looks, shot |-> client.shot]
           /\ visits \in Nat /\ tabs \in Seq(Tabs) /\ web \in Webs
PROOF BY DEF BrowserInv, DeskShape

\* An attempt to launch the browser.
LEMMA LaunchAttemptKeeps ==
    ASSUME BrowserInv, NEW loads \in BOOLEAN, LaunchAttempt(loads)
    PROVE  BrowserInv'
PROOF
<1>1. SamePage /\ UNCHANGED <<deeds, orders, view, unframed>> /\ thread.at = "launching"
  BY DEF LaunchAttempt, SamePage
<1>2. /\ thread' = [at |-> thread'.at, tries |-> thread'.tries, order |-> thread'.order, got |-> thread'.got]
      /\ thread'.order \in {thread.order, {}} /\ thread'.at \notin ReadPlaces
  BY ShapesAre DEF LaunchAttempt, AtEase, ReadPlaces
<1>3. /\ client' = [at |-> client'.at, held |-> client'.held, looks |-> client'.looks, shot |-> client'.shot]
      /\ client'.held = client.held
      /\ client'.at \notin {"probe", "act", "tabs"} \/ client' = client
      /\ client'.at = client.at \/ client.at = "launch"
  BY ShapesAre DEF LaunchAttempt
<1>4. client.at = "launch" => \A o \in Pending : ~o.heard
  BY NobodyIsHeard DEF BrowserInv
<1>5. ReadingIsSound' /\ ViewsAreSound'
  <2>1. ReadingIsSound'
    BY <1>2 DEF ReadingIsSound
  <2>2. ViewsAreSound'
    BY <1>1, <1>3, ViewsStay DEF BrowserInv, SamePage
  <2> QED  BY <2>1, <2>2
<1> QED  BY <1>1, <1>2, <1>3, <1>4, <1>5, QuietStepKeeps

\* The caller that closes sees the thread's end.
LEMMA JoinedKeeps ==
    ASSUME BrowserInv, Joined
    PROVE  BrowserInv'
PROOF
<1> USE DEF BrowserInv
<1>1. /\ client' = [at |-> "closed", held |-> client.held, looks |-> client.looks, shot |-> client.shot]
      /\ SamePage /\ UNCHANGED <<thread, orders, deeds, view, unframed>> /\ client.at = "closing"
  BY ShapesAre DEF Joined, SamePage
<1>2. DeskShape'
  BY <1>1 DEF DeskShape, SamePage
<1>3. Pending' = Pending /\ OrdersShape'
  BY <1>1 DEF OrdersShape, Pending
<1>4. QueueIsSound'
  <2>1. \A o \in Commands : "closing" \in WaitsFor(o.name) => "closed" \in WaitsFor(o.name)
    BY DEF WaitsFor, Commands
  <2>2. \A i \in 1 .. Len(orders) : orders[i] \in Commands
    BY EntriesAre DEF OrdersShape
  <2>3. \A o \in thread.order : o \in Commands
    BY DEF OrdersShape
  <2> QED  BY <1>1, <2>1, <2>2, <2>3 DEF QueueIsSound
<1>5. \A n : Acts(n)' => Acts(n)
  BY <1>3 DEF Acts
<1>6. ReadingIsSound' /\ ViewsAreSound'
  <2>1. client'.at # "tabs"
    BY <1>1
  <2> QED  BY <1>1, <2>1, ReadingStays, ViewsStay DEF SamePage
<1>7. DeedsAreSound'
  BY <1>1, <1>5, DeedsStay DEF DeskShape, SamePage
<1>8. AskedIsSound'
  <2>1. client'.at \notin {"probe", "act"}
    BY <1>1
  <2> QED  BY <1>1, <1>3, <1>5, <2>1, AskedStays
<1> QED  BY <1>2, <1>3, <1>4, <1>6, <1>7, <1>8

\* The next command: it was the first to wait, and what waits now is not an
\* action's command.
LEMMA TakeOrderKeeps ==
    ASSUME BrowserInv, TakeOrder
    PROVE  BrowserInv'
PROOF
<1> USE DEF BrowserInv
<1>1. /\ orders \in Seq(Commands) /\ orders # <<>> /\ thread.order = {} /\ thread.at = "idle"
      /\ orders' = Tail(orders)
      /\ SamePage /\ UNCHANGED <<client, deeds, view, unframed>>
  BY DEF OrdersShape, TakeOrder, SamePage
<1>2. /\ Tail(orders) \in Seq(Commands) /\ Head(orders) \in Commands /\ Len(orders) \in Nat
      /\ Head(orders) = orders[1] /\ 1 \in 1 .. Len(orders)
      /\ Len(Tail(orders)) = Len(orders) - 1 /\ Len(Tail(orders)) \in Nat
      /\ \A i \in 1 .. Len(Tail(orders)) : i + 1 \in 1 .. Len(orders) /\ Tail(orders)[i] = orders[i + 1]
      /\ ToSet(orders) = ToSet(Tail(orders)) \cup {Head(orders)}
  BY <1>1, ShorterBy, EntriesAre
<1>3. /\ thread'.order \in {{}, {Head(orders)}}
      /\ thread'.at \in {"gone", "html", "idle"}
      /\ thread' = [at |-> thread'.at, tries |-> thread'.tries, order |-> thread'.order, got |-> thread'.got]
  BY DEF TakeOrder, AtEase
<1>4. DeskShape'
  BY <1>1, <1>3 DEF DeskShape, SamePage
<1>5. OrdersShape' /\ Pending' \subseteq Pending
  BY <1>1, <1>2, <1>3 DEF OrdersShape, Pending
<1>6. QueueIsSound'
  <2>1. ASSUME NEW i \in 1 .. Len(orders')
        PROVE  /\ orders'[i].name # "act"
               /\ orders'[i].heard => /\ i = Len(orders') /\ client'.at \in WaitsFor(orders'[i].name)
                                      /\ \A o \in thread'.order : ~o.heard
    <3>1. i \in Nat /\ i + 1 \in 1 .. Len(orders) /\ orders'[i] = orders[i + 1] /\ i + 1 # 1
      BY <1>1, <1>2
    <3>2. orders'[i].name # "act"
      BY <3>1 DEF QueueIsSound
    <3>3. ASSUME orders'[i].heard
          PROVE  i = Len(orders') /\ client'.at \in WaitsFor(orders'[i].name)
      <4>1. i + 1 = Len(orders) /\ client.at \in WaitsFor(orders[i + 1].name)
        BY <3>1, <3>3 DEF QueueIsSound
      <4>2. i \in Nat /\ Len(orders) \in Nat /\ Len(Tail(orders)) = Len(orders) - 1
        BY <1>2, <3>1
      <4>3. i = Len(Tail(orders))
        BY ONLY <4>1, <4>2
      <4> QED  BY <1>1, <3>1, <4>1, <4>3
    <3>4. ~orders[1].heard
      <4>1. orders[1].heard => 1 = Len(orders)
        BY <1>2 DEF QueueIsSound
      <4>2. Len(orders) # 1
        BY <1>1, <1>2
      <4> QED  BY <4>1, <4>2
    <3> QED  BY <1>2, <1>3, <3>2, <3>3, <3>4
  <2>2. ASSUME NEW o \in thread'.order, o.heard
        PROVE  orders' = <<>> /\ client'.at \in WaitsFor(o.name)
    <3>1. o = orders[1]
      BY <1>2, <1>3
    <3>2. 1 = Len(orders) /\ client.at \in WaitsFor(o.name)
      BY <1>2, <2>2, <3>1 DEF QueueIsSound
    <3>3. Len(Tail(orders)) = 0
      <4>1. Len(orders) \in Nat /\ Len(Tail(orders)) = Len(orders) - 1
        BY <1>2
      <4> QED  BY ONLY <3>2, <4>1
    <3> QED  BY <1>1, <1>2, <3>2, <3>3, EmptySeq
  <2> QED  BY <2>1, <2>2 DEF QueueIsSound
<1>7. \A n : Acts(n)' => Acts(n)
  BY <1>5 DEF Acts
<1>8. ReadingIsSound' /\ ViewsAreSound'
  <2>1. thread'.at \notin ReadPlaces
    BY <1>3 DEF ReadPlaces
  <2> QED  BY <1>1, <2>1, ReadingStays, ViewsStay DEF SamePage
<1>9. DeedsAreSound' /\ AskedIsSound'
  BY <1>1, <1>5, <1>7, DeedsStay, AskedStays DEF DeskShape, SamePage
<1> QED  BY <1>4, <1>5, <1>6, <1>8, <1>9

\* What its caller is told of an action does not change what it did.
LEMMA DeedIsToldOtherwise ==
    ASSUME NEW n, DeedIsSound(n), SamePage, visits \in Nat, Acts(n)' => Acts(n),
           NEW what \in {"raised", "not_sent", "unknown"}, deeds'[n] = [deeds[n] EXCEPT !.told = what],
           what # "unknown" => ~deeds[n].landed /\ ~Acts(n)
    PROVE  DeedIsSound(n)'
PROOF
<1>1. ASSUME NEW d \in {deeds[n]} PROVE SoundDeed(n, [d EXCEPT !.told = what])'
  <2>1. SoundDeed(n, d)'
    <3>1. SoundDeed(n, d)
      BY DEF DeedIsSound
    <3> QED  BY <3>1, SoundStays DEF SamePage
  <2>2. [d EXCEPT !.told = what] =
           [chosen |-> d.chosen, told |-> what, landed |-> d.landed, met |-> d.met, on |-> d.on, when |-> d.when]
    BY <2>1 DEF SoundDeed
  <2>3. HitsWhatWasChosen(d)' => HitsWhatWasChosen([d EXCEPT !.told = what])'
    BY <2>2 DEF HitsWhatWasChosen, ChosenControl, ModelOf, Html
  <2> DEFINE e == [d EXCEPT !.told = what]
  <2>4. /\ e = [chosen |-> e.chosen, told |-> e.told, landed |-> e.landed, met |-> e.met, on |-> e.on, when |-> e.when]
        /\ e.told = what /\ e.chosen = d.chosen /\ e.landed = d.landed /\ e.when = d.when
    BY <2>2
  <2>5. HitsWhatWasChosen(d)' => HitsWhatWasChosen(e)'
    BY <2>3
  <2>6. what # "unknown" => ~d.landed /\ ~Acts(n)'
    OBVIOUS
  <2> HIDE DEF e
  <2> QED  BY <2>1, <2>4, <2>5, <2>6 DEF SoundDeed, e
<1>2. ASSUME NEW e \in {deeds'[n]} PROVE SoundDeed(n, e)'
  BY <1>1, <1>2
<1> QED  BY <1>2 DEF DeedIsSound

\* A function on the first numbers is a sequence of its values.
LEMMA FunctionIsSequence ==
    ASSUME NEW f, NEW n \in Nat, f = [i \in 1 .. n |-> f[i]]
    PROVE  f \in Seq({f[i] : i \in 1 .. n}) /\ Len(f) = n
PROOF
<1> DEFINE T == {f[i] : i \in 1 .. n}
<1>1. \A i \in 1 .. n : f[i] \in T
  OBVIOUS
<1> HIDE DEF T
<1>2. f \in Seq(T) /\ Len(f) = n
  BY <1>1
<1> QED  BY <1>2 DEF T

\* A sequence is one of its own entries.
LEMMA ItsOwnEntries ==
    ASSUME NEW S, NEW s \in Seq(S)
    PROVE  s \in Seq({s[i] : i \in 1 .. Len(s)})
PROOF
<1>1. Len(s) \in Nat /\ DOMAIN s = 1 .. Len(s) /\ s \in [1 .. Len(s) -> S]
  BY LenProperties
<1>2. s = [i \in 1 .. Len(s) |-> s[i]]
  BY <1>1
<1> QED  BY ONLY <1>1, <1>2, FunctionIsSequence

\* A command nobody waits for.
LEMMA UnheardIs ==
    ASSUME NEW o \in Commands
    PROVE  LET q == [o EXCEPT !.heard = FALSE]
           IN q = [name |-> o.name, arg |-> o.arg, heard |-> FALSE] /\ q \in Commands
PROOF
<1>1. \A h : [o EXCEPT !.heard = h] = [name |-> o.name, arg |-> o.arg, heard |-> h]
  BY DEF Commands
<1>2. \A h \in BOOLEAN : [name |-> o.name, arg |-> o.arg, heard |-> h] \in Commands
  BY DEF Commands
<1>3. FALSE \in BOOLEAN
  OBVIOUS
<1> QED  BY <1>1, <1>2, <1>3

\* One action of the list is told otherwise.
LEMMA OneDeedChanges ==
    ASSUME IsSequence(deeds), NEW n \in 1 .. Len(deeds), NEW d, deeds' = [deeds EXCEPT ![n] = d]
    PROVE  /\ IsSequence(deeds') /\ Len(deeds') = Len(deeds) /\ deeds'[n] = d
           /\ \A m \in 1 .. Len(deeds) : m # n => deeds'[m] = deeds[m]
PROOF
<1> DEFINE S == {deeds[i] : i \in 1 .. Len(deeds)}
<1>1. deeds \in Seq(S) /\ DOMAIN deeds = 1 .. Len(deeds) /\ Len(deeds) \in Nat
  BY EntriesAre DEF IsSequence
<1>2. \A m \in 1 .. Len(deeds) : deeds'[m] = IF m = n THEN d ELSE deeds[m]
  BY <1>1
<1>3. deeds' \in Seq(S \cup {d}) /\ Len(deeds') = Len(deeds)
  <2>1. deeds' = [m \in 1 .. Len(deeds) |-> IF m = n THEN d ELSE deeds[m]]
    BY <1>1
  <2>2. \A m \in 1 .. Len(deeds) : (IF m = n THEN d ELSE deeds[m]) \in S \cup {d}
    OBVIOUS
  <2> HIDE DEF S
  <2> QED  BY <1>1, <2>1, <2>2
<1>4. deeds' \in Seq({deeds'[i] : i \in 1 .. Len(deeds')})
  <2>1. DOMAIN deeds' = 1 .. Len(deeds') /\ Len(deeds') \in Nat
    BY <1>3, EntriesAre
  <2>2. deeds' = [i \in 1 .. Len(deeds') |-> deeds'[i]]
    BY <1>1, <2>1
  <2> QED  BY ONLY <2>1, <2>2, FunctionIsSequence
<1> QED  BY <1>1, <1>2, <1>3, <1>4 DEF IsSequence

\* A deaf queue is the queue, and nobody listens.
LEMMA DeafIs ==
    ASSUME OrdersShape
    PROVE  /\ Deaf(orders) \in Seq(Commands) /\ Len(Deaf(orders)) = Len(orders) /\ Len(orders) \in Nat
           /\ \A i \in 1 .. Len(orders) :
                 Deaf(orders)[i] = [name |-> orders[i].name, arg |-> orders[i].arg, heard |-> FALSE]
PROOF
<1>1. orders \in Seq(Commands) /\ DOMAIN orders = 1 .. Len(orders) /\ Len(orders) \in Nat
      /\ \A i \in 1 .. Len(orders) : orders[i] \in Commands
  BY EntriesAre DEF OrdersShape
<1> DEFINE deaf(i) == [orders[i] EXCEPT !.heard = FALSE]
<1>2. \A i \in 1 .. Len(orders) :
        /\ deaf(i) = [name |-> orders[i].name, arg |-> orders[i].arg, heard |-> FALSE]
        /\ deaf(i) \in Commands
  BY <1>1, UnheardIs
<1>3. Deaf(orders) = [i \in 1 .. Len(orders) |-> deaf(i)]
  BY <1>1 DEF Deaf
<1> HIDE DEF deaf
<1>4. Deaf(orders) \in Seq(Commands) /\ Len(Deaf(orders)) = Len(orders)
      /\ \A i \in 1 .. Len(orders) : Deaf(orders)[i] = deaf(i)
  BY <1>1, <1>2, <1>3
<1> QED  BY <1>1, <1>2, <1>4

\* The caller waits no longer: its command goes on, and nobody listens.
LEMMA GiveUpKeeps ==
    ASSUME BrowserInv, GiveUp
    PROVE  BrowserInv'
PROOF
<1> USE DEF BrowserInv
<1> DEFINE deaf(o) == [name |-> o.name, arg |-> o.arg, heard |-> FALSE]
<1>1. /\ SamePage /\ UNCHANGED <<view, unframed>>
      /\ client' = [at |-> client'.at, held |-> client.held, looks |-> client.looks, shot |-> <<>>]
      /\ client'.at \in {"failed", "closed", "free"}
      /\ thread' = [at |-> thread.at, tries |-> thread.tries,
                    order |-> {[o EXCEPT !.heard = FALSE] : o \in thread.order}, got |-> thread.got]
      /\ orders' = Deaf(orders)
  <2>1. client' = [client EXCEPT !.at = CASE @ = "launch" -> "failed" [] @ = "closing" -> "closed" [] OTHER -> "free",
                                 !.shot = <<>>]
    BY DEF GiveUp
  <2>2. client' = [at |-> CASE client.at = "launch" -> "failed" [] client.at = "closing" -> "closed" [] OTHER -> "free",
                   held |-> client.held, looks |-> client.looks, shot |-> <<>>]
    BY <2>1, ShapesAre
  <2>3. client'.at \in {"failed", "closed", "free"}
    BY <2>2
  <2> QED  BY <2>2, <2>3, ShapesAre DEF GiveUp, SamePage
<1>2. thread'.order = {deaf(o) : o \in thread.order}
  <2>1. \A o \in thread.order : [o EXCEPT !.heard = FALSE] = deaf(o)
    BY UnheardIs DEF OrdersShape
  <2>2. thread'.order = {[o EXCEPT !.heard = FALSE] : o \in thread.order}
    BY <1>1
  <2> HIDE DEF deaf
  <2> QED  BY <2>1, <2>2
<1>3. /\ orders' \in Seq(Commands) /\ Len(orders') = Len(orders)
      /\ \A i \in 1 .. Len(orders) : orders'[i] = deaf(orders[i])
  BY <1>1, DeafIs
<1>4. /\ \A o \in Pending' : ~o.heard /\ \E q \in Pending : q.name = o.name /\ q.arg = o.arg
      /\ \A o \in thread'.order : ~o.heard
      /\ \A i \in 1 .. Len(orders) : ~orders'[i].heard /\ orders'[i].name = orders[i].name
  <2>1. ToSet(orders') = {orders'[i] : i \in 1 .. Len(orders)} /\ ToSet(orders) = {orders[i] : i \in 1 .. Len(orders)}
    BY <1>3, EntriesAre DEF OrdersShape
  <2>2. \A o : deaf(o).name = o.name /\ deaf(o).arg = o.arg /\ ~deaf(o).heard
    OBVIOUS
  <2> HIDE DEF deaf
  <2> QED  BY <1>2, <1>3, <2>1, <2>2 DEF Pending
<1>5. DeskShape'
  BY <1>1 DEF DeskShape, SamePage
<1>6. OrdersShape'
  <2>1. ASSUME NEW o \in thread'.order PROVE o \in Commands /\ thread'.order = {o}
    <3>1. PICK q \in thread.order : o = deaf(q)
      BY <1>2
    <3>2. q \in Commands /\ thread.order = {q}
      BY DEF OrdersShape
    <3> QED  BY <1>2, <3>1, <3>2 DEF Commands
  <2> QED  BY <1>3, <2>1 DEF OrdersShape
<1>7. QueueIsSound'
  <2>1. thread.order = {} => thread'.order = {}
    BY <1>2
  <2> QED  BY <1>3, <1>4, <2>1 DEF QueueIsSound
<1>8. ReadingIsSound' /\ ViewsAreSound'
  BY <1>1, ReadingStays, ViewsStay DEF SamePage
<1>9. \A n : Acts(n)' => Acts(n)
  BY <1>4 DEF Acts
<1>10. /\ IsSequence(deeds') /\ Len(deeds') = Len(deeds)
       /\ \A n \in 1 .. Len(deeds) :
             \/ deeds'[n] = deeds[n]
             \/ /\ deeds'[n] = [deeds[n] EXCEPT !.told = "raised"]
                /\ ~deeds[n].landed /\ ~Acts(n)
             \/ deeds'[n] = [deeds[n] EXCEPT !.told = "unknown"]
  <2>1. Len(deeds) \in Nat /\ IsSequence(deeds)
    BY EntriesAre DEF DeedsAreSound, IsSequence
  <2>2. CASE client.at = "probe"
    <3>1. Len(deeds) \in 1 .. Len(deeds) /\ ~deeds[Len(deeds)].landed /\ ~Acts(Len(deeds))
      BY <2>1, <2>2 DEF AskedIsSound
    <3>2. deeds' = [deeds EXCEPT ![Len(deeds)] = [deeds[Len(deeds)] EXCEPT !.told = "raised"]]
      BY <2>2 DEF GiveUp, TellsDeed
    <3> QED  BY <2>1, <3>1, <3>2, OneDeedChanges
  <2>3. CASE client.at = "act"
    <3>1. Len(deeds) \in 1 .. Len(deeds)
      BY <2>1, <2>3 DEF AskedIsSound
    <3>2. deeds' = [deeds EXCEPT ![Len(deeds)] = [deeds[Len(deeds)] EXCEPT !.told = "unknown"]]
      BY <2>3 DEF GiveUp, TellsDeed
    <3> QED  BY <2>1, <3>1, <3>2, OneDeedChanges
  <2>4. CASE client.at \notin {"probe", "act"}
    BY <2>1, <2>4 DEF GiveUp
  <2> QED  BY <2>2, <2>3, <2>4
<1>11. DeedsAreSound'
  <2>1. ASSUME NEW n \in 1 .. Len(deeds) PROVE DeedIsSound(n)'
    <3>1. DeedIsSound(n) /\ web' = web /\ visits \in Nat
      BY DEF DeedsAreSound, SamePage, DeskShape, GiveUp
    <3>2. CASE deeds'[n] = deeds[n]
      BY <1>1, <1>9, <3>1, <3>2, DeedStays
    <3>3. CASE deeds'[n] # deeds[n]
      <4>1. PICK what \in {"raised", "unknown"} :
               /\ deeds'[n] = [deeds[n] EXCEPT !.told = what]
               /\ what = "raised" => ~deeds[n].landed /\ ~Acts(n)
        BY <1>10, <3>3
      <4> QED  BY <1>1, <1>9, <3>1, <4>1, DeedIsToldOtherwise
    <3> QED  BY <3>2, <3>3
  <2>2. ASSUME NEW h \in client'.held PROVE Pointed(h)'
    BY <1>1 DEF DeedsAreSound, Pointed, Topmost, Layers
  <2> QED  BY <1>10, <2>1, <2>2 DEF DeedsAreSound
<1>12. AskedIsSound'
  <2>1. client'.at \notin {"probe", "act"}
    BY <1>1
  <2>2. ASSUME NEW o \in Pending', o.name \in {"probe", "act"}
        PROVE  /\ o.arg \in 1 .. Len(deeds') /\ ~o.heard
               /\ o.name = "probe" => ~deeds'[o.arg].landed /\ ~Acts(o.arg)'
    <3>1. PICK q \in Pending : q.name = o.name /\ q.arg = o.arg
      BY <1>4
    <3>2. o.arg \in 1 .. Len(deeds) /\ (o.name = "probe" => ~deeds[o.arg].landed /\ ~Acts(o.arg))
      BY <2>2, <3>1 DEF AskedIsSound
    <3>3. deeds'[o.arg].landed = deeds[o.arg].landed
      <4>1. PICK d : d = deeds[o.arg]
        OBVIOUS
      <4>2. d = [chosen |-> d.chosen, told |-> d.told, landed |-> d.landed, met |-> d.met,
                 on |-> d.on, when |-> d.when]
        BY <3>2, <4>1 DEF DeedsAreSound, DeedIsSound, SoundDeed
      <4>3. \A what : [d EXCEPT !.told = what].landed = d.landed
        BY <4>2
      <4> QED  BY <1>10, <3>2, <4>1, <4>3
    <3> QED  BY <1>4, <1>9, <1>10, <3>2, <3>3
  <2> QED  BY <2>1, <2>2 DEF AskedIsSound
<1> QED  BY <1>5, <1>6, <1>7, <1>8, <1>11, <1>12
-----------------------------------------------------------------------------
(* The capture.                                                              *)

\* A reading goes on from one source to the next.
LEMMA ReadingStepKeeps ==
    ASSUME BrowserInv, SamePage, UNCHANGED <<orders, client, view, unframed, deeds>>,
           NEW at, NEW got, ReadsOn(at, got), ReadingIsSound'
    PROVE  BrowserInv'
PROOF
<1>1. thread' = [at |-> at, tries |-> thread.tries, order |-> thread.order, got |-> got]
  BY ShapesAre DEF ReadsOn
<1>2. /\ thread' = [at |-> thread'.at, tries |-> thread'.tries, order |-> thread'.order, got |-> thread'.got]
      /\ thread'.order = thread.order
  BY <1>1
<1>3. ViewsAreSound'
  BY ViewsStay DEF BrowserInv, SamePage
<1>4. client' = [at |-> client'.at, held |-> client'.held, looks |-> client'.looks, shot |-> client'.shot]
  BY ShapesAre
<1> QED  BY <1>2, <1>3, <1>4, QuietStepKeeps

\* A command that raises ends, and its caller is free again.
LEMMA RaisingKeeps ==
    ASSUME BrowserInv, SamePage, UNCHANGED <<orders, view, unframed, deeds>>, CommandRaises
    PROVE  BrowserInv'
PROOF
<1>1. /\ thread' = [at |-> thread'.at, tries |-> thread'.tries, order |-> thread'.order, got |-> thread'.got]
      /\ thread'.order = {} /\ thread'.at = "idle"
  BY DEF CommandRaises, AtEase
<1>2. /\ client' = [at |-> client'.at, held |-> client.held, looks |-> client.looks, shot |-> client.shot]
      /\ client'.at = client.at \/ (client'.at = "free" /\ Listened)
  BY ShapesAre DEF CommandRaises
<1>3. ReadingIsSound'
  BY <1>1 DEF ReadingIsSound, ReadPlaces
<1>4. ViewsAreSound'
  <2>1. client'.at = "tabs" => client.at = "tabs" /\ client'.shot = client.shot
    BY <1>2
  <2> QED  BY <2>1, ViewsStay DEF BrowserInv, SamePage
<1>5. client'.at \in {"probe", "act"} => client'.at = client.at
  BY <1>2
<1> QED  BY <1>1, <1>2, <1>3, <1>4, <1>5, QuietStepKeeps

\* The capture reads the page's text: the reading begins.
LEMMA CaptureHtmlKeeps ==
    ASSUME BrowserInv, CaptureHtml
    PROVE  BrowserInv'
PROOF
<1>1. SamePage /\ UNCHANGED <<orders, view, unframed, deeds>>
  BY DEF CaptureHtml, SamePage
<1>2. CASE Live = 0
  BY <1>1, <1>2, RaisingKeeps DEF CaptureHtml
<1>3. CASE Live # 0
  <2> DEFINE again == thread.got # <<>>
             got == [doc |-> Live, url |-> "", states |-> 0, layers |-> 0, shot |-> 0, end |-> 0, again |-> again,
                     moves |-> visits]
  <2>1. ReadsOn("url", got) /\ UNCHANGED client
    BY <1>3 DEF CaptureHtml, Reading
  <2>2. thread'.at = "url" /\ thread'.got = got
    BY <2>1, ShapesAre DEF ReadsOn
  <2>3. Live' = Live /\ visits' = visits /\ visits \in Nat /\ Live \in DOMAIN WebPages
    BY <1>1, <1>3, LiveIsPage, ShapesAre DEF SamePage, Live
  <2>4. ReadingIsSound'
    <3> HIDE DEF again
    <3>1. /\ got = [doc |-> got.doc, url |-> got.url, states |-> got.states, layers |-> got.layers,
                    shot |-> got.shot, end |-> got.end, again |-> got.again, moves |-> got.moves]
          /\ got.doc = Live /\ got.states = 0 /\ got.layers = 0 /\ got.shot = 0 /\ got.moves = visits
      OBVIOUS
    <3>2. visits - visits = 0 /\ 0 \in Nat
      BY <2>3
    <3> HIDE DEF got
    <3> QED  BY <2>2, <2>3, <3>1, <3>2 DEF ReadingIsSound
  <2> HIDE DEF got
  <2> QED  BY <1>1, <2>1, <2>4, ReadingStepKeeps
<1> QED  BY <1>2, <1>3

\* What a reading knows before its next source.
LEMMA ReadingIs ==
    ASSUME BrowserInv, thread.at \in ReadPlaces
    PROVE  LET g == thread.got
               moved == visits - g.moves
           IN /\ g = [doc |-> g.doc, url |-> g.url, states |-> g.states, layers |-> g.layers,
                      shot |-> g.shot, end |-> g.end, again |-> g.again, moves |-> g.moves]
              /\ g.doc \in DOMAIN WebPages
              /\ g.moves \in Nat /\ moved \in Nat
              /\ thread.at \in {"url", "controls"} => g.states = 0
              /\ thread.at \in {"url", "controls", "layers"} => g.layers = 0
              /\ thread.at # "final" => g.shot = 0
              /\ moved = 0 => Live = g.doc
              /\ moved = 0 /\ thread.at # "url" => g.url = WebPages[g.doc].url
              /\ moved = 0 /\ thread.at \in {"shot", "final"} => g.layers = g.doc
              /\ moved <= 1 => \A p \in {g.states, g.layers, g.shot} \ {0} :
                                  p = Live \/ (p = g.doc /\ g.url = WebPages[g.doc].url)
              /\ moved <= 1 /\ thread.at \notin {"url", "controls"} /\ g.states = 0 => Live = 0 /\ g.layers = 0
PROOF BY DEF BrowserInv, ReadingIsSound

\* The capture reads the address.
LEMMA CaptureUrlKeeps ==
    ASSUME BrowserInv, CaptureUrl
    PROVE  BrowserInv'
PROOF
<1> DEFINE g == thread.got
           url == WebPages[IF Live = 0 THEN g.doc ELSE Live].url
           h == [g EXCEPT !.url = url]
<1>1. SamePage /\ UNCHANGED <<orders, client, view, unframed, deeds>> /\ thread.at = "url" /\ ReadsOn("controls", h)
  BY DEF CaptureUrl, SamePage
<1>2. thread.at \in ReadPlaces
  BY <1>1 DEF ReadPlaces
<1>3. h = [doc |-> g.doc, url |-> url, states |-> 0, layers |-> 0, shot |-> 0, end |-> g.end, again |-> g.again,
           moves |-> g.moves]
  <2>1. /\ g = [doc |-> g.doc, url |-> g.url, states |-> g.states, layers |-> g.layers,
                shot |-> g.shot, end |-> g.end, again |-> g.again, moves |-> g.moves]
        /\ g.states = 0 /\ g.layers = 0 /\ g.shot = 0
    BY <1>1, <1>2, ReadingIs
  <2> HIDE DEF g, url
  <2> QED  BY <2>1
<1>4. thread'.at = "controls" /\ thread'.got = h
  BY <1>1, ShapesAre DEF ReadsOn
<1>5. Live' = Live /\ visits' = visits
  BY <1>1 DEF SamePage, Live
<1>6. /\ g.doc \in DOMAIN WebPages /\ g.moves \in Nat /\ visits - g.moves \in Nat
      /\ visits - g.moves = 0 => Live = g.doc
      /\ 0 \notin DOMAIN WebPages
  BY <1>2, ReadingIs, BrowserAssumption
<1>7. visits - g.moves = 0 => url = WebPages[g.doc].url
  BY <1>6
<1>8. ReadingIsSound'
  <2>1. /\ h = [doc |-> h.doc, url |-> h.url, states |-> h.states, layers |-> h.layers,
                shot |-> h.shot, end |-> h.end, again |-> h.again, moves |-> h.moves]
        /\ h.doc = g.doc /\ h.url = url /\ h.states = 0 /\ h.layers = 0 /\ h.shot = 0 /\ h.moves = g.moves
    BY <1>3
  <2> HIDE DEF h, g, url
  <2> QED  BY <1>4, <1>5, <1>6, <1>7, <2>1 DEF ReadingIsSound
<1> HIDE DEF h
<1> QED  BY <1>1, <1>8, ReadingStepKeeps

\* The states of the controls, or the layers, are those of the page as it is.
LEMMA CaptureControlsKeeps ==
    ASSUME BrowserInv, CaptureControls
    PROVE  BrowserInv'
PROOF
<1> DEFINE g == thread.got
           h == [g EXCEPT !.states = Live]
<1>1. SamePage /\ UNCHANGED <<orders, client, view, unframed, deeds>> /\ thread.at = "controls" /\ ReadsOn("layers", h)
  BY DEF CaptureControls, SamePage
<1>2. thread.at \in ReadPlaces
  BY <1>1 DEF ReadPlaces
<1>3. h = [doc |-> g.doc, url |-> g.url, states |-> Live, layers |-> 0, shot |-> 0, end |-> g.end, again |-> g.again,
           moves |-> g.moves]
  <2>1. /\ g = [doc |-> g.doc, url |-> g.url, states |-> g.states, layers |-> g.layers,
                shot |-> g.shot, end |-> g.end, again |-> g.again, moves |-> g.moves]
        /\ g.layers = 0 /\ g.shot = 0
    BY <1>1, <1>2, ReadingIs
  <2> HIDE DEF g
  <2> QED  BY <2>1
<1>4. thread'.at = "layers" /\ thread'.got = h
  BY <1>1, ShapesAre DEF ReadsOn
<1>5. Live' = Live /\ visits' = visits
  BY <1>1 DEF SamePage, Live
<1>6. /\ g.doc \in DOMAIN WebPages /\ g.moves \in Nat /\ visits - g.moves \in Nat
      /\ visits - g.moves = 0 => Live = g.doc /\ g.url = WebPages[g.doc].url
  BY <1>1, <1>2, ReadingIs
<1>7. ReadingIsSound'
  <2>1. /\ h = [doc |-> h.doc, url |-> h.url, states |-> h.states, layers |-> h.layers,
                shot |-> h.shot, end |-> h.end, again |-> h.again, moves |-> h.moves]
        /\ h.doc = g.doc /\ h.url = g.url /\ h.states = Live /\ h.layers = 0 /\ h.shot = 0 /\ h.moves = g.moves
    BY <1>3
  <2> HIDE DEF h, g
  <2> QED  BY <1>4, <1>5, <1>6, <2>1 DEF ReadingIsSound
<1> HIDE DEF h
<1> QED  BY <1>1, <1>7, ReadingStepKeeps

\* The capture reads the layers.
LEMMA CaptureLayersKeeps ==
    ASSUME BrowserInv, CaptureLayers
    PROVE  BrowserInv'
PROOF
<1> DEFINE g == thread.got
           h == [g EXCEPT !.layers = Live]
           at == IF Wants("visual") THEN "shot" ELSE "final"
<1>1. SamePage /\ UNCHANGED <<orders, client, view, unframed, deeds>> /\ thread.at = "layers" /\ ReadsOn(at, h)
  BY DEF CaptureLayers, SamePage
<1>2. thread.at \in ReadPlaces
  BY <1>1 DEF ReadPlaces
<1>3. h = [doc |-> g.doc, url |-> g.url, states |-> g.states, layers |-> Live, shot |-> 0, end |-> g.end,
           again |-> g.again, moves |-> g.moves]
  <2>1. /\ g = [doc |-> g.doc, url |-> g.url, states |-> g.states, layers |-> g.layers,
                shot |-> g.shot, end |-> g.end, again |-> g.again, moves |-> g.moves]
        /\ g.shot = 0
    BY <1>1, <1>2, ReadingIs
  <2> HIDE DEF g
  <2> QED  BY <2>1
<1>4. thread'.at \in {"shot", "final"} /\ thread'.got = h
  BY <1>1, ShapesAre DEF ReadsOn
<1>5. Live' = Live /\ visits' = visits
  BY <1>1 DEF SamePage, Live
<1>6. /\ g.doc \in DOMAIN WebPages /\ g.moves \in Nat /\ visits - g.moves \in Nat
      /\ visits - g.moves = 0 => Live = g.doc /\ g.url = WebPages[g.doc].url
      /\ visits - g.moves <= 1 =>
            \A p \in {g.states} \ {0} : p = Live \/ (p = g.doc /\ g.url = WebPages[g.doc].url)
      /\ visits - g.moves <= 1 /\ g.states = 0 => Live = 0
  BY <1>1, <1>2, ReadingIs
<1>7. ReadingIsSound'
  <2>1. /\ h = [doc |-> h.doc, url |-> h.url, states |-> h.states, layers |-> h.layers,
                shot |-> h.shot, end |-> h.end, again |-> h.again, moves |-> h.moves]
        /\ h.doc = g.doc /\ h.url = g.url /\ h.states = g.states /\ h.layers = Live /\ h.shot = 0 /\ h.moves = g.moves
    BY <1>3
  <2> HIDE DEF h, g
  <2> QED  BY <1>4, <1>5, <1>6, <2>1 DEF ReadingIsSound
<1> HIDE DEF h, at
<1> QED  BY <1>1, <1>7, ReadingStepKeeps

\* The capture takes the picture, and the page may move under it.
LEMMA CaptureShotKeeps ==
    ASSUME BrowserInv, NEW moved \in BOOLEAN, CaptureShot(moved)
    PROVE  BrowserInv'
PROOF
<1> DEFINE g == thread.got
           h == [g EXCEPT !.shot = Live]
<1>1. SamePage /\ UNCHANGED <<orders, view, unframed, deeds>> /\ thread.at = "shot"
  BY DEF CaptureShot, SamePage
<1>2. CASE moved \/ Live = 0
  <2>1. CommandRaises
    BY <1>2 DEF CaptureShot
  <2> QED  BY <1>1, <2>1, RaisingKeeps
<1>3. CASE ~(moved \/ Live = 0)
  <2>1. ReadsOn("final", h) /\ UNCHANGED client
    BY <1>3 DEF CaptureShot
  <2>2. thread.at \in ReadPlaces
    BY <1>1 DEF ReadPlaces
  <2>3. h = [doc |-> g.doc, url |-> g.url, states |-> g.states, layers |-> g.layers, shot |-> Live, end |-> g.end,
             again |-> g.again, moves |-> g.moves]
    <3>1. g = [doc |-> g.doc, url |-> g.url, states |-> g.states, layers |-> g.layers,
               shot |-> g.shot, end |-> g.end, again |-> g.again, moves |-> g.moves]
      BY <2>2, ReadingIs
    <3> HIDE DEF g
    <3> QED  BY <3>1
  <2>4. thread'.at = "final" /\ thread'.got = h
    BY <2>1, ShapesAre DEF ReadsOn
  <2>5. Live' = Live /\ visits' = visits
    BY <1>1 DEF SamePage, Live
  <2>6. /\ g.doc \in DOMAIN WebPages /\ g.moves \in Nat /\ visits - g.moves \in Nat
        /\ visits - g.moves = 0 => Live = g.doc /\ g.url = WebPages[g.doc].url /\ g.layers = g.doc
        /\ visits - g.moves <= 1 =>
              \A p \in {g.states, g.layers} \ {0} : p = Live \/ (p = g.doc /\ g.url = WebPages[g.doc].url)
        /\ visits - g.moves <= 1 /\ g.states = 0 => Live = 0 /\ g.layers = 0
    BY <1>1, <2>2, ReadingIs
  <2>7. ReadingIsSound'
    <3>1. /\ h = [doc |-> h.doc, url |-> h.url, states |-> h.states, layers |-> h.layers,
                  shot |-> h.shot, end |-> h.end, again |-> h.again, moves |-> h.moves]
          /\ h.doc = g.doc /\ h.url = g.url /\ h.states = g.states /\ h.layers = g.layers /\ h.shot = Live
          /\ h.moves = g.moves
      BY <2>3
    <3> HIDE DEF h, g
    <3> QED  BY <2>4, <2>5, <2>6, <3>1 DEF ReadingIsSound
  <2> HIDE DEF h
  <2> QED  BY <1>1, <2>1, <2>7, ReadingStepKeeps
<1> QED  BY <1>2, <1>3
\* Steps in which a command is sent that is not about an action.
LEMMA AskingKeeps ==
    ASSUME BrowserInv, SamePage, deeds' = deeds,
           NEW name \in {"capture", "tabs", "frame", "stop"}, NEW arg \in Arguments, Sends(name, arg),
           thread' = [at |-> thread'.at, tries |-> thread'.tries, order |-> thread'.order, got |-> thread'.got],
           client' = [at |-> client'.at, held |-> client'.held, looks |-> client'.looks, shot |-> client'.shot],
           thread'.order \in {thread.order, {}},
           client'.at \in WaitsFor(name),
           \A q \in ToSet(orders) \cup thread'.order : ~q.heard,
           \A h \in client'.held : h \in client.held,
           ReadingIsSound', ViewsAreSound'
    PROVE  BrowserInv'
PROOF
<1> USE DEF BrowserInv
<1> DEFINE o == Order(name, arg)
<1>0. o.name = name /\ o.arg = arg /\ o.heard /\ o \in Commands
  <2>1. o = [name |-> name, arg |-> arg, heard |-> TRUE]
    BY DEF Order
  <2>2. TRUE \in BOOLEAN
    OBVIOUS
  <2>3. \A h \in BOOLEAN : [name |-> name, arg |-> arg, heard |-> h] \in Commands
    BY DEF Commands
  <2>4. \A h \in BOOLEAN : [name |-> name, arg |-> arg, heard |-> h].heard = h
    OBVIOUS
  <2> HIDE DEF o
  <2> QED  BY <2>1, <2>2, <2>3, <2>4
<1> HIDE DEF o
<1>1. DeskShape'
  BY DEF DeskShape, SamePage
<1>2. /\ OrdersShape' /\ QueueIsSound'
      /\ Pending' \subseteq Pending \cup {o}
  BY <1>0, QueueGrows DEF o
<1>3. \A n : Acts(n)' => Acts(n)
  BY <1>0, <1>2 DEF Acts
<1>4. DeedsAreSound'
  BY <1>3, DeedsStay DEF DeskShape, SamePage
<1>5. client'.at \notin {"probe", "act"}
  BY DEF WaitsFor
<1>6. AskedIsSound'
  <2>1. ASSUME NEW q \in Pending', q.name \in {"probe", "act"}
        PROVE  /\ q.arg \in 1 .. Len(deeds')
               /\ q.heard => q.arg = Len(deeds')
               /\ q.name = "probe" => ~deeds'[q.arg].landed /\ ~Acts(q.arg)'
    <3>1. q \in Pending
      BY <1>0, <1>2, <2>1
    <3> QED  BY <1>3, <2>1, <3>1 DEF AskedIsSound
  <2> QED  BY <1>5, <2>1 DEF AskedIsSound
<1> QED  BY <1>1, <1>2, <1>4, <1>6

\* A finished reading was of one moment, or nothing was compared.
LEMMA CaptureEndsWell ==
    ASSUME BrowserInv, thread.at = "final",
           LET g == thread.got
           IN \/ ~Compared(g)
              \/ Live # 0 /\ WebPages[Live].url = g.url /\ Html(Live).revision = ModelOf(g).revision
    PROVE  OneMoment(EndOfCapture(thread.got))
PROOF
<1> DEFINE g == thread.got
           e == EndOfCapture(g)
<1>1. thread.at \in ReadPlaces
  BY DEF ReadPlaces
<1>2. /\ g = [doc |-> g.doc, url |-> g.url, states |-> g.states, layers |-> g.layers,
              shot |-> g.shot, end |-> g.end, again |-> g.again, moves |-> g.moves]
      /\ g.doc \in DOMAIN WebPages
      /\ visits - g.moves = 0 => g.url = WebPages[g.doc].url /\ g.layers = g.doc
      /\ visits - g.moves <= 1 => \A p \in {g.states, g.layers, g.shot} \ {0} :
                                  p = Live \/ (p = g.doc /\ g.url = WebPages[g.doc].url)
      /\ visits - g.moves <= 1 /\ g.states = 0 => Live = 0 /\ g.layers = 0
  BY <1>1, ReadingIs
<1>3. e = [doc |-> g.doc, url |-> g.url, states |-> g.states, layers |-> g.layers, shot |-> g.shot, end |-> Live,
           again |-> g.again, moves |-> visits - g.moves]
  <2>1. e = [g EXCEPT !.end = Live, !.moves = visits - g.moves]
    BY DEF EndOfCapture
  <2> HIDE DEF g, e
  <2> QED  BY <1>2, <2>1
<1>4. /\ e.doc = g.doc /\ e.url = g.url /\ e.states = g.states /\ e.layers = g.layers /\ e.shot = g.shot
      /\ e.moves = visits - g.moves
  BY <1>3
<1>5. \/ ~Compared(g)
      \/ Live # 0 /\ WebPages[Live].url = g.url /\ Html(Live).revision = ModelOf(g).revision
  OBVIOUS
<1> HIDE DEF g, e
<1>6. ModelOf(e) = ModelOf(g)
  BY <1>4 DEF ModelOf
<1>7. ASSUME web.ax \/ g.shot # 0, visits - g.moves <= 1, NEW p \in {g.states, g.layers, g.shot} \ {0}
      PROVE  WebPages[p].url = g.url /\ Html(p).revision = ModelOf(g).revision
  <2>1. CASE ~Compared(g)
    BY <1>2, <1>7, <2>1 DEF Compared
  <2>2. CASE Live # 0 /\ WebPages[Live].url = g.url /\ Html(Live).revision = ModelOf(g).revision
    <3>1. p = Live \/ (p = g.doc /\ g.url = WebPages[g.doc].url)
      BY <1>2, <1>7
    <3> QED  BY <2>2, <3>1 DEF Html, ModelOf
  <2> QED  BY <1>5, <2>1, <2>2
<1> QED  BY <1>2, <1>4, <1>6, <1>7 DEF OneMoment, e, g

\* The capture compares what it can, and ends, or reads all again.
LEMMA CaptureFinalKeeps ==
    ASSUME BrowserInv, CaptureFinal
    PROVE  BrowserInv'
PROOF
<1> DEFINE g == thread.got
           same == Live # 0 /\ WebPages[Live].url = g.url /\ Html(Live).revision = ModelOf(g).revision
<1>1. SamePage /\ UNCHANGED <<view, unframed, deeds>> /\ thread.at = "final"
  BY DEF CaptureFinal, SamePage
<1>2. \/ (~Compared(g) \/ same) /\ Captured(g)
      \/ ReadsOn("html", g) /\ UNCHANGED <<client, orders>>
      \/ CommandRaises /\ UNCHANGED orders
  BY DEF CaptureFinal
<1>3. CASE ReadsOn("html", g) /\ UNCHANGED <<client, orders>>
  <2>1. thread'.at \notin ReadPlaces
    BY <1>3, ShapesAre DEF ReadsOn, ReadPlaces
  <2>2. ReadingIsSound'
    BY <2>1 DEF ReadingIsSound
  <2> QED  BY <1>1, <1>3, <2>2, ReadingStepKeeps
<1>4. CASE CommandRaises /\ UNCHANGED orders
  BY <1>1, <1>4, RaisingKeeps
<1>5. CASE (~Compared(g) \/ same) /\ Captured(g)
  <2>1. /\ thread' = [at |-> thread'.at, tries |-> thread'.tries, order |-> thread'.order, got |-> thread'.got]
        /\ thread'.order = {} /\ thread'.at = "idle"
    BY <1>5 DEF Captured, AtEase
  <2>2. ReadingIsSound'
    BY <2>1 DEF ReadingIsSound, ReadPlaces
  <2>3. CASE ~Listened
    <3>1. UNCHANGED <<client, orders>>
      BY <1>5, <2>3 DEF Captured
    <3>2. ViewsAreSound'
      BY <1>1, <3>1, ViewsStay DEF BrowserInv, SamePage
    <3>3. client' = [at |-> client'.at, held |-> client'.held, looks |-> client'.looks, shot |-> client'.shot]
      BY <3>1, ShapesAre
    <3> QED  BY <1>1, <2>1, <2>2, <3>1, <3>2, <3>3, QuietStepKeeps
  <2>4. CASE Listened
    <3> DEFINE e == EndOfCapture(g)
    <3>1. /\ client' = [client EXCEPT !.at = "tabs", !.shot = <<e>>]
          /\ Sends("tabs", "")
      BY <1>5, <2>4 DEF Captured, Sends
    <3>2. client' = [at |-> "tabs", held |-> client.held, looks |-> client.looks, shot |-> <<e>>]
      <4> HIDE DEF e
      <4> QED  BY <3>1, ShapesAre
    <3>3. OneMoment(e)
      BY <1>1, <1>5, CaptureEndsWell
    <3> HIDE DEF e
    <3>4. client'.at = "tabs" /\ client'.shot = <<e>> /\ client'.held = client.held
          /\ client' = [at |-> client'.at, held |-> client'.held, looks |-> client'.looks, shot |-> client'.shot]
      BY <3>2
    <3>5. ViewsAreSound'
      <4>1. \A k : OneMoment(k) => OneMoment(k)'
        BY <1>1, MomentStays DEF SamePage
      <4>2. (\A o \in view \cup unframed : IsObservation(o) /\ OneMoment(o.got))'
        BY <1>1, <4>1 DEF BrowserInv, ViewsAreSound, IsObservation
      <4>3. \A k \in {e} : client'.shot = <<client'.shot[1]>> /\ client'.shot[1] = k
        BY <3>4
      <4>4. OneMoment(client.shot[1])'
        <5>1. OneMoment(client'.shot[1])
          BY <3>3, <4>3
        <5> QED  BY <1>1, <5>1 DEF OneMoment, Html, ModelOf, SamePage
      <4> QED  BY <4>2, <4>3, <4>4 DEF ViewsAreSound
    <3>6. ToSet(orders) = {} /\ "tabs" \in WaitsFor("tabs") /\ "" \in Arguments
      BY <2>4, ListenedIs DEF BrowserInv, WaitsFor, Arguments
    <3> QED  BY <1>1, <2>1, <2>2, <3>1, <3>4, <3>5, <3>6, AskingKeeps
  <2> QED  BY <2>3, <2>4
<1> QED  BY <1>2, <1>3, <1>4, <1>5
-----------------------------------------------------------------------------
(* Observations, and what is chosen from them.                               *)

\* Projecting a finished capture gives an observation of one moment.
LEMMA ProjectSnapshotKeeps ==
    ASSUME BrowserInv, ProjectSnapshot
    PROVE  BrowserInv'
PROOF
<1>1. SamePage /\ UNCHANGED <<orders, deeds>> /\ OrderIs("tabs") /\ thread' = AtEase
  BY DEF ProjectSnapshot, SamePage
<1>2. /\ thread' = [at |-> thread'.at, tries |-> thread'.tries, order |-> thread'.order, got |-> thread'.got]
      /\ thread'.order = {} /\ thread'.at = "idle"
  BY <1>1 DEF AtEase
<1>3. ReadingIsSound'
  BY <1>2 DEF ReadingIsSound, ReadPlaces
<1>4. Listened => client.at = "tabs"
  BY <1>1, ListenedIs DEF OrderIs, WaitsFor, BrowserInv
<1>5. /\ client' = [at |-> client'.at, held |-> client.held, looks |-> client.looks, shot |-> client'.shot]
      /\ client' = client \/ (Listened /\ client'.at = "free")
  <2>1. CASE Listened
    <3>1. client' = [client EXCEPT !.at = "free", !.shot = <<>>]
      BY <2>1 DEF ProjectSnapshot
    <3> QED  BY <2>1, <3>1, ShapesAre
  <2>2. CASE ~Listened
    <3>1. client' = client
      BY <2>2 DEF ProjectSnapshot
    <3> QED  BY <3>1, ShapesAre
  <2> QED  BY <2>1, <2>2
<1>6. \A o \in view' \cup unframed' :
         o \in view \cup unframed \/ (IsObservation(o) /\ OneMoment(o.got))
  <2>1. CASE ~Listened \/ tabs = <<>>
    BY <2>1 DEF ProjectSnapshot
  <2>2. CASE ~(~Listened \/ tabs = <<>>)
    <3> DEFINE got == client.shot[1]
    <3>1. view' = {Observed(got)} /\ unframed' \in {{Observed(got)}, unframed}
      BY <2>2 DEF ProjectSnapshot
    <3>2. OneMoment(got)
      BY <1>4, <2>2 DEF BrowserInv, ViewsAreSound
    <3> HIDE DEF got
    <3>3. IsObservation(Observed(got)) /\ Observed(got).got = got
      BY DEF Observed, IsObservation
    <3> QED  BY <3>1, <3>2, <3>3
  <2> QED  BY <2>1, <2>2
<1>7. ViewsAreSound'
  <2>1. \A g : OneMoment(g) => OneMoment(g)'
    BY <1>1, MomentStays DEF SamePage
  <2>2. (\A o \in view \cup unframed : IsObservation(o) /\ OneMoment(o.got))'
    <3>1. \A o \in view' \cup unframed' : IsObservation(o) /\ OneMoment(o.got)
      BY <1>6 DEF BrowserInv, ViewsAreSound
    <3>2. \A o : IsObservation(o) => IsObservation(o)'
      BY DEF IsObservation
    <3> QED  BY <2>1, <3>1, <3>2
  <2>3. (client.at = "tabs" => client.shot = <<client.shot[1]>> /\ OneMoment(client.shot[1]))'
    <3>1. client'.at = "tabs" => client' = client
      BY <1>5
    <3> QED  BY <1>1, <3>1 DEF BrowserInv, ViewsAreSound, OneMoment, Html, ModelOf, SamePage
  <2> QED  BY <2>2, <2>3 DEF ViewsAreSound
<1>8. /\ client' = [at |-> client'.at, held |-> client'.held, looks |-> client'.looks, shot |-> client'.shot]
      /\ client'.held = client.held
  BY <1>5
<1>9. client'.at \in {"probe", "act"} => client'.at = client.at
  BY <1>5
<1> QED  BY <1>1, <1>2, <1>3, <1>5, <1>7, <1>8, <1>9, QuietStepKeeps

\* The caller asks for an observation.
LEMMA LookKeeps ==
    ASSUME BrowserInv, NEW kind \in {"dom", "visual"}, Look(kind)
    PROVE  BrowserInv'
PROOF
<1>1. /\ SamePage /\ UNCHANGED <<thread, view, deeds>> /\ unframed' = {} /\ client.at = "free"
      /\ Sends("capture", kind)
  BY DEF Look, SamePage
<1>2. client' = [at |-> "capture", held |-> client.held, looks |-> client.looks + 1, shot |-> client.shot]
  BY ShapesAre DEF Look
<1>3. /\ client' = [at |-> client'.at, held |-> client'.held, looks |-> client'.looks, shot |-> client'.shot]
      /\ client'.at = "capture" /\ client'.held = client.held
  BY <1>2
<1>4. \A o \in ToSet(orders) \cup thread'.order : ~o.heard
  BY <1>1, NobodyIsHeard DEF BrowserInv, Pending
<1>5. ReadingIsSound' /\ ViewsAreSound'
  BY <1>1, <1>3, ReadingStays, ViewsStay DEF BrowserInv, SamePage
<1>6. "capture" \in WaitsFor("capture") /\ kind \in Arguments
  BY DEF WaitsFor, Arguments
<1>7. thread' = [at |-> thread'.at, tries |-> thread'.tries, order |-> thread'.order, got |-> thread'.got]
  BY <1>1, ShapesAre
<1> QED  BY <1>1, <1>3, <1>4, <1>5, <1>6, <1>7, AskingKeeps

\* The caller asks for a picture beside what it has.
LEMMA LookBesideKeeps ==
    ASSUME BrowserInv, LookBeside
    PROVE  BrowserInv'
PROOF
<1>1. /\ SamePage /\ UNCHANGED <<thread, view, unframed, deeds>> /\ client.at = "free"
      /\ Sends("frame", "beside")
  BY DEF LookBeside, SamePage
<1>2. client' = [at |-> "frame", held |-> client.held, looks |-> client.looks + 1, shot |-> client.shot]
  BY ShapesAre DEF LookBeside
<1>3. /\ client' = [at |-> client'.at, held |-> client'.held, looks |-> client'.looks, shot |-> client'.shot]
      /\ client'.at = "frame" /\ client'.held = client.held
  BY <1>2
<1>4. \A o \in ToSet(orders) \cup thread'.order : ~o.heard
  BY <1>1, NobodyIsHeard DEF BrowserInv, Pending
<1>5. ReadingIsSound' /\ ViewsAreSound'
  BY <1>1, <1>3, ReadingStays, ViewsStay DEF BrowserInv, SamePage
<1>6. "frame" \in WaitsFor("frame") /\ "beside" \in Arguments
  BY DEF WaitsFor, Arguments
<1>7. thread' = [at |-> thread'.at, tries |-> thread'.tries, order |-> thread'.order, got |-> thread'.got]
  BY <1>1, ShapesAre
<1> QED  BY <1>1, <1>3, <1>4, <1>5, <1>6, <1>7, AskingKeeps

\* The caller closes the session.
LEMMA CloseKeeps ==
    ASSUME BrowserInv, Close
    PROVE  BrowserInv'
PROOF
<1>1. /\ SamePage /\ UNCHANGED <<thread, deeds>> /\ view' = {} /\ unframed' = {} /\ client.at = "free"
      /\ Sends("stop", "")
  BY DEF Close, SamePage
<1>2. client' = [at |-> "closing", held |-> {}, looks |-> client.looks, shot |-> client.shot]
  BY ShapesAre DEF Close
<1>3. /\ client' = [at |-> client'.at, held |-> client'.held, looks |-> client'.looks, shot |-> client'.shot]
      /\ client'.at = "closing" /\ client'.held = {}
  BY <1>2
<1>4. \A o \in ToSet(orders) \cup thread'.order : ~o.heard
  BY <1>1, NobodyIsHeard DEF BrowserInv, Pending
<1>5. ReadingIsSound' /\ ViewsAreSound'
  BY <1>1, <1>3, ReadingStays, ViewsStay DEF BrowserInv, SamePage
<1>6. "closing" \in WaitsFor("stop") /\ "" \in Arguments
  BY DEF WaitsFor, Arguments
<1>7. thread' = [at |-> thread'.at, tries |-> thread'.tries, order |-> thread'.order, got |-> thread'.got]
  BY <1>1, ShapesAre
<1> QED  BY <1>1, <1>3, <1>4, <1>5, <1>6, <1>7, AskingKeeps

\* A picture beside an earlier capture leaves the moment of that capture alone.
LEMMA FrameKeeps ==
    ASSUME BrowserInv, NEW moved \in BOOLEAN, Frame(moved)
    PROVE  BrowserInv'
PROOF
<1>1. SamePage /\ UNCHANGED <<orders, deeds>> /\ thread' = AtEase
  BY DEF Frame, SamePage
<1>2. /\ thread' = [at |-> thread'.at, tries |-> thread'.tries, order |-> thread'.order, got |-> thread'.got]
      /\ thread'.order = {} /\ thread'.at = "idle"
  BY <1>1 DEF AtEase
<1>3. ReadingIsSound'
  BY <1>2 DEF ReadingIsSound, ReadPlaces
<1>4. /\ client' = [at |-> client'.at, held |-> client.held, looks |-> client.looks, shot |-> client'.shot]
      /\ client' = client \/ (Listened /\ client'.at = "free")
  <2>1. CASE Listened
    <3>1. client' = [client EXCEPT !.at = "free"]
      BY <2>1 DEF Frame
    <3> QED  BY <2>1, <3>1, ShapesAre
  <2>2. CASE ~Listened
    <3>1. client' = client
      BY <2>2 DEF Frame
    <3> QED  BY <3>1, ShapesAre
  <2> QED  BY <2>1, <2>2
<1>5. \A o \in view' \cup unframed' :
         o \in view \cup unframed \/ (IsObservation(o) /\ OneMoment(o.got))
  <2>1. CASE view' = view /\ unframed' = unframed
    BY <2>1
  <2>2. CASE view' = {[o EXCEPT !.picture = Live] : o \in unframed} /\ unframed' = {}
    <3>1. ASSUME NEW o \in unframed
          PROVE  LET q == [o EXCEPT !.picture = Live] IN IsObservation(q) /\ OneMoment(q.got)
      <4>1. IsObservation(o) /\ OneMoment(o.got)
        BY DEF BrowserInv, ViewsAreSound
      <4> DEFINE q == [o EXCEPT !.picture = Live]
      <4>2. q = [no |-> o.no, got |-> o.got, tabs |-> o.tabs, coverage |-> o.coverage, picture |-> Live]
        BY <4>1 DEF IsObservation
      <4>3. IsObservation(q) /\ q.got = o.got
        BY <4>2 DEF IsObservation
      <4> QED  BY <4>1, <4>3
    <3> QED  BY <2>2, <3>1
  <2> QED  BY <2>1, <2>2 DEF Frame
<1>6. ViewsAreSound'
  <2>1. \A g : OneMoment(g) => OneMoment(g)'
    BY <1>1, MomentStays DEF SamePage
  <2>2. (\A o \in view \cup unframed : IsObservation(o) /\ OneMoment(o.got))'
    <3>1. \A o \in view' \cup unframed' : IsObservation(o) /\ OneMoment(o.got)
      BY <1>5 DEF BrowserInv, ViewsAreSound
    <3>2. \A o : IsObservation(o) => IsObservation(o)'
      BY DEF IsObservation
    <3> QED  BY <2>1, <3>1, <3>2
  <2>3. (client.at = "tabs" => client.shot = <<client.shot[1]>> /\ OneMoment(client.shot[1]))'
    <3>1. client'.at = "tabs" => client' = client
      BY <1>4
    <3> QED  BY <1>1, <3>1 DEF BrowserInv, ViewsAreSound, OneMoment, Html, ModelOf, SamePage
  <2> QED  BY <2>2, <2>3 DEF ViewsAreSound
<1>7. /\ client' = [at |-> client'.at, held |-> client'.held, looks |-> client'.looks, shot |-> client'.shot]
      /\ client'.held = client.held
  BY <1>4
<1>8. client'.at \in {"probe", "act"} => client'.at = client.at
  BY <1>4
<1> QED  BY <1>1, <1>2, <1>3, <1>4, <1>6, <1>7, <1>8, QuietStepKeeps

\* The points an observation offers are on top in its picture.
LEMMA OffersArePointed ==
    ASSUME NEW o, NEW x \in Offers(o)
    PROVE  Pointed([o |-> o, x |-> x])
PROOF
<1>1. CASE \E i : x = ControlAt(i)
  BY <1>1 DEF Pointed, ControlAt
<1>2. CASE \E e : x = Point(e) /\ Topmost(o.picture, e)
  BY <1>2 DEF Pointed, Point
<1>3. CASE \E n \in {"goto", "nowhere", "new_tab", "tab_focus", "tab_close"} : x = Global(n)
  BY <1>3 DEF Pointed, Global
<1>4. \/ \E i : x = ControlAt(i)
      \/ \E e : x = Point(e) /\ Topmost(o.picture, e)
      \/ \E n \in {"goto", "nowhere", "new_tab", "tab_focus", "tab_close"} : x = Global(n)
  BY DEF Offers
<1> QED  BY <1>1, <1>2, <1>3, <1>4

\* An action is chosen from an observation.
LEMMA ChooseKeeps ==
    ASSUME BrowserInv, Choose
    PROVE  BrowserInv'
PROOF
<1>1. SamePage /\ UNCHANGED <<orders, thread, view, unframed, deeds>> /\ client.at = "free"
  BY DEF Choose, SamePage
<1>2. PICK o \in view : \E y \in Offers(o) : client' = [client EXCEPT !.held = {[o |-> o, x |-> y]}]
  BY DEF Choose
<1>8. PICK x \in Offers(o) : client' = [client EXCEPT !.held = {[o |-> o, x |-> x]}]
  BY <1>2
<1>3. client' = [at |-> client.at, held |-> {[o |-> o, x |-> x]}, looks |-> client.looks, shot |-> client.shot]
  BY <1>8, ShapesAre
<1>4. Pointed([o |-> o, x |-> x])
  BY OffersArePointed
<1>5. /\ client' = [at |-> client'.at, held |-> client'.held, looks |-> client'.looks, shot |-> client'.shot]
      /\ client'.at = client.at /\ client'.shot = client.shot /\ \A h \in client'.held : Pointed(h)
  BY <1>3, <1>4
<1>6. ReadingIsSound' /\ ViewsAreSound'
  BY <1>1, <1>5, ReadingStays, ViewsStay DEF BrowserInv, SamePage
<1>7. thread' = [at |-> thread'.at, tries |-> thread'.tries, order |-> thread'.order, got |-> thread'.got]
  BY <1>1, ShapesAre
<1> QED  BY <1>1, <1>5, <1>6, <1>7, QuietStepKeeps
-----------------------------------------------------------------------------
(* The action: sent, probed and performed.                                   *)

\* A new action, of which nothing is known yet.
LEMMA DeedIsNew ==
    ASSUME BrowserInv, NEW h, Pointed(h), NEW told \in {"not_sent", "pending"},
           deeds' = Append(deeds, Deed(h, told)), web' = web,
           \A n : Acts(n)' => Acts(n), SamePage
    PROVE  /\ IsSequence(deeds') /\ Len(deeds') = Len(deeds) + 1 /\ Len(deeds) \in Nat
           /\ \A n \in 1 .. Len(deeds) : deeds'[n] = deeds[n]
           /\ \A d \in {deeds'[Len(deeds) + 1]} : d.told = told /\ ~d.landed
           /\ ~Acts(Len(deeds) + 1)
           /\ \A n \in 1 .. Len(deeds') : DeedIsSound(n)'
PROOF
<1> DEFINE S == {deeds[i] : i \in 1 .. Len(deeds)}
           last == Len(deeds) + 1
<1>1. deeds \in Seq(S) /\ Len(deeds) \in Nat
  BY EntriesAre DEF BrowserInv, DeedsAreSound, IsSequence
<1>2. /\ Len(deeds') = last /\ Len(deeds') \in Nat
      /\ \A n \in 1 .. Len(deeds) : deeds'[n] = deeds[n]
      /\ deeds'[last] = Deed(h, told)
      /\ deeds' \in Seq(S \cup {Deed(h, told)})
  <2> HIDE DEF S
  <2> QED  BY <1>1, LongerBy
<1>3. IsSequence(deeds')
  <2> HIDE DEF S
  <2> QED  BY <1>2, ItsOwnEntries DEF IsSequence
<1>4. ~Acts(last)
  <2>1. ASSUME Acts(last) PROVE FALSE
    <3>1. last \in 1 .. Len(deeds)
      BY <2>1 DEF Acts, BrowserInv, AskedIsSound
    <3> QED  BY <1>1, <3>1
  <2> QED  BY <2>1
<1>5. \A no : [chosen |-> h, told |-> told, landed |-> no, met |-> {}, on |-> 0, when |-> 0].landed = no
  OBVIOUS
<1>6. \A d \in {deeds'[last]} :
        /\ d = [chosen |-> d.chosen, told |-> d.told, landed |-> d.landed, met |-> d.met, on |-> d.on, when |-> d.when]
        /\ d.chosen = h /\ d.told = told /\ d.landed = FALSE /\ d.when = 0
  <2>1. \A no : LET d == [chosen |-> h, told |-> told, landed |-> no, met |-> {}, on |-> 0, when |-> 0]
               IN /\ d = [chosen |-> d.chosen, told |-> d.told, landed |-> d.landed, met |-> d.met, on |-> d.on,
                          when |-> d.when]
                  /\ d.chosen = h /\ d.told = told /\ d.landed = no /\ d.when = 0
    OBVIOUS
  <2>2. deeds'[last] = [chosen |-> h, told |-> told, landed |-> FALSE, met |-> {}, on |-> 0, when |-> 0]
    BY <1>2 DEF Deed
  <2> HIDE DEF last
  <2> QED  BY <2>1, <2>2
<1>7. ASSUME NEW n \in 1 .. Len(deeds') PROVE DeedIsSound(n)'
  <2>1. CASE n \in 1 .. Len(deeds)
    <3>1. DeedIsSound(n) /\ deeds'[n] = deeds[n] /\ visits \in Nat
      BY <1>2, <2>1, ShapesAre DEF BrowserInv, DeedsAreSound
    <3> QED  BY <3>1, DeedStays
  <2>2. CASE n = last
    <3>1. ASSUME NEW d \in {deeds'[n]} PROVE SoundDeed(n, d)'
      <4>1. /\ d = [chosen |-> d.chosen, told |-> d.told, landed |-> d.landed, met |-> d.met, on |-> d.on, when |-> d.when]
            /\ d.chosen = h /\ d.told = told /\ d.landed = FALSE /\ d.when = 0
        BY <1>6, <2>2
      <4>2. ~Acts(n)'
        BY <1>4, <2>2
      <4>3. Pointed(h)'
        BY DEF Pointed, Topmost, Layers
      <4>4. ~d.landed /\ d.landed \in BOOLEAN
        BY <4>1, Zenon
      <4>5. d.told # "sent" /\ d.when \in Nat
        BY <4>1
      <4> HIDE DEF last
      <4> QED  BY <4>1, <4>2, <4>3, <4>4, <4>5 DEF SoundDeed
    <3> QED  BY <3>1 DEF DeedIsSound
  <2> QED  BY <1>1, <1>2, <2>1, <2>2
<1> QED  BY <1>1, <1>2, <1>3, <1>4, <1>6, <1>7

\* The caller begins an action: its target is to be probed.
LEMMA ExecuteKeeps ==
    ASSUME BrowserInv, Execute
    PROVE  BrowserInv'
PROOF
<1> USE DEF BrowserInv
<1>1. SamePage /\ UNCHANGED <<thread, view, unframed>> /\ client.at = "free"
  BY DEF Execute, SamePage
<1>2. PICK h \in client.held :
        \/ /\ deeds' = Append(deeds, Deed(h, "not_sent"))
           /\ client' = [client EXCEPT !.held = {}] /\ orders' = orders
        \/ /\ deeds' = Append(deeds, Deed(h, "pending")) /\ Sends("probe", Len(deeds) + 1)
           /\ client' = [client EXCEPT !.at = "probe", !.held = {}]
  BY DEF Execute
<1>3. Pointed(h)
  BY DEF DeedsAreSound
<1>4. \A o \in Pending : ~o.heard
  BY <1>1, NobodyIsHeard
<1>5. DeskShape'
  <2>1. client' = [at |-> client'.at, held |-> client'.held, looks |-> client'.looks, shot |-> client'.shot]
    <3>1. \/ client' = [at |-> client.at, held |-> {}, looks |-> client.looks, shot |-> client.shot]
          \/ client' = [at |-> "probe", held |-> {}, looks |-> client.looks, shot |-> client.shot]
      BY <1>2, ShapesAre
    <3> QED  BY <3>1
  <2> QED  BY <1>1, <2>1 DEF DeskShape, SamePage
<1>6. client'.held = {} /\ client'.at \in {client.at, "probe"}
  BY <1>2, ShapesAre
<1>7. ReadingIsSound' /\ ViewsAreSound'
  <2>1. client'.at # "tabs"
    BY <1>1, <1>6
  <2> QED  BY <1>1, <2>1, ReadingStays, ViewsStay DEF SamePage
<1>8. CASE /\ deeds' = Append(deeds, Deed(h, "not_sent"))
           /\ client' = [client EXCEPT !.held = {}] /\ orders' = orders
  <2>1. client'.at = client.at
    BY <1>8, ShapesAre
  <2>2. OrdersShape' /\ QueueIsSound' /\ Pending' = Pending
    BY <1>1, <1>8, <2>1 DEF OrdersShape, QueueIsSound, Pending
  <2>3. \A n : Acts(n)' => Acts(n)
    BY <2>2 DEF Acts
  <2>4. /\ IsSequence(deeds') /\ Len(deeds') = Len(deeds) + 1 /\ Len(deeds) \in Nat
        /\ \A n \in 1 .. Len(deeds) : deeds'[n] = deeds[n]
        /\ \A n \in 1 .. Len(deeds') : DeedIsSound(n)'
    BY <1>1, <1>3, <1>8, <2>3, DeedIsNew DEF SamePage
  <2>5. DeedsAreSound'
    BY <1>6, <2>4 DEF DeedsAreSound
  <2>6. ASSUME NEW o \in Pending', o.name \in {"probe", "act"}
        PROVE  /\ o.arg \in 1 .. Len(deeds') /\ ~o.heard
               /\ o.name = "probe" => ~deeds'[o.arg].landed /\ ~Acts(o.arg)'
    <3>1. o.arg \in 1 .. Len(deeds) /\ (o.name = "probe" => ~deeds[o.arg].landed /\ ~Acts(o.arg))
      BY <2>2, <2>6 DEF AskedIsSound
    <3>2. deeds'[o.arg] = deeds[o.arg] /\ o.arg \in 1 .. Len(deeds')
      BY <2>4, <3>1
    <3> QED  BY <1>4, <2>2, <2>3, <3>1, <3>2
  <2>7. AskedIsSound'
    BY <1>1, <2>1, <2>6 DEF AskedIsSound
  <2> QED  BY <1>5, <1>7, <2>2, <2>5, <2>7
<1>9. CASE /\ deeds' = Append(deeds, Deed(h, "pending")) /\ Sends("probe", Len(deeds) + 1)
           /\ client' = [client EXCEPT !.at = "probe", !.held = {}]
  <2> DEFINE n == Len(deeds) + 1
             q == Order("probe", n)
  <2>0. Len(deeds) \in Nat
    BY EntriesAre DEF DeedsAreSound, IsSequence
  <2>1. q.name = "probe" /\ q.arg = n /\ q.heard /\ q \in Commands
    <3>1. q = [name |-> "probe", arg |-> n, heard |-> TRUE]
      BY DEF Order
    <3>4. TRUE \in BOOLEAN
      OBVIOUS
    <3>5. n \in Arguments
      <4>1. n \in Nat
        BY <2>0
      <4> HIDE DEF n
      <4> QED  BY <4>1 DEF Arguments
    <3>2. \A g \in BOOLEAN : [name |-> "probe", arg |-> n, heard |-> g].heard = g
      OBVIOUS
    <3>3. n \in Arguments => \A g \in BOOLEAN : [name |-> "probe", arg |-> n, heard |-> g] \in Commands
      BY DEF Commands
    <3> HIDE DEF n, q
    <3> QED  BY <3>1, <3>2, <3>3, <3>4, <3>5
  <2>2. /\ client'.at = "probe" /\ "probe" \in WaitsFor("probe")
        /\ \A o \in ToSet(orders) \cup thread'.order : ~o.heard
    BY <1>1, <1>4, <1>9, ShapesAre DEF WaitsFor, Pending
  <2>3. OrdersShape' /\ QueueIsSound' /\ Pending' \subseteq Pending \cup {q}
    <3>1. Sends("probe", n) /\ Order("probe", n) \in Commands /\ n \in Nat
      BY <1>9, <2>0, <2>1
    <3> HIDE DEF n
    <3> QED  BY <1>1, <2>2, <3>1, QueueGrows DEF q
  <2>4. \A m : Acts(m)' => Acts(m)
    <3> HIDE DEF q, n
    <3> QED  BY <2>1, <2>3 DEF Acts
  <2>5. /\ IsSequence(deeds') /\ Len(deeds') = n
        /\ \A m \in 1 .. Len(deeds) : deeds'[m] = deeds[m]
        /\ \A d \in {deeds'[n]} : d.told = "pending" /\ ~d.landed
        /\ ~Acts(n)
        /\ \A m \in 1 .. Len(deeds') : DeedIsSound(m)'
    BY <1>1, <1>3, <1>9, <2>4, DeedIsNew DEF SamePage
  <2>6. DeedsAreSound'
    BY <1>6, <2>5 DEF DeedsAreSound
  <2>7. ASSUME NEW o \in Pending', o.name \in {"probe", "act"}
        PROVE  /\ o.arg \in 1 .. Len(deeds')
               /\ o.heard => o.arg = Len(deeds')
               /\ o.name = "probe" => ~deeds'[o.arg].landed /\ ~Acts(o.arg)'
    <3>1. CASE o \in Pending
      <4>1. o.arg \in 1 .. Len(deeds) /\ (o.name = "probe" => ~deeds[o.arg].landed /\ ~Acts(o.arg)) /\ ~o.heard
        BY <1>4, <2>7, <3>1 DEF AskedIsSound
      <4>2. deeds'[o.arg] = deeds[o.arg] /\ o.arg \in 1 .. Len(deeds')
        BY <2>0, <2>5, <4>1
      <4> QED  BY <2>4, <4>1, <4>2
    <3>2. CASE o = q
      <4>1. o.arg = n /\ n \in 1 .. Len(deeds')
        BY <2>0, <2>1, <2>5, <3>2
      <4> HIDE DEF n, q
      <4> QED  BY <2>4, <2>5, <4>1
    <3> HIDE DEF q
    <3> QED  BY <2>3, <3>1, <3>2
  <2>8. AskedIsSound'
    <3>1. n \in Nat /\ n # 0
      BY <2>0
    <3> HIDE DEF n
    <3> QED  BY <2>2, <2>4, <2>5, <2>7, <3>1 DEF AskedIsSound
  <2> QED  BY <1>5, <1>7, <2>3, <2>6, <2>8
<1> QED  BY <1>2, <1>8, <1>9
\* The probe of an action: it is current, or it is not sent.
LEMMA ProbeTargetKeeps ==
    ASSUME BrowserInv, ProbeTarget
    PROVE  BrowserInv'
PROOF
<1> USE DEF BrowserInv
<1>1. SamePage /\ UNCHANGED <<view, unframed>> /\ thread' = AtEase /\ OrderIs("probe")
  BY DEF ProbeTarget, SamePage
<1>2. /\ thread' = [at |-> thread'.at, tries |-> thread'.tries, order |-> thread'.order, got |-> thread'.got]
      /\ thread'.order = {} /\ thread'.at = "idle"
  BY <1>1 DEF AtEase
<1>3. ReadingIsSound'
  BY <1>2 DEF ReadingIsSound, ReadPlaces
<1>4. CASE ~Listened
  <2>1. UNCHANGED <<client, orders, deeds>>
    BY <1>4 DEF ProbeTarget
  <2>2. ViewsAreSound'
    BY <1>1, <2>1, ViewsStay DEF SamePage
  <2>3. client' = [at |-> client'.at, held |-> client'.held, looks |-> client'.looks, shot |-> client'.shot]
    BY <2>1, ShapesAre
  <2> QED  BY <1>1, <1>2, <1>3, <2>1, <2>2, <2>3, QuietStepKeeps
<1>5. CASE Listened
  <2>1. PICK p \in thread.order : thread.order = {p} /\ p \in Commands /\ p.heard /\ client.at \in WaitsFor(p.name)
    BY <1>5, ListenedIs
  <2> DEFINE n == p.arg
  <2>0. PICK h : h = deeds[n].chosen
    OBVIOUS
  <2>2. orders = <<>> /\ Len(orders) = 0 /\ ToSet(orders) = {}
    BY <1>5, ListenedIs
  <2>3. p.name = "probe" /\ p \in Pending
    BY <1>1, <2>1 DEF OrderIs, Pending
  <2>4. n \in 1 .. Len(deeds) /\ n = Len(deeds) /\ ~deeds[n].landed /\ ~Acts(n) /\ client.at = "probe"
        /\ deeds[n].told = "pending"
    BY <2>1, <2>3 DEF AskedIsSound, WaitsFor
  <2>5. IsSequence(deeds) /\ DeedIsSound(n) /\ Len(deeds) \in Nat
    BY <2>4, EntriesAre DEF DeedsAreSound, IsSequence
  <2>6. \/ \E what \in {"raised", "not_sent"} :
             /\ deeds' = [deeds EXCEPT ![n].told = what]
             /\ client' = [client EXCEPT !.at = "free"] /\ UNCHANGED orders
        \/ /\ IsCurrent(h) /\ deeds' = [deeds EXCEPT ![n].when = visits]
           /\ client' = [client EXCEPT !.at = "act"] /\ Sends("act", n)
    BY <1>5, <2>0, <2>1 DEF ProbeTarget
  <2>7. /\ client' = [at |-> client'.at, held |-> client.held, looks |-> client.looks, shot |-> client.shot]
        /\ client'.at \in {"free", "act"}
    <3>1. \E at \in {"free", "act"} : client' = [client EXCEPT !.at = at]
      BY <2>6
    <3> QED  BY <3>1, ShapesAre
  <2>8. DeskShape' /\ ViewsAreSound'
    <3>1. client' = [at |-> client'.at, held |-> client'.held, looks |-> client'.looks, shot |-> client'.shot]
          /\ client'.at # "tabs"
      BY <2>7
    <3> QED  BY <1>1, <1>2, <3>1, ViewsStay DEF DeskShape, SamePage
  <2>9. \A g \in client'.held : Pointed(g)'
    <3>1. client'.held = client.held
      BY <2>7
    <3> QED  BY <3>1 DEF DeedsAreSound, Pointed, Topmost, Layers
  <2>10. CASE \E what \in {"raised", "not_sent"} :
                /\ deeds' = [deeds EXCEPT ![n].told = what]
                /\ client' = [client EXCEPT !.at = "free"] /\ UNCHANGED orders
    <3>1. PICK what \in {"raised", "not_sent"} :
             /\ deeds' = [deeds EXCEPT ![n].told = what]
             /\ client' = [client EXCEPT !.at = "free"] /\ UNCHANGED orders
      BY <2>10
    <3>2. client'.at = "free"
      BY <3>1, ShapesAre
    <3>3. Pending' = {} /\ OrdersShape' /\ QueueIsSound'
      BY <1>2, <2>2, <3>1 DEF Pending, OrdersShape, QueueIsSound
    <3>4. \A m : ~Acts(m)'
      BY <3>3 DEF Acts
    <3>5. /\ IsSequence(deeds') /\ Len(deeds') = Len(deeds) /\ deeds'[n] = [deeds[n] EXCEPT !.told = what]
          /\ \A m \in 1 .. Len(deeds) : m # n => deeds'[m] = deeds[m]
      <4>1. deeds' = [deeds EXCEPT ![n] = [deeds[n] EXCEPT !.told = what]]
        BY <3>1
      <4> QED  BY <2>4, <2>5, <4>1, OneDeedChanges
    <3>6. ASSUME NEW m \in 1 .. Len(deeds) PROVE DeedIsSound(m)'
      <4>1. CASE m = n
        <5>1. DeedIsSound(m) /\ ~deeds[m].landed /\ ~Acts(m) /\ ~Acts(m)'
              /\ deeds'[m] = [deeds[m] EXCEPT !.told = what] /\ visits \in Nat
          BY <2>4, <2>5, <3>4, <3>5, <4>1, ShapesAre
        <5> HIDE DEF n
        <5> QED  BY <1>1, <5>1, DeedIsToldOtherwise
      <4>2. CASE m # n
        <5>1. DeedIsSound(m) /\ deeds'[m] = deeds[m] /\ web' = web /\ visits \in Nat
          BY <1>1, <3>5, <4>2, ShapesAre DEF DeedsAreSound, SamePage
        <5> QED  BY <3>4, <5>1, DeedStays
      <4> QED  BY <4>1, <4>2
    <3>7. DeedsAreSound'
      BY <2>9, <3>5, <3>6 DEF DeedsAreSound
    <3>8. AskedIsSound'
      BY <3>2, <3>3 DEF AskedIsSound
    <3> QED  BY <1>3, <2>8, <3>3, <3>7, <3>8
  <2>11. CASE /\ IsCurrent(h) /\ deeds' = [deeds EXCEPT ![n].when = visits]
              /\ client' = [client EXCEPT !.at = "act"] /\ Sends("act", n)
    <3> DEFINE q == Order("act", n)
    <3>1. q.name = "act" /\ q.arg = n /\ q.heard /\ q \in Commands
      <4>1. q = [name |-> "act", arg |-> n, heard |-> TRUE]
        BY DEF Order
      <4>2. TRUE \in BOOLEAN
        OBVIOUS
      <4>3. n \in Arguments
        BY <2>1 DEF Commands
      <4>4. \A g \in BOOLEAN : [name |-> "act", arg |-> n, heard |-> g].heard = g
        OBVIOUS
      <4>5. n \in Arguments => \A g \in BOOLEAN : [name |-> "act", arg |-> n, heard |-> g] \in Commands
        BY DEF Commands
      <4> HIDE DEF n, q
      <4> QED  BY <4>1, <4>2, <4>3, <4>4, <4>5
    <3>2. client'.at = "act" /\ "act" \in WaitsFor("act")
      BY <2>11, ShapesAre DEF WaitsFor
    <3>3. OrdersShape' /\ QueueIsSound'
      <4> HIDE DEF n
      <4> QED  BY <1>2, <2>2, <2>11, <3>1, <3>2, QueueGrows DEF q
    <3>4. Pending' = {q}
      <4>1. orders' = Append(orders, q) /\ orders \in Seq(Commands)
        BY <2>11 DEF Sends, OrdersShape
      <4>2. ToSet(orders') = ToSet(orders) \cup {q}
        <5>1. ToSet(Append(orders, q)) = ToSet(orders) \cup {q}
          <6> HIDE DEF q, n
          <6> QED  BY <4>1, MembersGrow, Zenon
        <5> QED  BY <4>1, <5>1
      <4> HIDE DEF q, n
      <4> QED  BY <1>2, <2>2, <4>2 DEF Pending
    <3>5. \A m : Acts(m)' <=> m = n
      <4> HIDE DEF q, n
      <4> QED  BY <3>1, <3>4 DEF Acts
    <3>6. /\ IsSequence(deeds') /\ Len(deeds') = Len(deeds) /\ deeds'[n] = [deeds[n] EXCEPT !.when = visits]
          /\ \A m \in 1 .. Len(deeds) : m # n => deeds'[m] = deeds[m]
      <4>1. deeds' = [deeds EXCEPT ![n] = [deeds[n] EXCEPT !.when = visits]]
        BY <2>11
      <4> QED  BY <2>4, <2>5, <4>1, OneDeedChanges
    <3>7. ASSUME NEW d \in {deeds'[n]} PROVE SoundDeed(n, d)'
      <4>1. PICK e : e = deeds[n]
        OBVIOUS
      <4>2. e = [chosen |-> e.chosen, told |-> e.told, landed |-> e.landed, met |-> e.met, on |-> e.on, when |-> e.when]
            /\ Pointed(e.chosen) /\ e.landed \in BOOLEAN /\ ~e.landed /\ e.told = "pending" /\ e.chosen = h
        BY <2>0, <2>4, <2>5, <4>1 DEF DeedIsSound, SoundDeed
      <4>3. d = [e EXCEPT !.when = visits]
        BY <3>6, <4>1
      <4>4. d = [chosen |-> e.chosen, told |-> e.told, landed |-> e.landed, met |-> e.met, on |-> e.on, when |-> visits]
        BY <4>2, <4>3
      <4>5. /\ d = [chosen |-> d.chosen, told |-> d.told, landed |-> d.landed, met |-> d.met, on |-> d.on, when |-> d.when]
            /\ d.chosen = h /\ d.told = "pending" /\ d.landed = e.landed /\ d.when = visits
        <5> HIDE DEF n
        <5> QED  BY <4>2, <4>4
      <4>6. IsCurrent(h)' /\ Pointed(h)'
        <5> HIDE DEF n
        <5>1. Live' = Live /\ TabsPrint' = TabsPrint /\ web' = web
          BY <1>1 DEF SamePage, Live, TabsPrint
        <5>2. IsCurrent(h) => IsCurrent(h)'
          BY <5>1 DEF IsCurrent, Html, ModelOf, ChosenControl, ReceivesPointer, Topmost, Layers
        <5>3. Pointed(h) => Pointed(h)'
          BY DEF Pointed, Topmost, Layers
        <5> QED  BY <2>11, <4>2, <5>2, <5>3
      <4>7. visits' = visits /\ visits \in Nat /\ visits - visits = 0
        BY <1>1, ShapesAre DEF SamePage
      <4>8. d.landed \in BOOLEAN /\ ~d.landed
        BY <4>2, <4>5
      <4>9. d.told \notin {"not_sent", "raised", "sent"}
        BY <4>5
      <4> HIDE DEF n
      <4> QED  BY <4>5, <4>6, <4>7, <4>8, <4>9 DEF SoundDeed
    <3>8. ASSUME NEW m \in 1 .. Len(deeds) PROVE DeedIsSound(m)'
      <4>1. CASE m = n
        BY <3>7, <4>1 DEF DeedIsSound
      <4>2. CASE m # n
        <5>1. DeedIsSound(m) /\ deeds'[m] = deeds[m] /\ web' = web /\ visits \in Nat /\ ~Acts(m)'
          BY <1>1, <3>5, <3>6, <4>2, ShapesAre DEF DeedsAreSound, SamePage
        <5> QED  BY <5>1, DeedStays
      <4> QED  BY <4>1, <4>2
    <3>9. DeedsAreSound'
      BY <2>9, <3>6, <3>8 DEF DeedsAreSound
    <3>10. AskedIsSound'
      <4> HIDE DEF q, n
      <4>1. n \in 1 .. Len(deeds') /\ n = Len(deeds') /\ Len(deeds') # 0
        BY <2>4, <3>6
      <4> QED  BY <3>1, <3>2, <3>4, <4>1 DEF AskedIsSound
    <3> QED  BY <1>3, <2>8, <3>3, <3>9, <3>10
  <2> QED  BY <2>6, <2>10, <2>11
<1> QED  BY <1>4, <1>5
-----------------------------------------------------------------------------
(* The parser keeps opening tags of the text.                                *)

ParserAtStart == [depth |-> 0, skip |-> 0, open |-> <<>>, tree |-> <<>>, nodes |-> <<>>]

\* What Parse computes on the way.
ParseUpTo(ts, n, f) ==
    f = [i \in 0 .. n |-> IF i = 0 THEN ParserAtStart ELSE HandleToken(f[i - 1], ts[i])]

\* Such a function exists.
LEMMA ParseExists ==
    ASSUME NEW ts, NEW n \in Nat
    PROVE  \E f : ParseUpTo(ts, n, f)
PROOF
<1> DEFINE S == {m \in 0 .. n : \E f : ParseUpTo(ts, m, f)}
<1>1. 0 \in S
  <2> DEFINE f == [i \in 0 .. 0 |-> ParserAtStart]
  <2>1. \A i \in 0 .. 0 : i = 0
    OBVIOUS
  <2>2. ParseUpTo(ts, 0, f)
    BY <2>1 DEF ParseUpTo
  <2> QED  BY <2>2
<1>2. ASSUME NEW m \in 0 .. n, m < n, m \in S PROVE m + 1 \in S
  <2>1. PICK f : ParseUpTo(ts, m, f)
    BY <1>2
  <2> DEFINE last == HandleToken(f[m], ts[(m + 1)])
             g == [i \in 0 .. (m + 1) |-> IF i = m + 1 THEN last ELSE f[i]]
             body(i) == IF i = 0 THEN ParserAtStart ELSE HandleToken(g[i - 1], ts[i])
  <2>2. ASSUME NEW i \in 0 .. (m + 1) PROVE g[i] = body(i)
    <3>1. CASE i = 0
      <4>1. f[0] = ParserAtStart
        BY <2>1 DEF ParseUpTo
      <4>2. m + 1 # 0
        OBVIOUS
      <4> HIDE DEF last
      <4> QED  BY <3>1, <4>1, <4>2
    <3>2. CASE i \in 1 .. m
      <4>1. i - 1 \in 0 .. m /\ i \in 0 .. m /\ i # m + 1 /\ i - 1 # m + 1 /\ i # 0
            /\ i - 1 \in 0 .. (m + 1)
        BY <3>2
      <4> HIDE DEF last
      <4>2. g[i] = f[i] /\ g[i - 1] = f[i - 1]
        BY <4>1
      <4>3. f[i] = HandleToken(f[i - 1], ts[i])
        BY <2>1, <4>1 DEF ParseUpTo
      <4> HIDE DEF g
      <4> QED  BY <4>1, <4>2, <4>3
    <3>3. CASE i = m + 1
      <4>1. m \in 0 .. (m + 1) /\ m # m + 1 /\ i # 0 /\ i - 1 = m
        BY <3>3
      <4> HIDE DEF last
      <4>2. g[i] = last /\ g[i - 1] = f[m]
        BY <3>3, <4>1
      <4> HIDE DEF g
      <4> USE DEF last
      <4> QED  BY <3>3, <4>1, <4>2
    <3> QED  BY <3>1, <3>2, <3>3
  <2>3. g = [i \in 0 .. (m + 1) |-> body(i)]
    BY <2>2
  <2>4. ParseUpTo(ts, m + 1, g)
    BY <2>3 DEF ParseUpTo
  <2>5. m + 1 \in 0 .. n
    BY <1>2
  <2> QED  BY <2>4, <2>5
<1> HIDE DEF S
<1>3. \A m \in 0 .. n : m \in S
  BY <1>1, <1>2, UpToInduction
<1> QED  BY <1>3 DEF S

\* Parse is what the last of these steps gives.
LEMMA ParseIs ==
    ASSUME NEW ts, Len(ts) \in Nat
    PROVE  \E f : ParseUpTo(ts, Len(ts), f) /\ Parse(ts) = f[Len(ts)].nodes
PROOF
<1> DEFINE f == CHOOSE f : ParseUpTo(ts, Len(ts), f)
<1>1. ParseUpTo(ts, Len(ts), f)
  BY ParseExists
<1>2. Parse(ts) = f[Len(ts)].nodes
  BY DEF Parse, ParseUpTo, ParserAtStart
<1> QED  BY <1>1, <1>2

\* The nodes hold opening tags of the text.
IsNode(node, ts) ==
    /\ node = [t |-> node.t, nth |-> node.nth, parent |-> node.parent, box |-> node.box, words |-> node.words]
    /\ node.t \in ToSet(ts) /\ node.t.k = "open"
AreNodes(nodes, ts) == IsSequence(nodes) /\ \A n \in 1 .. Len(nodes) : IsNode(nodes[n], ts)
IsParser(s, ts) ==
    /\ s = [depth |-> s.depth, skip |-> s.skip, open |-> s.open, tree |-> s.tree, nodes |-> s.nodes]
    /\ AreNodes(s.nodes, ts)

\* One more node.
LEMMA NodesGrow ==
    ASSUME NEW nodes, NEW ts, AreNodes(nodes, ts), NEW node, IsNode(node, ts)
    PROVE  AreNodes(Append(nodes, node), ts)
PROOF
<1> DEFINE S == {nodes[i] : i \in 1 .. Len(nodes)}
<1>1. nodes \in Seq(S)
  BY DEF AreNodes, IsSequence
<1>2. /\ Len(Append(nodes, node)) = Len(nodes) + 1 /\ Len(Append(nodes, node)) \in Nat
      /\ \A i \in 1 .. Len(nodes) : Append(nodes, node)[i] = nodes[i]
      /\ Append(nodes, node)[Len(nodes) + 1] = node
      /\ Append(nodes, node) \in Seq(S \cup {node})
  <2> HIDE DEF S
  <2> QED  BY <1>1, LongerBy
<1>3. IsSequence(Append(nodes, node))
  <2> HIDE DEF S
  <2> QED  BY <1>2, ItsOwnEntries DEF IsSequence
<1>4. Len(nodes) \in Nat
  BY <1>1, EntriesAre
<1>5. \A i \in 1 .. (Len(nodes) + 1) : i \in 1 .. Len(nodes) \/ i = Len(nodes) + 1
  BY <1>4
<1> HIDE DEF S
<1> QED  BY <1>2, <1>3, <1>5 DEF AreNodes

\* A node hears another word.
LEMMA NodesHear ==
    ASSUME NEW nodes, NEW ts, AreNodes(nodes, ts), NEW k, NEW words
    PROVE  AreNodes([nodes EXCEPT ![k].words = words], ts)
PROOF
<1> DEFINE m == [nodes EXCEPT ![k].words = words]
           n == Len(nodes)
<1>1. nodes \in Seq({nodes[i] : i \in 1 .. n}) /\ DOMAIN nodes = 1 .. n /\ n \in Nat
  BY EntriesAre DEF AreNodes, IsSequence
<1>2. m = [i \in 1 .. n |-> IF i = k THEN [nodes[k] EXCEPT !.words = words] ELSE nodes[i]]
  BY <1>1
<1>3. \A i \in 1 .. n : IsNode(m[i], ts)
  <2>1. ASSUME NEW i \in 1 .. n PROVE IsNode(m[i], ts)
    <3>1. PICK node : node = nodes[i]
      OBVIOUS
    <3>2. IsNode(node, ts)
      BY <3>1 DEF AreNodes
    <3> DEFINE other == [node EXCEPT !.words = words]
    <3>3. other = [t |-> node.t, nth |-> node.nth, parent |-> node.parent, box |-> node.box, words |-> words]
      BY <3>2 DEF IsNode
    <3>4. IsNode(other, ts)
      BY <3>2, <3>3 DEF IsNode
    <3>5. m[i] = node \/ m[i] = other
      BY <1>2, <3>1
    <3> HIDE DEF m, other
    <3> QED  BY <3>2, <3>4, <3>5
  <2> QED  BY <2>1
<1>4. m = [i \in 1 .. n |-> m[i]]
  BY <1>2
<1> HIDE DEF m
<1>5. m \in Seq({m[i] : i \in 1 .. n}) /\ Len(m) = n
  BY <1>1, <1>4, FunctionIsSequence
<1> HIDE DEF n
<1>6. AreNodes(m, ts)
  BY <1>3, <1>5 DEF AreNodes, IsSequence
<1> QED  BY <1>6 DEF m

\* Whatever else the parser remembers, its nodes are nodes of the text.
LEMMA ParserRemembers ==
    ASSUME NEW s, NEW ts, IsParser(s, ts), NEW a
    PROVE  /\ IsParser([s EXCEPT !.depth = a], ts) /\ IsParser([s EXCEPT !.skip = a], ts)
           /\ IsParser([s EXCEPT !.open = a], ts) /\ IsParser([s EXCEPT !.tree = a], ts)
           /\ AreNodes(a, ts) => IsParser([s EXCEPT !.nodes = a], ts)
PROOF
<1>1. s = [depth |-> s.depth, skip |-> s.skip, open |-> s.open, tree |-> s.tree, nodes |-> s.nodes]
      /\ AreNodes(s.nodes, ts)
  BY DEF IsParser
<1>2. \A v, w, x, y, z : AreNodes(z, ts) =>
         IsParser([depth |-> v, skip |-> w, open |-> x, tree |-> y, nodes |-> z], ts)
  BY DEF IsParser
<1>3. /\ [s EXCEPT !.depth = a] = [depth |-> a, skip |-> s.skip, open |-> s.open, tree |-> s.tree, nodes |-> s.nodes]
      /\ [s EXCEPT !.skip = a] = [depth |-> s.depth, skip |-> a, open |-> s.open, tree |-> s.tree, nodes |-> s.nodes]
      /\ [s EXCEPT !.open = a] = [depth |-> s.depth, skip |-> s.skip, open |-> a, tree |-> s.tree, nodes |-> s.nodes]
      /\ [s EXCEPT !.tree = a] = [depth |-> s.depth, skip |-> s.skip, open |-> s.open, tree |-> a, nodes |-> s.nodes]
      /\ [s EXCEPT !.nodes = a] = [depth |-> s.depth, skip |-> s.skip, open |-> s.open, tree |-> s.tree, nodes |-> a]
  BY <1>1
<1> QED  BY <1>1, <1>2, <1>3

\* Each token leaves the parser with nodes of the text.
LEMMA TokenKeepsNodes ==
    ASSUME NEW ts, NEW s, IsParser(s, ts), NEW t \in ToSet(ts), t.k \in {"open", "close", "word"}
    PROVE  IsParser(HandleToken(s, t), ts)
PROOF
<1>1. AreNodes(s.nodes, ts)
  BY DEF IsParser
<1>3. CASE t.k = "open"
  <2>1. HandleToken(s, t) = HandleStart(s, t)
    BY <1>3 DEF HandleToken
  <2>2. IsNode(NodeOf(s, t), ts)
    BY <1>3 DEF NodeOf, IsNode
  <2> DEFINE d == s.depth + 1
             root == IF t.tag \in VoidTags THEN s.tree ELSE Append(s.tree, t)
             nodes == Append(s.nodes, NodeOf(s, t))
             open == IF t.tag \in VoidTags THEN s.open ELSE Append(s.open, Len(s.nodes) + 1)
             r1 == [s EXCEPT !.depth = d]
             r2 == [r1 EXCEPT !.tree = root]
             r3 == [r2 EXCEPT !.nodes = nodes]
  <2>3. AreNodes(nodes, ts)
    BY <1>1, <2>2, NodesGrow
  <2>4. \/ HandleStart(s, t) = s
        \/ HandleStart(s, t) = r1
        \/ HandleStart(s, t) = [r1 EXCEPT !.skip = d]
        \/ HandleStart(s, t) = r2
        \/ HandleStart(s, t) = [r3 EXCEPT !.open = open]
    BY DEF HandleStart
  <2> HIDE DEF d, root, nodes, open
  <2>5. IsParser(r1, ts)
    BY ParserRemembers
  <2> HIDE DEF r1
  <2>6. IsParser([r1 EXCEPT !.skip = d], ts) /\ IsParser(r2, ts)
    BY <2>5, ParserRemembers
  <2> HIDE DEF r2
  <2>7. IsParser(r3, ts)
    BY <2>3, <2>6, ParserRemembers
  <2> HIDE DEF r3
  <2>8. IsParser([r3 EXCEPT !.open = open], ts)
    BY <2>7, ParserRemembers
  <2> QED  BY <2>1, <2>4, <2>5, <2>6, <2>8
<1>4. CASE t.k = "close"
  <2>1. HandleToken(s, t) = HandleEnd(s, t)
    BY <1>4 DEF HandleToken
  <2>2. PICK v, w, x, y : HandleEnd(s, t) = [s EXCEPT !.skip = v, !.open = w, !.tree = x, !.depth = y]
    BY DEF HandleEnd
  <2>3. IsParser([s EXCEPT !.skip = v, !.open = w, !.tree = x, !.depth = y], ts)
    <3> DEFINE r1 == [s EXCEPT !.skip = v]
               r2 == [r1 EXCEPT !.open = w]
               r3 == [r2 EXCEPT !.tree = x]
               r4 == [r3 EXCEPT !.depth = y]
    <3>1. [s EXCEPT !.skip = v, !.open = w, !.tree = x, !.depth = y] = r4
      OBVIOUS
    <3>2. IsParser(r1, ts)
      BY ParserRemembers
    <3> HIDE DEF r1
    <3>3. IsParser(r2, ts)
      BY <3>2, ParserRemembers
    <3> HIDE DEF r2
    <3>4. IsParser(r3, ts)
      BY <3>3, ParserRemembers
    <3> HIDE DEF r3
    <3>5. IsParser(r4, ts)
      BY <3>4, ParserRemembers
    <3> HIDE DEF r4
    <3> QED  BY <3>1, <3>5
  <2> QED  BY <2>1, <2>2, <2>3
<1>5. CASE t.k = "word"
  <2>1. HandleToken(s, t) = HandleData(s, t)
    BY <1>5 DEF HandleToken
  <2>2. \/ HandleData(s, t) = s
        \/ \E k, words : HandleData(s, t) = [s EXCEPT !.nodes = [s.nodes EXCEPT ![k].words = words]]
    BY DEF HandleData
  <2>3. CASE HandleData(s, t) # s
    <3>1. PICK k, words : HandleData(s, t) = [s EXCEPT !.nodes = [s.nodes EXCEPT ![k].words = words]]
      BY <2>2, <2>3
    <3> DEFINE nodes == [s.nodes EXCEPT ![k].words = words]
    <3>2. AreNodes(nodes, ts)
      BY <1>1, NodesHear
    <3>3. HandleData(s, t) = [s EXCEPT !.nodes = nodes]
      BY <3>1
    <3> HIDE DEF nodes
    <3>4. IsParser([s EXCEPT !.nodes = nodes], ts)
      BY <3>2, ParserRemembers
    <3> QED  BY <2>1, <3>3, <3>4
  <2> QED  BY <2>1, <2>3
<1> QED  BY <1>3, <1>4, <1>5

\* What the parser makes of a text are nodes of that text.
LEMMA ParsedAreNodes ==
    ASSUME NEW S, NEW ts \in Seq(S), \A t \in ToSet(ts) : t.k \in {"open", "close", "word"}
    PROVE  AreNodes(Parse(ts), ts)
PROOF
<1> DEFINE n == Len(ts)
<1>0. n \in Nat /\ \A i \in 1 .. n : ts[i] \in ToSet(ts)
  BY EntriesAre
<1>1. PICK f : ParseUpTo(ts, n, f) /\ Parse(ts) = f[n].nodes
  BY <1>0, ParseIs
<1> DEFINE G == {m \in 0 .. n : IsParser(f[m], ts)}
<1>2. 0 \in G
  <2>1. f[0] = ParserAtStart
    BY <1>0, <1>1 DEF ParseUpTo
  <2>2. AreNodes(<<>>, ts)
    BY DEF AreNodes, IsSequence
  <2>3. IsParser(ParserAtStart, ts)
    BY <2>2 DEF IsParser, ParserAtStart
  <2> QED  BY <1>0, <2>1, <2>3
<1>3. ASSUME NEW m \in 0 .. n, m < n, m \in G PROVE m + 1 \in G
  <2>1. m + 1 \in 1 .. n /\ m + 1 \in 0 .. n /\ m + 1 # 0 /\ m + 1 - 1 = m
    BY <1>0, <1>3
  <2>2. f[m + 1] = HandleToken(f[m], ts[m + 1])
    <3>1. \A i \in 0 .. n : i # 0 => f[i] = HandleToken(f[i - 1], ts[i])
      BY <1>1 DEF ParseUpTo
    <3> HIDE DEF n
    <3> QED  BY ONLY <2>1, <3>1
  <2>3. ts[m + 1] \in ToSet(ts)
    BY <1>0, <2>1
  <2>4. IsParser(f[m + 1], ts)
    BY <1>3, <2>2, <2>3, TokenKeepsNodes
  <2> QED  BY <2>1, <2>4
<1> HIDE DEF G
<1>4. n \in G
  <2>1. \A m \in 0 .. n : m \in G
    BY <1>0, <1>2, <1>3, UpToInduction
  <2> QED  BY <1>0, <2>1
<1> QED  BY <1>1, <1>4 DEF G, IsParser
-----------------------------------------------------------------------------
(* What a selector finds.                                                    *)

\* The document of a page, as the pages give it.
LEMMA DocumentIs ==
    ASSUME NEW p \in DOMAIN WebPages, NEW r \in BOOLEAN,
           NEW c \in ToSet(Documents[p].model[WebPages[p].url][r].controls)
    PROVE  LET ts == WebPages[p].tokens
           IN /\ c \in ToSet(PlannerControls(Parse(PublicHtml(ts, r))))
              /\ Documents[p].found[c.selector] = Cardinality(Find(ts, c.selector))
              /\ Documents[p].first[c.selector] = FindFirst(ts, c.selector)
PROOF
<1> DEFINE ts == WebPages[p].tokens
           urls == {WebPages[q].url : q \in DOMAIN WebPages}
           models == [q \in DOMAIN WebPages |->
                         [u \in urls |-> [v \in BOOLEAN |-> Transduce(u, PublicHtml(WebPages[q].tokens, v))]]]
           selectors == SelectorsOf(models)
           u == WebPages[p].url
<1>1. Documents = Tables(WebPages, models, selectors)
  BY BrowserAssumption DEF DocumentsOf, TablesOf
<1>2. /\ Documents[p].model = models[p]
      /\ Documents[p].found = [q \in selectors |-> Cardinality(Find(ts, q))]
      /\ Documents[p].first = [q \in selectors |-> FindFirst(ts, q)]
  <2> HIDE DEF models, selectors
  <2> QED  BY <1>1 DEF Tables
<1>3. models[p][u][r] = Transduce(u, PublicHtml(ts, r)) /\ u \in urls
  OBVIOUS
<1>4. c \in ToSet(models[p][u][r].controls)
  BY <1>2
<1>5. c.selector \in selectors
  <2> DEFINE byUrl == models[p]
             m == byUrl[u]
  <2>1. byUrl \in Range(models)
    <3>1. p \in DOMAIN models
      OBVIOUS
    <3> HIDE DEF models
    <3> QED  BY <3>1 DEF Range
  <2>2. m \in Range(byUrl)
    <3>1. u \in DOMAIN byUrl
      BY <1>3
    <3> HIDE DEF byUrl
    <3> QED  BY <3>1 DEF Range
  <2>3. c.selector \in {d.selector : d \in ToSet(m[r].controls)}
    <3> HIDE DEF models, u
    <3> QED  BY <1>4
  <2> HIDE DEF m, byUrl, models
  <2> QED  BY <2>1, <2>2, <2>3 DEF SelectorsOf
<1>6. c \in ToSet(PlannerControls(Parse(PublicHtml(ts, r))))
  <2>1. c \in ToSet(Transduce(u, PublicHtml(ts, r)).controls)
    BY <1>3, <1>4
  <2> HIDE DEF ts, u
  <2> QED  BY <2>1 DEF Transduce, Versioned
<1> HIDE DEF selectors, models
<1> QED  BY <1>2, <1>5, <1>6

\* A control is one of a node.
LEMMA ControlsAreOfNodes ==
    ASSUME NEW nodes, IsSequence(nodes), NEW c \in ToSet(PlannerControls(nodes))
    PROVE  \E n \in 1 .. Len(nodes) : c = ControlOf(nodes, n)
PROOF
<1> DEFINE s == [n \in DOMAIN nodes |-> ControlOf(nodes, n)]
           places == {n \in DOMAIN nodes : IsPlannerNode(nodes, n)}
<1>1. DOMAIN nodes = 1 .. Len(nodes) /\ Len(nodes) \in Nat
  BY EntriesAre DEF IsSequence
<1>2. s = [i \in 1 .. Len(nodes) |-> s[i]] /\ \A i \in 1 .. Len(nodes) : s[i] = ControlOf(nodes, i)
  BY <1>1
<1> HIDE DEF s
<1>3. s \in Seq({s[i] : i \in 1 .. Len(nodes)}) /\ Len(s) = Len(nodes)
  BY <1>1, <1>2, FunctionIsSequence
<1> DEFINE E == {s[i] : i \in {j \in 1 .. Len(s) : j \in places}}
<1>4. EntriesAt(s, places) \in Seq(E)
  BY <1>3, KeptEntries
<1>5. ToSet(EntriesAt(s, places)) \subseteq E
  <2> HIDE DEF E
  <2> QED  BY <1>4, EntriesAre
<1>6. c \in E
  BY <1>5 DEF PlannerControls, s
<1> QED  BY <1>2, <1>3, <1>6

\* Where a selector that is no position finds one element, that is the control's.
LEMMA FoundOnce ==
    ASSUME NEW p \in DOMAIN WebPages, web.rendered \in BOOLEAN,
           NEW c \in ToSet(Html(p).controls), c.selector.by # "nth",
           Documents[p].found[c.selector] = 1
    PROVE  Documents[p].first[c.selector] = {c.is}
PROOF
<1> DEFINE ts == WebPages[p].tokens
           public == PublicHtml(ts, web.rendered)
           nodes == Parse(public)
<1>1. /\ c \in ToSet(PlannerControls(nodes))
      /\ Documents[p].found[c.selector] = Cardinality(Find(ts, c.selector))
      /\ Documents[p].first[c.selector] = FindFirst(ts, c.selector)
  BY DocumentIs DEF Html
<1>2. /\ ts \in Seq(ToSet(ts)) /\ Len(ts) \in Nat /\ DOMAIN ts = 1 .. Len(ts)
      /\ \A i \in 1 .. Len(ts) : ts[i] \in ToSet(ts)
      /\ ToSet(ts) = {ts[i] : i \in 1 .. Len(ts)}
      /\ \A t \in ToSet(ts) : t.k \in {"open", "close", "word"} /\ (t.k = "open" => t.tag # "")
  <2>1. ts \in Seq(ToSet(ts)) /\ \A t \in ToSet(ts) : t.k \in {"open", "close", "word"} /\ (t.k = "open" => t.tag # "")
    <3>1. /\ ts \in Seq(ToSet(ts))
          /\ \A t \in ToSet(ts) :
               /\ t.k \in {"open", "close", "word"}
               /\ t.k = "open" => t.tag # ""
               /\ t.hide \in {"no", "both", "mark", "css"}
      BY BrowserAssumption, Zenon
    <3> HIDE DEF ts
    <3> QED  BY <3>1
  <2> HIDE DEF ts
  <2>2. /\ ToSet(ts) = {ts[i] : i \in 1 .. Len(ts)} /\ Len(ts) \in Nat
        /\ \A i \in 1 .. Len(ts) : ts[i] \in ToSet(ts)
        /\ DOMAIN ts = 1 .. Len(ts)
    BY <2>1, EntriesAre
  <2> QED  BY <2>1, <2>2
<1> HIDE DEF ts
<1>3. public \in Seq(ToSet(ts)) /\ ToSet(public) \subseteq ToSet(ts)
  <2> DEFINE E == {ts[i] : i \in {j \in 1 .. Len(ts) : j \in Painted(ts)}}
  <2>1. EntriesAt(ts, Painted(ts)) \in Seq(E)
    BY <1>2, KeptEntries
  <2>2. E \subseteq ToSet(ts)
    BY <1>2
  <2>3. public \in Seq(E) \/ public \in Seq(ToSet(ts))
    BY <1>2, <2>1 DEF PublicHtml
  <2> HIDE DEF E, public
  <2>4. public \in Seq(ToSet(ts))
    BY <2>2, <2>3
  <2> QED  BY <2>4, EntriesAre
<1> HIDE DEF public
<1>4. AreNodes(nodes, public)
  BY <1>2, <1>3, ParsedAreNodes
<1> HIDE DEF nodes
<1>5. PICK n \in 1 .. Len(nodes) : c = ControlOf(nodes, n)
  BY <1>1, <1>4, ControlsAreOfNodes DEF AreNodes
<1>6. PICK t : t = nodes[n].t
  OBVIOUS
<1>7. t \in ToSet(ts) /\ t.k = "open" /\ t.tag # ""
  BY <1>2, <1>3, <1>4, <1>6 DEF AreNodes, IsNode
<1>8. PICK i \in 1 .. Len(ts) : ts[i] = t
  BY <1>2, <1>7
<1>9. c.is = t.is /\ c.selector = SelectorFor(nodes[n])
  BY <1>5, <1>6 DEF ControlOf
<1>10. IsFoundBy(ts, Nesting(ts), c.selector, i)
  <2>0. PICK q : q = c.selector
    OBVIOUS
  <2>1. \/ q = [by |-> "id", tag |-> t.tag, of |-> t.id, nth |-> 0]
        \/ q = [by |-> "name", tag |-> t.tag, of |-> t.name, nth |-> 0]
        \/ q = [by |-> "class", tag |-> t.tag, of |-> t.class, nth |-> 0]
        \/ q = [by |-> "nth", tag |-> t.tag, of |-> "", nth |-> nodes[n].nth]
    BY <1>6, <1>9, <2>0 DEF SelectorFor
  <2>2. CASE q = [by |-> "id", tag |-> t.tag, of |-> t.id, nth |-> 0]
    <3>1. IsFoundBy(ts, Nesting(ts), q, i)
      BY <1>7, <1>8, <2>2 DEF IsFoundBy
    <3> QED  BY <2>0, <3>1
  <2>3. CASE q = [by |-> "name", tag |-> t.tag, of |-> t.name, nth |-> 0]
    <3>1. IsFoundBy(ts, Nesting(ts), q, i)
      BY <1>7, <1>8, <2>3 DEF IsFoundBy
    <3> QED  BY <2>0, <3>1
  <2>4. CASE q = [by |-> "class", tag |-> t.tag, of |-> t.class, nth |-> 0]
    <3>1. IsFoundBy(ts, Nesting(ts), q, i)
      BY <1>7, <1>8, <2>4 DEF IsFoundBy
    <3> QED  BY <2>0, <3>1
  <2>5. q.by # "nth"
    BY <2>0
  <2>6. ASSUME q = [by |-> "nth", tag |-> t.tag, of |-> "", nth |-> nodes[n].nth] PROVE FALSE
    <3>1. q.by = "nth"
      BY ONLY <2>6
    <3> QED  BY ONLY <2>5, <3>1
  <2> QED  BY <2>0, <2>1, <2>2, <2>3, <2>4, <2>6
<1> DEFINE hits == Find(ts, c.selector)
<1>11. i \in hits /\ hits \subseteq 1 .. Len(ts)
  BY <1>2, <1>8, <1>10 DEF Find
<1>12. IsFiniteSet(hits) /\ Cardinality(hits) = 1
  <2>1. Cardinality(hits) = 1
    BY <1>1
  <2>2. hits \in SUBSET (1 .. Len(ts))
    BY <1>11
  <2>3. IsFiniteSet(1 .. Len(ts))
    <3>1. Len(ts) \in Nat
      BY <1>2, Zenon
    <3>2. Len(ts) \in Int /\ 1 \in Int
      BY ONLY <3>1
    <3> QED  BY ONLY <3>2, FS_Interval
  <2> HIDE DEF hits
  <2> QED  BY <2>1, <2>2, <2>3, FS_Subset
<1>13. hits = {i}
  <2> HIDE DEF hits
  <2>1. \E x : hits = {x}
    BY <1>12, FS_Singleton
  <2> QED  BY <1>11, <2>1
<1>14. i \in Nat
  OBVIOUS
<1>15. NamesOfFirst(ts, hits) = {ts[i].is}
  <2> HIDE DEF hits
  <2>1. {j \in hits : \A k \in hits : j <= k} = {i}
    BY <1>13, <1>14
  <2> QED  BY <2>1 DEF NamesOfFirst
<1> QED  BY <1>1, <1>8, <1>9, <1>15 DEF FindFirst
-----------------------------------------------------------------------------
(* What an action does.                                                      *)

\* A tab shows another page, or there is one tab more.
LEMMA TabsStayTabs ==
    ASSUME tabs \in Seq(Tabs), NEW p \in DOMAIN WebPages
    PROVE  /\ \A i \in DOMAIN tabs : [tabs EXCEPT ![i].page = p] \in Seq(Tabs)
           /\ Append(tabs, [id |-> 2, page |-> p]) \in Seq(Tabs)
PROOF
<1>1. DOMAIN tabs = 1 .. Len(tabs) /\ Len(tabs) \in Nat /\ \A i \in 1 .. Len(tabs) : tabs[i] \in Tabs
  BY EntriesAre
<1>2. ASSUME NEW i \in DOMAIN tabs PROVE [tabs EXCEPT ![i].page = p] \in Seq(Tabs)
  <2> DEFINE t == [tabs[i] EXCEPT !.page = p]
  <2>1. t \in Tabs
    <3>1. \A u \in Tabs : [u EXCEPT !.page = p] \in Tabs
      BY DEF Tabs
    <3> QED  BY <1>1, <3>1
  <2> HIDE DEF t
  <2>2. [tabs EXCEPT ![i] = t] \in Seq(Tabs)
    <3>1. [tabs EXCEPT ![i] = t] = [j \in 1 .. Len(tabs) |-> IF j = i THEN t ELSE tabs[j]]
      BY <1>1
    <3>2. \A j \in 1 .. Len(tabs) : (IF j = i THEN t ELSE tabs[j]) \in Tabs
      BY <1>1, <2>1
    <3> QED  BY <1>1, <3>1, <3>2
  <2> QED  BY <2>2 DEF t
<1>3. [id |-> 2, page |-> p] \in Tabs
  BY DEF Tabs
<1> QED  BY <1>2, <1>3

\* What an action can do to the tabs, and what it meets.
LEMMA HappensIs ==
    ASSUME tabs \in Seq(Tabs), web \in Webs, NEW h, NEW e \in Happens(h)
    PROVE  /\ e.tabs \in Seq(Tabs)
           /\ h.x.kind = "control" =>
                 /\ Live # 0
                 /\ \E f \in Documents[Live].first[ChosenControl(h).selector] : e.met = {f}
           /\ h.x.kind = "point" /\ Topmost(Live, h.x.is) => e.met = {h.x.is}
PROOF
<1> DEFINE i == CHOOSE j \in DOMAIN tabs : tabs[j].id = focus
           to(p) == [tabs |-> [tabs EXCEPT ![i].page = p], focus |-> focus, met |-> {}]
           at(f) == IF f \in DOMAIN WebPages[Live].leads THEN WebPages[Live].leads[f] ELSE Live
           hit(f) == [to(at(f)) EXCEPT !.met = {f}]
<1>1. Live # 0 => i \in DOMAIN tabs /\ Live \in DOMAIN WebPages
  BY LiveIsPage
<1>2. Live # 0 => \A f : at(f) \in DOMAIN WebPages
  BY <1>1, BrowserAssumption
<1>3. web.start \in DOMAIN WebPages
  BY BrowserAssumption
<1> HIDE DEF i, at
<1>4. \A p : to(p).tabs = [tabs EXCEPT ![i].page = p]
  OBVIOUS
<1>5. \A f : hit(f) = [tabs |-> [tabs EXCEPT ![i].page = at(f)], focus |-> focus, met |-> {f}]
  <2>1. \A a, b, m : [[tabs |-> a, focus |-> b, met |-> {}] EXCEPT !.met = m] = [tabs |-> a, focus |-> b, met |-> m]
    OBVIOUS
  <2> QED  BY <2>1, Zenon
<1>6. \A f : hit(f).tabs = [tabs EXCEPT ![i].page = at(f)] /\ hit(f).met = {f}
  BY <1>5
<1>7. Live # 0 => /\ \A f : hit(f).tabs \in Seq(Tabs)
                  /\ \A p \in DOMAIN WebPages : to(p).tabs \in Seq(Tabs)
  BY <1>1, <1>2, <1>4, <1>6, TabsStayTabs
<1> HIDE DEF hit, to
<1>8. CASE h.x.kind = "control"
  <2>1. Live # 0 /\ \E f \in Documents[Live].first[ChosenControl(h).selector] : e = hit(f)
    BY <1>8 DEF Happens, hit, to, i, at
  <2> QED  BY <1>6, <1>7, <1>8, <2>1
<1>9. CASE h.x.kind = "point"
  <2>1. Live # 0 /\ (IF Topmost(Live, h.x.is) THEN e = hit(h.x.is) ELSE e = to(Live))
    BY <1>9 DEF Happens, hit, to, i, at
  <2> QED  BY <1>1, <1>6, <1>7, <1>9, <2>1
<1>10. CASE h.x.kind \notin {"control", "point"}
  <2>1. \/ Live # 0 /\ e = to(web.start)
        \/ e = [tabs |-> Append(tabs, [id |-> 2, page |-> web.start]), focus |-> 2, met |-> {}]
        \/ \E f : e = [tabs |-> tabs, focus |-> f, met |-> {}]
        \/ \E f : e = [tabs |-> OtherTabs, focus |-> f, met |-> {}]
    BY <1>10 DEF Happens, hit, to, i, at
  <2>2. Live # 0 => to(web.start).tabs \in Seq(Tabs)
    BY <1>3, <1>7
  <2>3. Append(tabs, [id |-> 2, page |-> web.start]) \in Seq(Tabs)
    BY <1>3 DEF Tabs
  <2>4. e.tabs \in Seq(Tabs)
    BY <2>1, <2>2, <2>3, OtherTabsAreTabs
  <2> QED  BY <1>10, <2>4
<1> QED  BY <1>8, <1>9, <1>10
\* What happens to an action that was current meets what was chosen.
LEMMA MeetsWhatWasChosen ==
    ASSUME tabs \in Seq(Tabs), web \in Webs, NEW h, NEW e \in Happens(h), IsCurrent(h), Pointed(h),
           NEW d, d.chosen = h, d.on = Live, d.met = e.met
    PROVE  HitsWhatWasChosen(d)
PROOF
<1>1. /\ h.x.kind = "control" =>
           /\ Live # 0
           /\ \E f \in Documents[Live].first[ChosenControl(h).selector] : e.met = {f}
      /\ h.x.kind = "point" /\ Topmost(Live, h.x.is) => e.met = {h.x.is}
  BY HappensIs
<1>2. CASE h.x.kind = "control"
  <2>1. PICK c \in ToSet(Html(Live).controls) :
           Fingerprint(c) = Fingerprint(ChosenControl(h)) /\ ReceivesPointer(Live, c.selector)
    BY <1>2 DEF IsCurrent
  <2>2. Html(Live).revision = ModelOf(h.o.got).revision
    BY <1>2 DEF IsCurrent
  <2>3. c.selector = ChosenControl(h).selector
    <3>1. \A a, b : Fingerprint(a) = Fingerprint(b) => a.selector = b.selector
      BY DEF Fingerprint
    <3> QED  BY <2>1, <3>1
  <2>4. Live \in DOMAIN WebPages /\ web.rendered \in BOOLEAN
    BY <1>1, <1>2, LiveIsPage, BrowserAssumption
  <2>5. ASSUME c.selector.by # "nth", Documents[Live].found[c.selector] = 1
        PROVE  e.met = {c.is}
    <3>1. Documents[Live].first[c.selector] = {c.is}
      BY <2>4, <2>5, FoundOnce
    <3> QED  BY <1>1, <1>2, <2>3, <3>1
  <2> QED  BY <1>2, <2>1, <2>2, <2>3, <2>5 DEF HitsWhatWasChosen
<1>3. CASE h.x.kind = "point"
  <2>1. Live = h.o.picture
    BY <1>3 DEF IsCurrent
  <2>2. Topmost(Live, h.x.is)
    BY <1>3, <2>1 DEF Pointed
  <2> QED  BY <1>1, <1>3, <2>1, <2>2 DEF HitsWhatWasChosen
<1>4. CASE h.x.kind \notin {"control", "point"}
  BY <1>4 DEF HitsWhatWasChosen
<1> QED  BY <1>2, <1>3, <1>4

\* The action takes effect, and its caller is told so, or that it raised.
LEMMA PerformKeeps ==
    ASSUME BrowserInv, NEW returns \in BOOLEAN, Perform(returns)
    PROVE  BrowserInv'
PROOF
<1> USE DEF BrowserInv
<1>1. /\ UNCHANGED <<web, visits, orders, view, unframed>> /\ thread' = AtEase /\ OrderIs("act")
      /\ client' = IF Listened THEN [client EXCEPT !.at = "free"] ELSE client
  BY DEF Perform
<1>2. /\ thread' = [at |-> thread'.at, tries |-> thread'.tries, order |-> thread'.order, got |-> thread'.got]
      /\ thread'.order = {} /\ thread'.at = "idle"
  BY <1>1 DEF AtEase
<1>3. ReadingIsSound'
  BY <1>2 DEF ReadingIsSound, ReadPlaces
<1>4. /\ client' = [at |-> client'.at, held |-> client'.held, looks |-> client'.looks, shot |-> client'.shot]
      /\ client'.held = client.held
      /\ client' = client \/ (Listened /\ client'.at = "free")
  <2>1. CASE Listened
    <3>1. client' = [at |-> "free", held |-> client.held, looks |-> client.looks, shot |-> client.shot]
      BY <1>1, <2>1, ShapesAre
    <3> QED  BY <2>1, <3>1
  <2>2. CASE ~Listened
    BY <1>1, <2>2, ShapesAre
  <2> QED  BY <2>1, <2>2
<1>5. ViewsAreSound'
  <2>1. client'.at = "tabs" => client.at = "tabs" /\ client'.shot = client.shot
    BY <1>4
  <2> QED  BY <1>1, <2>1, ViewsStay
<1>6. OrdersShape' /\ QueueIsSound' /\ Pending' \subseteq Pending
  BY <1>1, <1>2, <1>4, QueueStays
<1>7. PICK p \in thread.order : thread.order = {p} /\ p.name = "act" /\ p \in Pending
  BY <1>1 DEF OrderIs, OrdersShape, Pending
<1> DEFINE n == p.arg
<1>8. Acts(n) /\ n \in 1 .. Len(deeds) /\ DeedIsSound(n) /\ IsSequence(deeds)
  BY <1>7 DEF Acts, AskedIsSound, DeedsAreSound
<1>9. \A o \in Pending' : o.name # "act"
  <2>1. \A i \in 1 .. Len(orders) : orders[i].name # "act"
    BY <1>7 DEF QueueIsSound
  <2>2. ToSet(orders) = {orders[i] : i \in 1 .. Len(orders)}
    BY EntriesAre DEF OrdersShape
  <2> QED  BY <1>1, <1>2, <2>1, <2>2 DEF Pending
<1>10. \A m : ~Acts(m)'
  BY <1>9 DEF Acts
<1>11. visits \in Nat /\ tabs \in Seq(Tabs) /\ web \in Webs
  BY ShapesAre
<1>12. PICK h, d : d = deeds[n] /\ h = d.chosen
  OBVIOUS
<1>13. /\ d = [chosen |-> d.chosen, told |-> d.told, landed |-> d.landed, met |-> d.met, on |-> d.on, when |-> d.when]
       /\ Pointed(h) /\ d.landed \in BOOLEAN /\ ~d.landed /\ d.told \notin {"not_sent", "raised", "sent"}
       /\ visits - d.when \in Nat
       /\ visits - d.when = 0 => IsCurrent(h)
  BY <1>8, <1>12 DEF DeedIsSound, SoundDeed
<1>14. \/ /\ \E told \in {"unknown", d.told} : deeds' = [deeds EXCEPT ![n].told = told]
          /\ tabs' = tabs /\ focus' = focus
       \/ \E e \in Happens(h) : \E told \in {"sent", "unknown", d.told} :
            /\ tabs' = e.tabs
            /\ deeds' = [deeds EXCEPT ![n] = [deeds[n] EXCEPT !.told = told, !.landed = TRUE, !.met = e.met,
                                                       !.on = Live, !.when = visits - @]]
  <2> DEFINE told(landed) == IF Listened THEN (IF landed /\ returns THEN "sent" ELSE "unknown") ELSE deeds[n].told
  <2>1. \/ /\ deeds' = [deeds EXCEPT ![n].told = told(FALSE)]
           /\ tabs' = tabs /\ focus' = focus
        \/ \E e \in Happens(h) :
             /\ tabs' = e.tabs
             /\ deeds' = [deeds EXCEPT ![n] = [deeds[n] EXCEPT !.told = told(TRUE), !.landed = TRUE, !.met = e.met,
                                                        !.on = Live, !.when = visits - @]]
    BY <1>7, <1>12 DEF Perform
  <2>2. told(FALSE) \in {"unknown", d.told} /\ told(TRUE) \in {"sent", "unknown", d.told}
    BY <1>12
  <2> HIDE DEF told
  <2> QED  BY <2>1, <2>2
<1>15. tabs' \in Seq(Tabs)
  BY <1>11, <1>14, HappensIs
<1>16. DeskShape'
  BY <1>1, <1>2, <1>4, <1>11, <1>15 DEF DeskShape
<1> HIDE DEF n
<1>17. ASSUME NEW k, k.chosen = h, k.landed => HitsWhatWasChosen(k) \/ k.when # 0,
              k = [chosen |-> k.chosen, told |-> k.told, landed |-> k.landed, met |-> k.met, on |-> k.on, when |-> k.when],
              k.when \in Nat, k.landed \in BOOLEAN, k.told \notin {"not_sent", "raised"}, k.told = "sent" => k.landed
       PROVE  SoundDeed(n, k)'
  <2>1. HitsWhatWasChosen(k) => HitsWhatWasChosen(k)'
    BY <1>1 DEF HitsWhatWasChosen, ChosenControl, ModelOf, Html
  <2>2. Pointed(k.chosen)'
    BY <1>13, <1>17 DEF Pointed, Topmost, Layers
  <2> QED  BY <1>10, <1>17, <2>1, <2>2 DEF SoundDeed
<1>18. PICK k : deeds' = [deeds EXCEPT ![n] = k] /\ SoundDeed(n, k)'
  <2>1. CASE \E told \in {"unknown", d.told} : deeds' = [deeds EXCEPT ![n].told = told]
    <3>1. PICK told \in {"unknown", d.told} : deeds' = [deeds EXCEPT ![n].told = told]
      BY <2>1
    <3> DEFINE k == [d EXCEPT !.told = told]
    <3>2. k = [chosen |-> d.chosen, told |-> told, landed |-> d.landed, met |-> d.met, on |-> d.on, when |-> d.when]
      BY <1>13
    <3>3. /\ k = [chosen |-> k.chosen, told |-> k.told, landed |-> k.landed, met |-> k.met, on |-> k.on, when |-> k.when]
          /\ k.chosen = h /\ k.told = told /\ k.landed = d.landed /\ k.when = d.when
      BY <1>12, <3>2
    <3>4. deeds' = [deeds EXCEPT ![n] = k]
      BY <1>12, <3>1
    <3>5. d.when \in Nat
      BY <1>8, <1>12 DEF DeedIsSound, SoundDeed
    <3> HIDE DEF k
    <3>6. ~k.landed /\ k.landed \in BOOLEAN /\ k.told \notin {"not_sent", "raised", "sent"} /\ k.when \in Nat
      BY <1>13, <3>3, <3>5
    <3>7. SoundDeed(n, k)'
      BY <1>17, <3>3, <3>6
    <3> QED  BY <3>4, <3>7
  <2>2. CASE \E e \in Happens(h) : \E told \in {"sent", "unknown", d.told} :
               deeds' = [deeds EXCEPT ![n] = [deeds[n] EXCEPT !.told = told, !.landed = TRUE, !.met = e.met,
                                                       !.on = Live, !.when = visits - @]]
    <3>1. PICK e \in Happens(h) : \E told \in {"sent", "unknown", d.told} :
               deeds' = [deeds EXCEPT ![n] = [deeds[n] EXCEPT !.told = told, !.landed = TRUE, !.met = e.met,
                                                       !.on = Live, !.when = visits - @]]
      BY <2>2
    <3>2. PICK told \in {"sent", "unknown", d.told} :
               deeds' = [deeds EXCEPT ![n] = [deeds[n] EXCEPT !.told = told, !.landed = TRUE, !.met = e.met,
                                                       !.on = Live, !.when = visits - @]]
      BY <3>1
    <3>0. PICK k : k = [chosen |-> h, told |-> told, landed |-> TRUE, met |-> e.met, on |-> Live, when |-> visits - d.when]
      OBVIOUS
    <3>3. deeds' = [deeds EXCEPT ![n] = k]
      <4>1. \A yes : [d EXCEPT !.told = told, !.landed = yes, !.met = e.met, !.on = Live, !.when = visits - d.when]
                     = [chosen |-> h, told |-> told, landed |-> yes, met |-> e.met, on |-> Live, when |-> visits - d.when]
        <5> DEFINE met == e.met
                   when == visits - d.when
                   live == Live
        <5> HIDE DEF met, when, live
        <5>1. ASSUME NEW yes
              PROVE  [d EXCEPT !.told = told, !.landed = yes, !.met = met, !.on = live, !.when = when]
                     = [chosen |-> h, told |-> told, landed |-> yes, met |-> met, on |-> live, when |-> when]
          <6>1. PICK d1 : d1 = [d EXCEPT !.told = told]
            OBVIOUS
          <6>2. d1 = [chosen |-> h, told |-> told, landed |-> d.landed, met |-> d.met, on |-> d.on, when |-> d.when]
            BY <1>12, <1>13, <6>1
          <6>3. PICK d2 : d2 = [d1 EXCEPT !.landed = yes]
            OBVIOUS
          <6>4. d2 = [chosen |-> h, told |-> told, landed |-> yes, met |-> d.met, on |-> d.on, when |-> d.when]
            BY <6>2, <6>3
          <6>5. PICK d3 : d3 = [d2 EXCEPT !.met = met]
            OBVIOUS
          <6>6. d3 = [chosen |-> h, told |-> told, landed |-> yes, met |-> met, on |-> d.on, when |-> d.when]
            BY <6>4, <6>5
          <6>7. PICK d4 : d4 = [d3 EXCEPT !.on = live]
            OBVIOUS
          <6>8. d4 = [chosen |-> h, told |-> told, landed |-> yes, met |-> met, on |-> live, when |-> d.when]
            BY <6>6, <6>7
          <6>9. [d4 EXCEPT !.when = when] =
                   [chosen |-> h, told |-> told, landed |-> yes, met |-> met, on |-> live, when |-> when]
            BY <6>8
          <6> QED  BY <6>1, <6>3, <6>5, <6>7, <6>9, Zenon
        <5> QED  BY <5>1, Zenon DEF met, when, live
      <4>2. deeds' = [deeds EXCEPT ![n] = [d EXCEPT !.told = told, !.landed = TRUE, !.met = e.met,
                                                    !.on = Live, !.when = visits - d.when]]
        BY <1>12, <3>2
      <4> QED  BY <3>0, <4>1, <4>2, Zenon
    <3>4. \A yes : LET r == [chosen |-> h, told |-> told, landed |-> yes, met |-> e.met, on |-> Live, when |-> visits - d.when]
                   IN /\ r = [chosen |-> r.chosen, told |-> r.told, landed |-> r.landed, met |-> r.met, on |-> r.on,
                              when |-> r.when]
                      /\ r.chosen = h /\ r.told = told /\ r.landed = yes /\ r.met = e.met /\ r.on = Live
                      /\ r.when = visits - d.when
      OBVIOUS
    <3>5. /\ k = [chosen |-> k.chosen, told |-> k.told, landed |-> k.landed, met |-> k.met, on |-> k.on, when |-> k.when]
          /\ k.chosen = h /\ k.told = told /\ k.landed = TRUE /\ k.met = e.met /\ k.on = Live /\ k.when = visits - d.when
      BY <3>0, <3>4, Zenon
    <3>6. k.landed /\ k.landed \in BOOLEAN
      BY <3>5, Zenon
    <3>7. k.told \notin {"not_sent", "raised"} /\ k.when \in Nat
      BY <1>13, <3>5
    <3>8. HitsWhatWasChosen(k) \/ k.when # 0
      <4>1. CASE visits - d.when = 0
        <5>1. IsCurrent(h) /\ Pointed(h)
          BY <1>13, <4>1
        <5>2. k.chosen = h /\ k.on = Live /\ k.met = e.met
          BY <3>5
        <5> QED  BY <1>11, <5>1, <5>2, MeetsWhatWasChosen
      <4>2. CASE visits - d.when # 0
        BY <3>5, <4>2
      <4> QED  BY <4>1, <4>2
    <3>9. SoundDeed(n, k)'
      <4>1. k.chosen = h
            /\ k = [chosen |-> k.chosen, told |-> k.told, landed |-> k.landed, met |-> k.met, on |-> k.on, when |-> k.when]
        BY <3>5, Zenon
      <4> QED  BY <1>17, <3>6, <3>7, <3>8, <4>1
    <3> QED  BY <3>3, <3>9
  <2> QED  BY <1>14, <2>1, <2>2
<1>19. /\ IsSequence(deeds') /\ Len(deeds') = Len(deeds) /\ deeds'[n] = k
       /\ \A m \in 1 .. Len(deeds) : m # n => deeds'[m] = deeds[m]
  BY <1>8, <1>18, OneDeedChanges
<1>20. ASSUME NEW m \in 1 .. Len(deeds) PROVE DeedIsSound(m)'
  <2>1. CASE m = n
    <3>1. \A r \in {deeds'[m]} : r = k
      BY <1>19, <2>1
    <3> QED  BY <1>18, <2>1, <3>1 DEF DeedIsSound
  <2>2. CASE m # n
    <3>1. DeedIsSound(m) /\ deeds'[m] = deeds[m] /\ web' = web
      BY <1>1, <1>19, <2>2 DEF DeedsAreSound
    <3> QED  BY <1>10, <1>11, <3>1, DeedStays
  <2> QED  BY <2>1, <2>2
<1>21. DeedsAreSound'
  <2>1. ASSUME NEW g \in client'.held PROVE Pointed(g)'
    BY <1>4 DEF DeedsAreSound, Pointed, Topmost, Layers
  <2> QED  BY <1>19, <1>20, <2>1 DEF DeedsAreSound
<1>22. AskedIsSound'
  <2>1. ASSUME NEW o \in Pending', o.name \in {"probe", "act"}
        PROVE  /\ o.arg \in 1 .. Len(deeds')
               /\ o.heard => o.arg = Len(deeds')
               /\ ~deeds'[o.arg].landed
    <3>1. o \in Pending /\ o.name = "probe"
      BY <1>6, <1>9, <2>1
    <3>2. o.arg \in 1 .. Len(deeds) /\ (o.heard => o.arg = Len(deeds)) /\ ~deeds[o.arg].landed /\ ~Acts(o.arg)
      BY <3>1 DEF AskedIsSound
    <3>3. o.arg # n
      BY <1>8, <3>2
    <3> QED  BY <1>19, <3>2, <3>3
  <2>2. ASSUME client'.at = "probe"
        PROVE  Len(deeds') # 0 /\ deeds'[Len(deeds')].told = "pending" /\ ~deeds'[Len(deeds')].landed
    <3>1. client.at = "probe"
      BY <1>4, <2>2
    <3>2. Len(deeds) # 0 /\ deeds[Len(deeds)].told = "pending" /\ ~deeds[Len(deeds)].landed /\ ~Acts(Len(deeds))
      BY <3>1 DEF AskedIsSound
    <3>3. Len(deeds) # n /\ Len(deeds) \in 1 .. Len(deeds)
      <4>1. Len(deeds) # n
        BY <1>8, <3>2
      <4>2. Len(deeds) \in Nat
        BY <1>8, EntriesAre DEF IsSequence
      <4> QED  BY ONLY <3>2, <4>1, <4>2
    <3> QED  BY <1>19, <3>2, <3>3
  <2>3. client'.at = "act" => Len(deeds') # 0
    <3>1. client'.at = "act" => client.at = "act"
      BY <1>4
    <3> QED  BY <1>19, <3>1 DEF AskedIsSound
  <2> QED  BY <1>10, <2>1, <2>2, <2>3 DEF AskedIsSound
<1> QED  BY <1>3, <1>5, <1>6, <1>16, <1>21, <1>22
-----------------------------------------------------------------------------
(* The theorems.                                                             *)

\* The invariant holds at the start,
LEMMA BrowserStarts ==
    ASSUME BrowserInit
    PROVE  BrowserInv
PROOF
<1>1. web \in Webs /\ web.start \in DOMAIN WebPages /\ visits = 0
  BY BrowserAssumption DEF BrowserInit
<1>2. thread = [at |-> "launching", tries |-> 0, order |-> {}, got |-> <<>>]
  BY DEF BrowserInit, AtEase
<1>3. client = [at |-> "launch", held |-> {}, looks |-> 0, shot |-> <<>>]
  BY DEF BrowserInit
<1>4. thread.order = {} /\ thread.at = "launching" /\ client.at = "launch" /\ client.held = {}
  BY <1>2, <1>3
<1>5. orders = <<>> /\ deeds = <<>> /\ view = {} /\ unframed = {}
  BY DEF BrowserInit
<1>6. Len(orders) = 0 /\ Len(deeds) = 0 /\ ToSet(orders) = {}
  <2>1. Len(orders) = 0 /\ Len(deeds) = 0 /\ DOMAIN orders = {}
    BY <1>5
  <2> QED  BY <2>1 DEF ToSet
<1>7. DeskShape
  <2>1. [id |-> 1, page |-> web.start] \in Tabs
    BY <1>1 DEF Tabs
  <2>2. tabs \in Seq(Tabs)
    BY <2>1 DEF BrowserInit
  <2> QED  BY <1>1, <1>2, <1>3, <2>2 DEF DeskShape
<1>8. OrdersShape /\ QueueIsSound
  BY <1>4, <1>5, <1>6 DEF OrdersShape, QueueIsSound
<1>9. ReadingIsSound /\ ViewsAreSound
  BY <1>4, <1>5 DEF ReadingIsSound, ViewsAreSound, ReadPlaces
<1>10. DeedsAreSound
  <2>1. IsSequence(deeds)
    BY <1>5 DEF IsSequence
  <2> QED  BY <1>4, <1>6, <2>1 DEF DeedsAreSound
<1>11. AskedIsSound
  BY <1>4, <1>6 DEF AskedIsSound, Pending
<1> QED  BY <1>7, <1>8, <1>9, <1>10, <1>11 DEF BrowserInv

\* and in a step that changes nothing here.
LEMMA BrowserRests ==
    ASSUME BrowserInv, UNCHANGED browserVars
    PROVE  BrowserInv'
PROOF
<1>1. SamePage /\ UNCHANGED <<thread, orders, client, view, unframed, deeds>>
  BY DEF browserVars, SamePage
<1>2. ReadingIsSound' /\ ViewsAreSound'
  BY <1>1, ReadingStays, ViewsStay DEF BrowserInv, SamePage
<1>3. /\ thread' = [at |-> thread'.at, tries |-> thread'.tries, order |-> thread'.order, got |-> thread'.got]
      /\ client' = [at |-> client'.at, held |-> client'.held, looks |-> client'.looks, shot |-> client'.shot]
  BY <1>1, ShapesAre
<1> QED  BY <1>1, <1>2, <1>3, QuietStepKeeps

\* The browser session: the caller waits for the last command it sent and for
\* no other, an action's command is never behind another and was current when
\* it was probed, and a capture's sources lie on the two sides of one change
\* of the page at most.
THEOREM BrowserIsSound == BrowserSpec => []BrowserInv
PROOF
<1>1. BrowserInit => BrowserInv
  BY BrowserStarts
<1>2. BrowserInv /\ [BrowserNext]_browserVars => BrowserInv'
  <2> SUFFICES ASSUME BrowserInv, [BrowserNext]_browserVars PROVE BrowserInv'
    OBVIOUS
  <2>1. CASE BrowserNext
    BY <2>1, PageMovesOnKeeps, SiteTouchesTabsKeeps, LaunchAttemptKeeps, GiveUpKeeps, TakeOrderKeeps,
       CaptureHtmlKeeps, CaptureUrlKeeps, CaptureControlsKeeps, CaptureLayersKeeps, CaptureShotKeeps,
       CaptureFinalKeeps, ProjectSnapshotKeeps, LookKeeps, LookBesideKeeps, FrameKeeps, ChooseKeeps,
       ExecuteKeeps, ProbeTargetKeeps, PerformKeeps, CloseKeeps, JoinedKeeps DEF BrowserNext
  <2>2. CASE UNCHANGED browserVars
    BY <2>2, BrowserRests
  <2> QED  BY <2>1, <2>2
<1> QED  BY <1>1, <1>2, PTL DEF BrowserSpec

\* browser_session._capture_snapshot, adapter.acquire: an observation whose
\* capture compared anything is of one page, unless the page changed twice.
THEOREM CapturesAreOneMoment == BrowserSpec => []CaptureIsOneMoment
PROOF
<1>1. BrowserInv => CaptureIsOneMoment
  BY DEF BrowserInv, ViewsAreSound, OneMoment, CaptureIsOneMoment
<1> QED  BY <1>1, BrowserIsSound, PTL

\* adapter.execute, probe_dom_target, page.click: what is told of an action is
\* what happened, and on a page unchanged since the probe it met what was
\* chosen.
THEOREM DeedsAreTrue == BrowserSpec => []DeedIsTrue
PROOF
<1>1. BrowserInv => DeedIsTrue
  <2> SUFFICES ASSUME BrowserInv, NEW n \in DOMAIN deeds
               PROVE  LET d == deeds[n]
                          x == d.chosen.x
                          sought == ChosenControl(d.chosen).selector
                          exact == sought.by # "nth" /\ Documents[d.on].found[sought] = 1
                      IN /\ d.told \in {"not_sent", "raised"} => ~d.landed
                         /\ d.told = "sent" => d.landed
                         /\ d.landed /\ d.when = 0 /\ x.kind = "control" =>
                              /\ Html(d.on).revision = ModelOf(d.chosen.o.got).revision
                              /\ exact => \E c \in ToSet(Html(d.on).controls) :
                                             Fingerprint(c) = Fingerprint(ChosenControl(d.chosen)) /\ d.met = {c.is}
                         /\ d.landed /\ d.when = 0 /\ x.kind = "point" =>
                              d.on = d.chosen.o.picture /\ d.met = {x.is}
    BY DEF DeedIsTrue
  <2>1. n \in 1 .. Len(deeds)
    BY EntriesAre DEF BrowserInv, DeedsAreSound, IsSequence
  <2>2. PICK d : d = deeds[n]
    OBVIOUS
  <2>3. SoundDeed(n, d)
    BY <2>1, <2>2 DEF BrowserInv, DeedsAreSound, DeedIsSound
  <2>4. d.landed /\ d.when = 0 => HitsWhatWasChosen(d)
    BY <2>3 DEF SoundDeed
  <2>5. /\ d.told \in {"not_sent", "raised"} => ~d.landed
        /\ d.told = "sent" => d.landed
    BY <2>3 DEF SoundDeed
  <2> QED  BY <2>2, <2>4, <2>5 DEF HitsWhatWasChosen
<1> QED  BY <1>1, BrowserIsSound, PTL

-----------------------------------------------------------------------------
(* What the variables hold.                                                *)

Dones == [projection : {"not_attempted", "projected", "failed"},
          report : {"not_attempted", "committed", "failed"},
          export : {"not_attempted", "exported", "failed"}]

Phases == {"CASE_STARTED", "ENVIRONMENT_READY", "CASE_BODY_RETURNED", "RESULT_PERSISTED",
           "CLEANUP_STARTED", "CLEANUP_FINISHED", "FINAL_ATTEMPT"}

\* What the rows beside the outcome of a case hold is of no account here.
StoreLike(d) ==
    d \in [official : [CaseIds -> Outcomes \cup {NoRow}],
           outcome : [CaseIds -> CaseRecords \cup {NoRow}],
           phases : [CaseIds -> SUBSET (Phases \cup {"CASE_FINISHED"})],
           reports : SUBSET CaseIds, shown : SUBSET CaseIds,
           status : [CaseIds -> {"not_generated", "exported", "failed"}],
           cleaned : [CaseIds -> {"not_run", "running", "answered", "timeout"}],
           run : {d.run}, suite : {d.suite}]

CaseLike(k) ==
    k \in [acquired : BOOLEAN, checkpoint : Outcomes \cup {NoRow},
           persisted : {"not_attempted", "committed", "failed"}, trouble : BOOLEAN,
           failure : {"none", "timeout", "interrupted"},
           record : CaseRecords \cup {NoRow},
           cleanup : {"not_run", "running", "answered", "timeout"},
           done : Dones]

CaseJobs == {"case_report", "case_export", "case_again"}

JobKinds == CaseJobs \cup {"start", "verdict", "run_report", "run_export"}

JobLike(job) == /\ job.kind \in JobKinds
                /\ job.kind \in CaseJobs => job.value \in CaseIds

\* places where a case has its record
Recorded == {"body_record", "body_persisted", "cleaning", "closing", "closed",
             "cleanup_record", "cleaned", "projecting", "projected", "report_failed",
             "presenting", "finishing"}

InCase == Recorded \cup {"started", "building", "composing", "body", "cancelling", "returned"}

Spots == InCase \cup {"idle", "next", "waiting", "suite", "done", "dead"}

BenchLike(b) == b \in [at : Spots, index : 0 .. MaxCases, job : {b.job}]

\* Where the runner stands, it has a case, its record, or a job of its case.
Placed(b, k) ==
    /\ b.at \in InCase => b.index \in CaseIds
    /\ b.at \in Recorded => k.record \in CaseRecords
    /\ b.at = "waiting" => JobLike(b.job)
    /\ b.at = "waiting" /\ b.job.kind \in CaseJobs =>
          b.job.value = b.index /\ k.record \in CaseRecords

BenchTypeOK ==
    /\ StoreLike(db) /\ CaseLike(case) /\ BenchLike(bench)
    /\ \A job \in late : JobLike(job)
    /\ strays \subseteq CaseIds
    /\ task \in {"none", "running", "over", "detached"}
    /\ Placed(bench, case)
    /\ task # "none" => bench.index \in CaseIds

-----------------------------------------------------------------------------
(* What is true of the store and of the case in progress.                  *)

\* what a record says, of case c
Told(c, record, d, fs) ==
    /\ record.official # NoRow => d.official[c] = record.official
    /\ record.done.report = "committed" => c \in d.reports
    /\ record.done.export = "exported" => <<"case", c>> \in fs

StoreIsTrue(d, fs) ==
    \A c \in CaseIds :
        /\ d.outcome[c] # NoRow => Told(c, d.outcome[c], d, fs)
        /\ ("CASE_FINISHED" \in d.phases[c]) <=>
              (d.outcome[c] # NoRow /\ d.outcome[c].revision = FINAL)

CaseIsTrue(k, c, d, fs) ==
    /\ k.persisted = "committed" => /\ c \in CaseIds /\ k.checkpoint \in Outcomes
                                    /\ d.official[c] = k.checkpoint
    /\ k.record # NoRow => c \in CaseIds /\ Told(c, k.record, d, fs)
    /\ k.done.report = "committed" => c \in d.reports
    /\ k.done.export = "exported" => <<"case", c>> \in fs

BenchInv ==
    /\ BenchTypeOK
    /\ StoreIsTrue(db, files)
    /\ CaseIsTrue(case, bench.index, db, files)

-----------------------------------------------------------------------------
(* The store and the files grow.                                           *)

\* Nothing that was told becomes false, and no record is touched.
Grows(d, e, fs, gs) ==
    /\ StoreLike(e)
    /\ \A c \in CaseIds :
        /\ d.official[c] # NoRow => e.official[c] = d.official[c]
        /\ e.outcome[c] = d.outcome[c]
        /\ ("CASE_FINISHED" \in e.phases[c]) = ("CASE_FINISHED" \in d.phases[c])
    /\ d.reports \subseteq e.reports
    /\ fs \subseteq gs

\* What was told stays told.
LEMMA ToldStays ==
    ASSUME NEW c \in CaseIds, NEW record, NEW d, NEW e, NEW fs, NEW gs,
           Grows(d, e, fs, gs), Told(c, record, d, fs)
    PROVE  Told(c, record, e, gs)
BY DEF Told, Grows

\* The store stays true.
LEMMA StoreStaysTrue ==
    ASSUME NEW d, NEW e, NEW fs, NEW gs, Grows(d, e, fs, gs), StoreIsTrue(d, fs)
    PROVE  StoreIsTrue(e, gs)
<1> SUFFICES ASSUME NEW c \in CaseIds
             PROVE  /\ e.outcome[c] # NoRow => Told(c, e.outcome[c], e, gs)
                    /\ ("CASE_FINISHED" \in e.phases[c]) <=>
                          (e.outcome[c] # NoRow /\ e.outcome[c].revision = FINAL)
  BY DEF StoreIsTrue
<1>1. /\ e.outcome[c] = d.outcome[c]
      /\ ("CASE_FINISHED" \in e.phases[c]) = ("CASE_FINISHED" \in d.phases[c])
  BY DEF Grows
<1>2. /\ d.outcome[c] # NoRow => Told(c, d.outcome[c], d, fs)
      /\ ("CASE_FINISHED" \in d.phases[c]) <=>
            (d.outcome[c] # NoRow /\ d.outcome[c].revision = FINAL)
  BY DEF StoreIsTrue
<1> QED BY <1>1, <1>2, ToldStays

\* The case k has become l and says nothing new.
Agrees(k, l) ==
    /\ l.persisted = "committed" => k.persisted = "committed" /\ l.checkpoint = k.checkpoint
    /\ l.record # NoRow => /\ k.record # NoRow
                           /\ l.record.official = k.record.official
                           /\ l.record.done = k.record.done
    /\ l.done.report = "committed" => k.done.report = "committed"
    /\ l.done.export = "exported" => k.done.export = "exported"

\* What the case in progress says stays true, while it says nothing new.
LEMMA CaseStaysTrue ==
    ASSUME NEW k, NEW l, NEW c, NEW d, NEW e, NEW fs, NEW gs,
           Grows(d, e, fs, gs), CaseIsTrue(k, c, d, fs), Agrees(k, l)
    PROVE  CaseIsTrue(l, c, e, gs)
<1>0. NoRow \notin Outcomes BY BenchmarkAssumption
<1>1. l.persisted = "committed" => /\ c \in CaseIds /\ l.checkpoint \in Outcomes
                                   /\ e.official[c] = l.checkpoint
  BY <1>0 DEF CaseIsTrue, Grows, Agrees
<1>2. l.record # NoRow => c \in CaseIds /\ Told(c, l.record, e, gs)
  BY DEF CaseIsTrue, Grows, Agrees, Told
<1>3. /\ l.done.report = "committed" => c \in e.reports
      /\ l.done.export = "exported" => <<"case", c>> \in gs
  BY DEF CaseIsTrue, Grows, Agrees
<1> QED BY <1>1, <1>2, <1>3 DEF CaseIsTrue

\* A store left as it is.
LEMMA SameGrows == ASSUME NEW d, NEW fs, NEW gs, StoreLike(d), fs \subseteq gs PROVE Grows(d, d, fs, gs)
BY DEF Grows

\* A phase of a case but its last (record_case_phase).
LEMMA PhaseGrows ==
    ASSUME NEW d, NEW fs, NEW c \in CaseIds, NEW phase \in Phases, StoreLike(d)
    PROVE  Grows(d, CommitPhase(d, c, phase), fs, fs)
BY DEF Grows, StoreLike, CommitPhase, Phases

\* An official outcome, of a case that has none or the same.
LEMMA OfficialGrows ==
    ASSUME NEW d, NEW fs, NEW c \in CaseIds, NEW outcome \in Outcomes, StoreLike(d),
           OfficialTaken(d, c, outcome)
    PROVE  Grows(d, CommitOfficial(d, c, outcome), fs, fs)
BY DEF Grows, StoreLike, CommitOfficial, OfficialTaken

\* What became of a case's report (record_report_status).
LEMMA StatusGrows ==
    ASSUME NEW d, NEW fs, NEW gs, NEW c \in CaseIds, NEW status \in {"exported", "failed"},
           StoreLike(d), fs \subseteq gs
    PROVE  Grows(d, [d EXCEPT !.status[c] = status], fs, gs)
<1>1. StoreLike([d EXCEPT !.status[c] = status])
  BY DEF StoreLike
<1> QED BY <1>1 DEF Grows, StoreLike

\* What a thread writes and exports, and what it leaves when it fails.
LEMMA JobGrows ==
    ASSUME NEW d, NEW fs, NEW job, StoreLike(d), JobLike(job)
    PROVE  /\ Grows(d, JobWrites(d, job), fs, fs \cup JobExports(job))
           /\ Grows(d, JobFailed(d, job), fs, fs)
<1>1. CASE job.kind \in {"start", "verdict"}
  <2>1. JobWrites(d, job) = [d EXCEPT !.suite = job.value] /\ JobFailed(d, job) = d
    BY <1>1 DEF JobWrites, JobFailed
  <2> QED BY <2>1 DEF Grows, StoreLike
<1>2. CASE job.kind \in {"case_report", "case_again"}
  <2>1. /\ JobWrites(d, job) = [d EXCEPT !.reports = @ \cup {job.value}]
        /\ JobFailed(d, job) = d /\ job.value \in CaseIds
    BY <1>2 DEF JobWrites, JobFailed, JobLike, CaseJobs
  <2> QED BY <2>1 DEF Grows, StoreLike
<1>3. CASE job.kind = "case_export"
  <2>1. /\ JobWrites(d, job) = [d EXCEPT !.status[job.value] = "exported"]
        /\ JobFailed(d, job) = [d EXCEPT !.status[job.value] = "failed"]
        /\ job.value \in CaseIds
    BY <1>3 DEF JobWrites, JobFailed, JobLike, CaseJobs
  <2>2. fs \subseteq fs \cup JobExports(job) /\ fs \subseteq fs
    OBVIOUS
  <2>3. Grows(d, [d EXCEPT !.status[job.value] = "exported"], fs, fs \cup JobExports(job))
    BY ONLY <2>1, <2>2, StoreLike(d), StatusGrows
  <2>4. Grows(d, [d EXCEPT !.status[job.value] = "failed"], fs, fs)
    BY ONLY <2>1, <2>2, StoreLike(d), StatusGrows
  <2> QED BY ONLY <2>1, <2>3, <2>4
<1>4. CASE job.kind = "run_report"
  <2>1. JobWrites(d, job) = [d EXCEPT !.run = job.value] /\ JobFailed(d, job) = d
    BY <1>4 DEF JobWrites, JobFailed
  <2> QED BY <2>1 DEF Grows, StoreLike
<1>5. CASE job.kind = "run_export"
  <2>1. JobWrites(d, job) = d /\ JobFailed(d, job) = d
    BY <1>5 DEF JobWrites, JobFailed
  <2> QED BY <2>1 DEF Grows
<1> QED BY <1>1, <1>2, <1>3, <1>4, <1>5 DEF JobLike, JobKinds, CaseJobs

\* The record of the case in progress, when the store takes it: what it tells
\* is true, and the log tells whether it is the last (commit_case_outcome).
LEMMA OutcomeIsTrue ==
    ASSUME NEW d, NEW fs, NEW c \in CaseIds, NEW k, StoreLike(d), StoreIsTrue(d, fs),
           k.record \in CaseRecords, CaseIsTrue(k, c, d, fs), OutcomeTaken(d, c, k.record)
    PROVE  /\ StoreLike(CommitOutcome(d, c, k.record))
           /\ StoreIsTrue(CommitOutcome(d, c, k.record), fs)
           /\ CaseIsTrue(k, c, CommitOutcome(d, c, k.record), fs)
<1> DEFINE e == CommitOutcome(d, c, k.record)
           log == IF k.record.revision = FINAL THEN d.phases[c] \cup {"CASE_FINISHED"}
                  ELSE d.phases[c]
<1>0. NoRow \notin CaseRecords BY BenchmarkAssumption
<1>1. /\ e.outcome = [d.outcome EXCEPT ![c] = k.record]
      /\ e.phases = [d.phases EXCEPT ![c] = log]
      /\ e.official = d.official /\ e.reports = d.reports
  BY DEF CommitOutcome, StoreLike
<1>2. StoreLike(e)
  BY DEF CommitOutcome, StoreLike
<1>3. CaseIsTrue(k, c, e, fs)
  BY <1>1 DEF CaseIsTrue, Told
<1>4. ASSUME NEW i \in CaseIds
      PROVE  /\ e.outcome[i] # NoRow => Told(i, e.outcome[i], e, fs)
             /\ ("CASE_FINISHED" \in e.phases[i]) <=>
                   (e.outcome[i] # NoRow /\ e.outcome[i].revision = FINAL)
  <2>0. /\ d.outcome[i] # NoRow => Told(i, d.outcome[i], d, fs)
        /\ ("CASE_FINISHED" \in d.phases[i]) <=>
              (d.outcome[i] # NoRow /\ d.outcome[i].revision = FINAL)
        /\ d.outcome[i] \in CaseRecords \cup {NoRow}
    BY DEF StoreIsTrue, StoreLike
  <2>1. CASE i # c
    <3>1. e.outcome[i] = d.outcome[i] /\ e.phases[i] = d.phases[i]
      BY <1>1, <2>1 DEF StoreLike
    <3> QED BY <1>1, <2>0, <3>1 DEF Told
  <2>2. CASE i = c
    <3>1. e.outcome[c] = k.record /\ e.phases[c] = log
      BY <1>1 DEF StoreLike
    <3>2. Told(c, k.record, e, fs)
      BY <1>0, <1>1 DEF CaseIsTrue, Told
    <3>3. k.record.revision # FINAL => "CASE_FINISHED" \notin d.phases[c]
      <4>1. d.outcome[c] # NoRow => d.outcome[c].revision \in {1, 2, 3}
        BY <2>0, <2>2 DEF CaseRecords, BODY, CLEANUP, FINAL
      <4>2. k.record.revision \in {1, 2, 3}
        BY DEF CaseRecords, BODY, CLEANUP, FINAL
      <4> QED BY <2>0, <2>2, <4>1, <4>2 DEF OutcomeTaken, BODY, FINAL
    <3> QED BY <1>0, <2>2, <3>1, <3>2, <3>3
  <2> QED BY <2>1, <2>2
<1> QED BY <1>2, <1>3, <1>4 DEF StoreIsTrue
-----------------------------------------------------------------------------
(* The moves of the runner.                                                *)

\* The runner goes to a place of a case, whose record it has if it needs one.
LEMMA GoPlaced ==
    ASSUME BenchInv, NEW place \in Spots \ {"waiting"}, Go(place),
           place \in InCase => bench.index \in CaseIds,
           place \in Recorded => case'.record \in CaseRecords
    PROVE  BenchLike(bench') /\ Placed(bench', case') /\ bench'.index = bench.index
<1>1. BenchLike(bench)
  BY DEF BenchInv, BenchTypeOK
<1>2. /\ BenchLike(bench') /\ bench'.at = place /\ bench'.index = bench.index
  BY ONLY <1>1, place \in Spots \ {"waiting"}, Go(place) DEF Go, BenchLike
<1> QED BY <1>2 DEF Placed

\* The runner waits for a job, of its case or of the run.
LEMMA AwaitPlaced ==
    ASSUME BenchInv, NEW kind \in JobKinds, NEW value, Await(kind, value),
           kind \in CaseJobs => /\ value = bench.index /\ bench.index \in CaseIds
                                /\ case'.record \in CaseRecords
    PROVE  BenchLike(bench') /\ Placed(bench', case') /\ bench'.index = bench.index
<1>1. BenchLike(bench)
  BY DEF BenchInv, BenchTypeOK
<1>2. /\ BenchLike(bench') /\ bench'.at = "waiting" /\ bench'.index = bench.index
      /\ bench'.job.kind = kind /\ bench'.job.value = value
  BY ONLY <1>1, Await(kind, value) DEF Await, BenchLike, Spots
<1>3. "waiting" \notin InCase /\ "waiting" \notin Recorded
  BY DEF InCase, Recorded
<1> QED BY <1>2, <1>3 DEF Placed, JobLike

\* A step that says nothing new of its case keeps the invariant.
LEMMA StepKeeps ==
    ASSUME BenchInv, Grows(db, db', files, files'), CaseLike(case'), Agrees(case, case'),
           BenchLike(bench'), Placed(bench', case'), bench'.index = bench.index,
           \A job \in late' : JobLike(job), strays' \subseteq CaseIds,
           task' \in {"none", "running", "over", "detached"},
           task' # "none" => bench.index \in CaseIds
    PROVE  BenchInv'
<1>1. BenchTypeOK'
  BY DEF BenchTypeOK, Grows
<1>2. StoreIsTrue(db', files')
  BY StoreStaysTrue DEF BenchInv
<1>3. CaseIsTrue(case', bench'.index, db', files')
  BY CaseStaysTrue DEF BenchInv
<1> QED BY <1>1, <1>2, <1>3 DEF BenchInv

\* The runner in a case: what the invariant gives its steps.
LEMMA InCaseHas ==
    ASSUME BenchInv
    PROVE  /\ bench.at \in InCase => bench.index \in CaseIds
           /\ bench.at \in Recorded => bench.index \in CaseIds /\ case.record \in CaseRecords
           /\ StoreLike(db) /\ CaseLike(case) /\ BenchLike(bench)
           /\ strays \subseteq CaseIds /\ task \in {"none", "running", "over", "detached"}
           /\ task # "none" => bench.index \in CaseIds
           /\ \A job \in late : JobLike(job)
           /\ Grows(db, db, files, files)
BY SameGrows DEF BenchInv, BenchTypeOK, Placed, InCase

\* The case is left as it is.
LEMMA AgreesSame == ASSUME NEW k PROVE Agrees(k, k)
BY DEF Agrees

\* A phase is recorded, or the runner remembers that it was not.
LEMMA PhaseRecorded ==
    ASSUME BenchInv, NEW phase \in Phases, NEW locals, Phase(phase, locals),
           bench.index \in CaseIds, files' = files, CaseLike(locals)
    PROVE  /\ Grows(db, db', files, files')
           /\ CaseLike(case') /\ case'.record = locals.record
           /\ case'.persisted = locals.persisted /\ case'.checkpoint = locals.checkpoint
           /\ case'.done = locals.done
<1>1. StoreLike(db)
  BY DEF BenchInv, BenchTypeOK
<1>2. Grows(db, db', files, files')
  BY <1>1, PhaseGrows, SameGrows DEF Phase
<1>3. case' = locals \/ case' = [locals EXCEPT !.trouble = TRUE]
  BY DEF Phase
<1>4. /\ CaseLike(case') /\ case'.record = locals.record
      /\ case'.persisted = locals.persisted /\ case'.checkpoint = locals.checkpoint
      /\ case'.done = locals.done
  BY ONLY <1>3, CaseLike(locals) DEF CaseLike
<1> QED BY <1>2, <1>4

\* A phase of a case beside which nothing is said of it.
LEMMA PhaseKeeps ==
    ASSUME BenchInv, NEW phase \in Phases, NEW locals, Phase(phase, locals),
           bench.at \in InCase, NEW place \in InCase, Go(place),
           place \in Recorded => bench.at \in Recorded,
           UNCHANGED <<files, late, task, strays>>,
           CaseLike(locals), locals.record = case.record, locals.done = case.done,
           locals.persisted = case.persisted, locals.checkpoint = case.checkpoint
    PROVE  BenchInv'
<1>1. /\ bench.index \in CaseIds
      /\ bench.at \in Recorded => case.record \in CaseRecords
  BY InCaseHas
<1>2. /\ Grows(db, db', files, files')
      /\ CaseLike(case') /\ case'.record = case.record
      /\ case'.persisted = case.persisted /\ case'.checkpoint = case.checkpoint
      /\ case'.done = case.done
  BY <1>1, PhaseRecorded
<1>3. BenchLike(bench') /\ Placed(bench', case') /\ bench'.index = bench.index
  <2>1. place \in Spots \ {"waiting"}
    BY DEF Spots, InCase, Recorded
  <2> QED BY <1>1, <1>2, <2>1, GoPlaced
<1>4. Agrees(case, case')
  BY <1>2 DEF Agrees
<1> QED BY <1>1, <1>2, <1>3, <1>4, InCaseHas, StepKeeps
-----------------------------------------------------------------------------
(* The launcher, and the loop over the cases.                              *)

\* The launch of the process.
LEMMA LaunchKeeps == ASSUME BenchInv, Launch PROVE BenchInv'
<1>1. BenchLike(bench') /\ Placed(bench', case') /\ bench'.index = bench.index
  <2>1. Await("start", Undecided)
    <3>1. bench \in [at : Spots, index : 0 .. MaxCases, job : {bench.job}]
      BY DEF BenchInv, BenchTypeOK, BenchLike
    <3> QED BY ONLY <3>1, Launch DEF Launch, Await
  <2>2. "start" \in JobKinds /\ "start" \notin CaseJobs
    BY DEF JobKinds, CaseJobs
  <2> QED BY <2>1, <2>2, AwaitPlaced
<1>2. UNCHANGED <<db, files, late, case, task, strays>>
  BY DEF Launch
<1> QED BY <1>1, <1>2, InCaseHas, AgreesSame, StepKeeps

\* The end of the process leaves the store as true as it was.
LEMMA DieKeeps == ASSUME BenchInv, Die, UNCHANGED <<db, files>> PROVE BenchInv'
<1>1. /\ late' = {} /\ strays' = {} /\ task' = "none" /\ case' = FreshCase
      /\ bench' = [at |-> "dead", index |-> 0, job |-> NoRow]
  BY DEF Die
<1>2. MaxCases \in Nat \ {0}
  BY BenchmarkAssumption
<1>3. CaseLike(FreshCase)
  BY DEF CaseLike, FreshCase, Unprojected, Dones
<1>4. BenchLike(bench') /\ Placed(bench', case')
  BY <1>1, <1>2 DEF BenchLike, Placed, Spots, InCase, Recorded
<1>5. BenchTypeOK'
  BY <1>1, <1>3, <1>4 DEF BenchInv, BenchTypeOK
<1>6. CaseIsTrue(case', bench'.index, db', files')
  BY <1>1 DEF CaseIsTrue, FreshCase, Unprojected
<1> QED BY <1>5, <1>6 DEF BenchInv

\* A case that begins has nothing to tell.
LEMMA NextCaseKeeps == ASSUME BenchInv, NextCase PROVE BenchInv'
<1>1. /\ bench' = [bench EXCEPT !.at = "started", !.index = @ + 1]
      /\ bench.index < MaxCases /\ task' = "none" /\ case' = FreshCase
      /\ strays' = IF task = "detached" THEN strays \cup {bench.index} ELSE strays
      /\ UNCHANGED <<db, files, late>>
  BY DEF NextCase
<1>2. MaxCases \in Nat \ {0}
  BY BenchmarkAssumption
<1>3. CaseLike(FreshCase)
  BY DEF CaseLike, FreshCase, Unprojected, Dones
<1>4. /\ BenchLike(bench') /\ bench'.at = "started" /\ bench'.index \in CaseIds
  <2>1. bench \in [at : Spots, index : 0 .. MaxCases, job : {bench.job}]
    BY DEF BenchInv, BenchTypeOK, BenchLike
  <2>2. "started" \in Spots
    BY DEF Spots, InCase
  <2>3. /\ bench'.at = "started" /\ bench'.index = bench.index + 1
        /\ bench' = [at |-> "started", index |-> bench.index + 1, job |-> bench.job]
    BY ONLY <1>1, <2>1
  <2>4. bench.index + 1 \in 1 .. MaxCases /\ bench.index + 1 \in 0 .. MaxCases
    BY ONLY <1>1, <1>2, <2>1
  <2> QED BY ONLY <2>2, <2>3, <2>4 DEF BenchLike, CaseIds
<1>5. Placed(bench', case')
  BY <1>4 DEF Placed, Recorded
<1>6. BenchTypeOK'
  BY <1>1, <1>3, <1>4, <1>5 DEF BenchInv, BenchTypeOK
<1>7. CaseIsTrue(case', bench'.index, db', files')
  BY <1>1 DEF CaseIsTrue, FreshCase, Unprojected
<1> QED BY <1>1, <1>6, <1>7 DEF BenchInv

\* The last case is followed by the report on the run.
LEMMA RunReportKeeps == ASSUME BenchInv, CasesEnd \/ Interrupted PROVE BenchInv'
<1>1. /\ Await("run_report", bench.index)
      /\ UNCHANGED <<db, files, late, case, task, strays>>
  BY DEF CasesEnd, Interrupted
<1>2. "run_report" \in JobKinds /\ "run_report" \notin CaseJobs
  BY DEF JobKinds, CaseJobs
<1>3. BenchLike(bench') /\ Placed(bench', case') /\ bench'.index = bench.index
  BY <1>1, <1>2, AwaitPlaced
<1> QED BY <1>1, <1>3, InCaseHas, AgreesSame, StepKeeps

-----------------------------------------------------------------------------
(* The case, to the end of its episode.                                    *)

\* The start of the case.
LEMMA CaseStartedKeeps == ASSUME BenchInv, CaseStarted PROVE BenchInv'
<1>1. /\ bench.at \in InCase /\ "building" \in InCase /\ "building" \notin Recorded
      /\ "CASE_STARTED" \in Phases
      /\ Go("building") /\ Phase("CASE_STARTED", case) /\ UNCHANGED <<files, late, task, strays>>
  BY DEF CaseStarted, At, InCase, Recorded, Phases
<1>2. CaseLike(case)
  BY DEF BenchInv, BenchTypeOK
<1> QED BY <1>1, <1>2, PhaseKeeps

\* The environment is there.
LEMMA EnvironmentBuiltKeeps == ASSUME BenchInv, EnvironmentBuilt PROVE BenchInv'
<1> DEFINE k == [case EXCEPT !.acquired = TRUE]
<1>1. /\ bench.at \in InCase /\ "composing" \in InCase /\ "composing" \notin Recorded
      /\ "ENVIRONMENT_READY" \in Phases
      /\ Go("composing") /\ Phase("ENVIRONMENT_READY", k) /\ UNCHANGED <<files, late, task, strays>>
  BY DEF EnvironmentBuilt, At, InCase, Recorded, Phases
<1>2. CaseLike(case)
  BY DEF BenchInv, BenchTypeOK
<1>3. /\ CaseLike(k) /\ k.record = case.record /\ k.done = case.done
      /\ k.persisted = case.persisted /\ k.checkpoint = case.checkpoint
  BY ONLY <1>2 DEF CaseLike
<1> HIDE DEF k
<1> QED BY <1>1, <1>3, PhaseKeeps

\* The steps of the episode and of its watchdog, and a stage that fails.
LEMMA EpisodeKeeps ==
    ASSUME BenchInv, EpisodeStarts \/ StageFails \/ EpisodeReturns \/ Watchdog \/ GraceEnds
    PROVE  BenchInv'
<1>1. PICK place \in {"body", "returned", "cancelling"} : Go(place)
  BY DEF EpisodeStarts, StageFails, EpisodeReturns, Watchdog, GraceEnds
<1>2. /\ bench.at \in InCase /\ bench.index \in CaseIds
      /\ UNCHANGED <<db, files, late, strays>>
      /\ task' \in {"none", "running", "over", "detached"}
  BY InCaseHas
     DEF EpisodeStarts, StageFails, EpisodeReturns, Watchdog, GraceEnds, At, InCase
<1>3. CaseLike(case') /\ Agrees(case, case')
  <2>1. CaseLike(case)
    BY DEF BenchInv, BenchTypeOK
  <2>2. case' = case \/ \E why \in {"timeout", "interrupted"} : case' = [case EXCEPT !.failure = why]
    BY DEF EpisodeStarts, StageFails, EpisodeReturns, Watchdog, GraceEnds
  <2> QED BY ONLY <2>1, <2>2 DEF CaseLike, Agrees
<1>4. BenchLike(bench') /\ Placed(bench', case') /\ bench'.index = bench.index
  <2>1. place \in Spots \ {"waiting"} /\ place \notin Recorded
    BY DEF Spots, InCase, Recorded
  <2> QED BY <1>1, <1>2, <2>1, GoPlaced
<1> QED BY <1>2, <1>3, <1>4, InCaseHas, StepKeeps

\* The verdict of the evaluator, stored or not.
LEMMA EvaluatesKeeps == ASSUME BenchInv, Evaluates PROVE BenchInv'
<1>1. PICK outcome \in Outcomes :
        \/ /\ OfficialTaken(db, bench.index, outcome)
           /\ db' = CommitOfficial(db, bench.index, outcome)
           /\ case' = [case EXCEPT !.checkpoint = outcome, !.persisted = "committed"]
        \/ /\ db' = db
           /\ case' = [case EXCEPT !.checkpoint = outcome, !.persisted = "failed"]
  BY DEF Evaluates
<1>2. /\ bench.index \in CaseIds
      /\ UNCHANGED <<files, late, bench, task, strays>>
  BY InCaseHas DEF Evaluates
<1>3. StoreLike(db) /\ CaseLike(case)
  BY InCaseHas
<1>4. Grows(db, db', files, files')
  BY <1>1, <1>2, <1>3, OfficialGrows, SameGrows
<1>5. /\ CaseLike(case') /\ case'.record = case.record /\ case'.done = case.done
      /\ \/ /\ case'.persisted = "committed" /\ case'.checkpoint = outcome
            /\ db' = CommitOfficial(db, bench.index, outcome)
         \/ case'.persisted = "failed"
  BY ONLY <1>1, <1>3 DEF CaseLike
<1>6. StoreIsTrue(db', files')
  BY <1>4, StoreStaysTrue DEF BenchInv
<1>7. CaseIsTrue(case', bench.index, db', files')
  <2>1. CaseIsTrue(case, bench.index, db, files)
    BY DEF BenchInv
  <2>2. case'.persisted = "committed" => db'.official[bench.index] = case'.checkpoint
    BY <1>2, <1>3, <1>5 DEF CommitOfficial, StoreLike
  <2>3. case'.record # NoRow => Told(bench.index, case'.record, db', files')
    BY <1>2, <1>4, <1>5, <2>1, ToldStays DEF CaseIsTrue
  <2>4. /\ case'.done.report = "committed" => bench.index \in db'.reports
        /\ case'.done.export = "exported" => <<"case", bench.index>> \in files'
    BY ONLY <1>4, <1>5, <2>1 DEF CaseIsTrue, Grows
  <2>5. case'.persisted = "committed" => case'.checkpoint \in Outcomes
    BY <1>5
  <2> QED BY ONLY <1>2, <2>2, <2>3, <2>4, <2>5 DEF CaseIsTrue
<1>8. BenchTypeOK'
  BY <1>2, <1>4, <1>5 DEF BenchInv, BenchTypeOK, Placed, Grows
<1> QED BY <1>2, <1>6, <1>7, <1>8 DEF BenchInv

\* The verdict of an earlier case's evaluator.
LEMMA StrayEvaluatesKeeps == ASSUME BenchInv, StrayEvaluates PROVE BenchInv'
<1>1. PICK c \in strays, outcome \in Outcomes :
        /\ strays' = strays \ {c}
        /\ db' = IF OfficialTaken(db, c, outcome) THEN CommitOfficial(db, c, outcome) ELSE db
  BY DEF StrayEvaluates
<1>2. UNCHANGED <<files, late, bench, case, task>>
  BY DEF StrayEvaluates
<1>3. c \in CaseIds
  BY <1>1, InCaseHas
<1>4. Grows(db, db', files, files')
  BY <1>1, <1>2, <1>3, InCaseHas, OfficialGrows
<1>5. Placed(bench', case') /\ BenchLike(bench')
  BY <1>2 DEF BenchInv, BenchTypeOK
<1> QED BY <1>1, <1>2, <1>4, <1>5, InCaseHas, AgreesSame, StepKeeps
-----------------------------------------------------------------------------
(* The end of the case.                                                    *)

\* The record of the case: the outcome it joins is the one that is stored.
LEMMA BodyReturnsKeeps == ASSUME BenchInv, BodyReturns PROVE BenchInv'
<1> DEFINE r == [revision |-> BODY, official |-> StoredOutcome(case),
                 cleanup |-> "not_attempted", done |-> Unprojected]
           k == [case EXCEPT !.record = r]
<1>1. /\ bench.index \in CaseIds /\ CaseLike(case) /\ files' = files
      /\ "CASE_BODY_RETURNED" \in Phases
      /\ Go("body_record") /\ Phase("CASE_BODY_RETURNED", k)
      /\ UNCHANGED <<late, task, strays>>
  BY InCaseHas DEF BodyReturns, At, InCase, Phases
<1>2. /\ r \in CaseRecords /\ r.official = StoredOutcome(case)
      /\ r.done = Unprojected
  BY ONLY <1>1 DEF CaseLike, CaseRecords, BODY, StoredOutcome, Unprojected
<1> HIDE DEF r
<1>3. /\ CaseLike(k) /\ k.record = r /\ k.done = case.done
      /\ k.persisted = case.persisted /\ k.checkpoint = case.checkpoint
  BY ONLY <1>1, <1>2 DEF CaseLike
<1> HIDE DEF k
<1>4. /\ Grows(db, db', files, files')
      /\ CaseLike(case') /\ case'.record = r
      /\ case'.persisted = case.persisted /\ case'.checkpoint = case.checkpoint
      /\ case'.done = case.done
  BY <1>1, <1>3, PhaseRecorded
<1>5. BenchLike(bench') /\ Placed(bench', case') /\ bench'.index = bench.index
  <2>1. "body_record" \in Spots \ {"waiting"}
    BY DEF Spots, InCase, Recorded
  <2> QED BY <1>1, <1>2, <1>4, <2>1, GoPlaced
<1>6. BenchTypeOK'
  BY <1>1, <1>4, <1>5 DEF BenchInv, BenchTypeOK, Grows
<1>7. StoreIsTrue(db', files')
  BY <1>4, StoreStaysTrue DEF BenchInv
<1>8. CaseIsTrue(case', bench.index, db', files')
  <2>1. CaseIsTrue(case, bench.index, db, files) /\ NoRow \notin Outcomes
    BY BenchmarkAssumption DEF BenchInv
  <2>2. /\ case.persisted = "committed" => /\ case.checkpoint \in Outcomes
                                           /\ db'.official[bench.index] = case.checkpoint
        /\ case.done.report = "committed" => bench.index \in db'.reports
        /\ case.done.export = "exported" => <<"case", bench.index>> \in files'
    BY ONLY <1>1, <1>4, <2>1 DEF CaseIsTrue, Grows
  <2>3. Told(bench.index, r, db', files')
    BY ONLY <1>2, <2>2 DEF Told, StoredOutcome, Unprojected
  <2> QED BY ONLY <1>1, <1>4, <2>2, <2>3 DEF CaseIsTrue
<1> QED BY <1>5, <1>6, <1>7, <1>8 DEF BenchInv

\* A commit of the record, taken or not.
LEMMA RecordKeeps ==
    ASSUME BenchInv, NEW place \in Spots \ {"waiting"}, NEW other \in Spots \ {"waiting"},
           bench.at \in Recorded, RecordCommitted(place) \/ RecordRefused(other),
           UNCHANGED <<files, late, strays>>,
           task' \in {"none", "running", "over", "detached"}
    PROVE  BenchInv'
<1>1. /\ bench.index \in CaseIds /\ case.record \in CaseRecords
      /\ StoreLike(db) /\ CaseLike(case)
  BY InCaseHas
<1>2. CASE RecordCommitted(place)
  <2>1. /\ OutcomeTaken(db, bench.index, case.record)
        /\ db' = CommitOutcome(db, bench.index, case.record) /\ case' = case
        /\ Go(place)
    BY <1>2 DEF RecordCommitted
  <2>2. BenchLike(bench') /\ Placed(bench', case') /\ bench'.index = bench.index
    BY <1>1, <2>1, GoPlaced
  <2>3. StoreLike(db') /\ StoreIsTrue(db', files') /\ CaseIsTrue(case', bench.index, db', files')
    BY <1>1, <2>1, OutcomeIsTrue DEF BenchInv
  <2>4. BenchTypeOK'
    BY <1>1, <2>1, <2>2, <2>3 DEF BenchInv, BenchTypeOK
  <2> QED BY <2>2, <2>3, <2>4 DEF BenchInv
<1>3. CASE RecordRefused(other)
  <2>1. db' = db /\ case' = [case EXCEPT !.trouble = TRUE] /\ Go(other)
    BY <1>3 DEF RecordRefused
  <2>2. CaseLike(case') /\ Agrees(case, case') /\ case'.record = case.record
    BY ONLY <1>1, <2>1 DEF CaseLike, Agrees
  <2>3. BenchLike(bench') /\ Placed(bench', case') /\ bench'.index = bench.index
    BY <1>1, <2>1, <2>2, GoPlaced
  <2> QED BY <1>1, <2>1, <2>2, <2>3, InCaseHas, StepKeeps
<1> QED BY <1>2, <1>3

\* The commits of BODY, of CLEANUP and of FINAL.
LEMMA CommitsKeep == ASSUME BenchInv, CommitBody \/ CommitCleanup \/ Finish PROVE BenchInv'
<1>1. /\ bench.at \in Recorded /\ UNCHANGED <<files, late, strays>>
      /\ task' \in {"none", "running", "over", "detached"}
  BY InCaseHas DEF CommitBody, CommitCleanup, Finish, At, Recorded
<1>2. {"body_persisted", "cleaning", "cleaned", "projecting", "suite", "next"}
        \subseteq Spots \ {"waiting"}
  BY DEF Spots, InCase, Recorded
<1>3. CASE CommitBody
  BY <1>1, <1>2, <1>3, RecordKeeps DEF CommitBody
<1>4. CASE CommitCleanup
  BY <1>1, <1>2, <1>4, RecordKeeps DEF CommitCleanup
<1>5. CASE Finish
  <2>1. PICK place \in {"suite", "next"} : RecordCommitted(place) \/ RecordRefused(place)
    BY <1>5 DEF Finish
  <2> QED BY <1>1, <1>2, <2>1, RecordKeeps
<1> QED BY <1>3, <1>4, <1>5

\* The phases around the environment's cleanup.
LEMMA BodyPersistedKeeps == ASSUME BenchInv, BodyPersisted PROVE BenchInv'
<1>1. /\ bench.at \in InCase /\ bench.at \in Recorded /\ "cleaning" \in InCase
      /\ "RESULT_PERSISTED" \in Phases
      /\ Go("cleaning") /\ Phase("RESULT_PERSISTED", case) /\ UNCHANGED <<files, late, task, strays>>
  BY DEF BodyPersisted, At, InCase, Recorded, Phases
<1> QED BY <1>1, InCaseHas, PhaseKeeps

\* The cleanup begins when there is an environment to close.
LEMMA CleanupStartsKeeps == ASSUME BenchInv, CleanupStarts PROVE BenchInv'
<1> DEFINE k == [case EXCEPT !.cleanup = IF case.acquired THEN "running" ELSE @]
<1>1. PICK place \in {"closing", "closed"} : Go(place)
  BY DEF CleanupStarts
<1>2. /\ bench.at \in InCase /\ bench.at \in Recorded /\ place \in InCase
      /\ "CLEANUP_STARTED" \in Phases
      /\ Phase("CLEANUP_STARTED", k) /\ UNCHANGED <<files, late, task, strays>>
  BY <1>1 DEF CleanupStarts, At, InCase, Recorded, Phases
<1>3. CaseLike(case)
  BY InCaseHas
<1>4. /\ CaseLike(k) /\ k.record = case.record /\ k.done = case.done
      /\ k.persisted = case.persisted /\ k.checkpoint = case.checkpoint
  BY ONLY <1>3 DEF CaseLike
<1> HIDE DEF k
<1> QED BY <1>1, <1>2, <1>4, PhaseKeeps

\* The cleanup answers, or its deadline does.
LEMMA EnvironmentCloseKeeps == ASSUME BenchInv, CloseAnswers \/ CloseTimesOut PROVE BenchInv'
<1>1. /\ bench.at \in Recorded /\ Go("closed") /\ UNCHANGED <<db, files, late, task, strays>>
      /\ \E how \in {"answered", "timeout"} : case' = [case EXCEPT !.cleanup = how]
  BY DEF CloseAnswers, CloseTimesOut, CleanupDeadline, At, Recorded
<1>2. CaseLike(case)
  BY InCaseHas
<1>3. CaseLike(case') /\ Agrees(case, case') /\ case'.record = case.record
  BY ONLY <1>1, <1>2 DEF CaseLike, Agrees
<1>4. BenchLike(bench') /\ Placed(bench', case') /\ bench'.index = bench.index
  <2>1. "closed" \in Spots \ {"waiting"}
    BY DEF Spots, InCase, Recorded
  <2> QED BY <1>1, <1>3, <2>1, InCaseHas, GoPlaced
<1> QED BY <1>1, <1>3, <1>4, InCaseHas, StepKeeps

\* The record that tells of the cleanup joins the same outcome.
LEMMA CleanupFinishesKeeps == ASSUME BenchInv, CleanupFinishes PROVE BenchInv'
<1> DEFINE k == [case EXCEPT !.record.revision = CLEANUP,
                             !.record.cleanup = Disposition(case)]
<1>1. /\ bench.at \in Recorded
      /\ "CLEANUP_FINISHED" \in Phases
      /\ Go("cleanup_record") /\ Phase("CLEANUP_FINISHED", k)
      /\ UNCHANGED <<files, late, task, strays>>
  BY DEF CleanupFinishes, At, Recorded, Phases
<1>2. /\ CaseLike(case) /\ bench.index \in CaseIds /\ case.record \in CaseRecords
  BY <1>1, InCaseHas
<1>3. Disposition(case) \in {"not_acquired", "not_run", "running", "answered", "timeout"}
  BY ONLY <1>2 DEF CaseLike, Disposition
<1> HIDE DEF Disposition
<1> DEFINE r == [case.record EXCEPT !.revision = CLEANUP, !.cleanup = Disposition(case)]
<1>4. /\ r \in CaseRecords /\ r.official = case.record.official /\ r.done = case.record.done
  BY ONLY <1>2, <1>3 DEF CaseRecords, CLEANUP
<1>5. k = [case EXCEPT !.record = r]
  BY ONLY <1>2 DEF CaseLike
<1> HIDE DEF r, k
<1>6. /\ CaseLike(k) /\ k.record = r /\ k.done = case.done
      /\ k.persisted = case.persisted /\ k.checkpoint = case.checkpoint
  BY ONLY <1>2, <1>4, <1>5 DEF CaseLike
<1>7. /\ Grows(db, db', files, files')
      /\ CaseLike(case') /\ case'.record = r
      /\ case'.persisted = case.persisted /\ case'.checkpoint = case.checkpoint
      /\ case'.done = case.done
  BY <1>1, <1>2, <1>6, PhaseRecorded
<1>8. Agrees(case, case')
  BY ONLY <1>2, <1>4, <1>7, BenchmarkAssumption DEF Agrees
<1>9. BenchLike(bench') /\ Placed(bench', case') /\ bench'.index = bench.index
  <2>1. "cleanup_record" \in Spots \ {"waiting"}
    BY DEF Spots, InCase, Recorded
  <2> QED BY <1>1, <1>2, <1>4, <1>7, <2>1, GoPlaced
<1> QED BY <1>1, <1>7, <1>8, <1>9, InCaseHas, StepKeeps
\* What is recorded of the cleanup, and the attempt that is final.
LEMMA RecordCleanupKeeps == ASSUME BenchInv, RecordCleanup PROVE BenchInv'
<1>1. /\ bench.at \in Recorded /\ Go("projecting") /\ UNCHANGED <<files, late, task, strays>>
      /\ \/ db' = [db EXCEPT !.cleaned[bench.index] = case.cleanup] /\ case' = case
         \/ db' = db /\ case' = [case EXCEPT !.trouble = TRUE]
  BY DEF RecordCleanup, At, Recorded
<1>2. /\ CaseLike(case) /\ StoreLike(db) /\ bench.index \in CaseIds /\ case.record \in CaseRecords
  BY <1>1, InCaseHas
<1>3. CaseLike(case') /\ Agrees(case, case') /\ case'.record = case.record
  BY ONLY <1>1, <1>2 DEF CaseLike, Agrees
<1>4. Grows(db, db', files, files')
  <2>1. CASE db' = db
    BY <1>1, <2>1, InCaseHas
  <2>2. CASE db' = [db EXCEPT !.cleaned[bench.index] = case.cleanup]
    <3>1. case.cleanup \in {"not_run", "running", "answered", "timeout"}
      BY ONLY <1>2 DEF CaseLike
    <3>2. StoreLike(db')
      BY ONLY <1>2, <2>2, <3>1 DEF StoreLike
    <3> QED BY ONLY <1>1, <1>2, <2>2, <3>2 DEF Grows, StoreLike
  <2> QED BY <1>1, <2>1, <2>2
<1>5. BenchLike(bench') /\ Placed(bench', case') /\ bench'.index = bench.index
  <2>1. "projecting" \in Spots \ {"waiting"}
    BY DEF Spots, InCase, Recorded
  <2> QED BY <1>1, <1>2, <1>3, <2>1, GoPlaced
<1> QED BY <1>1, <1>3, <1>4, <1>5, InCaseHas, StepKeeps

\* The phase before the projection of the result.
LEMMA FinalAttemptKeeps == ASSUME BenchInv, FinalAttempt PROVE BenchInv'
<1>1. /\ bench.at \in InCase /\ bench.at \in Recorded /\ "projected" \in InCase
      /\ "FINAL_ATTEMPT" \in Phases
      /\ Go("projected") /\ Phase("FINAL_ATTEMPT", case) /\ UNCHANGED <<files, late, task, strays>>
  BY DEF FinalAttempt, At, InCase, Recorded, Phases
<1> QED BY <1>1, InCaseHas, PhaseKeeps

\* The projection, whose result says whether it could be made.
LEMMA ProjectsKeeps == ASSUME BenchInv, Projects PROVE BenchInv'
<1>1. /\ bench.at \in Recorded /\ Await("case_report", bench.index)
      /\ UNCHANGED <<db, files, late, task, strays>>
      /\ \E how \in {"projected", "failed"} : case' = [case EXCEPT !.done.projection = how]
  BY DEF Projects, At, Recorded
<1>2. CaseLike(case) /\ bench.index \in CaseIds /\ case.record \in CaseRecords
  BY <1>1, InCaseHas
<1>3. CaseLike(case') /\ Agrees(case, case') /\ case'.record = case.record
  <2>1. PICK how \in {"projected", "failed"} : case' = [case EXCEPT !.done.projection = how]
    BY <1>1
  <2> DEFINE done == [case.done EXCEPT !.projection = how]
  <2>2. done \in Dones /\ done.report = case.done.report /\ done.export = case.done.export
    BY ONLY <1>2 DEF CaseLike, Dones
  <2>3. case' = [case EXCEPT !.done = done]
    BY ONLY <1>2, <2>1 DEF CaseLike
  <2> HIDE DEF done
  <2> QED BY ONLY <1>2, <2>2, <2>3 DEF CaseLike, Agrees
<1>4. BenchLike(bench') /\ Placed(bench', case') /\ bench'.index = bench.index
  <2>1. "case_report" \in JobKinds
    BY DEF JobKinds, CaseJobs
  <2> QED BY <1>1, <1>2, <1>3, <2>1, AwaitPlaced
<1> QED BY <1>1, <1>3, <1>4, InCaseHas, StepKeeps

-----------------------------------------------------------------------------
(* Jobs.                                                                   *)

\* What a job's end leaves of the case, and where the runner goes on.
LEMMA JobEndsWell ==
    ASSUME BenchInv, bench.at = "waiting", NEW outcome \in BOOLEAN, JobEnds(outcome)
    PROVE  /\ BenchLike(bench') /\ Placed(bench', case') /\ bench'.index = bench.index
           /\ CaseLike(case')
           /\ case'.record = case.record
           /\ case'.persisted = case.persisted /\ case'.checkpoint = case.checkpoint
           /\ case'.done.report = "committed" =>
                 \/ case.done.report = "committed"
                 \/ bench.job.kind = "case_report" /\ outcome /\ bench.job.value = bench.index
           /\ case'.done.export = "exported" =>
                 \/ case.done.export = "exported"
                 \/ bench.job.kind = "case_export" /\ outcome /\ bench.job.value = bench.index
<1> DEFINE job == bench.job
<1>1. /\ case' = Settle(job, outcome) /\ GoOn(job, outcome)
  BY DEF JobEnds
<1>2. /\ CaseLike(case) /\ BenchLike(bench) /\ JobLike(job)
      /\ job.kind \in CaseJobs => /\ job.value = bench.index /\ bench.index \in CaseIds
                                  /\ case.record \in CaseRecords
  BY InCaseHas DEF BenchInv, BenchTypeOK, Placed, JobLike
<1> DEFINE done == IF job.kind = "case_report"
                   THEN [case.done EXCEPT !.report = IF outcome THEN "committed" ELSE "failed"]
                   ELSE IF job.kind = "case_export"
                   THEN [case.done EXCEPT !.export = IF outcome THEN "exported" ELSE "failed"]
                   ELSE case.done
<1>3. case' = [case EXCEPT !.done = done]
  <2>1. CASE job.kind = "case_report"
    BY ONLY <1>1, <1>2, <2>1 DEF Settle, CaseLike
  <2>2. CASE job.kind = "case_export"
    BY ONLY <1>1, <1>2, <2>2 DEF Settle, CaseLike
  <2>3. CASE job.kind \notin {"case_report", "case_export"}
    BY ONLY <1>1, <1>2, <2>3 DEF Settle, CaseLike
  <2> QED BY <2>1, <2>2, <2>3
<1>4. /\ done \in Dones
      /\ done.report = "committed" =>
            case.done.report = "committed" \/ (job.kind = "case_report" /\ outcome)
      /\ done.export = "exported" =>
            case.done.export = "exported" \/ (job.kind = "case_export" /\ outcome)
  BY ONLY <1>2, outcome \in BOOLEAN DEF CaseLike, Dones
<1> HIDE DEF done
<1>5. /\ CaseLike(case') /\ case'.record = case.record /\ case'.done = done
      /\ case'.persisted = case.persisted /\ case'.checkpoint = case.checkpoint
  BY ONLY <1>2, <1>3, <1>4 DEF CaseLike
<1>6. \/ Go("next") \/ Go("done")
      \/ job.kind \in CaseJobs /\ (Go("report_failed") \/ Go("presenting"))
      \/ job.kind \in CaseJobs /\ Await("case_export", job.value)
      \/ Await("run_export", 0)
      \/ \E value : Await("verdict", value)
  <2>1. CASE job.kind = "start"
    BY ONLY <1>1, <2>1 DEF GoOn
  <2>2. CASE job.kind = "case_report"
    BY ONLY <1>1, <2>2 DEF GoOn, CaseJobs
  <2>3. CASE job.kind = "case_export"
    BY ONLY <1>1, <2>3, outcome \in BOOLEAN DEF GoOn, CaseJobs
  <2>4. CASE job.kind = "case_again"
    BY ONLY <1>1, <2>4 DEF GoOn, CaseJobs
  <2>5. CASE job.kind = "run_report"
    BY ONLY <1>1, <2>5 DEF GoOn, Verdict
  <2>6. CASE job.kind = "run_export"
    BY ONLY <1>1, <2>6 DEF GoOn, Verdict
  <2>7. CASE job.kind = "verdict"
    BY ONLY <1>1, <2>7 DEF GoOn
  <2> QED BY <1>2, <2>1, <2>2, <2>3, <2>4, <2>5, <2>6, <2>7 DEF JobLike, JobKinds, CaseJobs
<1>7. BenchLike(bench') /\ Placed(bench', case') /\ bench'.index = bench.index
  <2>1. /\ {"next", "done", "report_failed", "presenting"} \subseteq Spots \ {"waiting"}
        /\ "next" \notin InCase /\ "done" \notin InCase
        /\ "next" \notin Recorded /\ "done" \notin Recorded
    BY DEF Spots, InCase, Recorded
  <2>2. /\ {"case_export", "run_export", "verdict"} \subseteq JobKinds
        /\ "run_export" \notin CaseJobs /\ "verdict" \notin CaseJobs
    BY DEF JobKinds, CaseJobs
  <2>3. CASE Go("next") \/ Go("done")
    BY <2>1, <2>3, GoPlaced
  <2>4. CASE job.kind \in CaseJobs /\ (Go("report_failed") \/ Go("presenting"))
    BY <1>2, <1>5, <2>1, <2>4, GoPlaced
  <2>5. CASE job.kind \in CaseJobs /\ Await("case_export", job.value)
    BY <1>2, <1>5, <2>2, <2>5, AwaitPlaced
  <2>6. CASE Await("run_export", 0)
    BY <2>2, <2>6, AwaitPlaced
  <2>7. CASE \E value : Await("verdict", value)
    BY <2>2, <2>7, AwaitPlaced
  <2> QED BY <1>6, <2>3, <2>4, <2>5, <2>6, <2>7
<1>8. job.kind \in {"case_report", "case_export"} => job.value = bench.index
  BY <1>2 DEF CaseJobs
<1> QED BY ONLY <1>4, <1>5, <1>7, <1>8
\* A job's end, with what it wrote: a report called committed is in the store,
\* an export claimed is on disk.
LEMMA JobStepKeeps ==
    ASSUME BenchInv, bench.at = "waiting", NEW outcome \in BOOLEAN, JobEnds(outcome),
           Grows(db, db', files, files'),
           outcome => db' = JobWrites(db, bench.job) /\ files' = files \cup JobExports(bench.job),
           \A job \in late' : JobLike(job), strays' = strays, task' = task
    PROVE  BenchInv'
<1>1. /\ BenchLike(bench') /\ Placed(bench', case') /\ bench'.index = bench.index
      /\ CaseLike(case')
      /\ case'.record = case.record
      /\ case'.persisted = case.persisted /\ case'.checkpoint = case.checkpoint
      /\ case'.done.report = "committed" =>
            \/ case.done.report = "committed"
            \/ bench.job.kind = "case_report" /\ outcome /\ bench.job.value = bench.index
      /\ case'.done.export = "exported" =>
            \/ case.done.export = "exported"
            \/ bench.job.kind = "case_export" /\ outcome /\ bench.job.value = bench.index
  BY JobEndsWell
<1>2. BenchTypeOK'
  BY <1>1 DEF BenchInv, BenchTypeOK, Grows
<1>3. StoreIsTrue(db', files')
  BY StoreStaysTrue DEF BenchInv
<1>4. CaseIsTrue(case', bench.index, db', files')
  <2>1. CaseIsTrue(case, bench.index, db, files) /\ StoreLike(db) /\ NoRow \notin Outcomes
    BY BenchmarkAssumption DEF BenchInv, BenchTypeOK
  <2>2. case'.persisted = "committed" => /\ bench.index \in CaseIds /\ case'.checkpoint \in Outcomes
                                         /\ db'.official[bench.index] = case'.checkpoint
    BY ONLY <1>1, <2>1, Grows(db, db', files, files') DEF CaseIsTrue, Grows
  <2>3. case'.record # NoRow => bench.index \in CaseIds /\ Told(bench.index, case'.record, db', files')
    BY <1>1, <2>1, ToldStays DEF CaseIsTrue
  <2>4. case'.done.report = "committed" => bench.index \in db'.reports
    <3>1. CASE case.done.report = "committed"
      BY ONLY <2>1, <3>1, Grows(db, db', files, files') DEF CaseIsTrue, Grows
    <3>2. CASE bench.job.kind = "case_report" /\ outcome /\ bench.job.value = bench.index
      BY <2>1, <3>2 DEF JobWrites, StoreLike
    <3> QED BY <1>1, <3>1, <3>2
  <2>5. case'.done.export = "exported" => <<"case", bench.index>> \in files'
    <3>1. CASE case.done.export = "exported"
      BY ONLY <2>1, <3>1, Grows(db, db', files, files') DEF CaseIsTrue, Grows
    <3>2. CASE bench.job.kind = "case_export" /\ outcome /\ bench.job.value = bench.index
      BY <3>2 DEF JobExports
    <3> QED BY <1>1, <3>1, <3>2
  <2> QED BY ONLY <2>2, <2>3, <2>4, <2>5 DEF CaseIsTrue
<1> QED BY <1>1, <1>2, <1>3, <1>4 DEF BenchInv

\* A job that returns, raises, or is no longer waited for.
LEMMA JobsKeep == ASSUME BenchInv, JobReturns \/ JobRaises \/ JobTimesOut PROVE BenchInv'
<1>1. /\ bench.at = "waiting" /\ JobLike(bench.job) /\ StoreLike(db)
      /\ \A job \in late : JobLike(job)
      /\ Grows(db, db, files, files)
  BY InCaseHas DEF JobReturns, JobRaises, JobTimesOut, At, BenchInv, BenchTypeOK, Placed
<1>2. /\ Grows(db, JobWrites(db, bench.job), files, files \cup JobExports(bench.job))
      /\ Grows(db, JobFailed(db, bench.job), files, files)
  BY <1>1, JobGrows
<1>3. CASE JobReturns
  <2>1. /\ db' = JobWrites(db, bench.job) /\ files' = files \cup JobExports(bench.job)
        /\ JobEnds(TRUE) /\ late' = late /\ strays' = strays /\ task' = task
    BY <1>3 DEF JobReturns
  <2>2. Grows(db, db', files, files')
    BY <1>2, <2>1
  <2> QED BY <1>1, <2>1, <2>2, JobStepKeeps
<1>4. CASE JobRaises
  <2>1. /\ db' \in {db, JobFailed(db, bench.job)} /\ files' = files
        /\ JobEnds(FALSE) /\ late' = late /\ strays' = strays /\ task' = task
    BY <1>4 DEF JobRaises
  <2>2. Grows(db, db', files, files')
    BY <1>1, <1>2, <2>1
  <2> QED BY <1>1, <2>1, <2>2, JobStepKeeps
<1>5. CASE JobTimesOut
  <2>1. /\ late' = late \cup {bench.job} /\ JobEnds(FALSE)
        /\ UNCHANGED <<db, files, strays, task>>
    BY <1>5 DEF JobTimesOut
  <2>2. Grows(db, db', files, files')
    BY <1>1, <2>1
  <2>3. \A job \in late' : JobLike(job)
    BY <1>1, <2>1
  <2> QED BY <1>1, <2>1, <2>2, <2>3, JobStepKeeps
<1> QED BY <1>3, <1>4, <1>5

\* A thread that writes after all.
LEMMA LateLandsKeeps == ASSUME BenchInv, LateLands PROVE BenchInv'
<1>1. PICK job \in late :
        /\ late' = late \ {job}
        /\ \/ db' = JobWrites(db, job) /\ files' = files \cup JobExports(job)
           \/ db' = db /\ files' = files
  BY DEF LateLands
<1>2. UNCHANGED <<bench, case, task, strays>>
  BY DEF LateLands
<1>3. JobLike(job) /\ StoreLike(db) /\ Grows(db, db, files, files)
  BY InCaseHas
<1>4. Grows(db, db', files, files')
  BY <1>1, <1>3, JobGrows
<1>5. Placed(bench', case') /\ BenchLike(bench')
  BY <1>2 DEF BenchInv, BenchTypeOK
<1> QED BY <1>1, <1>2, <1>4, <1>5, InCaseHas, AgreesSame, StepKeeps

\* A report that failed is noted, and written once more.
LEMMA ReportFailedKeeps == ASSUME BenchInv, ReportFailed PROVE BenchInv'
<1>1. /\ bench.at \in Recorded /\ UNCHANGED <<files, late, case, task, strays>>
      /\ Await("case_again", bench.index) \/ Go("presenting")
      /\ db' \in {db, [db EXCEPT !.status[bench.index] = "failed"]}
  BY DEF ReportFailed, At, Recorded
<1>2. bench.index \in CaseIds /\ case.record \in CaseRecords /\ StoreLike(db)
  BY <1>1, InCaseHas
<1>3. Grows(db, db', files, files')
  <2>1. Grows(db, [db EXCEPT !.status[bench.index] = "failed"], files, files')
    <3>1. "failed" \in {"exported", "failed"} /\ files \subseteq files'
      BY <1>1
    <3> QED BY ONLY <1>2, <3>1, StatusGrows
  <2> QED BY <1>1, <2>1, InCaseHas
<1>4. BenchLike(bench') /\ Placed(bench', case') /\ bench'.index = bench.index
  <2>1. "case_again" \in JobKinds /\ "presenting" \in Spots \ {"waiting"}
    BY DEF JobKinds, CaseJobs, Spots, InCase, Recorded
  <2> QED BY <1>1, <1>2, <2>1, AwaitPlaced, GoPlaced
<1> QED BY <1>1, <1>3, <1>4, InCaseHas, AgreesSame, StepKeeps

\* The last record tells what became of the reports.
LEMMA PresentsKeeps == ASSUME BenchInv, Presents PROVE BenchInv'
<1> DEFINE r == [case.record EXCEPT !.revision = FINAL, !.done = case.done]
<1>1. /\ bench.at \in Recorded /\ Go("finishing") /\ UNCHANGED <<late, task, strays>>
      /\ case' = [case EXCEPT !.record.revision = FINAL, !.record.done = case.done]
      /\ files \subseteq files'
      /\ db' \in {db, [db EXCEPT !.shown = @ \cup {bench.index}]}
  BY DEF Presents, At, Recorded
<1>2. /\ CaseLike(case) /\ StoreLike(db) /\ bench.index \in CaseIds
      /\ case.record \in CaseRecords
  BY <1>1, InCaseHas
<1>3. /\ r \in CaseRecords /\ r.official = case.record.official /\ r.done = case.done
  BY ONLY <1>2 DEF CaseLike, CaseRecords, Dones, FINAL
<1>4. case' = [case EXCEPT !.record = r]
  BY ONLY <1>1, <1>2 DEF CaseLike
<1> HIDE DEF r
<1>5. /\ CaseLike(case') /\ case'.record = r /\ case'.done = case.done
      /\ case'.persisted = case.persisted /\ case'.checkpoint = case.checkpoint
  BY ONLY <1>2, <1>3, <1>4 DEF CaseLike
<1>6. Grows(db, db', files, files')
  <2>1. CASE db' = db
    BY <1>1, <1>2, <2>1, SameGrows
  <2>2. CASE db' = [db EXCEPT !.shown = @ \cup {bench.index}]
    <3>1. StoreLike(db')
      BY ONLY <1>2, <2>2 DEF StoreLike
    <3> QED BY ONLY <1>1, <1>2, <2>2, <3>1 DEF Grows, StoreLike
  <2> QED BY <1>1, <2>1, <2>2
<1>7. BenchLike(bench') /\ Placed(bench', case') /\ bench'.index = bench.index
  <2>1. "finishing" \in Spots \ {"waiting"}
    BY DEF Spots, InCase, Recorded
  <2> QED BY <1>1, <1>2, <1>3, <1>5, <2>1, GoPlaced
<1>8. BenchTypeOK'
  BY <1>1, <1>5, <1>6, <1>7 DEF BenchInv, BenchTypeOK, Grows
<1>9. StoreIsTrue(db', files')
  BY <1>6, StoreStaysTrue DEF BenchInv
<1>10. CaseIsTrue(case', bench.index, db', files')
  <2>1. CaseIsTrue(case, bench.index, db, files) /\ NoRow \notin Outcomes \cup CaseRecords
    BY BenchmarkAssumption DEF BenchInv
  <2>2. /\ case.persisted = "committed" => /\ case.checkpoint \in Outcomes
                                           /\ db'.official[bench.index] = case.checkpoint
        /\ case.done.report = "committed" => bench.index \in db'.reports
        /\ case.done.export = "exported" => <<"case", bench.index>> \in files'
        /\ case.record.official # NoRow => db'.official[bench.index] = case.record.official
    BY ONLY <1>2, <1>6, <2>1 DEF CaseIsTrue, Grows, Told
  <2>3. Told(bench.index, r, db', files')
    BY ONLY <1>3, <2>2 DEF Told
  <2> QED BY ONLY <1>2, <1>5, <2>2, <2>3 DEF CaseIsTrue
<1> QED BY <1>7, <1>8, <1>9, <1>10 DEF BenchInv

-----------------------------------------------------------------------------
(* The theorems.                                                           *)

\* An empty store, and no case.
LEMMA BenchStarts == BenchInit => BenchInv
<1> SUFFICES ASSUME BenchInit PROVE BenchInv
  OBVIOUS
<1>1. MaxCases \in Nat \ {0} /\ NoRow \notin CaseRecords
  BY BenchmarkAssumption
<1>2. StoreLike(db)
  BY DEF BenchInit, EmptyStore, StoreLike
<1>3. CaseLike(case)
  BY DEF BenchInit, FreshCase, Unprojected, Dones, CaseLike
<1>4. BenchLike(bench) /\ Placed(bench, case)
  BY <1>1 DEF BenchInit, BenchLike, Placed, Spots, InCase, Recorded
<1>5. BenchTypeOK
  BY <1>2, <1>3, <1>4 DEF BenchInit, BenchTypeOK
<1>6. StoreIsTrue(db, files)
  BY DEF BenchInit, EmptyStore, StoreIsTrue
<1>7. CaseIsTrue(case, bench.index, db, files)
  BY DEF BenchInit, FreshCase, Unprojected, CaseIsTrue
<1> QED BY <1>5, <1>6, <1>7 DEF BenchInv

\* Every step keeps the invariant.
LEMMA BenchStepKeeps == ASSUME BenchInv, [BenchNext]_benchVars PROVE BenchInv'
<1>1. CASE Killed \/ Exits
  <2>1. Die /\ UNCHANGED <<db, files>>
    BY <1>1 DEF Killed, Exits
  <2> QED BY <2>1, DieKeeps
<1>2. CASE UNCHANGED benchVars
  BY <1>2 DEF benchVars, BenchInv, BenchTypeOK
<1>3. CASE Launch BY <1>3, LaunchKeeps
<1>4. CASE NextCase BY <1>4, NextCaseKeeps
<1>5. CASE CasesEnd \/ Interrupted BY <1>5, RunReportKeeps
<1>6. CASE CaseStarted BY <1>6, CaseStartedKeeps
<1>7. CASE EnvironmentBuilt BY <1>7, EnvironmentBuiltKeeps
<1>8. CASE EpisodeStarts \/ StageFails \/ EpisodeReturns \/ Watchdog \/ GraceEnds
  BY <1>8, EpisodeKeeps
<1>9. CASE Evaluates BY <1>9, EvaluatesKeeps
<1>10. CASE StrayEvaluates BY <1>10, StrayEvaluatesKeeps
<1>11. CASE BodyReturns BY <1>11, BodyReturnsKeeps
<1>12. CASE CommitBody \/ CommitCleanup \/ Finish BY <1>12, CommitsKeep
<1>13. CASE BodyPersisted BY <1>13, BodyPersistedKeeps
<1>14. CASE CleanupStarts BY <1>14, CleanupStartsKeeps
<1>15. CASE CloseAnswers \/ CloseTimesOut BY <1>15, EnvironmentCloseKeeps
<1>16. CASE CleanupFinishes BY <1>16, CleanupFinishesKeeps
<1>17. CASE RecordCleanup BY <1>17, RecordCleanupKeeps
<1>18. CASE FinalAttempt BY <1>18, FinalAttemptKeeps
<1>19. CASE Projects BY <1>19, ProjectsKeeps
<1>20. CASE JobReturns \/ JobRaises \/ JobTimesOut BY <1>20, JobsKeep
<1>21. CASE LateLands BY <1>21, LateLandsKeeps
<1>22. CASE ReportFailed BY <1>22, ReportFailedKeeps
<1>23. CASE Presents BY <1>23, PresentsKeeps
<1> QED BY <1>1, <1>2, <1>3, <1>4, <1>5, <1>6, <1>7, <1>8, <1>9, <1>10, <1>11, <1>12,
           <1>13, <1>14, <1>15, <1>16, <1>17, <1>18, <1>19, <1>20, <1>21, <1>22, <1>23
        DEF BenchNext, HarnessSteps

\* The store, the files and the case in progress agree at every step, for any
\* number of cases and of failing writes (runner._run_case, ResultStore).
THEOREM BenchIsSound == BenchSpec => []BenchInv
<1>1. BenchInv /\ [BenchNext]_benchVars => BenchInv'
  BY BenchStepKeeps
<1> QED BY BenchStarts, <1>1, PTL DEF BenchSpec

\* Every variable keeps its type, and the runner in a case has the case and,
\* from the body's end on, its record.
THEOREM BenchTypeSafe == BenchSpec => []BenchTypeOK
<1>1. BenchInv => BenchTypeOK
  BY DEF BenchInv
<1> QED BY BenchIsSound, <1>1, PTL

\* A stored record never tells what did not happen (commit_case_outcome).
THEOREM RecordStaysTrue == BenchSpec => []RecordIsTrue
<1>1. ASSUME BenchInv PROVE RecordIsTrue
  <2> SUFFICES ASSUME NEW c \in CaseIds, db.outcome[c] # NoRow
               PROVE  /\ Told(c, db.outcome[c], db, files)
                      /\ db.outcome[c].revision = FINAL <=> "CASE_FINISHED" \in db.phases[c]
    BY DEF RecordIsTrue, Rows, Told
  <2> QED BY <1>1 DEF BenchInv, StoreIsTrue
<1> QED BY BenchIsSound, <1>1, PTL
\* A step writes a verdict only as a job that the store takes.
LEMMA SuiteWritten ==
    ASSUME BenchInv, BenchNext
    PROVE  \/ db'.suite = db.suite
           \/ \E job : VerdictTaken(db, job.value) /\ db'.suite = job.value
<1>1. StoreLike(db) /\ (bench.at = "waiting" => JobLike(bench.job))
      /\ \A job \in late : JobLike(job)
  BY DEF BenchInv, BenchTypeOK, Placed
<1>2. ASSUME NEW job, JobLike(job), JobTaken(db, job), db' = JobWrites(db, job)
      PROVE  db'.suite = db.suite \/ (VerdictTaken(db, job.value) /\ db'.suite = job.value)
  <2>1. CASE job.kind \in {"start", "verdict"}
    BY ONLY <1>1, <1>2, <2>1 DEF JobTaken, JobWrites, StoreLike
  <2>2. CASE job.kind \in {"case_report", "case_again"}
    BY ONLY <1>1, <1>2, <2>2 DEF JobWrites, StoreLike
  <2>3. CASE job.kind = "case_export"
    BY ONLY <1>1, <1>2, <2>3 DEF JobWrites, StoreLike
  <2>4. CASE job.kind = "run_report"
    BY ONLY <1>1, <1>2, <2>4 DEF JobWrites, StoreLike
  <2>5. CASE job.kind = "run_export"
    BY ONLY <1>1, <1>2, <2>5 DEF JobWrites, StoreLike
  <2> QED BY <1>2, <2>1, <2>2, <2>3, <2>4, <2>5 DEF JobLike, JobKinds, CaseJobs
<1>3. CASE JobReturns
  BY <1>1, <1>2, <1>3 DEF JobReturns, At
<1>4. CASE LateLands
  <2>1. PICK job \in late : IF JobTaken(db, job) THEN db' = JobWrites(db, job) ELSE db' = db
    BY <1>4 DEF LateLands
  <2> QED BY <1>1, <1>2, <2>1
<1>5. CASE JobRaises
  <2>1. db' = db \/ db' = JobFailed(db, bench.job)
    BY <1>5 DEF JobRaises
  <2> QED BY ONLY <1>1, <2>1 DEF JobFailed, StoreLike
<1>6. CASE Evaluates
  BY ONLY <1>1, <1>6 DEF Evaluates, CommitOfficial, StoreLike
<1>7. CASE StrayEvaluates
  BY ONLY <1>1, <1>7 DEF StrayEvaluates, CommitOfficial, StoreLike
<1>8. CASE CommitBody \/ CommitCleanup \/ Finish
  <2>1. db' = db \/ db' = CommitOutcome(db, bench.index, case.record)
    BY <1>8 DEF CommitBody, CommitCleanup, Finish, RecordCommitted, RecordRefused
  <2> QED BY ONLY <1>1, <2>1 DEF CommitOutcome, StoreLike
<1>9. CASE \E phase, locals : Phase(phase, locals)
  BY ONLY <1>1, <1>9 DEF Phase, CommitPhase, StoreLike
<1>10. CASE RecordCleanup \/ ReportFailed \/ Presents
  BY ONLY <1>1, <1>10 DEF RecordCleanup, ReportFailed, Presents, StoreLike
<1>11. \/ db' = db \/ JobReturns \/ LateLands \/ JobRaises \/ Evaluates \/ StrayEvaluates
       \/ CommitBody \/ CommitCleanup \/ Finish
       \/ \E phase, locals : Phase(phase, locals)
       \/ RecordCleanup \/ ReportFailed \/ Presents
  BY DEF BenchNext, HarnessSteps, Launch, Killed, NextCase, CasesEnd, CaseStarted,
         EnvironmentBuilt, EpisodeStarts, Watchdog, GraceEnds, BodyReturns, BodyPersisted,
         CleanupStarts, CloseTimesOut, CleanupFinishes, FinalAttempt, Projects, JobTimesOut,
         Interrupted, Exits, StageFails, EpisodeReturns, CloseAnswers
<1> QED BY <1>3, <1>4, <1>5, <1>6, <1>7, <1>8, <1>9, <1>10, <1>11

\* A verdict on the run is not taken back, however late a thread writes its
\* earlier row (record_suite_report_disposition).
THEOREM VerdictIsKept == BenchSpec => VerdictStays
<1>1. BenchInv /\ [BenchNext]_benchVars =>
        [db.suite \notin {NoRow, Undecided} => db'.suite = db.suite]_db
  <2> SUFFICES ASSUME BenchInv, [BenchNext]_benchVars, db' # db,
                      db.suite \notin {NoRow, Undecided}
               PROVE  db'.suite = db.suite
    OBVIOUS
  <2>1. BenchNext
    BY DEF benchVars
  <2> QED BY <2>1, SuiteWritten DEF VerdictTaken
<1> QED BY BenchIsSound, <1>1, PTL DEF BenchSpec, VerdictStays
=============================================================================
