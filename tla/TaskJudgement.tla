------------------------------ MODULE TaskJudgement ------------------------------
(* How a task is judged after every action: the outcome of the action is     *)
(* projected from the worlds before and after it, each success criterion is  *)
(* decided mechanically, by a model judge, by both or by the user, the       *)
(* decisions are composed into an evaluation, and the evaluation is checked  *)
(* once more, by code written apart from the composer's, before it may end   *)
(* the run (evaluation/, agent/evaluation_control.py).                       *)
(*   A trial is a task, at most one requested action, and what may differ from one   *)
(* screen, or one observation of a screen, to the next.  The screen is the   *)
(* real one; a showing is how the sources of one observation present it.     *)
EXTENDS Naturals, Sequences, SequencesExt, FiniteSets

CONSTANTS Trials,      \* [task, request, varies, part] records
          Prefix       \* [text -> its part that a bounded or segmented control exposes]

\* An expression is its nodes, each after those it is of, the whole one last.
\* Of a control with a value there is an identity, and the pixels of a disputed
\* one read as no text.
ASSUME JudgementAssumption ==
    /\ "ab" \in DOMAIN Prefix /\ "blurred" \notin DOMAIN Prefix
    /\ \A t \in Trials :
         /\ t.part \in {"whole", "cut", "segment"}
         /\ t.task.criteria \in Seq(ToSet(t.task.criteria))
         /\ \A c \in ToSet(t.task.criteria) : c.assurance \in {"none", "weak", "structural", "authoritative"}
         /\ t.task.expression \in Seq(ToSet(t.task.expression))
         /\ \A n \in DOMAIN t.task.expression : t.task.expression[n].of \subseteq 1 .. (n - 1)
         /\ \A q, r \in t.request : q = r
         /\ \A q \in t.request : q.target # ""

VARIABLES trial, screen, showing, was, outcome, verdict, stage

judgementVars == <<trial, screen, showing, was, outcome, verdict, stage>>

CriterionKinds == {"fact_equals", "target_state_equals", "artifact_exists", "semantic_rubric", "hybrid", "user_acceptance"}

-----------------------------------------------------------------------------
(* One observation: facts, artifacts and their sources. *)

Profile == [dom |-> [modality |-> "structural", assurance |-> "structural"],
            pixels |-> [modality |-> "visual", assurance |-> "weak"],
            user |-> [modality |-> "user", assurance |-> "authoritative"]]
AssuranceRank == [none |-> 0, weak |-> 1, structural |-> 2, authoritative |-> 3]
Satisfies(assurance, required) == AssuranceRank[assurance] >= AssuranceRank[required]

Fact(source, subject, predicate, value) ==
    [kind |-> "fact", source |-> source, subject |-> subject, predicate |-> predicate, value |-> value]
Artifact(source, key) ==
    [kind |-> "artifact", source |-> source, subject |-> key, predicate |-> "", value |-> ""]

\* A control exposes its whole text, a prefix with a truncation marker, or the
\* segment being edited with a scope marker.
FieldFacts(part, text) ==
    CASE part = "whole" -> {Fact("dom", "field", "value", text)}
      [] part = "cut" -> {Fact("dom", "field", "value", Prefix[text])}
                         \cup IF Prefix[text] = text THEN {} ELSE {Fact("dom", "field", "truncated", "true")}
      [] part = "segment" -> {Fact("dom", "field", "value", Prefix[text]), Fact("dom", "field", "scope", "segment")}

PixelFacts(s, h) ==
    CASE h.field = "disputed" -> {Fact("pixels", "field", "value", "blurred")}
      [] h.field = "weak" -> {Fact("pixels", "field", "value", s.field)}
      [] OTHER -> {}

\* What a picture shows of a screen.
Face(s) == <<s.field, s.option, s.look, s.where, s.paint>>

World(s, h) ==
    LET domRead == h.coverage # "failed"
        domFacts == IF ~domRead THEN {}
                    ELSE (IF h.field \in {"seen", "disputed"} THEN FieldFacts(trial.part, s.field) ELSE {})
                         \cup (IF h.option THEN {Fact("dom", "option", "value", s.option)} ELSE {})
                         \cup {Fact("dom", "link", "pressed", s.look), Fact("dom", "page", "location", s.where)}
        claim == IF s.claims /\ domRead THEN {Fact("dom", "answer", "accepted", "yes")} ELSE {}
        userFacts == IF s.accepted = "none" THEN {} ELSE {Fact("user", "answer", "accepted", s.accepted)}
        artifacts == (IF h.shot THEN {Artifact("pixels", "screenshot")} ELSE {})
                     \cup (IF domRead /\ s.report # "none" THEN {Artifact("dom", "report")} ELSE {})
                     \cup (IF s.report = "twice" /\ h.shot THEN {Artifact("pixels", "report")} ELSE {})
    IN  [records |-> domFacts \cup claim \cup PixelFacts(s, h) \cup userFacts \cup artifacts,
         coverage |-> h.coverage,
         complete |-> h.coverage = "complete",
         conflicts |-> IF h.field = "disputed" THEN {<<"field", "value">>} ELSE {},
         digest |-> IF h.shot THEN {Face(s)} ELSE {},
         shown |-> h.judged]
Now == World(screen, showing)

FactsAbout(w, subject, predicate) ==
    {r \in w.records : r.kind = "fact" /\ r.predicate = predicate /\ subject \in {"", r.subject}}
InConflict(w, subject, predicate) == \E c \in w.conflicts : c[2] = predicate /\ subject \in {"", c[1]}

-----------------------------------------------------------------------------
(* Criteria. *)

Decided(status, refs) == [status |-> status, refs |-> refs]
UnknownDecision == Decided("unknown", {})

\* Criteria of a kind and a shape the composer knows, each with an id of its own; anything else is
\* refused as a whole.
HasShape(c) ==
    /\ c.kind \in {"target_state_equals", "artifact_exists"} => c.subject # ""
    /\ c.kind \in {"semantic_rubric", "hybrid"} => c.targets \cup c.outputs # {}
    /\ "" \notin c.targets \cup c.outputs
Supported(task) ==
    /\ \A i \in DOMAIN task.criteria : task.criteria[i].kind \in CriterionKinds /\ HasShape(task.criteria[i])
    /\ \A i, j \in DOMAIN task.criteria : task.criteria[i].id = task.criteria[j].id => i = j
IdsOf(task) == {task.criteria[i].id : i \in DOMAIN task.criteria}
CriterionOf(task, id) == task.criteria[CHOOSE i \in DOMAIN task.criteria : task.criteria[i].id = id]
Predicate(c) == IF c.kind = "artifact_exists" THEN "" ELSE "value"

DecideFact(c, w) ==
    LET matches == FactsAbout(w, c.subject, Predicate(c)) IN
    IF InConflict(w, c.subject, Predicate(c)) \/ Cardinality(matches) # 1 THEN UnknownDecision
    ELSE LET r == CHOOSE r \in matches : TRUE
             assured == Profile[r.source].assurance
         IN  IF ~Satisfies(assured, c.assurance) THEN UnknownDecision
             ELSE IF r.value = c.expected THEN Decided("satisfied", matches)
             ELSE IF w.complete /\ Satisfies(assured, "structural") THEN Decided("unsatisfied", matches)
             ELSE UnknownDecision
DecideArtifact(c, w) ==
    LET matches == {r \in w.records : r.kind = "artifact" /\ r.subject = c.subject} IN
    IF Cardinality(matches) = 1 THEN Decided("satisfied", matches) ELSE UnknownDecision
Mechanical(c, w) == IF c.kind = "artifact_exists" THEN DecideArtifact(c, w) ELSE DecideFact(c, w)

\* Only an explicit answer of the user counts, whoever else reports one.
Acceptances(c, w) ==
    LET subject == IF c.subject = "" THEN c.id ELSE c.subject
    IN {r \in w.records : /\ r.kind = "fact" /\ r.subject = subject /\ r.predicate = "accepted"
                          /\ Profile[r.source] = [modality |-> "user", assurance |-> "authoritative"]}
UserAcceptance(c, w) ==
    LET matches == Acceptances(c, w) IN
    IF Cardinality(matches) # 1 THEN UnknownDecision
    ELSE Decided(IF \E r \in matches : r.value = "yes" THEN "satisfied" ELSE "unsatisfied", matches)

InScope(c, r) == r.subject \in IF r.kind = "fact" THEN c.targets ELSE c.outputs
ScopeOf(cs, w) == {r \in w.records : \E c \in cs : InScope(c, r)}
Assured(c, r) == Satisfies(Profile[r.source].assurance, c.assurance)

\* What the judge is shown is what the bounded world view happened to keep.
Catalog(cs, w) == {r \in ScopeOf(cs, w) : w.shown = "all" \/ r.kind = "artifact"}

Readiness(c, cs, w) ==
    IF \E r \in Catalog(cs, w) : InScope(c, r) /\ Assured(c, r) THEN "ready"
    ELSE IF ScopeOf({c}, w) # {} \/ ~w.complete THEN "inconclusive"
    ELSE "not_ready"

SemanticCandidates(task, w) ==
    {c \in ToSet(task.criteria) : \/ c.kind = "semantic_rubric"
                                  \/ c.kind = "hybrid" /\ Mechanical(c, w).status = "satisfied"}
Ready(task, w) == LET cs == SemanticCandidates(task, w) IN {c \in cs : Readiness(c, cs, w) = "ready"}

\* The judge may fail, leave a criterion out, or answer for each; it may cite
\* whatever it is shown, or something it is not.
UnseenRecord == Fact("dom", "elsewhere", "value", "")
Citations(shown) == {{r} : r \in shown \cup {UnseenRecord}}
JudgeProposals(task, w) ==
    LET ready == {c.id : c \in Ready(task, w)}
        shown == Catalog(Ready(task, w), w)
        answers == {UnknownDecision} \cup {Decided(s, refs) : s \in {"satisfied", "unsatisfied"}, refs \in Citations(shown)}
    IN  IF ready = {} THEN {<<>>} ELSE {<<>>} \cup [ready -> answers]
\* One citation outside what was shown drops the whole batch.
Admitted(task, w, proposals) ==
    IF \A id \in DOMAIN proposals : proposals[id].refs \subseteq Catalog(Ready(task, w), w) THEN proposals ELSE <<>>

\* A hybrid criterion's own fact cannot also be the evidence for its rubric.
IsOwnFact(c, r) == c.kind = "hybrid" /\ r.kind = "fact" /\ r.predicate = Predicate(c) /\ c.subject \in {"", r.subject}
\* Mutant: evidence shown for another criterion of the batch is taken too.
EvidenceOfTheBatch(c, r) == Assured(c, r) /\ ~IsOwnFact(c, r)
SemanticEvidenceApplies(c, r) == Assured(c, r) /\ ~IsOwnFact(c, r) /\ InScope(c, r)

Semantic(c, cs, w, proposals) ==
    CASE Readiness(c, cs, w) = "not_ready" -> Decided("unsatisfied", {})
      [] Readiness(c, cs, w) = "ready" /\ c.id \in DOMAIN proposals ->
            IF \A r \in proposals[c.id].refs : SemanticEvidenceApplies(c, r) THEN proposals[c.id] ELSE UnknownDecision
      [] OTHER -> UnknownDecision
Hybrid(mechanical, semantic) ==
    LET statuses == {mechanical.status, semantic.status} IN
    IF "unsatisfied" \in statuses THEN Decided("unsatisfied", mechanical.refs \cup semantic.refs)
    ELSE IF statuses = {"satisfied"} THEN Decided("satisfied", mechanical.refs \cup semantic.refs)
    ELSE UnknownDecision
Decide(c, task, w, proposals) ==
    LET mechanical == Mechanical(c, w)
        semantic == Semantic(c, SemanticCandidates(task, w), w, proposals)
    IN  CASE c.kind = "user_acceptance" -> UserAcceptance(c, w)
          [] c.kind = "semantic_rubric" -> semantic
          [] c.kind = "hybrid" /\ mechanical.status = "satisfied" -> Hybrid(mechanical, semantic)
          [] OTHER -> mechanical

\* Evidence in the catalog is always of this observation; lineage can only fail by absence.
ApplyAuthority(c, task, d) ==
    LET insufficient == /\ c.id \in task.authoritative
                        /\ \/ d.refs = {}
                           \/ \E r \in d.refs : Profile[r.source].assurance # "authoritative"
        invalidLineage == task.strictLineage /\ d.refs = {}
    IN  IF d.status \in {"satisfied", "unsatisfied"} /\ (insufficient \/ invalidLineage) THEN UnknownDecision ELSE d

-----------------------------------------------------------------------------
(* The success expression and the evaluation. *)

Node(op, of, id) == [op |-> op, of |-> of, id |-> id]
All(ids) == Append([i \in DOMAIN ids |-> Node("criterion", {}, ids[i])], Node("all", DOMAIN ids, ""))
ExpressionOf(task) == IF task.expression = <<>> THEN All([i \in DOMAIN task.criteria |-> task.criteria[i].id])
                      ELSE task.expression

WellFormed(task, ids) ==
    \A n \in DOMAIN task.expression :
        LET e == task.expression[n]
        IN \/ e.op = "criterion" /\ e.id \in ids
           \/ e.op = "not"
           \/ e.op \in {"all", "any"} /\ e.of # {}
\* The value of a node, from the statuses of the criteria and the values below.
Combine(e, status, below) ==
    CASE e.op = "criterion" -> IF status[e.id] \in {"satisfied", "unsatisfied"} THEN status[e.id] ELSE "unknown"
      [] e.op = "not" -> IF "unknown" \in below THEN "unknown" ELSE IF "satisfied" \in below THEN "unsatisfied" ELSE "satisfied"
      [] e.op = "all" -> IF "unsatisfied" \in below THEN "unsatisfied" ELSE IF "unknown" \in below THEN "unknown" ELSE "satisfied"
      [] OTHER -> IF "satisfied" \in below THEN "satisfied" ELSE IF "unknown" \in below THEN "unknown" ELSE "unsatisfied"
Evaluates(e, status) ==
    LET value[n \in 1..Len(e)] == Combine(e[n], status, {value[m] : m \in e[n].of})
    IN value[Len(e)]

OutputRecords(key, w) == {r \in w.records : r.kind = "artifact" /\ r.subject = key}
CollectOutputs(task, w) == {key \in task.outputs : Cardinality(OutputRecords(key, w)) = 1}
OutputRefs(keys, w) == UNION {OutputRecords(key, w) : key \in keys}
\* The file an output names is read again when its digest is required; of the outputs only the report is one.
IntegrityHolds(task) == \A key \in task.integrity : key \in task.outputs /\ key = "report" /\ screen.report = "sound"

Evaluation(status, decisions, refs, outputs) ==
    [status |-> status, decisions |-> decisions, refs |-> refs, outputs |-> outputs]

CriteriaStatus(task, decisions) ==
    LET value == Evaluates(ExpressionOf(task), [id \in DOMAIN decisions |-> decisions[id].status]) IN
    [satisfied |-> "complete", unsatisfied |-> "incomplete", unknown |-> "unknown"][value]

Compose(task, w, proposals) ==
    LET raw == [id \in IdsOf(task) |-> Decide(CriterionOf(task, id), task, w, Admitted(task, w, proposals))]
        decisions == [id \in IdsOf(task) |-> ApplyAuthority(CriterionOf(task, id), task, raw[id])]
        outputs == CollectOutputs(task, w)
        refs == UNION {decisions[id].refs : id \in DOMAIN decisions} \cup OutputRefs(outputs, w)
        status == CriteriaStatus(task, decisions)
        blocked == Evaluation("blocked", decisions, {}, outputs)
    IN  IF ~Supported(task) THEN Evaluation("blocked", <<>>, {}, {})
        ELSE IF ~(task.authoritative \subseteq IdsOf(task)) THEN Evaluation("blocked", raw, {}, {})
        ELSE IF ~WellFormed(task, IdsOf(task)) THEN blocked
        ELSE IF outputs # task.outputs
             THEN Evaluation(IF status = "unknown" \/ ~w.complete THEN "unknown" ELSE "incomplete", decisions, {}, outputs)
        ELSE IF status # "complete" THEN Evaluation(status, decisions, {}, outputs)
        ELSE IF refs = {} \/ ~IntegrityHolds(task) THEN blocked
        ELSE Evaluation("complete", decisions, refs, outputs)

\* The second reading of the same evidence, before the evaluation is believed.
RecordApplies(c, r) ==
    /\ Assured(c, r)
    /\ IF c.kind = "hybrid" THEN IsOwnFact(c, r) \/ SemanticEvidenceApplies(c, r)
       ELSE /\ c.targets # {} => r.kind = "fact" /\ r.subject \in c.targets
            /\ CASE c.kind \in {"fact_equals", "target_state_equals"} ->
                        r.kind = "fact" /\ r.predicate = Predicate(c) /\ c.subject \in {"", r.subject}
                 [] c.kind = "artifact_exists" -> r.kind = "artifact" /\ r.subject = c.subject
                 [] c.kind = "semantic_rubric" -> TRUE
                 [] c.kind = "user_acceptance" -> r \in Acceptances(c, Now)
StatusMatches(c, status, r) ==
    CASE c.kind \in {"fact_equals", "target_state_equals"} -> (r.value = c.expected) = (status = "satisfied")
      [] c.kind = "artifact_exists" -> status = "satisfied"
      [] c.kind = "user_acceptance" -> (r.value = "yes") = (status = "satisfied")
      [] OTHER -> TRUE
EvidenceAccepted(c, d) == d.refs # {} /\ \A r \in d.refs : RecordApplies(c, r) /\ StatusMatches(c, d.status, r)
ScopeAbsent(c, w) == c.kind = "semantic_rubric" /\ w.complete /\ ScopeOf({c}, w) = {}

ValidateTaskEvaluation(e, task, w) ==
    LET proposed == DOMAIN e.decisions
        success == IF proposed = IdsOf(task) /\ proposed # {} THEN CriteriaStatus(task, e.decisions) ELSE "unknown"
    IN  /\ e.status = "complete" => proposed = IdsOf(task)
        /\ Supported(task)
        /\ \A id \in proposed :
             LET c == CriterionOf(task, id) d == e.decisions[id] IN
             d.status \in {"satisfied", "unsatisfied"} =>
                \/ d.status = "unsatisfied" /\ d.refs = {} /\ ScopeAbsent(c, w)
                \/ EvidenceAccepted(c, d)
        /\ proposed = IdsOf(task) /\ proposed # {} => WellFormed(task, proposed)
        /\ e.status = "complete" => /\ proposed # {} => success = "complete"
                                    /\ e.outputs = task.outputs /\ IntegrityHolds(task)
        /\ e.status = "incomplete" /\ e.outputs = task.outputs => success # "complete"

-----------------------------------------------------------------------------
(* The outcome of one action, from the worlds before and after it. *)

ValuesAt(w, subject, predicate) == {r.value : r \in FactsAbout(w, subject, predicate)}
Content(w) ==
    <<{<<r.subject, r.predicate, r.value>> : r \in {x \in w.records : x.kind = "fact"}}, w.conflicts, w.coverage, w.digest # {}>>
TargetFacts(w, target) == {r \in w.records : r.kind = "fact" /\ r.subject = target}
TargetContent(w, target) == {<<r.predicate, r.value>> : r \in TargetFacts(w, target)}
\* A target that vanished counts as changed; one that appeared does not.
TargetChanged(b, a, target) == TargetFacts(b, target) # {} /\ TargetContent(b, target) # TargetContent(a, target)

StructurallyAdmitted(r, w, partial) ==
    /\ Satisfies(Profile[r.source].assurance, "structural")
    /\ r.source = "dom" => w.coverage \in IF partial THEN {"complete", "truncated"} ELSE {"complete"}
ChangedFacts(b, a, partial) ==
    {r \in a.records : /\ r.kind = "fact" /\ r.value \notin ValuesAt(b, r.subject, r.predicate)
                       /\ StructurallyAdmitted(r, a, partial)}

ActionOutcome(change, post, method, refs) == [change |-> change, post |-> post, method |-> method, refs |-> refs]
NoOutcome == ActionOutcome("unknown", "unknown", "none", {})

\* What the control holds now, with whether all of it is shown.
CurrentValue(w, target) == LET rs == FactsAbout(w, target, "value") IN
    IF InConflict(w, target, "value") \/ Cardinality(rs) # 1 THEN {}
    ELSE {r \in rs : StructurallyAdmitted(r, w, TRUE)}
\* Mutant: the segment being edited passes for the whole text.
UncutValue(w, target) == "true" \notin ValuesAt(w, target, "truncated")
WholeValue(w, target) == /\ "true" \notin ValuesAt(w, target, "truncated")
                         /\ "segment" \notin ValuesAt(w, target, "scope")

ValueOutcome(b, a, q) ==
    LET current == CurrentValue(a, q.target)
        before == FactsAbout(b, q.target, "value")
        change == IF Cardinality(before) # 1 THEN "unknown"
                  ELSE IF ValuesAt(b, q.target, "value") # ValuesAt(a, q.target, "value") THEN "changed" ELSE "unchanged"
        whole == WholeValue(a, q.target)
        post == IF whole /\ q.value \in {r.value : r \in current} THEN "satisfied"
                ELSE IF ~whole \/ ~a.complete \/ (q.op = "fill" /\ change # "unchanged") THEN "unknown"
                ELSE "unsatisfied"
    IN  IF current = {} THEN NoOutcome ELSE ActionOutcome(change, post, "native", current)

NavigationOutcome(b, a, q) ==
    LET semantic == Content(b) # Content(a)
        structural == ChangedFacts(b, a, FALSE)
        targetRefs == {r \in ChangedFacts(b, a, q.target = "page") : r.subject = q.target}
        targetChanged == semantic /\ TargetChanged(b, a, q.target)
        available == b.digest # {} /\ a.digest # {}
        painted == available /\ b.digest # a.digest
        post == IF q.expects THEN "unknown" ELSE "not_applicable"
    IN  IF semantic /\ targetRefs # {} THEN ActionOutcome("changed", post, "structural", targetRefs)
        ELSE IF semantic /\ ~painted /\ ~(available /\ targetChanged) /\ structural # {}
             THEN ActionOutcome("changed", post, "structural", structural)
        ELSE IF ~available THEN NoOutcome
        ELSE ActionOutcome(IF painted \/ targetChanged THEN "changed" ELSE "unchanged", post, "visual",
                     {Artifact("pixels", "screenshot")})

Project(b, a, q) ==
    IF q.navigated \/ q.op = "open" THEN NavigationOutcome(b, a, q)
    ELSE IF q.op \in {"fill", "choose"} THEN ValueOutcome(b, a, q)
    ELSE NoOutcome

\* The outcome is checked against the same two worlds by other rules.
IsRequestedValue(r, w, q) == /\ r.subject = q.target /\ r.predicate = "value" /\ r.value = q.value
                             /\ "true" \notin ValuesAt(w, q.target, "truncated")
                             /\ ~InConflict(w, q.target, "value")
SupportsChange(r, b, a, q) ==
    /\ StructurallyAdmitted(r, a, (q.target = "page" /\ r.subject = q.target) \/ IsRequestedValue(r, a, q))
    /\ ValuesAt(b, r.subject, r.predicate) # {r.value}
SupportsNoChange(r, o, b, a, q) ==
    /\ StructurallyAdmitted(r, a, o.post = "satisfied" /\ IsRequestedValue(r, a, q))
    /\ ValuesAt(b, r.subject, r.predicate) = {r.value}
SupportsPostcondition(r, o, a, q) ==
    /\ r.subject = q.target /\ r.predicate = "value" /\ (r.value = q.value) = (o.post = "satisfied")
    /\ StructurallyAdmitted(r, a, o.post = "satisfied" /\ IsRequestedValue(r, a, q))
OutcomeIsSupported(o, b, a, q) ==
    CASE o.method = "none" -> TRUE
      [] o.method = "visual" -> LET moved == b.digest # a.digest \/ TargetChanged(b, a, q.target) IN
                                b.digest # {} /\ a.digest # {} /\ (o.change = "changed") = moved
      [] o.change = "changed" -> \E r \in o.refs : SupportsChange(r, b, a, q)
      [] o.change = "unchanged" -> \A r \in o.refs : SupportsNoChange(r, o, b, a, q)
      [] o.post \in {"satisfied", "unsatisfied"} -> \A r \in o.refs : SupportsPostcondition(r, o, a, q)
      [] OTHER -> TRUE
ApplyEvidenceProfile(o, b, a, q) == IF OutcomeIsSupported(o, b, a, q) THEN o ELSE NoOutcome

-----------------------------------------------------------------------------
(* The run: a first judgement, an action and its outcome, a second one. *)

Vary(feature, values, usual) == IF feature \in trial.varies THEN values ELSE {usual}
Screens == [field : Vary("field", DOMAIN Prefix, "ab"), option : Vary("choice", {"one", "two"}, "one"),
            look : Vary("look", {"plain", "pressed"}, "plain"), where : Vary("where", {"here", "there"}, "here"),
            paint : Vary("paint", {"dull", "bright"}, "dull"),
            report : Vary("report", {"none", "sound", "broken", "twice"}, "none"),
            claims : Vary("claimed", BOOLEAN, FALSE),
            accepted : Vary("accepted", {"none", "yes", "no"}, "none")]
Showings == [coverage : Vary("coverage", {"complete", "truncated", "failed"}, "complete"),
             field : Vary("sight", {"seen", "disputed", "weak", "absent"}, "seen"),
             option : Vary("listed", BOOLEAN, TRUE), shot : Vary("shot", BOOLEAN, TRUE),
             judged : Vary("judged", {"all", "artifacts"}, "all")]

NoVerdict == Evaluation("none", <<>>, {}, {})

JudgementInit ==
    /\ trial \in Trials /\ screen \in Screens /\ showing \in Showings
    /\ was = {} /\ outcome = NoOutcome /\ verdict = NoVerdict /\ stage = "observed"

\* Evaluation of the current world; a refused one fails the run.
StatusForEvaluation(e) ==
    IF e.status = "complete" THEN "done" ELSE IF e.status = "blocked" THEN "blocked" ELSE "running"
FinalStatus(e) == IF StatusForEvaluation(e) = "running" THEN "failed" ELSE StatusForEvaluation(e)
Settle(e, status) ==
    /\ stage' = IF ValidateTaskEvaluation(e, trial.task, Now) THEN status ELSE "refused"
    /\ verdict' = IF stage' = "done" THEN e ELSE NoVerdict
    /\ UNCHANGED <<trial, screen, showing, was, outcome>>
JudgeStep ==
    /\ stage \in {"observed", "acted"}
    /\ \E proposals \in JudgeProposals(trial.task, Now) :
         LET e == Compose(trial.task, Now, proposals) IN Settle(e, StatusForEvaluation(e))
\* After the agent's final response the run ends whatever the evaluation says.
JudgeFinal ==
    /\ stage = "running"
    /\ \E proposals \in JudgeProposals(trial.task, Now) :
         LET e == Compose(trial.task, Now, proposals) IN Settle(e, FinalStatus(e))

Act ==
    /\ stage = "running" /\ was = {}
    /\ \E q \in trial.request, s \in Screens, h \in Showings :
         /\ screen' = s /\ showing' = h
         /\ outcome' = LET b == Now a == World(s, h) IN ApplyEvidenceProfile(Project(b, a, q), b, a, q)
    /\ was' = {[screen |-> screen, showing |-> showing]}
    /\ stage' = "acted"
    /\ UNCHANGED <<trial, verdict>>

JudgementNext == JudgeStep \/ JudgeFinal \/ Act
JudgementSpec == JudgementInit /\ [][JudgementNext]_judgementVars

-----------------------------------------------------------------------------
(* Properties. *)

JudgementTypeOK ==
    /\ trial \in Trials /\ screen \in Screens /\ showing \in Showings
    /\ stage \in {"observed", "running", "acted", "done", "blocked", "failed", "refused"}
    /\ outcome.change \in {"changed", "unchanged", "unknown"}

\* Criteria the composer takes and the validator does not, or the other way round.
AtOdds(c) ==
    \/ c.kind = "artifact_exists" /\ (c.targets # {} \/ c.assurance # "none")
    \/ c.targets # {} /\ c.kind \in {"fact_equals", "target_state_equals", "user_acceptance"} /\ c.subject \notin c.targets
    \/ c.targets # {} /\ c.kind = "semantic_rubric" /\ c.outputs # {}
NotReviewable(task) == ~Supported(task) \/ ~WellFormed(task, IdsOf(task)) \/ \E c \in ToSet(task.criteria) : AtOdds(c)
\* The composer and the validator are written apart and read the same
\* evidence by their own rules: whatever the sources show, hide or dispute and
\* whatever the judge answers, what one composes the other accepts; a run is
\* failed for an evaluation only where the criteria themselves are at odds.
EvaluationIsAccepted == stage = "refused" => NotReviewable(trial.task)

\* What is really there for a criterion to compare: what its subject holds, or,
\* when it names none, what every control that is shown holds.
ScreenValues(c) ==
    (IF c.subject = "field" \/ (c.subject = "" /\ showing.field # "absent") THEN {screen.field} ELSE {})
    \cup (IF c.subject = "option" \/ (c.subject = "" /\ showing.option) THEN {screen.option} ELSE {})
\* The truth of a criterion on the real screen.  The mechanical reading of a
\* control that is shown in part compares the part, and is taken as it is.
Truth(c) ==
    LET holds(p) == IF p THEN "satisfied" ELSE "unsatisfied"
        decided == verdict.decisions[c.id]
        sound == \A r \in decided.refs : r \in Now.records /\ Assured(c, r)
        independent == \E r \in decided.refs : InScope(c, r) /\ ~IsOwnFact(c, r)
        inScope == \A r \in decided.refs : InScope(c, r)
        equal == trial.part # "whole" \/ c.expected \in ScreenValues(c)
    IN  CASE c.kind \in {"fact_equals", "target_state_equals"} ->
                IF trial.part # "whole" THEN decided.status ELSE holds(c.expected \in ScreenValues(c))
          [] c.kind = "artifact_exists" ->
                holds(\/ c.subject = "report" /\ screen.report # "none"
                      \/ c.subject = "screenshot" /\ showing.shot)
          [] c.kind = "user_acceptance" -> holds(screen.accepted = "yes")
          [] c.kind = "hybrid" -> holds(decided.status = "satisfied" /\ sound /\ independent /\ equal)
          [] OTHER -> IF sound /\ inScope THEN decided.status ELSE "unknown"

\* A run is done only when the success expression is true of the real screen:
\* every named value is really there, the user really agreed, a rubric was
\* granted on evidence that was shown, in its scope and of its assurance, and
\* for a hybrid beside the fact it compares; every requested output exists
\* once and its file has the required digest; and what must be decided by an
\* authority was.
CompleteIsEarned ==
    stage = "done" =>
        LET task == trial.task IN
        /\ Evaluates(ExpressionOf(task), [id \in IdsOf(task) |-> Truth(CriterionOf(task, id))]) = "satisfied"
        /\ \A key \in task.outputs : Cardinality(OutputRecords(key, Now)) = 1
        /\ task.integrity # {} => screen.report = "sound"
        /\ \A id \in task.authoritative : \A r \in verdict.decisions[id].refs : Profile[r.source].assurance = "authoritative"

\* An action is reported to have met its request only if the control really
\* holds the requested value, and to have missed it only if it does not,
\* though the control may be shown in part, disputed or read by pixels; a
\* reported change is a change of the screen or of what is shown of it, and
\* "unchanged" is never said of a face of the screen, or of a control shown
\* whole, that moved.
OutcomeIsTrue ==
    \A b \in was, q \in trial.request :
        LET value(s) == IF q.target = "option" THEN s.option ELSE s.field
        IN  /\ outcome.post = "satisfied" => value(screen) = q.value
            /\ outcome.post = "unsatisfied" => value(screen) # q.value
            /\ outcome.change = "changed" => b.screen # screen \/ b.showing # showing
            /\ outcome.change = "unchanged" /\ outcome.method = "visual" => Face(b.screen) = Face(screen)
            /\ outcome.change = "unchanged" /\ outcome.method = "native" /\ trial.part = "whole" =>
                    value(b.screen) = value(screen)

\* What is said of a task and of an action is earned on the real screen: a run that
\* is done, and every claim of an outcome about its request.
JudgementIsEarned == CompleteIsEarned /\ OutcomeIsTrue
=============================================================================
