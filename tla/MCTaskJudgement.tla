--------------------------- MODULE MCTaskJudgement ---------------------------
(* One trial for each kind of criterion and each way two of them meet, and   *)
(* for each kind of action.  "ab" is what a control of bounded or segmented  *)
(* exposure shows of the longer texts.                                       *)
EXTENDS TaskJudgement

MCPrefix == [x |-> "x", ab |-> "ab", abc |-> "ab", abd |-> "ab"]

LOCAL Criterion(id, kind, subject, assurance, targets, outputs) ==
    [id |-> id, kind |-> kind, subject |-> subject, expected |-> "ab", assurance |-> assurance,
     targets |-> targets, outputs |-> outputs]
LOCAL Value == Criterion("value", "target_state_equals", "field", "none", {}, {})
LOCAL AnyValue == Criterion("any", "fact_equals", "", "structural", {}, {})
LOCAL Report == Criterion("report", "artifact_exists", "report", "none", {}, {})
LOCAL Rubric == Criterion("rubric", "semantic_rubric", "", "structural", {"field"}, {})
LOCAL WideRubric == Criterion("wide", "semantic_rubric", "", "none", {"field"}, {"report"})
LOCAL Mixed == Criterion("mixed", "hybrid", "field", "none", {"field", "option"}, {})
LOCAL Agreed == Criterion("agreed", "user_acceptance", "answer", "none", {}, {})

LOCAL C(id) == Node("criterion", {}, id)
LOCAL Task(criteria) == [criteria |-> criteria, expression |-> <<>>, outputs |-> {}, integrity |-> {},
                         authoritative |-> {}, strictLineage |-> FALSE]
LOCAL NoRequest == [op |-> "scroll", target |-> "page", value |-> "", expects |-> FALSE, navigated |-> FALSE]
LOCAL Judged(task, varies) == [task |-> task, request |-> {}, varies |-> varies, part |-> "whole"]
LOCAL Fill == [NoRequest EXCEPT !.op = "fill", !.target = "field", !.value = "ab"]
LOCAL Acted(request, varies, part) ==
    [task |-> Task(<<Agreed>>), request |-> {request}, varies |-> varies, part |-> part]

MCTrials ==
    {Judged(Task(<<Value>>), {"field", "coverage", "sight"}),
     Judged([Task(<<AnyValue>>) EXCEPT !.outputs = {"report"}, !.integrity = {"report"}],
            {"field", "report", "listed", "sight", "shot"}),
     Judged([Task(<<Report>>) EXCEPT !.outputs = {"report"}], {"report", "coverage", "shot"}),
     Judged(Task(<<Rubric, Mixed>>), {"field", "coverage", "sight", "judged"}),
     Judged([Task(<<Rubric, Value>>) EXCEPT !.strictLineage = TRUE,
                !.expression = <<C("rubric"), C("value"), Node("not", {2}, ""), Node("any", {1, 3}, "")>>],
            {"field", "coverage", "sight"}),
     Judged(Task(<<WideRubric>>), {"report", "coverage", "judged"}),
     Judged([Task(<<Agreed, Value>>) EXCEPT !.authoritative = {"agreed", "value"},
                !.expression = <<C("agreed"), C("value"), Node("any", {1, 2}, "")>>],
            {"field", "accepted", "coverage"}),
     Judged(Task(<<Agreed>>), {"accepted", "claimed"}),
     Judged([Task(<<Agreed>>) EXCEPT !.authoritative = {"nobody"}], {"accepted"}),
     Judged(Task(<<[Value EXCEPT !.kind = "unheard"]>>), {}),
     Judged([Task(<<Value>>) EXCEPT !.expression = <<C("nobody")>>], {}),
     Judged(Task(<<[AnyValue EXCEPT !.targets = {"page"}]>>), {"field", "listed"}),
     Judged([Task(<<>>) EXCEPT !.outputs = {"report"}], {"report"}),
     Judged(Task(<<>>), {})}
    \cup {Acted(Fill, {"field", "coverage", "sight"}, part) : part \in {"whole", "cut", "segment"}}
    \cup {Acted([Fill EXCEPT !.navigated = TRUE], {"field", "where", "shot"}, "whole"),
          Acted([NoRequest EXCEPT !.op = "choose", !.target = "option", !.value = "two"],
                {"choice", "coverage", "listed"}, "whole"),
          Acted(NoRequest, {"where"}, "whole")}
    \cup {Acted([NoRequest EXCEPT !.op = "open", !.target = target, !.expects = (target = "page")],
                {IF target = "link" THEN "look" ELSE "where", "paint", "coverage", "shot"}, "whole") : target \in {"link", "page"}}
=============================================================================
