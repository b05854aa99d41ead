-------------------------- MODULE MCActionDispatch --------------------------
(* ActionDispatch for TLC: a pool of affordances that differ in one declared *)
(* fact at a time, so that pages of two or three of them agree, disagree in  *)
(* part, or change a fact of an action between the prompt and the answer.    *)
EXTENDS ActionDispatch

Press == [id |-> "f1", surface |-> "dom", target |-> "button", action |-> "activate",
          role |-> "button", hint |-> "e", external |-> FALSE, undo |-> Nil, op |-> Nil,
          asserted |-> Low, dests |-> {}, form |-> "plain", resource |-> "r1", rank |-> 1]

Drag == [Press EXCEPT !.id = "f2", !.target = "card", !.action = "drag", !.dests = {"d1", "d2"}]

MCPages ==
    LET again   == [Press EXCEPT !.id = "f3", !.rank = 2]
        risky   == [Press EXCEPT !.asserted = High]
        gone    == [Press EXCEPT !.undo = "irreversible"]
        link    == [Press EXCEPT !.id = "f4", !.target = "link", !.role = "link"]
        reveal  == [Press EXCEPT !.id = "f5", !.op = "reveal", !.hint = Nil, !.resource = Nil]
        leak    == [reveal EXCEPT !.external = TRUE]
        read    == [Press EXCEPT !.id = "f6", !.action = "read"]
        thing   == [link EXCEPT !.id = "f7", !.surface = "wot"]
        seen    == [Press EXCEPT !.id = "f8", !.surface = "visual"]
        partly  == [Drag EXCEPT !.id = "f9", !.form = "other", !.dests = {"d2", "d3"}]
        inside  == [Drag EXCEPT !.id = "f10", !.form = "other", !.dests = {"d1"}]
        onward  == [Drag EXCEPT !.id = "f11", !.dests = {"d3"}, !.asserted = High]
        rival   == [Press EXCEPT !.id = "f12", !.form = "other"]
    IN  {{Press}, {Press, again}, {risky, again}, {gone, link}, {link, thing},
         {reveal, read}, {leak, seen}, {Drag, partly}, {Drag, inside}, {Drag, onward, partly},
         {Press, rival}, {}}

MCGoals ==
    [profile : {"read_only"}, allowed : {{}, {"e"}}, forbidden : {{}}, owed : {Nil}]
    \cup [profile : {"medium"}, allowed : {{"e"}, {"e", "h"}}, forbidden : {{}, {"x"}}, owed : {Nil}]
    \cup [profile : {"low"}, allowed : {{"e"}}, forbidden : {{}, {"x"}}, owed : {Nil, "r1", "r2"}]

MCContested == {{}, {"card"}}
=============================================================================
