-------------------------- MODULE MCTurnDelivery --------------------------
(* The pages of a model run: a form that has the focus while a control       *)
(* outside it is marked focused too; a list with a control to drag and an    *)
(* issue; a browser's own controls beside a field; names that are also       *)
(* words for operations and roles.                                           *)
EXTENDS TurnDelivery

LOCAL Control(t, op, role, label) ==
    [target |-> t, op |-> op, dests |-> <<>>, kind |-> "entity", role |-> role, label |-> label]
LOCAL BrowserControl(t, op) ==
    [target |-> t, op |-> op, dests |-> <<>>, kind |-> "browser", role |-> "browser", label |-> {}]

LOCAL Plain(options) ==
    LET ts == {o.target : o \in ToSet(options)} IN
    [options |-> options, region |-> [t \in ts |-> "main"],
     order |-> [main |-> 3, form |-> 1, list |-> 5], collections |-> {}, forms |-> {},
     holders |-> {}, focused |-> {}, visible |-> ts, stateful |-> {}, issues |-> <<>>]

FormPage ==
    [Plain(<<Control("E1", "click", "button", {"open"}), Control("E2", "fill", "textbox", {"name"}),
             Control("E3", "click", "button", {"save"}), Control("E5", "fill", "textbox", {"mail"}),
             BrowserControl("E4", "goto")>>)
     EXCEPT !.region = [t \in DOMAIN @ |-> IF t \in {"E2", "E3", "E5"} THEN "form" ELSE "main"], !.forms = {"form"},
            !.holders = {"E2"}, !.focused = {"E1", "E2"}]
ListPage ==
    [Plain(<<[Control("E1", "drag", "row", {"first"}) EXCEPT !.dests = <<"E2", "E3">>],
             Control("E2", "click", "row", {"second"}), Control("E3", "click", "row", {"third"})>>)
     EXCEPT !.region = [t \in {"E1", "E2", "E3"} |-> "list"], !.collections = {"list"},
            !.stateful = {"E3"}, !.issues = <<"I1">>]
BrowserPage ==
    [Plain(<<Control("E1", "fill", "textbox", {"goto", "page"}), Control("E2", "click", "link", {"page"}),
             Control("E4", "click", "link", {"more"}),
             Control("E5", "click", "link", {"other"}), BrowserControl("E3", "goto")>>)
     EXCEPT !.visible = {"E2"}]
MCSites == [form |-> FormPage, list |-> ListPage, browser |-> BrowserPage]
=============================================================================
