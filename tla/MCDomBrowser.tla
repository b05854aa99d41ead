---------------------------- MODULE MCDomBrowser ----------------------------
(* Small pages: a form with its labels, the same form while it is sent, a    *)
(* dialog above it, buttons that share a class, controls hidden in each way,  *)
(* a frame, and a page whose head holds a void element.                      *)
EXTENDS DomBrowser

LOCAL Tag(tag, is) ==
    [k |-> "open", tag |-> tag, is |-> is, id |-> "", name |-> "", class |-> "", aria |-> "", role |-> "", type |-> "",
     for |-> "", word |-> "", tab |-> FALSE, off |-> FALSE, expanded |-> FALSE, hide |-> "no"]
LOCAL End(tag) == [Tag(tag, "") EXCEPT !.k = "close"]
LOCAL Word(w) == [Tag("", "") EXCEPT !.k = "word", !.word = w]
LOCAL HeadOf(inside) == <<Tag("head", "head")>> \o inside \o <<End("head")>>
LOCAL Button(is, id, class, w) == <<[Tag("button", is) EXCEPT !.id = id, !.class = class], Word(w), End("button")>>
LOCAL Label(for, w) == <<[Tag("label", "label") EXCEPT !.for = for], Word(w), End("label")>>
LOCAL Page(url, tokens, layers) ==
    [url |-> url, tokens |-> tokens, layers |-> layers, frames |-> 0, long |-> FALSE, leads |-> <<>>]

LOCAL Form(off, open) ==
    HeadOf(<<Tag("meta", "meta")>>)
    \o <<Tag("form", "form")>> \o Label("name", "Name")
    \o <<[Tag("input", "field") EXCEPT !.id = "name"]>>
    \o <<Tag("div", "box")>> \o Label("", "Kind") \o <<[Tag("select", "kind") EXCEPT !.expanded = open], End("select"), End("div")>>
    \o <<[Tag("button", "save") EXCEPT !.name = "save", !.off = off], Word("Save"), End("button")>>
    \o <<End("form")>>
LOCAL Twins == Button("first", "", "btn", "One") \o Button("second", "", "btn", "Two") \o Button("ok", "ok", "", "Ok")
LOCAL Hidden ==
    Button("shown", "shown", "", "Shown")
    \o <<[Tag("div", "marked") EXCEPT !.hide = "mark"]>> \o Button("inmarked", "inmarked", "", "Marked") \o <<End("div")>>
    \o <<[Tag("button", "gone") EXCEPT !.hide = "both"], Word("Gone"), End("button")>>
    \o <<[Tag("button", "faint") EXCEPT !.hide = "css"], Word("Faint"), End("button")>>
    \o <<[Tag("div", "grip") EXCEPT !.tab = TRUE, !.id = "grip"], End("div")>>
    \o <<[Tag("label", "tick") EXCEPT !.for = ""], Word("Agree"), [Tag("input", "agree") EXCEPT !.type = "checkbox", !.name = "agree"],
         End("label")>>

\* 1 form, 2 sending, 3 opened, 4 a dialog over the form, 5 twins, 6 hidden, 7 skipped, 8 elsewhere, 9 long with a frame
PageTable ==
    <<[Page("a", Form(FALSE, FALSE), {}) EXCEPT !.leads = [save |-> 2]],
      Page("a", Form(TRUE, FALSE), {}),
      Page("a", Form(FALSE, TRUE), {}),
      Page("a", Form(FALSE, FALSE) \o <<Tag("div", "dialog")>> \o Button("yes", "yes", "", "Yes") \o <<End("div")>>,
           {[members |-> {"dialog", "yes"}, over |-> {}, blocks |-> TRUE]}),
      Page("b", Twins, {[members |-> {"bar"}, over |-> {"second", "ok"}, blocks |-> FALSE]}),
      Page("b", Hidden, {}),
      Page("c", HeadOf(<<Tag("base", "base")>>) \o Button("ok", "ok", "", "Ok"), {}),
      Page("c", Button("ok", "ok", "", "Ok"), {}),
      [Page("d", Button("ok", "ok", "", "Ok"), {}) EXCEPT !.frames = 1, !.long = TRUE]>>

\* Compared with itself, the table is evaluated whole.
DocumentTable == CHOOSE d \in {DocumentsOf(PageTable)} : d = d

LOCAL Web(start, next, uses, v, l, d) ==
    [start |-> start, visits |-> v, looks |-> l, deeds |-> d,
     rendered |-> "rendered" \in uses, ax |-> "ax" \in uses, eyes |-> "eyes" \in uses, globals |-> "globals" \in uses,
     next |-> [p \in DOMAIN PageTable |-> IF p \in DOMAIN next THEN next[p] ELSE {}]]

WebTable ==
    {Web(1, <<{2, 4}, {1}>>, {"ax"}, 2, 1, 1),
     Web(1, <<{3}, {}, {8}>>, {"ax", "eyes"}, 1, 2, 1),
     Web(1, <<{4}>>, {"eyes"}, 1, 2, 0),
     Web(8, <<>>, {"ax", "globals"}, 1, 2, 1),
     Web(5, <<{}, {}, {}, {}, {6}, {5}>>, {"rendered", "ax"}, 1, 2, 1),
     Web(6, <<{}, {}, {}, {}, {}, {7}, {9}>>, {"ax"}, 2, 1, 0)}
=============================================================================
