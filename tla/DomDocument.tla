---------------------------- MODULE DomDocument ----------------------------
(* The document model of the DOM surface: how the text of a page becomes a   *)
(* list of controls, each with an identity, a label and a selector, and what *)
(* a selector finds in the live page.  A page is the sequence of its tokens: *)
(* opening tags with the attributes that matter, closing tags and words.     *)
(* The live page (which element a selector finds, what is painted, what lies *)
(* on top) is the browser's and external.                                    *)
EXTENDS Naturals, Sequences, SequencesExt, FiniteSets

InteractiveTags == {"a", "button", "input", "select", "textarea", "label", "form", "option"}
StripTags == {"script", "noscript", "head", "svg", "meta", "link"}
VoidStripTags == {"meta", "link"}
VoidTags == {"base", "img", "input"}
ProxyTags == {"form", "label"}
LabelableTags == {"input", "select", "textarea"}
LabelContainerTags == {"div", "form", "section"}
ClickRoles == {"button", "link", "tab", "checkbox", "radio"}
ActionRoles == ClickRoles \cup {"textbox", "combobox"}

----------------------------------------------------------------------------
(* The live page.                                                            *)

\* The elements that enclose each token, the outermost first, and itself.
Nesting(tokens) ==
    LET isOpen(i) == tokens[i].k = "open"
        stack[n \in 0..Len(tokens)] ==
            IF n = 0 THEN <<>>
            ELSE IF tokens[n].k = "close" THEN Front(stack[n - 1])
            ELSE IF isOpen(n) /\ tokens[n].tag \notin VoidTags \cup VoidStripTags THEN Append(stack[n - 1], n)
            ELSE stack[n - 1]
    IN [i \in DOMAIN tokens |-> IF isOpen(i) THEN Append(stack[i - 1], i) ELSE stack[i - 1]]

\* What the browser paints: `hide` is "no", "both" (hidden by an attribute or an inline style), "mark"
\* (a class or aria attribute that says hidden and paints all the same) or "css" (by a style sheet).
Painted(tokens) ==
    LET nest == Nesting(tokens)
    IN {i \in DOMAIN tokens : \A j \in ToSet(nest[i]) :
            /\ tokens[j].hide \notin {"both", "css"}
            /\ tokens[j].tag \notin {"head", "script", "noscript", "meta", "link", "base"}}

\* The entries of a sequence at some of its places, in their order.
EntriesAt(s, places) ==
    LET upTo[n \in 0..Len(s)] ==
            IF n = 0 THEN <<>> ELSE IF n \in places THEN Append(upTo[n - 1], s[n]) ELSE upTo[n - 1]
    IN upTo[Len(s)]

\* The text of the page a capture reads: of the whole document, or of its painted part.
PublicHtml(tokens, rendered) == IF rendered THEN EntriesAt(tokens, Painted(tokens)) ELSE tokens

\* The place of an element among its siblings of the same tag.
SiblingRank(tokens, nest, i) ==
    Cardinality({j \in 1..i : /\ tokens[j].k = "open" /\ tokens[j].tag = tokens[i].tag
                              /\ Front(nest[j]) = Front(nest[i])})

IsFoundBy(tokens, nest, selector, i) ==
    LET t == tokens[i]
    IN /\ t.k = "open" /\ t.tag # ""
       /\ CASE selector.by = "id" -> t.id = selector.of
            [] selector.by = "name" -> t.tag = selector.tag /\ t.name = selector.of
            [] selector.by = "class" -> t.tag = selector.tag /\ t.class = selector.of
            [] selector.by = "nth" -> t.tag = selector.tag /\ SiblingRank(tokens, nest, i) = selector.nth

Find(tokens, selector) ==
    LET nest == Nesting(tokens) IN {i \in DOMAIN tokens : IsFoundBy(tokens, nest, selector, i)}

\* querySelector and page.click: the first element the selector finds, {} or {its name}.
NamesOfFirst(tokens, hits) == {tokens[i].is : i \in {j \in hits : \A k \in hits : j <= k}}
FindFirst(tokens, selector) == NamesOfFirst(tokens, Find(tokens, selector))

----------------------------------------------------------------------------
(* The parser.                                                               *)

\* _style_hides, _class_hides, hidden and aria-hidden: what the author's own attributes say.
Hides(t) == t.hide \in {"both", "mark"}

Interactive(t) == t.tag \in InteractiveTags \/ t.role \in ActionRoles \/ t.tab

NodeOf(s, t) ==
    LET boxes == {i \in DOMAIN s.tree : s.tree[i].tag \in LabelContainerTags}
    IN [t |-> t,
        nth |-> 1 + Cardinality({i \in DOMAIN s.nodes : s.nodes[i].t.tag = t.tag}),
        parent |-> IF s.open = <<>> THEN 0 ELSE Last(s.open),
        box |-> IF boxes = {} THEN "" ELSE s.tree[CHOOSE i \in boxes : \A j \in boxes : j <= i].is,
        words |-> <<>>]

HandleStart(s, t) ==
    LET d == s.depth + 1
        root == IF t.tag \in VoidTags THEN s.tree ELSE Append(s.tree, t)
        hidden == (\E i \in DOMAIN s.tree : Hides(s.tree[i])) \/ (Hides(t) /\ t.tag # "select")
    IN CASE t.tag \in VoidStripTags -> s
         [] s.skip # 0 /\ t.tag \notin VoidStripTags -> [s EXCEPT !.depth = d]
         [] s.skip = 0 /\ t.tag \in StripTags \ VoidStripTags -> [s EXCEPT !.depth = d, !.skip = d]
         [] OTHER ->
              IF hidden \/ ~Interactive(t) THEN [s EXCEPT !.depth = d, !.tree = root]
              ELSE [s EXCEPT !.depth = d, !.tree = root, !.nodes = Append(@, NodeOf(s, t)),
                             !.open = IF t.tag \in VoidTags THEN @ ELSE Append(@, Len(s.nodes) + 1)]

HandleEnd(s, t) ==
    [s EXCEPT !.skip = IF @ = s.depth THEN 0 ELSE @,
              !.open = IF @ # <<>> /\ s.nodes[Last(@)].t.tag = t.tag THEN Front(@) ELSE @,
              !.tree = IF @ # <<>> /\ Last(@).tag = t.tag THEN Front(@) ELSE @,
              !.depth = IF @ = 0 THEN 0 ELSE @ - 1]

\* A word goes to the innermost open control, also when an element that is not kept holds it.
HandleData(s, t) ==
    IF s.skip # 0 \/ s.open = <<>> THEN s
    ELSE [s EXCEPT !.nodes[Last(s.open)].words = Append(@, t.word)]

HandleToken(s, t) ==
    CASE t.k = "open" -> HandleStart(s, t) [] t.k = "close" -> HandleEnd(s, t) [] t.k = "word" -> HandleData(s, t)

Parse(tokens) ==
    LET upTo[n \in 0..Len(tokens)] ==
            IF n = 0 THEN [depth |-> 0, skip |-> 0, open |-> <<>>, tree |-> <<>>, nodes |-> <<>>]
            ELSE HandleToken(upTo[n - 1], tokens[n])
    IN upTo[Len(tokens)].nodes

----------------------------------------------------------------------------
(* Labels, identity and selectors.                                           *)

\* _associate_control_labels: the control a label speaks of: by name, inside it, or the next one in
\* the same container before another label of that container.
LabelTargets(nodes, i) ==
    LET tag == [n \in DOMAIN nodes |-> nodes[n].t.tag]
        explicit == {n \in DOMAIN nodes : tag[n] \in LabelableTags /\ nodes[n].t.id # "" /\ nodes[n].t.id = nodes[i].t.for}
        nested == {n \in DOMAIN nodes : tag[n] \in LabelableTags /\ nodes[n].parent = i}
        adjacent == {n \in DOMAIN nodes : /\ n > i /\ tag[n] \in LabelableTags /\ nodes[n].box = nodes[i].box
                                          /\ \A m \in (i + 1)..n : tag[m] = "label" => nodes[m].box # nodes[i].box}
        least(S) == {n \in S : \A m \in S : n <= m}
    IN IF tag[i] # "label" \/ nodes[i].words = <<>> THEN {}
       ELSE IF explicit # {} THEN {n \in explicit : \A m \in explicit : m <= n}
       ELSE IF nested # {} THEN least(nested) ELSE least(adjacent)

Associated(nodes, n) ==
    LET labels == {i \in DOMAIN nodes : n \in LabelTargets(nodes, i)}
    IN IF labels = {} \/ nodes[n].t.aria # "" THEN <<>>
       ELSE nodes[CHOOSE i \in labels : \A j \in labels : j <= i].words

\* _label_for
LabelFor(nodes, n) ==
    LET t == nodes[n].t
        parent == nodes[n].parent
        wrapped == IF t.tag = "input" /\ t.type = "checkbox" /\ parent # 0 /\ nodes[parent].t.tag = "label"
                  THEN nodes[parent].words ELSE <<>>
        choices == <<wrapped, IF t.aria = "" THEN <<>> ELSE <<t.aria>>, Associated(nodes, n), nodes[n].words,
                     IF t.name = "" THEN <<>> ELSE <<t.name>>, IF t.id = "" THEN <<>> ELSE <<t.id>>,
                     IF t.class = "" THEN <<>> ELSE <<t.class>>, <<t.tag>>>>
    IN choices[CHOOSE i \in DOMAIN choices : choices[i] # <<>> /\ \A j \in 1..(i - 1) : choices[j] = <<>>]

\* _selector_for
SelectorFor(node) ==
    LET t == node.t
        at(by, of, nth) == [by |-> by, tag |-> t.tag, of |-> of, nth |-> nth]
    IN IF t.id # "" THEN at("id", t.id, 0)
       ELSE IF t.name # "" THEN at("name", t.name, 0)
       ELSE IF t.class # "" THEN at("class", t.class, 0)
       ELSE at("nth", "", node.nth)

\* _action_for
ActionFor(t) ==
    CASE t.role \in ClickRoles -> "click"
      [] t.role = "textbox" -> "type"
      [] t.role = "combobox" -> "select"
      [] t.role \notin ActionRoles /\ t.tag = "input" ->
            IF t.type \in {"checkbox", "submit", "readonly"} THEN "click" ELSE "type"
      [] t.role \notin ActionRoles /\ t.tag \in {"button", "a"} -> "click"
      [] t.role \notin ActionRoles /\ t.tag \in {"select", "textarea"} -> IF t.tag = "select" THEN "select" ELSE "type"
      [] OTHER -> IF t.tab THEN "press" ELSE "click"

\* Labels and forms explain other controls unless they act themselves, and a label that names or
\* holds a control is never one of its own.
IsPlannerNode(nodes, n) ==
    LET t == nodes[n].t
    IN /\ t.tag \in ProxyTags => t.role \in ActionRoles \/ t.tab
       /\ t.tag = "label" => /\ \A m \in DOMAIN nodes : nodes[m].parent # n
                             /\ \A m \in DOMAIN nodes : nodes[m].t.tag \in LabelableTags => nodes[m].t.id # t.for

\* A control of the model, and what its revision says of it besides.
ControlOf(nodes, n) ==
    LET t == nodes[n].t
    IN [id |-> <<t.tag, nodes[n].nth>>, role |-> t.role, label |-> LabelFor(nodes, n), selector |-> SelectorFor(nodes[n]),
        enabled |-> ~t.off, action |-> ActionFor(t), is |-> t.is, means |-> <<t.id, t.name, t.expanded>>]

PlannerControls(nodes) ==
    EntriesAt([n \in DOMAIN nodes |-> ControlOf(nodes, n)], {n \in DOMAIN nodes : IsPlannerNode(nodes, n)})

Entry(c) == <<c.action, c.role, c.label, c.selector>>

\* What is computed from the controls: the revision of the page, and the inventory that decides
\* whether a changed page may be captured again.
Versioned(url, controls) ==
    [controls |-> controls,
     revision |-> <<url, [i \in DOMAIN controls |-> <<controls[i].id, controls[i].role, controls[i].label,
                                                     controls[i].enabled, controls[i].means>>]>>,
     inventory |-> {<<Entry(c), Cardinality({i \in DOMAIN controls : Entry(controls[i]) = Entry(c)})>> : c \in ToSet(controls)}]

\* DomAdapter.transduce
Transduce(url, tokens) == Versioned(url, PlannerControls(Parse(tokens)))

\* What identifies a control between captures: everything but the element itself.
Fingerprint(c) == <<c.id, c.role, c.label, c.selector, c.enabled>>

\* A void element inside an element the parser skips keeps it skipping beyond that element's end.
StripRunsOn(tokens) ==
    LET nest == Nesting(tokens)
    IN \E i \in DOMAIN tokens : /\ tokens[i].tag \in VoidTags
                                 /\ \E j \in ToSet(nest[i]) : tokens[j].tag \in StripTags

\* The controls a reader of the page sees: painted, and not called hidden by their author.
SeenBy(s) ==
    LET nest == Nesting(s)
    IN {s[i].is : i \in {j \in Painted(s) : /\ s[j].k = "open" /\ s[j].tag \in InteractiveTags \ ProxyTags
                                            /\ \A k \in ToSet(nest[j]) : s[k].hide # "mark"}}

SelectorsOf(models) ==
    UNION {UNION {UNION {{c.selector : c \in ToSet(m[r].controls)} : r \in BOOLEAN} : m \in Range(byUrl)} : byUrl \in Range(models)}

Tables(screens, models, selectors) ==
    [p \in DOMAIN screens |->
        [model |-> models[p],
         shown |-> {screens[p].tokens[i].is : i \in Painted(screens[p].tokens)},
         seen |-> SeenBy(screens[p].tokens),
         skips |-> StripRunsOn(screens[p].tokens),
         found |-> [q \in selectors |-> Cardinality(Find(screens[p].tokens, q))],
         first |-> [q \in selectors |-> FindFirst(screens[p].tokens, q)]]]

TablesOf(screens, models) == Tables(screens, models, SelectorsOf(models))

\* Each page: its models under every url, of the whole document and of its painted part; what is
\* painted and seen; how many elements each selector finds, and which is the first.
DocumentsOf(screens) ==
    TablesOf(screens, [p \in DOMAIN screens |->
                         [u \in {screens[q].url : q \in DOMAIN screens} |->
                            [r \in BOOLEAN |-> Transduce(u, PublicHtml(screens[p].tokens, r))]]])
=============================================================================
