---------------------------- MODULE DomBrowser ----------------------------
(* A browser session on its own thread, and the DOM and visual adapters that  *)
(* use it: the launch, a capture in steps while the page goes on by itself,   *)
(* the projection into an observation, the picture taken beside it, the probe *)
(* before an action and the action, each a command that waits in the thread's *)
(* queue and whose caller may give up while the thread goes on.               *)
EXTENDS DomDocument

CONSTANTS
    WebPages,       \* the pages: url, tokens, layers, frames, whether its text is long, where controls lead
    Documents,      \* their document models
    Webs            \* the behaviours: the first page, how pages change, what the deployment reads and
                    \* uses, and the bounds: changes by itself, captures and actions asked for

\* A page is the text a browser serializes: tags have names.  No page has the number 0, and a page
\* leads to pages.
ASSUME BrowserAssumption ==
    /\ Documents = DocumentsOf(WebPages)
    /\ 0 \notin DOMAIN WebPages
    /\ \A w \in Webs :
         /\ w.start \in DOMAIN WebPages /\ w.visits \in Nat /\ w.looks \in Nat /\ w.deeds \in Nat /\ w.rendered \in BOOLEAN
         /\ \A p \in DOMAIN WebPages : w.next[p] \subseteq DOMAIN WebPages
    /\ \A p \in DOMAIN WebPages :
         /\ \A e \in DOMAIN WebPages[p].leads : WebPages[p].leads[e] \in DOMAIN WebPages
         /\ LET tokens == WebPages[p].tokens
            IN /\ tokens \in Seq(ToSet(tokens))
               /\ \A t \in ToSet(tokens) :
                    /\ t.k \in {"open", "close", "word"}
                    /\ t.k = "open" => t.tag # ""
                    /\ t.hide \in {"no", "both", "mark", "css"}

VARIABLES
    web,       \* [start, next, rendered, ax, eyes, globals, visits, looks, deeds]: the site and the deployment
    tabs,      \* the open tabs in order: [id, page]
    focus,     \* the id of the tab the session drives; it may have been closed
    visits,    \* changes of the page so far
    thread,    \* the owner thread: [at, tries, order, got]
    orders,    \* the commands that wait for it: [name, arg, heard]
    client,    \* the caller: [at, held, looks, shot]
    view,      \* {} or {the current observation}
    unframed,   \* {} or {a capture whose picture may still be asked for}
    deeds      \* what became of each action: [chosen, told, landed, met, on, when]

browserVars == <<web, tabs, focus, visits, thread, orders, client, view, unframed, deeds>>

AtEase == [at |-> "idle", tries |-> 0, order |-> {}, got |-> <<>>]
ThreadPlaces == {"launching", "idle", "html", "url", "controls", "layers", "shot", "final", "gone"}
DeskPlaces == {"launch", "free", "capture", "tabs", "frame", "probe", "act", "closing", "closed", "failed"}

BrowserTypeOK ==
    /\ web \in Webs /\ visits \in 0..web.visits
    /\ thread.at \in ThreadPlaces /\ client.at \in DeskPlaces
    /\ client.looks \in 0..web.looks /\ Len(deeds) <= web.deeds

----------------------------------------------------------------------------
(* The page the session drives, and the world outside.                       *)

\* The page of the focused tab; 0 when that tab has been closed.
Live == IF \E i \in DOMAIN tabs : tabs[i].id = focus
        THEN tabs[CHOOSE i \in DOMAIN tabs : tabs[i].id = focus].page ELSE 0
OtherTabs == EntriesAt(tabs, {i \in DOMAIN tabs : tabs[i].id # focus})
Tokens == WebPages[Live].tokens
Html(p) == Documents[p].model[WebPages[p].url][web.rendered]

ShowsPage(p) == tabs' = [i \in DOMAIN tabs |-> IF tabs[i].id = focus THEN [tabs[i] EXCEPT !.page = p] ELSE tabs[i]]

\* The page changes by itself: a timer, an answer of the server, a navigation of its own.
PageMovesOn ==
    /\ Live # 0 /\ visits < web.visits /\ thread.at \notin {"launching", "gone"}
    /\ \E p \in web.next[Live] : ShowsPage(p)
    /\ visits' = visits + 1
    /\ UNCHANGED <<web, focus, thread, orders, client, view, unframed, deeds>>

\* The site closes the tab the session drives, or opens one of its own beside it.
SiteTouchesTabs ==
    /\ web.globals /\ visits < web.visits /\ thread.at \notin {"launching", "gone"} /\ Live # 0
    /\ \/ tabs' = OtherTabs
       \/ /\ Len(tabs) < 2
          /\ tabs' = Append(tabs, [id |-> 3, page |-> web.start])
    /\ visits' = visits + 1
    /\ UNCHANGED <<web, focus, thread, orders, client, view, unframed, deeds>>

----------------------------------------------------------------------------
(* The proxy: one queue, one thread, and a caller that may give up.          *)

Order(name, arg) == [name |-> name, arg |-> arg, heard |-> TRUE]

\* ThreadBoundBrowserSession._call: the command joins the queue and its caller waits.
Sends(name, arg) == orders' = Append(orders, Order(name, arg))

\* The thread has no more commands than its caller waits for: nobody answers one that was given up.
Listened == thread.order # {} /\ \A o \in thread.order : o.heard
Deaf(s) == [i \in DOMAIN s |-> [s[i] EXCEPT !.heard = FALSE]]

\* The next command of the queue; None ends the thread, which closes the browser.
TakeOrder ==
    /\ thread.at = "idle" /\ thread.order = {} /\ orders # <<>>
    /\ orders' = Tail(orders)
    /\ thread' = IF Head(orders).name = "stop" THEN [AtEase EXCEPT !.at = "gone"]
                 ELSE [AtEase EXCEPT !.order = {Head(orders)},
                                   !.at = IF Head(orders).name = "capture" THEN "html" ELSE "idle"]
    /\ UNCHANGED <<web, tabs, focus, visits, client, view, unframed, deeds>>

\* BrowserSession.launch: three attempts to load the first page, then the browser is closed again.
LaunchAttempt(loads) ==
    /\ thread.at = "launching"
    /\ IF loads THEN thread' = AtEase
       ELSE IF thread.tries < 2 THEN thread' = [thread EXCEPT !.tries = @ + 1]
       ELSE thread' = [AtEase EXCEPT !.at = "gone"]
    /\ client' = IF client.at # "launch" THEN client
               ELSE IF loads THEN [client EXCEPT !.at = "free"]
               ELSE IF thread.tries = 2 THEN [client EXCEPT !.at = "failed"] ELSE client
    /\ UNCHANGED <<web, tabs, focus, visits, orders, view, unframed, deeds>>

TellsDeed(what) == [deeds EXCEPT ![Len(deeds)].told = what]

\* command_timeout_s: the caller gives up the launch, a read, a probe or an action; the thread goes
\* on with it, or will come to it.  Only an action's own command is inside execute's try.
GiveUp ==
    /\ client.at \in {"launch", "capture", "tabs", "frame", "probe", "act", "closing"}
    /\ thread.at # "gone"
    /\ client' = [client EXCEPT !.at = CASE @ = "launch" -> "failed" [] @ = "closing" -> "closed" [] OTHER -> "free",
                            !.shot = <<>>]
    /\ thread' = [thread EXCEPT !.order = {[o EXCEPT !.heard = FALSE] : o \in @}]
    /\ orders' = Deaf(orders)
    /\ deeds' = IF client.at = "probe" THEN TellsDeed("raised")
                ELSE IF client.at = "act" THEN TellsDeed("unknown") ELSE deeds
    /\ UNCHANGED <<web, tabs, focus, visits, view, unframed>>

----------------------------------------------------------------------------
(* The capture: the thread reads one source after the other.                 *)

Reading(doc, again) ==
    [doc |-> doc, url |-> "", states |-> 0, layers |-> 0, shot |-> 0, end |-> 0, again |-> again, moves |-> visits]
OrderIs(name) == \E o \in thread.order : o.name = name
Wants(kind) == \E o \in thread.order : o.arg = kind

\* The command raises in the thread: its caller gets the exception, if it still listens.
CommandRaises ==
    /\ thread' = AtEase
    /\ client' = IF Listened THEN [client EXCEPT !.at = "free"] ELSE client

ReadsOn(at, got) == thread' = [thread EXCEPT !.at = at, !.got = got]

CaptureHtml ==
    /\ thread.at = "html"
    /\ IF Live = 0 THEN CommandRaises
       ELSE ReadsOn("url", Reading(Live, thread.got # <<>>)) /\ UNCHANGED client
    /\ UNCHANGED <<web, tabs, focus, visits, orders, view, unframed, deeds>>

CaptureUrl ==
    /\ thread.at = "url"
    /\ ReadsOn("controls", [thread.got EXCEPT !.url = WebPages[IF Live = 0 THEN thread.got.doc ELSE Live].url])
    /\ UNCHANGED <<web, tabs, focus, visits, orders, client, view, unframed, deeds>>

\* The accessibility tree and the states of the controls; a page that cannot be evaluated has none.
CaptureControls ==
    /\ thread.at = "controls"
    /\ ReadsOn("layers", [thread.got EXCEPT !.states = Live])
    /\ UNCHANGED <<web, tabs, focus, visits, orders, client, view, unframed, deeds>>

CaptureLayers ==
    /\ thread.at = "layers"
    /\ ReadsOn(IF Wants("visual") THEN "shot" ELSE "final", [thread.got EXCEPT !.layers = Live])
    /\ UNCHANGED <<web, tabs, focus, visits, orders, client, view, unframed, deeds>>

\* The screenshot between two readings of the viewport, which may have moved meanwhile.
CaptureShot(moved) ==
    /\ thread.at = "shot"
    /\ IF moved \/ Live = 0 THEN CommandRaises
       ELSE ReadsOn("final", [thread.got EXCEPT !.shot = Live]) /\ UNCHANGED client
    /\ UNCHANGED <<web, tabs, focus, visits, orders, view, unframed, deeds>>

ModelOf(got) == Documents[got.doc].model[got.url][web.rendered]

\* `moves` counts the changes of the page while the capture lasted.
EndOfCapture(got) == [got EXCEPT !.end = Live, !.moves = visits - @]

\* A bug: only a capture with a picture is compared with the page at its end.
ComparedToPicture(got) == got.shot # 0

\* The model of the page is computed again and compared, unless only the DOM was read: without an
\* accessibility tree and without a picture nothing is compared.
Compared(got) == (web.ax /\ got.states # 0) \/ got.shot # 0

Captured(got) ==
    /\ thread' = AtEase
    /\ client' = IF Listened THEN [client EXCEPT !.at = "tabs", !.shot = <<EndOfCapture(got)>>] ELSE client
    /\ orders' = IF Listened THEN Append(orders, Order("tabs", "")) ELSE orders

CaptureFinal ==
    /\ thread.at = "final"
    /\ LET got == thread.got
           same == Live # 0 /\ WebPages[Live].url = got.url /\ Html(Live).revision = ModelOf(got).revision
           alike == Live # 0 /\ WebPages[Live].url = got.url /\ Html(Live).inventory = ModelOf(got).inventory
       IN IF ~Compared(got) \/ same THEN Captured(got)
          ELSE IF alike /\ ~got.again THEN ReadsOn("html", got) /\ UNCHANGED <<client, orders>>
          ELSE CommandRaises /\ UNCHANGED orders
    /\ UNCHANGED <<web, tabs, focus, visits, view, unframed, deeds>>

----------------------------------------------------------------------------
(* The projection into an observation.                                       *)

\* _visible_browser_layers: the controls a layer holds, and those it covers or blocks.
Layers(p) == IF p = 0 THEN {} ELSE WebPages[p].layers
Occludes(layer, p, c) ==
    \E e \in Documents[p].first[c.selector] : e \notin layer.members /\ (layer.blocks \/ e \in layer.over)

\* Every control under its layer or under the page; a key two controls share speaks for both.
BlockedKeys(got) ==
    {c.selector : c \in {d \in ToSet(ModelOf(got).controls) : \E l \in Layers(got.layers) : Occludes(l, got.layers, d)}}

\* click, type and select have a capability; a press, a drag or a download has none.
HasCapability(c) == c.action \in {"click", "type", "select"}

Bindings(got) ==
    {c \in ToSet(ModelOf(got).controls) : c.selector \notin BlockedKeys(got) /\ HasCapability(c)}

\* The source is complete unless a frame or text beyond the limit is left out.
Coverage(got) ==
    IF (got.end # 0 /\ WebPages[got.end].frames > 0) \/ (got.states # 0 /\ WebPages[got.states].long) THEN "truncated" ELSE "complete"

\* _browser_context_fingerprint: the tabs, their urls and which one is driven.
TabsPrint ==
    [i \in DOMAIN tabs |-> <<WebPages[tabs[i].page].url, tabs[i].id = focus>>]

Observed(got) ==
    [no |-> client.looks, got |-> got, tabs |-> TabsPrint, coverage |-> Coverage(got), picture |-> got.shot]

\* DomSurfaceAdapter.project_snapshot, which reads the tabs once more through the thread.  A capture
\* of the DOM alone is kept for the picture the same acquisition may ask for.
ProjectSnapshot ==
    /\ thread.at = "idle" /\ OrderIs("tabs")
    /\ thread' = AtEase
    /\ IF ~Listened \/ tabs = <<>> THEN /\ client' = IF Listened THEN [client EXCEPT !.at = "free", !.shot = <<>>] ELSE client
                                       /\ UNCHANGED <<view, unframed>>
       ELSE LET got == client.shot[1]
            IN /\ view' = {Observed(got)}
               /\ unframed' = IF web.eyes /\ got.shot = 0 THEN {Observed(got)} ELSE unframed
               /\ client' = [client EXCEPT !.at = "free", !.shot = <<>>]
    /\ UNCHANGED <<web, tabs, focus, visits, orders, deeds>>

\* DomSurfaceAdapter.acquire, or the bundle's group for the DOM or for both sources.
Look(kind) ==
    /\ client.at = "free" /\ client.looks < web.looks
    /\ kind = "visual" => web.eyes
    /\ Sends("capture", kind)
    /\ client' = [client EXCEPT !.at = "capture", !.looks = @ + 1]
    /\ unframed' = {}
    /\ UNCHANGED <<web, tabs, focus, visits, thread, view, deeds>>

\* The picture asked for by the acquisition whose DOM was captured before: only a frame is taken.
LookBeside ==
    /\ client.at = "free" /\ unframed # {} /\ client.looks < web.looks
    /\ Sends("frame", "beside")
    /\ client' = [client EXCEPT !.at = "frame", !.looks = @ + 1]
    /\ UNCHANGED <<web, tabs, focus, visits, thread, view, unframed, deeds>>

\* capture_visual_frame: a second attempt when the viewport moved, then an error.
Frame(moved) ==
    /\ thread.at = "idle" /\ OrderIs("frame") /\ Wants("beside")
    /\ thread' = AtEase
    /\ IF ~Listened THEN UNCHANGED <<client, view, unframed>>
       ELSE /\ client' = [client EXCEPT !.at = "free"]
            /\ IF moved \/ Live = 0 THEN UNCHANGED <<view, unframed>>
               ELSE /\ view' = {[o EXCEPT !.picture = Live] : o \in unframed}
                    /\ unframed' = {}
    /\ UNCHANGED <<web, tabs, focus, visits, orders, deeds>>
----------------------------------------------------------------------------
(* An action: chosen from an observation, probed, and dispatched.            *)

\* What an observation offers: its bound controls, a point of its picture, and the browser itself.
Point(e) == [kind |-> "point", is |-> e]
Global(name) == [kind |-> name]
ControlAt(i) == [kind |-> "control", at |-> i]
Topmost(p, e) ==
    /\ p # 0 /\ e \in Documents[p].shown
    /\ \A l \in Layers(p) : e \notin l.members => ~l.blocks /\ e \notin l.over
Offers(o) ==
    {ControlAt(i) : i \in {j \in DOMAIN ModelOf(o.got).controls : ModelOf(o.got).controls[j] \in Bindings(o.got)}}
    \cup {Point(e) : e \in {x \in {c.is : c \in Bindings(o.got)} : o.picture # 0 /\ Topmost(o.picture, x)}}
    \cup IF web.globals THEN {Global(n) : n \in {"goto", "nowhere", "new_tab"}
                                   \cup IF Len(o.tabs) > 1 THEN {"tab_focus", "tab_close"} ELSE {}} ELSE {}

\* The action is bound now and dispatched later: a look may come between.
Choose ==
    /\ client.at = "free" /\ client.held = {} /\ Len(deeds) < web.deeds
    /\ \E o \in view : \E x \in Offers(o) : client' = [client EXCEPT !.held = {[o |-> o, x |-> x]}]
    /\ UNCHANGED <<web, tabs, focus, visits, thread, orders, view, unframed, deeds>>

ChosenControl(h) == ModelOf(h.o.got).controls[h.x.at]

Deed(h, told) == [chosen |-> h, told |-> told, landed |-> FALSE, met |-> {}, on |-> 0, when |-> 0]

\* execute: a binding of an observation that is no longer the adapter's is not sent; a current one is
\* probed in the live page.
Execute ==
    /\ client.at = "free"
    /\ \E h \in client.held :
         IF \A o \in view : o.no # h.o.no
         THEN /\ deeds' = Append(deeds, Deed(h, "not_sent"))
              /\ client' = [client EXCEPT !.held = {}]
              /\ UNCHANGED orders
         ELSE /\ deeds' = Append(deeds, Deed(h, "pending"))
              /\ Sends("probe", Len(deeds) + 1)
              /\ client' = [client EXCEPT !.at = "probe", !.held = {}]
    /\ UNCHANGED <<web, tabs, focus, visits, thread, view, unframed>>

\* _target_receives_pointer_events: the first element the selector finds can be hit.
ReceivesPointer(p, selector) == \E e \in Documents[p].first[selector] : Topmost(p, e)

\* A bug: the target is looked for by its selector alone.
IsStillThere(h) ==
    h.x.kind = "control" => ReceivesPointer(Live, ChosenControl(h).selector)

\* probe_dom_target and the comparison in _currentness: the page and the control are as they were.
IsCurrent(h) ==
    CASE h.x.kind = "control" ->
            /\ \E c \in ToSet(Html(Live).controls) :
                 Fingerprint(c) = Fingerprint(ChosenControl(h)) /\ ReceivesPointer(Live, c.selector)
            /\ Html(Live).revision = ModelOf(h.o.got).revision
      [] h.x.kind = "point" -> Live = h.o.picture
      [] OTHER -> TabsPrint = h.o.tabs

\* The probe's answer: a tab that is gone makes it raise, outside the try of the DOM adapter and
\* inside that of the visual one; a stale target, or an address that is none, is not sent.
ProbeTarget ==
    /\ thread.at = "idle" /\ OrderIs("probe")
    /\ thread' = AtEase
    /\ \E n \in {o.arg : o \in thread.order} :
         LET h == deeds[n].chosen
             fails == Live = 0 /\ h.x.kind \in {"control", "point"}
         IN IF ~Listened THEN UNCHANGED <<client, orders, deeds>>
            ELSE IF fails \/ ~IsCurrent(h) \/ h.x.kind = "nowhere"
            THEN /\ deeds' = [deeds EXCEPT ![n].told = IF fails /\ h.x.kind = "control" THEN "raised" ELSE "not_sent"]
                 /\ client' = [client EXCEPT !.at = "free"]
                 /\ UNCHANGED orders
            ELSE /\ deeds' = [deeds EXCEPT ![n].when = visits]
                 /\ client' = [client EXCEPT !.at = "act"]
                 /\ Sends("act", n)
    /\ UNCHANGED <<web, tabs, focus, visits, view, unframed>>
\* What the session does: {} or the world after it, with the element that was met.
Happens(h) ==
    LET x == h.x
        i == CHOOSE j \in DOMAIN tabs : tabs[j].id = focus
        to(p) == [tabs |-> [tabs EXCEPT ![i].page = p], focus |-> focus, met |-> {}]
        hit(e) == [to(IF e \in DOMAIN WebPages[Live].leads THEN WebPages[Live].leads[e] ELSE Live) EXCEPT !.met = {e}]
    IN CASE x.kind = "control" /\ Live # 0 ->
              {hit(e) : e \in {f \in Documents[Live].first[ChosenControl(h).selector] :
                                 /\ f \in Documents[Live].shown /\ \A t \in ToSet(Tokens) : t.is = f => ~t.off
                                 /\ ChosenControl(h).action = "click" => Topmost(Live, f)}}
         [] x.kind = "point" /\ Live # 0 -> {IF Topmost(Live, x.is) THEN hit(x.is) ELSE to(Live)}
         [] x.kind = "goto" /\ Live # 0 -> {to(web.start)}
         [] x.kind = "new_tab" -> {[tabs |-> Append(tabs, [id |-> 2, page |-> web.start]), focus |-> 2, met |-> {}]}
         [] x.kind = "tab_focus" -> {[tabs |-> tabs, focus |-> t.id, met |-> {}] : t \in {s \in ToSet(tabs) : s.id # focus}}
         [] x.kind = "tab_close" /\ Live # 0 /\ Len(tabs) > 1 ->
              LET left == OtherTabs
              IN {[tabs |-> left, focus |-> left[IF i <= Len(left) THEN i ELSE Len(left)].id, met |-> {}]}
         [] OTHER -> {}

\* The command of an action: it takes effect and its caller, if it listens, is told; what raises
\* inside execute's try, also after the effect, is told as unknown.
Perform(returns) ==
    /\ thread.at = "idle" /\ OrderIs("act")
    /\ thread' = AtEase
    /\ \E n \in {o.arg : o \in thread.order} :
         LET h == deeds[n].chosen
             told(landed) == IF Listened THEN (IF landed /\ returns THEN "sent" ELSE "unknown") ELSE deeds[n].told
         IN \/ /\ Happens(h) = {}
               /\ deeds' = [deeds EXCEPT ![n].told = told(FALSE)]
               /\ UNCHANGED <<tabs, focus>>
            \/ \E e \in Happens(h) :
                 /\ tabs' = e.tabs /\ focus' = e.focus
                 /\ deeds' = [deeds EXCEPT ![n] = [deeds[n] EXCEPT !.told = told(TRUE), !.landed = TRUE,
                                                                 !.met = e.met, !.on = Live, !.when = visits - @]]
    /\ client' = IF Listened THEN [client EXCEPT !.at = "free"] ELSE client
    /\ UNCHANGED <<web, visits, orders, view, unframed>>

\* close: no more commands, and None behind those that wait; the caller joins the thread.
Close ==
    /\ client.at = "free" /\ client.looks = web.looks
    /\ Sends("stop", "")
    /\ client' = [client EXCEPT !.at = "closing", !.held = {}]
    /\ view' = {} /\ unframed' = {}
    /\ UNCHANGED <<web, tabs, focus, visits, thread, deeds>>

Joined ==
    /\ client.at = "closing" /\ thread.at = "gone"
    /\ client' = [client EXCEPT !.at = "closed"]
    /\ UNCHANGED <<web, tabs, focus, visits, thread, orders, view, unframed, deeds>>

BrowserInit ==
    /\ web \in Webs
    /\ tabs = <<[id |-> 1, page |-> web.start]>> /\ focus = 1 /\ visits = 0
    /\ thread = [AtEase EXCEPT !.at = "launching"] /\ orders = <<>>
    /\ client = [at |-> "launch", held |-> {}, looks |-> 0, shot |-> <<>>]
    /\ view = {} /\ unframed = {} /\ deeds = <<>>

BrowserNext ==
    \/ PageMovesOn
    \/ SiteTouchesTabs
    \/ \E loads \in BOOLEAN : LaunchAttempt(loads)
    \/ GiveUp
    \/ TakeOrder
    \/ CaptureHtml
    \/ CaptureUrl
    \/ CaptureControls
    \/ CaptureLayers
    \/ \E moved \in BOOLEAN : CaptureShot(moved)
    \/ CaptureFinal
    \/ ProjectSnapshot
    \/ \E kind \in {"dom", "visual"} : Look(kind)
    \/ LookBeside
    \/ \E moved \in BOOLEAN : Frame(moved)
    \/ Choose
    \/ Execute
    \/ ProbeTarget
    \/ \E returns \in BOOLEAN : Perform(returns)
    \/ Close
    \/ Joined

BrowserSpec == BrowserInit /\ [][BrowserNext]_browserVars

----------------------------------------------------------------------------
(* Properties.                                                               *)

\* An observation whose capture had an accessibility tree or a picture is of one page: while the page
\* changed at most once, the controls, the layers and the picture were read at the revision and the
\* address of the document.  (Where there is neither, nothing is compared; a page that changes twice
\* may have come back; a picture taken later beside an earlier capture is of its own moment.)
CaptureIsOneMoment ==
    \A o \in view :
        LET g == o.got
        IN (web.ax \/ g.shot # 0) /\ g.moves <= 1 =>
              \A p \in {g.states, g.layers, g.shot} \ {0} :
                 WebPages[p].url = g.url /\ Html(p).revision = ModelOf(g).revision

\* An observation that calls itself complete, of a page that stood still, shows every control a reader
\* sees; each is offered unless it is covered or no capability fits it, and what is offered could be
\* met.  (Not a page where the parser skips on, and not the controls that share a selector, for which
\* the first one speaks.)
CompleteShowsControls ==
    \A o \in view :
        LET g == o.got
            alone(c) == c.selector.by # "nth" /\ Documents[g.doc].found[c.selector] = 1
        IN o.coverage = "complete" /\ g.moves = 0 /\ (web.rendered \/ ~Documents[g.doc].skips) =>
              /\ Documents[g.doc].seen \subseteq {c.is : c \in ToSet(ModelOf(g).controls)}
              /\ \A c \in ToSet(ModelOf(g).controls) : alone(c) /\ c.is \in Documents[g.doc].seen =>
                    (c \in Bindings(g) <=> HasCapability(c) /\ Topmost(g.doc, c.is))

\* What an observation says of its page was read at one moment, and is all there is.
ObservationIsTrue == CaptureIsOneMoment /\ CompleteShowsControls

\* An action that is told as not sent never took effect, one told as sent did; and what took effect on
\* a page unchanged since the probe met a control with the identity that was chosen, on the page it
\* was chosen on.  (Not where a class or a position stands for several controls.)
DeedIsTrue ==
    \A n \in DOMAIN deeds :
        LET d == deeds[n]
            x == d.chosen.x
            sought == ChosenControl(d.chosen).selector
            exact == sought.by # "nth" /\ Documents[d.on].found[sought] = 1
        IN /\ d.told \in {"not_sent", "raised"} => ~d.landed
           /\ d.told = "sent" => d.landed
           /\ d.landed /\ d.when = 0 /\ x.kind = "control" =>
                /\ Html(d.on).revision = ModelOf(d.chosen.o.got).revision
                /\ exact => \E c \in ToSet(Html(d.on).controls) : Fingerprint(c) = Fingerprint(ChosenControl(d.chosen)) /\ d.met = {c.is}
           /\ d.landed /\ d.when = 0 /\ x.kind = "point" => d.on = d.chosen.o.picture /\ d.met = {x.is}
=============================================================================
