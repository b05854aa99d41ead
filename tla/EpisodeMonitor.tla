--------------------------- MODULE EpisodeMonitor ---------------------------
(***************************************************************************)
(* The no-progress monitor of a run (agent/monitor.py) with what feeds it: *)
(* the signatures of attempts (attempt_signature.py), the receipts that    *)
(* tell new information from a replay (context/observation_delivery.py),   *)
(* and the core loop, which refuses a prohibited attempt, asks for the     *)
(* verdict on every step, and restarts or restores the monitor.            *)
(*                                                                         *)
(* A step without progress may open a failure center and give the policy   *)
(* one recovery signal, for its next decision only.  The center stays      *)
(* until a step escapes it; coming back to it ends the run.                *)
(***************************************************************************)
EXTENDS Naturals, Sequences, SequencesExt, FiniteSets

CONSTANTS
    PublicWorlds,       \* the semantic digests of the worlds
    Operations,         \* the GUI attempts
    Toolsets,           \* the sets of tools the runs are offered
    Window,             \* _MAX_RECENT_TRANSITIONS
    MaxObservationOnly, \* profile.max_consecutive_observation_only
    Receipts,           \* _MAX_LOCAL_DELIVERY_RECORDS
    MaxDecisions        \* decisions of one behaviour, the run's turn budget

ASSUME WindowAssumption == Window \in Nat \ {0} /\ MaxObservationOnly \in Nat \ {0}

VARIABLES
    watch,  \* the monitor
    walk    \* the run: where it stands, its world, signal and receipts

monitorVars == <<watch, walk>>

------------------------------------------------------------------------------
(* Attempts and their identity. *)

NoWorld == "no world"
Attempted(op, world, got) == [op |-> op, world |-> world, got |-> got]
NoAttempt == Attempted("none", NoWorld, 0)

\* A GUI attempt or an observation request is the same attempt on every world
\* of one route; a local call is identified by its world and its result.
SignatureOf(op, world, got) ==
    IF op \in {"read", "page"} THEN Attempted(op, world, got) ELSE Attempted(op, NoWorld, 0)

\* What a step was: its attempt, the world after it, what it obtained ("got")
\* and how its outcome reads ("mark").
Step(op, sig, after, got, mark) ==
    [op |-> op, sig |-> sig, after |-> after, got |-> got, mark |-> mark]

IsGui(s) == s.op \in Operations
Transition(s) == [sig |-> s.sig, world |-> s.after]

------------------------------------------------------------------------------
(* Novelty of what a local call or an observation delivered. *)

Receipt(s) == Attempted(s.op, s.after, s.got)
Delivers(s) == s.op = "read" \/ (s.op = "look" /\ s.mark # "unavailable")
Delivered(store) == {r.got : r \in ToSet(store)} \ {0}

Delta(store, s) ==
    IF ~Delivers(s) THEN "none"
    ELSE IF Receipt(s) \in ToSet(store) THEN "replay"
    ELSE IF s.mark = "unusable" THEN "unusable"
    ELSE IF s.got # 0 /\ s.got \notin Delivered(store) THEN "new"
    ELSE IF s.op = "read" /\ s.got = 0 THEN "no matches"
    ELSE "nothing new"

\* The last Receipts of them: what falls out can be news again.
Stored(store, s) ==
    IF Delta(store, s) \in {"none", "replay"} THEN store
    ELSE LET all == Append(store, Receipt(s)) IN
         SubSeq(all, IF Len(all) > Receipts THEN Len(all) - Receipts + 1 ELSE 1, Len(all))

------------------------------------------------------------------------------
(* The monitor. *)

Center(kind, members, armed) == [kind |-> kind, members |-> members, armed |-> armed]
NoCenter == Center("none", {}, FALSE)
Single(s) == Center("stall", {Transition(s)}, FALSE)

\* A signal names the center it was given for and the attempts it prohibits.
Signal(center, prohibits) == [center |-> center, prohibits |-> prohibits]
NoSignal == Signal(NoCenter, {})

MonitorStarted(world) ==
    [world |-> world, streak |-> 0, latest |-> NoAttempt, same |-> 0,
     recent |-> <<>>, center |-> NoCenter, active |-> NoSignal]

Recent(w, s) ==
    LET all == Append(w.recent, Transition(s)) IN
    SubSeq(all, IF Len(all) > Window THEN Len(all) - Window + 1 ELSE 1, Len(all))

\* The suffixes that repeat themselves, shortest first.
Periods(recent) ==
    {p \in 2..(Len(recent) \div 2) :
        LET n == Len(recent)
            current == SubSeq(recent, n - p + 1, n) IN
        /\ SubSeq(recent, n - 2 * p + 1, n - p) = current
        /\ Cardinality(ToSet(current)) >= 2}

CycleMembers(recent) ==
    LET p == CHOOSE q \in Periods(recent) : \A o \in Periods(recent) : q <= o IN
    ToSet(SubSeq(recent, Len(recent) - p + 1, Len(recent)))

Moved(w, s) == s.after # w.world
Durable(delta, s) == delta = "new" \/ (IsGui(s) /\ s.mark = "useful")

\* Verdicts: the monitor afterwards and what it recommends.
Continue(w) == [watch |-> w, say |-> "continue"]

Warn(w, say, center, prohibits) ==
    [watch |-> [w EXCEPT !.center = center, !.active = Signal(center, prohibits)], say |-> say]

Tried(w, sig) ==
    [w EXCEPT !.same = IF sig = w.latest THEN @ + 1 ELSE 1, !.latest = sig]

Forgotten(w) == [w EXCEPT !.streak = 0, !.latest = NoAttempt, !.same = 0]

Armed(center) == [center EXCEPT !.armed = TRUE]

\* The prohibited attempt of a stall's signal: what the rule says, or the
\* attempt that was proven to have no effect.
Prohibits(rule, s) ==
    IF rule \/ (IsGui(s) /\ s.mark = "failed") THEN {s.sig} ELSE {}

\* The step left the center: news, a useful GUI effect or another world.
Escaped(w, delta, s) == Durable(delta, s) \/ Moved(w, s)

\* Mutant: the center is not armed by the decision that saw the signal.
InsideUnarmed(w, seen, s, told) ==
    LET c == w.center
        back == Transition(s) \in c.members /\ (c.armed \/ told)
        members == c.members \union {Transition(s)} IN
    IF back \/ Cardinality(members) > Window THEN Warn(seen, "block", Armed(c), {})
    ELSE Continue([seen EXCEPT !.center.members = members, !.latest = s.sig, !.same = 1])

\* What a step inside an open center does: coming back to a member ends the
\* run once the policy was told, and so does wandering over too many of them.
Inside(w, seen, s, told) ==
    LET c == w.center
        back == Transition(s) \in c.members /\ (c.armed \/ told)
        members == c.members \union {Transition(s)} IN
    IF back \/ Cardinality(members) > Window THEN
        Warn(seen, "block", Armed(c), IF c.kind = "stall" THEN Prohibits(back, s) ELSE {})
    ELSE Continue([seen EXCEPT !.center = Center(c.kind, members, c.armed \/ told),
                               !.latest = s.sig, !.same = 1])

\* No open center: when a step without progress is one too many.
Due(w, n, delta, s, told) ==
    LET repeats == s.sig = w.latest IN
    \/ delta = "replay" \/ (repeats /\ s.op = "page")
    \/ told /\ repeats
    \/ delta = "nothing new"
    \/ delta = "unusable" /\ n.streak >= 2
    \/ IsGui(s) /\ n.same >= 2
    \/ s.op = "page" /\ n.streak >= 2
    \/ ~IsGui(s) /\ s.op # "page" /\ n.streak >= MaxObservationOnly

Stalled(w, seen, delta, s) ==
    LET told == w.active # NoSignal
        repeats == s.sig = w.latest
        exact == delta = "replay" \/ (repeats /\ s.op = "page")
        n == [Tried(seen, s.sig) EXCEPT
                 !.streak = IF IsGui(s) \/ exact THEN 0 ELSE @ + 1]
        again == s.sig \in w.active.prohibits IN
    IF ~Due(w, n, delta, s, told) THEN Continue(n)
    ELSE Warn([n EXCEPT !.streak = 0], IF again THEN "block" ELSE "recover", Single(s),
              Prohibits(exact \/ delta = "unusable" \/ (repeats /\ (told \/ IsGui(s))), s))

\* evaluate: the signal shown to this decision is consumed, and the first
\* rule that fits gives the verdict.
Judged(w, delta, s) ==
    LET seen == [w EXCEPT !.world = s.after, !.active = NoSignal, !.recent = Recent(w, s)]
        told == w.active # NoSignal
        reset == [seen EXCEPT !.streak = 0, !.latest = s.sig, !.same = 1] IN
    IF w.center # NoCenter /\ Escaped(w, delta, s) THEN
        Continue([Forgotten(seen) EXCEPT !.center = NoCenter])
    ELSE IF told /\ s.mark = "repeat" THEN
        Warn(Tried(seen, s.sig), "block",
             Armed(IF w.center # NoCenter THEN w.center ELSE Single(s)), {s.sig})
    ELSE IF w.center # NoCenter THEN Inside(w, seen, s, told)
    ELSE IF s.op = "refused" THEN
        Warn(Tried(seen, s.sig), "recover", Single(s), IF s.mark = "repeat" THEN {s.sig} ELSE {})
    ELSE IF Moved(w, s) /\ Transition(s) \in ToSet(w.recent) THEN
        Warn(reset, "recover", Center("oscillation", {Transition(s)}, FALSE), {})
    ELSE IF Periods(seen.recent) # {} THEN
        Warn(reset, "recover", Center("oscillation", CycleMembers(seen.recent), FALSE), {})
    ELSE IF Durable(delta, s) THEN Continue(Forgotten(seen))
    ELSE IF IsGui(s) /\ (s.mark = "news" \/ Moved(w, s)) THEN Continue(reset)
    ELSE Stalled(w, seen, delta, s)

------------------------------------------------------------------------------
(* The run. *)

FreshRun(world, tools) ==
    [at |-> "running", tools |-> tools, world |-> world, signal |-> NoSignal, store |-> <<>>,
     left |-> MaxDecisions, warned |-> FALSE, stuck |-> 0]

MonitorInit ==
    \E w \in PublicWorlds, tools \in Toolsets :
        watch = MonitorStarted(w) /\ walk = FreshRun(w, tools)

\* The steps the policy's next decision can become; a GUI attempt or a read
\* may change the world, a proven failure does not.
Marks == {"useful", "news", "quiet", "failed"}

Attempts ==
    {Step(op, SignatureOf(op, walk.world, 0), after, 0, mark) :
        op \in Operations, after \in PublicWorlds, mark \in Marks}
    \union {Step("look", SignatureOf("look", walk.world, 0), after, got, mark) :
        after \in PublicWorlds, got \in 0..1, mark \in {"read", "unusable", "unavailable"}}
    \union {Step(op, SignatureOf(op, walk.world, got), walk.world, got, "read") :
        op \in {"read", "page"}, got \in 0..1}
    \union {Step("refused", SignatureOf("read", walk.world, 2), walk.world, 0, "refused")}

Possible(s) ==
    /\ s.mark \in {"unusable", "unavailable"} => s.got = 0
    /\ s.mark = "failed" => s.after = walk.world
    /\ s.op = "page" => s.got = 0
    /\ s.op \in walk.tools

\* The core loop refuses what the signal prohibits before it is carried out.
Admitted(s) ==
    IF s.sig \in walk.signal.prohibits
    THEN Step("refused", s.sig, walk.world, 0, "repeat") ELSE s

\* One step: its novelty reduced, judged, and committed with the verdict.
Judge(s) ==
    LET delta == Delta(walk.store, s)
        v == Judged(watch, delta, s)
        escaped == Escaped(watch, delta, s)
        blocked == v.say = "block" IN
    /\ walk.left > 0
    /\ watch' = IF blocked THEN [v.watch EXCEPT !.center = NoCenter, !.active = NoSignal]
                ELSE v.watch
    /\ walk' = [walk EXCEPT
           !.at = IF blocked THEN "blocked" ELSE "running",
           !.world = s.after, !.store = Stored(@, s), !.left = @ - 1,
           !.signal = IF blocked THEN NoSignal ELSE v.watch.active,
           !.warned = ~escaped /\ (@ \/ walk.signal # NoSignal),
           !.stuck = IF watch.center = NoCenter \/ escaped THEN 0 ELSE @ + 1]

Decide ==
    /\ walk.at = "running"
    /\ \E s \in Attempts : Possible(s) /\ Judge(Admitted(s))

\* A step that waits or that ends at a control boundary is not judged; the
\* second has its effect on the world and on the receipts all the same.
Ask ==
    /\ walk.at = "running" /\ walk.left > 0
    /\ \E place \in {"asked", "confirming"} :
        walk' = [walk EXCEPT !.at = place, !.left = @ - 1]
    /\ UNCHANGED watch

PauseAfterStep ==
    /\ walk.at = "running" /\ walk.left > 0
    /\ \E s \in Attempts :
        LET t == Admitted(s) IN
        /\ Possible(s)
        /\ walk' = [walk EXCEPT !.at = "paused", !.world = t.after,
                                !.store = Stored(@, t), !.left = @ - 1]
    /\ UNCHANGED watch

PauseBeforePolicy ==
    /\ walk.at = "running"
    /\ walk' = [walk EXCEPT !.at = "paused"] /\ UNCHANGED watch

\* The answer to a confirmation: the approved action is judged with its
\* receipts, a declined one is committed without.
Approve ==
    /\ walk.at = "confirming"
    /\ \E s \in Attempts : IsGui(s) /\ Possible(s) /\ Judge(s)

Decline ==
    /\ walk.at = "confirming"
    /\ walk' = [walk EXCEPT !.at = "running"] /\ UNCHANGED watch

\* Mutant: a new episode inherits the open center.
StartsAgainStalled(world) ==
    /\ watch' = [MonitorStarted(world) EXCEPT !.center = watch.center]
    /\ walk' = [FreshRun(world, walk.tools) EXCEPT !.left = walk.left]

\* An answer or a revision starts an episode of its own, without a signal and
\* without receipts.
StartsAgain(world) ==
    /\ watch' = MonitorStarted(world)
    /\ walk' = [FreshRun(world, walk.tools) EXCEPT !.left = walk.left]

AnswerUser == walk.at = "asked" /\ StartsAgain(walk.world)

RevisePaused == walk.at = "paused" /\ \E w \in PublicWorlds : StartsAgain(w)

\* Resumed in the same process; after a takeover the world is read again.
ResumeInProcess ==
    /\ walk.at = "paused"
    /\ \E w \in PublicWorlds : walk' = [walk EXCEPT !.at = "running", !.world = w]
    /\ UNCHANGED watch

\* A new process restores the run from the checkpoint and a fresh world: the
\* center with an equal world, or whatever the world with the signal's own.
Restored(world) ==
    LET signal == walk.signal IN
    [MonitorStarted(world) EXCEPT
        !.center = IF signal # NoSignal THEN signal.center
                   ELSE IF watch.world = world THEN watch.center ELSE NoCenter,
        !.active = signal,
        !.latest = IF signal.prohibits = {} THEN NoAttempt
                   ELSE CHOOSE a \in signal.prohibits : TRUE,
        !.same = Cardinality(signal.prohibits)]

RestorePaused ==
    /\ walk.at = "paused"
    /\ \E w \in PublicWorlds :
        /\ watch' = Restored(w)
        /\ walk' = [walk EXCEPT
               !.at = "running", !.world = w,
               !.warned = @ /\ w = watch.world,
               !.stuck = IF Restored(w).center = NoCenter THEN 0 ELSE @]

MonitorNext ==
    \/ Decide \/ Ask \/ PauseAfterStep \/ PauseBeforePolicy \/ Approve \/ Decline
    \/ AnswerUser \/ RevisePaused \/ ResumeInProcess \/ RestorePaused

MonitorSpec == MonitorInit /\ [][MonitorNext]_monitorVars

------------------------------------------------------------------------------
(* Properties. *)

\* The run is blocked as stalled only for a step that neither changed the
\* world nor brought news, after a signal about the standstill was put before
\* the policy: no block comes out of the blue, not after a restore either
\* (EpisodeMonitor.evaluate, restore_episode, start_episode).
BlockIsEarned ==
    [][walk.at # "blocked" /\ walk'.at = "blocked" =>
        walk'.warned /\ watch'.world = watch.world]_monitorVars

\* Once a failure center is open the policy has at most Window decisions to
\* leave it, across pauses, confirmations and restores: a center whose
\* signal is gone is armed, and each decision adds a member or ends the run
\* (the active-center branch of evaluate).
StallEnds ==
    /\ walk.stuck <= Window
    /\ watch.center # NoCenter /\ walk.signal = NoSignal => watch.center.armed
=============================================================================
