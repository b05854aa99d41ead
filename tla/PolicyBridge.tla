---------------------------- MODULE PolicyBridge ----------------------------
(***************************************************************************)
(* The port that turns one model answer into one decision                  *)
(* (src/affordance_runtime/model/policy/pydantic_ai_bridge.py) together    *)
(* with what uses it: the core loop, which gives every decision a step and *)
(* hands the step back on the next turn, and the session, which stores the *)
(* message history with a paused run and restores it.                      *)
(*                                                                         *)
(* The port keeps one message history.  A response of the model proposes   *)
(* calls; the result of the step that carried the first of them out is     *)
(* sent with the next turn, or written by close_deferred_call when the run *)
(* stops at a boundary.  Between the two the history is open.              *)
(***************************************************************************)
EXTENDS Naturals, Sequences, SequencesExt, FiniteSets

CONSTANTS
    MaxCalls,       \* calls the model proposes in one behaviour
    MaxRevision,    \* revisions of the task
    MaxRetries      \* _MAX_PROVIDER_RETRIES

ASSUME RetriesAssumption == MaxRetries \in Nat

NoCall == 0

VARIABLES
    port,   \* what the port keeps between turns and within one
    run,    \* the run: where it stands, the call id of its last step, its revision
    saved   \* the stored checkpoint of the paused run, if there is one

bridgeVars == <<port, run, saved>>

------------------------------------------------------------------------------
(* Messages and histories. *)

\* The calls one answer proposes, and the returns that answer them; "by" is
\* the call of the step whose result the returns carry.
Response(calls) == [kind |-> "response", calls |-> calls, by |-> NoCall]
Returns(calls, step) == [kind |-> "returns", calls |-> calls, by |-> step]
Prompt == [kind |-> "prompt", calls |-> <<>>, by |-> NoCall]
Summary == [kind |-> "summary", calls |-> <<>>, by |-> NoCall]

IsExchange(m) == m.kind \in {"response", "returns"}

\* No call is answered, and none proposed, between the two.
NothingBetween(h, j, i) == \A k \in (j + 1)..(i - 1) : ~IsExchange(h[k])

\* Every response is closed by the returns of all its calls before the next
\* one, no return is orphaned, and only the last response may be open.
Paired(h) ==
    \A i \in 1..Len(h) :
        /\ h[i].kind = "returns" =>
              \E j \in 1..(i - 1) : /\ h[j].kind = "response"
                                   /\ ToSet(h[i].calls) = ToSet(h[j].calls)
                                   /\ NothingBetween(h, j, i)
        /\ h[i].kind = "response" =>
              \A j \in 1..(i - 1) : h[j].kind = "response" => ~NothingBetween(h, j, i)

\* The codec of the provider's boundary takes a summary at the front only.
Codable(h) ==
    /\ Paired(h)
    /\ \A i \in 1..Len(h) : h[i].kind = "summary" => i = 1

\* The unresolved proposals at the end of a history ...
Pending(h) ==
    IF h # <<>> /\ Last(h).kind = "response" THEN Last(h).calls ELSE <<>>

\* ... which has to end with an open response or with the returns of one.
Readable(h) ==
    \/ h = <<>>
    \/ Last(h).kind = "response"
    \/ /\ Len(h) > 1
       /\ Last(h).kind = "returns"
       /\ h[Len(h) - 1].kind = "response"
       /\ ToSet(Last(h).calls) = ToSet(h[Len(h) - 1].calls)

\* Old prompts describe a world that is gone.
Folded(h) ==
    LET upTo[i \in 0..Len(h)] ==
            IF i = 0 THEN <<>>
            ELSE IF h[i].kind = "prompt" THEN upTo[i - 1] ELSE Append(upTo[i - 1], h[i])
    IN upTo[Len(h)]

------------------------------------------------------------------------------
(* Attempts: one entry for each request to the provider. *)

Attempt(status, envelope, retry) ==
    [status |-> status, envelope |-> envelope, retry |-> retry]

\* _record_attempt_started
Started(attempts, envelope, retry) ==
    Append(attempts, Attempt("started", envelope, retry))

\* _replace_active_attempt
Settled(attempts, status) ==
    [attempts EXCEPT ![Len(attempts)].status = status]

\* A call the SDK answered after n responses is n attempts: all but the last
\* are invalid.  Without a response there is nothing to replace the attempt by.
Exchanged(attempts, n, status) ==
    IF n = 0 THEN attempts
    ELSE LET active == Last(attempts) IN
         Front(attempts)
           \o [i \in 1..(n - 1) |-> [active EXCEPT !.status = "invalid"]]
           \o <<[active EXCEPT !.status = status]>>

------------------------------------------------------------------------------
(* One turn of the policy: generate. *)

Idle == [at |-> "idle", phase |-> "ordinary", complete |-> FALSE, retries |-> 0,
         local |-> <<>>, captured |-> FALSE, attempts |-> <<>>,
         rejected |-> <<>>, reason |-> "none", cancelled |-> FALSE]

Turn(at, phase, local) ==
    [Idle EXCEPT !.at = at, !.phase = phase, !.local = local]

\* The turn is over; what it kept for itself is gone.
Ended(p, history, outcome) ==
    [p EXCEPT !.turn = [Idle EXCEPT !.cancelled = p.turn.cancelled],
              !.history = history, !.outcome = outcome]

\* The run's answer to the outcome of a turn that brought no decision.
RunEnds == run' = [run EXCEPT !.at = "ended"]

\* The SDK is asked at most once more for an unknown tool and once more for an
\* answer without a call; a deliberate turn gets one response.
ToolBudget(t) == IF t.phase = "deliberate" THEN 0 ELSE 1
OutputBudget(t) ==
    IF t.phase \in {"deliberate", "repair"} \/ t.complete THEN 0 ELSE 1
ResponseLimit(t) == 1 + ToolBudget(t) + OutputBudget(t)

MayComplete(t, n) == ~t.complete /\ t.phase # "repair" /\ n = 1

\* An envelope owns one allowance of transport retries, whatever is asked again
\* within it.
Dispatched(t, phase) ==
    [t EXCEPT !.at = "calling", !.phase = phase, !.complete = FALSE,
              !.retries = MaxRetries, !.captured = FALSE,
              !.attempts = Started(<<>>, phase, FALSE)]

\* the output fallback with a transport allowance of its own
CompleteRetryAllowed(t) ==
    [t EXCEPT !.at = "calling", !.complete = TRUE, !.retries = MaxRetries,
              !.attempts = Started(@, t.phase, FALSE)]

CompleteRetry(t) ==
    [t EXCEPT !.at = "calling", !.complete = TRUE,
              !.attempts = Started(@, t.phase, FALSE)]

\* The history a failed turn leaves.  When its request went out, the step's
\* result went with it and the open response is closed; what the model said
\* then is dropped.  The envelope of a repair carries neither history nor
\* result, so closing raises there, and the turn ends as a local failure.
Failed(p, outcome) ==
    LET t == p.turn
        open == Pending(t.local)
    IN IF open = <<>> \/ ~t.captured THEN Ended(p, p.history, outcome)
       ELSE IF t.phase = "repair" THEN Ended(p, p.history, "failed")
       ELSE Ended(p, t.local \o <<Returns(open, run.step)>>, outcome)

\* A decision with a call leaves its response open; a final answer and an
\* abort end the conversation.
Accepted(p, calls) ==
    LET t == p.turn
        open == Pending(t.local)
        request == IF open = <<>> THEN Prompt ELSE Returns(open, run.step)
    IN Ended(p, t.local \o <<request, Response(calls)>>, "decided")

\* Open calls are answered by the step of the first of them.
Closes(h, step) == IF Pending(h) = <<>> THEN TRUE ELSE Head(Pending(h)) = step

\* generate, up to its first await: the history is read and packed; a request
\* over its capacity, or one whose deadline has passed, is not sent.
Think ==
    /\ port.turn.at = "idle" /\ run.at = "running"
    /\ LET p == [port EXCEPT !.identity = run.rev, !.turn = Idle]
           h == port.history
       IN IF ~Readable(h) \/ ~Closes(h, run.step)
          THEN port' = Ended(p, h, "unavailable") /\ RunEnds
          ELSE \/ /\ \E phase \in {"ordinary", "deliberate"} :
                     \/ /\ h # <<>>
                        /\ port' = [p EXCEPT !.turn = Turn("compacting", phase, Folded(h))]
                     \/ port' = [p EXCEPT !.turn = Dispatched(Turn("calling", phase, Folded(h)), phase)]
                  /\ UNCHANGED run
               \/ port' = Ended(p, h, "failed") /\ RunEnds
    /\ UNCHANGED saved

\* the summary that is used as the library made it
CompactedUnread(h, cut, extra) ==
    <<Summary>> \o extra \o SubSeq(h, cut + 1, Len(h))

\* The summary of a prefix, as the library made it, is used only if the open
\* calls are the same and the whole can be coded; else the exact history is.
Compacted(h, cut, extra) ==
    LET new == <<Summary>> \o extra \o SubSeq(h, cut + 1, Len(h)) IN
    IF Readable(new) /\ Pending(new) = Pending(h) /\ Codable(new) THEN new ELSE h

\* Any prefix may be summarised, and its first message kept beside the summary.
Compactions(h) ==
    {h} \cup {Compacted(h, cut, extra) : cut \in 1..Len(h), extra \in {<<>>, <<Head(h)>>}}

Compact ==
    /\ port.turn.at = "compacting"
    /\ LET t == port.turn IN
       \E new \in Compactions(t.local) :
          \/ /\ port' = [port EXCEPT !.turn = Dispatched([t EXCEPT !.local = new], t.phase)]
             /\ UNCHANGED run
          \/ port' = Ended(port, port.history, "failed") /\ RunEnds
    /\ UNCHANGED saved

\* The same sequence of the envelope goes on in a complete retry, or is over.
Incomplete(p, retry) ==
    IF retry THEN [p EXCEPT !.turn = CompleteRetry(p.turn)] ELSE Failed(p, "failed")

\* Fresh identities for the calls of an answer.
Proposals ==
    {calls \in {<<port.issued + 1>>, <<port.issued + 1, port.issued + 2>>} :
        Last(calls) <= MaxCalls}

\* The first call alone is resolved.  One that cannot be carried out now is a
\* decision of its own; an unknown operation leaves the history as it was; an
\* ill-formed one is repaired once, by an envelope of its own, and is handed
\* back as a rejection when the repair does not keep its meaning.
Resolved(p, calls) ==
    LET t == p.turn
        q == [p EXCEPT !.issued = Last(calls)]
    IN IF t.phase # "repair"
       THEN \/ /\ port' = Accepted(q, calls)
               /\ run' = [run EXCEPT !.at = "acting", !.decision = Head(calls)]
            \/ /\ port' = Ended(q, <<>>, "decided")
               /\ run' = [run EXCEPT !.at = "acting", !.decision = NoCall]
            \/ port' = Ended(q, q.history, "failed") /\ RunEnds
            \/ \E reason \in {"invalid", "stale"} :
                 /\ port' = [q EXCEPT !.turn = [Dispatched(t, "repair") EXCEPT
                                                  !.rejected = calls, !.reason = reason]]
                 /\ UNCHANGED run
       ELSE \/ /\ port' = Accepted(q, calls)
               /\ run' = [run EXCEPT !.at = "acting", !.decision = Head(calls)]
            \/ /\ t.reason = "invalid"
               /\ port' = Accepted(q, t.rejected)
               /\ run' = [run EXCEPT !.at = "acting", !.decision = Head(t.rejected)]
            \/ /\ t.reason = "stale"
               /\ port' = Ended(q, q.history, "failed") /\ RunEnds

\* The provider answers with calls after n responses.  A truncated answer, and
\* in a deliberate turn one with two calls, is no decision.
Replies ==
    /\ port.turn.at = "calling"
    /\ \E n \in {1, ResponseLimit(port.turn)}, calls \in Proposals, truncated \in BOOLEAN :
         LET t == [port.turn EXCEPT !.captured = TRUE]
             bad == truncated \/ (t.phase = "deliberate" /\ Len(calls) # 1)
             retry == bad /\ MayComplete(t, n)
             status == IF ~bad THEN "accepted" ELSE IF retry THEN "invalid" ELSE "failed"
             p == [port EXCEPT !.turn = [t EXCEPT !.attempts = Exchanged(@, n, status)]]
         IN IF bad
            THEN \E anchored \in BOOLEAN :
                   LET again == retry /\ (t.phase = "deliberate" \/ anchored) IN
                   /\ port' = Incomplete(p, again)
                   /\ IF again THEN UNCHANGED run ELSE RunEnds
            ELSE Resolved(p, calls)
    /\ UNCHANGED saved

\* The SDK gives the answer up: no call in it, or none it could read; the
\* attempt stays open if there was no response at all.
GivesUp ==
    /\ port.turn.at = "calling"
    /\ \E n \in {0, 1, ResponseLimit(port.turn)}, truncated, anchored \in BOOLEAN :
         LET t == [port.turn EXCEPT !.captured = TRUE]
             retry == MayComplete(t, n) /\ (t.phase = "deliberate" \/ truncated)
             again == retry /\ (t.phase = "deliberate" \/ anchored)
             p == [port EXCEPT !.turn = [t EXCEPT !.attempts =
                                 Exchanged(@, n, IF retry THEN "invalid" ELSE "failed")]]
         IN /\ port' = Incomplete(p, again)
            /\ IF again THEN UNCHANGED run ELSE RunEnds
    /\ UNCHANGED saved

\* The request fails on its way: it is tried again, after a delay, while the
\* allowance of its envelope lasts.
Unavailable ==
    /\ port.turn.at = "calling"
    /\ LET t == [port.turn EXCEPT !.captured = TRUE, !.attempts = Settled(@, "failed")] IN
       \/ /\ t.retries > 0
          /\ port' = [port EXCEPT !.turn = [t EXCEPT !.at = "sleeping"]]
          /\ UNCHANGED run
       \/ port' = Failed([port EXCEPT !.turn = t], "failed") /\ RunEnds
    /\ UNCHANGED saved

Retry ==
    /\ port.turn.at = "sleeping"
    /\ port' = [port EXCEPT !.turn.at = "calling",
                            !.turn.retries = @ - 1,
                            !.turn.attempts = Started(@, port.turn.phase, TRUE)]
    /\ UNCHANGED <<run, saved>>

\* Anything else that is raised while the request is out, a usage limit too.
Raises ==
    /\ port.turn.at = "calling"
    /\ \E captured \in BOOLEAN :
         port' = Failed([port EXCEPT !.turn.captured = @ \/ captured], "failed")
    /\ RunEnds
    /\ UNCHANGED saved

\* The deadline of the turn, or whoever runs the loop, cancels it at an await.
Cancel ==
    /\ port.turn.at # "idle"
    /\ \E captured \in BOOLEAN :
         LET t == [port.turn EXCEPT
                     !.cancelled = TRUE,
                     !.captured = @ \/ (captured /\ port.turn.at = "calling"),
                     !.attempts = IF port.turn.at = "calling"
                                  THEN Settled(@, "cancelled") ELSE @]
         IN port' = Failed([port EXCEPT !.turn = t], "cancelled")
    /\ RunEnds
    /\ UNCHANGED saved

------------------------------------------------------------------------------
(* What uses the port: the core loop and the session. *)

NoCheckpoint == [identity |-> 0, rev |-> 0, history |-> <<>>, from |-> "none", step |-> NoCall]

\* A task is admitted and its first revision bound before any model call; the
\* goal may ask for input first, in a request no call stands for.
BridgeInit ==
    /\ port = [history |-> <<>>, identity |-> 1, issued |-> 0, outcome |-> "none",
               turn |-> Idle]
    /\ run \in [at : {"running", "user"}, step : {NoCall}, decision : {NoCall},
                rev : {1}, from : {"none"}]
    /\ saved = NoCheckpoint

\* The loop gives the decision its step; a call may ask the user.
Commit ==
    /\ run.at = "acting"
    /\ \E at \in {"running", "user", "ended"} :
         /\ at = "user" => run.decision # NoCall
         /\ run' = [run EXCEPT !.at = at, !.step = run.decision, !.decision = NoCall]
    /\ UNCHANGED <<port, saved>>

\* The user's answer is the next revision of the task.  The step that asked
\* stays, unless the goal asks again: its request replaces the step's decision,
\* and no call stands for it.
Answer ==
    /\ run.at = "user" /\ run.rev < MaxRevision
    /\ \E at \in {"running", "user", "ended"} :
         run' = [run EXCEPT !.at = at, !.rev = @ + 1,
                            !.step = IF at = "user" THEN NoCall ELSE @]
    /\ UNCHANGED <<port, saved>>

\* close_deferred_call
Closed(h, step) ==
    IF Pending(h) = <<>> THEN h ELSE Append(h, Returns(Pending(h), step))

\* The step a boundary closes with: the decision in hand after the policy.
BoundaryStep == IF run.at = "acting" THEN run.decision ELSE run.step

Checkpoint(history, from, step) ==
    [identity |-> port.identity, rev |-> run.rev, history |-> history,
     from |-> from, step |-> step]

\* A pause reaches a boundary.  If the open call cannot be closed, or the
\* checkpoint cannot be stored, the run goes on.
Pause ==
    /\ run.at \in {"running", "user", "acting"} /\ port.turn.at = "idle"
    /\ LET goesOn == IF run.at = "acting" THEN "running" ELSE run.at
           settled == Folded(Closed(port.history, BoundaryStep))
       IN IF ~Closes(port.history, BoundaryStep)
          THEN /\ run' = [run EXCEPT !.at = goesOn, !.step = BoundaryStep, !.decision = NoCall]
               /\ UNCHANGED <<port, saved>>
          ELSE /\ port' = [port EXCEPT !.history = settled]
               /\ \/ /\ run' = [run EXCEPT !.at = "paused", !.from = goesOn,
                                         !.step = BoundaryStep, !.decision = NoCall]
                     /\ saved' = Checkpoint(settled, goesOn, BoundaryStep)
                  \/ /\ run' = [run EXCEPT !.at = goesOn, !.step = BoundaryStep,
                                         !.decision = NoCall]
                     /\ UNCHANGED saved

\* A resume consumes the checkpoint.
Resume ==
    /\ run.at = "paused"
    /\ run' = [run EXCEPT !.at = run.from, !.from = "none"]
    /\ saved' = NoCheckpoint
    /\ UNCHANGED port

\* The process of a paused run is gone, and the port with it.
Crash ==
    /\ run.at = "paused"
    /\ run' = [run EXCEPT !.at = "lost"]
    /\ port' = [port EXCEPT !.history = <<>>, !.identity = 0, !.outcome = "none",
                           !.turn = Idle]
    /\ UNCHANGED saved

\* restore_persisted_checkpoint_history
Restorable(c) == c.identity = c.rev /\ Pending(c.history) = <<>>

Recover ==
    /\ run.at = "lost" /\ Restorable(saved)
    /\ port' = [port EXCEPT !.history = saved.history, !.identity = saved.rev]
    /\ run' = [run EXCEPT !.at = "paused", !.rev = saved.rev, !.from = saved.from,
                          !.step = saved.step]
    /\ UNCHANGED saved

\* A revision of a paused task: the history of the old one is given up, and
\* the checkpoint of the new one stored in the place of the old.
Revise ==
    /\ run.at = "paused" /\ run.rev < MaxRevision
    /\ port.identity = run.rev
    /\ port' = [port EXCEPT !.history = <<>>, !.identity = run.rev + 1]
    /\ \E from \in {"running", "user"} :
         /\ run' = [run EXCEPT !.rev = @ + 1, !.from = from,
                               !.step = IF from = "user" THEN NoCall ELSE @]
         /\ saved' = [identity |-> run.rev + 1, rev |-> run.rev + 1, history |-> <<>>,
                      from |-> from, step |-> run'.step]

BridgeNext ==
    \/ Think \/ Compact \/ Replies \/ GivesUp \/ Unavailable \/ Retry \/ Raises \/ Cancel
    \/ Commit \/ Answer \/ Pause \/ Resume \/ Crash \/ Recover \/ Revise

BridgeSpec == BridgeInit /\ [][BridgeNext]_bridgeVars

------------------------------------------------------------------------------
(* Properties. *)

\* What the model is told of its own past is true and can be sent: the history,
\* the one a turn works with and the stored one can be coded for the provider,
\* and every result stands with the calls of the step that earned it -
\* whatever was compacted, closed at a boundary, failed, repaired or recovered.
HistoryTellsTheTruth ==
    \A h \in {port.history, port.turn.local, saved.history} :
        /\ Codable(h)
        /\ \A i \in 1..Len(h) : h[i].kind = "returns" => h[i].by = Head(h[i].calls)

\* One envelope spends one allowance of transport retries, though the SDK and
\* the port's own fallback may ask again within it.
OneAllowance ==
    Cardinality({i \in DOMAIN port.turn.attempts : port.turn.attempts[i].retry}) <= MaxRetries

\* A checkpoint the session offers for recovery can be restored: its history
\* belongs to the task revision it is stored with.
EligibleCheckpointRestores == saved # NoCheckpoint => Restorable(saved)
=============================================================================
