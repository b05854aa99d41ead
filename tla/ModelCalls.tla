----------------------------- MODULE ModelCalls -----------------------------
(* Structured model calls: one provider port, the worker threads that      *)
(* carry its requests, and the callers that await them: the goal compiler  *)
(* with the boundary that accepts its plans, the task revision compiler,   *)
(* the semantic judge, and a caller with the port's default configuration. *)
(* A caller that is cancelled, or times out, leaves its thread running: a  *)
(* late thread still writes the port's last call, transcript and circuit.  *)
EXTENDS Naturals, FiniteSets

CONSTANTS Slots,     \* threads that may run at once, a set of numbers
          Nobody     \* no call

ASSUME CallsAssumption == Slots \subseteq Nat /\ Slots # {} /\ Nobody \notin Slots

VARIABLES users,       \* the roles that share the port
          circuit,     \* circuit_failure_kind, and the ticks it stays open
          lastCall,    \* the thread whose call port.last_call records
          transcript,  \* port.last_transcript: its thread, the record in it
          threads,     \* the worker threads of asyncio.to_thread
          caller,      \* the coroutine awaiting the port
          note         \* the latest attempt a caller has recorded

callVars == <<users, circuit, lastCall, transcript, threads, caller, note>>

Compilers == {"goal", "revision"}
ProviderKinds == {"rate", "quota", "capacity"}

(* The callers' configurations: retries inside one call, and the ticks a   *)
(* circuit is held after a transient failure (zero: not held at all).      *)
ConfigOf(role) == IF role = "direct"
                  THEN [rate |-> 1, transient |-> 1, timeout |-> 1, hold |-> 1]
                  ELSE [rate |-> 0, transient |-> 0, timeout |-> 0, hold |-> 0]
QuotaHold == 2
RetryBudget(config) ==
    CHOOSE n \in {config.rate, config.transient, config.timeout} :
        \A m \in {config.rate, config.transient, config.timeout} : m <= n

----------------------------------------------------------------------------
(* Goal plans                                                               *)

Items == {"a", "b", "c"}
Flaws == {"none", "blank", "repeated", "twice", "finals"}
Independent == [i \in Items |-> {}]
Proposals == [deps : [Items -> SUBSET (Items \cup {"unknown"})], flaw : {"none"}]
             \cup [deps : {Independent}, flaw : Flaws]

\* items with every prerequisite among those visited before, round by round
Visited(deps) ==
    LET visited[n \in 0..Cardinality(Items)] ==
            IF n = 0 THEN {} ELSE {i \in Items : deps[i] \subseteq visited[n - 1]}
    IN  visited[Cardinality(Items)]

\* an item is visited as soon as one of its prerequisites is
IsDagByAny(deps) ==
    LET visited[n \in 0..Cardinality(Items)] ==
            IF n = 0 THEN {i \in Items : deps[i] = {}}
            ELSE visited[n - 1] \cup {i \in Items : deps[i] \cap visited[n - 1] # {}}
    IN  visited[Cardinality(Items)] = Items
IsDag(deps) == Visited(deps) = Items

NoContradiction(p) ==
    /\ p.flaw \notin {"twice", "finals"}         \* two items of one name, two final ones
    /\ \A i \in Items : p.deps[i] \subseteq Items \ {i}
    /\ IsDag(p.deps)

ShapedProposals == {p \in Proposals : NoContradiction(p)}

\* GoalPlanItem also refuses blank text and a prerequisite named twice,
\* which the response's own schema lets through.
Accepted(p) == NoContradiction(p) /\ p.flaw \notin {"blank", "repeated"}

----------------------------------------------------------------------------
(* The port's threads                                                       *)

Free == [st |-> "free"]
FreshThread(role) == [st |-> "new", role |-> role, rate |-> 0, transient |-> 0, sent |-> 0]
Idle == [step |-> "idle"]
NoNote == [call |-> Nobody]
NoTranscript == [call |-> Nobody, record |-> Nobody]
NoAnswer == [says |-> "nothing"]

Awaited(i) == caller.step = "calling" /\ caller.thread = i

\* a thread ends: its caller is told, unless nobody awaits it any more
ThreadEnds(i, out, answer, local, hint) ==
    threads' = [threads EXCEPT ![i] =
        IF Awaited(i) THEN [st |-> "ended", out |-> out, answer |-> answer,
                            local |-> local, hint |-> hint]
        ELSE Free]

CircuitIsOpen == circuit.left > 0

GenerateStarts(i) ==
    /\ threads[i].st = "new"
    /\ lastCall' = Nobody /\ transcript' = NoTranscript
    /\ \/ CircuitIsOpen /\ ThreadEnds(i, circuit.kind, NoAnswer, TRUE, circuit.left)
       \/ /\ ~CircuitIsOpen
          /\ threads' = [threads EXCEPT ![i].st = "asking", ![i].sent = 1]
       \/ ThreadEnds(i, "error", NoAnswer, FALSE, 0)      \* unsupported thinking mode
    /\ UNCHANGED <<users, circuit, caller, note>>

\* the response has arrived: the call is on record, its content is not yet read
Responds(i) ==
    /\ threads[i].st = "asking"
    /\ lastCall' = i
    /\ threads' = [threads EXCEPT ![i].st = "answered"]
    /\ UNCHANGED <<users, circuit, transcript, caller, note>>

\* the content is validated against the schema; the transcript is captured
\* with the record the port holds at that moment
Validates(i, answer) ==
    /\ threads[i].st = "answered"
    /\ transcript' = [call |-> i, record |-> lastCall]
    /\ IF answer.says = "unusable"
       THEN ThreadEnds(i, "schema", NoAnswer, FALSE, 0)
       ELSE ThreadEnds(i, "accepted", answer, FALSE, 0)
    /\ UNCHANGED <<users, circuit, lastCall, caller, note>>

\* empty or truncated content, no JSON, another shape: "unusable"
ModelAnswers(role) ==
    [says : {"unusable"} \cup (IF role \in Compilers THEN {"other", "failed"} ELSE {})]
    \cup
    (IF role = "goal"
     THEN [says : {"ready"}, plan : ShapedProposals]
     ELSE [says : {"ready"}, valid : IF role = "direct" THEN {TRUE} ELSE BOOLEAN])

\* HTTP 4xx, a body that is no JSON object: not a provider failure
IsRefused(i) ==
    /\ threads[i].st = "asking"
    /\ ThreadEnds(i, "error", NoAnswer, FALSE, 0)
    /\ UNCHANGED <<users, circuit, lastCall, transcript, caller, note>>

----------------------------------------------------------------------------
(* Retries inside one call, and the circuit                                 *)

\* the retries of one kind left, and those of the call as a whole
HasRetry(t, failure) ==
    LET config == ConfigOf(t.role)
    IN  /\ IF failure = "rate" THEN t.rate < config.rate
           ELSE t.transient < (IF failure = "timeout" THEN config.timeout
                               ELSE config.transient)
        /\ t.rate + t.transient < RetryBudget(config)

\* the request failed and is sent again after a delay the deadline allows
SendsAgain(i, failure) ==
    /\ threads[i].st = "asking" /\ failure # "quota"
    /\ HasRetry(threads[i], failure)
    /\ threads' = [threads EXCEPT ![i].sent = @ + 1,
          ![i].rate = @ + (IF failure = "rate" THEN 1 ELSE 0),
          ![i].transient = @ + (IF failure = "rate" THEN 0 ELSE 1)]
    /\ UNCHANGED <<users, circuit, lastCall, transcript, caller, note>>

KindOf(failure) == IF failure \in {"rate", "quota"} THEN failure ELSE "capacity"

\* a retry hint opens the circuit of a caller that owns its retries itself
TripsOnHint(kind, hint, role) ==
    LET hold == IF kind = "quota" THEN QuotaHold ELSE ConfigOf(role).hold
    IN  [kind |-> kind, left |-> IF hint > hold THEN hint ELSE hold]
Tripped(kind, hint, role) ==
    IF kind # "quota" /\ ConfigOf(role).hold = 0 THEN circuit
    ELSE LET hold == IF kind = "quota" THEN QuotaHold ELSE ConfigOf(role).hold
         IN  [kind |-> kind, left |-> IF hint > hold THEN hint ELSE hold]

\* no retry left, or no time for one; only a 429 or a 5xx brings a hint, and a
\* 429 with one is no exhausted quota
ProviderFails(i, failure, hint) ==
    /\ threads[i].st = "asking"
    /\ hint > 0 => failure \in {"rate", "server"}
    /\ transcript' = [call |-> i, record |-> lastCall]
    /\ circuit' = Tripped(KindOf(failure), hint, threads[i].role)
    /\ ThreadEnds(i, KindOf(failure), NoAnswer, FALSE, hint)
    /\ UNCHANGED <<users, lastCall, caller, note>>

----------------------------------------------------------------------------
(* The callers                                                              *)

Busy(i) == threads[i].st # "free"

\* generate_structured: the record is reset and a thread is given the call
Submits(c) ==
    \E i \in Slots :
        /\ ~Busy(i) /\ \A j \in Slots : Busy(j) \/ i <= j
        /\ threads' = [threads EXCEPT ![i] = FreshThread(c.role)]
        /\ lastCall' = Nobody /\ transcript' = NoTranscript
        /\ caller' = [c EXCEPT !.step = "calling", !.thread = i, !.calls = @ + 1,
                               !.crossed = @ \/ \E j \in Slots : Busy(j)]

Done(role, out, plan) == [step |-> "done", role |-> role, out |-> out, plan |-> plan]
NoPlan == [flaw |-> "absent"]

Begins(role) ==
    /\ caller.step = "idle" /\ role \in users
    /\ Submits([step |-> "calling", role |-> role, attempt |-> 0, repaired |-> FALSE,
                retried |-> FALSE, wait |-> 0, thread |-> Nobody, calls |-> 0,
                crossed |-> FALSE])
    /\ UNCHANGED <<users, circuit, note>>

\* a request larger than a message may be fails without a call
CannotAsk(role) ==
    /\ caller.step = "idle" /\ role \in users \ {"direct"}
    /\ caller' = Done(role, "failed", NoPlan)
    /\ UNCHANGED <<users, circuit, lastCall, transcript, threads, note>>

Schema(c, t) == t.out = "schema" /\ c.role \in Compilers
Usable(t) == t.answer.says = "ready"
BadPlan(c, t) == c.role = "goal" /\ t.out = "accepted" /\ Usable(t) /\ ~Accepted(t.answer.plan)

\* one more call after a transient rate limit, in each phase
RetriesLater(c, t) == t.out = "rate" /\ c.role \in Compilers /\ ~c.retried
\* one repair of an answer outside the schema, except in a contract repair
RepairsSchema(c, t) == Schema(c, t) /\ ~c.repaired /\ c.attempt = 0
\* one repair of a plan the boundary refused
RepairsPlan(c, t) == BadPlan(c, t) /\ c.attempt = 0

CompileOutcome(c, t) ==
    IF t.out # "accepted" THEN "failed"
    ELSE IF c.role = "goal"
         THEN IF BadPlan(c, t) THEN "failed"
              ELSE IF Usable(t) THEN "ready"
              ELSE IF c.attempt = 1 THEN "failed" ELSE t.answer.says
         ELSE IF Usable(t) /\ ~t.answer.valid THEN "failed" ELSE t.answer.says
PlanOf(c, t) == IF c.role = "goal" /\ CompileOutcome(c, t) = "ready" THEN t.answer.plan ELSE NoPlan

\* what the compiler appends to its attempts when the awaited call is over
Noted(c, t) == [call |-> c.thread, record |-> lastCall, transcript |-> transcript,
                out |-> t.out, local |-> t.local, retried |-> c.retried, crossed |-> c.crossed]

Released == [threads EXCEPT ![caller.thread] = Free]

ResumesInTurn ==
    /\ caller.step = "calling" /\ threads[caller.thread].st = "ended"
    /\ LET t == threads[caller.thread]
           c == caller
       IN  /\ note' = Noted(c, t)
           /\ \/ /\ RetriesLater(c, t)
                 /\ caller' = [c EXCEPT !.step = "delay", !.retried = TRUE, !.wait = 1]
                 /\ threads' = Released
                 /\ UNCHANGED <<lastCall, transcript>>
              \/ /\ RepairsSchema(c, t) \/ RepairsPlan(c, t)
                 /\ caller' = [c EXCEPT !.retried = FALSE, !.calls = @ + 1,
                       !.repaired = @ \/ RepairsSchema(c, t),
                       !.attempt = IF RepairsPlan(c, t) THEN 1 ELSE @,
                       !.crossed = @ \/ \E j \in Slots \ {c.thread} : Busy(j)]
                 /\ threads' = [threads EXCEPT ![c.thread] = FreshThread(c.role)]
                 /\ lastCall' = Nobody /\ transcript' = NoTranscript
              \/ /\ ~RetriesLater(c, t) /\ ~RepairsSchema(c, t) /\ ~RepairsPlan(c, t)
                 /\ caller' = Done(c.role, CompileOutcome(c, t), PlanOf(c, t))
                 /\ threads' = Released
                 /\ UNCHANGED <<lastCall, transcript>>
    /\ UNCHANGED <<users, circuit>>

RetriesAfterDelay ==
    /\ caller.step = "delay" /\ caller.wait = 0
    /\ Submits(caller)
    /\ UNCHANGED <<users, circuit, note>>

\* cancelled, or the judge's own deadline: a thread that has not started does
\* not start any more, one that has runs on
GivesUp ==
    /\ \/ /\ caller.step = "calling"
          /\ threads' = [threads EXCEPT ![caller.thread] =
                IF @.st \in {"new", "ended"} THEN Free ELSE @]
       \/ caller.step = "delay" /\ UNCHANGED threads
    /\ caller' = Idle /\ note' = NoNote
    /\ UNCHANGED <<users, circuit, lastCall, transcript>>

Rests ==
    /\ caller.step = "done"
    /\ caller' = Idle /\ note' = NoNote
    /\ UNCHANGED <<users, circuit, lastCall, transcript, threads>>

Elapses ==
    /\ CircuitIsOpen \/ (caller.step = "delay" /\ caller.wait > 0)
    /\ circuit' = IF circuit.left > 1 THEN [circuit EXCEPT !.left = @ - 1]
                  ELSE [kind |-> "none", left |-> 0]
    /\ caller' = IF caller.step = "delay" THEN [caller EXCEPT !.wait = 0] ELSE caller
    /\ UNCHANGED <<users, lastCall, transcript, threads, note>>

----------------------------------------------------------------------------

CallInit ==
    /\ users \in {{"goal", "revision"}, {"judge"}, {"direct"}}
    /\ circuit = [kind |-> "none", left |-> 0]
    /\ lastCall = Nobody /\ transcript = NoTranscript
    /\ threads = [i \in Slots |-> Free]
    /\ caller = Idle /\ note = NoNote

ThreadSteps ==
    \E i \in Slots :
        \/ GenerateStarts(i)
        \/ Responds(i)
        \/ threads[i].st = "answered" /\ \E answer \in ModelAnswers(threads[i].role) : Validates(i, answer)
        \/ IsRefused(i)
        \/ \E failure \in {"rate", "quota", "server", "timeout", "transport"} :
               SendsAgain(i, failure) \/ \E hint \in 0..2 : ProviderFails(i, failure, hint)

CallNext ==
    \/ ThreadSteps
    \/ \E role \in users : Begins(role) \/ CannotAsk(role)
    \/ ResumesInTurn \/ RetriesAfterDelay \/ GivesUp \/ Rests
    \/ Elapses

CallSpec == CallInit /\ [][CallNext]_callVars

----------------------------------------------------------------------------
(* What callers may rely on                                                 *)

\* The record and the transcript a caller attaches to an attempt are those of
\* its own call, and there is none where the call left none, unless the thread
\* of a call given up before was still running beside it.
RecordIsOwn ==
    note.call # Nobody /\ ~note.crossed =>
        /\ note.record = IF note.out \in {"accepted", "schema"} THEN note.call ELSE Nobody
        /\ note.transcript = IF note.out = "error" \/ note.local THEN NoTranscript
                             ELSE [call |-> note.call, record |-> note.record]

\* A compiler that waits before the retry it owns is not refused at the port by
\* a circuit its own first call opened: recovery has one owner.
RetryReachesProvider == note.call # Nobody /\ ~note.crossed => ~(note.retried /\ note.local)

\* The calls of compilers and judge share one port and keep apart: each reads
\* its own record though a given-up thread may still write, and a retry the
\* caller owns is not swallowed by the circuit its own call opened.
CallsKeepApart == RecordIsOwn /\ RetryReachesProvider

\* A plan the run adopts can be worked through: its items can be put in an order
\* in which each comes after its prerequisites.
PlanIsOrdered ==
    caller.step = "done" /\ caller.plan.flaw # "absent" =>
        \E order \in [Items -> 1..Cardinality(Items)] :
            /\ \A i, j \in Items : i # j => order[i] # order[j]
            /\ \A i \in Items : \A d \in caller.plan.deps[i] :
                   d \in Items /\ order[d] < order[i]
=============================================================================
