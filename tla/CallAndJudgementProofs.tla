----------------------- MODULE CallAndJudgementProofs -----------------------
(***************************************************************************)
(* Proofs about ModelCalls, for any number of threads: a caller reads the  *)
(* record of its own call, a retry it owns reaches the provider, and a     *)
(* plan that is adopted can be worked through.  And about TaskJudgement,   *)
(* for every task, screen and showing of it, and every answer of the       *)
(* judge: what the composer makes of the evidence the validator accepts,   *)
(* and a run that is done, like all that is said of an action, is true of  *)
(* the real screen.                                                        *)
(***************************************************************************)
EXTENDS ModelCalls, TaskJudgement, FiniteSetTheorems, SequenceTheorems, WellFoundedInduction, TLAPS

-----------------------------------------------------------------------------
(* What the variables hold.                                                *)

Roles == Compilers \cup {"judge", "direct"}

CircuitLike(c) ==
    /\ c = [kind |-> c.kind, left |-> c.left]
    /\ c.kind \in ProviderKinds \cup {"none"} /\ c.left \in Nat
    /\ c.kind = "none" => c.left = 0

Outs == ProviderKinds \cup {"error", "schema", "accepted"}

RunningLike(t) ==
    /\ t.st \in {"new", "asking", "answered"}
    /\ t = [st |-> t.st, role |-> t.role, rate |-> t.rate,
            transient |-> t.transient, sent |-> t.sent]
    /\ t.role \in Roles
    /\ t.rate \in Nat /\ t.transient \in Nat /\ t.sent \in Nat

EndedLike(t) ==
    /\ t.st = "ended"
    /\ t = [st |-> "ended", out |-> t.out, answer |-> t.answer,
            local |-> t.local, hint |-> t.hint]
    /\ t.out \in Outs /\ t.local \in BOOLEAN /\ t.hint \in Nat

ThreadLike(t) == t = Free \/ RunningLike(t) \/ EndedLike(t)

ThreadsLike == /\ threads = [i \in Slots |-> threads[i]]
               /\ \A i \in Slots : ThreadLike(threads[i])

\* a coroutine in one of its calls, or waiting before the next
AskingLike(c) ==
    /\ c.step \in {"calling", "delay"}
    /\ c = [step |-> c.step, role |-> c.role, attempt |-> c.attempt,
            repaired |-> c.repaired, retried |-> c.retried, wait |-> c.wait,
            thread |-> c.thread, calls |-> c.calls, crossed |-> c.crossed]
    /\ c.role \in users
    /\ c.attempt \in {0, 1} /\ c.repaired \in BOOLEAN /\ c.retried \in BOOLEAN
    /\ c.wait \in {0, 1} /\ c.calls \in Nat /\ c.crossed \in BOOLEAN
    /\ c.step = "calling" => c.thread \in Slots

CallerLike == \/ caller = Idle
              \/ caller.step = "done"
              \/ AskingLike(caller)

CallTypeOK ==
    /\ users \in {{"goal", "revision"}, {"judge"}, {"direct"}}
    /\ CircuitLike(circuit) /\ ThreadsLike /\ CallerLike
    /\ lastCall \in Slots \cup {Nobody}
    /\ transcript \in [call : Slots \cup {Nobody}, record : Slots \cup {Nobody}]

-----------------------------------------------------------------------------
(* The invariant.                                                          *)

\* A thread works in the role of a user; the awaited one in the caller's.
RolesAgree ==
    /\ \A i \in Slots : RunningLike(threads[i]) => threads[i].role \in users
    /\ caller.step = "calling" =>
          /\ threads[caller.thread] # Free
          /\ RunningLike(threads[caller.thread]) => threads[caller.thread].role = caller.role
    /\ \A i \in Slots : EndedLike(threads[i]) => Awaited(i)

\* Only a caller that holds the circuit itself opens it for less than a quota.
CircuitIsOwned == circuit.kind # "none" => circuit.kind = "quota" \/ users = {"direct"}

Alone == \/ caller.step = "calling" /\ ~caller.crossed
         \/ caller.step = "delay" /\ ~caller.crossed

\* Beside a call that nothing crosses there is no other thread.
NoOther == Alone => \A i \in Slots : threads[i] = Free \/ Awaited(i)

\* What the port has on record of a call that nothing crosses.
Recorded(i, t) ==
    IF RunningLike(t)
    THEN /\ lastCall = IF t.st = "answered" THEN i ELSE Nobody
         /\ transcript = NoTranscript
    ELSE /\ lastCall = IF t.out \in {"accepted", "schema"} THEN i ELSE Nobody
         /\ transcript = IF t.out = "error" \/ t.local THEN NoTranscript
                         ELSE [call |-> i, record |-> lastCall]

OwnRecord == caller.step = "calling" /\ ~caller.crossed =>
                Recorded(caller.thread, threads[caller.thread])

\* The circuit is closed while a compiler's call may still be refused for a
\* rate limit, and while a retry of its own is to come.
Reached(t) ==
    IF RunningLike(t)
    THEN t.st # "new" \/ caller.retried => circuit.left = 0
    ELSE /\ t.out = "rate" => circuit.left = 0
         /\ caller.retried => ~t.local

RetryIsOpen ==
    Alone /\ caller.role \in Compilers =>
        /\ caller.step = "delay" => circuit.left = 0 /\ caller.retried
        /\ caller.step = "calling" => Reached(threads[caller.thread])

RetryOfCompiler == Alone /\ caller.retried => caller.role \in Compilers

\* A plan that is handed over has passed the boundary.
PlanPassed ==
    caller.step = "done" =>
        caller.plan = NoPlan \/ NoContradiction(caller.plan)

CallInv ==
    /\ CallTypeOK /\ RolesAgree /\ CircuitIsOwned /\ NoOther
    /\ OwnRecord /\ RetryIsOpen /\ RetryOfCompiler /\ PlanPassed
    /\ RecordIsOwn /\ RetryReachesProvider

-----------------------------------------------------------------------------
(* The threads.                                                            *)

\* One thread changes.
LEMMA ThreadChanges ==
    ASSUME ThreadsLike, NEW i \in Slots, NEW t, ThreadLike(t),
           threads' = [threads EXCEPT ![i] = t]
    PROVE  /\ ThreadsLike' /\ threads'[i] = t
           /\ \A j \in Slots \ {i} : threads'[j] = threads[j]
<1>1. threads = [j \in Slots |-> threads[j]] /\ \A j \in Slots : ThreadLike(threads[j])
  BY DEF ThreadsLike
<1>2. /\ threads' = [j \in Slots |-> threads'[j]] /\ threads'[i] = t
      /\ \A j \in Slots \ {i} : threads'[j] = threads[j]
  BY ONLY <1>1, i \in Slots, threads' = [threads EXCEPT ![i] = t]
<1>3. \A j \in Slots : ThreadLike(threads'[j])
  BY ONLY <1>1, <1>2, ThreadLike(t), i \in Slots
<1> QED BY <1>2, <1>3 DEF ThreadsLike

\* A thread is free, runs, or has ended, and only one of them.
LEMMA ThreadIsOne ==
    ASSUME NEW t
    PROVE  /\ RunningLike(t) => t # Free /\ ~EndedLike(t)
           /\ EndedLike(t) => t # Free /\ ~RunningLike(t)
           /\ ~RunningLike(Free) /\ ~EndedLike(Free)
BY DEF RunningLike, EndedLike, Free

\* A thread ends as an answer to its caller, or for nobody.
LEMMA ThreadEndsAs ==
    ASSUME NEW i \in Slots, NEW out \in Outs, NEW answer, NEW local \in BOOLEAN,
           NEW hint \in Nat, ThreadEnds(i, out, answer, local, hint)
    PROVE  \E t : /\ threads' = [threads EXCEPT ![i] = t]
                  /\ IF Awaited(i)
                     THEN EndedLike(t) /\ t.out = out /\ t.local = local
                     ELSE t = Free
<1> DEFINE e == [st |-> "ended", out |-> out, answer |-> answer,
                 local |-> local, hint |-> hint]
           t == IF Awaited(i) THEN e ELSE Free
<1>1. EndedLike(e) /\ e.out = out /\ e.local = local
  BY DEF EndedLike
<1>2. threads' = [threads EXCEPT ![i] = t]
  BY DEF ThreadEnds
<1> HIDE DEF e
<1> QED BY <1>1, <1>2

\* A step of a thread keeps the invariant when what it leaves on record, and
\* of the circuit, is right for the caller that awaits it.
LEMMA WorkKeeps ==
    ASSUME CallInv, NEW i \in Slots, NEW t, RunningLike(threads[i]),
           threads' = [threads EXCEPT ![i] = t],
           UNCHANGED <<users, caller, note>>,
           \/ RunningLike(t) /\ t.role = threads[i].role
           \/ Awaited(i) /\ EndedLike(t)
           \/ ~Awaited(i) /\ t = Free,
           CircuitLike(circuit'), CircuitIsOwned',
           lastCall' \in Slots \cup {Nobody},
           transcript' \in [call : Slots \cup {Nobody}, record : Slots \cup {Nobody}],
           Awaited(i) /\ ~caller.crossed => Recorded(i, t)',
           Awaited(i) /\ ~caller.crossed /\ caller.role \in Compilers => Reached(t)'
    PROVE  CallInv'
<1>1. ThreadLike(t)
  BY DEF ThreadLike
<1>2. /\ ThreadsLike' /\ threads'[i] = t
      /\ \A j \in Slots \ {i} : threads'[j] = threads[j]
  BY <1>1, ThreadChanges DEF CallInv, CallTypeOK
<1>3. threads[i] # Free /\ ~EndedLike(threads[i])
  BY ThreadIsOne
<1>4. CallerLike'
  BY DEF CallInv, CallTypeOK, CallerLike, AskingLike
<1>5. CallTypeOK'
  BY <1>2, <1>4 DEF CallInv, CallTypeOK
<1>6. \A j \in Slots : Awaited(j)' <=> Awaited(j)
  BY DEF Awaited
<1>7. RolesAgree'
  <2>0. RolesAgree
    BY DEF CallInv
  <2>1. \A j \in Slots : RunningLike(threads'[j]) => threads'[j].role \in users'
    BY <1>2, <2>0, ThreadIsOne DEF RolesAgree
  <2>2. caller'.step = "calling" =>
          /\ threads'[caller'.thread] # Free
          /\ RunningLike(threads'[caller'.thread]) => threads'[caller'.thread].role = caller'.role
    BY <1>2, <2>0, ThreadIsOne DEF RolesAgree, CallInv, CallTypeOK, CallerLike, AskingLike, Idle, Awaited
  <2>3. \A j \in Slots : EndedLike(threads'[j]) => Awaited(j)'
    BY <1>2, <1>6, <2>0, ThreadIsOne DEF RolesAgree
  <2> QED BY <2>1, <2>2, <2>3 DEF RolesAgree
<1>8. Alone' => Alone
  BY DEF Alone
<1>9. Alone => Awaited(i)
  BY <1>3 DEF CallInv, NoOther
<1>10. NoOther'
  BY <1>2, <1>6, <1>8, <1>9 DEF CallInv, NoOther
<1>11. Awaited(i) => caller.step = "calling" /\ caller.thread = i
  BY DEF Awaited
<1>12. OwnRecord'
  BY <1>2, <1>9, <1>11 DEF OwnRecord, Alone
<1>13. RetryIsOpen'
  BY <1>2, <1>8, <1>9, <1>11 DEF RetryIsOpen, Alone
<1>14. RetryOfCompiler' /\ PlanPassed' /\ RecordIsOwn' /\ RetryReachesProvider'
  BY <1>8 DEF CallInv, RetryOfCompiler, PlanPassed, RecordIsOwn, RetryReachesProvider
<1> QED BY <1>5, <1>7, <1>10, <1>12, <1>13, <1>14 DEF CallInv
-----------------------------------------------------------------------------
(* The steps of the threads.                                               *)

\* What the awaited thread finds.
LEMMA AwaitedHas ==
    ASSUME CallInv, NEW i \in Slots, Awaited(i)
    PROVE  /\ caller.step = "calling" /\ caller.thread = i /\ AskingLike(caller)
           /\ RunningLike(threads[i]) => threads[i].role = caller.role
           /\ ~caller.crossed => Recorded(i, threads[i])
           /\ ~caller.crossed /\ caller.role \in Compilers => Reached(threads[i])
<1>1. caller.step = "calling" /\ caller.thread = i
  BY DEF Awaited
<1>2. AskingLike(caller)
  BY <1>1 DEF CallInv, CallTypeOK, CallerLike, Idle
<1> QED BY <1>1, <1>2 DEF CallInv, RolesAgree, OwnRecord, RetryIsOpen, Alone

\* A thread in a state of its work is one of those that run.
LEMMA ThreadRuns ==
    ASSUME CallInv, NEW i \in Slots, threads[i].st \in {"new", "asking", "answered"}
    PROVE  RunningLike(threads[i])
<1>1. ThreadLike(threads[i])
  BY DEF CallInv, CallTypeOK, ThreadsLike
<1> QED BY <1>1 DEF ThreadLike, EndedLike, Free

\* Compilers never share their port with a caller that holds a circuit.
LEMMA CompilersHoldNothing ==
    ASSUME CallInv, caller.role \in Compilers, AskingLike(caller)
    PROVE  circuit.kind \in {"none", "quota"}
BY DEF CallInv, CallTypeOK, CircuitIsOwned, AskingLike, Compilers, CircuitLike, ProviderKinds

\* The start of a call: refused by the circuit, sent, or not supported.
LEMMA GenerateStartsKeeps == ASSUME CallInv, NEW i \in Slots, GenerateStarts(i) PROVE CallInv'
<1>1. /\ threads[i].st = "new" /\ lastCall' = Nobody /\ transcript' = NoTranscript
      /\ UNCHANGED <<users, circuit, caller, note>>
  BY DEF GenerateStarts
<1>2. RunningLike(threads[i])
  BY <1>1, ThreadRuns
<1>3. /\ CircuitLike(circuit') /\ CircuitIsOwned' /\ CircuitLike(circuit)
      /\ lastCall' \in Slots \cup {Nobody}
      /\ transcript' \in [call : Slots \cup {Nobody}, record : Slots \cup {Nobody}]
  BY <1>1 DEF CallInv, CallTypeOK, CircuitIsOwned, NoTranscript
<1>4. CASE CircuitIsOpen /\ ThreadEnds(i, circuit.kind, NoAnswer, TRUE, circuit.left)
  <2>1. circuit.kind \in ProviderKinds /\ circuit.left \in Nat /\ circuit.left # 0
    BY <1>3, <1>4 DEF CircuitLike, CircuitIsOpen
  <2>2. PICK t : /\ threads' = [threads EXCEPT ![i] = t]
                 /\ IF Awaited(i)
                    THEN EndedLike(t) /\ t.out = circuit.kind /\ t.local = TRUE
                    ELSE t = Free
    BY <1>4, <2>1, ThreadEndsAs DEF Outs
  <2>3. Awaited(i) => Recorded(i, t)'
    BY <1>1, <2>1, <2>2, ThreadIsOne DEF Recorded, ProviderKinds
  <2>4. ASSUME Awaited(i), ~caller.crossed, caller.role \in Compilers PROVE Reached(t)'
    <3>1. /\ AskingLike(caller) /\ Reached(threads[i])
      BY <2>4, AwaitedHas
    <3>2. circuit.kind = "quota"
      BY <2>1, <2>4, <3>1, CompilersHoldNothing DEF ProviderKinds
    <3>3. ~caller.retried
      BY <1>2, <2>1, <3>1 DEF Reached
    <3> QED BY <1>1, <2>2, <2>4, <3>2, <3>3, ThreadIsOne DEF Reached
  <2> QED BY <1>1, <1>2, <1>3, <2>2, <2>3, <2>4, WorkKeeps
<1>5. CASE ~CircuitIsOpen /\ threads' = [threads EXCEPT ![i].st = "asking", ![i].sent = 1]
  <2>0. PICK t : t = [threads[i] EXCEPT !.st = "asking", !.sent = 1]
    OBVIOUS
  <2>1. threads' = [threads EXCEPT ![i] = t]
    BY <1>5, <2>0
  <2>2. RunningLike(t) /\ t.role = threads[i].role /\ t.st = "asking"
    BY ONLY <1>2, <2>0 DEF RunningLike
  <2>3. circuit.left = 0
    BY <1>3, <1>5 DEF CircuitIsOpen, CircuitLike
  <2>4. Recorded(i, t)' /\ Reached(t)'
    BY <1>1, <2>2, <2>3 DEF Recorded, Reached
  <2> QED BY <1>1, <1>2, <1>3, <2>1, <2>2, <2>4, WorkKeeps
<1>6. CASE ThreadEnds(i, "error", NoAnswer, FALSE, 0)
  <2>1. PICK t : /\ threads' = [threads EXCEPT ![i] = t]
                 /\ IF Awaited(i)
                    THEN EndedLike(t) /\ t.out = "error" /\ t.local = FALSE
                    ELSE t = Free
    BY <1>6, ThreadEndsAs DEF Outs
  <2>2. Awaited(i) => Recorded(i, t)' /\ Reached(t)'
    BY <1>1, <2>1, ThreadIsOne DEF Recorded, Reached
  <2> QED BY <1>1, <1>2, <1>3, <2>1, <2>2, WorkKeeps
<1> QED BY <1>4, <1>5, <1>6 DEF GenerateStarts

\* The response is on record before it is read.
LEMMA RespondsKeeps == ASSUME CallInv, NEW i \in Slots, Responds(i) PROVE CallInv'
<1>0. PICK t : t = [threads[i] EXCEPT !.st = "answered"]
  OBVIOUS
<1>1. /\ threads[i].st = "asking" /\ lastCall' = i
      /\ threads' = [threads EXCEPT ![i] = t]
      /\ UNCHANGED <<users, circuit, transcript, caller, note>>
  BY <1>0 DEF Responds
<1>2. RunningLike(threads[i])
  BY <1>1, ThreadRuns
<1>3. RunningLike(t) /\ t.role = threads[i].role /\ t.st = "answered"
  BY ONLY <1>0, <1>2 DEF RunningLike
<1>4. /\ CircuitLike(circuit') /\ CircuitIsOwned'
      /\ lastCall' \in Slots \cup {Nobody}
      /\ transcript' \in [call : Slots \cup {Nobody}, record : Slots \cup {Nobody}]
  BY <1>1 DEF CallInv, CallTypeOK, CircuitIsOwned
<1>5. Awaited(i) /\ ~caller.crossed => Recorded(i, t)'
  BY <1>1, <1>2, <1>3, AwaitedHas DEF Recorded
<1>6. Awaited(i) /\ ~caller.crossed /\ caller.role \in Compilers => Reached(t)'
  BY <1>1, <1>2, <1>3, AwaitedHas DEF Reached
<1> QED BY <1>1, <1>2, <1>3, <1>4, <1>5, <1>6, WorkKeeps

\* The transcript is captured with the record of that moment.
LEMMA ValidatesKeeps == ASSUME CallInv, NEW i \in Slots, NEW answer, Validates(i, answer) PROVE CallInv'
<1>1. /\ threads[i].st = "answered" /\ transcript' = [call |-> i, record |-> lastCall]
      /\ UNCHANGED <<users, circuit, lastCall, caller, note>>
  BY DEF Validates
<1>2. RunningLike(threads[i])
  BY <1>1, ThreadRuns
<1>3. /\ CircuitLike(circuit') /\ CircuitIsOwned'
      /\ lastCall' \in Slots \cup {Nobody}
      /\ transcript' \in [call : Slots \cup {Nobody}, record : Slots \cup {Nobody}]
  BY <1>1 DEF CallInv, CallTypeOK, CircuitIsOwned
<1>4. PICK t : /\ threads' = [threads EXCEPT ![i] = t]
               /\ IF Awaited(i)
                  THEN EndedLike(t) /\ t.out \in {"schema", "accepted"} /\ t.local = FALSE
                  ELSE t = Free
  <2>0. {"schema", "accepted"} \subseteq Outs /\ FALSE \in BOOLEAN /\ 0 \in Nat
    BY DEF Outs
  <2>1. CASE ThreadEnds(i, "schema", NoAnswer, FALSE, 0)
    <3>1. PICK out \in Outs, local \in BOOLEAN, hint \in Nat :
             out = "schema" /\ local = FALSE /\ hint = 0
      BY <2>0
    <3>2. ThreadEnds(i, out, NoAnswer, local, hint)
      BY <2>1, <3>1
    <3>3. \E t : /\ threads' = [threads EXCEPT ![i] = t]
                 /\ IF Awaited(i) THEN EndedLike(t) /\ t.out = out /\ t.local = local ELSE t = Free
      BY ONLY <3>2, i \in Slots, out \in Outs, local \in BOOLEAN, hint \in Nat, ThreadEndsAs
    <3> QED  BY <3>1, <3>3
  <2>2. CASE ThreadEnds(i, "accepted", answer, FALSE, 0)
    <3>1. PICK out \in Outs, local \in BOOLEAN, hint \in Nat :
             out = "accepted" /\ local = FALSE /\ hint = 0
      BY <2>0
    <3>2. ThreadEnds(i, out, answer, local, hint)
      BY <2>2, <3>1
    <3>3. \E t : /\ threads' = [threads EXCEPT ![i] = t]
                 /\ IF Awaited(i) THEN EndedLike(t) /\ t.out = out /\ t.local = local ELSE t = Free
      BY ONLY <3>2, i \in Slots, out \in Outs, local \in BOOLEAN, hint \in Nat, ThreadEndsAs
    <3> QED  BY <3>1, <3>3
  <2> QED BY <2>1, <2>2 DEF Validates
<1>5. Awaited(i) /\ ~caller.crossed => Recorded(i, t)'
  BY <1>1, <1>2, <1>4, AwaitedHas, ThreadIsOne DEF Recorded
<1>6. Awaited(i) => Reached(t)'
  BY <1>4, ThreadIsOne DEF Reached
<1> QED BY <1>1, <1>2, <1>3, <1>4, <1>5, <1>6, WorkKeeps

\* A refusal that is no failure of the provider leaves no record.
LEMMA IsRefusedKeeps == ASSUME CallInv, NEW i \in Slots, IsRefused(i) PROVE CallInv'
<1>1. /\ threads[i].st = "asking"
      /\ UNCHANGED <<users, circuit, lastCall, transcript, caller, note>>
  BY DEF IsRefused
<1>2. RunningLike(threads[i])
  BY <1>1, ThreadRuns
<1>3. /\ CircuitLike(circuit') /\ CircuitIsOwned'
      /\ lastCall' \in Slots \cup {Nobody}
      /\ transcript' \in [call : Slots \cup {Nobody}, record : Slots \cup {Nobody}]
  BY <1>1 DEF CallInv, CallTypeOK, CircuitIsOwned
<1>4. PICK t : /\ threads' = [threads EXCEPT ![i] = t]
               /\ IF Awaited(i)
                  THEN EndedLike(t) /\ t.out = "error" /\ t.local = FALSE
                  ELSE t = Free
  BY ThreadEndsAs DEF Outs, IsRefused
<1>5. Awaited(i) /\ ~caller.crossed => Recorded(i, t)'
  BY <1>1, <1>2, <1>4, AwaitedHas, ThreadIsOne DEF Recorded
<1>6. Awaited(i) => Reached(t)'
  BY <1>4, ThreadIsOne DEF Reached
<1> QED BY <1>1, <1>2, <1>3, <1>4, <1>5, <1>6, WorkKeeps

\* A retry inside the call goes on with the same call.
LEMMA SendsAgainKeeps == ASSUME CallInv, NEW i \in Slots, NEW failure, SendsAgain(i, failure) PROVE CallInv'
<1>0. PICK t : t = [threads[i] EXCEPT !.sent = @ + 1,
                       !.rate = @ + (IF failure = "rate" THEN 1 ELSE 0),
                       !.transient = @ + (IF failure = "rate" THEN 0 ELSE 1)]
  OBVIOUS
<1>1. /\ threads[i].st = "asking"
      /\ threads' = [threads EXCEPT ![i] = t]
      /\ UNCHANGED <<users, circuit, lastCall, transcript, caller, note>>
  <2>1. PICK n, r, x : /\ n = threads[i].sent + 1
                       /\ r = threads[i].rate + (IF failure = "rate" THEN 1 ELSE 0)
                       /\ x = threads[i].transient + (IF failure = "rate" THEN 0 ELSE 1)
    OBVIOUS
  <2>2. t = [threads[i] EXCEPT !.sent = n, !.rate = r, !.transient = x]
    BY ONLY <1>0, <2>1
  <2>3. threads' = [threads EXCEPT ![i].sent = n, ![i].rate = r, ![i].transient = x]
    BY ONLY SendsAgain(i, failure), <2>1 DEF SendsAgain
  <2>4. threads' = [threads EXCEPT ![i] = t]
    BY ONLY <2>2, <2>3
  <2> QED BY <2>4 DEF SendsAgain
<1>2. RunningLike(threads[i])
  BY <1>1, ThreadRuns
<1>3. RunningLike(t) /\ t.role = threads[i].role /\ t.st = "asking"
  <2>1. PICK n, r, x : /\ n = threads[i].sent + 1
                       /\ r = threads[i].rate + (IF failure = "rate" THEN 1 ELSE 0)
                       /\ x = threads[i].transient + (IF failure = "rate" THEN 0 ELSE 1)
    OBVIOUS
  <2>2. n \in Nat /\ r \in Nat /\ x \in Nat
    <3>1. threads[i].sent \in Nat /\ threads[i].rate \in Nat /\ threads[i].transient \in Nat
      BY <1>2 DEF RunningLike
    <3> QED BY ONLY <2>1, <3>1
  <2>3. t = [threads[i] EXCEPT !.sent = n, !.rate = r, !.transient = x]
    BY ONLY <1>0, <2>1
  <2>4. threads[i].st = "asking"
    BY <1>1
  <2> QED BY ONLY <1>2, <2>2, <2>3, <2>4 DEF RunningLike
<1>4. /\ CircuitLike(circuit') /\ CircuitIsOwned'
      /\ lastCall' \in Slots \cup {Nobody}
      /\ transcript' \in [call : Slots \cup {Nobody}, record : Slots \cup {Nobody}]
  BY <1>1 DEF CallInv, CallTypeOK, CircuitIsOwned
<1>5. Awaited(i) /\ ~caller.crossed => Recorded(i, t)'
  BY <1>1, <1>2, <1>3, AwaitedHas DEF Recorded
<1>6. Awaited(i) /\ ~caller.crossed /\ caller.role \in Compilers => Reached(t)'
  BY <1>1, <1>2, <1>3, AwaitedHas DEF Reached
<1> QED BY <1>1, <1>2, <1>3, <1>4, <1>5, <1>6, WorkKeeps

\* The failure of the provider opens the circuit for a quota, and otherwise
\* only for a caller that leaves its retries to the port.
LEMMA TrippedIs ==
    ASSUME CallInv, NEW failure \in {"rate", "quota", "server", "timeout", "transport"},
           NEW hint \in 0 .. 2, NEW role \in users
    PROVE  LET c == Tripped(KindOf(failure), hint, role) IN
           /\ CircuitLike(c)
           /\ c.kind # "none" => c.kind = "quota" \/ users = {"direct"}
           /\ role \in Compilers /\ failure # "quota" => c = circuit
<1> DEFINE kind == KindOf(failure)
           hold == IF kind = "quota" THEN QuotaHold ELSE ConfigOf(role).hold
           c == Tripped(kind, hint, role)
<1>1. kind \in ProviderKinds /\ (kind = "quota" <=> failure = "quota")
  BY DEF KindOf, ProviderKinds
<1>2. CircuitLike(circuit) /\ CircuitIsOwned /\ users \in {{"goal", "revision"}, {"judge"}, {"direct"}}
  BY DEF CallInv, CallTypeOK
<1>3. /\ ConfigOf(role).hold = IF role = "direct" THEN 1 ELSE 0
      /\ role = "direct" => users = {"direct"}
      /\ role \in Compilers => role # "direct"
  BY <1>2 DEF ConfigOf, Compilers
<1>4. CASE kind # "quota" /\ role # "direct"
  BY <1>1, <1>2, <1>3, <1>4 DEF Tripped, CircuitIsOwned
<1>5. CASE kind = "quota" \/ role = "direct"
  <2>1. c = [kind |-> kind, left |-> IF hint > hold THEN hint ELSE hold]
    BY <1>3, <1>5 DEF Tripped
  <2>2. hold \in Nat /\ hint \in Nat
    BY <1>3 DEF QuotaHold
  <2>3. CircuitLike(c)
    BY ONLY <1>1, <2>1, <2>2 DEF CircuitLike, ProviderKinds
  <2> QED BY <1>1, <1>3, <1>5, <2>1, <2>3
<1> QED BY <1>4, <1>5

\* The failure of the provider ends the call.
LEMMA ProviderFailsKeeps ==
    ASSUME CallInv, NEW i \in Slots, NEW hint \in 0 .. 2,
           NEW failure \in {"rate", "quota", "server", "timeout", "transport"},
           ProviderFails(i, failure, hint)
    PROVE  CallInv'
<1>1. /\ threads[i].st = "asking" /\ transcript' = [call |-> i, record |-> lastCall]
      /\ circuit' = Tripped(KindOf(failure), hint, threads[i].role)
      /\ ThreadEnds(i, KindOf(failure), NoAnswer, FALSE, hint)
      /\ UNCHANGED <<users, lastCall, caller, note>>
  BY DEF ProviderFails
<1>2. RunningLike(threads[i]) /\ threads[i].role \in users
  BY <1>1, ThreadRuns DEF CallInv, RolesAgree
<1>3. /\ CircuitLike(circuit')
      /\ circuit'.kind # "none" => circuit'.kind = "quota" \/ users = {"direct"}
      /\ threads[i].role \in Compilers /\ failure # "quota" => circuit' = circuit
  BY <1>1, <1>2, TrippedIs
<1>4. /\ CircuitIsOwned'
      /\ lastCall' \in Slots \cup {Nobody}
      /\ transcript' \in [call : Slots \cup {Nobody}, record : Slots \cup {Nobody}]
  BY <1>1, <1>3 DEF CallInv, CallTypeOK, CircuitIsOwned
<1>5. KindOf(failure) \in ProviderKinds /\ (KindOf(failure) = "quota" <=> failure = "quota")
  BY DEF KindOf, ProviderKinds
<1>6. PICK t : /\ threads' = [threads EXCEPT ![i] = t]
               /\ IF Awaited(i)
                  THEN EndedLike(t) /\ t.out = KindOf(failure) /\ t.local = FALSE
                  ELSE t = Free
  <2>1. hint \in Nat
    OBVIOUS
  <2> QED BY <1>1, <1>5, <2>1, ThreadEndsAs DEF Outs
<1>7. Awaited(i) /\ ~caller.crossed => Recorded(i, t)'
  <2> SUFFICES ASSUME Awaited(i), ~caller.crossed PROVE Recorded(i, t)'
    OBVIOUS
  <2>1. lastCall = Nobody
    BY <1>1, <1>2, AwaitedHas DEF Recorded
  <2> QED BY <1>1, <1>5, <1>6, <2>1, ThreadIsOne DEF Recorded, ProviderKinds
<1>8. ASSUME Awaited(i), ~caller.crossed, caller.role \in Compilers PROVE Reached(t)'
  <2>1. threads[i].role \in Compilers /\ circuit.left = 0
    BY <1>1, <1>2, <1>8, AwaitedHas DEF Reached
  <2>2. t.out = "rate" => circuit'.left = 0
    BY <1>3, <1>5, <1>6, <1>8, <2>1
  <2> QED BY <1>6, <1>8, <2>2, ThreadIsOne DEF Reached
<1> QED BY <1>1, <1>2, <1>3, <1>4, <1>6, <1>7, <1>8, WorkKeeps
-----------------------------------------------------------------------------
(* The steps of the callers.                                               *)

\* While nobody awaits a thread none has ended.
LEMMA NoneEnded ==
    ASSUME CallInv, caller.step # "calling", NEW j \in Slots
    PROVE  threads[j] = Free \/ RunningLike(threads[j])
BY DEF CallInv, CallTypeOK, ThreadsLike, ThreadLike, RolesAgree, Awaited

\* A slot that is not busy is free.
LEMMA NotBusy ==
    ASSUME CallInv, NEW j \in Slots, ~Busy(j)
    PROVE  threads[j] = Free
BY DEF CallInv, CallTypeOK, ThreadsLike, ThreadLike, Busy, RunningLike, EndedLike

\* A new thread has its whole work before it.
LEMMA FreshRuns ==
    ASSUME NEW role \in Roles
    PROVE  RunningLike(FreshThread(role)) /\ FreshThread(role).st = "new"
           /\ FreshThread(role).role = role
BY DEF RunningLike, FreshThread

\* A coroutine that submits a call: all of its record but the thread.
Submitting(c) ==
    /\ c = [step |-> c.step, role |-> c.role, attempt |-> c.attempt,
            repaired |-> c.repaired, retried |-> c.retried, wait |-> c.wait,
            thread |-> c.thread, calls |-> c.calls, crossed |-> c.crossed]
    /\ c.role \in users
    /\ c.attempt \in {0, 1} /\ c.repaired \in BOOLEAN /\ c.retried \in BOOLEAN
    /\ c.wait \in {0, 1} /\ c.calls \in Nat /\ c.crossed \in BOOLEAN

\* A call is given to a thread.
LEMMA CallBegins ==
    ASSUME CallInv, NEW c, Submitting(c), NEW i \in Slots, NEW b \in BOOLEAN,
           caller' = [c EXCEPT !.step = "calling", !.thread = i,
                               !.calls = @ + 1, !.crossed = b],
           threads' = [threads EXCEPT ![i] = FreshThread(c.role)],
           lastCall' = Nobody, transcript' = NoTranscript,
           UNCHANGED <<users, circuit>>,
           \A j \in Slots \ {i} : ~EndedLike(threads[j]),
           ~b => \A j \in Slots \ {i} : threads[j] = Free,
           ~b /\ c.retried => c.role \in Compilers /\ circuit.left = 0,
           RecordIsOwn', RetryReachesProvider'
    PROVE  CallInv'
<1>1. c.role \in users /\ c.role \in Roles
  BY DEF Submitting, CallInv, CallTypeOK, Roles, Compilers
<1>2. PICK t : t = FreshThread(c.role)
  OBVIOUS
<1>3. RunningLike(t) /\ t.st = "new" /\ t.role = c.role /\ ThreadLike(t)
  BY <1>1, <1>2, FreshRuns DEF ThreadLike
<1>4. /\ ThreadsLike' /\ threads'[i] = t
      /\ \A j \in Slots \ {i} : threads'[j] = threads[j]
  BY <1>2, <1>3, ThreadChanges DEF CallInv, CallTypeOK
<1>5. PICK n \in Nat : n = c.calls + 1
  BY DEF Submitting
<1>6. caller' = [c EXCEPT !.step = "calling", !.thread = i, !.calls = n, !.crossed = b]
  BY <1>5
<1>7. /\ AskingLike(caller)' /\ caller'.step = "calling" /\ caller'.thread = i
      /\ caller'.crossed = b /\ caller'.role = c.role /\ caller'.retried = c.retried
  BY ONLY <1>6, Submitting(c), n \in Nat, i \in Slots, b \in BOOLEAN, UNCHANGED users
     DEF Submitting, AskingLike
<1>8. CallTypeOK'
  BY <1>4, <1>7 DEF CallInv, CallTypeOK, CallerLike, NoTranscript
<1>9. RolesAgree'
  <2>1. \A j \in Slots : RunningLike(threads'[j]) => threads'[j].role \in users'
    BY <1>1, <1>3, <1>4 DEF CallInv, RolesAgree
  <2>2. threads'[i] # Free /\ ~EndedLike(threads'[i])
    BY <1>3, <1>4, ThreadIsOne
  <2>3. \A j \in Slots : ~EndedLike(threads'[j])
    BY <1>4, <2>2
  <2> QED BY <1>3, <1>4, <1>7, <2>1, <2>2, <2>3 DEF RolesAgree
<1>10. CircuitIsOwned' /\ PlanPassed'
  BY <1>7 DEF CallInv, CircuitIsOwned, PlanPassed
<1>11. Alone' <=> ~b
  BY <1>7 DEF Alone
<1>12. NoOther'
  BY <1>4, <1>7, <1>11 DEF NoOther, Awaited
<1>13. OwnRecord'
  <2>1. Recorded(i, t)'
    BY <1>3 DEF Recorded
  <2> QED BY <1>4, <1>7, <2>1 DEF OwnRecord
<1>14. RetryIsOpen' /\ RetryOfCompiler'
  <2>1. ~b => Reached(t)'
    BY <1>3, <1>7 DEF Reached
  <2> QED BY <1>4, <1>7, <1>11, <2>1 DEF RetryIsOpen, RetryOfCompiler
<1> QED BY <1>8, <1>9, <1>10, <1>12, <1>13, <1>14 DEF CallInv

\* A call is submitted by a coroutine that has none.
LEMMA SubmitsKeeps ==
    ASSUME CallInv, NEW c, Submitting(c), Submits(c), caller.step # "calling",
           UNCHANGED <<users, circuit, note>>,
           ~c.crossed /\ c.retried => c.role \in Compilers /\ circuit.left = 0
    PROVE  CallInv'
<1>1. PICK i \in Slots :
        /\ ~Busy(i) /\ threads' = [threads EXCEPT ![i] = FreshThread(c.role)]
        /\ lastCall' = Nobody /\ transcript' = NoTranscript
        /\ caller' = [c EXCEPT !.step = "calling", !.thread = i, !.calls = @ + 1,
                               !.crossed = @ \/ \E j \in Slots : Busy(j)]
  BY DEF Submits
<1>2. PICK b \in BOOLEAN : b <=> c.crossed \/ \E j \in Slots : Busy(j)
  OBVIOUS
<1>3. caller' = [c EXCEPT !.step = "calling", !.thread = i, !.calls = @ + 1, !.crossed = b]
  <2>1. PICK d : d = (c.crossed \/ \E j \in Slots : Busy(j))
    OBVIOUS
  <2>2. d = b
    BY ONLY <1>2, <2>1
  <2> QED BY ONLY <1>1, <2>1, <2>2
<1>4. c.crossed \in BOOLEAN
  BY DEF Submitting
<1>5. ~b => \A j \in Slots \ {i} : threads[j] = Free
  BY <1>2, NotBusy
<1>6. \A j \in Slots \ {i} : ~EndedLike(threads[j])
  BY NoneEnded, ThreadIsOne
<1>7. ~b /\ c.retried => c.role \in Compilers /\ circuit.left = 0
  BY <1>2
<1>8. RecordIsOwn' /\ RetryReachesProvider'
  BY DEF CallInv, RecordIsOwn, RetryReachesProvider
<1> QED BY <1>1, <1>3, <1>5, <1>6, <1>7, <1>8, CallBegins

\* A user of the port begins.
LEMMA BeginsKeeps == ASSUME CallInv, NEW role \in users, Begins(role) PROVE CallInv'
<1> DEFINE c == [step |-> "calling", role |-> role, attempt |-> 0, repaired |-> FALSE,
                 retried |-> FALSE, wait |-> 0, thread |-> Nobody, calls |-> 0,
                 crossed |-> FALSE]
<1>1. Submitting(c) /\ ~c.retried
  BY DEF Submitting
<1>2. caller.step # "calling" /\ Submits(c) /\ UNCHANGED <<users, circuit, note>>
  BY DEF Begins
<1> HIDE DEF c
<1> QED BY <1>1, <1>2, SubmitsKeeps

\* The retry a compiler owns is submitted after its delay.
LEMMA RetriesAfterDelayKeeps == ASSUME CallInv, RetriesAfterDelay PROVE CallInv'
<1>1. caller.step = "delay" /\ Submits(caller) /\ UNCHANGED <<users, circuit, note>>
  BY DEF RetriesAfterDelay
<1>2. AskingLike(caller)
  BY <1>1 DEF CallInv, CallTypeOK, CallerLike, Idle
<1>3. Submitting(caller)
  BY <1>2 DEF AskingLike, Submitting
<1>4. ~caller.crossed /\ caller.retried => caller.role \in Compilers /\ circuit.left = 0
  BY <1>1 DEF CallInv, Alone, RetryIsOpen, RetryOfCompiler
<1> QED BY <1>1, <1>3, <1>4, SubmitsKeeps
\* The only thread that has ended is the awaited one.
LEMMA OthersRun ==
    ASSUME CallInv, NEW j \in Slots, ~Awaited(j)
    PROVE  ~EndedLike(threads[j])
BY DEF CallInv, RolesAgree

\* A coroutine that leaves the port alone, with what it has compiled or without.
LEMMA CallerLeaves ==
    ASSUME CallInv, CallerLike', caller'.step \notin {"calling", "delay"},
           UNCHANGED <<users, circuit, lastCall, transcript>>, ThreadsLike',
           \A j \in Slots : threads'[j] = Free \/ threads'[j] = threads[j],
           \A j \in Slots : ~EndedLike(threads'[j]),
           PlanPassed', RecordIsOwn', RetryReachesProvider'
    PROVE  CallInv'
<1>1. CallTypeOK' /\ CircuitIsOwned'
  BY DEF CallInv, CallTypeOK, CircuitIsOwned
<1>2. RolesAgree'
  BY ThreadIsOne DEF CallInv, RolesAgree
<1>3. NoOther' /\ OwnRecord' /\ RetryIsOpen' /\ RetryOfCompiler'
  BY DEF NoOther, OwnRecord, RetryIsOpen, RetryOfCompiler, Alone
<1> QED BY <1>1, <1>2, <1>3 DEF CallInv

\* Nothing is claimed of a note nobody has made.
LEMMA NoNoteIsTrue == ASSUME note' = NoNote PROVE RecordIsOwn' /\ RetryReachesProvider'
BY DEF NoNote, RecordIsOwn, RetryReachesProvider

\* A request too large to be sent fails without a call.
LEMMA CannotAskKeeps == ASSUME CallInv, NEW role, CannotAsk(role) PROVE CallInv'
<1>1. /\ caller.step = "idle" /\ caller' = Done(role, "failed", NoPlan)
      /\ UNCHANGED <<users, circuit, lastCall, transcript, threads, note>>
  BY DEF CannotAsk
<1>2. caller'.step = "done" /\ caller'.plan = NoPlan
  BY <1>1 DEF Done
<1>3. CallerLike' /\ PlanPassed'
  BY <1>2 DEF CallerLike, PlanPassed
<1>4. ThreadsLike' /\ RecordIsOwn' /\ RetryReachesProvider'
  BY <1>1 DEF CallInv, CallTypeOK, ThreadsLike, RecordIsOwn, RetryReachesProvider
<1>5. \A j \in Slots : ~EndedLike(threads'[j])
  BY <1>1, OthersRun DEF Awaited
<1> QED BY <1>1, <1>2, <1>3, <1>4, <1>5, CallerLeaves

\* The caller has taken its result.
LEMMA RestsKeeps == ASSUME CallInv, Rests PROVE CallInv'
<1>1. /\ caller.step = "done" /\ caller' = Idle /\ note' = NoNote
      /\ UNCHANGED <<users, circuit, lastCall, transcript, threads>>
  BY DEF Rests
<1>2. caller'.step = "idle" /\ CallerLike' /\ PlanPassed'
  BY <1>1 DEF CallerLike, PlanPassed, Idle
<1>3. ThreadsLike'
  BY <1>1 DEF CallInv, CallTypeOK, ThreadsLike
<1>4. \A j \in Slots : ~EndedLike(threads'[j])
  BY <1>1, OthersRun DEF Awaited
<1> QED BY <1>1, <1>2, <1>3, <1>4, NoNoteIsTrue, CallerLeaves

\* A caller that gives up leaves the thread that has started to itself.
LEMMA GivesUpKeeps == ASSUME CallInv, GivesUp PROVE CallInv'
<1>1. /\ caller' = Idle /\ note' = NoNote
      /\ UNCHANGED <<users, circuit, lastCall, transcript>>
  BY DEF GivesUp
<1>2. caller'.step = "idle" /\ CallerLike' /\ PlanPassed'
  BY <1>1 DEF CallerLike, PlanPassed, Idle
<1>3. CASE caller.step = "delay" /\ UNCHANGED threads
  <2>1. ThreadsLike'
    BY <1>3 DEF CallInv, CallTypeOK, ThreadsLike
  <2>2. \A j \in Slots : ~EndedLike(threads'[j])
    BY <1>3, OthersRun DEF Awaited
  <2> QED BY <1>1, <1>2, <1>3, <2>1, <2>2, NoNoteIsTrue, CallerLeaves
<1>4. CASE /\ caller.step = "calling"
           /\ threads' = [threads EXCEPT ![caller.thread] =
                 IF @.st \in {"new", "ended"} THEN Free ELSE @]
  <2>1. PICK i \in Slots : i = caller.thread
    BY <1>4 DEF CallInv, CallTypeOK, CallerLike, AskingLike, Idle
  <2>2. PICK t : t = IF threads[i].st \in {"new", "ended"} THEN Free ELSE threads[i]
    OBVIOUS
  <2>3. threads' = [threads EXCEPT ![i] = t]
    BY <1>4, <2>1, <2>2
  <2>4. t = Free \/ t = threads[i]
    BY <2>2
  <2>5. ThreadLike(t) /\ ~EndedLike(t)
    <3>1. ThreadLike(threads[i])
      BY DEF CallInv, CallTypeOK, ThreadsLike
    <3> QED BY <2>2, <3>1, ThreadIsOne DEF ThreadLike, EndedLike
  <2>6. /\ ThreadsLike' /\ threads'[i] = t
        /\ \A j \in Slots \ {i} : threads'[j] = threads[j]
    BY <2>3, <2>5, ThreadChanges DEF CallInv, CallTypeOK
  <2>7. \A j \in Slots : ~EndedLike(threads'[j])
    BY <2>1, <2>5, <2>6, OthersRun DEF Awaited
  <2> QED BY <1>1, <1>2, <2>4, <2>6, <2>7, NoNoteIsTrue, CallerLeaves
<1> QED BY <1>3, <1>4 DEF GivesUp

\* Time closes a circuit and ends a delay; it opens and begins nothing.
LEMMA ElapsesKeeps == ASSUME CallInv, Elapses PROVE CallInv'
<1>1. /\ circuit' = IF circuit.left > 1 THEN [circuit EXCEPT !.left = @ - 1]
                    ELSE [kind |-> "none", left |-> 0]
      /\ caller' = IF caller.step = "delay" THEN [caller EXCEPT !.wait = 0] ELSE caller
      /\ UNCHANGED <<users, lastCall, transcript, threads, note>>
  BY DEF Elapses
<1>2. CircuitLike(circuit)
  BY DEF CallInv, CallTypeOK
<1>3. /\ CircuitLike(circuit') /\ circuit'.kind \in {circuit.kind, "none"}
      /\ circuit.left = 0 => circuit'.left = 0
  <2>1. PICK n \in Nat : circuit.left > 1 => n = circuit.left - 1 /\ n # 0
    BY <1>2 DEF CircuitLike
  <2>2. CASE circuit.left > 1
    <3>1. circuit' = [circuit EXCEPT !.left = n]
      BY <1>1, <2>1, <2>2
    <3> QED BY ONLY <1>2, <2>1, <2>2, <3>1 DEF CircuitLike
  <2>3. CASE ~(circuit.left > 1)
    BY <1>1, <2>3 DEF CircuitLike
  <2> QED BY <2>2, <2>3
<1>4. /\ caller.step # "delay" => caller' = caller
      /\ caller.step = "delay" =>
            /\ caller'.step = "delay" /\ AskingLike(caller)'
            /\ caller'.crossed = caller.crossed /\ caller'.role = caller.role
            /\ caller'.retried = caller.retried
  <2>1. CASE caller.step = "delay"
    <3>1. AskingLike(caller)
      BY <2>1 DEF CallInv, CallTypeOK, CallerLike, Idle
    <3>2. caller' = [caller EXCEPT !.wait = 0] /\ users' = users
      BY <1>1, <2>1
    <3> QED BY ONLY <2>1, <3>1, <3>2 DEF AskingLike
  <2> QED BY <1>1, <2>1
<1>5. CallTypeOK'
  <2>1. CallerLike'
    BY <1>1, <1>4 DEF CallInv, CallTypeOK, CallerLike, AskingLike
  <2> QED BY <1>1, <1>3, <2>1 DEF CallInv, CallTypeOK, ThreadsLike
<1>6. \A j \in Slots : Awaited(j)' <=> Awaited(j)
  BY <1>4 DEF Awaited
<1>7. RolesAgree'
  BY <1>1, <1>4, <1>6 DEF CallInv, RolesAgree
<1>8. CircuitIsOwned'
  BY <1>1, <1>3 DEF CallInv, CircuitIsOwned
<1>9. NoOther' /\ RetryOfCompiler'
  BY <1>1, <1>4, <1>6 DEF CallInv, NoOther, RetryOfCompiler, Alone
<1>10. OwnRecord'
  BY <1>1, <1>4 DEF CallInv, OwnRecord, Recorded
<1>11. RetryIsOpen'
  BY <1>1, <1>3, <1>4 DEF CallInv, RetryIsOpen, Reached, Alone
<1>12. PlanPassed' /\ RecordIsOwn' /\ RetryReachesProvider'
  BY <1>1, <1>4 DEF CallInv, PlanPassed, RecordIsOwn, RetryReachesProvider
<1> QED BY <1>5, <1>7, <1>8, <1>9, <1>10, <1>11, <1>12 DEF CallInv

\* The coroutine takes up the answer of its call: it retries, repairs, or ends.
LEMMA ResumesInTurnKeeps == ASSUME CallInv, ResumesInTurn PROVE CallInv'
<1>1. /\ caller.step = "calling" /\ threads[caller.thread].st = "ended"
      /\ UNCHANGED <<users, circuit>>
      /\ note' = Noted(caller, threads[caller.thread])
  BY DEF ResumesInTurn
<1>2. AskingLike(caller)
  BY <1>1 DEF CallInv, CallTypeOK, CallerLike, Idle
<1>3. PICK i \in Slots : i = caller.thread
  BY <1>1, <1>2 DEF AskingLike
<1>4. PICK t : t = threads[i]
  OBVIOUS
<1>5. Awaited(i) /\ EndedLike(t) /\ \A j \in Slots \ {i} : ~Awaited(j)
  BY <1>1, <1>3, <1>4 DEF Awaited, CallInv, CallTypeOK, ThreadsLike, ThreadLike, RunningLike, Free
<1>6. /\ ~caller.crossed => Recorded(i, t)
      /\ ~caller.crossed /\ caller.role \in Compilers => Reached(t)
      /\ ~caller.crossed /\ caller.retried => caller.role \in Compilers
      /\ ~caller.crossed => \A j \in Slots \ {i} : threads[j] = Free
  BY <1>1, <1>4, <1>5, AwaitedHas DEF CallInv, RetryOfCompiler, NoOther, Alone
<1>7. ~RunningLike(t)
  BY <1>5, ThreadIsOne
<1>8. /\ note'.call = i /\ note'.record = lastCall /\ note'.transcript = transcript
      /\ note'.out = t.out /\ note'.local = t.local
      /\ note'.retried = caller.retried /\ note'.crossed = caller.crossed
  BY <1>1, <1>3, <1>4 DEF Noted
<1>9. RecordIsOwn'
  BY <1>6, <1>7, <1>8 DEF RecordIsOwn, Recorded
<1>10. RetryReachesProvider'
  BY <1>6, <1>7, <1>8 DEF RetryReachesProvider, Reached
<1>11. ASSUME threads' = Released
       PROVE  /\ ThreadsLike' /\ threads'[i] = Free
              /\ \A j \in Slots \ {i} : threads'[j] = threads[j]
              /\ \A j \in Slots : ~EndedLike(threads'[j])
  <2>1. threads' = [threads EXCEPT ![i] = Free] /\ ThreadLike(Free)
    BY <1>3, <1>11 DEF Released, ThreadLike
  <2>2. /\ ThreadsLike' /\ threads'[i] = Free
        /\ \A j \in Slots \ {i} : threads'[j] = threads[j]
    BY <2>1, ThreadChanges DEF CallInv, CallTypeOK
  <2> QED BY <1>5, <2>2, OthersRun, ThreadIsOne
<1>12. CASE /\ RetriesLater(caller, t)
            /\ caller' = [caller EXCEPT !.step = "delay", !.retried = TRUE, !.wait = 1]
            /\ threads' = Released
            /\ UNCHANGED <<lastCall, transcript>>
  <2>1. t.out = "rate" /\ caller.role \in Compilers
    BY <1>12 DEF RetriesLater
  <2>2. /\ AskingLike(caller)' /\ caller'.step = "delay" /\ caller'.retried = TRUE
        /\ caller'.crossed = caller.crossed /\ caller'.role = caller.role
    BY ONLY <1>1, <1>2, <1>12 DEF AskingLike
  <2>3. CallTypeOK' /\ CircuitIsOwned' /\ PlanPassed'
    BY <1>1, <1>11, <1>12, <2>2 DEF CallInv, CallTypeOK, CircuitIsOwned, PlanPassed, CallerLike
  <2>4. RolesAgree'
    BY <1>1, <1>11, <1>12, <2>2, ThreadIsOne DEF CallInv, RolesAgree
  <2>5. NoOther'
    BY <1>6, <1>11, <1>12, <2>2 DEF NoOther, Alone
  <2>6. OwnRecord' /\ RetryOfCompiler'
    BY <2>1, <2>2 DEF OwnRecord, RetryOfCompiler
  <2>7. RetryIsOpen'
    BY <1>1, <1>6, <1>7, <2>1, <2>2 DEF RetryIsOpen, Reached, Alone
  <2> QED BY <1>9, <1>10, <2>3, <2>4, <2>5, <2>6, <2>7 DEF CallInv
<1>13. CASE /\ RepairsSchema(caller, t) \/ RepairsPlan(caller, t)
            /\ caller' = [caller EXCEPT !.retried = FALSE, !.calls = @ + 1,
                  !.repaired = @ \/ RepairsSchema(caller, t),
                  !.attempt = IF RepairsPlan(caller, t) THEN 1 ELSE @,
                  !.crossed = @ \/ \E j \in Slots \ {caller.thread} : Busy(j)]
            /\ threads' = [threads EXCEPT ![caller.thread] = FreshThread(caller.role)]
            /\ lastCall' = Nobody /\ transcript' = NoTranscript
  <2>1. PICK b \in BOOLEAN : b <=> caller.crossed \/ \E j \in Slots \ {i} : Busy(j)
    OBVIOUS
  <2>2. PICK r \in BOOLEAN : r <=> caller.repaired \/ RepairsSchema(caller, t)
    OBVIOUS
  <2>3. PICK a \in {0, 1} : a = IF RepairsPlan(caller, t) THEN 1 ELSE caller.attempt
    BY <1>2 DEF AskingLike
  <2>4. PICK c : c = [caller EXCEPT !.retried = FALSE, !.repaired = r, !.attempt = a]
    OBVIOUS
  <2>5. caller' = [c EXCEPT !.step = "calling", !.thread = i, !.calls = @ + 1, !.crossed = b]
    <3>1. PICK d, e : /\ d = (caller.crossed \/ \E j \in Slots \ {i} : Busy(j))
                      /\ e = (caller.repaired \/ RepairsSchema(caller, t))
      OBVIOUS
    <3>2. d = b /\ e = r
      BY ONLY <2>1, <2>2, <3>1
    <3>3. PICK n : n = caller.calls + 1
      OBVIOUS
    <3>4. caller' = [caller EXCEPT !.retried = FALSE, !.calls = n, !.repaired = e,
                                   !.attempt = a, !.crossed = d]
      BY ONLY <1>3, <1>13, <2>3, <3>1, <3>3
    <3>5. c.calls = caller.calls
      BY ONLY <1>2, <2>4 DEF AskingLike
    <3>6. caller' = [c EXCEPT !.step = "calling", !.thread = i, !.calls = n, !.crossed = b]
      BY ONLY <1>1, <1>2, <1>3, <2>4, <3>2, <3>4 DEF AskingLike
    <3> QED BY ONLY <3>3, <3>5, <3>6
  <2>6. Submitting(c) /\ c.role = caller.role /\ c.retried = FALSE
    BY ONLY <1>2, <2>2, <2>3, <2>4 DEF AskingLike, Submitting
  <2>7. ~b => \A j \in Slots \ {i} : threads[j] = Free
    BY <2>1, NotBusy
  <2>8. \A j \in Slots \ {i} : ~EndedLike(threads[j])
    BY <1>5, OthersRun
  <2> QED BY <1>1, <1>3, <1>9, <1>10, <1>13, <2>5, <2>6, <2>7, <2>8, CallBegins
<1>14. CASE /\ caller' = Done(caller.role, CompileOutcome(caller, t), PlanOf(caller, t))
            /\ threads' = Released
            /\ UNCHANGED <<lastCall, transcript>>
  <2>1. caller'.step = "done" /\ caller'.plan = PlanOf(caller, t)
    BY <1>14 DEF Done
  <2>2. PlanOf(caller, t) = NoPlan \/ NoContradiction(PlanOf(caller, t))
    BY DEF PlanOf, CompileOutcome, BadPlan, Usable, Accepted
  <2>3. CallerLike' /\ PlanPassed'
    BY <2>1, <2>2 DEF CallerLike, PlanPassed
  <2>4. \A j \in Slots : threads'[j] = Free \/ threads'[j] = threads[j]
    BY <1>11, <1>14
  <2> QED BY <1>1, <1>9, <1>10, <1>11, <1>14, <2>1, <2>3, <2>4, CallerLeaves
<1> QED BY <1>1, <1>3, <1>4, <1>12, <1>13, <1>14 DEF ResumesInTurn
-----------------------------------------------------------------------------
(* Every state keeps the invariant.                                        *)

\* Nothing has been called yet.
LEMMA CallInitSound == CallInit => CallInv
<1> SUFFICES ASSUME CallInit PROVE CallInv
  OBVIOUS
<1>1. /\ caller.step = "idle" /\ note.call = Nobody
      /\ \A i \in Slots : threads[i] = Free
      /\ caller = Idle /\ circuit.kind = "none"
  BY DEF CallInit, Idle, NoNote
<1>2. CallTypeOK
  BY <1>1 DEF CallInit, CallTypeOK, CircuitLike, ThreadsLike, ThreadLike, CallerLike,
     NoTranscript
<1>3. RolesAgree
  BY <1>1, ThreadIsOne DEF RolesAgree
<1>4. CircuitIsOwned /\ RecordIsOwn /\ RetryReachesProvider
  BY <1>1 DEF CircuitIsOwned, RecordIsOwn, RetryReachesProvider
<1>5. NoOther /\ OwnRecord /\ RetryIsOpen /\ RetryOfCompiler /\ PlanPassed
  BY <1>1 DEF NoOther, OwnRecord, RetryIsOpen, RetryOfCompiler, PlanPassed, Alone
<1> QED BY <1>2, <1>3, <1>4, <1>5 DEF CallInv

\* A step of any thread or caller keeps the invariant.
LEMMA CallStepSound == CallInv /\ CallNext => CallInv'
<1> SUFFICES ASSUME CallInv, CallNext PROVE CallInv'
  OBVIOUS
<1>1. CASE ThreadSteps
  <2>1. PICK i \in Slots :
        \/ GenerateStarts(i)
        \/ Responds(i)
        \/ threads[i].st = "answered" /\ \E answer \in ModelAnswers(threads[i].role) : Validates(i, answer)
        \/ IsRefused(i)
        \/ \E failure \in {"rate", "quota", "server", "timeout", "transport"} :
               SendsAgain(i, failure) \/ \E hint \in 0..2 : ProviderFails(i, failure, hint)
    BY <1>1 DEF ThreadSteps
  <2>2. CASE GenerateStarts(i)
    BY <2>2, GenerateStartsKeeps
  <2>3. CASE Responds(i)
    BY <2>3, RespondsKeeps
  <2>4. CASE \E answer \in ModelAnswers(threads[i].role) : Validates(i, answer)
    BY <2>4, ValidatesKeeps
  <2>5. CASE IsRefused(i)
    BY <2>5, IsRefusedKeeps
  <2>6. ASSUME NEW failure \in {"rate", "quota", "server", "timeout", "transport"},
               SendsAgain(i, failure)
        PROVE  CallInv'
    BY <2>6, SendsAgainKeeps
  <2>7. ASSUME NEW failure \in {"rate", "quota", "server", "timeout", "transport"},
               NEW hint \in 0..2, ProviderFails(i, failure, hint)
        PROVE  CallInv'
    BY <2>7, ProviderFailsKeeps
  <2> QED BY <2>1, <2>2, <2>3, <2>4, <2>5, <2>6, <2>7
<1>2. CASE \E role \in users : Begins(role) \/ CannotAsk(role)
  BY <1>2, BeginsKeeps, CannotAskKeeps
<1>3. CASE ResumesInTurn
  BY <1>3, ResumesInTurnKeeps
<1>4. CASE RetriesAfterDelay
  BY <1>4, RetriesAfterDelayKeeps
<1>5. CASE GivesUp
  BY <1>5, GivesUpKeeps
<1>6. CASE Rests
  BY <1>6, RestsKeeps
<1>7. CASE Elapses
  BY <1>7, ElapsesKeeps
<1> QED BY <1>1, <1>2, <1>3, <1>4, <1>5, <1>6, <1>7 DEF CallNext

\* The invariant depends on nothing but the variables.
LEMMA CallStutterSound == CallInv /\ UNCHANGED callVars => CallInv'
<1> SUFFICES ASSUME CallInv, UNCHANGED callVars PROVE CallInv'
  OBVIOUS
<1>1. UNCHANGED <<users, circuit, lastCall, transcript, threads, caller, note>>
  BY DEF callVars
<1>2. CallTypeOK'
  BY <1>1 DEF CallInv, CallTypeOK, ThreadsLike, CallerLike, AskingLike
<1>3. RolesAgree' /\ NoOther'
  BY <1>1 DEF CallInv, RolesAgree, NoOther, Alone, Awaited
<1>4. OwnRecord' /\ RetryIsOpen'
  BY <1>1 DEF CallInv, OwnRecord, RetryIsOpen, Alone, Recorded, Reached
<1>5. CircuitIsOwned' /\ RetryOfCompiler' /\ PlanPassed' /\ RecordIsOwn' /\ RetryReachesProvider'
  BY <1>1 DEF CallInv, CircuitIsOwned, RetryOfCompiler, PlanPassed, RecordIsOwn,
     RetryReachesProvider, Alone
<1> QED BY <1>2, <1>3, <1>4, <1>5 DEF CallInv

\* Every state of the port and its callers keeps the invariant.
THEOREM CallsAreSound == CallSpec => []CallInv
<1>1. CallInv /\ [CallNext]_callVars => CallInv'
  BY CallStepSound, CallStutterSound
<1> QED BY <1>1, CallInitSound, PTL DEF CallSpec

\* The port, its threads and the coroutine that awaits one are well formed.
THEOREM CallTypeSafe == CallSpec => []CallTypeOK
<1>1. CallInv => CallTypeOK
  BY DEF CallInv
<1> QED BY <1>1, CallsAreSound, PTL

\* The calls of compilers and judge share one port and keep apart: each reads
\* its own record though a given-up thread may still write, and a retry the
\* caller owns is not swallowed by the circuit its own call opened.
THEOREM CallsStayApart == CallSpec => []CallsKeepApart
<1>1. CallInv => CallsKeepApart
  BY DEF CallInv, CallsKeepApart
<1> QED BY <1>1, CallsAreSound, PTL

-----------------------------------------------------------------------------
(* Plans that can be worked through.                                       *)

\* There are three items.
LEMMA ThreeItems == Cardinality(Items) = 3
<1>1. IsFiniteSet({}) /\ Cardinality({}) = 0
  BY FS_EmptySet
<1>2. IsFiniteSet({"a"}) /\ Cardinality({"a"}) = 1
  BY FS_Singleton
<1>3. IsFiniteSet({"a"} \cup {"b"}) /\ Cardinality({"a"} \cup {"b"}) = 1 + 1
  <2>1. /\ IsFiniteSet({"a"} \cup {"b"})
        /\ Cardinality({"a"} \cup {"b"}) =
              IF "b" \in {"a"} THEN Cardinality({"a"}) ELSE Cardinality({"a"}) + 1
    BY ONLY <1>2, FS_AddElement
  <2> QED BY <1>2, <2>1
<1>4. Cardinality(({"a"} \cup {"b"}) \cup {"c"}) = 1 + 1 + 1
  <2>1. Cardinality(({"a"} \cup {"b"}) \cup {"c"}) =
              IF "c" \in {"a"} \cup {"b"} THEN Cardinality({"a"} \cup {"b"})
              ELSE Cardinality({"a"} \cup {"b"}) + 1
    BY ONLY <1>3, FS_AddElement
  <2> QED BY <1>3, <2>1
<1>5. Items = ({"a"} \cup {"b"}) \cup {"c"}
  BY DEF Items
<1> QED BY <1>4, <1>5

\* The items that may be taken up once those of S are done.
After(deps, S) == {i \in Items : deps[i] \subseteq S}

\* What three rounds visit.
LEMMA VisitedIs ==
    ASSUME NEW deps
    PROVE  Visited(deps) = After(deps, After(deps, After(deps, {})))
<1> DEFINE Round(f) == [n \in 0..Cardinality(Items) |->
                          IF n = 0 THEN {} ELSE {i \in Items : deps[i] \subseteq f[n - 1]}]
           visited == CHOOSE f : f = Round(f)
           one == After(deps, {})
           two == After(deps, one)
           three == After(deps, two)
           g == [n \in 0..3 |-> IF n = 0 THEN {} ELSE IF n = 1 THEN one
                                ELSE IF n = 2 THEN two ELSE three]
<1>1. g = Round(g)
  <2>1. Round(g) = [n \in 0..3 |-> IF n = 0 THEN {} ELSE After(deps, g[n - 1])]
    BY ThreeItems DEF After
  <2>2. g[0] = {} /\ g[1] = one /\ g[2] = two
    OBVIOUS
  <2> HIDE DEF one, two, three
  <2>3. \A n \in 0..3 : g[n] = IF n = 0 THEN {} ELSE After(deps, g[n - 1])
    BY <2>2 DEF one, two, three
  <2> QED BY <2>1, <2>3
<1>2. visited = Round(visited)
  <2> HIDE DEF g, Round
  <2>1. \E f : f = Round(f)
    BY <1>1
  <2> QED BY <2>1
<1>3. visited = [n \in 0..3 |-> IF n = 0 THEN {} ELSE After(deps, visited[n - 1])]
  <2> HIDE DEF visited
  <2> QED BY <1>2, ThreeItems DEF After
<1>4. Visited(deps) = visited[3]
  BY ThreeItems DEF Visited
<1> HIDE DEF visited
<1>5. visited[0] = {} /\ visited[1] = After(deps, visited[0])
      /\ visited[2] = After(deps, visited[1]) /\ visited[3] = After(deps, visited[2])
  BY ONLY <1>3
<1> QED BY <1>4, <1>5

\* Items of which each may be taken up after those before it.
LEMMA ItemsInTurn ==
    ASSUME NEW deps, Visited(deps) = Items,
           \A i \in Items : deps[i] \subseteq Items \ {i}
    PROVE  \E x, y, z \in Items :
              /\ x # y /\ y # z /\ x # z
              /\ deps[x] = {} /\ deps[y] \subseteq {x} /\ deps[z] \subseteq {x, y}
<1> DEFINE one == After(deps, {})
           two == After(deps, one)
<1>1. After(deps, two) = Items
  BY VisitedIs
<1>2. \A i \in Items : deps[i] \subseteq two
  BY <1>1 DEF After
<1>3. PICK x \in Items : deps[x] = {}
  <2>1. CASE one = {}
    <3>1. two = {}
      BY <2>1 DEF After
    <3> QED BY <1>2, <3>1 DEF Items
  <2> QED BY <2>1 DEF After
<1>4. PICK y \in Items \ {x} : deps[y] \subseteq {x}
  <2>1. CASE one = {x}
    <3>1. CASE two \subseteq {x}
      <4>1. PICK y \in Items \ {x} : TRUE
        BY DEF Items
      <4> QED BY <1>2, <3>1, <4>1
    <3>2. CASE ~(two \subseteq {x})
      BY <2>1, <3>2 DEF After
    <3> QED BY <3>1, <3>2
  <2>2. CASE one # {x}
    <3>1. x \in one
      BY <1>3 DEF After
    <3> QED BY <2>2, <3>1 DEF After
  <2> QED BY <2>1, <2>2
<1>5. PICK z \in Items \ {x, y} : Items = {x, y, z}
  BY ONLY <1>3, <1>4, x \in Items, y \in Items \ {x} DEF Items
<1>6. deps[z] \subseteq {x, y}
  BY <1>5
<1> QED BY <1>3, <1>4, <1>5, <1>6

\* A plan the boundary accepts can be worked through.
LEMMA PlanHasOrder ==
    ASSUME NEW p, NoContradiction(p)
    PROVE  \E order \in [Items -> 1..Cardinality(Items)] :
              /\ \A i, j \in Items : i # j => order[i] # order[j]
              /\ \A i \in Items : \A d \in p.deps[i] : d \in Items /\ order[d] < order[i]
<1>1. /\ Visited(p.deps) = Items
      /\ \A i \in Items : p.deps[i] \subseteq Items \ {i}
  BY DEF NoContradiction, IsDag
<1>2. PICK x, y, z \in Items :
        /\ x # y /\ y # z /\ x # z
        /\ p.deps[x] = {} /\ p.deps[y] \subseteq {x} /\ p.deps[z] \subseteq {x, y}
  BY <1>1, ItemsInTurn
<1>3. Items = {x, y, z}
  BY ONLY <1>2, x \in Items, y \in Items, z \in Items DEF Items
<1> DEFINE order == [i \in Items |-> IF i = x THEN 1 ELSE IF i = y THEN 2 ELSE 3]
<1>4. order \in [Items -> 1..Cardinality(Items)]
  BY ThreeItems
<1>5. order[x] = 1 /\ order[y] = 2 /\ order[z] = 3
  BY <1>2
<1> HIDE DEF order
<1>6. \A i, j \in Items : i # j => order[i] # order[j]
  BY ONLY <1>2, <1>3, <1>5
<1>7. \A i \in Items : \A d \in p.deps[i] : d \in Items /\ order[d] < order[i]
  BY ONLY <1>2, <1>3, <1>5
<1> QED BY <1>4, <1>6, <1>7

\* A plan the run adopts can be worked through: its items can be put in an order
\* in which each comes after its prerequisites.
THEOREM PlanStaysOrdered == CallSpec => []PlanIsOrdered
<1>1. CallInv => PlanIsOrdered
  <2> SUFFICES ASSUME CallInv, caller.step = "done", caller.plan.flaw # "absent"
               PROVE  NoContradiction(caller.plan)
    BY PlanHasOrder DEF PlanIsOrdered
  <2>1. caller.plan # NoPlan
    BY DEF NoPlan
  <2> QED BY <2>1 DEF CallInv, PlanPassed
<1> QED BY <1>1, CallsAreSound, PTL

-----------------------------------------------------------------------------
(* Judgements: numbers and expressions. *)

\* A set of natural numbers has a least one, if it has any.
LEMMA LeastOfSome ==
    ASSUME NEW S \in SUBSET Nat, S # {}
    PROVE  \E x \in S : \A y \in S : x <= y
PROOF
<1>1. \E x \in S : \A y \in S : ~(<<y, x>> \in OpToRel(<, Nat))
  BY NatLessThanWellFounded, WFMin
<1>2. PICK x \in S : \A y \in S : ~(<<y, x>> \in OpToRel(<, Nat))
  BY <1>1
<1>3. ASSUME NEW y \in S PROVE x <= y
  <2>1. x \in Nat /\ y \in Nat
    OBVIOUS
  <2>2. ~(y < x)
    BY <1>2, <2>1 DEF OpToRel
  <2> QED  BY ONLY <2>1, <2>2
<1> QED  BY <1>3

\* A set that has 0 and the next of each has all numbers up to a bound.
LEMMA UpToInduction ==
    ASSUME NEW S, NEW n \in Nat, 0 \in S,
           \A m \in 0 .. n : m < n /\ m \in S => m + 1 \in S
    PROVE  \A m \in 0 .. n : m \in S
PROOF
<1> DEFINE B == {m \in 0 .. n : m \notin S}
<1> SUFFICES ASSUME B # {} PROVE FALSE
  OBVIOUS
<1>1. B \in SUBSET Nat
  OBVIOUS
<1>2. PICK x \in B : \A y \in B : x <= y
  BY ONLY <1>1, B # {}, LeastOfSome
<1>3. x # 0 /\ x \in 0 .. n
  OBVIOUS
<1>4. x - 1 \in 0 .. n /\ x - 1 < n /\ x - 1 + 1 = x /\ ~(x <= x - 1)
  BY <1>3
<1>5. x - 1 \notin B
  BY <1>2, <1>4
<1>6. x - 1 \in S
  BY <1>4, <1>5
<1>7. x \in S
  BY <1>4, <1>6
<1> QED  BY <1>7

-----------------------------------------------------------------------------
(* The success expression. *)

Values == {"satisfied", "unsatisfied", "unknown"}
\* An expression whose nodes come after those they are of.
IsExpression(e) == e \in Seq(ToSet(e)) /\ \A n \in 1 .. Len(e) : e[n].of \subseteq 1 .. (n - 1)
\* The values of its nodes up to one of them.
ValuesUpTo(e, status, n, f) == f = [k \in 1 .. n |-> Combine(e[k], status, {f[m] : m \in e[k].of})]

\* Such values exist.
LEMMA ValuesExist ==
    ASSUME NEW e, NEW status, NEW n \in Nat, \A k \in 1 .. n : e[k].of \subseteq 1 .. (k - 1)
    PROVE  \E f : ValuesUpTo(e, status, n, f)
PROOF
<1> DEFINE S == {m \in 0 .. n : \E f : ValuesUpTo(e, status, m, f)}
<1>1. 0 \in S
  <2> DEFINE f == [k \in 1 .. 0 |-> "unknown"]
  <2>1. \A k \in 1 .. 0 : FALSE
    OBVIOUS
  <2>2. f = [k \in 1 .. 0 |-> Combine(e[k], status, {f[m] : m \in e[k].of})]
    BY <2>1
  <2>3. ValuesUpTo(e, status, 0, f)
    BY <2>2 DEF ValuesUpTo
  <2> QED  BY <2>3
<1>2. ASSUME NEW m \in 0 .. n, m < n, m \in S PROVE m + 1 \in S
  <2>1. PICK f : ValuesUpTo(e, status, m, f)
    BY <1>2
  <2> DEFINE last == Combine(e[m + 1], status, {f[j] : j \in e[m + 1].of})
             g == [k \in 1 .. (m + 1) |-> IF k = m + 1 THEN last ELSE f[k]]
             body(k) == Combine(e[k], status, {g[j] : j \in e[k].of})
  <2>2. \A k \in 1 .. (m + 1) : {g[j] : j \in e[k].of} = {f[j] : j \in e[k].of}
    <3> TAKE k \in 1 .. (m + 1)
    <3>1. k \in 1 .. n
      BY <1>2
    <3>2. e[k].of \subseteq 1 .. (k - 1)
      BY <3>1
    <3>3. \A j \in e[k].of : j \in 1 .. (m + 1) /\ j # m + 1
      BY <3>2
    <3> HIDE DEF last
    <3>4. \A j \in e[k].of : g[j] = f[j]
      BY <3>3
    <3> HIDE DEF g
    <3> QED  BY <3>4
  <2>3. ASSUME NEW k \in 1 .. (m + 1) PROVE g[k] = body(k)
    <3> HIDE DEF last
    <3>1. CASE k = m + 1
      <4>1. g[k] = last
        BY <3>1
      <4> HIDE DEF g
      <4> USE DEF last
      <4> QED  BY <2>2, <3>1, <4>1
    <3>2. CASE k # m + 1
      <4>1. k \in 1 .. m /\ g[k] = f[k]
        BY <3>2
      <4> HIDE DEF g
      <4>2. f[k] = Combine(e[k], status, {f[j] : j \in e[k].of})
        BY <2>1, <4>1 DEF ValuesUpTo
      <4> QED  BY <2>2, <4>1, <4>2
    <3> QED  BY <3>1, <3>2
  <2>4. g = [k \in 1 .. (m + 1) |-> body(k)]
    BY <2>3
  <2>5. ValuesUpTo(e, status, m + 1, g)
    BY <2>4 DEF ValuesUpTo
  <2>6. m + 1 \in 0 .. n
    BY <1>2
  <2> QED  BY <2>5, <2>6
<1> HIDE DEF S
<1>3. \A m \in 0 .. n : m \in S
  BY <1>1, <1>2, UpToInduction
<1> QED  BY <1>3 DEF S

\* An expression has the value of its last node.
LEMMA EvaluatesIs ==
    ASSUME NEW e, IsExpression(e), NEW status
    PROVE  \E f : ValuesUpTo(e, status, Len(e), f) /\ Evaluates(e, status) = f[Len(e)]
PROOF
<1> DEFINE f == CHOOSE f : ValuesUpTo(e, status, Len(e), f)
<1>1. Len(e) \in Nat
  BY DEF IsExpression
<1>2. ValuesUpTo(e, status, Len(e), f)
  BY <1>1, ValuesExist DEF IsExpression
<1>3. Evaluates(e, status) = f[Len(e)]
  BY DEF Evaluates, ValuesUpTo
<1> QED  BY <1>2, <1>3

\* The value of a node is one of three.
LEMMA CombineIs ==
    ASSUME NEW e, NEW status, NEW below
    PROVE  Combine(e, status, below) \in Values
PROOF BY DEF Combine, Values

\* What is known of a node's parts and what is decided of its criterion stays,
\* whatever becomes known of the rest.
LEMMA CombineGrows ==
    ASSUME NEW e, NEW s, NEW t, NEW M, NEW f, NEW g,
           e.op = "criterion" /\ s[e.id] \in {"satisfied", "unsatisfied"} => t[e.id] = s[e.id],
           \A m \in M : f[m] \in Values /\ g[m] \in Values /\ (f[m] # "unknown" => g[m] = f[m]),
           Combine(e, s, {f[m] : m \in M}) # "unknown"
    PROVE  Combine(e, t, {g[m] : m \in M}) = Combine(e, s, {f[m] : m \in M})
PROOF
<1> DEFINE F == {f[m] : m \in M}
           G == {g[m] : m \in M}
<1>1. \A v \in Values : v # "unknown" /\ v \in F => v \in G
  BY DEF Values
<1>2. "unknown" \notin F => \A m \in M : g[m] = f[m]
  OBVIOUS
<1>3. "unknown" \notin F => F = G
  BY <1>2
<1> HIDE DEF F, G
<1>4. CASE e.op = "criterion"
  BY <1>4 DEF Combine, F, G
<1>5. CASE e.op # "criterion"
  <2>1. Combine(e, t, G) = Combine(e, t, F) \/ Combine(e, s, F) = Combine(e, t, G)
    BY <1>1, <1>3, <1>5 DEF Combine, F, G, Values
  <2>2. Combine(e, s, F) = Combine(e, t, F)
    BY <1>5 DEF Combine
  <2> QED  BY <2>1, <2>2 DEF F, G
<1> QED  BY <1>4, <1>5

\* An expression that has a value keeps it when more criteria are decided.
LEMMA ExpressionGrows ==
    ASSUME NEW e, IsExpression(e), NEW s, NEW t,
           \A n \in 1 .. Len(e) : e[n].op = "criterion" /\
               s[e[n].id] \in {"satisfied", "unsatisfied"} => t[e[n].id] = s[e[n].id],
           Len(e) # 0, Evaluates(e, s) # "unknown"
    PROVE  Evaluates(e, t) = Evaluates(e, s)
PROOF
<1>1. PICK f : ValuesUpTo(e, s, Len(e), f) /\ Evaluates(e, s) = f[Len(e)]
  BY EvaluatesIs
<1>2. PICK g : ValuesUpTo(e, t, Len(e), g) /\ Evaluates(e, t) = g[Len(e)]
  BY EvaluatesIs
<1>3. Len(e) \in Nat
  BY DEF IsExpression
<1>4. \A n \in 1 .. Len(e) : /\ f[n] = Combine(e[n], s, {f[m] : m \in e[n].of}) /\ f[n] \in Values
                             /\ g[n] = Combine(e[n], t, {g[m] : m \in e[n].of}) /\ g[n] \in Values
  <2>1. \A x, st, b : Combine(x, st, b) \in Values
    BY CombineIs
  <2>2. \A n \in 1 .. Len(e) : f[n] = Combine(e[n], s, {f[m] : m \in e[n].of})
    BY <1>1 DEF ValuesUpTo
  <2>3. \A n \in 1 .. Len(e) : g[n] = Combine(e[n], t, {g[m] : m \in e[n].of})
    BY <1>2 DEF ValuesUpTo
  <2>4. ASSUME NEW n \in 1 .. Len(e) PROVE f[n] \in Values
    <3>1. PICK b : f[n] = Combine(e[n], s, b)
      BY <2>2, Zenon
    <3> QED  BY <2>1, <3>1
  <2>5. ASSUME NEW n \in 1 .. Len(e) PROVE g[n] \in Values
    <3>1. PICK b : g[n] = Combine(e[n], t, b)
      BY <2>3, Zenon
    <3> QED  BY <2>1, <3>1
  <2> QED  BY <2>2, <2>3, <2>4, <2>5, Zenon
<1> DEFINE Grows(n) == f[n] # "unknown" => g[n] = f[n]
           S == {k \in 0 .. Len(e) : \A n \in 1 .. k : Grows(n)}
<1>5. 0 \in S
  BY <1>3
<1>6. ASSUME NEW k \in 0 .. Len(e), k < Len(e), k \in S PROVE k + 1 \in S
  <2>1. k + 1 \in 1 .. Len(e) /\ k + 1 \in 0 .. Len(e)
    BY <1>3, <1>6
  <2>2. e[k + 1].of \subseteq 1 .. k
    BY <2>1 DEF IsExpression
  <2>3. \A m \in e[k + 1].of : m \in 1 .. Len(e) /\ Grows(m)
    BY <1>6, <2>2
  <2>4. \A m \in e[k + 1].of : f[m] \in Values /\ g[m] \in Values /\ (f[m] # "unknown" => g[m] = f[m])
    BY <1>4, <2>3
  <2>5. Grows(k + 1)
    <3> SUFFICES ASSUME f[k + 1] # "unknown" PROVE g[k + 1] = f[k + 1]
      OBVIOUS
    <3>1. e[k + 1].op = "criterion" /\
            s[e[k + 1].id] \in {"satisfied", "unsatisfied"} => t[e[k + 1].id] = s[e[k + 1].id]
      BY <2>1
    <3>2. Combine(e[k + 1], s, {f[m] : m \in e[k + 1].of}) # "unknown"
      BY <1>4, <2>1
    <3>3. Combine(e[k + 1], t, {g[m] : m \in e[k + 1].of}) = Combine(e[k + 1], s, {f[m] : m \in e[k + 1].of})
      <4>1. PICK x : x = e[k + 1]
        OBVIOUS
      <4>2. PICK M : M = x.of
        OBVIOUS
      <4>3. /\ x.op = "criterion" /\ s[x.id] \in {"satisfied", "unsatisfied"} => t[x.id] = s[x.id]
            /\ \A m \in M : f[m] \in Values /\ g[m] \in Values /\ (f[m] # "unknown" => g[m] = f[m])
            /\ Combine(x, s, {f[m] : m \in M}) # "unknown"
        BY <2>4, <3>1, <3>2, <4>1, <4>2
      <4>4. Combine(x, t, {g[m] : m \in M}) = Combine(x, s, {f[m] : m \in M})
        BY ONLY <4>3, CombineGrows, SMTT(60)
      <4> QED  BY <4>1, <4>2, <4>4
    <3> QED  BY <1>4, <2>1, <3>3
  <2>6. \A n \in 1 .. (k + 1) : n \in 1 .. k \/ n = k + 1
    BY <1>6
  <2> HIDE DEF Grows
  <2> QED  BY <1>6, <2>1, <2>5, <2>6
<1> HIDE DEF S
<1>7. \A k \in 0 .. Len(e) : k \in S
  BY <1>3, <1>5, <1>6, UpToInduction
<1>8. Len(e) \in S /\ Len(e) \in 1 .. Len(e)
  BY <1>3, <1>7
<1>9. Grows(Len(e))
  BY <1>8 DEF S
<1> QED  BY <1>1, <1>2, <1>9
-----------------------------------------------------------------------------
(* What an observation holds. *)

\* The fields of a fact.
LEMMA FactIs ==
    \A source, subject, predicate, value :
        LET f == Fact(source, subject, predicate, value) IN
        f.kind = "fact" /\ f.source = source /\ f.subject = subject /\ f.predicate = predicate /\ f.value = value
PROOF BY DEF Fact

\* The fields of an artifact.
LEMMA ArtifactIs ==
    \A source, key : LET a == Artifact(source, key) IN
                     a.kind = "artifact" /\ a.source = source /\ a.subject = key /\ a.predicate = ""
PROOF BY DEF Artifact

\* A screen and what is shown of it.
LEMMA ScreenIs ==
    ASSUME trial \in Trials, NEW s \in Screens, NEW h \in Showings
    PROVE  /\ s.field \in DOMAIN Prefix /\ s.field # "blurred" /\ s.option \in {"one", "two"}
           /\ s.report \in {"none", "sound", "broken", "twice"} /\ s.claims \in BOOLEAN
           /\ s.accepted \in {"none", "yes", "no"}
           /\ h.coverage \in {"complete", "truncated", "failed"}
           /\ h.field \in {"seen", "disputed", "weak", "absent"}
           /\ h.option \in BOOLEAN /\ h.shot \in BOOLEAN
PROOF
<1>1. /\ s.field \in Vary("field", DOMAIN Prefix, "ab") /\ s.option \in Vary("choice", {"one", "two"}, "one")
      /\ s.report \in Vary("report", {"none", "sound", "broken", "twice"}, "none")
      /\ s.claims \in Vary("claimed", BOOLEAN, FALSE) /\ s.accepted \in Vary("accepted", {"none", "yes", "no"}, "none")
  BY DEF Screens
<1>2. /\ h.coverage \in Vary("coverage", {"complete", "truncated", "failed"}, "complete")
      /\ h.field \in Vary("sight", {"seen", "disputed", "weak", "absent"}, "seen")
      /\ h.option \in Vary("listed", BOOLEAN, TRUE) /\ h.shot \in Vary("shot", BOOLEAN, TRUE)
  BY DEF Showings
<1> QED  BY <1>1, <1>2, JudgementAssumption DEF Vary

\* The facts of a control, and everything else there is.
FieldFact(s, h, r) ==
    /\ r = Fact(r.source, "field", "value", r.value)
    /\ \/ /\ r.source = "dom" /\ h.coverage # "failed" /\ h.field \in {"seen", "disputed"}
          /\ r.value = IF trial.part = "whole" THEN s.field ELSE Prefix[s.field]
       \/ r.source = "pixels" /\ h.field = "disputed" /\ r.value = "blurred"
       \/ r.source = "pixels" /\ h.field = "weak" /\ r.value = s.field
OptionFact(s, h, r) == r = Fact("dom", "option", "value", s.option) /\ h.coverage # "failed" /\ h.option
Answer(s, h, r) ==
    \/ r = Fact("dom", "answer", "accepted", "yes")
    \/ r = Fact("user", "answer", "accepted", s.accepted) /\ s.accepted # "none"
Thing(s, h, r) ==
    /\ r = Artifact(r.source, r.subject) /\ r.source \in {"dom", "pixels"}
    /\ \/ r.subject = "screenshot" /\ h.shot
       \/ r.subject = "report" /\ s.report # "none"
Marker(r) == r \in {Fact("dom", "field", "truncated", "true"), Fact("dom", "field", "scope", "segment")}
Elsewhere(s, r) == r \in {Fact("dom", "link", "pressed", s.look), Fact("dom", "page", "location", s.where)}

\* A record of an observation is of one of these.
LEMMA RecordsAre ==
    ASSUME trial \in Trials, NEW s \in Screens, NEW h \in Showings, NEW r \in World(s, h).records
    PROVE  FieldFact(s, h, r) \/ OptionFact(s, h, r) \/ Answer(s, h, r) \/ Thing(s, h, r) \/ Marker(r) \/ Elsewhere(s, r)
PROOF
<1> DEFINE read == h.coverage # "failed"
           fields == IF h.field \in {"seen", "disputed"} THEN FieldFacts(trial.part, s.field) ELSE {}
<1>1. trial.part \in {"whole", "cut", "segment"}
  BY JudgementAssumption
<1>2. \/ read /\ r \in fields
      \/ read /\ h.option /\ r = Fact("dom", "option", "value", s.option)
      \/ r \in {Fact("dom", "link", "pressed", s.look), Fact("dom", "page", "location", s.where)}
      \/ r = Fact("dom", "answer", "accepted", "yes")
      \/ r \in PixelFacts(s, h)
      \/ s.accepted # "none" /\ r = Fact("user", "answer", "accepted", s.accepted)
      \/ h.shot /\ r = Artifact("pixels", "screenshot")
      \/ s.report # "none" /\ r = Artifact("dom", "report")
      \/ s.report = "twice" /\ r = Artifact("pixels", "report")
  BY DEF World
<1>3. ASSUME read, r \in fields PROVE FieldFact(s, h, r) \/ Marker(r)
  <2>1. h.field \in {"seen", "disputed"} /\ r \in FieldFacts(trial.part, s.field)
    BY <1>3
  <2>2. \/ r = Fact("dom", "field", "value", IF trial.part = "whole" THEN s.field ELSE Prefix[s.field])
        \/ Marker(r)
    BY <1>1, <2>1 DEF FieldFacts, Marker
  <2> QED  BY <1>3, <2>1, <2>2 DEF FieldFact, Fact
<1>4. ASSUME r \in PixelFacts(s, h) PROVE FieldFact(s, h, r)
  <2>1. \/ h.field = "disputed" /\ r = Fact("pixels", "field", "value", "blurred")
        \/ h.field = "weak" /\ r = Fact("pixels", "field", "value", s.field)
    BY <1>4, ScreenIs DEF PixelFacts
  <2> QED  BY <2>1 DEF FieldFact, Fact
<1>5. \A source, key : Artifact(source, key).source = source /\ Artifact(source, key).subject = key
  BY DEF Artifact
<1> HIDE DEF fields
<1>6. CASE h.shot /\ r = Artifact("pixels", "screenshot")
  BY <1>5, <1>6 DEF Thing
<1>7. CASE s.report # "none" /\ (r = Artifact("dom", "report") \/ r = Artifact("pixels", "report"))
  BY <1>5, <1>7 DEF Thing
<1>8. s.report = "twice" => s.report # "none"
  OBVIOUS
<1>9. CASE read /\ h.option /\ r = Fact("dom", "option", "value", s.option)
  BY <1>9 DEF OptionFact
<1>10. CASE r \in {Fact("dom", "link", "pressed", s.look), Fact("dom", "page", "location", s.where)}
  BY <1>10 DEF Elsewhere
<1>11. CASE \/ r = Fact("dom", "answer", "accepted", "yes")
            \/ s.accepted # "none" /\ r = Fact("user", "answer", "accepted", s.accepted)
  BY <1>11 DEF Answer
<1> QED  BY <1>2, <1>3, <1>4, <1>6, <1>7, <1>8, <1>9, <1>10, <1>11

\* What tells the records apart.
LEMMA ShapesAre ==
    ASSUME NEW s, NEW h, NEW r
    PROVE  /\ FieldFact(s, h, r) => r.kind = "fact" /\ r.predicate = "value" /\ r.subject = "field"
           /\ OptionFact(s, h, r) => r.kind = "fact" /\ r.predicate = "value" /\ r.subject = "option" /\ r.source = "dom"
                                     /\ r.value = s.option
           /\ Answer(s, h, r) => r.kind = "fact" /\ r.predicate = "accepted" /\ r.subject = "answer"
           /\ Thing(s, h, r) => r.kind = "artifact" /\ r.predicate = ""
           /\ Marker(r) => /\ r.kind = "fact" /\ r.predicate \in {"truncated", "scope"} /\ r.subject = "field"
                           /\ r.source = "dom" /\ r.value = IF r.predicate = "scope" THEN "segment" ELSE "true"
           /\ Elsewhere(s, r) => /\ r.kind = "fact" /\ r.source = "dom"
                                 /\ \/ r.predicate = "pressed" /\ r.subject = "link" /\ r.value = s.look
                                    \/ r.predicate = "location" /\ r.subject = "page" /\ r.value = s.where
PROOF
<1>1. FieldFact(s, h, r) => r.kind = "fact" /\ r.predicate = "value" /\ r.subject = "field"
  BY FactIs DEF FieldFact
<1>2. OptionFact(s, h, r) => r.kind = "fact" /\ r.predicate = "value" /\ r.subject = "option" /\ r.source = "dom"
                            /\ r.value = s.option
  BY FactIs DEF OptionFact
<1>3. Answer(s, h, r) => r.kind = "fact" /\ r.predicate = "accepted" /\ r.subject = "answer"
  BY FactIs DEF Answer
<1>4. ASSUME Thing(s, h, r) PROVE r.kind = "artifact" /\ r.predicate = ""
  <2>1. PICK source, key : r = Artifact(source, key)
    BY <1>4 DEF Thing
  <2> QED  BY <2>1, ArtifactIs
<1>5. Marker(r) => /\ r.kind = "fact" /\ r.predicate \in {"truncated", "scope"} /\ r.subject = "field"
                  /\ r.source = "dom" /\ r.value = IF r.predicate = "scope" THEN "segment" ELSE "true"
  BY FactIs DEF Marker
<1>6. Elsewhere(s, r) => /\ r.kind = "fact" /\ r.source = "dom"
                        /\ \/ r.predicate = "pressed" /\ r.subject = "link" /\ r.value = s.look
                           \/ r.predicate = "location" /\ r.subject = "page" /\ r.value = s.where
  BY FactIs DEF Elsewhere
<1> QED  BY <1>1, <1>2, <1>3, <1>4, <1>5, <1>6

\* A few records.
LEMMA FourAreFew ==
    ASSUME NEW a, NEW b, NEW c, NEW d
    PROVE  IsFiniteSet({a, b, c, d})
PROOF
<1>1. IsFiniteSet({a}) /\ IsFiniteSet({b}) /\ IsFiniteSet({c}) /\ IsFiniteSet({d})
  BY FS_Singleton
<1>2. IsFiniteSet({a} \cup {b}) /\ IsFiniteSet({c} \cup {d})
  BY <1>1, FS_Union
<1>3. IsFiniteSet(({a} \cup {b}) \cup ({c} \cup {d}))
  BY <1>2, FS_Union
<1>4. {a, b, c, d} = ({a} \cup {b}) \cup ({c} \cup {d})
  OBVIOUS
<1> QED  BY <1>3, <1>4

\* An observation holds a few.
LEMMA RecordsAreFew ==
    ASSUME trial \in Trials, NEW s \in Screens, NEW h \in Showings
    PROVE  IsFiniteSet(World(s, h).records)
PROOF
<1> DEFINE v == IF trial.part = "whole" THEN s.field ELSE Prefix[s.field]
           All1 == {Fact("dom", "field", "value", v), Fact("pixels", "field", "value", "blurred"),
                    Fact("pixels", "field", "value", s.field), Fact("dom", "option", "value", s.option)}
           All2 == {Fact("dom", "answer", "accepted", "yes"), Fact("user", "answer", "accepted", s.accepted)}
           All4 == {Artifact("dom", "screenshot"), Artifact("pixels", "screenshot"), Artifact("dom", "report"),
                    Artifact("pixels", "report")}
           All3 == {Fact("dom", "field", "truncated", "true"), Fact("dom", "field", "scope", "segment"),
                    Fact("dom", "link", "pressed", s.look), Fact("dom", "page", "location", s.where)}
<1>1. World(s, h).records \subseteq (All1 \cup All2) \cup (All3 \cup All4)
  <2> SUFFICES ASSUME NEW r \in World(s, h).records PROVE r \in (All1 \cup All2) \cup (All3 \cup All4)
    OBVIOUS
  <2>1. FieldFact(s, h, r) => r \in All1
    BY DEF FieldFact
  <2>2. OptionFact(s, h, r) => r \in All1
    BY DEF OptionFact
  <2>3. Answer(s, h, r) => r \in All2
    BY DEF Answer
  <2>5. Thing(s, h, r) => r \in All4
    <3> SUFFICES ASSUME Thing(s, h, r) PROVE r \in All4
      OBVIOUS
    <3>1. r = Artifact(r.source, r.subject)
      BY DEF Thing
    <3>2. r.source \in {"dom", "pixels"} /\ r.subject \in {"screenshot", "report"}
      BY DEF Thing
    <3> QED  BY <3>1, <3>2
  <2>4. Marker(r) \/ Elsewhere(s, r) => r \in All3
    BY DEF Marker, Elsewhere
  <2> HIDE DEF All1, All2, All3, All4
  <2> QED  BY <2>1, <2>2, <2>3, <2>4, <2>5, RecordsAre
<1>2. IsFiniteSet(All1) /\ IsFiniteSet(All2) /\ IsFiniteSet(All3) /\ IsFiniteSet(All4)
  <2> HIDE DEF v
  <2>1. IsFiniteSet(All1) /\ IsFiniteSet(All3) /\ IsFiniteSet(All4)
    BY FourAreFew
  <2>2. PICK a, b : All2 = {a, b}
    OBVIOUS
  <2> HIDE DEF All2
  <2>3. IsFiniteSet(All2)
    <3>1. IsFiniteSet({a, a, b, b})
      BY FourAreFew
    <3>2. {a, a, b, b} = {a, b}
      OBVIOUS
    <3> QED  BY <2>2, <3>1, <3>2
  <2> QED  BY <2>1, <2>3
<1> HIDE DEF All1, All2, All3, All4
<1>3. IsFiniteSet(All1 \cup All2) /\ IsFiniteSet(All3 \cup All4)
  BY <1>2, FS_Union
<1>4. IsFiniteSet((All1 \cup All2) \cup (All3 \cup All4))
  BY <1>3, FS_Union
<1> QED  BY <1>1, <1>4, FS_Subset

\* A query with one answer.
LEMMA OneRecord ==
    ASSUME trial \in Trials
    PROVE  \A s \in Screens, h \in Showings : \A S :
               S \subseteq World(s, h).records /\ Cardinality(S) = 1 => \E r : S = {r}
PROOF
<1> TAKE s \in Screens, h \in Showings
<1> TAKE S
<1> HAVE S \subseteq World(s, h).records /\ Cardinality(S) = 1
<1>1. IsFiniteSet(World(s, h).records)
  BY RecordsAreFew
<1>2. IsFiniteSet(S)
  BY <1>1, FS_Subset
<1> QED  BY <1>2, FS_Singleton

-----------------------------------------------------------------------------
(* How a criterion is decided. *)

OnScreen == trial \in Trials /\ screen \in Screens /\ showing \in Showings

\* The one fact a mechanical criterion was compared with.
Compared(w, c, d, r) ==
    /\ d = Decided(d.status, {r})
    /\ FactsAbout(w, c.subject, "value") = {r} /\ ~InConflict(w, c.subject, "value")
    /\ Assured(c, r)
    /\ \/ d.status = "satisfied" /\ r.value = c.expected
       \/ /\ d.status = "unsatisfied" /\ r.value # c.expected
          /\ w.complete /\ Satisfies(Profile[r.source].assurance, "structural")
\* The one record a judge cited.
Cited(w, c, d, r) ==
    /\ d = Decided(d.status, {r}) /\ d.status \in {"satisfied", "unsatisfied"}
    /\ r \in w.records /\ SemanticEvidenceApplies(c, r)
\* What a decision of each kind of criterion rests on.
ByFact(w, c, d) == \E r : Compared(w, c, d, r)
ByArtifact(w, c, d) == \E r \in w.records : /\ r.kind = "artifact" /\ r.subject = c.subject
                                            /\ d = Decided("satisfied", {r})
ByUser(w, c, d) == \E r \in Acceptances(c, w) :
                   d = Decided(IF r.value = "yes" THEN "satisfied" ELSE "unsatisfied", {r})
ByJudge(w, c, d) == \/ d = Decided("unsatisfied", {}) /\ w.complete /\ ScopeOf({c}, w) = {}
                 \/ \E r : Cited(w, c, d, r)
ByBoth(w, c, d) ==
    \/ \E m : Compared(w, c, d, m) /\ d.status = "unsatisfied"
    \/ \E m : /\ Compared(w, c, Decided("satisfied", {m}), m)
              /\ \/ d = Decided("unsatisfied", {m})
                 \/ \E r : /\ Cited(w, c, Decided(d.status, {r}), r)
                           /\ d = Decided(d.status, {m, r})
JudgedBy(w, c, d) ==
    \/ d = UnknownDecision
    \/ c.kind \in {"fact_equals", "target_state_equals"} /\ ByFact(w, c, d)
    \/ c.kind = "artifact_exists" /\ ByArtifact(w, c, d)
    \/ c.kind = "user_acceptance" /\ ByUser(w, c, d)
    \/ c.kind = "semantic_rubric" /\ ByJudge(w, c, d)
    \/ c.kind = "hybrid" /\ ByBoth(w, c, d)

\* A query of the current observation with one answer.
LEMMA OneOfNow ==
    ASSUME OnScreen
    PROVE  \A S : S \subseteq Now.records /\ Cardinality(S) = 1 => \E r : S = {r}
PROOF
<1>1. trial \in Trials /\ screen \in Screens /\ showing \in Showings /\ Now = World(screen, showing)
  BY DEF OnScreen, Now
<1> QED  BY <1>1, OneRecord

\* A comparison with the one fact there is.
LEMMA FactIsCompared ==
    ASSUME OnScreen, NEW c, c.kind # "artifact_exists"
    PROVE  \/ Mechanical(c, Now) = UnknownDecision
           \/ Compared(Now, c, Mechanical(c, Now), CHOOSE r \in FactsAbout(Now, c.subject, "value") : TRUE)
PROOF
<1> DEFINE matches == FactsAbout(Now, c.subject, "value")
           one == CHOOSE r \in matches : TRUE
<1>1. Mechanical(c, Now) = DecideFact(c, Now) /\ Predicate(c) = "value"
  BY DEF Mechanical, Predicate
<1>2. CASE InConflict(Now, c.subject, "value") \/ Cardinality(matches) # 1
  BY <1>1, <1>2 DEF DecideFact
<1>3. CASE ~InConflict(Now, c.subject, "value") /\ Cardinality(matches) = 1
  <2>1. matches \subseteq Now.records
    BY DEF FactsAbout
  <2>2. PICK r : matches = {r}
    BY <1>3, <2>1, OneOfNow
  <2>3. one = r
    BY <2>2
  <2>4. Mechanical(c, Now) =
          IF ~Satisfies(Profile[one.source].assurance, c.assurance) THEN UnknownDecision
          ELSE IF one.value = c.expected THEN Decided("satisfied", matches)
          ELSE IF Now.complete /\ Satisfies(Profile[one.source].assurance, "structural") THEN Decided("unsatisfied", matches)
          ELSE UnknownDecision
    BY <1>1, <1>3 DEF DecideFact
  <2> QED  BY <1>3, <2>2, <2>3, <2>4 DEF Compared, Decided, Assured
<1> QED  BY <1>2, <1>3

\* The other kinds of criteria one record decides.
LEMMA ArtifactDecides ==
    ASSUME OnScreen, NEW c, NEW d, d = DecideArtifact(c, Now)
    PROVE  d = UnknownDecision \/ ByArtifact(Now, c, d)
PROOF
<1> DEFINE matches == {r \in Now.records : r.kind = "artifact" /\ r.subject = c.subject}
<1>1. CASE Cardinality(matches) # 1
  BY <1>1 DEF DecideArtifact
<1>2. CASE Cardinality(matches) = 1
  <2>1. PICK r : matches = {r}
    BY <1>2, OneOfNow
  <2>2. d = Decided("satisfied", {r}) /\ r \in matches
    BY <1>2, <2>1 DEF DecideArtifact
  <2> QED  BY <2>2 DEF ByArtifact
<1> QED  BY <1>1, <1>2

\* The one answer of the user, and of nobody else, decides an acceptance.
LEMMA UserDecides ==
    ASSUME OnScreen, NEW c, NEW d, d = UserAcceptance(c, Now)
    PROVE  d = UnknownDecision \/ ByUser(Now, c, d)
PROOF
<1> DEFINE matches == Acceptances(c, Now)
<1>1. CASE Cardinality(matches) # 1
  BY <1>1 DEF UserAcceptance
<1>2. CASE Cardinality(matches) = 1
  <2>1. matches \subseteq Now.records
    BY DEF Acceptances
  <2>2. PICK r : matches = {r}
    BY <1>2, <2>1, OneOfNow
  <2> HIDE DEF matches
  <2>3. (\E x \in matches : x.value = "yes") = (r.value = "yes")
    BY <2>2
  <2>4. d = Decided(IF \E x \in matches : x.value = "yes" THEN "satisfied" ELSE "unsatisfied", matches)
    BY <1>2 DEF UserAcceptance, matches
  <2>5. d = Decided(IF r.value = "yes" THEN "satisfied" ELSE "unsatisfied", {r}) /\ r \in matches
    BY <2>2, <2>3, <2>4
  <2> QED  BY <2>5 DEF ByUser, matches
<1> QED  BY <1>1, <1>2

\* What a judge answers is taken when it cites what applies.
LEMMA JudgeDecides ==
    ASSUME OnScreen, NEW task, NEW c, NEW cs, NEW proposals, proposals \in JudgeProposals(task, Now),
           NEW d, d = Semantic(c, cs, Now, Admitted(task, Now, proposals))
    PROVE  d = UnknownDecision \/ ByJudge(Now, c, d)
PROOF
<1> DEFINE admitted == Admitted(task, Now, proposals)
           shown == Catalog(Ready(task, Now), Now)
<1>1. CASE Readiness(c, cs, Now) = "not_ready"
  <2>1. d = Decided("unsatisfied", {})
    BY <1>1 DEF Semantic
  <2>2. Now.complete /\ ScopeOf({c}, Now) = {}
    BY <1>1 DEF Readiness
  <2> QED  BY <2>1, <2>2 DEF ByJudge
<1>2. CASE Readiness(c, cs, Now) = "ready" /\ c.id \in DOMAIN admitted
  <2>1. admitted = proposals /\ proposals[c.id].refs \subseteq shown
    <3>1. DOMAIN <<>> = {}
      OBVIOUS
    <3> QED  BY <1>2, <3>1 DEF Admitted
  <2>2. shown \subseteq Now.records
    BY DEF Catalog, ScopeOf
  <2>3. proposals[c.id] = UnknownDecision
        \/ \E s \in {"satisfied", "unsatisfied"} : \E r : proposals[c.id] = Decided(s, {r})
    <3> DEFINE ready == {x.id : x \in Ready(task, Now)}
               answers == {UnknownDecision} \cup {Decided(s, refs) : s \in {"satisfied", "unsatisfied"}, refs \in Citations(shown)}
    <3>1. proposals = <<>> \/ proposals \in [ready -> answers]
      BY DEF JudgeProposals
    <3>2. DOMAIN <<>> = {}
      OBVIOUS
    <3>3. c.id \in DOMAIN proposals
      BY <1>2, <2>1
    <3> HIDE DEF ready, answers
    <3>4. proposals[c.id] \in answers
      BY <3>1, <3>2, <3>3
    <3> USE DEF answers
    <3>5. \A refs \in Citations(shown) : \E r : refs = {r}
      BY DEF Citations
    <3>6. PICK x, B : x = proposals[c.id] /\ B = Citations(shown)
      OBVIOUS
    <3>7. x = UnknownDecision \/ x \in {Decided(s, refs) : s \in {"satisfied", "unsatisfied"}, refs \in B}
      BY <3>4, <3>6
    <3>8. x = UnknownDecision \/ \E s \in {"satisfied", "unsatisfied"} : \E refs \in B : x = Decided(s, refs)
      BY ONLY <3>7, SMT
    <3> QED  BY <3>5, <3>6, <3>8
  <2>4. d = IF \A r \in proposals[c.id].refs : SemanticEvidenceApplies(c, r) THEN proposals[c.id] ELSE UnknownDecision
    BY <1>2, <2>1 DEF Semantic
  <2>5. CASE d # UnknownDecision
    <3>1. d = proposals[c.id] /\ \A r \in proposals[c.id].refs : SemanticEvidenceApplies(c, r)
      BY <2>4, <2>5
    <3>7. PICK s \in {"satisfied", "unsatisfied"} : \E r : proposals[c.id] = Decided(s, {r})
      BY <2>3, <2>5, <3>1
    <3>2. PICK r : proposals[c.id] = Decided(s, {r})
      BY <3>7
    <3>3. d = Decided(s, {r}) /\ d.status = s /\ d.refs = {r}
      BY <3>1, <3>2 DEF Decided
    <3>4. r \in Now.records /\ SemanticEvidenceApplies(c, r)
      BY <2>1, <2>2, <3>1, <3>3
    <3>5. Cited(Now, c, d, r)
      BY <3>3, <3>4 DEF Cited
    <3> QED  BY <3>5 DEF ByJudge
  <2> QED  BY <2>5
<1>3. CASE Readiness(c, cs, Now) # "not_ready" /\ ~(Readiness(c, cs, Now) = "ready" /\ c.id \in DOMAIN admitted)
  BY <1>3 DEF Semantic
<1> QED  BY <1>1, <1>2, <1>3

\* A hybrid criterion, once its fact is there.
LEMMA BothDecide ==
    ASSUME OnScreen, NEW c, NEW m, NEW s, NEW r0,
           Compared(Now, c, m, r0), m.status = "satisfied", s = UnknownDecision \/ ByJudge(Now, c, s)
    PROVE  Hybrid(m, s) = UnknownDecision \/ ByBoth(Now, c, Hybrid(m, s))
PROOF
<1>1. m = Decided("satisfied", {r0}) /\ m.refs = {r0} /\ Compared(Now, c, Decided("satisfied", {r0}), r0)
  BY DEF Compared, Decided
<1>2. CASE s = UnknownDecision
  BY <1>1, <1>2 DEF Hybrid, UnknownDecision, Decided
<1>3. CASE s = Decided("unsatisfied", {})
  <2>1. Hybrid(m, s) = Decided("unsatisfied", {r0})
    BY <1>1, <1>3 DEF Hybrid, Decided
  <2> QED  BY <1>1, <2>1 DEF ByBoth
<1>4. ASSUME NEW r, Cited(Now, c, s, r) PROVE Hybrid(m, s) = UnknownDecision \/ ByBoth(Now, c, Hybrid(m, s))
  <2>1. s.refs = {r} /\ s.status \in {"satisfied", "unsatisfied"} /\ s = Decided(s.status, {r})
    BY <1>4 DEF Cited, Decided
  <2>2. {r0} \cup {r} = {r0, r}
    OBVIOUS
  <2>3. Hybrid(m, s) = Decided(s.status, {r0, r})
    BY <1>1, <2>1, <2>2 DEF Hybrid
  <2>4. Hybrid(m, s).status = s.status
    BY <2>3 DEF Decided
  <2>5. Cited(Now, c, Decided(Hybrid(m, s).status, {r}), r) /\ Hybrid(m, s) = Decided(Hybrid(m, s).status, {r0, r})
    BY <1>4, <2>1, <2>3, <2>4
  <2> QED  BY <1>1, <2>5 DEF ByBoth
<1> QED  BY <1>2, <1>3, <1>4 DEF ByJudge

\* Every criterion is decided on what its kind calls for.
LEMMA DecideIs ==
    ASSUME OnScreen, NEW task, NEW c, c.kind \in CriterionKinds, NEW proposals, proposals \in JudgeProposals(task, Now)
    PROVE  JudgedBy(Now, c, Decide(c, task, Now, Admitted(task, Now, proposals)))
PROOF
<1> DEFINE p == Admitted(task, Now, proposals)
           cs == SemanticCandidates(task, Now)
           mechanical == Mechanical(c, Now)
           semantic == Semantic(c, cs, Now, p)
           d == Decide(c, task, Now, p)
<1>1. semantic = UnknownDecision \/ ByJudge(Now, c, semantic)
  BY JudgeDecides
<1>2. ASSUME c.kind # "artifact_exists" PROVE mechanical = UnknownDecision \/ \E r : Compared(Now, c, mechanical, r)
  BY <1>2, FactIsCompared
<1> HIDE DEF p, cs, mechanical, semantic
<1>3. d = CASE c.kind = "user_acceptance" -> UserAcceptance(c, Now)
            [] c.kind = "semantic_rubric" -> semantic
            [] c.kind = "hybrid" /\ mechanical.status = "satisfied" -> Hybrid(mechanical, semantic)
            [] OTHER -> mechanical
  BY DEF Decide, mechanical, semantic, cs, p
<1> HIDE DEF d
<1>4. CASE c.kind \in {"fact_equals", "target_state_equals"}
  BY <1>2, <1>3, <1>4 DEF JudgedBy, ByFact, d, p
<1>5. CASE c.kind = "artifact_exists"
  <2>1. d = DecideArtifact(c, Now)
    BY <1>3, <1>5 DEF mechanical, Mechanical
  <2> QED  BY <1>5, <2>1, ArtifactDecides DEF JudgedBy, d, p
<1>6. CASE c.kind = "user_acceptance"
  <2>1. d = UserAcceptance(c, Now)
    BY <1>3, <1>6
  <2> QED  BY <1>6, <2>1, UserDecides DEF JudgedBy, d, p
<1>7. CASE c.kind = "semantic_rubric"
  BY <1>1, <1>3, <1>7 DEF JudgedBy, d, p
<1>8. CASE c.kind = "hybrid"
  <2>1. CASE mechanical = UnknownDecision
    BY <1>3, <1>8, <2>1 DEF JudgedBy, d, p, UnknownDecision, Decided
  <2>2. ASSUME NEW r, Compared(Now, c, mechanical, r) PROVE d = UnknownDecision \/ ByBoth(Now, c, d)
    <3>1. CASE mechanical.status = "satisfied"
      <4>1. d = Hybrid(mechanical, semantic)
        BY <1>3, <1>8, <3>1
      <4> QED  BY <1>1, <2>2, <3>1, <4>1, BothDecide
    <3>2. CASE mechanical.status # "satisfied"
      <4>1. d = mechanical /\ mechanical.status = "unsatisfied"
        BY <1>3, <1>8, <2>2, <3>2 DEF Compared
      <4> QED  BY <2>2, <4>1 DEF ByBoth
    <3> QED  BY <3>1, <3>2
  <2> QED  BY <1>2, <1>8, <2>1, <2>2 DEF JudgedBy, d, p
<1> QED  BY <1>4, <1>5, <1>6, <1>7, <1>8 DEF CriterionKinds

\* What must be decided by an authority and is not becomes unknown.
LEMMA AuthorityIs ==
    ASSUME NEW c, NEW task, NEW d, JudgedBy(Now, c, d)
    PROVE  /\ JudgedBy(Now, c, ApplyAuthority(c, task, d))
           /\ c.id \in task.authoritative =>
                \A r \in ApplyAuthority(c, task, d).refs : Profile[r.source].assurance = "authoritative"
PROOF
<1>1. ApplyAuthority(c, task, d) = UnknownDecision \/ ApplyAuthority(c, task, d) = d
  BY DEF ApplyAuthority
<1>2. d.status \in {"satisfied", "unsatisfied"} \/ d = UnknownDecision
  BY DEF JudgedBy, ByFact, ByArtifact, ByUser, ByJudge, ByBoth, Compared, Cited, Decided
<1>3. UnknownDecision.refs = {}
  BY DEF UnknownDecision, Decided
<1>4. c.id \in task.authoritative /\ d.status \in {"satisfied", "unsatisfied"} /\ ApplyAuthority(c, task, d) # UnknownDecision =>
        \A r \in d.refs : Profile[r.source].assurance = "authoritative"
  BY DEF ApplyAuthority
<1> QED  BY <1>1, <1>2, <1>3, <1>4 DEF JudgedBy

-----------------------------------------------------------------------------
(* The evaluation. *)

\* An id names one criterion.
LEMMA CriterionIs ==
    ASSUME NEW task, task.criteria \in Seq(ToSet(task.criteria)), NEW id \in IdsOf(task)
    PROVE  CriterionOf(task, id) \in ToSet(task.criteria) /\ CriterionOf(task, id).id = id
PROOF
<1>1. \E i \in DOMAIN task.criteria : task.criteria[i].id = id
  BY DEF IdsOf
<1>2. DOMAIN task.criteria = 1 .. Len(task.criteria)
  OBVIOUS
<1>3. \A i \in DOMAIN task.criteria : task.criteria[i] \in ToSet(task.criteria)
  BY <1>2 DEF ToSet
<1> QED  BY <1>1, <1>3 DEF CriterionOf

\* The success expression of a task is one.
LEMMA TaskHasExpression ==
    ASSUME NEW t \in Trials
    PROVE  IsExpression(ExpressionOf(t.task)) /\ Len(ExpressionOf(t.task)) # 0
PROOF
<1> DEFINE task == t.task
           n == Len(task.criteria)
           ids == [i \in DOMAIN task.criteria |-> task.criteria[i].id]
           leaves == [i \in DOMAIN ids |-> Node("criterion", {}, ids[i])]
           root == Node("all", DOMAIN ids, "")
           e == Append(leaves, root)
<1>1. task.criteria \in Seq(ToSet(task.criteria)) /\ task.expression \in Seq(ToSet(task.expression))
      /\ \A k \in DOMAIN task.expression : task.expression[k].of \subseteq 1 .. (k - 1)
  BY JudgementAssumption
<1>2. CASE task.expression # <<>>
  BY <1>1, <1>2 DEF ExpressionOf, IsExpression
<1>3. CASE task.expression = <<>>
  <2>1. ExpressionOf(task) = e
    BY <1>3 DEF ExpressionOf, All
  <2>2. n \in Nat /\ DOMAIN ids = 1 .. n
    BY <1>1
  <2>3. leaves \in Seq({leaves[i] : i \in 1 .. n}) /\ Len(leaves) = n
    <3>1. leaves \in [1 .. n -> {leaves[i] : i \in 1 .. n}]
      BY <2>2
    <3> HIDE DEF leaves
    <3> QED  BY <2>2, <3>1
  <2>4. \A i \in 1 .. n : leaves[i].of = {}
    BY <2>2 DEF Node
  <2>5. root.of = 1 .. n
    BY <2>2 DEF Node
  <2> DEFINE X == {leaves[i] : i \in 1 .. n} \cup {root}
  <2> HIDE DEF leaves, root
  <2>6. e \in Seq(X) /\ Len(e) = n + 1 /\ e[n + 1] = root /\ \A i \in 1 .. n : e[i] = leaves[i]
    BY <2>2, <2>3
  <2>7. e \in Seq(ToSet(e))
    <3> HIDE DEF e
    <3>1. DOMAIN e = 1 .. Len(e) /\ Len(e) \in Nat
      BY <2>6
    <3>2. \A i \in 1 .. Len(e) : e[i] \in ToSet(e)
      BY <3>1 DEF ToSet
    <3>3. e = [i \in 1 .. Len(e) |-> e[i]]
      BY <2>6
    <3> QED  BY <3>1, <3>2, <3>3
  <2>8. ASSUME NEW k \in 1 .. Len(e) PROVE e[k].of \subseteq 1 .. (k - 1)
    <3>1. k \in 1 .. n \/ k = n + 1
      BY <2>2, <2>6
    <3> HIDE DEF e
    <3> QED  BY <2>2, <2>4, <2>5, <2>6, <3>1
  <2> QED  BY <2>1, <2>2, <2>6, <2>7, <2>8 DEF IsExpression
<1> QED  BY <1>2, <1>3

\* What any evaluation that is composed holds.
Composed(task, e) ==
    /\ Supported(task) => /\ DOMAIN e.decisions = IdsOf(task)
                          /\ \A id \in IdsOf(task) : JudgedBy(Now, CriterionOf(task, id), e.decisions[id])
    /\ e.status = "complete" =>
         /\ Supported(task) /\ WellFormed(task, IdsOf(task)) /\ task.authoritative \subseteq IdsOf(task)
         /\ e.outputs = task.outputs /\ CollectOutputs(task, Now) = task.outputs /\ IntegrityHolds(task)
         /\ CriteriaStatus(task, e.decisions) = "complete"
         /\ \A id \in task.authoritative : \A r \in e.decisions[id].refs : Profile[r.source].assurance = "authoritative"
    /\ e.status = "incomplete" /\ e.outputs = task.outputs => CriteriaStatus(task, e.decisions) # "complete"
\* The composer keeps to it, whatever the judge proposes.
LEMMA ComposeIs ==
    ASSUME OnScreen, NEW proposals, proposals \in JudgeProposals(trial.task, Now)
    PROVE  Composed(trial.task, Compose(trial.task, Now, proposals))
PROOF
<1> DEFINE task == trial.task
           p == Admitted(task, Now, proposals)
           raw == [id \in IdsOf(task) |-> Decide(CriterionOf(task, id), task, Now, p)]
           decisions == [id \in IdsOf(task) |-> ApplyAuthority(CriterionOf(task, id), task, raw[id])]
           outputs == CollectOutputs(task, Now)
           refs == UNION {decisions[id].refs : id \in DOMAIN decisions} \cup OutputRefs(outputs, Now)
           status == CriteriaStatus(task, decisions)
           e == Compose(task, Now, proposals)
<1>1. task.criteria \in Seq(ToSet(task.criteria))
  BY JudgementAssumption DEF OnScreen
<1>2. ASSUME Supported(task), NEW id \in IdsOf(task)
      PROVE  /\ JudgedBy(Now, CriterionOf(task, id), raw[id])
             /\ JudgedBy(Now, CriterionOf(task, id), decisions[id])
             /\ id \in task.authoritative => \A r \in decisions[id].refs : Profile[r.source].assurance = "authoritative"
  <2>1. CriterionOf(task, id) \in ToSet(task.criteria) /\ CriterionOf(task, id).id = id
    BY ONLY <1>1, <1>2, CriterionIs
  <2>2. CriterionOf(task, id).kind \in CriterionKinds
    BY <1>2, <2>1 DEF Supported, ToSet
  <2>3. JudgedBy(Now, CriterionOf(task, id), raw[id])
    BY <2>2, DecideIs
  <2>4. decisions[id] = ApplyAuthority(CriterionOf(task, id), task, raw[id])
    BY <1>2
  <2> HIDE DEF raw, decisions
  <2> QED  BY <2>1, <2>3, <2>4, AuthorityIs
<1>3. DOMAIN raw = IdsOf(task) /\ DOMAIN decisions = IdsOf(task)
  OBVIOUS
<1>4. e = IF ~Supported(task) THEN Evaluation("blocked", <<>>, {}, {})
          ELSE IF ~(task.authoritative \subseteq IdsOf(task)) THEN Evaluation("blocked", raw, {}, {})
          ELSE IF ~WellFormed(task, IdsOf(task)) THEN Evaluation("blocked", decisions, {}, outputs)
          ELSE IF outputs # task.outputs
               THEN Evaluation(IF status = "unknown" \/ ~Now.complete THEN "unknown" ELSE "incomplete", decisions, {}, outputs)
          ELSE IF status # "complete" THEN Evaluation(status, decisions, {}, outputs)
          ELSE IF refs = {} \/ ~IntegrityHolds(task) THEN Evaluation("blocked", decisions, {}, outputs)
          ELSE Evaluation("complete", decisions, refs, outputs)
  BY DEF Compose
<1> HIDE DEF raw, decisions, outputs, refs, e
<1>5. CASE ~Supported(task)
  <2>1. e.status = "blocked"
    BY <1>4, <1>5 DEF Evaluation
  <2> QED  BY <1>5, <2>1 DEF Composed, e
<1>6. CASE Supported(task) /\ ~(task.authoritative \subseteq IdsOf(task))
  <2>1. e.status = "blocked" /\ e.decisions = raw
    BY <1>4, <1>6 DEF Evaluation
  <2> QED  BY <1>2, <1>3, <1>6, <2>1 DEF Composed, e
<1>7. CASE Supported(task) /\ task.authoritative \subseteq IdsOf(task)
  <2>1. e.decisions = decisions /\ e.outputs = outputs
    BY <1>4, <1>7 DEF Evaluation
  <2>2. e.status = "complete" =>
          WellFormed(task, IdsOf(task)) /\ outputs = task.outputs /\ IntegrityHolds(task) /\ status = "complete"
    BY <1>4, <1>7 DEF Evaluation
  <2>3. e.status = "incomplete" /\ outputs = task.outputs => status # "complete"
    BY <1>4, <1>7 DEF Evaluation
  <2> HIDE DEF status
  <2>4. DOMAIN e.decisions = IdsOf(task) /\ \A id \in IdsOf(task) : JudgedBy(Now, CriterionOf(task, id), e.decisions[id])
    BY <1>2, <1>3, <1>7, <2>1
  <2>5. \A id \in task.authoritative : \A r \in e.decisions[id].refs : Profile[r.source].assurance = "authoritative"
    BY <1>2, <1>7, <2>1
  <2> USE DEF status
  <2> QED  BY <1>7, <2>1, <2>2, <2>3, <2>4, <2>5 DEF Composed, e, outputs
<1> QED  BY <1>5, <1>6, <1>7

\* The validator accepts what the composer decides, unless the criterion is at odds with itself.
LEMMA DecisionIsAccepted ==
    ASSUME OnScreen, NEW c \in ToSet(trial.task.criteria), HasShape(c), ~AtOdds(c),
           NEW d, JudgedBy(Now, c, d), d.status \in {"satisfied", "unsatisfied"}
    PROVE  (d.status = "unsatisfied" /\ d.refs = {} /\ ScopeAbsent(c, Now)) \/ EvidenceAccepted(c, d)
PROOF
<1>1. c.assurance \in {"none", "weak", "structural", "authoritative"}
  BY JudgementAssumption DEF OnScreen
<1>2. d # UnknownDecision
  BY DEF UnknownDecision, Decided
<1>3. "" \notin c.targets
  BY DEF HasShape
<1>4. CASE c.kind \in {"fact_equals", "target_state_equals"}
  <2>1. PICK r : Compared(Now, c, d, r)
    BY <1>2, <1>4 DEF JudgedBy, ByFact
  <2>2. d.refs = {r}
    BY <2>1 DEF Compared, Decided
  <2>3. r \in FactsAbout(Now, c.subject, "value")
    BY <2>1 DEF Compared
  <2>4. r.kind = "fact" /\ r.predicate = "value" /\ c.subject \in {"", r.subject}
    BY <2>3 DEF FactsAbout
  <2>5. c.targets # {} => r.subject \in c.targets
    BY <1>3, <1>4, <2>4 DEF AtOdds
  <2>6. Predicate(c) = "value"
    BY <1>4 DEF Predicate
  <2>7. RecordApplies(c, r)
    BY <1>4, <2>1, <2>4, <2>5, <2>6 DEF RecordApplies, Compared
  <2>8. StatusMatches(c, d.status, r)
    BY <1>4, <2>1 DEF StatusMatches, Compared
  <2> QED  BY <2>2, <2>7, <2>8 DEF EvidenceAccepted
<1>5. CASE c.kind = "artifact_exists"
  <2>1. PICK r \in Now.records : r.kind = "artifact" /\ r.subject = c.subject /\ d = Decided("satisfied", {r})
    BY <1>2, <1>5 DEF JudgedBy, ByArtifact
  <2>2. Thing(screen, showing, r)
    BY <2>1, RecordsAre DEF OnScreen, Now, FieldFact, OptionFact, Answer, Marker, Elsewhere, Fact
  <2>3. r.source \in {"dom", "pixels"} /\ c.assurance = "none" /\ c.targets = {}
    BY <1>5, <2>2 DEF Thing, AtOdds
  <2>4. Assured(c, r)
    BY <2>3 DEF Assured, Satisfies, Profile, AssuranceRank
  <2>5. RecordApplies(c, r) /\ StatusMatches(c, d.status, r)
    BY <1>5, <2>1, <2>3, <2>4 DEF RecordApplies, StatusMatches, Decided
  <2> QED  BY <2>1, <2>5 DEF EvidenceAccepted, Decided
<1>6. CASE c.kind = "user_acceptance"
  <2>1. PICK r \in Acceptances(c, Now) : d = Decided(IF r.value = "yes" THEN "satisfied" ELSE "unsatisfied", {r})
    BY <1>2, <1>6 DEF JudgedBy, ByUser
  <2>2. r.kind = "fact" /\ r.subject = (IF c.subject = "" THEN c.id ELSE c.subject)
        /\ Profile[r.source] = [modality |-> "user", assurance |-> "authoritative"]
    BY DEF Acceptances
  <2>3. c.targets # {} => r.subject \in c.targets
    BY <1>3, <1>6, <2>2 DEF AtOdds
  <2>7. Profile[r.source].assurance = "authoritative"
    <3>1. PICK p : p = Profile[r.source]
      OBVIOUS
    <3>2. p = [modality |-> "user", assurance |-> "authoritative"]
      BY <2>2, <3>1
    <3>3. p.assurance = "authoritative"
      BY ONLY <3>2
    <3> QED  BY <3>1, <3>3
  <2>4. Assured(c, r)
    <3> HIDE DEF Profile
    <3> QED  BY <1>1, <2>7 DEF Assured, Satisfies, AssuranceRank
  <2>5. RecordApplies(c, r)
    BY <1>6, <2>2, <2>3, <2>4 DEF RecordApplies
  <2>6. StatusMatches(c, d.status, r)
    BY <1>6, <2>1 DEF StatusMatches, Decided
  <2> QED  BY <2>1, <2>5, <2>6 DEF EvidenceAccepted, Decided
<1>7. CASE c.kind = "semantic_rubric"
  <2>1. ByJudge(Now, c, d)
    BY <1>2, <1>7 DEF JudgedBy
  <2>2. CASE d = Decided("unsatisfied", {}) /\ Now.complete /\ ScopeOf({c}, Now) = {}
    BY <1>7, <2>2 DEF ScopeAbsent, Decided
  <2>3. ASSUME NEW r, Cited(Now, c, d, r) PROVE EvidenceAccepted(c, d)
    <3>1. d.refs = {r} /\ SemanticEvidenceApplies(c, r)
      BY <2>3 DEF Cited, Decided
    <3>2. Assured(c, r) /\ (c.targets # {} => r.kind = "fact" /\ r.subject \in c.targets)
      BY <1>7, <3>1 DEF SemanticEvidenceApplies, InScope, AtOdds
    <3>3. RecordApplies(c, r) /\ StatusMatches(c, d.status, r)
      BY <1>7, <3>2 DEF RecordApplies, StatusMatches
    <3> QED  BY <3>1, <3>3 DEF EvidenceAccepted
  <2> QED  BY <2>1, <2>2, <2>3 DEF ByJudge
<1>8. CASE c.kind = "hybrid"
  <2>1. \A r : StatusMatches(c, d.status, r)
    BY <1>8 DEF StatusMatches
  <2>2. ASSUME NEW m, NEW x, Compared(Now, c, x, m) PROVE RecordApplies(c, m)
    <3>1. m \in FactsAbout(Now, c.subject, "value") /\ Assured(c, m)
      BY <2>2 DEF Compared
    <3>2. IsOwnFact(c, m)
      BY <1>8, <3>1 DEF IsOwnFact, FactsAbout, Predicate
    <3> QED  BY <1>8, <3>1, <3>2 DEF RecordApplies
  <2>3. ASSUME NEW r, NEW x, Cited(Now, c, x, r) PROVE RecordApplies(c, r)
    BY <1>8, <2>3 DEF RecordApplies, Cited, SemanticEvidenceApplies
  <2>4. ByBoth(Now, c, d)
    BY <1>2, <1>8 DEF JudgedBy
  <2>5. CASE \E m : Compared(Now, c, d, m)
    <3>1. PICK m : Compared(Now, c, d, m)
      BY <2>5
    <3>2. d.refs = {m}
      BY <3>1 DEF Compared, Decided
    <3> QED  BY <2>1, <2>2, <3>1, <3>2 DEF EvidenceAccepted
  <2>6. CASE \E m : Compared(Now, c, Decided("satisfied", {m}), m) /\ d = Decided("unsatisfied", {m})
    BY <2>1, <2>2, <2>6 DEF EvidenceAccepted, Decided
  <2>7. CASE \E m, r : /\ Compared(Now, c, Decided("satisfied", {m}), m)
                       /\ Cited(Now, c, Decided(d.status, {r}), r) /\ d = Decided(d.status, {m, r})
    <3>1. PICK m, r : /\ Compared(Now, c, Decided("satisfied", {m}), m)
                      /\ Cited(Now, c, Decided(d.status, {r}), r) /\ d = Decided(d.status, {m, r})
      BY <2>7
    <3>2. d.refs = {m, r}
      BY <3>1 DEF Decided
    <3> QED  BY <2>1, <2>2, <2>3, <3>1, <3>2 DEF EvidenceAccepted
  <2> QED  BY <2>4, <2>5, <2>6, <2>7 DEF ByBoth
<1> QED  BY <1>2, <1>4, <1>5, <1>6, <1>7, <1>8 DEF JudgedBy

\* The validator accepts every evaluation that is composed, unless the task is at odds with itself.
LEMMA ComposedIsAccepted ==
    ASSUME OnScreen, NEW e, Composed(trial.task, e), ~NotReviewable(trial.task)
    PROVE  ValidateTaskEvaluation(e, trial.task, Now)
PROOF
<1> DEFINE task == trial.task
           proposed == DOMAIN e.decisions
           success == IF proposed = IdsOf(task) /\ proposed # {} THEN CriteriaStatus(task, e.decisions) ELSE "unknown"
<1>1. Supported(task) /\ WellFormed(task, IdsOf(task)) /\ \A c \in ToSet(task.criteria) : ~AtOdds(c)
  BY DEF NotReviewable
<1>2. proposed = IdsOf(task) /\ \A id \in IdsOf(task) : JudgedBy(Now, CriterionOf(task, id), e.decisions[id])
  BY <1>1 DEF Composed
<1>3. task.criteria \in Seq(ToSet(task.criteria))
  BY JudgementAssumption DEF OnScreen
<1>4. ASSUME NEW id \in proposed, e.decisions[id].status \in {"satisfied", "unsatisfied"}
      PROVE  LET c == CriterionOf(task, id) d == e.decisions[id] IN
             \/ d.status = "unsatisfied" /\ d.refs = {} /\ ScopeAbsent(c, Now)
             \/ EvidenceAccepted(c, d)
  <2>1. CriterionOf(task, id) \in ToSet(task.criteria)
    BY <1>2, <1>3, CriterionIs
  <2>2. HasShape(CriterionOf(task, id))
    BY <1>1, <2>1 DEF Supported, ToSet
  <2>3. PICK c, d : c = CriterionOf(task, id) /\ d = e.decisions[id]
    OBVIOUS
  <2>4. c \in ToSet(trial.task.criteria) /\ HasShape(c) /\ ~AtOdds(c) /\ JudgedBy(Now, c, d) /\ d.status \in {"satisfied", "unsatisfied"}
    BY <1>1, <1>2, <1>4, <2>1, <2>2, <2>3
  <2>5. \/ d.status = "unsatisfied" /\ d.refs = {} /\ ScopeAbsent(c, Now)
        \/ EvidenceAccepted(c, d)
    BY ONLY OnScreen, <2>4, DecisionIsAccepted
  <2> QED  BY <2>3, <2>5
<1>5. e.status = "complete" => /\ proposed # {} => success = "complete"
                              /\ e.outputs = task.outputs /\ IntegrityHolds(task)
  BY <1>2 DEF Composed
<1>6. e.status = "incomplete" /\ e.outputs = task.outputs => success # "complete"
  BY DEF Composed
<1>7. proposed = IdsOf(task) /\ proposed # {} => WellFormed(task, proposed)
  BY <1>1, <1>2
<1> HIDE DEF success
<1>8. ASSUME NEW id \in proposed
      PROVE  LET c == CriterionOf(task, id) d == e.decisions[id] IN
             d.status \in {"satisfied", "unsatisfied"} =>
                \/ d.status = "unsatisfied" /\ d.refs = {} /\ ScopeAbsent(c, Now)
                \/ EvidenceAccepted(c, d)
  BY <1>4
<1> USE DEF success
<1> QED  BY <1>1, <1>2, <1>5, <1>6, <1>7, <1>8 DEF ValidateTaskEvaluation

-----------------------------------------------------------------------------
(* What a decision says of the real screen. *)

\* A control that is shown and can be read is among the records.
LEMMA ShownIs ==
    ASSUME OnScreen, trial.part = "whole", Now.complete
    PROVE  /\ showing.field \in {"seen", "disputed"} => Fact("dom", "field", "value", screen.field) \in Now.records
           /\ showing.field = "weak" => Fact("pixels", "field", "value", screen.field) \in Now.records
           /\ showing.option => Fact("dom", "option", "value", screen.option) \in Now.records
PROOF
<1>1. showing.coverage = "complete"
  BY DEF Now, World
<1>2. showing.field = "weak" => Fact("pixels", "field", "value", screen.field) \in PixelFacts(screen, showing)
  BY DEF PixelFacts
<1>3. Fact("dom", "field", "value", screen.field) \in FieldFacts(trial.part, screen.field)
  BY DEF FieldFacts
<1> DEFINE domFacts == (IF showing.field \in {"seen", "disputed"} THEN FieldFacts(trial.part, screen.field) ELSE {})
                         \cup (IF showing.option THEN {Fact("dom", "option", "value", screen.option)} ELSE {})
<1>4. domFacts \subseteq Now.records /\ PixelFacts(screen, showing) \subseteq Now.records
  BY <1>1 DEF Now, World
<1> QED  BY <1>2, <1>3, <1>4

\* The one undisputed value a criterion was compared with is on the screen.
LEMMA ComparedIs ==
    ASSUME OnScreen, trial.part = "whole", NEW c, NEW d, NEW r, Compared(Now, c, d, r)
    PROVE  (d.status = "satisfied") = (c.expected \in ScreenValues(c))
PROOF
<1>1. r \in Now.records /\ r.kind = "fact" /\ r.predicate = "value" /\ c.subject \in {"", r.subject}
  BY DEF Compared, FactsAbout
<1>2. FactsAbout(Now, c.subject, "value") = {r} /\ ~InConflict(Now, c.subject, "value")
  BY DEF Compared
<1>3. FieldFact(screen, showing, r) \/ OptionFact(screen, showing, r)
  <2>1. ~Answer(screen, showing, r) /\ ~Thing(screen, showing, r) /\ ~Marker(r) /\ ~Elsewhere(screen, r)
    BY <1>1, ShapesAre
  <2> QED  BY <1>1, <2>1, RecordsAre DEF OnScreen, Now
<1>4. ASSUME FieldFact(screen, showing, r)
      PROVE  r.value = screen.field /\ showing.field # "absent" /\ r.subject = "field"
  <2>1. r.subject = "field" /\ showing.field \in {"seen", "disputed", "weak"}
    BY <1>4 DEF FieldFact, Fact
  <2>2. showing.field # "disputed"
    <3>1. showing.field = "disputed" => <<"field", "value">> \in Now.conflicts
      BY DEF Now, World
    <3> QED  BY <1>1, <1>2, <2>1, <3>1 DEF InConflict
  <2> QED  BY <1>4, <2>1, <2>2 DEF FieldFact
<1>5. ASSUME OptionFact(screen, showing, r)
      PROVE  r.value = screen.option /\ showing.option /\ r.subject = "option"
  BY <1>5 DEF OptionFact, Fact
<1>6. CASE d.status = "satisfied"
  <2>1. r.value = c.expected
    BY <1>6 DEF Compared
  <2> QED  BY <1>1, <1>3, <1>4, <1>5, <1>6, <2>1 DEF ScreenValues
<1>7. CASE d.status # "satisfied"
  <2>1. r.value # c.expected /\ Now.complete
    BY <1>7 DEF Compared
  <2>2. ASSUME c.subject = "", showing.option PROVE r.value = screen.option /\ r.subject = "option"
    <3>1. Fact("dom", "option", "value", screen.option) \in FactsAbout(Now, c.subject, "value")
      BY <2>1, <2>2, ShownIs DEF FactsAbout, Fact
    <3> QED  BY <1>2, <3>1 DEF Fact
  <2>3. ASSUME c.subject = "", showing.field # "absent" PROVE r.value = screen.field /\ r.subject = "field"
    <3>1. showing.field \in {"seen", "disputed", "weak"}
      BY <2>3, ScreenIs DEF OnScreen
    <3>2. \E source : Fact(source, "field", "value", screen.field) \in FactsAbout(Now, c.subject, "value")
      BY <2>1, <2>3, <3>1, ShownIs DEF FactsAbout, Fact
    <3> QED  BY <1>2, <3>2 DEF Fact
  <2>4. c.expected \notin ScreenValues(c)
    BY <1>1, <1>3, <1>4, <1>5, <2>1, <2>2, <2>3 DEF ScreenValues
  <2> QED  BY <1>7, <2>4
<1> QED  BY <1>6, <1>7

\* A criterion that was decided was decided truly.
LEMMA TruthIs ==
    ASSUME OnScreen, NEW c, c.kind \in CriterionKinds, NEW d, d = verdict.decisions[c.id],
           JudgedBy(Now, c, d), d.status \in {"satisfied", "unsatisfied"}
    PROVE  Truth(c) = d.status
PROOF
<1> DEFINE holds(p) == IF p THEN "satisfied" ELSE "unsatisfied"
           sound == \A r \in d.refs : r \in Now.records /\ Assured(c, r)
           independent == \E r \in d.refs : InScope(c, r) /\ ~IsOwnFact(c, r)
           inScope == \A r \in d.refs : InScope(c, r)
           equal == trial.part # "whole" \/ c.expected \in ScreenValues(c)
<1>1. Truth(c) =
        CASE c.kind \in {"fact_equals", "target_state_equals"} ->
                IF trial.part # "whole" THEN d.status ELSE holds(c.expected \in ScreenValues(c))
          [] c.kind = "artifact_exists" ->
                holds(\/ c.subject = "report" /\ screen.report # "none"
                      \/ c.subject = "screenshot" /\ showing.shot)
          [] c.kind = "user_acceptance" -> holds(screen.accepted = "yes")
          [] c.kind = "hybrid" -> holds(d.status = "satisfied" /\ sound /\ independent /\ equal)
          [] OTHER -> IF sound /\ inScope THEN d.status ELSE "unknown"
  BY DEF Truth
<1>2. d # UnknownDecision
  BY DEF UnknownDecision, Decided
<1>3. ASSUME NEW x, NEW r, Compared(Now, c, x, r), trial.part = "whole"
      PROVE  (x.status = "satisfied") = (c.expected \in ScreenValues(c))
  BY <1>3, ComparedIs
<1>4. CASE c.kind \in {"fact_equals", "target_state_equals"}
  <2>1. Truth(c) = IF trial.part # "whole" THEN d.status ELSE holds(c.expected \in ScreenValues(c))
    BY <1>1, <1>4
  <2>2. \E r : Compared(Now, c, d, r)
    BY <1>2, <1>4 DEF JudgedBy, ByFact
  <2> QED  BY <1>3, <2>1, <2>2
<1>5. CASE c.kind = "artifact_exists"
  <2>1. Truth(c) = holds(\/ c.subject = "report" /\ screen.report # "none"
                         \/ c.subject = "screenshot" /\ showing.shot)
    BY <1>1, <1>5
  <2>2. PICK r \in Now.records : r.kind = "artifact" /\ r.subject = c.subject /\ d = Decided("satisfied", {r})
    BY <1>2, <1>5 DEF JudgedBy, ByArtifact
  <2>3. Thing(screen, showing, r)
    BY <2>2, RecordsAre, ShapesAre DEF OnScreen, Now
  <2> QED  BY <2>1, <2>2, <2>3 DEF Thing, Decided
<1>6. CASE c.kind = "user_acceptance"
  <2>1. Truth(c) = holds(screen.accepted = "yes")
    BY <1>1, <1>6
  <2>2. PICK r \in Acceptances(c, Now) : d = Decided(IF r.value = "yes" THEN "satisfied" ELSE "unsatisfied", {r})
    BY <1>2, <1>6 DEF JudgedBy, ByUser
  <2>3. r \in Now.records /\ r.kind = "fact" /\ r.predicate = "accepted" /\ Profile[r.source].modality = "user"
    <3>1. r \in Now.records /\ r.kind = "fact" /\ r.predicate = "accepted"
          /\ Profile[r.source] = [modality |-> "user", assurance |-> "authoritative"]
      BY DEF Acceptances
    <3>2. PICK p : p = Profile[r.source]
      OBVIOUS
    <3>3. p = [modality |-> "user", assurance |-> "authoritative"]
      BY <3>1, <3>2
    <3>4. p.modality = "user"
      BY ONLY <3>3
    <3> QED  BY <3>1, <3>2, <3>4
  <2>4. Answer(screen, showing, r)
    BY <2>3, RecordsAre, ShapesAre DEF OnScreen, Now
  <2>5. r.source = "user" /\ r.value = screen.accepted
    <3>1. Profile["dom"].modality # "user"
      BY DEF Profile
    <3> QED  BY <2>3, <2>4, <3>1, FactIs DEF Answer
  <2> QED  BY <2>1, <2>2, <2>5 DEF Decided
<1>7. CASE c.kind = "semantic_rubric"
  <2>1. Truth(c) = IF sound /\ inScope THEN d.status ELSE "unknown"
    BY <1>1, <1>7
  <2>2. ByJudge(Now, c, d)
    BY <1>2, <1>7 DEF JudgedBy
  <2>3. d = Decided("unsatisfied", {}) \/ \E r : Cited(Now, c, d, r)
    BY <2>2 DEF ByJudge
  <2>4. sound /\ inScope
    <3>1. CASE d = Decided("unsatisfied", {})
      BY <3>1 DEF Decided
    <3>2. ASSUME NEW r, Cited(Now, c, d, r) PROVE sound /\ inScope
      <4>1. d.refs = {r} /\ r \in Now.records /\ SemanticEvidenceApplies(c, r)
        BY <3>2 DEF Cited, Decided
      <4> QED  BY <4>1 DEF SemanticEvidenceApplies
    <3> QED  BY <2>3, <3>1, <3>2
  <2> QED  BY <2>1, <2>4
<1>8. CASE c.kind = "hybrid"
  <2>1. Truth(c) = holds(d.status = "satisfied" /\ sound /\ independent /\ equal)
    BY <1>1, <1>8
  <2>2. CASE d.status = "unsatisfied"
    BY <2>1, <2>2
  <2>3. CASE d.status = "satisfied"
    <3>1. ByBoth(Now, c, d)
      BY <1>2, <1>8 DEF JudgedBy
    <3>2. PICK m, r : /\ Compared(Now, c, Decided("satisfied", {m}), m)
                      /\ Cited(Now, c, Decided(d.status, {r}), r) /\ d = Decided(d.status, {m, r})
      <4>1. \A m : d # Decided("unsatisfied", {m})
        BY <2>3 DEF Decided
      <4> QED  BY <2>3, <3>1, <4>1 DEF ByBoth
    <3>3. d.refs = {m, r}
      BY <3>2 DEF Decided
    <3>4. m \in Now.records /\ Assured(c, m)
      BY <3>2 DEF Compared, FactsAbout
    <3>5. r \in Now.records /\ Assured(c, r) /\ InScope(c, r) /\ ~IsOwnFact(c, r)
      BY <3>2 DEF Cited, SemanticEvidenceApplies
    <3>6. equal
      BY <1>3, <3>2 DEF Decided
    <3>7. sound /\ independent
      BY <3>3, <3>4, <3>5
    <3> QED  BY <2>1, <2>3, <3>6, <3>7
  <2> QED  BY <2>2, <2>3
<1> QED  BY <1>4, <1>5, <1>6, <1>7, <1>8 DEF CriterionKinds

\* A run that is done by an evaluation that was composed earned it.
LEMMA ComposedIsEarned ==
    ASSUME OnScreen, Composed(trial.task, verdict), verdict.status = "complete"
    PROVE  CompleteIsEarned
PROOF
<1> DEFINE task == trial.task
           e == ExpressionOf(task)
           s == [id \in DOMAIN verdict.decisions |-> verdict.decisions[id].status]
           t == [id \in IdsOf(task) |-> Truth(CriterionOf(task, id))]
<1>1. /\ Supported(task) /\ WellFormed(task, IdsOf(task)) /\ task.authoritative \subseteq IdsOf(task)
      /\ verdict.outputs = task.outputs /\ CollectOutputs(task, Now) = task.outputs /\ IntegrityHolds(task)
      /\ CriteriaStatus(task, verdict.decisions) = "complete"
      /\ \A id \in task.authoritative : \A r \in verdict.decisions[id].refs : Profile[r.source].assurance = "authoritative"
  BY DEF Composed
<1>2. DOMAIN verdict.decisions = IdsOf(task)
      /\ \A id \in IdsOf(task) : JudgedBy(Now, CriterionOf(task, id), verdict.decisions[id])
  BY <1>1 DEF Composed
<1>3. task.criteria \in Seq(ToSet(task.criteria)) /\ IsExpression(e) /\ Len(e) # 0
  BY JudgementAssumption, TaskHasExpression DEF OnScreen
<1>4. \A n \in 1 .. Len(e) : e[n].op = "criterion" => e[n].id \in IdsOf(task)
  <2>1. CASE task.expression # <<>>
    <3>1. e = task.expression /\ DOMAIN e = 1 .. Len(e)
      BY <1>3, <2>1 DEF ExpressionOf, IsExpression
    <3>2. \A n \in DOMAIN e : (e[n].op = "criterion" /\ e[n].id \in IdsOf(task)) \/ e[n].op = "not" \/ e[n].op \in {"all", "any"}
      BY <1>1, <3>1 DEF WellFormed
    <3> HIDE DEF e
    <3> QED  BY <3>1, <3>2
  <2>2. CASE task.expression = <<>>
    <3> DEFINE ids == [i \in DOMAIN task.criteria |-> task.criteria[i].id]
               leaves == [i \in DOMAIN ids |-> Node("criterion", {}, ids[i])]
               root == Node("all", DOMAIN ids, "")
    <3>1. e = Append(leaves, root)
      BY <2>2 DEF ExpressionOf, All
    <3>2. DOMAIN ids = 1 .. Len(task.criteria) /\ Len(task.criteria) \in Nat
      BY <1>3
    <3>3. Len(leaves) = Len(task.criteria) /\ Len(e) = Len(leaves) + 1 /\ e[Len(e)] = root
          /\ \A n \in 1 .. Len(task.criteria) : e[n] = leaves[n]
      <4>1. leaves \in [1 .. Len(task.criteria) -> {leaves[i] : i \in 1 .. Len(task.criteria)}]
        BY <3>2
      <4>2. PICK X : X = {leaves[i] : i \in 1 .. Len(task.criteria)} \cup {root}
        OBVIOUS
      <4> HIDE DEF leaves, root, e
      <4>3. leaves \in Seq(X) /\ Len(leaves) = Len(task.criteria) /\ root \in X
        BY <3>2, <4>1, <4>2
      <4> QED  BY <3>1, <3>2, <4>3
    <3>4. \A n \in 1 .. Len(task.criteria) : leaves[n].id = task.criteria[n].id
      BY <3>2 DEF Node
    <3>5. root.op = "all"
      BY DEF Node
    <3>6. \A n \in 1 .. Len(task.criteria) : task.criteria[n].id \in IdsOf(task)
      BY <3>2 DEF IdsOf
    <3> HIDE DEF leaves, root, e
    <3>7. \A n \in 1 .. Len(e) : n \in 1 .. Len(task.criteria) \/ n = Len(e)
      BY <3>2, <3>3
    <3> QED  BY <3>3, <3>4, <3>5, <3>6, <3>7
  <2> QED  BY <2>1, <2>2
<1>5. ASSUME NEW id \in IdsOf(task), s[id] \in {"satisfied", "unsatisfied"} PROVE t[id] = s[id]
  <2>1. CriterionOf(task, id) \in ToSet(task.criteria) /\ CriterionOf(task, id).id = id
    BY <1>3, CriterionIs
  <2>2. PICK c, d : c = CriterionOf(task, id) /\ d = verdict.decisions[id]
    OBVIOUS
  <2>3. c.kind \in CriterionKinds
    BY <1>1, <2>1, <2>2 DEF Supported, ToSet
  <2>4. JudgedBy(Now, c, d) /\ d.status \in {"satisfied", "unsatisfied"} /\ d = verdict.decisions[c.id] /\ s[id] = d.status
    BY <1>2, <1>5, <2>1, <2>2
  <2>5. Truth(c) = d.status
    BY ONLY OnScreen, <2>3, <2>4, TruthIs
  <2> QED  BY <2>2, <2>4, <2>5
<1>6. Evaluates(e, s) = "satisfied"
  <2>1. PICK v : v = Evaluates(e, s)
    OBVIOUS
  <2>2. v \in Values
    <3>1. PICK f : ValuesUpTo(e, s, Len(e), f) /\ Evaluates(e, s) = f[Len(e)]
      BY ONLY <1>3, EvaluatesIs
    <3>2. Len(e) \in 1 .. Len(e)
      BY <1>3 DEF IsExpression
    <3>3. f[Len(e)] = Combine(e[Len(e)], s, {f[m] : m \in e[Len(e)].of})
      BY <3>1, <3>2 DEF ValuesUpTo
    <3> QED  BY <2>1, <3>1, <3>3, CombineIs
  <2>3. [satisfied |-> "complete", unsatisfied |-> "incomplete", unknown |-> "unknown"][v] = "complete"
    BY <1>1, <2>1 DEF CriteriaStatus
  <2> QED  BY <2>1, <2>2, <2>3 DEF Values
<1>7. Evaluates(e, t) = "satisfied"
  <2> HIDE DEF e, s, t
  <2>1. \A n \in 1 .. Len(e) : e[n].op = "criterion" /\
            s[e[n].id] \in {"satisfied", "unsatisfied"} => t[e[n].id] = s[e[n].id]
    BY <1>4, <1>5
  <2> QED  BY <1>3, <1>6, <2>1, ExpressionGrows
<1>8. \A key \in task.outputs : Cardinality(OutputRecords(key, Now)) = 1
  BY <1>1 DEF CollectOutputs
<1>9. task.integrity # {} => screen.report = "sound"
  BY <1>1 DEF IntegrityHolds
<1> QED  BY <1>1, <1>7, <1>8, <1>9 DEF CompleteIsEarned

-----------------------------------------------------------------------------
(* The outcome of an action. *)

\* A control holds what a fact of its value says, unless it is cut or disputed.
LEMMA ValueIsRead ==
    ASSUME trial \in Trials, NEW s \in Screens, NEW h \in Showings, NEW target, target # "",
           NEW r \in FactsAbout(World(s, h), target, "value"), r.source # "pixels", WholeValue(World(s, h), target)
    PROVE  r.value = IF target = "option" THEN s.option ELSE s.field
PROOF
<1>1. r \in World(s, h).records /\ r.kind = "fact" /\ r.predicate = "value" /\ r.subject = target
  BY DEF FactsAbout
<1>2. FieldFact(s, h, r) \/ OptionFact(s, h, r)
  BY <1>1, RecordsAre, ShapesAre
<1>3. CASE OptionFact(s, h, r)
  BY <1>1, <1>3, ShapesAre
<1>4. CASE FieldFact(s, h, r)
  <2>1. target = "field" /\ h.coverage # "failed" /\ h.field \in {"seen", "disputed"}
        /\ r.value = IF trial.part = "whole" THEN s.field ELSE Prefix[s.field]
    BY <1>1, <1>4, ShapesAre DEF FieldFact
  <2>2. FieldFacts(trial.part, s.field) \subseteq World(s, h).records
    <3> DEFINE domFacts == FieldFacts(trial.part, s.field)
                            \cup (IF h.option THEN {Fact("dom", "option", "value", s.option)} ELSE {})
                            \cup {Fact("dom", "link", "pressed", s.look), Fact("dom", "page", "location", s.where)}
    <3>1. domFacts \subseteq World(s, h).records
      BY <2>1 DEF World
    <3> QED  BY <3>1
  <2>3. trial.part \in {"whole", "cut", "segment"}
    BY JudgementAssumption
  <2>4. CASE trial.part = "whole"
    BY <2>1, <2>4
  <2>5. CASE trial.part = "cut"
    <3>1. CASE Prefix[s.field] # s.field
      <4>1. Fact("dom", "field", "truncated", "true") \in FieldFacts(trial.part, s.field)
        BY <2>5, <3>1 DEF FieldFacts
      <4>2. Fact("dom", "field", "truncated", "true") \in FactsAbout(World(s, h), target, "truncated")
        BY <2>1, <2>2, <4>1, FactIs DEF FactsAbout
      <4>4. Fact("dom", "field", "truncated", "true").value = "true"
        BY DEF Fact
      <4>3. "true" \in ValuesAt(World(s, h), target, "truncated")
        BY <4>2, <4>4, Zenon DEF ValuesAt
      <4> QED  BY <4>3 DEF WholeValue
    <3>2. CASE Prefix[s.field] = s.field
      BY <2>1, <3>2
    <3> QED  BY <3>1, <3>2
  <2>6. CASE trial.part = "segment"
    <3>1. Fact("dom", "field", "scope", "segment") \in FieldFacts(trial.part, s.field)
      BY <2>6 DEF FieldFacts
    <3>2. Fact("dom", "field", "scope", "segment") \in FactsAbout(World(s, h), target, "scope")
      BY <2>1, <2>2, <3>1, FactIs DEF FactsAbout
    <3>4. Fact("dom", "field", "scope", "segment").value = "segment"
      BY DEF Fact
    <3>3. "segment" \in ValuesAt(World(s, h), target, "scope")
      BY <3>2, <3>4, Zenon DEF ValuesAt
    <3> QED  BY <3>3 DEF WholeValue
  <2> QED  BY <2>3, <2>4, <2>5, <2>6
<1> QED  BY <1>2, <1>3, <1>4

\* A value that is shown is what the control holds, where controls are shown whole.
LEMMA ValueIsShown ==
    ASSUME trial \in Trials, NEW s \in Screens, NEW h \in Showings, NEW target, target # "", trial.part = "whole",
           NEW r \in FactsAbout(World(s, h), target, "value")
    PROVE  r.value = "blurred" \/ r.value = IF target = "option" THEN s.option ELSE s.field
PROOF
<1>1. r \in World(s, h).records /\ r.kind = "fact" /\ r.predicate = "value" /\ r.subject = target
  BY DEF FactsAbout
<1>2. FieldFact(s, h, r) \/ OptionFact(s, h, r)
  BY <1>1, RecordsAre, ShapesAre
<1> QED  BY <1>1, <1>2, ShapesAre DEF FieldFact

\* What is said of an action, of the worlds before and after it.
OutcomeHolds(o, bs, bh, s, h, q) ==
    LET value(x) == IF q.target = "option" THEN x.option ELSE x.field
    IN  /\ o.post = "satisfied" => value(s) = q.value
        /\ o.post = "unsatisfied" => value(s) # q.value
        /\ o.change = "changed" => bs # s \/ bh # h
        /\ o.change = "unchanged" /\ o.method = "visual" => Face(bs) = Face(s)
        /\ o.change = "unchanged" /\ o.method = "native" /\ trial.part = "whole" => value(bs) = value(s)
        /\ o.change \in {"changed", "unchanged", "unknown"}

\* Nothing is said.
LEMMA NoOutcomeHolds ==
    ASSUME NEW bs, NEW bh, NEW s, NEW h, NEW q
    PROVE  OutcomeHolds(NoOutcome, bs, bh, s, h, q)
PROOF BY DEF OutcomeHolds, NoOutcome, ActionOutcome

\* A navigation claims no value, and a change only of worlds that differ.
LEMMA NavigationHolds ==
    ASSUME NEW bs, NEW bh, NEW s, NEW h, NEW q
    PROVE  OutcomeHolds(NavigationOutcome(World(bs, bh), World(s, h), q), bs, bh, s, h, q)
PROOF
<1> DEFINE b == World(bs, bh)
           a == World(s, h)
           o == NavigationOutcome(b, a, q)
           available == b.digest # {} /\ a.digest # {}
           painted == available /\ b.digest # a.digest
           targetChanged == Content(b) # Content(a) /\ TargetChanged(b, a, q.target)
<1>1. b # a => bs # s \/ bh # h
  OBVIOUS
<1>2. available => b.digest = {Face(bs)} /\ a.digest = {Face(s)}
  BY DEF World
<1> HIDE DEF b, a
<1>3. \/ Content(b) # Content(a) /\ o.change = "changed" /\ o.method = "structural"
      \/ o = NoOutcome
      \/ available /\ o.change = (IF painted \/ targetChanged THEN "changed" ELSE "unchanged") /\ o.method = "visual"
  BY DEF NavigationOutcome, ActionOutcome
<1>4. o = NoOutcome \/ o.post \in {"unknown", "not_applicable"}
  BY DEF NavigationOutcome, ActionOutcome
<1> HIDE DEF o
<1>5. CASE o = NoOutcome
  BY <1>5, NoOutcomeHolds DEF o, b, a
<1>6. CASE o # NoOutcome /\ Content(b) # Content(a) /\ o.change = "changed" /\ o.method = "structural"
  <2>1. bs # s \/ bh # h
    BY <1>1, <1>6
  <2>2. o.post # "satisfied" /\ o.post # "unsatisfied"
    BY <1>4, <1>6
  <2>3. OutcomeHolds(o, bs, bh, s, h, q)
    BY <1>6, <2>1, <2>2 DEF OutcomeHolds
  <2> QED  BY <2>3 DEF o, b, a
<1>7. CASE o # NoOutcome /\ available /\ o.change = (IF painted \/ targetChanged THEN "changed" ELSE "unchanged") /\ o.method = "visual"
  <2>1. o.change = "changed" => b # a
    BY <1>7
  <2>2. o.change = "unchanged" => b.digest = a.digest
    BY <1>7
  <2>3. o.change = "unchanged" => Face(bs) = Face(s)
    BY <1>2, <1>7, <2>2
  <2>4. o.post # "satisfied" /\ o.post # "unsatisfied" /\ o.change \in {"changed", "unchanged"}
    BY <1>4, <1>7
  <2>5. OutcomeHolds(o, bs, bh, s, h, q)
    BY <1>1, <1>7, <2>1, <2>3, <2>4 DEF OutcomeHolds
  <2> QED  BY <2>5 DEF o, b, a
<1> QED  BY <1>3, <1>5, <1>6, <1>7

\* What pixels show is weak.
LEMMA PixelsAreWeak == ~Satisfies(Profile["pixels"].assurance, "structural")
PROOF
<1>1. Profile["pixels"].assurance = "weak"
  BY DEF Profile
<1>2. AssuranceRank["weak"] = 1 /\ AssuranceRank["structural"] = 2
  BY DEF AssuranceRank
<1>3. \A x, y \in Nat : x < y => ~(x >= y)
  OBVIOUS
<1>4. 1 \in Nat /\ 2 \in Nat /\ 1 < 2
  OBVIOUS
<1> QED  BY <1>1, <1>2, <1>3, <1>4 DEF Satisfies

\* A claim about a value is of the whole control.
LEMMA ValueHolds ==
    ASSUME trial \in Trials, NEW bs \in Screens, NEW bh \in Showings, NEW s \in Screens, NEW h \in Showings,
           NEW q, q.target # ""
    PROVE  OutcomeHolds(ValueOutcome(World(bs, bh), World(s, h), q), bs, bh, s, h, q)
PROOF
<1> DEFINE b == World(bs, bh)
           a == World(s, h)
           current == CurrentValue(a, q.target)
           before == FactsAbout(b, q.target, "value")
           rs == FactsAbout(a, q.target, "value")
           change == IF Cardinality(before) # 1 THEN "unknown"
                     ELSE IF ValuesAt(b, q.target, "value") # ValuesAt(a, q.target, "value") THEN "changed" ELSE "unchanged"
           whole == WholeValue(a, q.target)
           post == IF whole /\ q.value \in {r.value : r \in current} THEN "satisfied"
                   ELSE IF ~whole \/ ~a.complete \/ (q.op = "fill" /\ change # "unchanged") THEN "unknown"
                   ELSE "unsatisfied"
           o == ValueOutcome(b, a, q)
           value(x) == IF q.target = "option" THEN x.option ELSE x.field
<1>1. b # a => bs # s \/ bh # h
  OBVIOUS
<1>2. o = IF current = {} THEN NoOutcome ELSE ActionOutcome(change, post, "native", current)
  BY DEF ValueOutcome
<1>3. CASE current = {}
  BY <1>2, <1>3, NoOutcomeHolds
<1>4. CASE current # {}
  <2>1. Cardinality(rs) = 1 /\ rs \subseteq a.records /\ current \subseteq rs
        /\ \A r \in current : StructurallyAdmitted(r, a, TRUE)
    BY <1>4 DEF CurrentValue, FactsAbout
  <2>2. PICK r : rs = {r}
    <3> HIDE DEF current, before, rs, b, change, post, o
    <3> QED  BY <2>1, OneRecord DEF a
  <2>3. current = {r} /\ r \in rs /\ StructurallyAdmitted(r, a, TRUE)
    BY <1>4, <2>1, <2>2
  <2>4. r.source # "pixels"
    <3> QED  BY <2>3, PixelsAreWeak DEF StructurallyAdmitted
  <2>5. whole => r.value = value(s)
    BY <2>3, <2>4, ValueIsRead
  <2>6. {x.value : x \in current} = {r.value} /\ ValuesAt(a, q.target, "value") = {r.value}
    <3>1. ValuesAt(a, q.target, "value") = {x.value : x \in rs}
      BY DEF ValuesAt
    <3> HIDE DEF current, rs
    <3> QED  BY <2>2, <2>3, <3>1
  <2> HIDE DEF current, before, rs, a, b
  <2>7. o.change = change /\ o.post = post /\ o.method = "native"
    <3> HIDE DEF change, post, o
    <3> QED  BY <1>2, <1>4 DEF ActionOutcome
  <2>8. o.post = "satisfied" => value(s) = q.value
    BY <2>5, <2>6, <2>7
  <2>9. o.post = "unsatisfied" => value(s) # q.value
    BY <2>5, <2>6, <2>7
  <2>10. o.change = "changed" => b # a
    BY <2>7
  <2>11. ASSUME o.change = "unchanged", trial.part = "whole" PROVE value(bs) = value(s)
    <3>1. Cardinality(before) = 1 /\ ValuesAt(b, q.target, "value") = {r.value}
      BY <2>6, <2>7, <2>11
    <3>2. PICK x : before = {x}
      <4>1. before \subseteq World(bs, bh).records
        BY DEF before, b, FactsAbout
      <4> HIDE DEF change, post, o, whole, value
      <4>2. \A S : S \subseteq World(bs, bh).records /\ Cardinality(S) = 1 => \E y : S = {y}
        BY ONLY bs \in Screens, bh \in Showings, trial \in Trials, OneRecord
      <4> QED  BY <3>1, <4>1, <4>2, Zenon
    <3>3. x.value = r.value
      <4>1. ValuesAt(b, q.target, "value") = {y.value : y \in before}
        BY DEF ValuesAt, before
      <4>2. x.value \in {y.value : y \in before}
        BY <3>2
      <4> QED  BY <3>1, <4>1, <4>2
    <3>4. x.value = "blurred" \/ x.value = value(bs)
      <4>1. x \in FactsAbout(World(bs, bh), q.target, "value")
        BY <3>2 DEF before, b
      <4> QED  BY <2>11, <4>1, ValueIsShown
    <3>5. r.value = "blurred" \/ r.value = value(s)
      <4>1. r \in FactsAbout(World(s, h), q.target, "value")
        BY <2>3 DEF rs, a
      <4> QED  BY <2>11, <4>1, ValueIsShown
    <3>6. r.value # "blurred"
      <4>1. r \in World(s, h).records /\ r.kind = "fact" /\ r.predicate = "value"
        BY <2>3 DEF rs, a, FactsAbout
      <4>2. s.field # "blurred" /\ s.option # "blurred"
        <5>1. s.field # "blurred" /\ s.option \in {"one", "two"}
          BY ScreenIs
        <5> QED  BY <5>1
      <4>3. FieldFact(s, h, r) \/ OptionFact(s, h, r)
        BY <4>1, RecordsAre, ShapesAre
      <4> QED  BY <2>4, <2>11, <4>2, <4>3, ShapesAre DEF FieldFact
    <3> QED  BY <3>3, <3>4, <3>5, <3>6
  <2>12. o.change \in {"changed", "unchanged", "unknown"}
    BY <2>7
  <2> HIDE DEF o
  <2>13. OutcomeHolds(o, bs, bh, s, h, q)
    BY <1>1, <2>7, <2>8, <2>9, <2>10, <2>11, <2>12 DEF OutcomeHolds, a, b
  <2> QED  BY <2>13 DEF o, a, b
<1> QED  BY <1>3, <1>4

\* What is said of an action holds.
LEMMA OutcomeIs ==
    ASSUME trial \in Trials, NEW bs \in Screens, NEW bh \in Showings, NEW s \in Screens, NEW h \in Showings,
           NEW q \in trial.request
    PROVE  LET b == World(bs, bh) a == World(s, h) IN
           OutcomeHolds(ApplyEvidenceProfile(Project(b, a, q), b, a, q), bs, bh, s, h, q)
PROOF
<1> DEFINE b == World(bs, bh)
           a == World(s, h)
<1>1. q.target # ""
  BY JudgementAssumption
<1>2. OutcomeHolds(NavigationOutcome(b, a, q), bs, bh, s, h, q)
  BY NavigationHolds
<1>3. OutcomeHolds(ValueOutcome(b, a, q), bs, bh, s, h, q)
  BY <1>1, ValueHolds
<1>4. OutcomeHolds(NoOutcome, bs, bh, s, h, q)
  BY NoOutcomeHolds
<1> HIDE DEF a, b
<1>5. Project(b, a, q) \in {NavigationOutcome(b, a, q), ValueOutcome(b, a, q), NoOutcome}
  BY DEF Project
<1>6. ApplyEvidenceProfile(Project(b, a, q), b, a, q) \in {NavigationOutcome(b, a, q), ValueOutcome(b, a, q), NoOutcome}
  BY <1>5 DEF ApplyEvidenceProfile
<1>7. OutcomeHolds(ApplyEvidenceProfile(Project(b, a, q), b, a, q), bs, bh, s, h, q)
  BY <1>2, <1>3, <1>4, <1>6
<1> QED  BY <1>7 DEF a, b

-----------------------------------------------------------------------------
(* The run. *)

\* What holds of every state: the screens are of the trial, a run was failed for
\* an evaluation only where the task is at odds with itself, a run that is done has an
\* evaluation that was composed of what is there, and what is said of an action holds.
JudgementInv ==
    /\ OnScreen
    /\ stage \in {"observed", "running", "acted", "done", "blocked", "failed", "refused"}
    /\ stage = "refused" => NotReviewable(trial.task)
    /\ stage = "done" => Composed(trial.task, verdict) /\ verdict.status = "complete"
    /\ \A b \in was, q \in trial.request : OutcomeHolds(outcome, b.screen, b.showing, screen, showing, q)
    /\ outcome.change \in {"changed", "unchanged", "unknown"}

\* It is what the runs check.
LEMMA JudgementInvSuffices ==
    ASSUME JudgementInv
    PROVE  JudgementTypeOK /\ EvaluationIsAccepted /\ JudgementIsEarned
PROOF
<1>1. JudgementTypeOK
  BY DEF JudgementInv, OnScreen, JudgementTypeOK
<1>2. EvaluationIsAccepted
  BY DEF JudgementInv, EvaluationIsAccepted
<1>3. CompleteIsEarned
  <2>1. CASE stage = "done"
    BY <2>1, ComposedIsEarned DEF JudgementInv
  <2>2. CASE stage # "done"
    BY <2>2 DEF CompleteIsEarned
  <2> QED  BY <2>1, <2>2
<1>4. OutcomeIsTrue
  <2> SUFFICES ASSUME NEW b \in was, NEW q \in trial.request
               PROVE  LET value(s) == IF q.target = "option" THEN s.option ELSE s.field
                      IN  /\ outcome.post = "satisfied" => value(screen) = q.value
                          /\ outcome.post = "unsatisfied" => value(screen) # q.value
                          /\ outcome.change = "changed" => b.screen # screen \/ b.showing # showing
                          /\ outcome.change = "unchanged" /\ outcome.method = "visual" => Face(b.screen) = Face(screen)
                          /\ outcome.change = "unchanged" /\ outcome.method = "native" /\ trial.part = "whole" =>
                                 value(b.screen) = value(screen)
    BY DEF OutcomeIsTrue
  <2>1. OutcomeHolds(outcome, b.screen, b.showing, screen, showing, q)
    BY DEF JudgementInv
  <2> QED  BY <2>1 DEF OutcomeHolds
<1> QED  BY <1>1, <1>2, <1>3, <1>4 DEF JudgementIsEarned

\* What may differ from one screen to the next is the trial's.
LEMMA ScreensStay ==
    ASSUME trial' = trial
    PROVE  Screens' = Screens /\ Showings' = Showings
PROOF
<1>2. Screens' = Screens
  BY DEF Screens, Vary
<1>3. Showings' = Showings
  BY DEF Showings, Vary
<1> QED  BY <1>2, <1>3

\* An observation stays what it was of the same screen.
LEMMA ObservationStays ==
    ASSUME trial' = trial, screen' = screen, showing' = showing, OnScreen
    PROVE  OnScreen' /\ Now' = Now
PROOF
<1>1. OnScreen'
  BY ScreensStay DEF OnScreen
<1>2. Now' = Now
  BY DEF Now, World, FieldFacts, PixelFacts
<1> QED  BY <1>1, <1>2

\* And an evaluation composed of it.
LEMMA ComposedStays ==
    ASSUME trial' = trial, screen' = screen, showing' = showing, OnScreen, Composed(trial.task, verdict')
    PROVE  Composed(trial.task, verdict)'
PROOF
<1>1. Now' = Now
  BY ObservationStays
<1> QED  BY <1>1 DEF Composed, CollectOutputs, IntegrityHolds

\* A judgement keeps the trial, the screen and what is shown of it.
LEMMA SettleKeeps ==
    ASSUME JudgementInv, NEW proposals, proposals \in JudgeProposals(trial.task, Now),
           NEW e, e = Compose(trial.task, Now, proposals), NEW status,
           status = StatusForEvaluation(e) \/ status = FinalStatus(e), Settle(e, status)
    PROVE  JudgementInv'
PROOF
<1>1. OnScreen /\ Composed(trial.task, e)
  BY ComposeIs DEF JudgementInv
<1>2. trial' = trial /\ screen' = screen /\ showing' = showing /\ was' = was /\ outcome' = outcome
  BY DEF Settle
<1>3. OnScreen' /\ Now' = Now
  BY <1>1, <1>2, ObservationStays
<1>4. status \in {"running", "done", "blocked", "failed"} /\ (status = "done" => e.status = "complete")
  BY DEF StatusForEvaluation, FinalStatus
<1>5. stage' \in {status, "refused"} /\ (stage' = "refused" => ~ValidateTaskEvaluation(e, trial.task, Now))
      /\ (stage' = "done" => verdict' = e /\ stage' = status)
  BY <1>4 DEF Settle
<1>6. stage' = "refused" => NotReviewable(trial'.task)
  BY <1>1, <1>2, <1>5, ComposedIsAccepted
<1>7. stage' = "done" => Composed(trial.task, verdict)' /\ verdict'.status = "complete"
  BY <1>1, <1>2, <1>4, <1>5, ComposedStays
<1>8. (\A b \in was, q \in trial.request : OutcomeHolds(outcome, b.screen, b.showing, screen, showing, q))'
  BY <1>2 DEF JudgementInv, OutcomeHolds
<1> QED  BY <1>2, <1>3, <1>4, <1>5, <1>6, <1>7, <1>8 DEF JudgementInv

\* An action is reported of the worlds before and after it.
LEMMA ActKeeps ==
    ASSUME JudgementInv, Act
    PROVE  JudgementInv'
PROOF
<1>1. OnScreen
  BY DEF JudgementInv
<1>2. PICK q \in trial.request, s \in Screens, h \in Showings :
         /\ screen' = s /\ showing' = h
         /\ outcome' = LET b == Now a == World(s, h) IN ApplyEvidenceProfile(Project(b, a, q), b, a, q)
  BY DEF Act
<1>3. trial' = trial /\ stage' = "acted" /\ was' = {[screen |-> screen, showing |-> showing]}
  BY DEF Act
<1>4. OnScreen'
  BY <1>1, <1>2, <1>3, ScreensStay DEF OnScreen
<1>5. OutcomeHolds(outcome', screen, showing, s, h, q)
  <2>1. LET b == World(screen, showing) a == World(s, h) IN
        OutcomeHolds(ApplyEvidenceProfile(Project(b, a, q), b, a, q), screen, showing, s, h, q)
    BY <1>1, OutcomeIs DEF OnScreen
  <2> QED  BY <1>2, <2>1 DEF Now
<1>6. \A x \in trial.request : x = q
  BY <1>1, JudgementAssumption DEF OnScreen
<1>7. (\A b \in was, x \in trial.request : OutcomeHolds(outcome, b.screen, b.showing, screen, showing, x))'
  <2>1. \A x \in trial'.request : x = q
    BY <1>3, <1>6
  <2>2. \A b \in was' : b.screen = screen /\ b.showing = showing
    BY <1>3
  <2> QED  BY <1>2, <1>3, <1>5, <2>1, <2>2 DEF OutcomeHolds
<1>8. outcome'.change \in {"changed", "unchanged", "unknown"}
  BY <1>5 DEF OutcomeHolds
<1> QED  BY <1>3, <1>4, <1>7, <1>8 DEF JudgementInv

\* It holds throughout.
LEMMA JudgementInvHolds == JudgementSpec => []JudgementInv
PROOF
<1>1. JudgementInit => JudgementInv
  BY DEF JudgementInit, JudgementInv, OnScreen, NoOutcome, ActionOutcome
<1>2. JudgementInv /\ [JudgementNext]_judgementVars => JudgementInv'
  <2> SUFFICES ASSUME JudgementInv, [JudgementNext]_judgementVars PROVE JudgementInv'
    OBVIOUS
  <2>1. CASE JudgeStep
    <3>1. PICK proposals \in JudgeProposals(trial.task, Now) :
             Settle(Compose(trial.task, Now, proposals), StatusForEvaluation(Compose(trial.task, Now, proposals)))
      BY <2>1 DEF JudgeStep
    <3> QED  BY <3>1, SettleKeeps
  <2>2. CASE JudgeFinal
    <3>1. PICK proposals \in JudgeProposals(trial.task, Now) :
             Settle(Compose(trial.task, Now, proposals), FinalStatus(Compose(trial.task, Now, proposals)))
      BY <2>2 DEF JudgeFinal
    <3> QED  BY <3>1, SettleKeeps
  <2>3. CASE Act
    BY <2>3, ActKeeps
  <2>4. CASE UNCHANGED judgementVars
    <3>1. trial' = trial /\ screen' = screen /\ showing' = showing /\ was' = was /\ outcome' = outcome
          /\ verdict' = verdict /\ stage' = stage
      BY <2>4 DEF judgementVars
    <3>2. OnScreen'
      BY <3>1, ObservationStays DEF JudgementInv
    <3>3. stage' = "done" => Composed(trial.task, verdict)' /\ verdict'.status = "complete"
      BY <3>1, ComposedStays DEF JudgementInv
    <3>4. (\A b \in was, q \in trial.request : OutcomeHolds(outcome, b.screen, b.showing, screen, showing, q))'
      BY <3>1 DEF JudgementInv, OutcomeHolds
    <3> QED  BY <3>1, <3>2, <3>3, <3>4 DEF JudgementInv
  <2> QED  BY <2>1, <2>2, <2>3, <2>4 DEF JudgementNext
<1> QED  BY <1>1, <1>2, PTL DEF JudgementSpec

\* Whatever the sources show, hide or dispute and whatever the judge answers, what the composer makes of it the
\* validator accepts, unless the task's criteria are at odds with themselves (evaluation/composition.py,
\* evaluation/validation.py).
THEOREM EvaluationsAreAccepted == JudgementSpec => []EvaluationIsAccepted
PROOF
<1>1. JudgementInv => EvaluationIsAccepted
  BY JudgementInvSuffices
<1> QED  BY <1>1, JudgementInvHolds, PTL

\* A run is done only when its success expression is true of the real screen, and what is said of an action is
\* true of the screens before and after it.
THEOREM JudgementsAreEarned == JudgementSpec => []JudgementIsEarned
PROOF
<1>1. JudgementInv => JudgementIsEarned
  BY JudgementInvSuffices
<1> QED  BY <1>1, JudgementInvHolds, PTL

\* The trial, its screens and what is shown of them stay what they may be.
THEOREM JudgementTypeSafe == JudgementSpec => []JudgementTypeOK
PROOF
<1>1. JudgementInv => JudgementTypeOK
  BY JudgementInvSuffices
<1> QED  BY <1>1, JudgementInvHolds, PTL
=============================================================================
