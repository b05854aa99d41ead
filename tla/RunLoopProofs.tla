--------------------------- MODULE RunLoopProofs ----------------------------
(***************************************************************************)
(* RunControl proved for every set of commands and every history bound,    *)
(* and RunLoop for every budget of turns and every number of dispatches    *)
(* besides.                                                                *)
(*                                                                         *)
(* The four invariants of RunControl are inductive together: that an       *)
(* answer enters the history once needs PendingUnanswered, and that the    *)
(* eviction drops another command than the one just answered needs the     *)
(* order list to agree with the history.                                   *)
(*                                                                         *)
(* The invariants of the loop lean on each other.  That the executions are *)
(* counted needs to know what is in flight at each await; that nothing is  *)
(* dispatched under a pause needs the control owner and the run to agree   *)
(* on it; and that they agree needs the history of the control owner to    *)
(* say what is shown of it.  LoopInv is their conjunction.                 *)
(***************************************************************************)
EXTENDS RunLoop, TLAPS

-----------------------------------------------------------------------------
(* The control owner.                                                      *)

\* The invariants of RunControl as a predicate on any control record, so that
\* the lemmas serve the modules that hold one.
Good(c) ==
    /\ c \in Control
    /\ InStep(c)
    /\ c.pending # None => c.outcomes[c.pending.id] = None
    /\ c.paused # None =>
        /\ c.paused.answer = "pause_boundary_reached"
        /\ c.paused.kind = "pause"
        /\ c.pending # None => c.pending.kind = "cancel"

\* Recording an outcome whose command is not in the history yet keeps the
\* record typed and the history in step, answers that command, and can only
\* forget others (_record, run_control.py).
LEMMA RecordKeeps ==
    ASSUME NEW c \in Control, InStep(c), NEW o \in Outcome,
           c.outcomes[o.id] = None
    PROVE  /\ Record(c, o) \in Control
           /\ InStep(Record(c, o))
           /\ Record(c, o).pending = c.pending
           /\ Record(c, o).paused = c.paused
           /\ Record(c, o).outcomes[o.id] = o
           /\ \A i \in CommandIds \ {o.id} :
                Record(c, o).outcomes[i] \in {c.outcomes[i], None}
<1> DEFINE d == Record(c, o)
           g == RecordForever(c, o)
           n == Len(c.order)
<1>1. /\ o.id \in CommandIds
      /\ o # None
      /\ c.order \in Seq(CommandIds)
      /\ n \in Nat
      /\ c.outcomes \in [CommandIds -> Outcome \cup {None}]
  BY NoneAssumption DEF Outcome, Control
<1>2. /\ g.order \in Seq(CommandIds)
      /\ Len(g.order) = n + 1
      /\ \A k \in 1 .. n : g.order[k] = c.order[k]
      /\ g.order[n + 1] = o.id
      /\ g.outcomes = [c.outcomes EXCEPT ![o.id] = o]
      /\ g.pending = c.pending
      /\ g.paused = c.paused
      /\ g \in Control
  <2>1. /\ g.pending = c.pending
        /\ g.paused = c.paused
        /\ g.outcomes = [c.outcomes EXCEPT ![o.id] = o]
        /\ g.order = Append(c.order, o.id)
    BY DEF RecordForever, Control
  <2>2. /\ [c.outcomes EXCEPT ![o.id] = o] \in [CommandIds -> Outcome \cup {None}]
        /\ Append(c.order, o.id) \in Seq(CommandIds)
    BY <1>1
  <2>3. g \in Control
    BY <2>2 DEF RecordForever, Control
  <2>4. /\ Len(Append(c.order, o.id)) = n + 1
        /\ \A k \in 1 .. n : Append(c.order, o.id)[k] = c.order[k]
        /\ Append(c.order, o.id)[n + 1] = o.id
    BY <1>1
  <2> QED BY <2>1, <2>2, <2>3, <2>4
<1>3. \A k \in 1 .. n : c.order[k] # o.id
  BY <1>1 DEF InStep
<1>4. CASE n < MaxOutcomes
  <2>1. d = g
    BY <1>2, <1>4, <1>1, MaxOutcomesAssumption DEF Record
  <2>2. InStep(g)
    <3>1. Len(g.order) <= MaxOutcomes
      BY <1>2, <1>4, <1>1, MaxOutcomesAssumption
    <3>2. ASSUME NEW i \in CommandIds
          PROVE  g.outcomes[i] # None
                   <=> \E k \in 1 .. Len(g.order) : g.order[k] = i
      <4>1. /\ Len(g.order) = n + 1
            /\ g.order[n + 1] = o.id
            /\ \A k \in 1 .. n : g.order[k] = c.order[k]
            /\ g.outcomes = [c.outcomes EXCEPT ![o.id] = o]
        BY <1>2
      <4> HIDE DEF g
      <4>2. CASE i = o.id
        <5>1. g.outcomes[i] # None
          BY <1>1, <4>1, <4>2
        <5>2. n + 1 \in 1 .. Len(g.order) /\ g.order[n + 1] = i
          BY <1>1, <4>1, <4>2
        <5> QED BY <5>1, <5>2
      <4>3. CASE i # o.id
        <5>1. g.outcomes[i] = c.outcomes[i]
          BY <1>1, <4>1, <4>3
        <5>2. c.outcomes[i] # None <=> \E k \in 1 .. n : c.order[k] = i
          BY DEF InStep
        <5>3. ASSUME NEW k \in 1 .. n, c.order[k] = i
              PROVE  \E m \in 1 .. Len(g.order) : g.order[m] = i
          <6>1. k \in 1 .. Len(g.order) /\ g.order[k] = i
            BY <1>1, <4>1, <5>3
          <6> QED BY <6>1
        <5>4. ASSUME NEW k \in 1 .. Len(g.order), g.order[k] = i
              PROVE  \E m \in 1 .. n : c.order[m] = i
          <6>1. k # n + 1
            BY <4>1, <4>3, <5>4
          <6>2. k \in 1 .. n
            BY <1>1, <4>1, <6>1
          <6> QED BY <4>1, <5>4, <6>2
        <5> QED BY <5>1, <5>2, <5>3, <5>4
      <4> QED BY <4>2, <4>3
    <3>3. ASSUME NEW k \in 1 .. Len(g.order), NEW m \in 1 .. Len(g.order),
                 g.order[k] = g.order[m]
          PROVE  k = m
      <4>1. /\ Len(g.order) = n + 1
            /\ g.order[n + 1] = o.id
            /\ \A j \in 1 .. n : g.order[j] = c.order[j] /\ g.order[j] # o.id
        BY <1>2, <1>3
      <4> HIDE DEF g
      <4>2. CASE k \in 1 .. n /\ m \in 1 .. n
        <5>1. c.order[k] = c.order[m]
          BY <3>3, <4>1, <4>2
        <5> QED BY <4>2, <5>1 DEF InStep
      <4>3. CASE k = n + 1 \/ m = n + 1
        <5>1. k \in 1 .. n \/ k = n + 1
          BY <1>1, <4>1
        <5>2. m \in 1 .. n \/ m = n + 1
          BY <1>1, <4>1
        <5> QED BY <3>3, <4>1, <4>3, <5>1, <5>2
      <4> QED BY <1>1, <4>1, <4>2, <4>3
    <3> QED BY <3>1, <3>2, <3>3 DEF InStep
  <2> QED BY <2>1, <2>2, <1>1, <1>2
<1>5. CASE n = MaxOutcomes
  <2> DEFINE h == Head(g.order)
  <2>1. /\ n >= 1
        /\ h = c.order[1]
        /\ h \in CommandIds
        /\ h # o.id
    <3>1. n >= 1 /\ 1 \in 1 .. n
      BY <1>1, <1>5, MaxOutcomesAssumption
    <3>2. h = g.order[1]
      BY <1>1, <1>2, <3>1
    <3>3. h = c.order[1] /\ c.order[1] # o.id
      BY <1>2, <1>3, <3>1, <3>2
    <3>4. c.order[1] \in CommandIds
      BY <1>1, <3>1
    <3> QED BY <3>1, <3>3, <3>4
  <2>2. /\ d = [pending  |-> g.pending,
                paused   |-> g.paused,
                outcomes |-> [g.outcomes EXCEPT ![h] = None],
                order    |-> Tail(g.order)]
        /\ d \in Control
    <3>1. d = [g EXCEPT !.order = Tail(g.order), !.outcomes[h] = None]
      BY <1>1, <1>2, <1>5, MaxOutcomesAssumption DEF Record
    <3>2. d = [pending  |-> g.pending,
               paused   |-> g.paused,
               outcomes |-> [g.outcomes EXCEPT ![h] = None],
               order    |-> Tail(g.order)]
      BY <1>2, <3>1 DEF Control
    <3>3. /\ g.pending \in Request \cup {None}
          /\ g.paused \in Outcome \cup {None}
          /\ [g.outcomes EXCEPT ![h] = None]
                \in [CommandIds -> Outcome \cup {None}]
      BY <1>2 DEF Control
    <3>4. Tail(g.order) \in Seq(CommandIds)
      BY <1>1, <1>2
    <3> QED BY <3>2, <3>3, <3>4 DEF Control
  <2>3. /\ Len(d.order) = n
        /\ \A k \in 1 .. n : d.order[k] = g.order[k + 1]
        /\ d.outcomes = [g.outcomes EXCEPT ![h] = None]
        /\ d.pending = c.pending
        /\ d.paused = c.paused
    <3>1. /\ Len(Tail(g.order)) = n
          /\ \A k \in 1 .. n : Tail(g.order)[k] = g.order[k + 1]
      BY <1>1, <1>2, <2>1
    <3> QED BY <1>2, <2>2, <3>1
  <2>4. /\ d.order[n] = o.id
        /\ \A k \in 1 .. n : k < n => /\ k + 1 \in 1 .. n
                                     /\ d.order[k] = c.order[k + 1]
    <3>1. n \in 1 .. n /\ d.order[n] = g.order[n + 1]
      <4>1. n \in 1 .. n
        BY <1>1, <2>1
      <4> HIDE DEF d, g
      <4> QED BY <2>3, <4>1
    <3>2. ASSUME NEW k \in 1 .. n, k < n
          PROVE  k + 1 \in 1 .. n /\ d.order[k] = c.order[k + 1]
      <4>1. k + 1 \in 1 .. n
        BY <1>1, <3>2
      <4> HIDE DEF d, g
      <4> QED BY <1>2, <2>3, <4>1
    <3> QED BY <1>2, <3>1, <3>2
  <2>5. /\ d.outcomes[h] = None
        /\ d.outcomes[o.id] = o
        /\ \A i \in CommandIds : i # h /\ i # o.id => d.outcomes[i] = c.outcomes[i]
    <3> HIDE DEF d, h
    <3> QED BY <1>1, <1>2, <2>1, <2>3
  <2>6. /\ h = c.order[1]
        /\ h \in CommandIds
        /\ h # o.id
        /\ 1 \in 1 .. n
        /\ Len(d.order) = n
        /\ n \in Nat
        /\ n = MaxOutcomes
    BY <1>1, <1>5, <2>1, <2>3
  <2> HIDE DEF d, g, h
  <2>7. ASSUME NEW i \in CommandIds
        PROVE  d.outcomes[i] # None <=> \E k \in 1 .. n : d.order[k] = i
    <3>1. CASE i = h
      <4>1. ASSUME NEW k \in 1 .. n, d.order[k] = i PROVE FALSE
        <5>1. k # n
          BY <2>4, <2>6, <3>1, <4>1
        <5>2. k < n
          BY <2>6, <5>1
        <5>3. k + 1 \in 1 .. n /\ c.order[k + 1] = c.order[1]
          BY <2>4, <2>6, <3>1, <4>1, <5>2
        <5>4. k + 1 = 1
          BY <2>6, <5>3 DEF InStep
        <5> QED BY <2>6, <5>4
      <4> QED BY <2>5, <3>1, <4>1
    <3>2. CASE i = o.id
      <4>1. n \in 1 .. n /\ d.order[n] = i
        BY <2>4, <2>6, <3>2
      <4> QED BY <1>1, <2>5, <3>2, <4>1
    <3>3. CASE i # h /\ i # o.id
      <4>1. d.outcomes[i] = c.outcomes[i]
        BY <2>5, <3>3
      <4>2. c.outcomes[i] # None <=> \E k \in 1 .. n : c.order[k] = i
        BY DEF InStep
      <4>3. ASSUME NEW k \in 1 .. n, c.order[k] = i
            PROVE  \E m \in 1 .. n : d.order[m] = i
        <5>1. k # 1
          BY <2>6, <3>3, <4>3
        <5>2. k - 1 \in 1 .. n /\ k - 1 < n /\ (k - 1) + 1 = k
          BY <2>6, <5>1
        <5>3. d.order[k - 1] = c.order[(k - 1) + 1]
          BY <2>4, <5>2
        <5> QED BY <4>3, <5>2, <5>3
      <4>4. ASSUME NEW k \in 1 .. n, d.order[k] = i
            PROVE  \E m \in 1 .. n : c.order[m] = i
        <5>1. k # n
          BY <2>4, <3>3, <4>4
        <5>2. k < n
          BY <2>6, <5>1
        <5> QED BY <2>4, <4>4, <5>2
      <4> QED BY <4>1, <4>2, <4>3, <4>4
    <3> QED BY <3>1, <3>2, <3>3
  <2>8. ASSUME NEW k \in 1 .. n, NEW m \in 1 .. n, d.order[k] = d.order[m]
        PROVE  k = m
    <3>1. ASSUME NEW j \in 1 .. n, j < n PROVE d.order[j] # o.id
      BY <1>3, <2>4, <3>1
    <3>2. CASE k < n /\ m < n
      <4> DEFINE kk == k + 1
                 mm == m + 1
      <4>1. /\ kk \in 1 .. n
            /\ mm \in 1 .. n
            /\ c.order[kk] = c.order[mm]
        BY <2>4, <2>8, <3>2
      <4> HIDE DEF kk, mm
      <4>2. kk = mm
        BY <4>1 DEF InStep
      <4> QED BY <2>6, <4>2 DEF kk, mm
    <3>3. CASE ~(k < n) \/ ~(m < n)
      <4>1. (k = n \/ k < n) /\ (m = n \/ m < n)
        BY <2>6
      <4>2. CASE k = n
        BY <2>4, <2>8, <3>1, <4>1, <4>2
      <4>3. CASE m = n
        BY <2>4, <2>8, <3>1, <4>1, <4>3
      <4> QED BY <3>3, <4>1, <4>2, <4>3
    <3> QED BY <3>2, <3>3
  <2>9. InStep(d)
    BY <2>6, <2>7, <2>8 DEF InStep
  <2>10. \A i \in CommandIds \ {o.id} : d.outcomes[i] \in {c.outcomes[i], None}
    BY <2>5
  <2> QED BY <2>2, <2>3, <2>5, <2>9, <2>10 DEF d
<1> QED BY <1>1, <1>4, <1>5, MaxOutcomesAssumption DEF InStep

\* What a request, an outcome and a control record are made of.
LEMMA Parts ==
    ASSUME NEW c \in Control
    PROVE  /\ c.pending # None => /\ c.pending \in Request
                                 /\ c.pending.id \in CommandIds
                                 /\ c.pending.kind \in Kinds
           /\ \A b \in Boundaries : c.pending # None => Preview(c, b) \in Outcome
           /\ \A a \in Answers \ Reached :
                c.pending # None => Answered(c, a) \in Outcome
<1>1. c.pending # None => /\ c.pending \in Request
                          /\ c.pending.id \in CommandIds
                          /\ c.pending.kind \in Kinds
  BY DEF Control, Request
<1>2. ASSUME NEW b \in Boundaries, c.pending # None
      PROVE  Preview(c, b) \in Outcome
  BY <1>1, <1>2, NoneAssumption DEF Preview, Outcome, Answers, Reached, Kinds
<1>3. ASSUME NEW a \in Answers \ Reached, c.pending # None
      PROVE  Answered(c, a) \in Outcome
  BY <1>1, <1>3 DEF Answered, Outcome
<1> QED BY <1>1, <1>2, <1>3

\* A control record whose pending slot was just emptied and whose paused slot
\* holds a reached pause or nothing is good again once the answer is recorded.
LEMMA AnswerKeepsGood ==
    ASSUME NEW c \in Control, InStep(c), c.pending = None,
           c.paused # None => /\ c.paused.answer = "pause_boundary_reached"
                              /\ c.paused.kind = "pause",
           NEW o \in Outcome, c.outcomes[o.id] = None
    PROVE  Good(Record(c, o))
BY RecordKeeps DEF Good

\* request keeps the control good.
LEMMA RequestKeepsGood ==
    ASSUME NEW c, Good(c), NEW r \in Request
    PROVE  Good(Requested(c, r))
<1>1. /\ c \in Control
      /\ r.id \in CommandIds
      /\ r.kind \in Kinds
      /\ r # None
  BY NoneAssumption DEF Good, Request
<1>2. CASE Admission(c, r) # "accepted"
  BY <1>2 DEF Requested
<1>3. CASE Admission(c, r) = "accepted"
  <2>1. ~Known(c, r.id) /\ ~Refuses(c, r)
    BY <1>3 DEF Admission
  <2>2. CASE c.paused = None /\ c.pending # None
    <3> DEFINE o == Answered(c, "superseded")
               d == Record(c, o)
    <3>1. /\ c.pending.id # r.id
          /\ c.outcomes[r.id] = None
      BY <2>1, <2>2 DEF Known, IsPending
    <3>2. o \in Outcome /\ o.id = c.pending.id
      BY <1>1, <2>2, Parts DEF Answered, Answers, Reached
    <3>3. c.outcomes[o.id] = None
      BY <2>2, <3>2 DEF Good
    <3>4. /\ d \in Control
          /\ InStep(d)
          /\ d.paused = None
          /\ d.outcomes[r.id] = None
      BY <1>1, <2>2, <3>1, <3>2, <3>3, RecordKeeps DEF Good
    <3>5. Requested(c, r) = [d EXCEPT !.pending = r]
      BY <1>3, <2>2 DEF Requested
    <3>6. /\ [d EXCEPT !.pending = r] \in Control
          /\ [d EXCEPT !.pending = r].pending = r
          /\ [d EXCEPT !.pending = r].paused = d.paused
          /\ [d EXCEPT !.pending = r].outcomes = d.outcomes
          /\ [d EXCEPT !.pending = r].order = d.order
      BY <3>4 DEF Control
    <3> HIDE DEF d
    <3> QED BY <3>4, <3>5, <3>6 DEF Good, InStep
  <2>3. CASE ~(c.paused = None /\ c.pending # None)
    <3>1. Requested(c, r) = [c EXCEPT !.pending = r]
      BY <1>3, <2>3 DEF Requested
    <3>2. /\ [c EXCEPT !.pending = r] \in Control
          /\ [c EXCEPT !.pending = r].pending = r
          /\ [c EXCEPT !.pending = r].paused = c.paused
          /\ [c EXCEPT !.pending = r].outcomes = c.outcomes
          /\ [c EXCEPT !.pending = r].order = c.order
      BY <1>1 DEF Control
    <3>3. /\ c.outcomes[r.id] = None
          /\ c.paused # None => r.kind = "cancel"
      BY <1>1, <2>1 DEF Known, Refuses, Kinds
    <3> QED BY <3>1, <3>2, <3>3 DEF Good, InStep
  <2> QED BY <2>2, <2>3
<1> QED BY <1>2, <1>3

\* acknowledge, fail_pending and resolve_terminal keep the control good.
LEMMA AnswersKeepGood ==
    ASSUME NEW c, Good(c), c.pending # None
    PROVE  /\ \A b \in Boundaries : Good(Acknowledged(c, b))
           /\ Good(FailedPending(c))
           /\ Good(ResolvedTerminal(c))
<1>1. /\ c \in Control
      /\ c.outcomes[c.pending.id] = None
      /\ InStep(c)
  BY DEF Good
<1>2. ASSUME NEW b \in Boundaries
      PROVE  Good(Acknowledged(c, b))
  <2> DEFINE o == Preview(c, b)
             e == [c EXCEPT !.pending = None,
                            !.paused = IF c.pending.kind = "pause" THEN o ELSE None]
  <2>1. /\ o \in Outcome
        /\ o.id = c.pending.id
        /\ o.kind = c.pending.kind
        /\ c.pending.kind = "pause" => o.answer = "pause_boundary_reached"
    BY <1>1, Parts DEF Preview
  <2>2. /\ e \in Control
        /\ e.pending = None
        /\ e.paused = IF c.pending.kind = "pause" THEN o ELSE None
        /\ e.outcomes = c.outcomes
        /\ e.order = c.order
    <3> HIDE DEF o
    <3> QED BY <1>1, <2>1 DEF Control
  <2>3. Acknowledged(c, b) = Record(e, o)
    BY DEF Acknowledged
  <2> HIDE DEF e, o
  <2>4. InStep(e)
    BY <1>1, <2>2 DEF InStep
  <2> QED BY <1>1, <2>1, <2>2, <2>3, <2>4, AnswerKeepsGood
<1>3. ASSUME NEW a \in Answers \ Reached
      PROVE  Good(Record([c EXCEPT !.pending = None], Answered(c, a)))
  <2> DEFINE o == Answered(c, a)
             e == [c EXCEPT !.pending = None]
  <2>1. o \in Outcome /\ o.id = c.pending.id
    BY <1>1, Parts DEF Answered
  <2>2. /\ e \in Control
        /\ e.pending = None
        /\ e.paused = c.paused
        /\ e.outcomes = c.outcomes
        /\ e.order = c.order
    BY <1>1 DEF Control
  <2> HIDE DEF e, o
  <2>3. InStep(e)
    BY <1>1, <2>2 DEF InStep
  <2>4. c.paused # None => /\ c.paused.answer = "pause_boundary_reached"
                           /\ c.paused.kind = "pause"
    BY DEF Good
  <2>5. Good(Record(e, o))
    BY <1>1, <2>1, <2>2, <2>3, <2>4, AnswerKeepsGood
  <2> QED BY <2>5 DEF e, o
<1> QED BY <1>2, <1>3 DEF FailedPending, ResolvedTerminal, Answers, Reached

\* resume keeps the control good, when the resume command is not the one that
\* waits for an answer.
LEMMA ResumeKeepsGood ==
    ASSUME NEW c, Good(c), c.paused # None, NEW i \in CommandIds,
           c.pending # None => i # c.pending.id
    PROVE  Good(Resumed(c, i))
<1>1. CASE c.outcomes[i] # None
  BY <1>1 DEF Resumed
<1>2. CASE c.outcomes[i] = None
  <2> DEFINE o == [id |-> i, kind |-> "pause", answer |-> "resumed", boundary |-> None]
             e == [c EXCEPT !.paused = None]
  <2>1. o \in Outcome /\ o.id = i
    BY DEF Outcome, Kinds, Answers, Reached
  <2>2. /\ e \in Control
        /\ e.pending = c.pending
        /\ e.paused = None
        /\ e.outcomes = c.outcomes
        /\ e.order = c.order
    BY DEF Good, Control
  <2>3. Resumed(c, i) = Record(e, o)
    BY <1>2 DEF Resumed
  <2> HIDE DEF e, o
  <2>4. InStep(e)
    BY <2>2 DEF InStep, Good
  <2>5. c.pending # None => c.pending.id \in CommandIds \ {i}
    BY Parts DEF Good
  <2>6. /\ Record(e, o) \in Control
        /\ InStep(Record(e, o))
        /\ Record(e, o).pending = c.pending
        /\ Record(e, o).paused = None
        /\ \A j \in CommandIds \ {i} :
              Record(e, o).outcomes[j] \in {c.outcomes[j], None}
    BY <1>2, <2>1, <2>2, <2>4, RecordKeeps
  <2> QED BY <2>3, <2>5, <2>6 DEF Good
<1> QED BY <1>1, <1>2

\* A fresh control, and one restored at a pause, are good.
LEMMA FreshIsGood ==
    /\ Good(Fresh)
    /\ \A o \in Outcome :
        o.kind = "pause" /\ o.answer = "pause_boundary_reached"
            => Good(RestoredPaused(o))
<1>1. /\ Fresh \in Control
      /\ Fresh.order = << >>
      /\ Fresh.pending = None
      /\ Fresh.paused = None
      /\ \A i \in CommandIds : Fresh.outcomes[i] = None
  BY DEF Fresh, Control
<1>2. InStep(Fresh)
  BY <1>1, MaxOutcomesAssumption DEF InStep
<1>3. ASSUME NEW o \in Outcome, o.kind = "pause", o.answer = "pause_boundary_reached"
      PROVE  Good(RestoredPaused(o))
  <2> DEFINE e == [Fresh EXCEPT !.paused = o]
  <2>1. /\ e \in Control
        /\ e.pending = None
        /\ e.paused = o
        /\ e.outcomes = Fresh.outcomes
        /\ e.order = Fresh.order
    BY <1>1 DEF Control
  <2>2. o.id \in CommandIds
    BY DEF Outcome
  <2>3. RestoredPaused(o) = Record(e, o)
    BY DEF RestoredPaused
  <2> HIDE DEF e
  <2>4. InStep(e)
    BY <1>2, <2>1 DEF InStep
  <2> QED BY <1>1, <1>3, <2>1, <2>2, <2>3, <2>4, AnswerKeepsGood
<1> QED BY <1>1, <1>2, <1>3 DEF Good

\* Every reachable control record is good.
THEOREM ControlIsGood == ControlSpec => []Good(control)
<1>1. ControlInit => Good(control)
  BY FreshIsGood DEF ControlInit
<1>2. Good(control) /\ [ControlNext]_control => Good(control)'
  <2> SUFFICES ASSUME Good(control), [ControlNext]_control
               PROVE  Good(control')
    OBVIOUS
  <2>1. CASE CallRequest
    BY <2>1, RequestKeepsGood DEF CallRequest
  <2>2. CASE CallAcknowledge
    BY <2>2, AnswersKeepGood DEF CallAcknowledge
  <2>3. CASE CallFailPending
    BY <2>3, AnswersKeepGood DEF CallFailPending
  <2>4. CASE CallResolveTerminal
    BY <2>4, AnswersKeepGood DEF CallResolveTerminal
  <2>5. CASE CallResume
    BY <2>5, ResumeKeepsGood DEF CallResume
  <2>6. CASE Restart
    <3>1. PICK i \in CommandIds, b \in Boundaries :
            control' = RestoredPaused([id |-> i, kind |-> "pause",
                                       answer |-> "pause_boundary_reached",
                                       boundary |-> b])
      BY <2>6 DEF Restart
    <3>2. [id |-> i, kind |-> "pause", answer |-> "pause_boundary_reached",
           boundary |-> b] \in Outcome
      BY NoneAssumption DEF Outcome, Kinds, Answers, Reached
    <3> QED BY <3>1, <3>2, FreshIsGood
  <2>7. CASE UNCHANGED control
    BY <2>7
  <2> QED BY <2>1, <2>2, <2>3, <2>4, <2>5, <2>6, <2>7 DEF ControlNext
<1> QED BY <1>1, <1>2, PTL DEF ControlSpec

\* The control record keeps its type.
THEOREM ControlTypeSafe == ControlSpec => []ControlTypeOK
<1>1. Good(control) => ControlTypeOK
  BY DEF Good, ControlTypeOK
<1> QED BY <1>1, ControlIsGood, PTL

\* The history and its eviction order stay in step, for every bound.
THEOREM HistoryStaysInStep == ControlSpec => []HistoryAgrees
<1>1. Good(control) => HistoryAgrees
  BY DEF Good, HistoryAgrees
<1> QED BY <1>1, ControlIsGood, PTL

\* No command is waiting and answered at once.
THEOREM AnsweredOnce == ControlSpec => []PendingUnanswered
<1>1. Good(control) => PendingUnanswered
  BY DEF Good, PendingUnanswered
<1> QED BY <1>1, ControlIsGood, PTL

\* A held pause leaves room for a cancel only.
THEOREM PauseHeld == ControlSpec => []PausedAdmitsOnlyCancel
<1>1. Good(control) => PausedAdmitsOnlyCancel
  BY DEF Good, PausedAdmitsOnlyCancel
<1> QED BY <1>1, ControlIsGood, PTL

-----------------------------------------------------------------------------
(* The loop.                                                               *)

\* what step.dispatch says has left and is in no execution count yet
InFlight == IF step.dispatch = "not_sent" THEN 0 ELSE 1

\* somebody was told that the run is cancelled
Told(c) == \E i \in CommandIds :
    c.outcomes[i] # None /\ c.outcomes[i].answer = "cancelled"

\* where the loop is says how the run stands
PlaceAgrees ==
    /\ step.at \in {"idle", "start"} => run = NoRun
    /\ step.at \in Turn => run.status = "running" /\ run.boundary = None
    /\ step.at = "answer" => run.status = "waiting_user" /\ run.boundary = None
    /\ run.status # "paused"
    /\ AtPause(run) => run.status \in Resumable

\* every dispatch is counted, but the one in flight
Balanced ==
    /\ step.at \notin {"execute", "after"} => step.dispatch = "not_sent"
    /\ step.at = "after" => step.dispatch # "not_sent"
    /\ step.at # "raised" => sent = run.execs + InFlight

LoopInv ==
    /\ Good(control)
    /\ LoopTypeOK
    /\ PlaceAgrees
    /\ Balanced
    /\ PauseAgrees
    /\ CancelledMeansCancelled

-----------------------------------------------------------------------------
(* The control owner: what its methods do to the held pause and to the     *)
(* cancellations that were told.                                           *)

\* Recording an outcome tells of a cancellation only if that outcome does
\* (_record, run_control.py).
LEMMA RecordTells ==
    ASSUME NEW c \in Control, InStep(c), NEW o \in Outcome,
           c.outcomes[o.id] = None
    PROVE  Told(Record(c, o)) => Told(c) \/ o.answer = "cancelled"
<1>1. /\ Record(c, o).outcomes[o.id] = o
      /\ \A i \in CommandIds \ {o.id} :
            Record(c, o).outcomes[i] \in {c.outcomes[i], None}
  BY RecordKeeps
<1> QED BY <1>1 DEF Told

\* The two answers that reach a boundary (acknowledge, run_control.py).
LEMMA AcknowledgedParts ==
    ASSUME NEW c, Good(c), c.pending # None, NEW b \in Boundaries
    PROVE  /\ Good(Acknowledged(c, b))
           /\ Preview(c, b) \in Outcome
           /\ Preview(c, b).kind = c.pending.kind
           /\ c.pending.kind \in {"pause", "cancel"}
           /\ Acknowledged(c, b).paused =
                IF c.pending.kind = "pause" THEN Preview(c, b) ELSE None
           /\ Told(Acknowledged(c, b)) => Told(c) \/ c.pending.kind = "cancel"
<1> DEFINE o == Preview(c, b)
           e == [c EXCEPT !.pending = None,
                          !.paused = IF c.pending.kind = "pause" THEN o ELSE None]
<1>1. /\ c \in Control
      /\ InStep(c)
      /\ c.outcomes[c.pending.id] = None
  BY DEF Good
<1>2. /\ o \in Outcome
      /\ o.id = c.pending.id
      /\ o.kind = c.pending.kind
      /\ c.pending.kind \in {"pause", "cancel"}
      /\ o.answer = "cancelled" => c.pending.kind = "cancel"
  BY <1>1, Parts DEF Preview, Kinds
<1>3. Acknowledged(c, b) = Record(e, o)
  BY DEF Acknowledged
<1>4. /\ e \in Control
      /\ e.paused = IF c.pending.kind = "pause" THEN o ELSE None
      /\ e.outcomes = c.outcomes
      /\ e.order = c.order
  <2> HIDE DEF o
  <2> QED BY <1>1, <1>2 DEF Control
<1>5. Good(Acknowledged(c, b))
  BY AnswersKeepGood
<1> HIDE DEF e
<1>6. InStep(e)
  BY <1>1, <1>4 DEF InStep
<1>7. /\ Record(e, o).paused = e.paused
      /\ Told(Record(e, o)) => Told(e) \/ o.answer = "cancelled"
  <2> HIDE DEF o
  <2> QED BY <1>1, <1>2, <1>4, <1>6, RecordKeeps, RecordTells
<1>8. Told(e) => Told(c)
  BY <1>4 DEF Told
<1> QED BY <1>2, <1>3, <1>4, <1>5, <1>7, <1>8

\* The answers that reach none (fail_pending, resolve_terminal).
LEMMA UnreachedParts ==
    ASSUME NEW c, Good(c)
    PROVE  /\ /\ Good(ResolvedTerminal(c))
              /\ ResolvedTerminal(c).paused = c.paused
              /\ Told(ResolvedTerminal(c)) => Told(c)
           /\ c.pending # None =>
              /\ Good(FailedPending(c))
              /\ FailedPending(c).paused = c.paused
              /\ Told(FailedPending(c)) => Told(c)
<1>1. CASE c.pending = None
  BY <1>1 DEF ResolvedTerminal
<1>2. CASE c.pending # None
  <2>1. /\ c \in Control
        /\ InStep(c)
        /\ c.outcomes[c.pending.id] = None
    BY <1>2 DEF Good
  <2>2. ASSUME NEW a \in Answers \ Reached
        PROVE  /\ Record([c EXCEPT !.pending = None], Answered(c, a)).paused = c.paused
               /\ Told(Record([c EXCEPT !.pending = None], Answered(c, a))) => Told(c)
    <3> DEFINE o == Answered(c, a)
               e == [c EXCEPT !.pending = None]
    <3>1. o \in Outcome /\ o.id = c.pending.id /\ o.answer # "cancelled"
      BY <1>2, <2>1, Parts DEF Answered, Reached
    <3>2. /\ e \in Control
          /\ e.paused = c.paused
          /\ e.outcomes = c.outcomes
          /\ e.order = c.order
      BY <2>1 DEF Control
    <3> HIDE DEF e, o
    <3>3. InStep(e)
      BY <2>1, <3>2 DEF InStep
    <3>4. /\ Record(e, o).paused = e.paused
          /\ Told(Record(e, o)) => Told(e)
      BY <2>1, <3>1, <3>2, <3>3, RecordKeeps, RecordTells
    <3>5. Told(e) => Told(c)
      BY <3>2 DEF Told
    <3>6. /\ Record(e, o).paused = c.paused
          /\ Told(Record(e, o)) => Told(c)
      BY <3>2, <3>4, <3>5
    <3> QED BY <3>6 DEF e, o
  <2>3. /\ FailedPending(c).paused = c.paused
        /\ Told(FailedPending(c)) => Told(c)
    BY <2>2 DEF FailedPending, Answers, Reached
  <2>4. /\ ResolvedTerminal(c).paused = c.paused
        /\ Told(ResolvedTerminal(c)) => Told(c)
    BY <1>2, <2>2 DEF ResolvedTerminal, Answers, Reached
  <2> QED BY <1>2, <2>3, <2>4, AnswersKeepGood
<1> QED BY <1>1, <1>2

\* request tells of nothing and holds nothing (run_control.py).
LEMMA RequestedParts ==
    ASSUME NEW c, Good(c), NEW r \in Request
    PROVE  /\ Good(Requested(c, r))
           /\ Requested(c, r).paused = c.paused
           /\ Told(Requested(c, r)) => Told(c)
           /\ Admission(c, r) = "accepted" => Requested(c, r).pending = r
<1>1. /\ c \in Control
      /\ InStep(c)
      /\ c.pending # None => c.outcomes[c.pending.id] = None
  BY DEF Good
<1>2. Good(Requested(c, r))
  BY RequestKeepsGood
<1>3. CASE Admission(c, r) # "accepted"
  BY <1>2, <1>3 DEF Requested
<1>4. CASE Admission(c, r) = "accepted" /\ c.paused = None /\ c.pending # None
  <2> DEFINE o == Answered(c, "superseded")
             d == Record(c, o)
  <2>1. o \in Outcome /\ o.id = c.pending.id /\ o.answer # "cancelled"
    BY <1>1, <1>4, Parts DEF Answered, Answers, Reached
  <2> HIDE DEF o
  <2>2. /\ d \in Control
        /\ d.paused = c.paused
        /\ Told(d) => Told(c)
    BY <1>1, <1>4, <2>1, RecordKeeps, RecordTells
  <2>3. Requested(c, r) = [d EXCEPT !.pending = r]
    BY <1>4 DEF Requested, o
  <2> HIDE DEF d
  <2>4. /\ [d EXCEPT !.pending = r].pending = r
        /\ [d EXCEPT !.pending = r].paused = d.paused
        /\ [d EXCEPT !.pending = r].outcomes = d.outcomes
    BY <2>2 DEF Control
  <2>5. Told(Requested(c, r)) => Told(d)
    BY <2>3, <2>4 DEF Told
  <2> QED BY <1>2, <2>2, <2>3, <2>4, <2>5
<1>5. CASE Admission(c, r) = "accepted" /\ ~(c.paused = None /\ c.pending # None)
  <2>1. Requested(c, r) = [c EXCEPT !.pending = r]
    BY <1>5 DEF Requested
  <2>2. /\ [c EXCEPT !.pending = r].pending = r
        /\ [c EXCEPT !.pending = r].paused = c.paused
        /\ [c EXCEPT !.pending = r].outcomes = c.outcomes
    BY <1>1 DEF Control
  <2>3. Told(Requested(c, r)) => Told(c)
    BY <2>1, <2>2 DEF Told
  <2> QED BY <1>2, <2>1, <2>2, <2>3
<1> QED BY <1>3, <1>4, <1>5

\* resume, with a command the owner does not know, ends the held pause.
LEMMA ResumedParts ==
    ASSUME NEW c, Good(c), c.paused # None, NEW i \in CommandIds, ~Known(c, i)
    PROVE  /\ Good(Resumed(c, i))
           /\ Resumed(c, i).paused = None
           /\ Told(Resumed(c, i)) => Told(c)
<1> DEFINE o == [id |-> i, kind |-> "pause", answer |-> "resumed", boundary |-> None]
           e == [c EXCEPT !.paused = None]
<1>1. /\ c \in Control
      /\ InStep(c)
      /\ c.outcomes[i] = None
      /\ c.pending # None => i # c.pending.id
  BY DEF Good, Known, IsPending
<1>2. Good(Resumed(c, i))
  BY <1>1, ResumeKeepsGood
<1>3. o \in Outcome /\ o.id = i /\ o.answer # "cancelled"
  BY DEF Outcome, Kinds, Answers, Reached
<1>4. /\ e \in Control
      /\ e.paused = None
      /\ e.outcomes = c.outcomes
      /\ e.order = c.order
  BY <1>1 DEF Control
<1>5. Resumed(c, i) = Record(e, o)
  BY <1>1 DEF Resumed
<1> HIDE DEF e, o
<1>6. InStep(e)
  BY <1>1, <1>4 DEF InStep
<1>7. /\ Record(e, o).paused = e.paused
      /\ Told(Record(e, o)) => Told(e)
  BY <1>1, <1>3, <1>4, <1>6, RecordKeeps, RecordTells
<1>8. Told(e) => Told(c)
  BY <1>4 DEF Told
<1> QED BY <1>2, <1>4, <1>5, <1>7, <1>8

-----------------------------------------------------------------------------
(* Closing and committing a step.                                          *)

\* a result and a control owner that belong together
Fits(c, s) ==
    /\ Good(c)
    /\ s \in Result
    /\ Constructible(s)
    /\ c.paused = IF s.boundary # None /\ s.boundary.kind = "pause"
                  THEN s.boundary ELSE None
    /\ Told(c) => s.status = "cancelled"

\* a result with another status and a boundary
Bounded(s, status, o) == [s EXCEPT !.status = status, !.boundary = o]

\* Attaching a reached boundary to a result keeps the two together.
LEMMA BoundaryFits ==
    ASSUME NEW c, Good(c), ~Told(c), c.pending # None,
           NEW b \in Boundaries, NEW s \in Result, NEW status,
           c.pending.kind = "cancel" => status = "cancelled",
           c.pending.kind = "pause" => status \in Resumable
    PROVE  /\ Fits(Acknowledged(c, b), Bounded(s, status, Preview(c, b)))
           /\ Bounded(s, status, Preview(c, b)).dispatch = s.dispatch
<1> DEFINE o == Preview(c, b)
           t == Bounded(s, status, o)
<1>1. /\ Good(Acknowledged(c, b))
      /\ o \in Outcome
      /\ o # None
      /\ o.kind = c.pending.kind
      /\ c.pending.kind \in {"pause", "cancel"}
      /\ Acknowledged(c, b).paused = IF c.pending.kind = "pause" THEN o ELSE None
      /\ Told(Acknowledged(c, b)) => c.pending.kind = "cancel"
  <2>1. o \in Outcome /\ o.kind = c.pending.kind
    BY AcknowledgedParts
  <2> QED BY <2>1, AcknowledgedParts, NoneAssumption
<1> HIDE DEF o
<1>2. status \in Resumable \cup Ended
  BY <1>1 DEF Result, Ended
<1>3. /\ t \in Result
      /\ t.status = status
      /\ t.boundary = o
      /\ t.dispatch = s.dispatch
  BY <1>1, <1>2 DEF Result, Bounded
<1> HIDE DEF t
<1>4. Constructible(t)
  BY <1>1, <1>3 DEF Constructible
<1>5. Fits(Acknowledged(c, b), t)
  BY <1>1, <1>3, <1>4 DEF Fits
<1> QED BY <1>3, <1>5 DEF o, t

\* A result closed without a boundary, with the control owner it leaves.
LEMMA PlainFits ==
    ASSUME NEW c, Good(c), c.paused = None, ~Told(c),
           NEW s \in Result, s.boundary = None
    PROVE  Fits(c, s)
BY DEF Fits, Constructible

\* _apply_control_after_closed_step returns a result that can be constructed
\* and that agrees with the control owner (core_loop.py).
LEMMA ClosedFits ==
    ASSUME NEW c, Good(c), c.paused = None, ~Told(c),
           NEW s \in Result, s.boundary = None, NEW h \in BOOLEAN
    PROVE  /\ Fits(Closed(c, s, h).control, Closed(c, s, h).result)
           /\ Closed(c, s, h).result.dispatch = s.dispatch
<1> DEFINE uncertain == c.pending # None /\ PausesUncertain(c, s)
           boundary  == IF s.status \in Waiting THEN s.status
                                                ELSE "after_evaluation"
           reopened  == IF uncertain THEN "running" ELSE s.status
<1>1. CASE c.pending = None
  <2>1. Closed(c, s, h) = [control |-> c, result |-> s]
    BY <1>1 DEF Closed
  <2> QED BY <2>1, PlainFits
<1>2. CASE c.pending # None /\ s.status \in Ended /\ ~uncertain
  <2>1. Closed(c, s, h) = [control |-> ResolvedTerminal(c), result |-> s]
    BY <1>2 DEF Closed
  <2>2. /\ Good(ResolvedTerminal(c))
        /\ ResolvedTerminal(c).paused = None
        /\ ~Told(ResolvedTerminal(c))
    BY UnreachedParts
  <2> QED BY <2>1, <2>2, PlainFits
<1>3. CASE c.pending # None /\ (s.status \in Ended => uncertain)
  <2> DEFINE failed == [control |-> FailedPending(c), result |-> s]
             o      == Preview(c, boundary)
             final  == IF c.pending.kind = "cancel" THEN "cancelled" ELSE reopened
             reached == [control |-> Acknowledged(c, boundary),
                         result  |-> [s EXCEPT !.status = final, !.boundary = o]]
  <2>1. Closed(c, s, h) = IF c.pending.kind = "pause" /\ ~h THEN failed ELSE reached
    BY <1>3 DEF Closed
  <2>2. CASE c.pending.kind = "pause" /\ ~h
    <3>1. /\ Good(FailedPending(c))
          /\ FailedPending(c).paused = None
          /\ ~Told(FailedPending(c))
      BY <1>3, UnreachedParts
    <3> QED BY <2>1, <2>2, <3>1, PlainFits
  <2>3. CASE ~(c.pending.kind = "pause" /\ ~h)
    <3>1. /\ s.status \in Resumable \cup Ended
          /\ boundary \in Boundaries
          /\ reopened \in Resumable
      BY <1>3 DEF Result, Boundaries, Waiting, Resumable, Ended
    <3>2. /\ c.pending.kind = "cancel" => final = "cancelled"
          /\ c.pending.kind = "pause" => final \in Resumable
      BY <3>1
    <3>3. Closed(c, s, h) = reached
      BY <2>1, <2>3
    <3> HIDE DEF final, boundary
    <3>4. c.pending # None
      BY <1>3
    <3> DEFINE t == Bounded(s, final, Preview(c, boundary))
    <3>5. /\ reached.control = Acknowledged(c, boundary)
          /\ reached.result = t
      BY DEF Bounded
    <3> HIDE DEF reached, uncertain, reopened, failed
    <3>6. Fits(Acknowledged(c, boundary), t) /\ t.dispatch = s.dispatch
      BY <3>1, <3>2, <3>4, BoundaryFits
    <3> HIDE DEF t
    <3> QED BY <3>3, <3>5, <3>6
  <2> QED BY <2>2, <2>3
<1> QED BY <1>1, <1>2, <1>3

\* What _commit_step makes of a result it can construct: the boundary and the
\* dispatch stay, a status that was not running stays.
LEMMA CommittedParts ==
    ASSUME NEW s \in Result, NEW consume \in BOOLEAN, NEW advance \in BOOLEAN,
           Constructible(Budgeted(s, consume)),
           NEW m \in Monitored(Budgeted(s, consume), advance)
    PROVE  /\ m \in Result
           /\ m.boundary = s.boundary
           /\ m.dispatch = s.dispatch
           /\ Constructible(m)
           /\ s.status # "running" => m.status = s.status
<1> DEFINE b == Budgeted(s, consume)
<1>1. /\ b \in Result
      /\ b.boundary = s.boundary
      /\ b.dispatch = s.dispatch
      /\ s.status # "running" => b.status = s.status
  BY DEF Budgeted, Result, Ended
<1> HIDE DEF b
<1>2. CASE m = b
  BY <1>1, <1>2 DEF b
<1>3. CASE m # b
  <2>1. /\ m = [b EXCEPT !.status = "blocked"]
        /\ b.status = "running"
        /\ b.boundary = None
    BY <1>3 DEF Monitored, b
  <2>2. /\ m \in Result
        /\ m.boundary = b.boundary
        /\ m.dispatch = b.dispatch
    BY <1>1, <2>1 DEF Result, Ended
  <2>3. Constructible(m)
    BY <2>1, <2>2 DEF Constructible
  <2>4. s.status = "running"
    BY <1>1, <2>1
  <2> QED BY <1>1, <2>2, <2>3, <2>4
<1> QED BY <1>2, <1>3

\* apply (run_state.py): the fields it leaves behind.
LEMMA AppliedParts ==
    ASSUME NEW r \in Run, r.remaining <= MaxTurns, NEW m \in Result,
           NEW consume \in BOOLEAN
    PROVE  /\ Applied(r, m, consume) \in Run
           /\ Applied(r, m, consume).remaining <= MaxTurns
           /\ Applied(r, m, consume).status = m.status
           /\ Applied(r, m, consume).boundary =
                IF m.boundary = None THEN r.boundary ELSE m.boundary
           /\ Applied(r, m, consume).execs =
                IF m.dispatch = "not_sent" THEN r.execs ELSE r.execs + 1
<1>1. /\ r.remaining \in Nat
      /\ r.execs \in Nat
      /\ MaxTurns \in Nat
  BY LoopAssumption DEF Run
<1>2. /\ m.status \in Resumable \cup Ended
      /\ m.verdict \in Verdicts
      /\ m.boundary \in Outcome \cup {None}
  BY DEF Result
<1>3. /\ Applied(r, m, consume).status = m.status
      /\ Applied(r, m, consume).verdict = m.verdict
      /\ Applied(r, m, consume).boundary =
           IF m.boundary = None THEN r.boundary ELSE m.boundary
      /\ Applied(r, m, consume).remaining =
           IF consume /\ r.remaining > 0 THEN r.remaining - 1 ELSE r.remaining
      /\ Applied(r, m, consume).execs =
           IF m.dispatch = "not_sent" THEN r.execs ELSE r.execs + 1
  BY DEF Applied, Run
<1>4. /\ Applied(r, m, consume).remaining \in Nat
      /\ Applied(r, m, consume).remaining <= MaxTurns
  BY <1>1, <1>3
<1>5. Applied(r, m, consume) \in Run
  <2> DEFINE bo == IF m.boundary = None THEN r.boundary ELSE m.boundary
             re == IF consume /\ r.remaining > 0 THEN r.remaining - 1 ELSE r.remaining
             ex == IF m.dispatch = "not_sent" THEN r.execs ELSE r.execs + 1
  <2>1. Applied(r, m, consume) =
          [r EXCEPT !.status = m.status, !.verdict = m.verdict, !.boundary = bo,
                    !.remaining = re, !.execs = ex]
    BY DEF Applied
  <2>2. /\ bo \in Outcome \cup {None}
        /\ re \in Nat
        /\ ex \in Nat
        /\ m.status \in {"none", "paused"} \cup Resumable \cup Ended
    BY <1>1, <1>2 DEF Run
  <2> HIDE DEF bo, re, ex
  <2> QED BY <1>2, <2>1, <2>2 DEF Run
<1> QED BY <1>3, <1>4, <1>5

\* Committing a result that fits its control owner keeps the invariant, also
\* when the step is lost (_commit_step, core_loop.py).
LEMMA CommitKeeps ==
    ASSUME LoopInv, NEW c, NEW s, Fits(c, s),
           NEW consume \in BOOLEAN, NEW advance \in BOOLEAN,
           run.boundary = None, step.at # "raised",
           s.dispatch = "not_sent" <=> step.dispatch = "not_sent",
           Commit(c, s, consume, advance), sent' = sent
    PROVE  LoopInv'
<1>1. /\ run \in Run
      /\ run.remaining <= MaxTurns
      /\ run.execs \in Nat
      /\ sent \in Nat
      /\ sent = run.execs + InFlight
  BY DEF LoopInv, LoopTypeOK, Balanced, Run
<1>2. /\ control' = c
      /\ Good(c)
      /\ c \in Control
      /\ s \in Result
      /\ Constructible(s)
      /\ c.paused = IF s.boundary # None /\ s.boundary.kind = "pause"
                    THEN s.boundary ELSE None
      /\ Told(c) => s.status = "cancelled"
  BY DEF Commit, Fits, Good
<1>3. CASE Constructible(Budgeted(s, consume))
  <2>1. PICK m \in Monitored(Budgeted(s, consume), advance) :
            run' = Applied(run, m, consume)
    BY <1>3 DEF Commit
  <2>2. step' = [at |-> "top", dispatch |-> "not_sent", consume |-> TRUE]
    BY <1>3 DEF Commit, GoTo
  <2>3. /\ m \in Result
        /\ m.boundary = s.boundary
        /\ m.dispatch = s.dispatch
        /\ Constructible(m)
        /\ s.status # "running" => m.status = s.status
    BY <1>2, <1>3, CommittedParts
  <2>4. /\ run' \in Run
        /\ run'.remaining <= MaxTurns
        /\ run'.status = m.status
        /\ run'.boundary = s.boundary
        /\ run'.execs = IF s.dispatch = "not_sent" THEN run.execs ELSE run.execs + 1
    BY <1>1, <2>1, <2>3, AppliedParts
  <2>5. LoopTypeOK'
    BY <1>1, <1>2, <2>2, <2>4 DEF LoopTypeOK, Step, Dispatches
  <2>6. PlaceAgrees'
    <3>1. m.status # "paused"
      BY <2>3 DEF Result, Resumable, Waiting, Ended
    <3>2. AtPause(run)' => m.status \in Resumable
      BY <2>3, <2>4 DEF AtPause, Constructible
    <3> QED BY <2>2, <2>4, <3>1, <3>2 DEF PlaceAgrees, Turn
  <2>7. Balanced'
    BY <1>1, <2>2, <2>4 DEF Balanced, InFlight
  <2>8. PauseAgrees'
    BY <1>2, <2>4 DEF PauseAgrees, AtPause
  <2>9. CancelledMeansCancelled'
    BY <1>2, <2>3, <2>4 DEF CancelledMeansCancelled, Told
  <2> QED BY <1>2, <2>5, <2>6, <2>7, <2>8, <2>9 DEF LoopInv
<1>4. CASE ~Constructible(Budgeted(s, consume))
  <2>1. /\ step' = [at |-> "raised", dispatch |-> "not_sent", consume |-> TRUE]
        /\ run' = run
    BY <1>4 DEF Commit, GoTo
  <2>2. ~Told(c)
    BY <1>2, <1>4 DEF Budgeted
  <2>3. LoopTypeOK'
    BY <1>1, <1>2, <2>1 DEF LoopTypeOK, Step, Dispatches, Outside
  <2>4. PlaceAgrees'
    BY <2>1 DEF LoopInv, PlaceAgrees, Turn, AtPause
  <2>5. Balanced'
    BY <2>1 DEF Balanced
  <2>6. PauseAgrees'
    BY <2>1 DEF PauseAgrees
  <2>7. CancelledMeansCancelled'
    BY <1>2, <2>2 DEF CancelledMeansCancelled, Told
  <2> QED BY <1>2, <2>3, <2>4, <2>5, <2>6, <2>7 DEF LoopInv
<1> QED BY <1>3, <1>4

-----------------------------------------------------------------------------
(* The results a step closes with.                                         *)

\* the dispatch written into a result
Dispatched(s, d) == [s EXCEPT !.dispatch = d]

\* Every result the loop builds is a StepResult without a control boundary.
LEMMA ResultsAre ==
    ASSUME run \in Run
    PROVE  /\ \A status \in Resumable \cup Ended :
                /\ SameWorld(status) \in Result
                /\ SameWorld(status).boundary = None
                /\ SameWorld(status).dispatch = "not_sent"
                /\ SameWorld(status).status = status
           /\ \A v \in Verdicts :
                /\ Evaluated(v) \in Result
                /\ Evaluated(v).boundary = None
                /\ Evaluated(v).dispatch = "not_sent"
                /\ Evaluated(v).status = v
           /\ \A s \in DispatchedResults : s \in Result /\ s.boundary = None
           /\ \A s \in Result, d \in Dispatches :
                /\ Dispatched(s, d) \in Result
                /\ Dispatched(s, d).boundary = s.boundary
                /\ Dispatched(s, d).dispatch = d
<1>1. ASSUME NEW status \in Resumable \cup Ended
      PROVE  /\ SameWorld(status) \in Result
             /\ SameWorld(status).boundary = None
             /\ SameWorld(status).dispatch = "not_sent"
             /\ SameWorld(status).status = status
  <2>1. run.verdict \in Verdicts
    BY DEF Run
  <2> QED BY <2>1 DEF SameWorld, Result, Dispatches
<1>2. Verdicts \subseteq Resumable \cup Ended
  BY DEF Verdicts, Resumable, Ended
<1>3. ASSUME NEW v \in Verdicts
      PROVE  /\ Evaluated(v) \in Result
             /\ Evaluated(v).boundary = None
             /\ Evaluated(v).dispatch = "not_sent"
             /\ Evaluated(v).status = v
  <2> DEFINE w == SameWorld(v)
  <2>1. /\ w \in Result
        /\ w.boundary = None
        /\ w.dispatch = "not_sent"
        /\ w.status = v
    BY <1>1, <1>2
  <2>2. Evaluated(v) = [w EXCEPT !.verdict = v]
    BY DEF Evaluated
  <2> HIDE DEF w
  <2> QED BY <2>1, <2>2 DEF Result
<1>4. ASSUME NEW s \in Result, NEW d \in Dispatches
      PROVE  /\ Dispatched(s, d) \in Result
             /\ Dispatched(s, d).boundary = s.boundary
             /\ Dispatched(s, d).dispatch = d
  BY DEF Dispatched, Result
<1>5. ASSUME NEW s \in Result
      PROVE  /\ [s EXCEPT !.clean = FALSE] \in Result
             /\ [s EXCEPT !.clean = FALSE].boundary = s.boundary
             /\ [s EXCEPT !.status = "blocked"] \in Result
             /\ [s EXCEPT !.status = "blocked"].boundary = s.boundary
  BY DEF Result, Ended
<1>6. ASSUME NEW s \in DispatchedResults
      PROVE  s \in Result /\ s.boundary = None
  <2>1. {"failed", "cancelled", "blocked"} \subseteq Resumable \cup Ended
    BY DEF Ended
  <2>2. \/ \E v \in Verdicts : s = Evaluated(v)
        \/ s = [SameWorld("failed") EXCEPT !.clean = FALSE]
        \/ s = SameWorld("cancelled")
        \/ s = [SameWorld("blocked") EXCEPT !.clean = FALSE]
        \/ s = SameWorld("blocked")
        \/ \E v \in Verdicts : s = [Evaluated(v) EXCEPT !.status = "blocked"]
    BY DEF DispatchedResults
  <2>3. /\ SameWorld("failed") \in Result /\ SameWorld("failed").boundary = None
        /\ SameWorld("blocked") \in Result /\ SameWorld("blocked").boundary = None
        /\ SameWorld("cancelled") \in Result /\ SameWorld("cancelled").boundary = None
    BY <1>1, <2>1
  <2>4. CASE \E v \in Verdicts : s = Evaluated(v)
    BY <1>3, <2>4
  <2>5. CASE s = [SameWorld("failed") EXCEPT !.clean = FALSE]
    BY <1>5, <2>3, <2>5
  <2>6. CASE s = [SameWorld("blocked") EXCEPT !.clean = FALSE]
    BY <1>5, <2>3, <2>6
  <2>7. CASE \E v \in Verdicts : s = [Evaluated(v) EXCEPT !.status = "blocked"]
    <3>1. PICK v \in Verdicts : s = [Evaluated(v) EXCEPT !.status = "blocked"]
      BY <2>7
    <3> DEFINE e == Evaluated(v)
    <3>2. e \in Result /\ e.boundary = None
      BY <1>3
    <3>3. s = [e EXCEPT !.status = "blocked"]
      BY <3>1
    <3> HIDE DEF e
    <3> QED BY <1>5, <3>2, <3>3
  <2> QED BY <2>2, <2>3, <2>4, <2>5, <2>6, <2>7
<1> QED BY <1>1, <1>3, <1>4, <1>6

\* A run that has not ended has no cancellation told; without a boundary the
\* control owner holds no pause.
LEMMA OpenRun ==
    ASSUME LoopInv
    PROVE  /\ Good(control)
           /\ run \in Run
           /\ run.status # "cancelled" => ~Told(control)
           /\ run.boundary = None /\ step.at # "raised" => control.paused = None
<1>1. /\ Good(control)
      /\ run \in Run
      /\ CancelledMeansCancelled
      /\ PauseAgrees
  BY DEF LoopInv, LoopTypeOK
<1>2. run.status # "cancelled" => ~Told(control)
  BY <1>1 DEF CancelledMeansCancelled, Told
<1>3. run.boundary = None /\ step.at # "raised" => control.paused = None
  BY <1>1 DEF PauseAgrees, AtPause
<1> QED BY <1>1, <1>2, <1>3

\* Closing a step whose dispatch is the one under way keeps the invariant.
LEMMA CloseKeeps ==
    ASSUME LoopInv, NEW s \in Result, s.boundary = None,
           run.boundary = None, run.status # "cancelled", step.at # "raised",
           s.dispatch = "not_sent" <=> step.dispatch = "not_sent",
           NEW consume \in BOOLEAN, CloseStep(s, consume)
    PROVE  LoopInv'
<1>1. PICK h \in BOOLEAN :
        Commit(Closed(control, s, h).control, Closed(control, s, h).result,
               consume, TRUE)
  BY DEF CloseStep
<1>2. sent' = sent
  BY DEF CloseStep
<1>3. /\ Good(control)
      /\ control.paused = None
      /\ ~Told(control)
  BY OpenRun
<1> DEFINE c == Closed(control, s, h).control
           t == Closed(control, s, h).result
<1>4. Fits(c, t) /\ t.dispatch = s.dispatch
  BY <1>3, ClosedFits
<1>5. Commit(c, t, consume, TRUE)
  BY <1>1
<1> HIDE DEF c, t
<1> QED BY <1>2, <1>4, <1>5, CommitKeeps

-----------------------------------------------------------------------------
(* The actions.                                                            *)

\* A step that leaves the run alone keeps the invariant, if what it does to
\* the control owner is quiet and the new place agrees with the run.
LEMMA StayKeeps ==
    ASSUME LoopInv, Good(control'), control'.paused = control.paused,
           Told(control') => Told(control), run' = run,
           step' \in Step, sent' \in Nat,
           step.at = "raised" => step'.at = "raised",
           PlaceAgrees', Balanced'
    PROVE  LoopInv'
<1>1. LoopTypeOK'
  BY DEF LoopInv, LoopTypeOK, Good
<1>2. PauseAgrees'
  BY DEF LoopInv, PauseAgrees, AtPause
<1>3. CancelledMeansCancelled'
  BY DEF LoopInv, CancelledMeansCancelled, Told
<1> QED BY <1>1, <1>2, <1>3 DEF LoopInv

\* A boundary acknowledged on an open run that is not inside an await.
LEMMA BoundaryKeeps ==
    ASSUME LoopInv, NEW c, Good(c), ~Told(c), c.pending # None,
           NEW b \in Boundaries, run.status \in Resumable,
           step.at \in {"top", "returned"},
           control' = Acknowledged(c, b),
           run' = BoundaryApplied(run, Preview(c, b)),
           step' = step, sent' = sent
    PROVE  LoopInv'
<1> DEFINE o == Preview(c, b)
<1>1. /\ Good(Acknowledged(c, b))
      /\ o \in Outcome
      /\ o # None
      /\ o.kind = c.pending.kind
      /\ c.pending.kind \in {"pause", "cancel"}
      /\ Acknowledged(c, b).paused = IF c.pending.kind = "pause" THEN o ELSE None
      /\ Told(Acknowledged(c, b)) => c.pending.kind = "cancel"
  <2>1. o \in Outcome /\ o.kind = c.pending.kind
    BY AcknowledgedParts
  <2> QED BY <2>1, AcknowledgedParts, NoneAssumption
<1>2. /\ run \in Run
      /\ run.remaining <= MaxTurns
      /\ step \in Step
      /\ sent \in Nat
      /\ PlaceAgrees
      /\ Balanced
  BY DEF LoopInv, LoopTypeOK
<1> HIDE DEF o
<1>3. /\ run' \in Run
      /\ run'.remaining = run.remaining
      /\ run'.execs = run.execs
      /\ run'.boundary = o
      /\ run'.status = IF o.kind = "cancel" THEN "cancelled" ELSE run.status
  <2>1. run' = BoundaryApplied(run, o)
    BY DEF o
  <2>2. CASE o.kind = "cancel"
    <3>1. run' = [run EXCEPT !.boundary = o, !.status = "cancelled",
                             !.checkpoint = 0, !.pausedFrom = None]
      BY <2>1, <2>2 DEF BoundaryApplied
    <3> DEFINE ended == "cancelled"
               zero  == 0
    <3>2. /\ ended \in {"none", "paused"} \cup Resumable \cup Ended
          /\ zero \in Nat
          /\ None \in Resumable \cup {None}
          /\ run' = [run EXCEPT !.boundary = o, !.status = ended,
                                !.checkpoint = zero, !.pausedFrom = None]
      BY <3>1 DEF Ended
    <3> HIDE DEF ended, zero
    <3>3. run' \in Run
      BY <1>1, <1>2, <3>2 DEF Run
    <3>4. /\ run'.remaining = run.remaining
          /\ run'.execs = run.execs
          /\ run'.boundary = o
          /\ run'.status = "cancelled"
      BY <1>2, <3>1 DEF Run
    <3> QED BY <2>2, <3>3, <3>4
  <2>3. CASE o.kind # "cancel"
    <3>1. run' = [run EXCEPT !.boundary = o]
      BY <2>1, <2>3 DEF BoundaryApplied
    <3> QED BY <1>1, <1>2, <2>3, <3>1 DEF Run
  <2> QED BY <2>2, <2>3
<1>4. control' = Acknowledged(c, b) /\ Acknowledged(c, b) \in Control
  BY <1>1 DEF Good
<1>5. LoopTypeOK'
  BY <1>2, <1>3, <1>4 DEF LoopTypeOK
<1>6. PlaceAgrees'
  <2>1. run.status # "paused"
    BY <1>2 DEF PlaceAgrees
  <2>2. AtPause(run)' => run'.status \in Resumable
    BY <1>1, <1>3 DEF AtPause
  <2>3. step'.at \notin Turn \cup {"idle", "start", "answer"}
    BY DEF Turn
  <2>4. run'.status # "paused"
    BY <1>3, <2>1
  <2> QED BY <2>2, <2>3, <2>4 DEF PlaceAgrees
<1>7. Balanced'
  BY <1>2, <1>3 DEF Balanced, InFlight
<1>8. PauseAgrees'
  BY <1>1, <1>3, <1>4 DEF PauseAgrees, AtPause
<1>9. CancelledMeansCancelled'
  BY <1>1, <1>3, <1>4 DEF CancelledMeansCancelled, Told
<1> QED BY <1>1, <1>4, <1>5, <1>6, <1>7, <1>8, <1>9 DEF LoopInv

\* The same for a step that does nothing to the control owner at all.
LEMMA MoveKeeps ==
    ASSUME LoopInv, control' = control, run' = run,
           step' \in Step, sent' \in Nat,
           step.at = "raised" => step'.at = "raised",
           PlaceAgrees', Balanced'
    PROVE  LoopInv'
<1>1. /\ Good(control')
      /\ control'.paused = control.paused
      /\ Told(control') => Told(control)
  BY DEF LoopInv
<1> QED BY <1>1, StayKeeps

\* GoTo leads to a place that has nothing in flight.
LEMMA Going ==
    ASSUME NEW place \in Awaits \cup Outside \cup {"top"}, GoTo(place)
    PROVE  /\ step' \in Step
           /\ step'.at = place
           /\ step'.dispatch = "not_sent"
<1>1. /\ step' = [at |-> place, dispatch |-> "not_sent", consume |-> TRUE]
      /\ "not_sent" \in Dispatches
  BY DEF GoTo, Dispatches
<1> QED BY <1>1 DEF Step

\* What the invariant says of the types and of the place.
LEMMA InvParts ==
    ASSUME LoopInv
    PROVE  /\ run \in Run
           /\ run.remaining \in Nat
           /\ run.remaining <= MaxTurns
           /\ run.execs \in Nat
           /\ step \in Step
           /\ step.dispatch \in Dispatches
           /\ step.consume \in BOOLEAN
           /\ sent \in Nat
           /\ PlaceAgrees
           /\ Balanced
<1>1. run \in Run /\ step \in Step
  BY DEF LoopInv, LoopTypeOK
<1> QED BY <1>1 DEF LoopInv, LoopTypeOK, Run, Step

\* StartReturns and StartRaises: the end of initialize.
LEMMA StartKeeps ==
    ASSUME LoopInv, StartReturns \/ StartRaises
    PROVE  LoopInv'
<1>1. /\ step.at = "start"
      /\ control' = control
      /\ sent' = sent
  BY DEF StartReturns, StartRaises
<1>2. run = NoRun /\ sent = 0
  <2>1. run = NoRun
    BY <1>1, InvParts DEF PlaceAgrees
  <2>2. run.execs = 0
    BY <2>1 DEF NoRun
  <2>3. sent = run.execs + InFlight /\ InFlight = 0
    BY <1>1, InvParts DEF Balanced, InFlight
  <2> QED BY <2>1, <2>2, <2>3
<1>3. CASE StartRaises
  <2>1. run' = run /\ GoTo("raised")
    BY <1>3 DEF StartRaises
  <2>2. step' \in Step /\ step'.at = "raised" /\ step'.dispatch = "not_sent"
    BY <2>1, Going DEF Outside
  <2>3. PlaceAgrees'
    BY <2>1, <2>2, InvParts DEF PlaceAgrees, Turn, AtPause
  <2>4. Balanced'
    BY <2>2 DEF Balanced
  <2> QED BY <1>1, <2>1, <2>2, <2>3, <2>4, InvParts, MoveKeeps
<1>4. CASE StartReturns
  <2>1. PICK verdict \in Verdicts, needsInput \in BOOLEAN :
          run' = InitialRun(verdict, needsInput)
    BY <1>4 DEF StartReturns
  <2>2. step' \in Step /\ step'.at = "top" /\ step'.dispatch = "not_sent"
    BY <1>4, Going DEF StartReturns
  <2>3. /\ run'.status = IF verdict = "running" /\ needsInput
                         THEN "waiting_user" ELSE verdict
        /\ run'.boundary = None
        /\ run'.remaining = MaxTurns
        /\ run'.execs = 0
        /\ run' \in Run
    <3> DEFINE first == IF verdict = "running" /\ needsInput
                        THEN "waiting_user" ELSE verdict
    <3>1. run' = [status |-> first, boundary |-> None, pausedFrom |-> None,
                  checkpoint |-> 0, remaining |-> MaxTurns, execs |-> 0,
                  verdict |-> verdict]
      BY <2>1 DEF InitialRun, NoRun
    <3>2. first \in Resumable \cup Ended /\ MaxTurns \in Nat
      BY LoopAssumption DEF Verdicts, Resumable, Waiting, Ended
    <3> HIDE DEF first
    <3>3. run' \in Run
      BY <3>1, <3>2 DEF Run
    <3> QED BY <3>1, <3>3 DEF first
  <2>4. /\ Good(control')
        /\ control' \in Control
        /\ control'.paused = None
        /\ ~Told(control')
    BY <1>1, <1>2, OpenRun DEF NoRun, Good
  <2>5. LoopTypeOK'
    BY <1>1, <2>2, <2>3, <2>4, InvParts, LoopAssumption DEF LoopTypeOK
  <2>6. PlaceAgrees'
    BY <2>2, <2>3 DEF PlaceAgrees, Turn, AtPause, Verdicts
  <2>7. Balanced'
    BY <1>1, <1>2, <2>2, <2>3 DEF Balanced, InFlight
  <2>8. PauseAgrees'
    BY <2>3, <2>4 DEF PauseAgrees, AtPause
  <2>9. CancelledMeansCancelled'
    BY <2>4 DEF CancelledMeansCancelled, Told
  <2> QED BY <2>4, <2>5, <2>6, <2>7, <2>8, <2>9 DEF LoopInv
<1> QED BY <1>3, <1>4

\* LoopLeaves, StopBeforePolicy, AskPolicy, ContextRefused: the head of the
\* loop.
LEMMA TopKeeps ==
    ASSUME LoopInv, LoopLeaves \/ StopBeforePolicy \/ AskPolicy \/ ContextRefused
    PROVE  LoopInv'
<1>1. step.at = "top"
  BY DEF LoopLeaves, StopBeforePolicy, AskPolicy, ContextRefused
<1>2. step.dispatch = "not_sent" /\ sent = run.execs + InFlight
  BY <1>1, InvParts DEF Balanced
<1>3. CASE LoopLeaves
  <2>1. /\ run' = run
        /\ sent' = sent
        /\ GoTo("returned")
        /\ control' = IF Terminal(run) THEN ResolvedTerminal(control) ELSE control
    BY <1>3 DEF LoopLeaves
  <2>2. step' \in Step /\ step'.at = "returned" /\ step'.dispatch = "not_sent"
    BY <2>1, Going DEF Outside
  <2>3. /\ Good(control')
        /\ control'.paused = control.paused
        /\ Told(control') => Told(control)
    BY <2>1, OpenRun, UnreachedParts
  <2>4. PlaceAgrees'
    BY <2>1, <2>2, InvParts DEF PlaceAgrees, Turn, AtPause
  <2>5. Balanced'
    BY <1>2, <2>1, <2>2 DEF Balanced, InFlight
  <2> QED BY <1>1, <2>1, <2>2, <2>3, <2>4, <2>5, InvParts, StayKeeps
<1>4. CASE StopBeforePolicy
  <2>1. PICK h \in BOOLEAN :
          IF Stoppable(h)
          THEN /\ control' = Acknowledged(control, "before_policy")
               /\ run' = BoundaryApplied(run, Preview(control, "before_policy"))
          ELSE /\ control' = FailedPending(control)
               /\ UNCHANGED run
    BY <1>4 DEF StopBeforePolicy
  <2>2. /\ step' = step
        /\ sent' = sent
        /\ control.pending # None
        /\ run.status = "running"
        /\ Good(control)
        /\ ~Told(control)
    BY <1>4, OpenRun DEF StopBeforePolicy, Runs
  <2>3. CASE Stoppable(h)
    BY <1>1, <2>1, <2>2, <2>3, BoundaryKeeps DEF Boundaries, Resumable
  <2>4. CASE ~Stoppable(h)
    <3>1. /\ Good(control')
          /\ control'.paused = control.paused
          /\ Told(control') => Told(control)
          /\ run' = run
      BY <2>1, <2>2, <2>4, UnreachedParts
    <3>2. PlaceAgrees'
      BY <2>2, <3>1, InvParts DEF PlaceAgrees, AtPause
    <3>3. Balanced'
      BY <2>2, <3>1, InvParts DEF Balanced, InFlight
    <3> QED BY <2>2, <3>1, <3>2, <3>3, InvParts, StayKeeps
  <2> QED BY <2>3, <2>4
<1>5. CASE AskPolicy
  <2>1. /\ control' = control
        /\ run' = run
        /\ sent' = sent
        /\ GoTo("policy")
        /\ run.status = "running"
        /\ run.boundary = None
    BY <1>5 DEF AskPolicy, Runs
  <2>2. step' \in Step /\ step'.at = "policy" /\ step'.dispatch = "not_sent"
    BY <2>1, Going DEF Awaits, Turn
  <2>3. PlaceAgrees'
    BY <2>1, <2>2 DEF PlaceAgrees, AtPause
  <2>4. Balanced'
    BY <1>2, <2>1, <2>2 DEF Balanced, InFlight
  <2> QED BY <1>1, <2>1, <2>2, <2>3, <2>4, InvParts, MoveKeeps
<1>6. CASE ContextRefused
  <2> DEFINE s == SameWorld("failed")
  <2>1. /\ run.status = "running"
        /\ run.boundary = None
        /\ CloseStep(s, TRUE)
    BY <1>6 DEF ContextRefused, Runs
  <2>2. s \in Result /\ s.boundary = None /\ s.dispatch = "not_sent"
    BY ResultsAre, InvParts DEF Ended
  <2> HIDE DEF s
  <2> QED BY <1>1, <1>2, <2>1, <2>2, CloseKeeps
<1> QED BY <1>3, <1>4, <1>5, <1>6

\* PolicyFails, StopAfterPolicy, DecideLocally, DecideToCall: the policy
\* answers.
LEMMA PolicyKeeps ==
    ASSUME LoopInv,
           PolicyFails \/ StopAfterPolicy \/ DecideLocally \/ DecideToCall
    PROVE  LoopInv'
<1>1. step.at = "policy"
  BY DEF PolicyFails, StopAfterPolicy, DecideLocally, DecideToCall
<1>2. /\ step.dispatch = "not_sent"
      /\ run.status = "running"
      /\ run.boundary = None
      /\ run \in Run
      /\ step.at # "raised"
  BY <1>1, InvParts DEF Balanced, PlaceAgrees, Turn
<1>3. /\ Good(control)
      /\ control.paused = None
      /\ ~Told(control)
  BY <1>1, <1>2, OpenRun
<1>4. ASSUME NEW status \in Resumable \cup Ended, CloseStep(SameWorld(status), TRUE)
      PROVE  LoopInv'
  <2> DEFINE s == SameWorld(status)
  <2>1. s \in Result /\ s.boundary = None /\ s.dispatch = "not_sent"
    BY <1>2, ResultsAre
  <2>2. CloseStep(s, TRUE)
    BY <1>4
  <2> HIDE DEF s
  <2> QED BY <1>2, <2>1, <2>2, CloseKeeps
<1>5. CASE PolicyFails
  <2>1. PICK status \in {"failed", "cancelled"} : CloseStep(SameWorld(status), TRUE)
    BY <1>5 DEF PolicyFails
  <2>2. status \in Resumable \cup Ended
    BY DEF Ended
  <2> QED BY <1>4, <2>1, <2>2
<1>6. CASE DecideLocally
  <2>1. PICK status \in Resumable \cup {"blocked", "cancelled", "failed"} :
          CloseStep(SameWorld(status), TRUE)
    BY <1>6 DEF DecideLocally
  <2>2. status \in Resumable \cup Ended
    BY DEF Ended
  <2> QED BY <1>4, <2>1, <2>2
<1>7. CASE StopAfterPolicy
  <2>1. sent' = sent /\ control.pending # None
    BY <1>7 DEF StopAfterPolicy
  <2>2. PICK h \in BOOLEAN :
        IF Stoppable(h)
        THEN Commit(Acknowledged(control, "after_policy"),
                    [SameWorld(IF control.pending.kind = "cancel"
                               THEN "cancelled" ELSE "running")
                        EXCEPT !.boundary = Preview(control, "after_policy")],
                    TRUE, TRUE)
        ELSE Commit(FailedPending(control), SameWorld("running"), TRUE, TRUE)
    BY <1>7 DEF StopAfterPolicy
  <2>3. CASE Stoppable(h)
    <3> DEFINE final == IF control.pending.kind = "cancel"
                        THEN "cancelled" ELSE "running"
               o == Preview(control, "after_policy")
               s == SameWorld(final)
               t == Bounded(s, final, o)
               c == Acknowledged(control, "after_policy")
    <3>2. /\ s \in Result
          /\ s.boundary = None
          /\ s.dispatch = "not_sent"
          /\ s.status = final
      <4> final \in Resumable \cup Ended
        BY DEF Resumable, Ended
      <4> HIDE DEF final
      <4> QED BY <1>2, ResultsAre
    <3>3. /\ control.pending.kind = "cancel" => final = "cancelled"
          /\ control.pending.kind = "pause" => final \in Resumable
          /\ "after_policy" \in Boundaries
      BY DEF Resumable, Boundaries
    <3>4. Commit(c, [s EXCEPT !.boundary = o], TRUE, TRUE)
      BY <2>2, <2>3
    <3> HIDE DEF s, final
    <3>5. Fits(c, t) /\ t.dispatch = s.dispatch
      BY <1>3, <2>1, <3>2, <3>3, BoundaryFits
    <3>6. [s EXCEPT !.boundary = o] = t
      <4> HIDE DEF o
      <4> QED BY <3>2 DEF Bounded, Result
    <3>7. Commit(c, t, TRUE, TRUE)
      BY <3>4, <3>6
    <3> HIDE DEF c, t
    <3> QED BY <1>2, <2>1, <3>2, <3>5, <3>7, CommitKeeps
  <2>4. CASE ~Stoppable(h)
    <3> DEFINE s == SameWorld("running")
               c == FailedPending(control)
    <3>1. s \in Result /\ s.boundary = None /\ s.dispatch = "not_sent"
      BY <1>2, ResultsAre DEF Resumable
    <3>2. Good(c) /\ c.paused = None /\ ~Told(c)
      BY <1>3, <2>1, UnreachedParts
    <3>3. Commit(c, s, TRUE, TRUE)
      BY <2>2, <2>4
    <3> HIDE DEF c, s
    <3>4. Fits(c, s)
      BY <3>1, <3>2, PlainFits
    <3> QED BY <1>2, <2>1, <3>1, <3>3, <3>4, CommitKeeps
  <2> QED BY <2>3, <2>4
<1>8. CASE DecideToCall
  <2>1. PICK place \in {"execute", "observe", "finalize"} : CallEnvironment(place)
    BY <1>8 DEF DecideToCall
  <2>2. /\ step' = [step EXCEPT !.at = place]
        /\ control' = control
        /\ run' = run
        /\ sent' = sent
    BY <2>1 DEF CallEnvironment
  <2>3. /\ step' \in Step
        /\ step'.at = place
        /\ step'.dispatch = "not_sent"
    BY <1>2, <2>2, InvParts DEF Step, Awaits, Turn
  <2>4. PlaceAgrees'
    BY <1>2, <2>2, <2>3 DEF PlaceAgrees, AtPause
  <2>5. Balanced'
    BY <1>1, <1>2, <2>2, <2>3, InvParts DEF Balanced, InFlight
  <2> QED BY <1>2, <2>2, <2>3, <2>4, <2>5, InvParts, MoveKeeps
<1> QED BY <1>5, <1>6, <1>7, <1>8

\* Cross, ExecuteSent: the effect leaves, and its report comes back.
LEMMA CrossingKeeps ==
    ASSUME LoopInv, Cross \/ ExecuteSent
    PROVE  LoopInv'
<1>1. /\ step.at = "execute"
      /\ control' = control
      /\ run' = run
  BY DEF Cross, ExecuteSent
<1>2. /\ run.status = "running"
      /\ run.boundary = None
      /\ sent = run.execs + InFlight
      /\ run.execs \in Nat
      /\ sent \in Nat
  BY <1>1, InvParts DEF Balanced, PlaceAgrees, Turn
<1>3. CASE Cross
  <2>1. /\ sent' = sent + 1
        /\ step' = [step EXCEPT !.dispatch = "sent"]
        /\ step.dispatch = "not_sent"
    BY <1>3 DEF Cross
  <2>2. step' \in Step /\ step'.at = "execute" /\ step'.dispatch = "sent"
    BY <1>1, <2>1, InvParts DEF Step, Dispatches
  <2>3. PlaceAgrees'
    BY <1>1, <1>2, <2>2 DEF PlaceAgrees, AtPause
  <2>4. Balanced'
    BY <1>1, <1>2, <2>1, <2>2 DEF Balanced, InFlight
  <2> QED BY <1>1, <1>2, <2>1, <2>2, <2>3, <2>4, MoveKeeps
<1>4. CASE ExecuteSent
  <2>1. sent' = sent /\ step.dispatch # "not_sent"
    BY <1>4 DEF ExecuteSent
  <2>2. PICK report \in Reports :
          step' = [step EXCEPT !.at = "after", !.dispatch = report]
    BY <1>4 DEF ExecuteSent
  <2>3. report \in {"sent", "sent_unknown"}
    BY <2>1 DEF Reports
  <2>4. step' \in Step /\ step'.at = "after" /\ step'.dispatch # "not_sent"
    <3>1. report \in Dispatches /\ "after" \in Awaits
      BY <2>3 DEF Dispatches, Awaits, Turn
    <3>2. step' \in Step /\ step'.at = "after" /\ step'.dispatch = report
      BY <2>2, <3>1, InvParts DEF Step
    <3> QED BY <2>3, <3>2
  <2>5. PlaceAgrees'
    BY <1>1, <1>2, <2>4 DEF PlaceAgrees, AtPause
  <2>6. Balanced'
    BY <1>1, <1>2, <2>1, <2>4 DEF Balanced, InFlight
  <2> QED BY <1>1, <1>2, <2>1, <2>4, <2>5, <2>6, MoveKeeps
<1> QED BY <1>3, <1>4

\* ExecuteNotSent, ExecuteCancelled, AfterDispatch: the dispatch is closed,
\* whatever became of it.
LEMMA DispatchKeeps ==
    ASSUME LoopInv, ExecuteNotSent \/ ExecuteCancelled \/ AfterDispatch
    PROVE  LoopInv'
<1>1. step.at \in {"execute", "after"}
  BY DEF ExecuteNotSent, ExecuteCancelled, AfterDispatch
<1>2. /\ run.status = "running"
      /\ run.boundary = None
      /\ run \in Run
      /\ step.at # "raised"
      /\ step.consume \in BOOLEAN
      /\ step.dispatch \in Dispatches
  BY <1>1, InvParts DEF PlaceAgrees, Turn
<1>3. CASE ExecuteNotSent
  <2>1. step.dispatch = "not_sent" /\ step.at = "execute"
    BY <1>3 DEF ExecuteNotSent
  <2>2. CASE \E status \in {"running", "blocked"} :
                CloseStep(SameWorld(status), step.consume)
    <3>1. PICK status \in {"running", "blocked"} :
            CloseStep(SameWorld(status), step.consume)
      BY <2>2
    <3> DEFINE s == SameWorld(status)
    <3>2. s \in Result /\ s.boundary = None /\ s.dispatch = "not_sent"
      <4>1. status \in Resumable \cup Ended
        BY DEF Resumable, Ended
      <4> QED BY <1>2, <4>1, ResultsAre
    <3>3. CloseStep(s, step.consume)
      BY <3>1
    <3> HIDE DEF s
    <3> QED BY <1>2, <2>1, <3>2, <3>3, CloseKeeps
  <2>3. CASE CallEnvironment("observe")
    <3>1. /\ step' = [step EXCEPT !.at = "observe"]
          /\ control' = control
          /\ run' = run
          /\ sent' = sent
      BY <2>3 DEF CallEnvironment
    <3>2. /\ step' \in Step
          /\ step'.at = "observe"
          /\ step'.dispatch = "not_sent"
      BY <2>1, <3>1, InvParts DEF Step, Awaits, Turn
    <3>3. PlaceAgrees'
      BY <1>2, <3>1, <3>2 DEF PlaceAgrees, AtPause
    <3>4. Balanced'
      BY <2>1, <3>1, <3>2, InvParts DEF Balanced, InFlight
    <3> QED BY <1>2, <3>1, <3>2, <3>3, <3>4, InvParts, MoveKeeps
  <2> QED BY <1>3, <2>2, <2>3 DEF ExecuteNotSent
<1>4. CASE ExecuteCancelled
  <2>1. PICK report \in Reports :
          CloseStep([SameWorld("cancelled") EXCEPT !.dispatch = report], step.consume)
    BY <1>4 DEF ExecuteCancelled
  <2>2. /\ report \in Dispatches
        /\ report = "not_sent" <=> step.dispatch = "not_sent"
    BY DEF Reports, Dispatches
  <2> DEFINE w == SameWorld("cancelled")
             s == Dispatched(w, report)
  <2>3. CloseStep(s, step.consume)
    BY <2>1 DEF Dispatched
  <2>4. w \in Result /\ w.boundary = None
    BY <1>2, ResultsAre DEF Ended
  <2> HIDE DEF w
  <2>5. s \in Result /\ s.boundary = None /\ s.dispatch = report
    BY <1>2, <2>2, <2>4, ResultsAre
  <2> HIDE DEF s
  <2> QED BY <1>2, <2>2, <2>3, <2>5, CloseKeeps
<1>5. CASE AfterDispatch
  <2>1. PICK r \in DispatchedResults :
          CloseStep([r EXCEPT !.dispatch = step.dispatch], step.consume)
    BY <1>5 DEF AfterDispatch
  <2> DEFINE s == Dispatched(r, step.dispatch)
  <2>2. CloseStep(s, step.consume)
    BY <2>1 DEF Dispatched
  <2>3. r \in Result /\ r.boundary = None
    BY <1>2, ResultsAre
  <2>4. s \in Result /\ s.boundary = None /\ s.dispatch = step.dispatch
    BY <1>2, <2>3, ResultsAre
  <2> HIDE DEF s
  <2> QED BY <1>2, <2>2, <2>4, CloseKeeps
<1> QED BY <1>3, <1>4, <1>5

\* ObserveReturns, ObserveRaises, FinalizeReturns: calls that dispatch
\* nothing.
LEMMA CallKeeps ==
    ASSUME LoopInv, ObserveReturns \/ ObserveRaises \/ FinalizeReturns
    PROVE  LoopInv'
<1>1. step.at \in {"observe", "finalize"}
  BY DEF ObserveReturns, ObserveRaises, FinalizeReturns
<1>2. /\ run.status = "running"
      /\ run.boundary = None
      /\ run \in Run
      /\ step.at # "raised"
      /\ step.dispatch = "not_sent"
      /\ step.consume \in BOOLEAN
  BY <1>1, InvParts DEF PlaceAgrees, Balanced, Turn
<1>3. ASSUME NEW s \in {Evaluated(v) : v \in Verdicts}
                          \cup {SameWorld(status) : status \in Resumable \cup Ended}
      PROVE  s \in Result /\ s.boundary = None /\ s.dispatch = "not_sent"
  BY <1>2, ResultsAre
<1>4. CASE ObserveReturns
  <2>1. PICK s \in {Evaluated(v) : v \in Verdicts}
                      \cup {SameWorld("running"), SameWorld("blocked")} :
          CloseStep(s, step.consume)
    BY <1>4 DEF ObserveReturns
  <2>2. {"running", "blocked"} \subseteq Resumable \cup Ended
    BY DEF Resumable, Ended
  <2>3. s \in Result /\ s.boundary = None /\ s.dispatch = "not_sent"
    BY <1>3, <2>2
  <2> QED BY <1>2, <2>1, <2>3, CloseKeeps
<1>5. CASE FinalizeReturns
  <2>1. PICK s \in {Evaluated("done"), Evaluated("blocked"),
                    SameWorld("failed"), SameWorld("cancelled")} :
          CloseStep(s, TRUE)
    BY <1>5 DEF FinalizeReturns
  <2>2. /\ {"failed", "cancelled"} \subseteq Resumable \cup Ended
        /\ {"done", "blocked"} \subseteq Verdicts
    BY DEF Ended, Verdicts
  <2>3. s \in Result /\ s.boundary = None /\ s.dispatch = "not_sent"
    BY <1>3, <2>2
  <2> QED BY <1>2, <2>1, <2>3, CloseKeeps
<1>6. CASE ObserveRaises
  <2>1. GoTo("raised") /\ control' = control /\ run' = run /\ sent' = sent
    BY <1>6 DEF ObserveRaises
  <2>2. step' \in Step /\ step'.at = "raised" /\ step'.dispatch = "not_sent"
    BY <2>1, Going DEF Outside
  <2>3. PlaceAgrees'
    BY <1>2, <2>1, <2>2 DEF PlaceAgrees, Turn, AtPause
  <2>4. Balanced'
    BY <2>2 DEF Balanced
  <2> QED BY <2>1, <2>2, <2>3, <2>4, InvParts, MoveKeeps
<1> QED BY <1>4, <1>5, <1>6

\* A step that takes no turn, leaves a waiting run and goes back to the loop.
LEMMA LeftWaitingKeeps ==
    ASSUME LoopInv, step.at # "raised", step.dispatch = "not_sent",
           run.status \in Waiting, run.boundary = None,
           NEW s \in Result, s.boundary = None, s.dispatch = "not_sent",
           s.status # "paused",
           run' = Applied(LeftWaiting(run), s, FALSE),
           control' = control, sent' = sent, GoTo("top")
    PROVE  LoopInv'
<1> DEFINE r == LeftWaiting(run)
<1>1. /\ Good(control)
      /\ control \in Control
      /\ control.paused = None
      /\ ~Told(control)
  BY OpenRun DEF Waiting, Good
<1>2. /\ r \in Run
      /\ r.remaining <= MaxTurns
      /\ r.boundary = None
      /\ r.execs = run.execs
  BY InvParts DEF LeftWaiting, Run, Resumable
<1>3. step' \in Step /\ step'.at = "top" /\ step'.dispatch = "not_sent"
  BY Going
<1>4. run' = Applied(r, s, FALSE)
  OBVIOUS
<1> HIDE DEF r
<1>5. /\ run' \in Run
      /\ run'.remaining <= MaxTurns
      /\ run'.status = s.status
      /\ run'.boundary = None
      /\ run'.execs = run.execs
  <2>1. /\ Applied(r, s, FALSE) \in Run
        /\ Applied(r, s, FALSE).remaining <= MaxTurns
        /\ Applied(r, s, FALSE).status = s.status
        /\ Applied(r, s, FALSE).boundary = r.boundary
        /\ Applied(r, s, FALSE).execs = r.execs
    <3> DEFINE no == FALSE
    <3>1. no \in BOOLEAN
      OBVIOUS
    <3> HIDE DEF no
    <3>2. /\ Applied(r, s, no) \in Run
          /\ Applied(r, s, no).remaining <= MaxTurns
          /\ Applied(r, s, no).status = s.status
          /\ Applied(r, s, no).boundary = r.boundary
          /\ Applied(r, s, no).execs = r.execs
      BY <1>2, <3>1, AppliedParts
    <3> QED BY <3>2 DEF no
  <2> QED BY <1>2, <1>4, <2>1
<1>6. LoopTypeOK'
  BY <1>1, <1>3, <1>5, InvParts DEF LoopTypeOK
<1>7. PlaceAgrees'
  BY <1>3, <1>5 DEF PlaceAgrees, Turn, AtPause
<1>8. Balanced'
  BY <1>3, <1>5, InvParts DEF Balanced, InFlight
<1>9. PauseAgrees'
  BY <1>1, <1>5 DEF PauseAgrees, AtPause
<1>10. CancelledMeansCancelled'
  BY <1>1 DEF CancelledMeansCancelled, Told
<1> QED BY <1>1, <1>6, <1>7, <1>8, <1>9, <1>10 DEF LoopInv

\* AnswerReturns, AnswerRaises: the end of resume_user.
LEMMA AnswerKeeps ==
    ASSUME LoopInv, AnswerReturns \/ AnswerRaises
    PROVE  LoopInv'
<1>1. /\ step.at = "answer"
      /\ control' = control
      /\ sent' = sent
  BY DEF AnswerReturns, AnswerRaises
<1>2. /\ run.status = "waiting_user"
      /\ run.boundary = None
      /\ run \in Run
      /\ step.dispatch = "not_sent"
  BY <1>1, InvParts DEF PlaceAgrees, Balanced
<1>3. CASE AnswerReturns
  <2>1. PICK s \in {Evaluated(v) : v \in Verdicts} \cup {SameWorld("waiting_user")} :
          run' = Applied(LeftWaiting(run), s, FALSE)
    BY <1>3 DEF AnswerReturns
  <2>2. "waiting_user" \in Resumable \cup Ended
    BY DEF Resumable, Waiting
  <2>3. s \in Result /\ s.boundary = None /\ s.dispatch = "not_sent"
    BY <1>2, <2>2, ResultsAre
  <2>4. s.status # "paused"
    BY <2>3 DEF Result, Resumable, Waiting, Ended
  <2>5. GoTo("top")
    BY <1>3 DEF AnswerReturns
  <2> QED BY <1>1, <1>2, <2>1, <2>3, <2>4, <2>5, LeftWaitingKeeps DEF Waiting
<1>4. CASE AnswerRaises
  <2>1. GoTo("raised") /\ run' = run
    BY <1>4 DEF AnswerRaises
  <2>2. step' \in Step /\ step'.at = "raised" /\ step'.dispatch = "not_sent"
    BY <2>1, Going DEF Outside
  <2>3. PlaceAgrees'
    BY <1>2, <2>1, <2>2 DEF PlaceAgrees, Turn, AtPause
  <2>4. Balanced'
    BY <2>2 DEF Balanced
  <2> QED BY <1>1, <2>1, <2>2, <2>3, <2>4, InvParts, MoveKeeps
<1> QED BY <1>3, <1>4

\* StartRun, Answer, Decline, Approve: the entrances of the loop.
LEMMA EntranceKeeps ==
    ASSUME LoopInv, StartRun \/ Answer \/ Decline \/ Approve
    PROVE  LoopInv'
<1>1. step.at \in {"idle", "returned"}
  BY DEF StartRun, Answer, Decline, Approve
<1>2. /\ step.dispatch = "not_sent"
      /\ sent = run.execs + InFlight
      /\ step.at # "raised"
      /\ run \in Run
  BY <1>1, InvParts DEF Balanced
<1>3. CASE StartRun
  <2>1. GoTo("start") /\ control' = control /\ run' = run /\ sent' = sent /\ step.at = "idle"
    BY <1>3 DEF StartRun
  <2>2. step' \in Step /\ step'.at = "start" /\ step'.dispatch = "not_sent"
    BY <2>1, Going DEF Awaits
  <2>3. PlaceAgrees'
    BY <2>1, <2>2, InvParts DEF PlaceAgrees, Turn, AtPause
  <2>4. Balanced'
    BY <1>2, <2>1, <2>2 DEF Balanced, InFlight
  <2> QED BY <1>2, <2>1, <2>2, <2>3, <2>4, InvParts, MoveKeeps
<1>4. CASE Answer
  <2>1. /\ GoTo("answer") /\ control' = control /\ run' = run /\ sent' = sent
        /\ run.status = "waiting_user"
        /\ run.boundary = None
    BY <1>4 DEF Answer
  <2>2. step' \in Step /\ step'.at = "answer" /\ step'.dispatch = "not_sent"
    BY <2>1, Going DEF Awaits
  <2>3. PlaceAgrees'
    BY <2>1, <2>2 DEF PlaceAgrees, Turn, AtPause
  <2>4. Balanced'
    BY <1>2, <2>1, <2>2 DEF Balanced, InFlight
  <2> QED BY <1>2, <2>1, <2>2, <2>3, <2>4, InvParts, MoveKeeps
<1>5. CASE Decline
  <2> DEFINE s == SameWorld("running")
  <2>1. /\ GoTo("top") /\ control' = control /\ sent' = sent
        /\ run.status \in Waiting
        /\ run.boundary = None
        /\ run' = Applied(LeftWaiting(run), s, FALSE)
    BY <1>5 DEF Decline, Waiting
  <2>2. s \in Result /\ s.boundary = None /\ s.dispatch = "not_sent" /\ s.status # "paused"
    BY <1>2, ResultsAre DEF Resumable
  <2> HIDE DEF s
  <2> QED BY <1>2, <2>1, <2>2, LeftWaitingKeeps
<1>6. CASE Approve
  <2>1. run.status = "waiting_confirmation" /\ run.boundary = None
    BY <1>6 DEF Approve
  <2>2. CASE \E status \in {"running", "blocked"} : CloseStep(SameWorld(status), FALSE)
    <3>1. PICK status \in {"running", "blocked"} : CloseStep(SameWorld(status), FALSE)
      BY <2>2
    <3> DEFINE s == SameWorld(status)
    <3>2. s \in Result /\ s.boundary = None /\ s.dispatch = "not_sent"
      <4>1. status \in Resumable \cup Ended
        BY DEF Resumable, Ended
      <4> QED BY <1>2, <4>1, ResultsAre
    <3>3. CloseStep(s, FALSE)
      BY <3>1
    <3> HIDE DEF s
    <3> QED BY <1>2, <2>1, <3>2, <3>3, CloseKeeps
  <2>3. CASE /\ run' = LeftWaiting(run)
             /\ \E place \in {"execute", "observe"} :
                 step' = [at |-> place, dispatch |-> "not_sent", consume |-> FALSE]
             /\ UNCHANGED <<control, sent>>
    <3>1. PICK place \in {"execute", "observe"} :
            step' = [at |-> place, dispatch |-> "not_sent", consume |-> FALSE]
      BY <2>3
    <3>2. /\ step' \in Step
          /\ step'.at = place
          /\ step'.dispatch = "not_sent"
      BY <3>1 DEF Step, Awaits, Turn, Dispatches
    <3>3. /\ run' \in Run
          /\ run'.status = "running"
          /\ run'.boundary = None
          /\ run'.remaining = run.remaining
          /\ run'.execs = run.execs
      BY <1>2, <2>1, <2>3 DEF LeftWaiting, Run, Resumable
    <3>4. /\ control' = control
          /\ sent' = sent
          /\ Good(control')
          /\ control' \in Control
          /\ control'.paused = None
          /\ ~Told(control')
      BY <1>2, <2>1, <2>3, OpenRun DEF Good
    <3>5. LoopTypeOK'
      BY <3>2, <3>3, <3>4, InvParts DEF LoopTypeOK
    <3>6. PlaceAgrees'
      BY <3>2, <3>3 DEF PlaceAgrees, AtPause
    <3>7. Balanced'
      BY <1>2, <3>2, <3>3, <3>4 DEF Balanced, InFlight
    <3>8. PauseAgrees'
      BY <3>3, <3>4 DEF PauseAgrees, AtPause
    <3>9. CancelledMeansCancelled'
      BY <3>4 DEF CancelledMeansCancelled, Told
    <3> QED BY <3>4, <3>5, <3>6, <3>7, <3>8, <3>9 DEF LoopInv
  <2> QED BY <1>6, <2>2, <2>3 DEF Approve
<1> QED BY <1>3, <1>4, <1>5, <1>6

\* RequestControl, CommandAtRest, ResumeAtRest: the control commands.
LEMMA CommandKeeps ==
    ASSUME LoopInv, RequestControl \/ CommandAtRest \/ ResumeAtRest
    PROVE  LoopInv'
<1>1. Good(control)
  BY OpenRun
<1>2. CASE RequestControl
  <2>1. PICK r \in Request : control' = Requested(control, r)
    BY <1>2 DEF RequestControl
  <2>2. run' = run /\ step' = step /\ sent' = sent
    BY <1>2 DEF RequestControl
  <2>3. /\ Good(control')
        /\ control'.paused = control.paused
        /\ Told(control') => Told(control)
    BY <1>1, <2>1, RequestedParts
  <2>4. PlaceAgrees'
    BY <2>2, InvParts DEF PlaceAgrees, AtPause
  <2>5. Balanced'
    BY <2>2, InvParts DEF Balanced, InFlight
  <2> QED BY <2>2, <2>3, <2>4, <2>5, InvParts, StayKeeps
<1>3. CASE CommandAtRest
  <2>1. /\ step' = step
        /\ sent' = sent
        /\ step.at = "returned"
        /\ ~Terminal(run)
    BY <1>3 DEF CommandAtRest
  <2>2. PICK r \in Request : ControlAtRest(r)
    BY <1>3 DEF CommandAtRest
  <2> DEFINE c == Requested(control, r)
  <2>3. /\ Good(c)
        /\ c.paused = control.paused
        /\ Told(c) => Told(control)
        /\ c.pending = r
        /\ r # None
    BY <1>1, <2>2, RequestedParts, NoneAssumption DEF ControlAtRest
  <2>4. PICK h \in BOOLEAN :
          IF r.kind = "pause" /\ ~h
          THEN /\ control' = FailedPending(c)
               /\ UNCHANGED run
          ELSE /\ control' = Acknowledged(c, RestBoundary)
               /\ run' = BoundaryApplied(run, Preview(c, RestBoundary))
    BY <2>2 DEF ControlAtRest
  <2>5. run.status \in Resumable
    <3>1. run.status \in Waiting \/ AtPause(run)
      BY <2>2 DEF ControlAtRest
    <3>2. AtPause(run) => run.status \in Resumable
      BY InvParts DEF PlaceAgrees
    <3> QED BY <3>1, <3>2 DEF Resumable
  <2>6. ~Told(control)
    BY <2>1, OpenRun DEF Terminal, Ended
  <2>7. RestBoundary \in Boundaries
    BY DEF RestBoundary, Boundaries, Waiting
  <2> HIDE DEF c
  <2>8. CASE r.kind = "pause" /\ ~h
    <3>1. /\ Good(control')
          /\ control'.paused = control.paused
          /\ Told(control') => Told(control)
          /\ run' = run
      BY <2>3, <2>4, <2>8, UnreachedParts
    <3>2. PlaceAgrees'
      BY <2>1, <3>1, InvParts DEF PlaceAgrees, AtPause
    <3>3. Balanced'
      BY <2>1, <3>1, InvParts DEF Balanced, InFlight
    <3> QED BY <2>1, <3>1, <3>2, <3>3, InvParts, StayKeeps
  <2>9. CASE ~(r.kind = "pause" /\ ~h)
    <3>1. /\ control' = Acknowledged(c, RestBoundary)
          /\ run' = BoundaryApplied(run, Preview(c, RestBoundary))
      BY <2>4, <2>9
    <3> QED BY <2>1, <2>3, <2>5, <2>6, <2>7, <3>1, BoundaryKeeps
  <2> QED BY <2>8, <2>9
<1>4. CASE ResumeAtRest
  <2>1. /\ sent' = sent
        /\ run' = BoundaryResumed(run)
        /\ AtPause(run)
        /\ step.at = "returned"
        /\ control.paused # None
    BY <1>4 DEF ResumeAtRest
  <2>2. /\ step.dispatch = "not_sent"
        /\ sent = run.execs + InFlight
        /\ run.status \in Resumable
        /\ run.status # "paused"
        /\ run \in Run
    BY <2>1, InvParts DEF Balanced, PlaceAgrees
  <2>3. ~Told(control)
    BY <2>2, OpenRun DEF Resumable, Waiting
  <2>4. PICK i \in CommandIds : ~Known(control, i) /\ control' = Resumed(control, i)
    BY <1>4 DEF ResumeAtRest
  <2>5. /\ Good(control')
        /\ control' \in Control
        /\ control'.paused = None
        /\ ~Told(control')
    BY <1>1, <2>1, <2>3, <2>4, ResumedParts DEF Good
  <2>6. /\ run' \in Run
        /\ run'.status = run.status
        /\ run'.boundary = None
        /\ run'.remaining = run.remaining
        /\ run'.execs = run.execs
    <3>1. run' = [run EXCEPT !.boundary = None]
      BY <2>1, <2>2 DEF BoundaryResumed
    <3> QED BY <2>2, <3>1 DEF Run
  <2>7. step' \in Step /\ step'.at \in {"top", "returned"} /\ step'.dispatch = "not_sent"
    <3>1. GoTo("top") \/ GoTo("returned")
      BY <1>4 DEF ResumeAtRest
    <3> QED BY <3>1, Going DEF Outside
  <2>8. LoopTypeOK'
    BY <2>1, <2>5, <2>6, <2>7, InvParts DEF LoopTypeOK
  <2>9. PlaceAgrees'
    BY <2>2, <2>6, <2>7 DEF PlaceAgrees, Turn, AtPause
  <2>10. Balanced'
    BY <2>1, <2>2, <2>6, <2>7 DEF Balanced, InFlight
  <2>11. PauseAgrees'
    BY <2>5, <2>6 DEF PauseAgrees, AtPause
  <2>12. CancelledMeansCancelled'
    BY <2>5 DEF CancelledMeansCancelled, Told
  <2> QED BY <2>5, <2>8, <2>9, <2>10, <2>11, <2>12 DEF LoopInv
<1> QED BY <1>2, <1>3, <1>4

-----------------------------------------------------------------------------
(* The theorems.                                                           *)

\* The invariant of the loop holds of every reachable state.
THEOREM LoopIsSafe == LoopSpec => []LoopInv
<1>1. LoopInit => LoopInv
  <2> SUFFICES ASSUME LoopInit PROVE LoopInv
    OBVIOUS
  <2>1. /\ control = Fresh
        /\ run = NoRun
        /\ step = [at |-> "idle", dispatch |-> "not_sent", consume |-> TRUE]
        /\ sent = 0
    BY DEF LoopInit
  <2>2. /\ Good(control)
        /\ control \in Control
        /\ control.paused = None
        /\ \A i \in CommandIds : control.outcomes[i] = None
    BY <2>1, FreshIsGood DEF Good, Fresh
  <2>3. /\ run \in Run
        /\ run.status = "none"
        /\ run.boundary = None
        /\ run.remaining = 0
        /\ run.execs = 0
    BY <2>1 DEF NoRun, Run, Verdicts
  <2>4. LoopTypeOK
    BY <2>1, <2>2, <2>3, LoopAssumption DEF LoopTypeOK, Step, Dispatches, Outside
  <2>5. PlaceAgrees
    BY <2>1, <2>3 DEF PlaceAgrees, Turn, AtPause
  <2>6. Balanced
    BY <2>1, <2>3 DEF Balanced, InFlight
  <2>7. PauseAgrees
    BY <2>2, <2>3 DEF PauseAgrees, AtPause
  <2>8. CancelledMeansCancelled
    BY <2>2 DEF CancelledMeansCancelled
  <2> QED BY <2>2, <2>4, <2>5, <2>6, <2>7, <2>8 DEF LoopInv
<1>2. LoopInv /\ [LoopNext]_loopVars => LoopInv'
  <2> SUFFICES ASSUME LoopInv, [LoopNext]_loopVars PROVE LoopInv'
    OBVIOUS
  <2>1. CASE LoopStep
    BY <2>1, StartKeeps, TopKeeps, PolicyKeeps, CrossingKeeps, DispatchKeeps,
       CallKeeps, AnswerKeeps DEF LoopStep
  <2>2. CASE CallerStep
    BY <2>2, EntranceKeeps, CommandKeeps DEF CallerStep
  <2>3. CASE UNCHANGED loopVars
    <3>1. control' = control /\ run' = run /\ step' = step /\ sent' = sent
      BY <2>3 DEF loopVars
    <3>2. PlaceAgrees'
      BY <3>1, InvParts DEF PlaceAgrees, AtPause
    <3>3. Balanced'
      BY <3>1, InvParts DEF Balanced, InFlight
    <3> QED BY <3>1, <3>2, <3>3, InvParts, MoveKeeps
  <2> QED BY <2>1, <2>2, <2>3 DEF LoopNext
<1> QED BY <1>1, <1>2, PTL DEF LoopSpec

\* Every field keeps its type and the turn budget stays within its bounds.
THEOREM LoopTypeSafe == LoopSpec => []LoopTypeOK
<1>1. LoopInv => LoopTypeOK
  BY DEF LoopInv
<1> QED BY <1>1, LoopIsSafe, PTL

\* A closed step leaves one execution attempt for every dispatch
\* (_commit_step, core_loop.py, and apply, run_state.py).
THEOREM TruthIsClosed == LoopSpec => []TruthClosed
<1>1. LoopInv => TruthClosed
  <2> SUFFICES ASSUME LoopInv, step.at \in {"idle", "top", "returned"}
               PROVE  run.execs = sent
    BY DEF TruthClosed
  <2>1. /\ step.dispatch = "not_sent"
        /\ sent = run.execs + InFlight
        /\ run.execs \in Nat
    BY InvParts DEF Balanced
  <2> QED BY <2>1 DEF InFlight
<1> QED BY <1>1, LoopIsSafe, PTL

\* The control owner and the run hold the same pause, at every await and
\* between the calls (run_control.py against run_state.py).
THEOREM PauseStaysAgreed == LoopSpec => []PauseAgrees
<1>1. LoopInv => PauseAgrees
  BY DEF LoopInv
<1> QED BY <1>1, LoopIsSafe, PTL

\* Who is told that a run is cancelled is told of a run that is and stays so.
THEOREM CancelIsFinal == LoopSpec => []CancelledMeansCancelled
<1>1. LoopInv => CancelledMeansCancelled
  BY DEF LoopInv
<1> QED BY <1>1, LoopIsSafe, PTL

\* No effect leaves the Runtime under an acknowledged pause or cancel.
THEOREM NoDispatchAfterControl == LoopSpec => NoDispatchUnderControl
<1> DEFINE Allowed == sent' # sent =>
        /\ control.paused = None
        /\ run.boundary = None
        /\ \A i \in CommandIds :
            control.outcomes[i] # None => control.outcomes[i].answer # "cancelled"
<1>1. LoopInv /\ [LoopNext]_loopVars => [Allowed]_loopVars
  <2> SUFFICES ASSUME LoopInv, LoopNext, sent' # sent PROVE Allowed
    BY DEF loopVars
  <2>1. Cross
    <3>1. LoopStep => Cross
      BY DEF LoopStep, StartReturns, StartRaises, LoopLeaves, StopBeforePolicy,
         AskPolicy, ContextRefused, PolicyFails, StopAfterPolicy, DecideLocally,
         DecideToCall, CallEnvironment, ExecuteNotSent, ExecuteCancelled,
         ExecuteSent, AfterDispatch, ObserveReturns, ObserveRaises,
         FinalizeReturns, AnswerReturns, AnswerRaises, CloseStep
    <3>2. ~CallerStep
      <4>1. Approve => sent' = sent
        BY DEF Approve, CloseStep
      <4> QED BY <4>1 DEF CallerStep, StartRun, Answer, Decline, RequestControl,
         CommandAtRest, ResumeAtRest
    <3> QED BY <3>1, <3>2 DEF LoopNext
  <2>2. run.status = "running" /\ run.boundary = None /\ step.at # "raised"
    BY <2>1, InvParts DEF Cross, PlaceAgrees, Turn
  <2>3. control.paused = None /\ ~Told(control)
    BY <2>2, OpenRun
  <2> QED BY <2>2, <2>3 DEF Told
<1> QED BY <1>1, LoopIsSafe, PTL DEF LoopSpec, NoDispatchUnderControl

\* A run that has ended stays as it ended, whatever is called on it.
THEOREM EndedStaysEnded == LoopSpec => EndedStays
<1>1. LoopInv /\ [LoopNext]_loopVars => [Terminal(run) => run' = run]_loopVars
  <2> SUFFICES ASSUME LoopInv, LoopNext, Terminal(run) PROVE run' = run
    BY DEF loopVars
  <2>1. run.status \in Ended /\ run # NoRun
    BY DEF Terminal, Ended, NoRun
  <2>2. /\ run.status \notin Resumable
        /\ run.status \notin Waiting
        /\ run.status # "running"
    BY <2>1 DEF Resumable, Waiting, Ended
  <2>3. /\ step.at \notin Turn
        /\ step.at \notin {"idle", "start", "answer"}
        /\ ~AtPause(run)
    BY <2>1, <2>2, InvParts DEF PlaceAgrees, Resumable, Waiting
  <2>4. LoopStep => LoopLeaves
    BY <2>2, <2>3 DEF LoopStep, StartReturns, StartRaises, StopBeforePolicy,
       AskPolicy, ContextRefused, PolicyFails, StopAfterPolicy, DecideLocally,
       DecideToCall, Cross, ExecuteNotSent, ExecuteCancelled, ExecuteSent,
       AfterDispatch, ObserveReturns, ObserveRaises, FinalizeReturns,
       AnswerReturns, AnswerRaises, Runs, Turn
  <2>5. CallerStep => RequestControl
    BY <2>2, <2>3 DEF CallerStep, StartRun, Answer, Decline, Approve,
       CommandAtRest, ResumeAtRest, Waiting
  <2>6. LoopLeaves \/ RequestControl
    BY <2>4, <2>5 DEF LoopNext
  <2> QED BY <2>6 DEF LoopLeaves, RequestControl
<1> QED BY <1>1, LoopIsSafe, PTL DEF LoopSpec, EndedStays
=============================================================================
