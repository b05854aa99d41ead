-------------------------- MODULE ComponentProofs --------------------------
(***************************************************************************)
(* Proofs about three components that stand by themselves: the assistant   *)
(* port of the interaction shell (AssistantTurns), the episode monitor     *)
(* (EpisodeMonitor) and the model policy bridge (PolicyBridge), for every  *)
(* value of their constants.                                               *)
(***************************************************************************)
EXTENDS AssistantTurns, EpisodeMonitor, PolicyBridge, FiniteSetTheorems,
        SequenceTheorems, TLAPS

-----------------------------------------------------------------------------
(* The assistant port: one turn works at a time.                           *)

TurnPlaces == {"none", "model", "open", "snapshot", "start", "sleep", "wait",
               "ended"}

\* The rest of a turn is of no account here.
TurnTypeOK ==
    /\ turns = [i \in TurnIds |-> turns[i]]
    /\ \A i \in TurnIds :
        turns[i] \in [at : TurnPlaces, used : {turns[i].used},
                      result : {turns[i].result}]
    /\ cmd = [at |-> cmd.at, kind |-> cmd.kind, expect |-> cmd.expect]

NobodyWorks == \A i \in TurnIds : ~Alive(i)

\* No second turn works; a command that is about to start one has seen to it
\* that none works; and the assistant's own question is shown by a turn that
\* is over.
TurnInv ==
    /\ TurnTypeOK
    /\ \A i, j \in TurnIds : Alive(i) /\ Alive(j) => i = j
    /\ cmd.at = "begin" => NobodyWorks
    /\ shown = Says("waiting") => NobodyWorks

\* What the inner session publishes is never taken for the assistant's own.
LEMMA NewsIsNotAsked ==
    FreshShown = Says("waiting") => shown = Says("waiting")
PROOF BY DEF FreshShown, Says

\* A turn that is not working yet or no more has nothing to do.
LEMMA OnlyTheLivingStep ==
    ASSUME NEW i \in TurnIds,
           \/ TurnAnswers(i) \/ TurnFails(i) \/ TurnDelegates(i) \/ TurnOpens(i)
           \/ TurnSnapshots(i) \/ TurnStartsGui(i) \/ TurnLooks(i)
    PROVE  Alive(i)
PROOF
  BY DEF TurnAnswers, TurnFails, TurnDelegates, TurnOpens, TurnSnapshots,
         TurnStartsGui, TurnLooks, Alive
\* A turn that works works alone: its step keeps the invariant when it
\* touches no other turn and shows the assistant's question only in ending.
LEMMA LonelyStepKeeps ==
    ASSUME TurnInv, NEW i \in TurnIds, Alive(i), UNCHANGED cmd,
           NEW t, turns' = [turns EXCEPT ![i] = t],
           t \in [at : TurnPlaces, used : {t.used}, result : {t.result}],
           shown' = Says("waiting") => shown = Says("waiting") \/ t.at = "ended"
    PROVE  TurnInv'
PROOF
<1>1. /\ turns = [j \in TurnIds |-> turns[j]]
      /\ \A j \in TurnIds : j # i => ~Alive(j)
      /\ shown # Says("waiting") /\ cmd.at # "begin"
  BY DEF TurnInv, TurnTypeOK, NobodyWorks
<1>2. /\ turns' = [j \in TurnIds |-> turns'[j]]
      /\ turns'[i] = t
      /\ \A j \in TurnIds : j # i => turns'[j] = turns[j]
  BY <1>1
<1>3. \A j \in TurnIds : j # i => ~Alive(j)'
  BY <1>1, <1>2 DEF Alive
<1>4. TurnTypeOK'
  BY <1>2 DEF TurnInv, TurnTypeOK
<1>5. (shown = Says("waiting") => NobodyWorks)'
  <2>1. (shown = Says("waiting"))' => t.at = "ended"
    BY <1>1 DEF Says
  <2>2. t.at = "ended" => ~Alive(i)'
    BY <1>2 DEF Alive
  <2> QED  BY <2>1, <2>2, <1>3 DEF NobodyWorks
<1> QED  BY <1>1, <1>3, <1>4, <1>5 DEF TurnInv

\* The steps that a turn takes by itself, its model, its inner session and its sleep,
\* keep the invariant (_run_turn, assistant_port.py).
LEMMA TurnKeepsInv ==
    ASSUME TurnInv, NEW i \in TurnIds,
           \/ TurnAnswers(i) \/ TurnFails(i) \/ TurnDelegates(i) \/ TurnOpens(i)
           \/ TurnSnapshots(i) \/ TurnStartsGui(i) \/ TurnLooks(i)
    PROVE  TurnInv'
PROOF
<1>0. /\ Alive(i) /\ UNCHANGED cmd
  BY OnlyTheLivingStep DEF TurnAnswers, TurnFails, TurnDelegates, TurnOpens,
     TurnSnapshots, TurnStartsGui, TurnLooks, OnlyTurn
<1>1. turns[i] \in [at : TurnPlaces, used : {turns[i].used},
                    result : {turns[i].result}]
  BY DEF TurnInv, TurnTypeOK
<1>2. CASE TurnAnswers(i) \/ TurnFails(i)
  <2> DEFINE t == [turns[i] EXCEPT !.at = "ended"]
  <2>1. turns' = [turns EXCEPT ![i] = t]
    BY <1>2 DEF TurnAnswers, TurnFails, Goes
  <2>2. /\ t \in [at : TurnPlaces, used : {t.used}, result : {t.result}]
        /\ t.at = "ended"
    BY <1>1 DEF TurnPlaces
  <2> QED  BY <1>0, <2>1, <2>2, LonelyStepKeeps
<1>3. CASE TurnDelegates(i)
  <2> DEFINE t == [at |-> "open", used |-> TRUE, result |-> "none"]
  <2>1. turns' = [turns EXCEPT ![i] = t] /\ shown' = shown
    BY <1>3 DEF TurnDelegates
  <2>2. t \in [at : TurnPlaces, used : {t.used}, result : {t.result}]
    BY DEF TurnPlaces
  <2> QED  BY <1>0, <2>1, <2>2, LonelyStepKeeps
<1>4. CASE TurnOpens(i) \/ TurnSnapshots(i) \/ TurnStartsGui(i)
  <2>1. PICK t : /\ turns' = [turns EXCEPT ![i] = t]
                 /\ \/ \E place \in {"snapshot", "start", "sleep"} :
                         t = [turns[i] EXCEPT !.at = place]
                    \/ t = [turns[i] EXCEPT !.at = "model", !.result = "failed"]
    <3>1. CASE TurnOpens(i)
      BY <3>1 DEF TurnOpens, Goes
    <3>2. CASE TurnSnapshots(i)
      BY <3>2 DEF TurnSnapshots, Goes
    <3>3. CASE TurnStartsGui(i)
      <4>1. \/ turns' = [turns EXCEPT ![i].at = "sleep"]
            \/ turns' = [turns EXCEPT ![i].at = "model", ![i].result = "failed"]
        BY <3>3 DEF TurnStartsGui, Goes
      <4>2. CASE turns' = [turns EXCEPT ![i].at = "sleep"]
        BY ONLY <4>2
      <4>3. CASE turns' = [turns EXCEPT ![i].at = "model", ![i].result = "failed"]
        <5>1. PICK t : t = [turns[i] EXCEPT !.at = "model", !.result = "failed"]
          OBVIOUS
        <5>2. turns' = [turns EXCEPT ![i] = t]
          BY ONLY <4>3, <5>1
        <5> QED  BY ONLY <5>1, <5>2
      <4> QED  BY ONLY <4>1, <4>2, <4>3
    <3> QED  BY <1>4, <3>1, <3>2, <3>3
  <2>2. t \in [at : TurnPlaces, used : {t.used}, result : {t.result}]
    BY <1>1, <2>1 DEF TurnPlaces
  <2>3. shown' = shown
    BY <1>4 DEF TurnOpens, TurnSnapshots, TurnStartsGui
  <2> QED  BY <1>0, <2>1, <2>2, <2>3, LonelyStepKeeps
<1>5. CASE TurnLooks(i)
  <2> DEFINE t == Follows(turns[i], FreshInner.seen)
  <2>1. turns' = [turns EXCEPT ![i] = t] /\ shown' = FreshShown
    BY <1>5 DEF TurnLooks
  <2>2. \/ t = [turns[i] EXCEPT !.at = "model", !.result = "failed"]
        \/ \E s : t = [turns[i] EXCEPT !.at = "model", !.result = s]
        \/ t = [turns[i] EXCEPT !.at = "wait"]
        \/ t = [turns[i] EXCEPT !.at = "sleep"]
    BY DEF Follows, GuiTerminal
  <2>3. t \in [at : TurnPlaces, used : {t.used}, result : {t.result}]
    BY <1>1, <2>2 DEF TurnPlaces
  <2> QED  BY <1>0, <2>1, <2>3, NewsIsNotAsked, LonelyStepKeeps
<1> QED
  BY <1>2, <1>3, <1>4, <1>5

\* A step that touches no turn keeps the invariant, if it brings neither a
\* start nor the assistant's question into view while a turn works.
LEMMA QuietStepKeeps ==
    ASSUME TurnInv, UNCHANGED turns,
           cmd' = [at |-> cmd'.at, kind |-> cmd'.kind, expect |-> cmd'.expect],
           cmd'.at = "begin" => cmd.at = "begin" \/ NobodyWorks,
           shown' = Says("waiting") => shown = Says("waiting")
    PROVE  TurnInv'
PROOF
<1>1. \A i \in TurnIds : Alive(i)' <=> Alive(i)
  BY DEF Alive
<1>2. NobodyWorks' <=> NobodyWorks
  BY <1>1 DEF NobodyWorks
<1>3. TurnTypeOK'
  BY DEF TurnInv, TurnTypeOK
<1>4. (shown = Says("waiting"))' => NobodyWorks
  BY DEF TurnInv, Says
<1> QED  BY <1>1, <1>2, <1>3, <1>4 DEF TurnInv

\* Cancelling leaves nobody at work.
LEMMA CancelKeeps ==
    ASSUME TurnInv, CancelsTurns,
           cmd' = [at |-> cmd'.at, kind |-> cmd'.kind, expect |-> cmd'.expect]
    PROVE  TurnInv'
PROOF
<1>1. /\ turns' = [i \in TurnIds |-> turns'[i]]
      /\ \A i \in TurnIds : turns'[i] = IF Alive(i)
                                        THEN [turns[i] EXCEPT !.at = "ended"]
                                        ELSE turns[i]
  BY DEF CancelsTurns
<1>2. ASSUME NEW i \in TurnIds
      PROVE  /\ ~Alive(i)'
             /\ turns'[i] \in [at : TurnPlaces, used : {turns'[i].used},
                               result : {turns'[i].result}]
  <2>1. turns[i] \in [at : TurnPlaces, used : {turns[i].used},
                      result : {turns[i].result}]
    BY DEF TurnInv, TurnTypeOK
  <2> QED  BY <1>1, <2>1 DEF Alive, TurnPlaces
<1> QED  BY <1>1, <1>2 DEF TurnInv, TurnTypeOK, NobodyWorks

\* A message of the user replaces the turn at work, and never leaves two of them.
LEMMA MessageKeepsInv == TurnInv /\ MessageStep => TurnInv'
PROOF
<1> SUFFICES ASSUME TurnInv, MessageStep PROVE TurnInv'
  OBVIOUS
<1>0. cmd = [at |-> cmd.at, kind |-> cmd.kind, expect |-> cmd.expect]
  BY DEF TurnInv, TurnTypeOK
<1>1. CASE DecideConflict
  BY <1>1, QuietStepKeeps, NewsIsNotAsked DEF DecideConflict, Refreshes, NoMessage
<1>2. CASE DecideClose \/ CancelStops \/ DecideRevise
  <2>1. CancelsTurns
    BY <1>2 DEF DecideClose, CancelStops, DecideRevise
  <2>2. cmd' = [at |-> cmd'.at, kind |-> cmd'.kind, expect |-> cmd'.expect]
    BY <1>0, <1>2 DEF DecideClose, CancelStops, DecideRevise, MessageGoes, NoMessage
  <2> QED  BY <2>1, <2>2, CancelKeeps
<1>3. CASE DecideCancel
  <2>1. \E place \in {"tell", "stop"} : cmd' = [cmd EXCEPT !.at = place]
    BY <1>3 DEF DecideCancel, MessageGoes
  <2>2. turns' = turns /\ shown' = FreshShown
    BY <1>3 DEF DecideCancel, Deciding
  <2> QED  BY <1>0, <2>1, <2>2, QuietStepKeeps, NewsIsNotAsked
<1>4. CASE CancelTold
  <2>1. cmd' = [cmd EXCEPT !.at = "stop"] /\ turns' = turns /\ shown' = shown
    BY <1>4 DEF CancelTold, MessageGoes
  <2> QED  BY <1>0, <2>1, QuietStepKeeps
<1>5. CASE CancelPublished
  <2>1. shown' # Says("waiting") /\ cmd' = NoMessage /\ turns' = turns
    BY <1>5 DEF CancelPublished, Says
  <2> QED  BY <2>1, QuietStepKeeps DEF NoMessage
<1>6. CASE DecideStart
  <2>1. turns' = turns /\ shown' = FreshShown
    BY <1>6 DEF DecideStart, Deciding
  <2>2. CASE ActiveTurns # {}
    <3>1. cmd' = NoMessage
      BY <1>6, <2>2 DEF DecideStart
    <3> QED  BY <2>1, <3>1, QuietStepKeeps, NewsIsNotAsked DEF NoMessage
  <2>3. CASE ActiveTurns = {}
    <3>1. cmd' = [cmd EXCEPT !.at = "begin"]
      BY <1>6, <2>3 DEF DecideStart, MessageGoes
    <3>2. NobodyWorks
      BY <2>3 DEF ActiveTurns, NobodyWorks
    <3> QED  BY <1>0, <2>1, <3>1, <3>2, QuietStepKeeps, NewsIsNotAsked
  <2> QED  BY <2>2, <2>3
<1>7. CASE TurnBegins
  <2>1. NobodyWorks
    BY <1>7 DEF TurnBegins, TurnInv
  <2>2. PICK i \in TurnIds : turns' = [turns EXCEPT ![i].at = "model"]
    BY <1>7 DEF TurnBegins, Goes
  <2>3. /\ turns' = [j \in TurnIds |-> turns'[j]]
        /\ turns'[i] = [turns[i] EXCEPT !.at = "model"]
        /\ \A j \in TurnIds : j # i => turns'[j] = turns[j]
    BY <2>2 DEF TurnInv, TurnTypeOK
  <2>4. \A j \in TurnIds : j # i => ~Alive(j)'
    BY <2>1, <2>3 DEF NobodyWorks, Alive
  <2>5. turns'[i] \in [at : TurnPlaces, used : {turns'[i].used},
                       result : {turns'[i].result}]
    BY <2>3 DEF TurnInv, TurnTypeOK, TurnPlaces
  <2>6. cmd' = NoMessage /\ shown' = Says("running")
    BY <1>7 DEF TurnBegins
  <2> QED  BY <2>3, <2>4, <2>5, <2>6 DEF TurnInv, TurnTypeOK, NoMessage, Says
<1>8. CASE TurnUnmodelled
  BY <1>8, QuietStepKeeps DEF TurnUnmodelled, NoMessage
<1>9. CASE DecideForward
  <2>1. cmd' = [cmd EXCEPT !.at = "forward"] /\ turns' = turns /\ shown' = FreshShown
    BY <1>9 DEF DecideForward, Deciding, MessageGoes
  <2> QED  BY <1>0, <2>1, QuietStepKeeps, NewsIsNotAsked
<1>10. CASE MessageForwarded
  <2>1. cmd' = NoMessage /\ turns' = turns
    BY <1>10 DEF MessageForwarded
  <2>2. shown' = FreshShown \/ shown' # Says("waiting")
    BY <1>10 DEF MessageForwarded, Says
  <2> QED  BY <2>1, <2>2, QuietStepKeeps, NewsIsNotAsked DEF NoMessage
<1>11. CASE DecideAnswer
  <2>1. turns' = turns /\ shown' = FreshShown
    BY <1>11 DEF DecideAnswer, Deciding
  <2>2. CASE shown' = Says("waiting")
    <3>1. NobodyWorks
      BY <2>1, <2>2, NewsIsNotAsked DEF TurnInv
    <3>2. cmd' = [cmd EXCEPT !.at = "begin"]
      BY <1>11, <2>2 DEF DecideAnswer, MessageGoes
    <3> QED  BY <1>0, <2>1, <3>1, <3>2, QuietStepKeeps, NewsIsNotAsked
  <2>3. CASE shown' # Says("waiting")
    <3>1. cmd' = NoMessage
      BY <1>11, <2>3 DEF DecideAnswer
    <3> QED  BY <2>1, <2>3, <3>1, QuietStepKeeps DEF NoMessage
  <2> QED  BY <2>2, <2>3
<1>12. CASE DecideSteer
  <2>1. cmd' = NoMessage /\ turns' = turns /\ shown' = FreshShown
    BY <1>12 DEF DecideSteer, Deciding
  <2> QED  BY <2>1, QuietStepKeeps, NewsIsNotAsked DEF NoMessage
<1> QED
  BY <1>1, <1>2, <1>3, <1>4, <1>5, <1>6, <1>7, <1>8, <1>9, <1>10, <1>11, <1>12
     DEF MessageStep

\* Every step of the assistant port and of the inner session keeps the invariant.
LEMMA TurnInvStep == TurnInv /\ [TurnsNext]_turnVars => TurnInv'
PROOF
<1> SUFFICES ASSUME TurnInv, [TurnsNext]_turnVars PROVE TurnInv'
  OBVIOUS
<1>0. cmd = [at |-> cmd.at, kind |-> cmd.kind, expect |-> cmd.expect]
  BY DEF TurnInv, TurnTypeOK
<1>1. CASE TurnStep
  BY <1>1, TurnKeepsInv DEF TurnStep
<1>2. CASE MessageStep
  BY <1>2, MessageKeepsInv
<1>3. CASE MessageComes
  <2>1. /\ \E kind \in MessageKinds :
             cmd' = [at |-> "came", kind |-> kind, expect |-> shown.status]
        /\ turns' = turns /\ shown' = shown
    BY <1>3 DEF MessageComes
  <2> QED  BY <2>1, QuietStepKeeps
<1>4. CASE PortPolled
  BY <1>0, <1>4, QuietStepKeeps, NewsIsNotAsked DEF PortPolled, Refreshes
<1>5. CASE CleanUp
  BY <1>0, <1>5, CancelKeeps DEF CleanUp
<1>6. CASE CloseRetires \/ GuiMoves
  BY <1>0, <1>6, QuietStepKeeps DEF CloseRetires, GuiMoves
<1>7. CASE UNCHANGED turnVars
  BY <1>0, <1>7, QuietStepKeeps DEF turnVars
<1> QED
  BY <1>1, <1>2, <1>3, <1>4, <1>5, <1>6, <1>7 DEF TurnsNext

\* At first there is no turn.
LEMMA TurnInvInit == TurnsInit => TurnInv
PROOF
<1> SUFFICES ASSUME TurnsInit PROVE TurnInv
  OBVIOUS
<1>1. \A i \in TurnIds : turns[i] = Unbegun
  BY DEF TurnsInit
<1>2. \A i \in TurnIds : ~Alive(i)
  BY <1>1 DEF Alive, Unbegun
<1> QED
  BY <1>1, <1>2 DEF TurnsInit, TurnInv, TurnTypeOK, TurnPlaces, Unbegun, NoMessage,
     Says, NobodyWorks

\* The invariant of the assistant's turns holds in every reachable state,
\* for every number of turns, events and commands.
THEOREM TurnsAreAlone == TurnsSpec => []TurnInv
PROOF
  BY TurnInvInit, TurnInvStep, PTL DEF TurnsSpec

\* One turn at a time works for a session, whatever commands, polls and
\* clean-ups come in between (command, _cancel, close, _start_turn).
THEOREM OneTurnWorks == TurnsSpec => []OneTurn
PROOF
<1>1. TurnInv => OneTurn
  <2> SUFFICES ASSUME TurnInv PROVE OneTurn
    OBVIOUS
  <2>1. CASE ActiveTurns = {}
    BY <2>1, FS_EmptySet DEF OneTurn
  <2>2. CASE ActiveTurns # {}
    <3>1. PICK i : i \in ActiveTurns
      BY <2>2
    <3>2. ActiveTurns = {i}
      BY <3>1 DEF ActiveTurns, TurnInv
    <3>3. Cardinality({i}) = 1
      BY ONLY FS_Singleton
    <3> QED  BY <3>2, <3>3 DEF OneTurn
  <2> QED  BY <2>1, <2>2
<1> QED
  BY <1>1, TurnsAreAlone, PTL
-----------------------------------------------------------------------------
(* The episode monitor: numbers and cycles.                                *)

\* A set of natural numbers has a least one, if it has any.
LEMMA LeastOfSome ==
    ASSUME NEW S \in SUBSET Nat, S # {}
    PROVE  \E x \in S : \A y \in S : x <= y
PROOF
<1>1. \E x \in S : \A y \in S : ~(<<y, x>> \in OpToRel(<, Nat))
  BY NatLessThanWellFounded, WFMin
<1>2. PICK x \in S : \A y \in S : ~(<<y, x>> \in OpToRel(<, Nat))
  BY <1>1
<1>3. ASSUME NEW y \in S PROVE x <= y
  <2>1. x \in Nat /\ y \in Nat
    OBVIOUS
  <2>2. ~(y < x)
    BY <1>2, <2>1 DEF OpToRel
  <2> QED  BY ONLY <2>1, <2>2
<1> QED  BY <1>3

\* A sequence has at most as many members as entries, and one if it has any.
LEMMA FewMembers ==
    ASSUME NEW S, NEW q \in Seq(S)
    PROVE  /\ IsFiniteSet(ToSet(q))
           /\ Cardinality(ToSet(q)) \in Nat
           /\ Cardinality(ToSet(q)) <= Len(q)
           /\ Len(q) # 0 => Cardinality(ToSet(q)) # 0
PROOF
<1> DEFINE D == 1 .. Len(q)
<1>1. Len(q) \in Nat /\ DOMAIN q = D
  OBVIOUS
<1>2. IsFiniteSet(D) /\ Cardinality(D) = Len(q)
  <2>1. 0 \in Int /\ 1 \in Int /\ Len(q) \in Int
    BY <1>1
  <2>2. /\ IsFiniteSet(D)
        /\ Cardinality(D) = IF 1 > Len(q) THEN 0 ELSE Len(q) - 1 + 1
    BY ONLY <2>1, FS_Interval
  <2> QED  BY <1>1, <2>2
<1>3. q \in Surjection(D, ToSet(q))
  <2>1. q \in [D -> ToSet(q)]
    BY <1>1 DEF ToSet
  <2>2. \A t \in ToSet(q) : \E d \in D : q[d] = t
    BY <1>1 DEF ToSet
  <2> QED  BY ONLY <2>1, <2>2 DEF Surjection
<1>4. IsFiniteSet(ToSet(q)) /\ Cardinality(ToSet(q)) <= Cardinality(D)
  BY ONLY <1>2, <1>3, FS_Surjection
<1>5. Cardinality(ToSet(q)) \in Nat
  BY ONLY <1>4, FS_CardinalityType
<1>6. ASSUME Len(q) # 0, Cardinality(ToSet(q)) = 0 PROVE FALSE
  <2>1. ToSet(q) = {}
    BY ONLY <1>4, <1>6, FS_EmptySet
  <2>2. q[1] \in ToSet(q)
    BY <1>1, <1>6 DEF ToSet
  <2> QED  BY <2>1, <2>2
<1> QED  BY <1>2, <1>4, <1>5, <1>6

\* A cycle that is found has members, and no more than the window is long.
LEMMA CycleIsSmall ==
    ASSUME NEW S, NEW recent \in Seq(S), Len(recent) <= Window,
           Periods(recent) # {}
    PROVE  /\ IsFiniteSet(CycleMembers(recent))
           /\ Cardinality(CycleMembers(recent)) \in 1 .. Window
PROOF
<1> DEFINE n == Len(recent)
           p == CHOOSE q \in Periods(recent) : \A o \in Periods(recent) : q <= o
           tail == SubSeq(recent, n - p + 1, n)
<1>1. n \in Nat /\ Window \in Nat /\ n <= Window
  BY WindowAssumption
<1>2. /\ \A q \in Periods(recent) : q \in 2 .. (n \div 2)
      /\ Periods(recent) \in SUBSET Nat
  BY DEF Periods
<1>3. p \in Periods(recent)
  BY <1>2, LeastOfSome
<1>4. p \in Nat /\ 2 <= p /\ p <= n \div 2
  <2>1. p \in 2 .. (n \div 2)
    BY <1>2, <1>3
  <2> HIDE DEF p, n
  <2> QED  BY <1>1, <2>1
<1>5. p <= n
  BY <1>1, <1>4
<1> HIDE DEF p, n
<1>6. /\ tail \in Seq(S)
      /\ Len(tail) = p
  <2>1. n - p + 1 \in Int /\ n \in Int /\ n - p + 1 <= n
    BY <1>1, <1>4, <1>5
  <2>2. \A i \in n - p + 1 .. n : recent[i] \in S
    BY <1>1, <1>4, <1>5 DEF n
  <2>3. /\ tail \in Seq(S)
        /\ Len(tail) = n - (n - p + 1) + 1
    BY <2>1, <2>2, SubSeqProperties
  <2> QED  BY <1>1, <1>4, <2>3
<1>7. CycleMembers(recent) = ToSet(tail)
  BY DEF CycleMembers, p, n
<1> HIDE DEF tail
<1> QED  BY <1>1, <1>4, <1>5, <1>6, <1>7, FewMembers

\* The window keeps its length.
LEMMA WindowKeeps ==
    ASSUME NEW S, NEW w, w.recent \in Seq(S), NEW s, Transition(s) \in S
    PROVE  Recent(w, s) \in Seq(S) /\ Len(Recent(w, s)) <= Window
PROOF
<1> DEFINE all == Append(w.recent, Transition(s))
           from == IF Len(all) > Window THEN Len(all) - Window + 1 ELSE 1
<1>1. Window \in Nat \ {0}
  BY WindowAssumption
<1>2. all \in Seq(S) /\ Len(all) \in Nat \ {0}
  OBVIOUS
<1>3. Recent(w, s) = SubSeq(all, from, Len(all))
  BY DEF Recent
<1> HIDE DEF all
<1>4. from \in 1 .. Len(all) /\ Len(all) - from + 1 <= Window
  BY <1>1, <1>2
<1> HIDE DEF from
<1>5. \A i \in from .. Len(all) : all[i] \in S
  BY <1>2, <1>4
<1>6. /\ SubSeq(all, from, Len(all)) \in Seq(S)
      /\ Len(SubSeq(all, from, Len(all))) =
           IF from <= Len(all) THEN Len(all) - from + 1 ELSE 0
  BY <1>2, <1>4, <1>5, SubSeqProperties
<1> QED  BY <1>2, <1>3, <1>4, <1>6
-----------------------------------------------------------------------------
(* The episode monitor: the inductive invariant.                           *)

Signatures == [op : Operations \cup {"look", "read", "page", "refused", "none"},
               world : PublicWorlds \cup {NoWorld}, got : 0 .. 2]

Transitions == [sig : Signatures, world : PublicWorlds]

StepLike(s) == s.sig \in Signatures /\ s.after \in PublicWorlds

CenterLike(c) ==
    c \in [kind : {c.kind}, members : {c.members}, armed : BOOLEAN]

\* What a watch counts is of no account here.
WatchLike(w) ==
    /\ w \in [world : {w.world}, streak : {w.streak}, latest : {w.latest},
              same : {w.same}, recent : {w.recent}, center : {w.center},
              active : {w.active}]
    /\ w.recent \in Seq(Transitions) /\ Len(w.recent) <= Window
    /\ CenterLike(w.center)
    /\ w.active = [center |-> w.active.center, prohibits |-> w.active.prohibits]

WalkLike(k) ==
    /\ k \in [at : {k.at}, tools : {k.tools}, world : {k.world},
              signal : {k.signal}, store : {k.store}, left : {k.left},
              warned : {k.warned}, stuck : {k.stuck}]
    /\ k.world \in PublicWorlds /\ k.warned \in BOOLEAN /\ k.stuck \in Nat

MonitorTypeOK == WatchLike(watch) /\ WalkLike(walk)

\* A center that has seen a number of steps has a member more than that, and
\* no more members than the window is long.
Roomy(c, stuck) ==
    IsFiniteSet(c.members) /\ Cardinality(c.members) \in (stuck + 1) .. Window

\* The signal put before the policy is the monitor's own and is given for the
\* open center; the center is armed once the signal is gone, and then the
\* policy was warned.
MonitorInv ==
    /\ MonitorTypeOK
    /\ walk.signal = watch.active
    /\ walk.stuck <= Window
    /\ watch.active # NoSignal =>
         /\ watch.active.center = watch.center
         /\ watch.center # NoCenter
         /\ ~watch.center.armed
    /\ watch.center # NoCenter =>
         /\ watch.active = NoSignal => watch.center.armed
         /\ Roomy(watch.center, walk.stuck)
    /\ watch.center.armed => walk.warned

Told == watch.active # NoSignal

\* A warning sets the center and its signal and nothing else.
LEMMA WarnGives ==
    ASSUME NEW w, WatchLike(w), NEW c, CenterLike(c), NEW p, NEW say
    PROVE  LET v == Warn(w, say, c, p)
           IN  /\ WatchLike(v.watch)
               /\ v.say = say
               /\ v.watch.center = c
               /\ v.watch.active = Signal(c, p)
               /\ v.watch.world = w.world
PROOF
<1>1. PICK u : /\ u = [w EXCEPT !.center = c, !.active = Signal(c, p)]
               /\ Warn(w, say, c, p) = [watch |-> u, say |-> say]
  BY DEF Warn
<1>2. w \in [world : {w.world}, streak : {w.streak}, latest : {w.latest},
             same : {w.same}, recent : {w.recent}, center : {w.center},
             active : {w.active}]
  BY DEF WatchLike
<1>3. /\ u.center = c /\ u.active = Signal(c, p)
      /\ u.recent = w.recent /\ u.world = w.world
      /\ u \in [world : {u.world}, streak : {u.streak}, latest : {u.latest},
                same : {u.same}, recent : {u.recent}, center : {u.center},
                active : {u.active}]
  BY ONLY <1>1, <1>2
<1>4. Signal(c, p) = [center |-> Signal(c, p).center,
                      prohibits |-> Signal(c, p).prohibits]
  BY DEF Signal
<1>5. w.recent \in Seq(Transitions) /\ Len(w.recent) <= Window
  BY DEF WatchLike
<1>6. WatchLike(u)
  BY ONLY <1>3, <1>4, <1>5, CenterLike(c) DEF WatchLike
<1> QED  BY <1>1, <1>3, <1>6

\* The center a single step opens is a center, with one member and unarmed.
LEMMA OpensRoomy ==
    ASSUME NEW kind \in {"stall", "oscillation"}, NEW members,
           IsFiniteSet(members), Cardinality(members) \in 1 .. Window
    PROVE  LET c == Center(kind, members, FALSE)
           IN  CenterLike(c) /\ c # NoCenter /\ ~c.armed /\ Roomy(c, 0)
PROOF
  BY DEF Center, CenterLike, NoCenter, Roomy

\* So is one of a single tuple.
LEMMA SingleIsRoomy ==
    ASSUME NEW kind \in {"stall", "oscillation"}, NEW t
    PROVE  LET c == Center(kind, {t}, FALSE)
           IN  CenterLike(c) /\ c # NoCenter /\ ~c.armed /\ Roomy(c, 0)
PROOF
<1>1. IsFiniteSet({t}) /\ Cardinality({t}) = 1
  BY ONLY FS_Singleton
<1>2. Cardinality({t}) \in 1 .. Window
  BY <1>1, WindowAssumption
<1> QED  BY <1>1, <1>2, OpensRoomy
\* What a verdict leaves: the watch goes on without a center, or inside the
\* open one with one member more; it opens one and says so; or it ends the
\* run for a step that did not leave the open one.
Verdict(v, s, escaped) ==
    /\ WatchLike(v.watch) /\ v.watch.world = s.after
    /\ \/ /\ v.say = "continue" /\ v.watch.active = NoSignal
          /\ v.watch.center = NoCenter
       \/ /\ v.say = "continue" /\ v.watch.active = NoSignal
          /\ watch.center # NoCenter /\ ~escaped
          /\ v.watch.center # NoCenter /\ v.watch.center.armed
          /\ Roomy(v.watch.center, walk.stuck + 1)
       \/ /\ v.say = "recover" /\ watch.center = NoCenter
          /\ v.watch.center # NoCenter /\ ~v.watch.center.armed
          /\ Roomy(v.watch.center, 0)
          /\ v.watch.active # NoSignal /\ v.watch.active.center = v.watch.center
       \/ /\ v.say = "block" /\ watch.center # NoCenter /\ ~escaped

\* The record of a watch, without what it means.
WatchShape(w) ==
    w \in [world : {w.world}, streak : {w.streak}, latest : {w.latest},
           same : {w.same}, recent : {w.recent}, center : {w.center},
           active : {w.active}]

\* A watch with other counts is as good.
LEMMA OtherCounts ==
    ASSUME NEW w, WatchLike(w), NEW u, WatchShape(u), u.recent = w.recent,
           u.center = w.center, u.active = w.active
    PROVE  WatchLike(u)
PROOF
  BY DEF WatchLike, WatchShape

\* Counting an attempt, the streak, or forgetting both changes counts only.
LEMMA TriedGives ==
    ASSUME NEW w, WatchLike(w), NEW sig
    PROVE  LET u == Tried(w, sig)
           IN  /\ WatchLike(u) /\ u.world = w.world
               /\ u.center = w.center /\ u.active = w.active
PROOF
<1>1. PICK u, x : u = Tried(w, sig) /\ u = [w EXCEPT !.same = x, !.latest = sig]
  BY DEF Tried
<1>2. WatchShape(w)
  BY DEF WatchLike, WatchShape
<1>3. /\ WatchShape(u) /\ u.world = w.world /\ u.center = w.center
      /\ u.active = w.active /\ u.recent = w.recent
  BY ONLY <1>1, <1>2 DEF WatchShape
<1>4. WatchLike(u)
  BY <1>3, OtherCounts
<1> QED  BY ONLY <1>1, <1>3, <1>4

\* A changed streak leaves the rest of the watch.
LEMMA StreakOnly ==
    ASSUME NEW w, WatchLike(w), NEW x
    PROVE  LET u == [w EXCEPT !.streak = x]
           IN  /\ WatchLike(u) /\ u.world = w.world
               /\ u.center = w.center /\ u.active = w.active
PROOF
<1>1. PICK u : u = [w EXCEPT !.streak = x]
  OBVIOUS
<1>2. WatchShape(w)
  BY DEF WatchLike, WatchShape
<1>3. /\ WatchShape(u) /\ u.world = w.world /\ u.center = w.center
      /\ u.active = w.active /\ u.recent = w.recent
  BY ONLY <1>1, <1>2 DEF WatchShape
<1>4. WatchLike(u)
  BY <1>3, OtherCounts
<1> QED  BY <1>1, <1>3, <1>4

\* A restart of the episode forgets the streak and keeps what is watched.
LEMMA ForgottenGives ==
    ASSUME NEW w, WatchLike(w), NEW u,
           u = Forgotten(w)
    PROVE  /\ WatchLike(u) /\ u.world = w.world
           /\ u.center = w.center /\ u.active = w.active
PROOF
<1>1. WatchShape(w)
  BY DEF WatchLike, WatchShape
<1>2. /\ WatchShape(u) /\ u.world = w.world /\ u.center = w.center
      /\ u.active = w.active /\ u.recent = w.recent
  BY ONLY <1>1, u = Forgotten(w) DEF WatchShape, Forgotten
<1> QED  BY <1>2, OtherCounts

\* The watch that has seen a step: its signal is consumed.
Seen(w, s) == [w EXCEPT !.world = s.after, !.active = NoSignal, !.recent = Recent(w, s)]

\* The watch of a step that was seen: its world is the one after the step.
LEMMA SeenGives ==
    ASSUME NEW w, WatchLike(w), NEW s, StepLike(s)
    PROVE  LET u == Seen(w, s)
           IN  /\ WatchLike(u) /\ u.world = s.after
               /\ u.center = w.center /\ u.active = NoSignal
               /\ u.recent = Recent(w, s)
PROOF
<1>0. PICK u : u = Seen(w, s)
  OBVIOUS
<1>1. WatchShape(w)
  BY DEF WatchLike, WatchShape
<1>2. /\ WatchShape(u) /\ u.world = s.after /\ u.center = w.center
      /\ u.active = NoSignal /\ u.recent = Recent(w, s)
  BY ONLY <1>0, <1>1 DEF Seen, WatchShape
<1>3. Transition(s) \in Transitions
  BY DEF StepLike, Transition, Transitions
<1>4. Recent(w, s) \in Seq(Transitions) /\ Len(Recent(w, s)) <= Window
  BY <1>3, WindowKeeps DEF WatchLike
<1>5. NoSignal = [center |-> NoSignal.center, prohibits |-> NoSignal.prohibits]
  BY DEF NoSignal, Signal
<1>6. CenterLike(w.center)
  BY DEF WatchLike
<1>7. WatchLike(u)
  BY ONLY <1>2, <1>4, <1>5, <1>6 DEF WatchLike, WatchShape
<1> QED  BY ONLY <1>0, <1>2, <1>7
\* A warning that opens a center.
LEMMA OpeningVerdict ==
    ASSUME MonitorInv, watch.center = NoCenter,
           NEW w, WatchLike(w), NEW s, w.world = s.after,
           NEW c, CenterLike(c), c # NoCenter, ~c.armed, Roomy(c, 0),
           NEW p, NEW escaped
    PROVE  Verdict(Warn(w, "recover", c, p), s, escaped)
PROOF
<1>1. PICK v : v = Warn(w, "recover", c, p)
  OBVIOUS
<1>2. /\ WatchLike(v.watch) /\ v.say = "recover" /\ v.watch.center = c
      /\ v.watch.active = Signal(c, p) /\ v.watch.world = s.after
  BY <1>1, WarnGives
<1>3. Signal(c, p) # NoSignal /\ Signal(c, p).center = c
  BY DEF Signal, NoSignal
<1> QED  BY <1>1, <1>2, <1>3 DEF Verdict

\* A step without progress inside a center adds a member or ends the run.
LEMMA InsideVerdict ==
    ASSUME MonitorInv, watch.center # NoCenter,
           NEW s, StepLike(s), NEW seen, WatchLike(seen), seen.world = s.after,
           seen.active = NoSignal
    PROVE  Verdict(Inside(watch, seen, s, Told), s, FALSE)
PROOF
<1> DEFINE c == watch.center
           t == Transition(s)
           back == t \in c.members /\ (c.armed \/ Told)
           members == c.members \union {t}
<1>1. /\ CenterLike(c) /\ Roomy(c, walk.stuck) /\ walk.stuck \in Nat
      /\ c.armed \/ Told
  BY DEF MonitorInv, MonitorTypeOK, WatchLike, WalkLike, Told
<1>2. CASE back \/ Cardinality(members) > Window
  <2>1. PICK p : Inside(watch, seen, s, Told) = Warn(seen, "block", Armed(c), p)
    BY <1>2 DEF Inside
  <2>2. CenterLike(Armed(c))
    <3>1. c \in [kind : {c.kind}, members : {c.members}, armed : BOOLEAN]
      BY <1>1 DEF CenterLike
    <3> HIDE DEF c
    <3> QED  BY ONLY <3>1 DEF Armed, CenterLike
  <2>3. PICK v : v = Warn(seen, "block", Armed(c), p)
    OBVIOUS
  <2>4. WatchLike(v.watch) /\ v.say = "block" /\ v.watch.world = s.after
    BY <2>2, <2>3, WarnGives
  <2> QED  BY <2>1, <2>3, <2>4 DEF Verdict
<1>3. CASE ~(back \/ Cardinality(members) > Window)
  <2> DEFINE d == Center(c.kind, members, c.armed \/ Told)
  <2>1. PICK u : /\ u = [seen EXCEPT !.center = d, !.latest = s.sig, !.same = 1]
                 /\ Inside(watch, seen, s, Told) = [watch |-> u, say |-> "continue"]
    BY <1>3 DEF Inside, Continue
  <2>2. t \notin c.members
    BY <1>1, <1>3
  <2>3. IsFiniteSet(c.members)
    BY <1>1 DEF Roomy
  <2>4. /\ IsFiniteSet(members)
        /\ Cardinality(members) = IF t \in c.members THEN Cardinality(c.members)
                                  ELSE Cardinality(c.members) + 1
    BY ONLY <2>3, FS_AddElement
  <2>5. Cardinality(members) \in (walk.stuck + 1 + 1) .. Window
    BY <1>1, <1>3, <2>2, <2>4, WindowAssumption DEF Roomy
  <2>6. d.kind = c.kind /\ d.members = members /\ d.armed = TRUE /\ CenterLike(d)
    BY <1>1 DEF Center, CenterLike
  <2>7. d # NoCenter
    BY <2>6 DEF NoCenter, Center
  <2>8. Roomy(d, walk.stuck + 1)
    BY <2>4, <2>5, <2>6 DEF Roomy
  <2> HIDE DEF d, members, back
  <2>9. WatchShape(seen)
    BY DEF WatchLike, WatchShape
  <2>10. /\ WatchShape(u) /\ u.center = d /\ u.world = seen.world
         /\ u.active = seen.active /\ u.recent = seen.recent
    BY ONLY <2>1, <2>9 DEF WatchShape
  <2>11. WatchLike(u)
    BY <2>6, <2>10 DEF WatchLike, WatchShape
  <2>12. PICK v : v = Inside(watch, seen, s, Told)
    OBVIOUS
  <2>13. v.watch = u /\ v.say = "continue"
    BY <2>1, <2>12
  <2>14. u.world = s.after /\ u.active = NoSignal /\ u.center.armed
    BY <2>6, <2>10
  <2>15. Verdict(v, s, FALSE)
    BY <2>7, <2>8, <2>10, <2>11, <2>13, <2>14 DEF Verdict
  <2> QED  BY <2>12, <2>15
<1> QED
  BY <1>2, <1>3

\* Outside a center no signal is due, so that what the signal prohibits is
\* not at stake: the run goes on or a center is opened.
LEMMA StalledVerdict ==
    ASSUME MonitorInv, watch.center = NoCenter,
           NEW s, StepLike(s), NEW seen, WatchLike(seen), seen.world = s.after,
           seen.active = NoSignal, seen.center = NoCenter,
           NEW delta, NEW escaped
    PROVE  Verdict(Stalled(watch, seen, delta, s), s, escaped)
PROOF
<1>1. watch.active = NoSignal
  BY DEF MonitorInv
<1>2. s.sig \notin watch.active.prohibits
  BY <1>1 DEF NoSignal, Signal
<1> DEFINE told == watch.active # NoSignal
           repeats == s.sig = watch.latest
           exact == delta = "replay" \/ (repeats /\ s.op = "page")
           tried == Tried(seen, s.sig)
           n == [tried EXCEPT !.streak = IF IsGui(s) \/ exact THEN 0 ELSE @ + 1]
           p == Prohibits(exact \/ delta = "unusable" \/ (repeats /\ (told \/ IsGui(s))), s)
<1>3. Stalled(watch, seen, delta, s) =
        IF ~Due(watch, n, delta, s, told) THEN Continue(n)
        ELSE Warn([n EXCEPT !.streak = 0], "recover", Single(s), p)
  BY <1>2 DEF Stalled
<1>4. WatchLike(tried) /\ tried.world = s.after /\ tried.center = NoCenter
      /\ tried.active = NoSignal
  BY TriedGives
<1>5. WatchLike(n) /\ n.world = s.after /\ n.center = NoCenter /\ n.active = NoSignal
  <2> HIDE DEF tried
  <2> QED  BY <1>4, StreakOnly
<1> HIDE DEF n, p, told
<1>6. CASE ~Due(watch, n, delta, s, told)
  BY <1>3, <1>5, <1>6 DEF Continue, Verdict
<1>7. CASE Due(watch, n, delta, s, told)
  <2>1. PICK m : m = [n EXCEPT !.streak = 0]
    OBVIOUS
  <2>2. WatchLike(m) /\ m.world = s.after
    BY <1>5, <2>1, StreakOnly
  <2>3. Stalled(watch, seen, delta, s) = Warn(m, "recover", Single(s), p)
    BY <1>3, <1>7, <2>1
  <2>4. /\ CenterLike(Single(s)) /\ Single(s) # NoCenter
        /\ ~Single(s).armed /\ Roomy(Single(s), 0)
    BY SingleIsRoomy DEF Single
  <2> QED  BY <2>2, <2>3, <2>4, OpeningVerdict
<1> QED
  BY <1>6, <1>7
\* What every step comes to (evaluate).
LEMMA JudgedVerdict ==
    ASSUME MonitorInv, NEW s, StepLike(s), NEW delta
    PROVE  Verdict(Judged(watch, delta, s), s, Escaped(watch, delta, s))
PROOF
<1> DEFINE escaped == Escaped(watch, delta, s)
           told == watch.active # NoSignal
           J == Judged(watch, delta, s)
<1>1. PICK seen : seen = Seen(watch, s)
  OBVIOUS
<1>2. WatchLike(watch)
  BY DEF MonitorInv, MonitorTypeOK
<1>3. /\ WatchLike(seen) /\ seen.world = s.after
      /\ seen.center = watch.center /\ seen.active = NoSignal
      /\ seen.recent = Recent(watch, s)
  BY <1>1, <1>2, SeenGives
<1>4. PICK reset : reset = [seen EXCEPT !.streak = 0, !.latest = s.sig, !.same = 1]
  OBVIOUS
<1>5. /\ WatchLike(reset) /\ reset.world = s.after
      /\ reset.center = watch.center /\ reset.active = NoSignal
  <2>1. WatchShape(seen)
    BY <1>3 DEF WatchLike, WatchShape
  <2>2. /\ WatchShape(reset) /\ reset.world = seen.world
        /\ reset.center = seen.center /\ reset.active = seen.active
        /\ reset.recent = seen.recent
    BY ONLY <1>4, <2>1 DEF WatchShape
  <2> QED  BY <1>3, <2>2, OtherCounts
<1>6. J = IF watch.center # NoCenter /\ escaped THEN
            Continue([Forgotten(seen) EXCEPT !.center = NoCenter])
          ELSE IF told /\ s.mark = "repeat" THEN
            Warn(Tried(seen, s.sig), "block",
                 Armed(IF watch.center # NoCenter THEN watch.center ELSE Single(s)), {s.sig})
          ELSE IF watch.center # NoCenter THEN Inside(watch, seen, s, told)
          ELSE IF s.op = "refused" THEN
            Warn(Tried(seen, s.sig), "recover", Single(s),
                 IF s.mark = "repeat" THEN {s.sig} ELSE {})
          ELSE IF Moved(watch, s) /\ Transition(s) \in ToSet(watch.recent) THEN
            Warn(reset, "recover", Center("oscillation", {Transition(s)}, FALSE), {})
          ELSE IF Periods(seen.recent) # {} THEN
            Warn(reset, "recover", Center("oscillation", CycleMembers(seen.recent), FALSE), {})
          ELSE IF Durable(delta, s) THEN Continue(Forgotten(seen))
          ELSE IF IsGui(s) /\ (s.mark = "news" \/ Moved(watch, s)) THEN Continue(reset)
          ELSE Stalled(watch, seen, delta, s)
  BY <1>1, <1>4 DEF Judged, Seen
<1> HIDE DEF J, escaped
<1>7. told => watch.center # NoCenter
  BY DEF MonitorInv
<1>8. CASE watch.center # NoCenter /\ escaped
  <2>1. PICK f : f = Forgotten(seen)
    OBVIOUS
  <2>2. WatchLike(f) /\ f.world = s.after /\ f.active = NoSignal
    BY <1>3, <2>1, ForgottenGives
  <2>3. PICK u : u = [f EXCEPT !.center = NoCenter]
    OBVIOUS
  <2>4. WatchShape(f)
    BY <2>2 DEF WatchLike, WatchShape
  <2>5. /\ WatchShape(u) /\ u.center = NoCenter /\ u.world = f.world
        /\ u.active = f.active /\ u.recent = f.recent
    BY ONLY <2>3, <2>4 DEF WatchShape
  <2>6. WatchLike(u)
    BY <2>2, <2>5 DEF WatchLike, WatchShape, CenterLike, NoCenter, Center
  <2>7. J = [watch |-> u, say |-> "continue"]
    BY <1>6, <1>8, <2>1, <2>3 DEF Continue
  <2> QED  BY <2>2, <2>5, <2>6, <2>7 DEF Verdict, J, escaped
<1>9. CASE ~(watch.center # NoCenter /\ escaped) /\ told /\ s.mark = "repeat"
  <2>1. watch.center # NoCenter /\ ~escaped
    BY <1>7, <1>9
  <2>2. PICK w : w = Tried(seen, s.sig)
    OBVIOUS
  <2>3. WatchLike(w) /\ w.world = s.after
    BY <1>3, <2>2, TriedGives
  <2>4. J = Warn(w, "block", Armed(watch.center), {s.sig})
    BY <1>6, <1>9, <2>1, <2>2
  <2>5. CenterLike(Armed(watch.center))
    <3>1. CenterLike(watch.center)
      BY <1>2 DEF WatchLike
    <3> QED  BY ONLY <3>1 DEF CenterLike, Armed
  <2>6. WatchLike(J.watch) /\ J.say = "block" /\ J.watch.world = s.after
    BY <2>3, <2>4, <2>5, WarnGives
  <2> QED  BY <2>1, <2>6 DEF Verdict, J, escaped
<1>10. CASE /\ watch.center # NoCenter /\ ~escaped
            /\ ~(told /\ s.mark = "repeat")
  <2>1. J = Inside(watch, seen, s, Told)
    BY <1>6, <1>10 DEF Told
  <2>2. Verdict(J, s, FALSE)
    BY <1>3, <1>10, <2>1, InsideVerdict
  <2>3. Verdict(J, s, escaped)
    BY <1>10, <2>2 DEF Verdict
  <2> QED  BY <2>3 DEF J, escaped
<1>11. CASE watch.center = NoCenter
  <2>1. ~told
    BY <1>7, <1>11
  <2>2. CASE s.op = "refused"
    <3>1. PICK w, p : w = Tried(seen, s.sig) /\ J = Warn(w, "recover", Single(s), p)
      BY <1>6, <1>11, <2>1, <2>2
    <3>2. WatchLike(w) /\ w.world = s.after
      BY <1>3, <3>1, TriedGives
    <3>3. /\ CenterLike(Single(s)) /\ Single(s) # NoCenter
          /\ ~Single(s).armed /\ Roomy(Single(s), 0)
      BY SingleIsRoomy DEF Single
    <3> QED  BY <1>11, <3>1, <3>2, <3>3, OpeningVerdict DEF J, escaped
  <2>3. CASE s.op # "refused" /\ Moved(watch, s) /\ Transition(s) \in ToSet(watch.recent)
    <3>1. PICK c : c = Center("oscillation", {Transition(s)}, FALSE)
      OBVIOUS
    <3>2. CenterLike(c) /\ c # NoCenter /\ ~c.armed /\ Roomy(c, 0)
      BY <3>1, SingleIsRoomy
    <3>3. J = Warn(reset, "recover", c, {})
      BY <1>6, <1>11, <2>1, <2>3, <3>1
    <3> QED  BY <1>5, <1>11, <3>2, <3>3, OpeningVerdict DEF J, escaped
  <2>4. CASE /\ s.op # "refused"
             /\ ~(Moved(watch, s) /\ Transition(s) \in ToSet(watch.recent))
             /\ Periods(seen.recent) # {}
    <3>1. PICK c : c = Center("oscillation", CycleMembers(seen.recent), FALSE)
      OBVIOUS
    <3>2. seen.recent \in Seq(Transitions) /\ Len(seen.recent) <= Window
      BY <1>3 DEF WatchLike
    <3>3. /\ IsFiniteSet(CycleMembers(seen.recent))
          /\ Cardinality(CycleMembers(seen.recent)) \in 1 .. Window
      BY <2>4, <3>2, CycleIsSmall
    <3>4. CenterLike(c) /\ c # NoCenter /\ ~c.armed /\ Roomy(c, 0)
      BY <3>1, <3>3, OpensRoomy
    <3>5. J = Warn(reset, "recover", c, {})
      BY <1>6, <1>11, <2>1, <2>4, <3>1
    <3> QED  BY <1>5, <1>11, <3>4, <3>5, OpeningVerdict DEF J, escaped
  <2>5. CASE /\ s.op # "refused"
             /\ ~(Moved(watch, s) /\ Transition(s) \in ToSet(watch.recent))
             /\ ~(Periods(seen.recent) # {})
    <3>1. CASE Durable(delta, s)
      <4>1. PICK f : f = Forgotten(seen)
        OBVIOUS
      <4>2. WatchLike(f) /\ f.world = s.after /\ f.active = NoSignal /\ f.center = NoCenter
        BY <1>3, <1>11, <4>1, ForgottenGives
      <4>3. J = [watch |-> f, say |-> "continue"]
        BY <1>6, <1>11, <2>1, <2>5, <3>1, <4>1 DEF Continue
      <4> QED  BY <4>2, <4>3 DEF Verdict, J, escaped
    <3>2. CASE ~Durable(delta, s) /\ IsGui(s) /\ (s.mark = "news" \/ Moved(watch, s))
      <4>1. J = [watch |-> reset, say |-> "continue"]
        BY <1>6, <1>11, <2>1, <2>5, <3>2 DEF Continue
      <4> QED  BY <1>5, <1>11, <4>1 DEF Verdict, J, escaped
    <3>3. CASE ~Durable(delta, s) /\ ~(IsGui(s) /\ (s.mark = "news" \/ Moved(watch, s)))
      <4>1. J = Stalled(watch, seen, delta, s)
        BY <1>6, <1>11, <2>1, <2>5, <3>3
      <4> QED  BY <1>3, <1>11, <4>1, StalledVerdict DEF J, escaped
    <3> QED  BY <3>1, <3>2, <3>3
  <2> QED  BY <2>2, <2>3, <2>4, <2>5
<1> QED  BY <1>8, <1>9, <1>10, <1>11
\* The record of a walk, without what it means.
WalkShape(k) ==
    k \in [at : {k.at}, tools : {k.tools}, world : {k.world},
           signal : {k.signal}, store : {k.store}, left : {k.left},
           warned : {k.warned}, stuck : {k.stuck}]

\* A judged step keeps the invariant, and a block is earned.
LEMMA JudgeKeeps ==
    ASSUME MonitorInv, NEW s, StepLike(s), Judge(s)
    PROVE  /\ MonitorInv'
           /\ walk'.at = "blocked" => walk'.warned /\ watch'.world = watch.world
PROOF
<1>1. PICK delta : delta = Delta(walk.store, s)
  OBVIOUS
<1>2. PICK v : v = Judged(watch, delta, s)
  OBVIOUS
<1>3. PICK escaped \in BOOLEAN : escaped <=> Escaped(watch, delta, s)
  OBVIOUS
<1>4. Verdict(v, s, Escaped(watch, delta, s))
  BY <1>2, JudgedVerdict
<1>5. PICK u : u = [v.watch EXCEPT !.center = NoCenter, !.active = NoSignal]
  OBVIOUS
<1>6. /\ watch' = IF v.say = "block" THEN u ELSE v.watch
      /\ walk' = [walk EXCEPT
           !.at = IF v.say = "block" THEN "blocked" ELSE "running",
           !.world = s.after, !.store = Stored(@, s), !.left = @ - 1,
           !.signal = IF v.say = "block" THEN NoSignal ELSE v.watch.active,
           !.warned = ~Escaped(watch, delta, s) /\ (@ \/ walk.signal # NoSignal),
           !.stuck = IF watch.center = NoCenter \/ Escaped(watch, delta, s) THEN 0
                     ELSE @ + 1]
  BY <1>1, <1>2, <1>5 DEF Judge
<1>7. PICK place, signal, warned, stuck, store, left :
        /\ walk' = [walk EXCEPT !.at = place, !.world = s.after, !.store = store,
                                !.left = left, !.signal = signal, !.warned = warned,
                                !.stuck = stuck]
        /\ place = IF v.say = "block" THEN "blocked" ELSE "running"
        /\ signal = IF v.say = "block" THEN NoSignal ELSE v.watch.active
        /\ warned = (~Escaped(watch, delta, s) /\ (walk.warned \/ walk.signal # NoSignal))
        /\ stuck = IF watch.center = NoCenter \/ Escaped(watch, delta, s) THEN 0
                   ELSE walk.stuck + 1
  BY ONLY <1>6
<1>8. WalkShape(walk) /\ walk.stuck \in Nat /\ walk.warned \in BOOLEAN
  BY DEF MonitorInv, MonitorTypeOK, WalkLike, WalkShape
<1>9. /\ WalkShape(walk') /\ walk'.at = place /\ walk'.world = s.after
      /\ walk'.signal = signal /\ walk'.warned = warned /\ walk'.stuck = stuck
  BY ONLY <1>7, <1>8 DEF WalkShape
<1>10. walk'.warned <=> ~Escaped(watch, delta, s) /\ (walk.warned \/ walk.signal # NoSignal)
  BY <1>7, <1>9
<1>11. WatchLike(v.watch) /\ v.watch.world = s.after
  BY <1>4 DEF Verdict
<1>12. /\ WatchLike(u) /\ u.world = s.after
       /\ u.center = NoCenter /\ u.active = NoSignal
  <2>1. WatchShape(v.watch)
    BY <1>11 DEF WatchLike, WatchShape
  <2>2. /\ WatchShape(u) /\ u.center = NoCenter /\ u.active = NoSignal
        /\ u.world = v.watch.world /\ u.recent = v.watch.recent
    BY ONLY <1>5, <2>1 DEF WatchShape
  <2>3. CenterLike(NoCenter)
    BY DEF CenterLike, NoCenter, Center
  <2>4. NoSignal = [center |-> NoSignal.center, prohibits |-> NoSignal.prohibits]
    BY DEF NoSignal, Signal
  <2> QED  BY <1>11, <2>2, <2>3, <2>4 DEF WatchLike, WatchShape
<1>13. WatchLike(watch')
  BY <1>6, <1>11, <1>12
<1>14. walk'.warned \in BOOLEAN /\ walk'.stuck \in Nat /\ walk'.world \in PublicWorlds
  <2>1. warned \in BOOLEAN /\ stuck \in Nat
    BY <1>7, <1>8
  <2> QED  BY <1>9, <2>1 DEF StepLike
<1>15. MonitorTypeOK'
  BY <1>9, <1>13, <1>14 DEF MonitorTypeOK, WatchLike, WalkLike, WalkShape
<1>16. walk.signal = watch.active
  BY DEF MonitorInv
<1>17. /\ watch.center # NoCenter =>
            /\ Roomy(watch.center, walk.stuck)
            /\ walk.warned \/ walk.signal # NoSignal
  BY <1>16 DEF MonitorInv
<1>18. Window \in Nat \ {0}
  BY WindowAssumption
<1>19. walk'.stuck <= Window
  <2>1. CASE watch.center = NoCenter \/ Escaped(watch, delta, s)
    BY <1>7, <1>9, <1>18, <2>1
  <2>2. CASE ~(watch.center = NoCenter \/ Escaped(watch, delta, s))
    <3>1. walk'.stuck = walk.stuck + 1
      BY <1>7, <1>9, <2>2
    <3>2. Cardinality(watch.center.members) \in (walk.stuck + 1) .. Window
      BY <1>17, <2>2 DEF Roomy
    <3> QED  BY <1>8, <1>18, <3>1, <3>2
  <2> QED  BY <2>1, <2>2
<1>20. CASE v.say = "block"
  <2>1. /\ watch' = u /\ walk'.at = "blocked" /\ walk'.signal = NoSignal
    BY <1>6, <1>7, <1>9, <1>20
  <2>2. watch.center # NoCenter /\ ~Escaped(watch, delta, s)
    BY <1>4, <1>20 DEF Verdict
  <2>3. walk'.warned
    BY <1>10, <1>17, <2>2
  <2>4. s.after = watch.world
    BY <2>2 DEF Escaped, Moved
  <2>5. ~NoCenter.armed
    BY DEF NoCenter, Center
  <2> QED  BY <1>12, <1>15, <1>19, <2>1, <2>3, <2>4, <2>5 DEF MonitorInv
<1>21. CASE v.say = "continue" /\ v.watch.active = NoSignal /\ v.watch.center = NoCenter
  <2>1. watch' = v.watch /\ walk'.at = "running" /\ walk'.signal = NoSignal
    BY <1>6, <1>7, <1>9, <1>21
  <2>2. ~NoCenter.armed
    BY DEF NoCenter, Center
  <2> QED  BY <1>15, <1>19, <1>21, <2>1, <2>2 DEF MonitorInv
<1>22. CASE /\ v.say = "continue" /\ v.watch.active = NoSignal
            /\ watch.center # NoCenter /\ ~Escaped(watch, delta, s)
            /\ v.watch.center # NoCenter /\ v.watch.center.armed
            /\ Roomy(v.watch.center, walk.stuck + 1)
  <2>1. watch' = v.watch /\ walk'.at = "running" /\ walk'.signal = NoSignal
    BY <1>6, <1>7, <1>9, <1>22
  <2>2. walk'.warned
    BY <1>10, <1>17, <1>22
  <2>3. walk'.stuck = walk.stuck + 1
    BY <1>7, <1>9, <1>22
  <2> QED  BY <1>15, <1>19, <1>22, <2>1, <2>2, <2>3 DEF MonitorInv
<1>23. CASE /\ v.say = "recover" /\ watch.center = NoCenter
            /\ v.watch.center # NoCenter /\ ~v.watch.center.armed
            /\ Roomy(v.watch.center, 0)
            /\ v.watch.active # NoSignal /\ v.watch.active.center = v.watch.center
  <2>1. watch' = v.watch /\ walk'.at = "running" /\ walk'.signal = v.watch.active
    BY <1>6, <1>7, <1>9, <1>23
  <2>2. walk'.stuck = 0
    BY <1>7, <1>9, <1>23
  <2> QED  BY <1>15, <1>19, <1>23, <2>1, <2>2 DEF MonitorInv
<1> QED  BY <1>4, <1>20, <1>21, <1>22, <1>23 DEF Verdict
\* The attempts of the policy, and what the core loop makes of them.
LEMMA AttemptsAreSteps ==
    ASSUME MonitorInv, NEW s \in Attempts
    PROVE  StepLike(s) /\ StepLike(Admitted(s))
PROOF
<1>1. walk.world \in PublicWorlds
  BY DEF MonitorInv, MonitorTypeOK, WalkLike
<1>2. ASSUME NEW op \in Operations \cup {"look", "read", "page", "refused", "none"},
             NEW got \in 0 .. 2
      PROVE  SignatureOf(op, walk.world, got) \in Signatures
  BY <1>1 DEF SignatureOf, Attempted, Signatures
<1>3. \/ \E op \in Operations, after \in PublicWorlds, mark \in Marks :
           s = Step(op, SignatureOf(op, walk.world, 0), after, 0, mark)
      \/ \E after \in PublicWorlds, got \in 0..1, mark \in {"read", "unusable", "unavailable"} :
           s = Step("look", SignatureOf("look", walk.world, 0), after, got, mark)
      \/ \E op \in {"read", "page"}, got \in 0..1 :
           s = Step(op, SignatureOf(op, walk.world, got), walk.world, got, "read")
      \/ s = Step("refused", SignatureOf("read", walk.world, 2), walk.world, 0, "refused")
  BY DEF Attempts
<1>4. ASSUME NEW op, NEW sig \in Signatures, NEW after \in PublicWorlds, NEW got,
             NEW mark, s = Step(op, sig, after, got, mark)
      PROVE  StepLike(s)
  BY <1>4 DEF StepLike, Step
<1>5. StepLike(s)
  <2>1. CASE \E op \in Operations, after \in PublicWorlds, mark \in Marks :
               s = Step(op, SignatureOf(op, walk.world, 0), after, 0, mark)
    <3>1. PICK op \in Operations, after \in PublicWorlds, mark \in Marks :
            s = Step(op, SignatureOf(op, walk.world, 0), after, 0, mark)
      BY <2>1
    <3>2. SignatureOf(op, walk.world, 0) \in Signatures
      BY <1>2
    <3> QED  BY <1>4, <3>1, <3>2
  <2>2. CASE \E after \in PublicWorlds, got \in 0..1, mark \in {"read", "unusable", "unavailable"} :
               s = Step("look", SignatureOf("look", walk.world, 0), after, got, mark)
    <3>1. PICK after \in PublicWorlds, got \in 0..1, mark \in {"read", "unusable", "unavailable"} :
            s = Step("look", SignatureOf("look", walk.world, 0), after, got, mark)
      BY <2>2
    <3>2. SignatureOf("look", walk.world, 0) \in Signatures
      BY <1>2
    <3> QED  BY <1>4, <3>1, <3>2
  <2>3. CASE \E op \in {"read", "page"}, got \in 0..1 :
               s = Step(op, SignatureOf(op, walk.world, got), walk.world, got, "read")
    <3>1. PICK op \in {"read", "page"}, got \in 0..1 :
            s = Step(op, SignatureOf(op, walk.world, got), walk.world, got, "read")
      BY <2>3
    <3>2. got \in 0 .. 2
      OBVIOUS
    <3>3. SignatureOf(op, walk.world, got) \in Signatures
      BY <1>2, <3>2
    <3> QED  BY <1>1, <1>4, <3>1, <3>3
  <2>4. CASE s = Step("refused", SignatureOf("read", walk.world, 2), walk.world, 0, "refused")
    <3>1. SignatureOf("read", walk.world, 2) \in Signatures
      BY <1>2
    <3> QED  BY <1>1, <1>4, <2>4, <3>1
  <2> QED  BY <1>3, <2>1, <2>2, <2>3, <2>4
<1> QED
  BY <1>1, <1>5 DEF Admitted, StepLike, Step

\* An episode that starts has no center, no signal and a run of its own.
LEMMA StartsKeeps ==
    ASSUME NEW w \in PublicWorlds, NEW k,
           watch' = MonitorStarted(w), walk' = [FreshRun(w, k.tools) EXCEPT !.left = k.left]
    PROVE  MonitorInv'
PROOF
<1>1. Window \in Nat \ {0}
  BY WindowAssumption
<1>2. <<>> \in Seq(Transitions) /\ Len(<<>>) = 0
  OBVIOUS
<1>3. /\ watch'.center = NoCenter /\ watch'.active = NoSignal
      /\ watch'.recent = <<>> /\ WatchShape(watch')
  BY DEF MonitorStarted, WatchShape
<1>4. CenterLike(NoCenter) /\ ~NoCenter.armed
  BY DEF CenterLike, NoCenter, Center
<1>5. NoSignal = [center |-> NoSignal.center, prohibits |-> NoSignal.prohibits]
  BY DEF NoSignal, Signal
<1>6. WatchLike(watch')
  BY <1>1, <1>2, <1>3, <1>4, <1>5 DEF WatchLike, WatchShape
<1>7. /\ WalkShape(walk') /\ walk'.world = w /\ walk'.signal = NoSignal
      /\ walk'.warned \in BOOLEAN /\ walk'.stuck = 0
  BY DEF FreshRun, WalkShape
<1>8. MonitorTypeOK'
  <2>1. walk'.warned \in BOOLEAN /\ walk'.stuck \in Nat /\ walk'.world \in PublicWorlds
    BY <1>7
  <2> QED  BY <1>6, <1>7, <2>1 DEF MonitorTypeOK, WatchLike, WalkLike, WalkShape
<1> QED
  BY <1>1, <1>3, <1>4, <1>7, <1>8 DEF MonitorInv

\* A step that is not judged keeps the watch, the signal and the warning.
LEMMA UnjudgedKeeps ==
    ASSUME MonitorInv, UNCHANGED watch, WalkShape(walk'),
           walk'.world \in PublicWorlds, walk'.signal = walk.signal,
           walk'.warned = walk.warned, walk'.stuck = walk.stuck
    PROVE  MonitorInv'
PROOF
<1>1. MonitorTypeOK'
  BY DEF MonitorInv, MonitorTypeOK, WatchLike, WalkLike, WalkShape
<1> QED  BY <1>1 DEF MonitorInv

\* A new process restores the center with its signal, or with the world the
\* center was left in.
LEMMA RestoreKeeps ==
    ASSUME MonitorInv, RestorePaused
    PROVE  MonitorInv' /\ walk'.at = "running"
PROOF
<1>1. PICK w \in PublicWorlds :
        /\ watch' = Restored(w)
        /\ walk' = [walk EXCEPT
               !.at = "running", !.world = w,
               !.warned = @ /\ w = watch.world,
               !.stuck = IF Restored(w).center = NoCenter THEN 0 ELSE @]
  BY DEF RestorePaused
<1>2. /\ WatchLike(watch) /\ walk.signal = watch.active
      /\ WalkShape(walk) /\ walk.stuck \in Nat /\ walk.warned \in BOOLEAN
      /\ walk.stuck <= Window
  BY DEF MonitorInv, MonitorTypeOK, WalkLike, WalkShape
<1>3. Window \in Nat \ {0}
  BY WindowAssumption
<1>4. PICK warned \in BOOLEAN : warned <=> walk.warned /\ w = watch.world
  OBVIOUS
<1>5. /\ WalkShape(walk') /\ walk'.at = "running" /\ walk'.world = w
      /\ walk'.signal = walk.signal
      /\ walk'.stuck = IF Restored(w).center = NoCenter THEN 0 ELSE walk.stuck
      /\ walk'.warned = (walk.warned /\ w = watch.world)
  BY ONLY <1>1, <1>2 DEF WalkShape
<1>6. PICK c, latest, same :
        /\ watch' = [MonitorStarted(w) EXCEPT !.center = c, !.active = walk.signal,
                                              !.latest = latest, !.same = same]
        /\ c = IF walk.signal # NoSignal THEN walk.signal.center
               ELSE IF watch.world = w THEN watch.center ELSE NoCenter
  BY <1>1 DEF Restored
<1>7. /\ WatchShape(watch') /\ watch'.center = c /\ watch'.active = walk.signal
      /\ watch'.recent = <<>>
  BY ONLY <1>6 DEF MonitorStarted, WatchShape
<1>8. CenterLike(NoCenter) /\ ~NoCenter.armed
  BY DEF CenterLike, NoCenter, Center
<1>9. \/ walk.signal # NoSignal /\ c = watch.center
      \/ walk.signal = NoSignal /\ watch.world = w /\ c = watch.center
      \/ walk.signal = NoSignal /\ c = NoCenter
  BY <1>2, <1>6 DEF MonitorInv
<1>10. <<>> \in Seq(Transitions) /\ Len(<<>>) = 0
  OBVIOUS
<1>11. CenterLike(c)
  BY <1>2, <1>8, <1>9 DEF WatchLike
<1>12. WatchLike(watch')
  BY <1>2, <1>3, <1>7, <1>10, <1>11 DEF WatchLike, WatchShape
<1>13. walk'.stuck = IF c = NoCenter THEN 0 ELSE walk.stuck
  BY <1>1, <1>5, <1>7
<1>14. walk'.warned \in BOOLEAN /\ walk'.stuck \in Nat /\ walk'.stuck <= Window
  <2>1. walk'.warned \in BOOLEAN
    BY ONLY <1>5
  <2>2. walk'.stuck \in Nat /\ walk'.stuck <= Window
    BY <1>2, <1>3, <1>13
  <2> QED  BY <2>1, <2>2
<1>15. MonitorTypeOK'
  BY <1>5, <1>12, <1>14 DEF MonitorTypeOK, WatchLike, WalkLike, WalkShape
<1>16. c # NoCenter => c = watch.center
  BY <1>9
<1>17. walk.signal # NoSignal => c = watch.center
  BY <1>9
<1>18. c.armed => walk'.warned
  <2> SUFFICES ASSUME c.armed PROVE walk'.warned
    OBVIOUS
  <2>1. c = watch.center /\ walk.signal = NoSignal /\ watch.world = w
    BY <1>2, <1>8, <1>9 DEF MonitorInv
  <2>2. walk.warned
    BY <2>1 DEF MonitorInv
  <2> QED  BY <1>5, <2>1, <2>2
<1>19. watch'.active # NoSignal =>
         /\ watch'.active.center = c /\ c # NoCenter /\ ~c.armed
  BY <1>2, <1>7, <1>17 DEF MonitorInv
<1>20. c # NoCenter => /\ walk.signal = NoSignal => c.armed
                       /\ Roomy(c, walk'.stuck)
  BY <1>2, <1>13, <1>16 DEF MonitorInv
<1> QED
  BY <1>5, <1>7, <1>14, <1>15, <1>18, <1>19, <1>20 DEF MonitorInv

\* An episode begins without a center.
LEMMA MonitorInvInit == MonitorInit => MonitorInv
PROOF
<1> SUFFICES ASSUME MonitorInit PROVE MonitorInv
  OBVIOUS
<1>1. PICK w \in PublicWorlds, tools \in Toolsets :
        watch = MonitorStarted(w) /\ walk = FreshRun(w, tools)
  BY DEF MonitorInit
<1>2. Window \in Nat \ {0}
  BY WindowAssumption
<1>3. <<>> \in Seq(Transitions) /\ Len(<<>>) = 0
  OBVIOUS
<1>4. /\ watch.center = NoCenter /\ watch.active = NoSignal
      /\ watch.recent = <<>> /\ WatchShape(watch)
  BY <1>1 DEF MonitorStarted, WatchShape
<1>5. CenterLike(NoCenter) /\ ~NoCenter.armed
  BY DEF CenterLike, NoCenter, Center
<1>6. NoSignal = [center |-> NoSignal.center, prohibits |-> NoSignal.prohibits]
  BY DEF NoSignal, Signal
<1>7. WatchLike(watch)
  BY <1>2, <1>3, <1>4, <1>5, <1>6 DEF WatchLike, WatchShape
<1>8. /\ WalkShape(walk) /\ walk.world = w /\ walk.signal = NoSignal
      /\ walk.warned \in BOOLEAN /\ walk.stuck = 0
  BY <1>1 DEF FreshRun, WalkShape
<1>9. MonitorTypeOK
  BY <1>7, <1>8 DEF MonitorTypeOK, WalkLike, WalkShape
<1> QED
  BY <1>2, <1>4, <1>5, <1>8, <1>9 DEF MonitorInv

\* What each step of the run keeps, and when it ends the run.
LEMMA MonitorStep ==
    ASSUME MonitorInv, [MonitorNext]_monitorVars
    PROVE  /\ MonitorInv'
           /\ walk.at # "blocked" /\ walk'.at = "blocked" =>
                walk'.warned /\ watch'.world = watch.world
PROOF
<1>1. WalkShape(walk) /\ walk.world \in PublicWorlds
  BY DEF MonitorInv, MonitorTypeOK, WalkLike, WalkShape
<1>2. CASE Decide
  BY <1>2, AttemptsAreSteps, JudgeKeeps DEF Decide
<1>3. CASE Ask
  <2>1. PICK place \in {"asked", "confirming"} :
          walk' = [walk EXCEPT !.at = place, !.left = @ - 1]
    BY <1>3 DEF Ask
  <2>2. /\ WalkShape(walk') /\ walk'.at = place /\ walk'.world = walk.world
        /\ walk'.signal = walk.signal /\ walk'.warned = walk.warned
        /\ walk'.stuck = walk.stuck
    BY ONLY <1>1, <2>1 DEF WalkShape
  <2> QED  BY <1>1, <1>3, <2>2, UnjudgedKeeps DEF Ask
<1>4. CASE PauseAfterStep
  <2>1. PICK s \in Attempts :
          walk' = [walk EXCEPT !.at = "paused", !.world = Admitted(s).after,
                               !.store = Stored(@, Admitted(s)), !.left = @ - 1]
    BY <1>4 DEF PauseAfterStep
  <2>2. Admitted(s).after \in PublicWorlds
    BY AttemptsAreSteps DEF StepLike
  <2>3. /\ WalkShape(walk') /\ walk'.at = "paused" /\ walk'.world = Admitted(s).after
        /\ walk'.signal = walk.signal /\ walk'.warned = walk.warned
        /\ walk'.stuck = walk.stuck
    BY ONLY <1>1, <2>1 DEF WalkShape
  <2> QED  BY <1>4, <2>2, <2>3, UnjudgedKeeps DEF PauseAfterStep
<1>5. CASE PauseBeforePolicy \/ Decline
  <2>1. PICK place \in {"paused", "running"} : walk' = [walk EXCEPT !.at = place]
    BY <1>5 DEF PauseBeforePolicy, Decline
  <2>2. /\ WalkShape(walk') /\ walk'.at = place /\ walk'.world = walk.world
        /\ walk'.signal = walk.signal /\ walk'.warned = walk.warned
        /\ walk'.stuck = walk.stuck
    BY ONLY <1>1, <2>1 DEF WalkShape
  <2>3. watch' = watch
    BY <1>5 DEF PauseBeforePolicy, Decline
  <2> QED  BY <1>1, <2>2, <2>3, UnjudgedKeeps
<1>6. CASE Approve
  BY <1>6, AttemptsAreSteps, JudgeKeeps DEF Approve
<1>7. CASE AnswerUser \/ RevisePaused
  <2>1. PICK w \in PublicWorlds : StartsAgain(w)
    BY <1>1, <1>7 DEF AnswerUser, RevisePaused
  <2>2. MonitorInv'
    BY <2>1, StartsKeeps DEF StartsAgain
  <2>3. walk'.at = "running"
    BY <2>1 DEF StartsAgain, FreshRun
  <2> QED  BY <2>2, <2>3
<1>8. CASE ResumeInProcess
  <2>1. PICK w \in PublicWorlds : walk' = [walk EXCEPT !.at = "running", !.world = w]
    BY <1>8 DEF ResumeInProcess
  <2>2. /\ WalkShape(walk') /\ walk'.at = "running" /\ walk'.world = w
        /\ walk'.signal = walk.signal /\ walk'.warned = walk.warned
        /\ walk'.stuck = walk.stuck
    BY ONLY <1>1, <2>1 DEF WalkShape
  <2> QED  BY <1>8, <2>2, UnjudgedKeeps DEF ResumeInProcess
<1>9. CASE RestorePaused
  BY <1>9, RestoreKeeps
<1>10. CASE UNCHANGED monitorVars
  BY <1>1, <1>10, UnjudgedKeeps DEF monitorVars
<1> QED
  BY <1>2, <1>3, <1>4, <1>5, <1>6, <1>7, <1>8, <1>9, <1>10 DEF MonitorNext

\* The invariant of the monitor holds in every reachable state, for every
\* window, set of worlds, tools and number of decisions.
THEOREM MonitorIsSound == MonitorSpec => []MonitorInv
PROOF
<1>1. MonitorInv /\ [MonitorNext]_monitorVars => MonitorInv'
  BY MonitorStep
<1> QED
  BY <1>1, MonitorInvInit, PTL DEF MonitorSpec

\* Once a failure center is open, the policy has at most Window decisions to
\* leave it, whatever pauses, confirmations and restores come in between; and
\* a center whose signal is gone is armed (evaluate, restore_episode).
THEOREM StallsEnd == MonitorSpec => []StallEnds
PROOF
<1>1. MonitorInv => StallEnds
  BY DEF MonitorInv, StallEnds
<1> QED
  BY <1>1, MonitorIsSound, PTL

\* No run is blocked as stalled but for a step that neither changed the world
\* nor brought news, after the policy was warned (evaluate,
\* restore_episode, start_episode).
THEOREM BlocksAreEarned == MonitorSpec => BlockIsEarned
PROOF
<1>1. MonitorInv /\ [MonitorNext]_monitorVars =>
        [walk.at # "blocked" /\ walk'.at = "blocked" =>
           walk'.warned /\ watch'.world = watch.world]_monitorVars
  BY MonitorStep
<1> QED
  BY <1>1, MonitorIsSound, PTL DEF MonitorSpec, BlockIsEarned
-----------------------------------------------------------------------------
(* The policy bridge: histories.                                           *)

\* A set that has 0 and the next of each has all numbers up to a bound.
LEMMA UpToInduction ==
    ASSUME NEW S, NEW n \in Nat, 0 \in S,
           \A m \in 0 .. n : m < n /\ m \in S => m + 1 \in S
    PROVE  \A m \in 0 .. n : m \in S
PROOF
<1> DEFINE B == {m \in 0 .. n : m \notin S}
<1> SUFFICES ASSUME B # {} PROVE FALSE
  OBVIOUS
<1>1. B \in SUBSET Nat
  OBVIOUS
<1>2. PICK x \in B : \A y \in B : x <= y
  BY ONLY <1>1, B # {}, LeastOfSome
<1>3. x # 0 /\ x \in 0 .. n
  OBVIOUS
<1>4. x - 1 \in 0 .. n /\ x - 1 < n /\ x - 1 + 1 = x /\ ~(x <= x - 1)
  BY <1>3
<1>5. x - 1 \notin B
  BY <1>2, <1>4
<1>6. x - 1 \in S
  BY <1>4, <1>5
<1>7. x \in S
  BY <1>4, <1>6
<1> QED  BY <1>7

\* What Folded computes on the way.
FoldsUpTo(h, n, f) ==
    f = [i \in 0 .. n |->
           IF i = 0 THEN <<>>
           ELSE IF h[i].kind = "prompt" THEN f[i - 1] ELSE Append(f[i - 1], h[i])]

\* Such a function exists for every length.
LEMMA FoldExists ==
    ASSUME NEW h, NEW n \in Nat
    PROVE  \E f : FoldsUpTo(h, n, f)
PROOF
<1> DEFINE S == {m \in 0 .. n : \E f : FoldsUpTo(h, m, f)}
<1>1. 0 \in S
  <2> DEFINE f == [i \in 0 .. 0 |-> <<>>]
  <2>1. \A i \in 0 .. 0 : i = 0
    OBVIOUS
  <2>2. FoldsUpTo(h, 0, f)
    BY <2>1 DEF FoldsUpTo
  <2> QED  BY <2>2
<1>2. ASSUME NEW m \in 0 .. n, m < n, m \in S PROVE m + 1 \in S
  <2>1. PICK f : FoldsUpTo(h, m, f)
    BY <1>2
  <2> DEFINE last == IF h[m + 1].kind = "prompt" THEN f[m] ELSE Append(f[m], h[m + 1])
             g == [i \in 0 .. (m + 1) |-> IF i = m + 1 THEN last ELSE f[i]]
             body(i) == IF i = 0 THEN <<>>
                        ELSE IF h[i].kind = "prompt" THEN g[i - 1] ELSE Append(g[i - 1], h[i])
  <2>2. ASSUME NEW i \in 0 .. (m + 1) PROVE g[i] = body(i)
    <3>1. CASE i = 0
      <4>1. f[0] = <<>>
        BY <2>1 DEF FoldsUpTo
      <4> QED  BY <3>1, <4>1
    <3>2. CASE i \in 1 .. m
      <4>1. i - 1 \in 0 .. m /\ i \in 0 .. m /\ i # m + 1 /\ i - 1 # m + 1 /\ i # 0
            /\ i - 1 \in 0 .. (m + 1)
        BY <3>2
      <4>2. g[i] = f[i] /\ g[i - 1] = f[i - 1]
        BY <4>1
      <4>3. f[i] = IF h[i].kind = "prompt" THEN f[i - 1] ELSE Append(f[i - 1], h[i])
        BY <2>1, <4>1 DEF FoldsUpTo
      <4> HIDE DEF g
      <4> QED  BY <4>1, <4>2, <4>3
    <3>3. CASE i = m + 1
      <4>1. m \in 0 .. (m + 1) /\ m # m + 1 /\ i # 0 /\ i - 1 = m
        BY <3>3
      <4>2. g[i] = last /\ g[i - 1] = f[m]
        BY <3>3, <4>1
      <4> HIDE DEF g
      <4> QED  BY <3>3, <4>1, <4>2
    <3> QED  BY <3>1, <3>2, <3>3
  <2>3. g = [i \in 0 .. (m + 1) |-> body(i)]
    BY <2>2
  <2>4. FoldsUpTo(h, m + 1, g)
    BY <2>3 DEF FoldsUpTo
  <2>5. m + 1 \in 0 .. n
    BY <1>2
  <2> QED  BY <2>4, <2>5
<1> HIDE DEF S
<1>3. \A m \in 0 .. n : m \in S
  BY <1>1, <1>2, UpToInduction
<1> QED  BY <1>3 DEF S

\* Folded is what the last of these steps gives.
LEMMA FoldedIsFold ==
    ASSUME NEW h, Len(h) \in Nat
    PROVE  \E f : FoldsUpTo(h, Len(h), f) /\ Folded(h) = f[Len(h)]
PROOF
<1> DEFINE f == CHOOSE f : FoldsUpTo(h, Len(h), f)
<1>1. FoldsUpTo(h, Len(h), f)
  BY FoldExists
<1>2. Folded(h) = f[Len(h)]
  BY DEF Folded, FoldsUpTo
<1> QED  BY <1>1, <1>2
\* A sequence is the selection of what is no prompt among the first entries
\* of another: the places its entries come from, in their order.
Selects(g, h, m, at) ==
    /\ at \in [1 .. Len(g) -> 1 .. m]
    /\ \A k \in 1 .. Len(g) : g[k] = h[at[k]] /\ h[at[k]].kind # "prompt"
    /\ \A k, l \in 1 .. Len(g) : k < l => at[k] < at[l]
    /\ \A i \in 1 .. m : h[i].kind # "prompt" => \E k \in 1 .. Len(g) : at[k] = i

\* A selection of the first m messages is extended by the next one.
LEMMA SelectionGrows ==
    ASSUME NEW S, NEW h \in Seq(S), NEW g \in Seq(S), NEW m \in 0 .. Len(h),
           m < Len(h), NEW at, Selects(g, h, m, at)
    PROVE  LET e == IF h[m + 1].kind = "prompt" THEN g ELSE Append(g, h[m + 1])
           IN  e \in Seq(S) /\ \E a : Selects(e, h, m + 1, a)
PROOF
<1>1. Len(g) \in Nat /\ Len(h) \in Nat /\ m \in Nat /\ h[m + 1] \in S
  OBVIOUS
<1>2. CASE h[m + 1].kind = "prompt"
  <2>1. Selects(g, h, m + 1, at)
    <3>1. at \in [1 .. Len(g) -> 1 .. (m + 1)]
      BY <1>1 DEF Selects
    <3>2. \A i \in 1 .. (m + 1) : h[i].kind # "prompt" => i \in 1 .. m
      BY <1>1, <1>2
    <3> QED  BY <3>1, <3>2 DEF Selects
  <2> QED  BY <1>2, <2>1
<1>3. CASE h[m + 1].kind # "prompt"
  <2> DEFINE e == Append(g, h[m + 1])
             a == [k \in 1 .. (Len(g) + 1) |-> IF k = Len(g) + 1 THEN m + 1 ELSE at[k]]
  <2>1. /\ e \in Seq(S) /\ Len(e) = Len(g) + 1
        /\ e[Len(g) + 1] = h[m + 1]
        /\ \A k \in 1 .. Len(g) : e[k] = g[k]
    BY <1>1
  <2>2. /\ a[Len(g) + 1] = m + 1
        /\ \A k \in 1 .. Len(g) : a[k] = at[k] /\ a[k] \in 1 .. m
        /\ a = [k \in 1 .. Len(e) |-> a[k]]
    <3>1. Len(g) + 1 \in 1 .. (Len(g) + 1)
      BY ONLY <1>1
    <3>2. \A k \in 1 .. Len(g) : k \in 1 .. (Len(g) + 1) /\ k # Len(g) + 1
      BY ONLY <1>1
    <3>3. \A k \in 1 .. Len(g) : at[k] \in 1 .. m
      BY DEF Selects
    <3>4. a[Len(g) + 1] = m + 1
      BY ONLY <3>1
    <3>5. \A k \in 1 .. Len(g) : a[k] = at[k]
      BY ONLY <3>2
    <3>6. 1 .. Len(e) = 1 .. (Len(g) + 1)
      BY ONLY <2>1
    <3>7. a = [k \in 1 .. Len(e) |-> a[k]]
      BY ONLY <3>6
    <3> QED  BY ONLY <3>3, <3>4, <3>5, <3>7
  <2>3. \A k \in 1 .. Len(e) : k = Len(g) + 1 \/ k \in 1 .. Len(g)
    BY <1>1, <2>1
  <2>4. Len(g) + 1 \in 1 .. Len(e) /\ \A k \in 1 .. Len(g) : k \in 1 .. Len(e)
    BY <1>1, <2>1
  <2> HIDE DEF e, a
  <2>5. a \in [1 .. Len(e) -> 1 .. (m + 1)]
    <3>1. ASSUME NEW k \in 1 .. Len(e) PROVE a[k] \in 1 .. (m + 1)
      <4>1. CASE k = Len(g) + 1
        <5>1. a[k] = m + 1
          BY <2>2, <4>1
        <5> QED  BY ONLY <1>1, <5>1
      <4>2. CASE k \in 1 .. Len(g)
        <5>1. a[k] \in 1 .. m
          BY <2>2, <4>2
        <5> QED  BY ONLY <1>1, <5>1
      <4> QED  BY <2>3, <4>1, <4>2
    <3> QED  BY <2>2, <3>1
  <2>6. \A k \in 1 .. Len(e) : e[k] = h[a[k]] /\ h[a[k]].kind # "prompt"
    BY <1>3, <2>1, <2>2, <2>3 DEF Selects
  <2>7. \A k, l \in 1 .. Len(e) : k < l => a[k] < a[l]
    <3> SUFFICES ASSUME NEW k \in 1 .. Len(e), NEW l \in 1 .. Len(e), k < l
                 PROVE  a[k] < a[l]
      OBVIOUS
    <3>1. k \in 1 .. Len(g)
      BY <1>1, <2>1
    <3>2. CASE l \in 1 .. Len(g)
      BY <2>2, <3>1, <3>2 DEF Selects
    <3>3. CASE l = Len(g) + 1
      <4>1. a[k] \in 1 .. m /\ a[l] = m + 1
        BY <2>2, <3>1, <3>3
      <4> QED  BY ONLY <1>1, <4>1
    <3> QED  BY <2>3, <3>2, <3>3
  <2>8. \A i \in 1 .. (m + 1) : h[i].kind # "prompt" => \E k \in 1 .. Len(e) : a[k] = i
    <3> SUFFICES ASSUME NEW i \in 1 .. (m + 1), h[i].kind # "prompt"
                 PROVE  \E k \in 1 .. Len(e) : a[k] = i
      OBVIOUS
    <3>1. CASE i = m + 1
      BY <2>2, <2>4, <3>1
    <3>2. CASE i \in 1 .. m
      <4>1. PICK k \in 1 .. Len(g) : at[k] = i
        BY <3>2 DEF Selects
      <4> QED  BY <2>2, <2>4, <4>1
    <3> QED  BY <1>1, <3>1, <3>2
  <2>9. Selects(e, h, m + 1, a)
    BY <2>5, <2>6, <2>7, <2>8 DEF Selects
  <2>10. e \in Seq(S) /\ \E b : Selects(e, h, m + 1, b)
    BY <2>1, <2>9
  <2> QED  BY <1>3, <2>10 DEF e
<1> QED  BY <1>2, <1>3

\* What Folded keeps is everything but the prompts, in its order.
LEMMA FoldedSelects ==
    ASSUME NEW S, NEW h \in Seq(S)
    PROVE  Folded(h) \in Seq(S) /\ \E at : Selects(Folded(h), h, Len(h), at)
PROOF
<1>1. Len(h) \in Nat
  OBVIOUS
<1>2. PICK f : FoldsUpTo(h, Len(h), f) /\ Folded(h) = f[Len(h)]
  BY <1>1, FoldedIsFold
<1> DEFINE T == {m \in 0 .. Len(h) : f[m] \in Seq(S) /\ \E at : Selects(f[m], h, m, at)}
<1>3. 0 \in T
  <2>1. f[0] = <<>>
    BY <1>1, <1>2 DEF FoldsUpTo
  <2>2. <<>> \in Seq(S) /\ Len(<<>>) = 0
    OBVIOUS
  <2>3. Selects(<<>>, h, 0, <<>>)
    BY <2>2 DEF Selects
  <2>4. f[0] \in Seq(S) /\ \E at : Selects(f[0], h, 0, at)
    BY <2>1, <2>2, <2>3
  <2>5. 0 \in 0 .. Len(h)
    BY <1>1
  <2> QED  BY ONLY <2>4, <2>5
<1>4. ASSUME NEW m \in 0 .. Len(h), m < Len(h), m \in T PROVE m + 1 \in T
  <2>1. m + 1 \in 0 .. Len(h) /\ m + 1 # 0 /\ m + 1 - 1 = m
    BY <1>1, <1>4
  <2>2. f[m + 1] = IF h[m + 1].kind = "prompt" THEN f[m] ELSE Append(f[m], h[m + 1])
    <3>1. PICK i : i = m + 1
      OBVIOUS
    <3>2. i \in 0 .. Len(h) /\ i # 0 /\ i - 1 = m
      BY <2>1, <3>1
    <3>3. f[i] = IF h[i].kind = "prompt" THEN f[i - 1] ELSE Append(f[i - 1], h[i])
      BY ONLY <1>2, <3>2 DEF FoldsUpTo
    <3> QED  BY ONLY <3>1, <3>2, <3>3
  <2>3. PICK at : f[m] \in Seq(S) /\ Selects(f[m], h, m, at)
    BY <1>4
  <2>4. f[m + 1] \in Seq(S) /\ \E a : Selects(f[m + 1], h, m + 1, a)
    BY <1>4, <2>2, <2>3, SelectionGrows
  <2> QED  BY <2>1, <2>4
<1> HIDE DEF T
<1>5. \A m \in 0 .. Len(h) : m \in T
  BY <1>1, <1>3, <1>4, UpToInduction
<1>6. Len(h) \in T
  BY <1>1, <1>5
<1> QED  BY <1>2, <1>6 DEF T
\* The messages of a history: what proposes or answers names its calls, and
\* returns are those of the step of their first call.
Messages ==
    {m \in [kind : {"response", "returns", "prompt", "summary"}, calls : Seq(Nat), by : Nat] :
        /\ IsExchange(m) => m.calls # <<>>
        /\ m.kind = "returns" => m.by = Head(m.calls)}

Truthful(h) == h \in Seq(Messages) /\ Codable(h)

\* A history that ends with an exchange, or has not begun.
Ready(h) == h = <<>> \/ IsExchange(Last(h))

\* What the bridge puts into a history is a message.
LEMMA MessagesAre ==
    /\ Prompt \in Messages /\ Summary \in Messages
    /\ \A calls \in Seq(Nat) : calls # <<>> =>
         /\ Response(calls) \in Messages
         /\ Returns(calls, Head(calls)) \in Messages
PROOF
<1>1. <<>> \in Seq(Nat) /\ 0 \in Nat
  OBVIOUS
<1>2. Prompt \in Messages /\ Summary \in Messages
  BY <1>1 DEF Prompt, Summary, Messages, IsExchange, NoCall
<1>3. ASSUME NEW calls \in Seq(Nat), calls # <<>>
      PROVE  /\ Response(calls) \in Messages
             /\ Returns(calls, Head(calls)) \in Messages
  <2>1. Head(calls) \in Nat
    BY <1>3
  <2> QED  BY <1>1, <1>3, <2>1 DEF Response, Returns, Messages, IsExchange, NoCall
<1> QED  BY <1>2, <1>3

\* What a message consists of.
LEMMA MessagesHave ==
    ASSUME NEW m \in Messages
    PROVE  /\ m.kind \in {"response", "returns", "prompt", "summary"}
           /\ m.calls \in Seq(Nat) /\ m.by \in Nat
           /\ IsExchange(m) => m.calls # <<>>
           /\ m.kind = "returns" => m.by = Head(m.calls)
PROOF
  BY DEF Messages

\* One more message: returns close the response before them, a response
\* comes after the returns of the one before it.
LEMMA TrueAppend ==
    ASSUME NEW h, Truthful(h), NEW m \in Messages, m.kind # "summary",
           m.kind = "returns" => /\ h # <<>> /\ Last(h).kind = "response"
                                 /\ m.calls = Last(h).calls,
           m.kind = "response" => \A j \in 1 .. Len(h) : h[j].kind = "response" =>
                                    \E k \in (j + 1) .. Len(h) : IsExchange(h[k])
    PROVE  Truthful(Append(h, m))
PROOF
<1> DEFINE g == Append(h, m)
           n == Len(h)
<1>1. /\ h \in Seq(Messages) /\ n \in Nat
      /\ g \in Seq(Messages) /\ Len(g) = n + 1
      /\ g[n + 1] = m /\ \A i \in 1 .. n : g[i] = h[i]
  BY DEF Truthful
<1>2. Paired(h) /\ \A i \in 1 .. n : h[i].kind = "summary" => i = 1
  BY DEF Truthful, Codable
<1> HIDE DEF g
<1>3. ASSUME NEW i \in 1 .. n, NEW j \in 1 .. (i - 1)
      PROVE  /\ g[i] = h[i] /\ j \in 1 .. n /\ g[j] = h[j]
             /\ NothingBetween(g, j, i) <=> NothingBetween(h, j, i)
  <2>1. j \in 1 .. n /\ \A k \in (j + 1) .. (i - 1) : k \in 1 .. n
    BY <1>1
  <2> QED  BY <1>1, <2>1 DEF NothingBetween
<1>4. ASSUME NEW i \in 1 .. (n + 1)
      PROVE  /\ g[i].kind = "returns" =>
                   \E j \in 1..(i - 1) : /\ g[j].kind = "response"
                                        /\ ToSet(g[i].calls) = ToSet(g[j].calls)
                                        /\ NothingBetween(g, j, i)
             /\ g[i].kind = "response" =>
                   \A j \in 1..(i - 1) : g[j].kind = "response" => ~NothingBetween(g, j, i)
             /\ g[i].kind = "summary" => i = 1
  <2>1. CASE i \in 1 .. n
    <3>1. g[i] = h[i]
      BY <1>1, <2>1
    <3>2. g[i].kind = "returns" =>
            \E j \in 1..(i - 1) : /\ h[j].kind = "response"
                                 /\ ToSet(h[i].calls) = ToSet(h[j].calls)
                                 /\ NothingBetween(h, j, i)
      BY <1>2, <2>1, <3>1 DEF Paired
    <3>3. g[i].kind = "response" =>
            \A j \in 1..(i - 1) : h[j].kind = "response" => ~NothingBetween(h, j, i)
      BY <1>2, <2>1, <3>1 DEF Paired
    <3> QED  BY <1>2, <1>3, <2>1, <3>1, <3>2, <3>3
  <2>2. CASE i = n + 1
    <3>1. g[i] = m /\ i - 1 = n
      BY <1>1, <2>2
    <3>2. ASSUME m.kind = "returns"
          PROVE  \E j \in 1..(i - 1) : /\ g[j].kind = "response"
                                      /\ ToSet(g[i].calls) = ToSet(g[j].calls)
                                      /\ NothingBetween(g, j, i)
      <4>1. n \in 1 .. n /\ g[n] = Last(h) /\ \A k \in (n + 1) .. n : FALSE
        BY <1>1, <3>2 DEF Last
      <4>2. NothingBetween(g, n, i)
        BY <3>1, <4>1 DEF NothingBetween
      <4> QED  BY <3>1, <3>2, <4>1, <4>2
    <3>3. ASSUME m.kind = "response", NEW j \in 1..(i - 1), g[j].kind = "response"
          PROVE  ~NothingBetween(g, j, i)
      <4>1. j \in 1 .. n /\ h[j].kind = "response"
        BY <1>1, <3>1, <3>3
      <4>2. PICK k \in (j + 1) .. n : IsExchange(h[k])
        BY <3>3, <4>1
      <4>3. k \in 1 .. n /\ k \in (j + 1) .. (i - 1)
        BY <1>1, <3>1, <4>1, <4>2
      <4>4. IsExchange(g[k])
        BY <1>1, <4>2, <4>3
      <4> QED  BY <4>3, <4>4 DEF NothingBetween
    <3> QED  BY <3>1, <3>2, <3>3
  <2> QED  BY <1>1, <2>1, <2>2
<1>5. Codable(g)
  BY <1>1, <1>4 DEF Codable, Paired
<1> QED  BY <1>1, <1>5 DEF Truthful, g
\* Without its prompts a true history is as true, and still ends with the
\* same exchange.
LEMMA FoldedIsTrue ==
    ASSUME NEW h, Truthful(h)
    PROVE  /\ Truthful(Folded(h))
           /\ Ready(h) => Ready(Folded(h)) /\ Pending(Folded(h)) = Pending(h)
PROOF
<1> DEFINE g == Folded(h)
<1>1. h \in Seq(Messages) /\ Len(h) \in Nat
  BY DEF Truthful
<1>2. PICK at : g \in Seq(Messages) /\ Selects(g, h, Len(h), at)
  BY <1>1, FoldedSelects
<1>3. Len(g) \in Nat
  BY <1>2
<1> HIDE DEF g
<1>4. \A k \in 1 .. Len(g) : at[k] \in 1 .. Len(h) /\ g[k] = h[at[k]]
  BY <1>2 DEF Selects
<1>5. \A k, l \in 1 .. Len(g) : k < l => at[k] < at[l]
  BY <1>2 DEF Selects
<1>6. \A i \in 1 .. Len(h) : IsExchange(h[i]) => \E k \in 1 .. Len(g) : at[k] = i
  BY <1>2 DEF Selects, IsExchange
<1>7. ASSUME NEW k \in 1 .. Len(g), NEW l \in 1 .. Len(g)
      PROVE  (at[k] < at[l]) <=> (k < l)
  <2>1. at[k] \in Nat /\ at[l] \in Nat /\ k \in Nat /\ l \in Nat
    BY <1>3, <1>4
  <2>2. (k < l => at[k] < at[l]) /\ (l < k => at[l] < at[k]) /\ (k = l => at[k] = at[l])
    BY <1>5
  <2> QED  BY ONLY <2>1, <2>2
<1>8. ASSUME NEW l \in 1 .. Len(g), NEW k \in 1 .. (l - 1)
      PROVE  /\ k \in 1 .. Len(g) /\ at[k] \in 1 .. (at[l] - 1)
             /\ NothingBetween(g, k, l) <=> NothingBetween(h, at[k], at[l])
  <2>1. k \in 1 .. Len(g) /\ k < l
    BY <1>3
  <2>2. at[k] \in 1 .. Len(h) /\ at[l] \in 1 .. Len(h) /\ at[k] < at[l]
    BY <1>4, <1>5, <2>1
  <2>3. at[k] \in 1 .. (at[l] - 1)
    BY ONLY <1>1, <2>2
  <2>4. ASSUME NEW q \in (k + 1) .. (l - 1), IsExchange(g[q])
        PROVE  \E i \in (at[k] + 1) .. (at[l] - 1) : IsExchange(h[i])
    <3>1. q \in 1 .. Len(g) /\ k < q /\ q < l
      BY <1>3, <2>1
    <3>2. at[q] \in 1 .. Len(h) /\ at[k] < at[q] /\ at[q] < at[l]
      BY <1>4, <1>5, <2>1, <3>1
    <3>3. at[q] \in (at[k] + 1) .. (at[l] - 1)
      BY ONLY <1>1, <2>2, <3>2
    <3>4. IsExchange(h[at[q]])
      BY <1>4, <2>4, <3>1
    <3> QED  BY <3>3, <3>4
  <2>5. ASSUME NEW i \in (at[k] + 1) .. (at[l] - 1), IsExchange(h[i])
        PROVE  \E q \in (k + 1) .. (l - 1) : IsExchange(g[q])
    <3>1. i \in 1 .. Len(h) /\ at[k] < i /\ i < at[l]
      BY ONLY <1>1, <2>2, <2>5
    <3>2. PICK q \in 1 .. Len(g) : at[q] = i
      BY <1>6, <2>5, <3>1
    <3>3. k < q /\ q < l
      BY <1>7, <2>1, <3>1, <3>2
    <3>4. q \in (k + 1) .. (l - 1)
      BY ONLY <1>3, <2>1, <3>2, <3>3
    <3>5. IsExchange(g[q])
      BY <1>4, <2>5, <3>2
    <3> QED  BY <3>4, <3>5
  <2> QED  BY <2>1, <2>3, <2>4, <2>5 DEF NothingBetween
<1>9. Paired(h) /\ \A i \in 1 .. Len(h) : h[i].kind = "summary" => i = 1
  BY DEF Truthful, Codable
<1>10. ASSUME NEW l \in 1 .. Len(g), g[l].kind = "returns"
       PROVE  \E k \in 1..(l - 1) : /\ g[k].kind = "response"
                                   /\ ToSet(g[l].calls) = ToSet(g[k].calls)
                                   /\ NothingBetween(g, k, l)
  <2>1. at[l] \in 1 .. Len(h) /\ h[at[l]] = g[l]
    BY <1>4
  <2>2. PICK j \in 1 .. (at[l] - 1) : /\ h[j].kind = "response"
                                      /\ ToSet(h[at[l]].calls) = ToSet(h[j].calls)
                                      /\ NothingBetween(h, j, at[l])
    BY <1>9, <1>10, <2>1 DEF Paired
  <2>3. j \in 1 .. Len(h) /\ j < at[l]
    BY ONLY <1>1, <2>1, <2>2
  <2>4. PICK k \in 1 .. Len(g) : at[k] = j
    BY <1>6, <2>2, <2>3 DEF IsExchange
  <2>5. k < l
    BY <1>7, <2>3, <2>4
  <2>6. k \in 1 .. (l - 1)
    BY ONLY <1>3, <2>4, <2>5
  <2>7. g[k] = h[j]
    BY <1>4, <2>4
  <2>8. NothingBetween(g, k, l)
    BY <1>8, <2>2, <2>4, <2>6
  <2> QED  BY <2>1, <2>2, <2>6, <2>7, <2>8
<1>11. ASSUME NEW l \in 1 .. Len(g), g[l].kind = "response",
              NEW k \in 1..(l - 1), g[k].kind = "response"
       PROVE  ~NothingBetween(g, k, l)
  <2>1. at[l] \in 1 .. Len(h) /\ h[at[l]] = g[l]
    BY <1>4
  <2>2. k \in 1 .. Len(g) /\ at[k] \in 1 .. (at[l] - 1) /\ h[at[k]] = g[k]
    BY <1>4, <1>8
  <2>3. ~NothingBetween(h, at[k], at[l])
    BY <1>9, <1>11, <2>1, <2>2 DEF Paired
  <2> QED  BY <1>8, <2>3
<1>12. ASSUME NEW l \in 1 .. Len(g), g[l].kind = "summary" PROVE l = 1
  <2>1. at[l] = 1
    BY <1>4, <1>9, <1>12
  <2>2. SUFFICES ASSUME l # 1 PROVE FALSE
    OBVIOUS
  <2>3. 1 \in 1 .. Len(g) /\ 1 < l
    BY <1>3, <2>2
  <2>4. at[1] \in 1 .. Len(h) /\ at[1] < at[l]
    BY <1>4, <1>5, <2>3
  <2> QED  BY ONLY <1>1, <2>1, <2>4
<1>13. Truthful(g)
  BY <1>2, <1>10, <1>11, <1>12 DEF Truthful, Codable, Paired
<1>14. ASSUME Ready(h) PROVE Ready(g) /\ Pending(g) = Pending(h)
  <2>1. CASE h = <<>>
    <3>1. Len(h) = 0
      BY <2>1
    <3>2. Len(g) = 0
      <4>1. SUFFICES ASSUME Len(g) # 0 PROVE FALSE
        OBVIOUS
      <4>2. 1 \in 1 .. Len(g)
        BY <1>3, <4>1
      <4>3. at[1] \in 1 .. 0
        BY <1>4, <3>1, <4>2
      <4> QED  BY ONLY <4>3
    <3>3. g = <<>>
      BY <1>2, <3>2
    <3> QED  BY <2>1, <3>3 DEF Ready
  <2>2. CASE h # <<>>
    <3>1. Len(h) \in 1 .. Len(h)
      BY <1>1, <2>2
    <3>2. IsExchange(h[Len(h)])
      BY <1>14, <2>2 DEF Ready, Last
    <3>3. PICK k \in 1 .. Len(g) : at[k] = Len(h)
      BY <1>6, <3>1, <3>2
    <3>4. Len(g) \in 1 .. Len(g) /\ k <= Len(g)
      BY <1>3, <3>3
    <3>5. ~(k < Len(g))
      <4>1. SUFFICES ASSUME k < Len(g) PROVE FALSE
        OBVIOUS
      <4>2. at[k] < at[Len(g)] /\ at[Len(g)] \in 1 .. Len(h)
        BY <1>4, <1>5, <3>4, <4>1
      <4> QED  BY ONLY <1>1, <3>3, <4>2
    <3>6. k = Len(g)
      BY <1>3, <3>3, <3>4, <3>5
    <3>7. g[Len(g)] = h[Len(h)]
      BY <1>4, <3>3, <3>6
    <3>8. g # <<>>
      BY <1>2, <3>4
    <3> QED  BY <2>2, <3>2, <3>7, <3>8 DEF Ready, Pending, Last
  <2> QED  BY <2>1, <2>2
<1> QED  BY <1>13, <1>14 DEF g
\* The open calls of a true history are calls.
LEMMA PendingCalls ==
    ASSUME NEW h, Truthful(h)
    PROVE  /\ Pending(h) \in Seq(Nat)
           /\ Pending(h) # <<>> =>
                h # <<>> /\ Last(h).kind = "response" /\ Last(h).calls = Pending(h)
           /\ h # <<>> /\ Last(h).kind = "response" => Pending(h) # <<>>
PROOF
<1>1. h \in Seq(Messages) /\ Len(h) \in Nat
  BY DEF Truthful
<1>2. h # <<>> => h[Len(h)] \in Messages
  BY <1>1
<1>3. h # <<>> => /\ Last(h).calls \in Seq(Nat)
                  /\ IsExchange(Last(h)) => Last(h).calls # <<>>
  BY <1>2, MessagesHave DEF Last
<1>4. <<>> \in Seq(Nat)
  OBVIOUS
<1> QED  BY <1>3, <1>4 DEF Pending, IsExchange

\* Closing the open calls by the step of the first of them (close_deferred_call,
\* and a failed turn).
LEMMA CloseIsTrue ==
    ASSUME NEW h, Truthful(h), NEW step, Closes(h, step), Pending(h) # <<>>
    PROVE  /\ Truthful(Append(h, Returns(Pending(h), step)))
           /\ h \o <<Returns(Pending(h), step)>> = Append(h, Returns(Pending(h), step))
PROOF
<1> DEFINE m == Returns(Pending(h), step)
<1>1. step = Head(Pending(h))
  BY DEF Closes
<1>2. m \in Messages
  BY <1>1, PendingCalls, MessagesAre
<1>3. m.kind = "returns" /\ m.calls = Pending(h)
  BY DEF Returns
<1> HIDE DEF m
<1>4. Truthful(Append(h, m))
  BY <1>2, <1>3, PendingCalls, TrueAppend
<1>5. h \o <<m>> = Append(h, m)
  BY <1>2 DEF Truthful
<1> QED  BY <1>4, <1>5 DEF m

\* A decision: the open calls are answered with the request, and the response
\* proposes new ones (a decision with a call).
LEMMA DecisionIsTrue ==
    ASSUME NEW h, Truthful(h), Ready(h), NEW step, Closes(h, step),
           NEW calls \in Seq(Nat), calls # <<>>,
           NEW request,
           request = IF Pending(h) = <<>> THEN Prompt ELSE Returns(Pending(h), step)
    PROVE  Truthful(h \o <<request, Response(calls)>>)
PROOF
<1> DEFINE r == Response(calls)
           g == Append(h, request)
<1>1. h \in Seq(Messages) /\ Len(h) \in Nat
  BY DEF Truthful
<1>2. r \in Messages /\ r.kind = "response"
  BY MessagesAre DEF Response
<1>3. Truthful(g) /\ request \in Messages
  <2>1. CASE Pending(h) = <<>>
    <3>1. request \in Messages /\ request.kind = "prompt"
      BY <2>1, MessagesAre DEF Prompt
    <3> QED  BY <3>1, TrueAppend
  <2>2. CASE Pending(h) # <<>>
    <3>1. request = Returns(Pending(h), Head(Pending(h)))
      BY <2>2 DEF Closes
    <3>2. request \in Messages
      BY <2>2, <3>1, PendingCalls, MessagesAre
    <3> QED  BY <2>2, <3>2, CloseIsTrue
  <2> QED  BY <2>1, <2>2
<1>4. /\ g \in Seq(Messages) /\ Len(g) = Len(h) + 1
      /\ g[Len(h) + 1] = request /\ \A i \in 1 .. Len(h) : g[i] = h[i]
  BY <1>1, <1>3
<1> HIDE DEF g, r
<1>5. ASSUME NEW j \in 1 .. Len(g), g[j].kind = "response"
      PROVE  \E k \in (j + 1) .. Len(g) : IsExchange(g[k])
  <2>1. CASE Pending(h) = <<>>
    <3>1. request.kind = "prompt"
      BY <2>1 DEF Prompt
    <3>2. j \in 1 .. Len(h) /\ h[j].kind = "response"
      BY <1>1, <1>4, <1>5, <3>1
    <3>3. h # <<>> /\ IsExchange(h[Len(h)])
      BY <1>1, <3>2 DEF Ready, Last
    <3>4. h[Len(h)].kind # "response"
      BY <2>1, <3>3, PendingCalls DEF Last
    <3>5. Len(h) \in (j + 1) .. Len(g) /\ Len(h) \in 1 .. Len(h)
      <4>1. j # Len(h)
        BY <3>2, <3>4
      <4> QED  BY ONLY <1>1, <1>4, <3>2, <4>1
    <3>6. IsExchange(g[Len(h)])
      BY <1>4, <3>3, <3>5
    <3> QED  BY <3>5, <3>6
  <2>2. CASE Pending(h) # <<>>
    <3>1. request.kind = "returns"
      BY <2>2 DEF Returns
    <3>2. j # Len(h) + 1
      BY <1>4, <1>5, <3>1
    <3>3. Len(h) + 1 \in (j + 1) .. Len(g)
      BY ONLY <1>1, <1>4, <3>2, j \in 1 .. Len(g)
    <3>4. IsExchange(g[Len(h) + 1])
      BY <1>4, <3>1 DEF IsExchange
    <3> QED  BY <3>3, <3>4
  <2> QED  BY <2>1, <2>2
<1>6. Truthful(Append(g, r))
  BY <1>2, <1>3, <1>5, TrueAppend
<1>7. h \o <<request, r>> = Append(g, r)
  BY <1>1, <1>2, <1>3 DEF g
<1> QED  BY <1>6, <1>7 DEF r

\* A compacted history is used only if it is one (Compacted), and its messages
\* are those of the exact one.
LEMMA CompactedIsTrue ==
    ASSUME NEW h, Truthful(h), Ready(h), NEW cut \in 1 .. Len(h),
           NEW extra \in {<<>>, <<Head(h)>>},
           NEW new, new = Compacted(h, cut, extra)
    PROVE  Truthful(new) /\ Ready(new) /\ Pending(new) = Pending(h)
PROOF
<1> DEFINE made == <<Summary>> \o extra \o SubSeq(h, cut + 1, Len(h))
<1>1. h \in Seq(Messages) /\ Len(h) \in Nat /\ h # <<>>
  BY DEF Truthful
<1>2. Summary \in Messages
  BY MessagesAre
<1>3. extra \in Seq(Messages)
  <2>1. Head(h) \in Messages
    BY <1>1
  <2>2. <<Head(h)>> \in Seq(Messages) /\ <<>> \in Seq(Messages)
    BY ONLY <2>1
  <2> QED  BY <2>2
<1>4. SubSeq(h, cut + 1, Len(h)) \in Seq(Messages)
  BY <1>1, SubSeqProperties
<1>5. made \in Seq(Messages)
  BY <1>2, <1>3, <1>4
<1>6. new = IF Readable(made) /\ Pending(made) = Pending(h) /\ Codable(made) THEN made ELSE h
  BY DEF Compacted
<1> HIDE DEF made
<1>7. Readable(made) => Ready(made)
  BY DEF Readable, Ready, IsExchange
<1> QED  BY <1>5, <1>6, <1>7 DEF Truthful
-----------------------------------------------------------------------------
(* The policy bridge: attempts and their retries.                          *)

Phases == {"ordinary", "deliberate", "repair"}
Statuses == {"started", "failed", "invalid", "accepted", "cancelled"}

AttemptRecords == [status : Statuses, envelope : Phases, retry : BOOLEAN]

RetriesIn(tries) == {i \in DOMAIN tries : tries[i].retry}

\* The retries among some attempts, and those left, are within the allowance.
WithinAllowance(tries, room) ==
    /\ tries \in Seq(AttemptRecords) /\ room \in Nat
    /\ IsFiniteSet(RetriesIn(tries))
    /\ Cardinality(RetriesIn(tries)) \in Nat
    /\ Cardinality(RetriesIn(tries)) + room <= MaxRetries

\* A call without attempts has its whole allowance.
LEMMA NoAttemptsWithin ==
    ASSUME NEW room \in 0 .. MaxRetries
    PROVE  WithinAllowance(<<>>, room)
PROOF
<1>1. MaxRetries \in Nat
  BY RetriesAssumption
<1>2. <<>> \in Seq(AttemptRecords) /\ RetriesIn(<<>>) = {}
  BY DEF RetriesIn
<1>3. IsFiniteSet({}) /\ Cardinality({}) = 0
  BY ONLY FS_EmptySet
<1>4. room \in Nat /\ room <= MaxRetries
  BY <1>1
<1>5. PICK none : none = <<>>
  OBVIOUS
<1>6. /\ none \in Seq(AttemptRecords) /\ IsFiniteSet(RetriesIn(none))
      /\ Cardinality(RetriesIn(none)) = 0
  BY ONLY <1>2, <1>3, <1>5
<1>7. WithinAllowance(none, room)
  BY ONLY <1>1, <1>4, <1>6 DEF WithinAllowance
<1> QED  BY ONLY <1>5, <1>7

\* One more attempt is one retry more, if it is one.
LEMMA StartedWithin ==
    ASSUME NEW tries, NEW room, WithinAllowance(tries, room), NEW envelope \in Phases,
           NEW retry \in BOOLEAN, NEW rest \in Nat,
           IF retry THEN rest + 1 <= room ELSE rest <= room
    PROVE  /\ WithinAllowance(Started(tries, envelope, retry), rest)
           /\ Started(tries, envelope, retry) # <<>>
PROOF
<1> DEFINE a == Attempt("started", envelope, retry)
           more == Started(tries, envelope, retry)
           n == Len(tries)
<1>0. MaxRetries \in Nat
  BY RetriesAssumption
<1>1. a \in AttemptRecords /\ (a.retry <=> retry)
  BY DEF AttemptRecords, Attempt, Statuses
<1>2. tries \in Seq(AttemptRecords) /\ n \in Nat /\ room \in Nat
  BY DEF WithinAllowance
<1>3. more = Append(tries, a)
  BY DEF Started
<1> HIDE DEF a, more
<1>4. /\ more \in Seq(AttemptRecords) /\ Len(more) = n + 1 /\ more # <<>>
      /\ more[n + 1] = a /\ \A i \in 1 .. n : more[i] = tries[i]
  BY ONLY <1>1, <1>2, <1>3
<1>5. DOMAIN tries = 1 .. n /\ DOMAIN more = 1 .. (n + 1)
  BY ONLY <1>2, <1>4
<1>6. RetriesIn(more) = IF retry THEN RetriesIn(tries) \cup {n + 1} ELSE RetriesIn(tries)
  <2>1. \A i \in 1 .. (n + 1) : i = n + 1 \/ i \in 1 .. n
    BY ONLY <1>2
  <2>2. \A i \in 1 .. n : i \in 1 .. (n + 1) /\ i # n + 1
    BY ONLY <1>2
  <2>3. n + 1 \in 1 .. (n + 1)
    BY ONLY <1>2
  <2>4. \A i : i \in RetriesIn(more) <=> i \in RetriesIn(tries) \/ (retry /\ i = n + 1)
    BY ONLY <1>1, <1>4, <1>5, <2>1, <2>2, <2>3 DEF RetriesIn
  <2> QED  BY ONLY <2>4, retry \in BOOLEAN
<1>7. IsFiniteSet(RetriesIn(tries)) /\ n + 1 \notin RetriesIn(tries)
      /\ Cardinality(RetriesIn(tries)) \in Nat /\ Cardinality(RetriesIn(tries)) + room <= MaxRetries
  <2>1. n + 1 \notin 1 .. n
    BY ONLY <1>2
  <2> QED  BY <1>5, <2>1 DEF WithinAllowance, RetriesIn
<1>8. /\ IsFiniteSet(RetriesIn(more)) /\ Cardinality(RetriesIn(more)) \in Nat
      /\ Cardinality(RetriesIn(more)) + rest <= MaxRetries
  <2>1. CASE retry
    <3>1. /\ IsFiniteSet(RetriesIn(tries) \cup {n + 1})
          /\ Cardinality(RetriesIn(tries) \cup {n + 1}) =
               IF n + 1 \in RetriesIn(tries) THEN Cardinality(RetriesIn(tries))
               ELSE Cardinality(RetriesIn(tries)) + 1
      BY ONLY <1>7, FS_AddElement
    <3>2. rest + 1 <= room
      BY <2>1
    <3>3. RetriesIn(more) = RetriesIn(tries) \cup {n + 1}
      BY <1>6, <2>1
    <3> QED  BY ONLY <1>0, <1>2, <1>7, <3>1, <3>2, <3>3, rest \in Nat
  <2>2. CASE ~retry
    <3>1. rest <= room
      BY <2>2
    <3>2. RetriesIn(more) = RetriesIn(tries)
      BY <1>6, <2>2
    <3> QED  BY ONLY <1>0, <1>2, <1>7, <3>1, <3>2, rest \in Nat
  <2> QED  BY <2>1, <2>2
<1>9. WithinAllowance(more, rest) /\ more # <<>>
  BY ONLY <1>4, <1>8, rest \in Nat DEF WithinAllowance
<1> QED  BY <1>9 DEF more

\* An attempt that is no retry leaves the allowance as it was.
LEMMA AskedWithin ==
    ASSUME NEW tries, NEW room, WithinAllowance(tries, room), NEW envelope \in Phases
    PROVE  /\ WithinAllowance(Started(tries, envelope, FALSE), room)
           /\ Started(tries, envelope, FALSE) # <<>>
PROOF
<1>1. PICK retry \in BOOLEAN : retry = FALSE
  OBVIOUS
<1>2. room \in Nat /\ IF retry THEN room + 1 <= room ELSE room <= room
  BY <1>1 DEF WithinAllowance
<1>3. /\ WithinAllowance(Started(tries, envelope, retry), room)
      /\ Started(tries, envelope, retry) # <<>>
  BY <1>2, StartedWithin
<1> QED  BY ONLY <1>1, <1>3

\* A retry takes one from the allowance.
LEMMA RetriedWithin ==
    ASSUME NEW tries, NEW room, WithinAllowance(tries, room), room # 0,
           NEW envelope \in Phases
    PROVE  /\ WithinAllowance(Started(tries, envelope, TRUE), room - 1)
           /\ Started(tries, envelope, TRUE) # <<>>
PROOF
<1>1. PICK retry \in BOOLEAN : retry = TRUE
  OBVIOUS
<1>2. PICK rest : rest = room - 1
  OBVIOUS
<1>3. room \in Nat
  BY DEF WithinAllowance
<1>4. rest \in Nat /\ rest + 1 <= room
  BY ONLY <1>2, <1>3, room # 0
<1>5. IF retry THEN rest + 1 <= room ELSE rest <= room
  BY <1>1, <1>4
<1>6. /\ WithinAllowance(Started(tries, envelope, retry), rest)
      /\ Started(tries, envelope, retry) # <<>>
  BY <1>4, <1>5, StartedWithin
<1> QED  BY ONLY <1>1, <1>2, <1>6

\* What an attempt came to does not change which of them are retries.
LEMMA SameRetriesWithin ==
    ASSUME NEW tries, NEW room, WithinAllowance(tries, room), NEW more \in Seq(AttemptRecords),
           Len(more) = Len(tries), \A i \in 1 .. Len(tries) : more[i].retry <=> tries[i].retry
    PROVE  WithinAllowance(more, room)
PROOF
<1>1. tries \in Seq(AttemptRecords)
  BY DEF WithinAllowance
<1>2. DOMAIN tries = 1 .. Len(tries) /\ DOMAIN more = 1 .. Len(tries)
  BY <1>1
<1>3. RetriesIn(more) = RetriesIn(tries)
  BY <1>2 DEF RetriesIn
<1> QED  BY <1>3 DEF WithinAllowance

\* The end of an attempt takes nothing from the allowance.
LEMMA SettledWithin ==
    ASSUME NEW tries, NEW room, WithinAllowance(tries, room), tries # <<>>, NEW status \in Statuses
    PROVE  WithinAllowance(Settled(tries, status), room) /\ Settled(tries, status) # <<>>
PROOF
<1> DEFINE n == Len(tries)
           more == Settled(tries, status)
<1>1. tries \in Seq(AttemptRecords) /\ n \in Nat
  BY DEF WithinAllowance
<1>2. n # 0 /\ n \in 1 .. n
  BY <1>1
<1>3. PICK b : b = [tries[n] EXCEPT !.status = status]
  OBVIOUS
<1>4. b \in AttemptRecords /\ (b.retry <=> tries[n].retry)
  <2>1. tries[n] \in AttemptRecords
    BY <1>1, <1>2
  <2> QED  BY ONLY <1>3, <2>1, status \in Statuses DEF AttemptRecords
<1>5. more = [tries EXCEPT ![n] = b]
  BY <1>3 DEF Settled
<1> HIDE DEF more
<1>6. /\ more \in Seq(AttemptRecords) /\ Len(more) = n
      /\ \A i \in 1 .. n : more[i] = IF i = n THEN b ELSE tries[i]
  BY <1>1, <1>2, <1>4, <1>5, ExceptSeq
<1>7. \A i \in 1 .. n : more[i].retry <=> tries[i].retry
  BY <1>4, <1>6
<1>8. more # <<>>
  BY <1>2, <1>6
<1> QED  BY <1>6, <1>7, <1>8, SameRetriesWithin DEF more

\* An envelope that goes on after an answer had one response in it.
LEMMA ExchangedWithin ==
    ASSUME NEW tries, NEW room, WithinAllowance(tries, room), tries # <<>>, NEW status \in Statuses
    PROVE  /\ WithinAllowance(Exchanged(tries, 1, status), room)
           /\ Exchanged(tries, 1, status) # <<>>
PROOF
<1> DEFINE n == Len(tries)
           more == Exchanged(tries, 1, status)
<1>1. tries \in Seq(AttemptRecords) /\ n \in Nat
  BY DEF WithinAllowance
<1>2. n # 0 /\ n \in 1 .. n
  BY <1>1
<1>3. PICK b : b = [tries[n] EXCEPT !.status = status]
  OBVIOUS
<1>4. b \in AttemptRecords /\ (b.retry <=> tries[n].retry)
  <2>1. tries[n] \in AttemptRecords
    BY <1>1, <1>2
  <2> QED  BY ONLY <1>3, <2>1, status \in Statuses DEF AttemptRecords
<1>5. PICK front : front = Front(tries)
  OBVIOUS
<1>6. /\ front \in Seq(AttemptRecords) /\ Len(front) = n - 1
      /\ \A i \in 1 .. (n - 1) : front[i] = tries[i]
  <2>1. front = SubSeq(tries, 1, n - 1) /\ n - 1 \in Nat /\ 1 \in 1 .. (n + 1)
        /\ n - 1 \in 0 .. n /\ (n - 1) - 1 + 1 = n - 1
    BY <1>1, <1>2, <1>5 DEF Front
  <2>2. front \in Seq(AttemptRecords)
    BY ONLY <1>1, <2>1, SubSeqProperties
  <2>3. Len(front) = n - 1
    BY ONLY <1>1, <1>2, <2>1, SubSeqProperties
  <2>4. \A i \in 1 .. (n - 1) : front[i] = tries[i]
    BY ONLY <1>1, <1>2, <2>1, <2>3, SubSeqProperties
  <2> QED  BY <2>2, <2>3, <2>4
<1>7. more = front \o <<b>>
  <2> DEFINE none == [i \in 1 .. (1 - 1) |-> [Last(tries) EXCEPT !.status = "invalid"]]
  <2>1. none = <<>>
    OBVIOUS
  <2>2. more = front \o none \o <<b>>
    BY <1>3, <1>5 DEF Exchanged, Last
  <2> HIDE DEF none
  <2>3. front \o none = front
    BY <1>6, <2>1
  <2> QED  BY <2>2, <2>3
<1> HIDE DEF more
<1>8. /\ more \in Seq(AttemptRecords) /\ Len(more) = n
      /\ more[n] = b /\ \A i \in 1 .. (n - 1) : more[i] = tries[i]
  BY ONLY <1>1, <1>2, <1>4, <1>6, <1>7
<1>9. \A i \in 1 .. n : i = n \/ i \in 1 .. (n - 1)
  BY ONLY <1>1
<1>10. \A i \in 1 .. n : more[i].retry <=> tries[i].retry
  BY <1>4, <1>8, <1>9
<1>11. more # <<>>
  BY <1>2, <1>8
<1> QED  BY <1>8, <1>10, <1>11, SameRetriesWithin DEF more
-----------------------------------------------------------------------------
(* The policy bridge: its invariant.                                       *)

PortShape(p) ==
    p \in [history : {p.history}, identity : {p.identity}, issued : Nat,
           outcome : {p.outcome}, turn : {p.turn}]

TurnShape(t) ==
    t \in [at : {t.at}, phase : Phases, complete : {t.complete}, retries : {t.retries},
           local : {t.local}, captured : {t.captured}, attempts : {t.attempts},
           rejected : {t.rejected}, reason : {t.reason}, cancelled : {t.cancelled}]

RunShape(r) ==
    r \in [at : {r.at}, step : {r.step}, decision : {r.decision}, rev : {r.rev},
           from : {r.from}]

\* A rejected answer that can be handed back proposed a call.
Rejection(t) == t.reason = "invalid" => t.rejected \in Seq(Nat) /\ t.rejected # <<>>

\* What a turn works with is true, can go on from the run's last step, and has
\* its retries within the allowance of its envelope.
TurnTrue(t, step) ==
    /\ TurnShape(t)
    /\ Truthful(t.local)
    /\ t.at # "idle" => Ready(t.local) /\ Closes(t.local, step)
    /\ Rejection(t)
    /\ WithinAllowance(t.attempts, t.retries)
    /\ t.at \in {"calling", "sleeping"} => t.attempts # <<>>
    /\ t.at = "sleeping" => t.retries # 0

BridgeInv ==
    /\ PortShape(port) /\ RunShape(run)
    /\ Truthful(port.history) /\ Truthful(saved.history)
    /\ TurnTrue(port.turn, run.step)
    /\ port.turn.at # "idle" => run.at = "running"

\* The empty history is true.
LEMMA NothingIsTrue == Truthful(<<>>)
PROOF
<1>1. PICK none : none = <<>>
  OBVIOUS
<1>2. none \in Seq(Messages) /\ Len(none) = 0
  BY <1>1
<1>3. \A i \in 1 .. Len(none) : FALSE
  BY <1>2
<1>4. Truthful(none)
  BY <1>2, <1>3 DEF Truthful, Codable, Paired
<1> QED  BY <1>1, <1>4

\* A port between turns has no turn to keep true.
LEMMA IdleIsTrue ==
    ASSUME NEW step, NEW cancelled, NEW t,
           t = Idle \/ t = [Idle EXCEPT !.cancelled = cancelled]
    PROVE  TurnTrue(t, step) /\ t.at = "idle"
PROOF
<1>1. PICK none : none = <<>>
  OBVIOUS
<1>2. Idle = [at |-> "idle", phase |-> "ordinary", complete |-> FALSE, retries |-> 0,
              local |-> none, captured |-> FALSE, attempts |-> none,
              rejected |-> none, reason |-> "none", cancelled |-> FALSE]
  BY <1>1 DEF Idle
<1>3. /\ TurnShape(t) /\ t.at = "idle" /\ t.local = none /\ t.attempts = none
      /\ t.retries = 0 /\ t.reason = "none"
  <2>1. CASE t = Idle
    BY ONLY <1>2, <2>1 DEF TurnShape, Phases
  <2>2. CASE t = [Idle EXCEPT !.cancelled = cancelled]
    BY ONLY <1>2, <2>2 DEF TurnShape, Phases
  <2> QED  BY <2>1, <2>2
<1>4. Truthful(none)
  BY <1>1, NothingIsTrue
<1>5. 0 \in 0 .. MaxRetries
  BY RetriesAssumption
<1>6. WithinAllowance(none, 0)
  BY <1>1, <1>5, NoAttemptsWithin
<1> QED  BY ONLY <1>3, <1>4, <1>6 DEF TurnTrue, Rejection

\* A turn that ends leaves the port with a true history and nothing else
\* (what Ended models: every way out of generate).
LEMMA EndedKeeps ==
    ASSUME BridgeInv, NEW p, PortShape(p), NEW h, Truthful(h), NEW outcome,
           port' = Ended(p, h, outcome), saved' = saved, RunShape(run')
    PROVE  BridgeInv'
PROOF
<1>1. PICK t : t = [Idle EXCEPT !.cancelled = p.turn.cancelled]
  OBVIOUS
<1>2. port' = [p EXCEPT !.turn = t, !.history = h, !.outcome = outcome]
  BY <1>1 DEF Ended
<1>3. PortShape(port') /\ port'.turn = t /\ port'.history = h
  BY ONLY <1>2, PortShape(p) DEF PortShape
<1>4. TurnTrue(t, run'.step) /\ t.at = "idle"
  BY <1>1, IdleIsTrue
<1>5. Truthful(saved'.history)
  BY DEF BridgeInv
<1> QED  BY <1>3, <1>4, <1>5 DEF BridgeInv

\* The history a failed turn leaves is true (what Failed models).
LEMMA FailedKeeps ==
    ASSUME BridgeInv, NEW p, PortShape(p), p.history = port.history,
           Truthful(p.turn.local), Closes(p.turn.local, run.step), NEW outcome,
           port' = Failed(p, outcome), saved' = saved, RunShape(run')
    PROVE  BridgeInv'
PROOF
<1>1. Truthful(p.history)
  BY DEF BridgeInv
<1>2. CASE port' = Ended(p, p.history, outcome) \/ port' = Ended(p, p.history, "failed")
  BY <1>1, <1>2, EndedKeeps
<1>3. CASE /\ Pending(p.turn.local) # <<>>
           /\ port' = Ended(p, p.turn.local \o <<Returns(Pending(p.turn.local), run.step)>>,
                            outcome)
  <2>1. Truthful(p.turn.local \o <<Returns(Pending(p.turn.local), run.step)>>)
    BY <1>3, CloseIsTrue
  <2> QED  BY <1>3, <2>1, EndedKeeps
<1> QED  BY <1>2, <1>3 DEF Failed

\* A decision with a call leaves a true history, its response open (what
\* Accepted models).
LEMMA AcceptedKeeps ==
    ASSUME BridgeInv, NEW p, PortShape(p), Truthful(p.turn.local),
           Ready(p.turn.local), Closes(p.turn.local, run.step),
           NEW calls \in Seq(Nat), calls # <<>>,
           port' = Accepted(p, calls), saved' = saved, RunShape(run')
    PROVE  BridgeInv'
PROOF
<1>1. PICK h, request :
        /\ h = p.turn.local
        /\ request = IF Pending(h) = <<>> THEN Prompt ELSE Returns(Pending(h), run.step)
  OBVIOUS
<1>2. port' = Ended(p, h \o <<request, Response(calls)>>, "decided")
  BY <1>1 DEF Accepted
<1>3. Truthful(h \o <<request, Response(calls)>>)
  BY <1>1, DecisionIsTrue
<1> QED  BY <1>2, <1>3, EndedKeeps

\* A turn that goes on leaves the history of the port alone.
LEMMA GoesOnKeeps ==
    ASSUME BridgeInv, run.at = "running", PortShape(port'), port'.history = port.history,
           TurnTrue(port'.turn, run.step), UNCHANGED <<run, saved>>
    PROVE  BridgeInv'
PROOF
  BY DEF BridgeInv

\* An envelope that is sent begins with its whole allowance (what Dispatched
\* models).
LEMMA DispatchedIsTrue ==
    ASSUME NEW t, TurnShape(t), Truthful(t.local), Ready(t.local), Rejection(t),
           NEW step, Closes(t.local, step), NEW phase \in Phases,
           NEW u, u = Dispatched(t, phase)
    PROVE  TurnTrue(u, step)
PROOF
<1>1. PICK none, tries : none = <<>> /\ tries = Started(none, phase, FALSE)
  OBVIOUS
<1>2. u = [t EXCEPT !.at = "calling", !.phase = phase, !.complete = FALSE,
                    !.retries = MaxRetries, !.captured = FALSE, !.attempts = tries]
  BY <1>1 DEF Dispatched
<1>3. /\ TurnShape(u) /\ u.at = "calling" /\ u.local = t.local
      /\ u.retries = MaxRetries /\ u.attempts = tries
      /\ u.rejected = t.rejected /\ u.reason = t.reason
  BY ONLY <1>2, TurnShape(t), phase \in Phases DEF TurnShape
<1>4. MaxRetries \in Nat /\ MaxRetries \in 0 .. MaxRetries
  BY RetriesAssumption
<1>5. WithinAllowance(none, MaxRetries)
  BY <1>1, <1>4, NoAttemptsWithin
<1>6. WithinAllowance(tries, MaxRetries) /\ tries # <<>>
  BY <1>1, <1>5, AskedWithin
<1> QED  BY <1>3, <1>6 DEF TurnTrue, Rejection

\* The answer that is repaired is kept with the reason it was rejected for.
LEMMA RejectedIsTrue ==
    ASSUME NEW d, NEW step, TurnTrue(d, step),
           NEW rejected \in Seq(Nat), rejected # <<>>, NEW reason,
           NEW u, u = [d EXCEPT !.rejected = rejected, !.reason = reason]
    PROVE  TurnTrue(u, step)
PROOF
<1>1. /\ TurnShape(u) /\ u.at = d.at /\ u.local = d.local
      /\ u.retries = d.retries /\ u.attempts = d.attempts
      /\ u.rejected = rejected /\ u.reason = reason
  BY ONLY TurnTrue(d, step), u = [d EXCEPT !.rejected = rejected, !.reason = reason]
     DEF TurnTrue, TurnShape
<1> QED  BY <1>1 DEF TurnTrue, Rejection

\* The same envelope asked again spends nothing of its allowance (what
\* CompleteRetry models).
LEMMA AskedAgainIsTrue ==
    ASSUME NEW t, NEW step, TurnTrue(t, step), t.at = "calling",
           NEW u, u = CompleteRetry(t)
    PROVE  TurnTrue(u, step)
PROOF
<1>1. PICK tries : tries = Started(t.attempts, t.phase, FALSE)
  OBVIOUS
<1>2. u = [t EXCEPT !.at = "calling", !.complete = TRUE, !.attempts = tries]
  BY <1>1 DEF CompleteRetry
<1>3. /\ TurnShape(u) /\ u.at = "calling" /\ u.local = t.local
      /\ u.retries = t.retries /\ u.attempts = tries
      /\ u.rejected = t.rejected /\ u.reason = t.reason /\ t.phase \in Phases
  BY ONLY <1>2, TurnTrue(t, step) DEF TurnTrue, TurnShape
<1>4. WithinAllowance(t.attempts, t.retries) /\ t.retries \in Nat
  BY DEF TurnTrue, WithinAllowance
<1>5. WithinAllowance(tries, t.retries) /\ tries # <<>>
  BY <1>1, <1>3, <1>4, AskedWithin
<1> QED  BY <1>3, <1>5 DEF TurnTrue, Rejection
-----------------------------------------------------------------------------
(* The policy bridge: its steps keep the invariant.                        *)

\* What the invariant says of the parts a turn's handler works with.
LEMMA TurnHas ==
    ASSUME BridgeInv
    PROVE  /\ PortShape(port) /\ RunShape(run)
           /\ Truthful(port.history) /\ Truthful(saved.history)
           /\ TurnTrue(port.turn, run.step) /\ TurnShape(port.turn)
           /\ Truthful(port.turn.local) /\ Rejection(port.turn)
           /\ port.turn.phase \in Phases
           /\ port.turn.at # "idle" =>
                /\ run.at = "running"
                /\ Ready(port.turn.local) /\ Closes(port.turn.local, run.step)
PROOF
  BY DEF BridgeInv, TurnTrue, TurnShape

\* The run's end keeps its other parts.
LEMMA EndsShape ==
    ASSUME RunShape(run), RunEnds
    PROVE  RunShape(run')
PROOF
  BY DEF RunShape, RunEnds

\* A turn begins with a true history it can go on from, or does not begin
\* (generate, up to its first await).
LEMMA ThinkKeeps ==
    ASSUME BridgeInv, Think
    PROVE  BridgeInv'
PROOF
<1>1. PICK h : h = port.history
  OBVIOUS
<1>2. PICK idle, p : idle = Idle /\ p = [port EXCEPT !.identity = run.rev, !.turn = idle]
  OBVIOUS
<1>3. PortShape(p) /\ p.history = h
  BY ONLY <1>1, <1>2, TurnHas, BridgeInv DEF PortShape
<1>4. Truthful(h)
  BY <1>1, TurnHas
<1>5. saved' = saved /\ run.at = "running"
  BY DEF Think
<1>6. CASE /\ port' = Ended(p, h, "unavailable") \/ port' = Ended(p, h, "failed")
           /\ RunEnds
  BY <1>3, <1>4, <1>5, <1>6, TurnHas, EndsShape, EndedKeeps
<1>7. ASSUME Readable(h), Closes(h, run.step), NEW phase \in {"ordinary", "deliberate"},
             NEW at, NEW t, t = Turn(at, phase, Folded(h))
      PROVE  /\ TurnShape(t) /\ Truthful(t.local) /\ Ready(t.local)
             /\ Closes(t.local, run.step) /\ Rejection(t)
             /\ t.at = at /\ t.retries = 0 /\ t.attempts = <<>>
  <2>1. PICK none, g : none = <<>> /\ g = Folded(h)
    OBVIOUS
  <2>2. Ready(h)
    BY <1>7 DEF Readable, Ready, IsExchange
  <2>3. Truthful(g) /\ Ready(g) /\ Closes(g, run.step)
    BY <1>4, <1>7, <2>1, <2>2, FoldedIsTrue DEF Closes
  <2>4. PICK i : /\ i = Idle
                 /\ i = [at |-> "idle", phase |-> "ordinary", complete |-> FALSE, retries |-> 0,
                         local |-> none, captured |-> FALSE, attempts |-> none,
                         rejected |-> none, reason |-> "none", cancelled |-> FALSE]
    BY <2>1 DEF Idle
  <2>5. t = [i EXCEPT !.at = at, !.phase = phase, !.local = g]
    BY <1>7, <2>1, <2>4 DEF Turn
  <2>6. /\ TurnShape(t) /\ t.at = at /\ t.local = g /\ t.retries = 0
        /\ t.attempts = none /\ t.reason = "none"
    <3>1. TurnShape(i) /\ i.retries = 0 /\ i.attempts = none /\ i.reason = "none"
      BY ONLY <2>4 DEF TurnShape, Phases
    <3>2. phase \in Phases
      BY DEF Phases
    <3> QED  BY ONLY <2>5, <3>1, <3>2 DEF TurnShape
  <2> QED  BY <2>1, <2>3, <2>6 DEF Rejection
<1>8. CASE /\ Readable(h) /\ Closes(h, run.step) /\ run' = run
           /\ \E phase \in {"ordinary", "deliberate"} :
                port' = [p EXCEPT !.turn = Turn("compacting", phase, Folded(h))]
  <2>1. PICK phase \in {"ordinary", "deliberate"} :
          port' = [p EXCEPT !.turn = Turn("compacting", phase, Folded(h))]
    BY <1>8
  <2>2. PICK t : t = Turn("compacting", phase, Folded(h))
    OBVIOUS
  <2>3. PortShape(port') /\ port'.history = h /\ port'.turn = t
    BY ONLY <1>3, <2>1, <2>2 DEF PortShape
  <2>4. /\ TurnShape(t) /\ Truthful(t.local) /\ Ready(t.local)
        /\ Closes(t.local, run.step) /\ Rejection(t)
        /\ t.at = "compacting" /\ t.retries = 0 /\ t.attempts = <<>>
    BY <1>7, <1>8, <2>2
  <2>5. 0 \in 0 .. MaxRetries
    BY RetriesAssumption
  <2>6. WithinAllowance(t.attempts, t.retries)
    BY <2>4, <2>5, NoAttemptsWithin
  <2>7. TurnTrue(t, run.step)
    BY <2>4, <2>6 DEF TurnTrue
  <2> QED  BY <1>1, <1>5, <1>8, <2>3, <2>7, GoesOnKeeps
<1>9. CASE /\ Readable(h) /\ Closes(h, run.step) /\ run' = run
           /\ \E phase \in {"ordinary", "deliberate"} :
                port' = [p EXCEPT !.turn = Dispatched(Turn("calling", phase, Folded(h)), phase)]
  <2>1. PICK phase \in {"ordinary", "deliberate"} :
          port' = [p EXCEPT !.turn = Dispatched(Turn("calling", phase, Folded(h)), phase)]
    BY <1>9
  <2>2. PICK t, u : t = Turn("calling", phase, Folded(h)) /\ u = Dispatched(t, phase)
    OBVIOUS
  <2>3. PortShape(port') /\ port'.history = h /\ port'.turn = u
    BY ONLY <1>3, <2>1, <2>2 DEF PortShape
  <2>4. /\ TurnShape(t) /\ Truthful(t.local) /\ Ready(t.local)
        /\ Closes(t.local, run.step) /\ Rejection(t)
    BY <1>7, <1>9, <2>2
  <2>5. TurnTrue(u, run.step)
    BY <2>2, <2>4, DispatchedIsTrue DEF Phases
  <2> QED  BY <1>1, <1>5, <1>9, <2>3, <2>5, GoesOnKeeps
<1>10. \/ /\ port' = Ended(p, h, "unavailable") \/ port' = Ended(p, h, "failed")
          /\ RunEnds
       \/ /\ Readable(h) /\ Closes(h, run.step) /\ run' = run
          /\ \E phase \in {"ordinary", "deliberate"} :
               \/ port' = [p EXCEPT !.turn = Turn("compacting", phase, Folded(h))]
               \/ port' = [p EXCEPT !.turn = Dispatched(Turn("calling", phase, Folded(h)), phase)]
  BY <1>1, <1>2 DEF Think
<1> QED  BY <1>6, <1>8, <1>9, <1>10

\* A compaction leaves a true history with the same open calls, and the turn
\* is sent.
LEMMA CompactKeeps ==
    ASSUME BridgeInv, Compact
    PROVE  BridgeInv'
PROOF
<1>1. PICK t : t = port.turn
  OBVIOUS
<1>2. /\ port.turn.at # "idle" /\ saved' = saved
      /\ TurnShape(t) /\ Truthful(t.local) /\ Rejection(t) /\ t.phase \in Phases
      /\ Ready(t.local) /\ Closes(t.local, run.step) /\ run.at = "running"
  BY <1>1, TurnHas DEF Compact
<1>3. PICK new \in Compactions(t.local) :
        \/ /\ port' = [port EXCEPT !.turn = Dispatched([t EXCEPT !.local = new], t.phase)]
           /\ run' = run
        \/ port' = Ended(port, port.history, "failed") /\ RunEnds
  BY ONLY <1>1, Compact DEF Compact
<1>4. Truthful(new) /\ Ready(new) /\ Closes(new, run.step)
  <2>1. CASE new = t.local
    BY <1>2, <2>1
  <2>2. CASE \E cut \in 1..Len(t.local), extra \in {<<>>, <<Head(t.local)>>} :
               new = Compacted(t.local, cut, extra)
    <3>1. PICK cut \in 1..Len(t.local), extra \in {<<>>, <<Head(t.local)>>} :
            new = Compacted(t.local, cut, extra)
      BY <2>2
    <3>2. Truthful(new) /\ Ready(new) /\ Pending(new) = Pending(t.local)
      BY <1>2, <3>1, CompactedIsTrue
    <3> QED  BY <1>2, <3>2 DEF Closes
  <2> QED  BY <1>3, <2>1, <2>2 DEF Compactions
<1>5. CASE port' = Ended(port, port.history, "failed") /\ RunEnds
  BY <1>2, <1>5, TurnHas, EndsShape, EndedKeeps
<1>6. CASE /\ port' = [port EXCEPT !.turn = Dispatched([t EXCEPT !.local = new], t.phase)]
           /\ run' = run
  <2>1. PICK v, u : v = [t EXCEPT !.local = new] /\ u = Dispatched(v, t.phase)
    OBVIOUS
  <2>2. /\ TurnShape(v) /\ v.local = new /\ v.rejected = t.rejected
        /\ v.reason = t.reason
    BY ONLY <1>2, <2>1 DEF TurnShape
  <2>3. TurnTrue(u, run.step)
    <3>1. Rejection(v)
      BY <1>2, <2>2 DEF Rejection
    <3> QED  BY <1>2, <1>4, <2>1, <2>2, <3>1, DispatchedIsTrue
  <2>4. PortShape(port) /\ port' = [port EXCEPT !.turn = u]
    BY <1>6, <2>1, TurnHas
  <2>5. PortShape(port') /\ port'.history = port.history /\ port'.turn = u
    BY ONLY <2>4 DEF PortShape
  <2> QED  BY <1>2, <1>6, <2>3, <2>5, GoesOnKeeps
<1> QED  BY <1>3, <1>5, <1>6
\* The turn and the port once the request that is out has been answered.
Answered(t, u, p, n, status) ==
    /\ t = [port.turn EXCEPT !.captured = TRUE]
    /\ u = [t EXCEPT !.attempts = Exchanged(@, n, status)]
    /\ p = [port EXCEPT !.turn = u]

\* The provider's answer to the request that is out, or its silence, as an
\* attempt (what Exchanged models): the envelope can go on when there was one
\* response.
LEMMA AnsweredIsTrue ==
    ASSUME BridgeInv, port.turn.at = "calling", NEW n, NEW status \in Statuses,
           NEW t, NEW u, NEW p, Answered(t, u, p, n, status)
    PROVE  /\ PortShape(p) /\ p.history = port.history /\ p.turn = u
           /\ p.issued = port.issued
           /\ TurnShape(u) /\ u.at = "calling" /\ u.local = port.turn.local /\ Rejection(u)
           /\ u.phase = port.turn.phase
           /\ n = 1 => TurnTrue(u, run.step)
PROOF
<1>1. TurnShape(port.turn) /\ PortShape(port) /\ TurnTrue(port.turn, run.step)
  BY TurnHas
<1>2. /\ TurnShape(t) /\ t.at = port.turn.at /\ t.phase = port.turn.phase
      /\ t.local = port.turn.local /\ t.attempts = port.turn.attempts
      /\ t.retries = port.turn.retries /\ t.rejected = port.turn.rejected
      /\ t.reason = port.turn.reason
  BY ONLY <1>1, Answered(t, u, p, n, status) DEF TurnShape, Answered
<1>3. PICK tries : tries = Exchanged(t.attempts, n, status)
  OBVIOUS
<1>4. /\ TurnShape(u) /\ u.at = t.at /\ u.phase = t.phase
      /\ u.local = t.local /\ u.attempts = tries
      /\ u.retries = t.retries /\ u.rejected = t.rejected
      /\ u.reason = t.reason
  BY ONLY <1>2, <1>3, Answered(t, u, p, n, status) DEF TurnShape, Answered
<1>5. /\ PortShape(p) /\ p.history = port.history /\ p.turn = u
      /\ p.issued = port.issued
  BY ONLY <1>1, Answered(t, u, p, n, status) DEF PortShape, Answered
<1>6. ASSUME n = 1 PROVE WithinAllowance(tries, u.retries) /\ tries # <<>>
  <2>1. WithinAllowance(t.attempts, u.retries) /\ t.attempts # <<>>
    BY <1>1, <1>2, <1>4 DEF TurnTrue
  <2> QED  BY <1>3, <1>6, <2>1, ExchangedWithin
<1>7. Rejection(u)
  BY <1>1, <1>2, <1>4 DEF TurnTrue, Rejection
<1>8. n = 1 => TurnTrue(u, run.step)
  BY <1>1, <1>2, <1>4, <1>6, <1>7 DEF TurnTrue
<1> QED  BY <1>2, <1>4, <1>5, <1>7, <1>8

\* An answer that is no decision is asked for once more within its envelope,
\* or fails the turn (what Incomplete models).
LEMMA IncompleteKeeps ==
    ASSUME BridgeInv, port.turn.at = "calling", NEW n, NEW status \in Statuses,
           NEW t, NEW u, NEW p, Answered(t, u, p, n, status),
           NEW again \in BOOLEAN, again => n = 1,
           port' = Incomplete(p, again), IF again THEN UNCHANGED run ELSE RunEnds,
           saved' = saved
    PROVE  BridgeInv'
PROOF
<1>1. /\ PortShape(p) /\ p.history = port.history /\ p.turn = u
      /\ u.at = "calling" /\ u.local = port.turn.local
      /\ n = 1 => TurnTrue(u, run.step)
  BY AnsweredIsTrue
<1>2. Truthful(u.local) /\ Closes(u.local, run.step) /\ run.at = "running"
  BY <1>1, TurnHas
<1>3. CASE again
  <2>1. PICK v : v = CompleteRetry(u)
    OBVIOUS
  <2>2. port' = [p EXCEPT !.turn = v] /\ run' = run
    BY <1>1, <1>3, <2>1 DEF Incomplete
  <2>3. PortShape(port') /\ port'.history = p.history /\ port'.turn = v
    BY ONLY <1>1, <2>2 DEF PortShape
  <2>4. TurnTrue(v, run.step)
    BY <1>1, <1>3, <2>1, AskedAgainIsTrue
  <2> QED  BY <1>1, <1>2, <2>2, <2>3, <2>4, GoesOnKeeps
<1>4. CASE ~again
  <2>1. port' = Failed(p, "failed") /\ RunEnds
    BY <1>4 DEF Incomplete
  <2>2. RunShape(run')
    BY <2>1, TurnHas, EndsShape
  <2> QED  BY <1>1, <1>2, <2>1, <2>2, FailedKeeps
<1> QED  BY <1>3, <1>4

\* What is not empty is not the empty sequence.
LEMMA LongerThanNothing ==
    ASSUME NEW s, Len(s) # 0
    PROVE  s # <<>>
PROOF
<1>1. Len(<<>>) = 0
  OBVIOUS
<1> QED  BY <1>1

\* The calls of an answer are new, and there is one of them.
LEMMA ProposalsAre ==
    ASSUME port.issued \in Nat, NEW calls \in Proposals
    PROVE  calls \in Seq(Nat) /\ calls # <<>> /\ Last(calls) \in Nat
PROOF
<1>1. PICK a, b : a = port.issued + 1 /\ b = port.issued + 2
  OBVIOUS
<1>2. calls = <<a>> \/ calls = <<a, b>>
  BY <1>1 DEF Proposals
<1>3. a \in Nat /\ b \in Nat
  BY <1>1
<1>4. CASE calls = <<a>>
  <2>1. Len(calls) # 0 /\ Len(calls) = 1 /\ calls[1] = a /\ calls \in Seq(Nat)
    BY ONLY <1>3, <1>4
  <2>2. calls # <<>>
    BY <2>1, LongerThanNothing
  <2>3. calls[Len(calls)] \in Nat
    BY ONLY <1>3, <2>1
  <2> QED  BY ONLY <2>1, <2>2, <2>3 DEF Last
<1>5. CASE calls = <<a, b>>
  <2>1. Len(calls) # 0 /\ Len(calls) = 2 /\ calls[2] = b /\ calls \in Seq(Nat)
    BY ONLY <1>3, <1>5
  <2>2. calls # <<>>
    BY <2>1, LongerThanNothing
  <2>3. calls[Len(calls)] \in Nat
    BY ONLY <1>3, <2>1
  <2> QED  BY ONLY <2>1, <2>2, <2>3 DEF Last
<1> QED  BY <1>2, <1>4, <1>5

\* The first call of an answer becomes a decision, the whole is repaired or
\* the turn is over (what Resolved models).
LEMMA ResolvedKeeps ==
    ASSUME BridgeInv, port.turn.at = "calling", NEW n, NEW status \in Statuses,
           NEW t, NEW u, NEW p, Answered(t, u, p, n, status),
           NEW calls \in Proposals, Resolved(p, calls), saved' = saved
    PROVE  BridgeInv'
PROOF
<1>1. /\ PortShape(p) /\ p.history = port.history /\ p.turn = u
      /\ TurnShape(u) /\ u.at = "calling" /\ u.local = port.turn.local /\ Rejection(u)
  BY AnsweredIsTrue
<1>2. /\ Truthful(u.local) /\ Ready(u.local) /\ Closes(u.local, run.step)
      /\ run.at = "running" /\ RunShape(run) /\ Truthful(port.history)
      /\ PortShape(port)
  BY <1>1, TurnHas
<1>3. port.issued \in Nat
  BY <1>2 DEF PortShape
<1>4. calls \in Seq(Nat) /\ calls # <<>> /\ Last(calls) \in Nat
  BY <1>3, ProposalsAre
<1>5. PICK last, q : last = Last(calls) /\ q = [p EXCEPT !.issued = last]
  OBVIOUS
<1>6. PortShape(q) /\ q.history = port.history /\ q.turn = u
  BY ONLY <1>1, <1>4, <1>5 DEF PortShape
<1>7. CASE /\ port' = Accepted(q, calls)
           /\ run' = [run EXCEPT !.at = "acting", !.decision = Head(calls)]
  <2>1. RunShape(run')
    BY ONLY <1>2, <1>7 DEF RunShape
  <2> QED  BY <1>2, <1>4, <1>6, <1>7, <2>1, AcceptedKeeps
<1>8. CASE /\ u.reason = "invalid"
           /\ port' = Accepted(q, u.rejected)
           /\ run' = [run EXCEPT !.at = "acting", !.decision = Head(u.rejected)]
  <2>1. RunShape(run')
    BY ONLY <1>2, <1>8 DEF RunShape
  <2>2. u.rejected \in Seq(Nat) /\ u.rejected # <<>>
    BY <1>1, <1>8 DEF Rejection
  <2> QED  BY <1>2, <1>6, <1>8, <2>1, <2>2, AcceptedKeeps
<1>9. CASE /\ port' = Ended(q, <<>>, "decided")
           /\ run' = [run EXCEPT !.at = "acting", !.decision = NoCall]
  <2>1. RunShape(run')
    BY ONLY <1>2, <1>9 DEF RunShape
  <2> QED  BY <1>6, <1>9, <2>1, NothingIsTrue, EndedKeeps
<1>10. CASE port' = Ended(q, q.history, "failed") /\ RunEnds
  BY <1>2, <1>6, <1>10, EndsShape, EndedKeeps
<1>11. ASSUME NEW reason \in {"invalid", "stale"},
              port' = [q EXCEPT !.turn = [Dispatched(u, "repair") EXCEPT
                                            !.rejected = calls, !.reason = reason]],
              run' = run
       PROVE  BridgeInv'
  <2>1. PICK d, v : /\ d = Dispatched(u, "repair")
                    /\ v = [d EXCEPT !.rejected = calls, !.reason = reason]
    OBVIOUS
  <2>2. TurnTrue(d, run.step)
    <3>1. "repair" \in Phases
      BY DEF Phases
    <3> QED  BY <1>1, <1>2, <2>1, <3>1, DispatchedIsTrue
  <2>3. TurnTrue(v, run.step)
    BY <1>4, <2>1, <2>2, RejectedIsTrue
  <2>4. port' = [q EXCEPT !.turn = v]
    BY <1>11, <2>1
  <2>5. PortShape(port') /\ port'.history = port.history /\ port'.turn = v
    BY ONLY <1>6, <2>4 DEF PortShape
  <2> QED  BY <1>2, <1>11, <2>3, <2>5, GoesOnKeeps
<1>12. \/ /\ port' = Accepted(q, calls)
          /\ run' = [run EXCEPT !.at = "acting", !.decision = Head(calls)]
       \/ /\ u.reason = "invalid"
          /\ port' = Accepted(q, u.rejected)
          /\ run' = [run EXCEPT !.at = "acting", !.decision = Head(u.rejected)]
       \/ /\ port' = Ended(q, <<>>, "decided")
          /\ run' = [run EXCEPT !.at = "acting", !.decision = NoCall]
       \/ port' = Ended(q, q.history, "failed") /\ RunEnds
       \/ \E reason \in {"invalid", "stale"} :
            /\ port' = [q EXCEPT !.turn = [Dispatched(u, "repair") EXCEPT
                                             !.rejected = calls, !.reason = reason]]
            /\ run' = run
  BY ONLY <1>1, <1>5, Resolved(p, calls) DEF Resolved
<1> QED  BY <1>7, <1>8, <1>9, <1>10, <1>11, <1>12

\* An answer of the provider keeps the invariant.
LEMMA RepliesKeeps ==
    ASSUME BridgeInv, Replies
    PROVE  BridgeInv'
PROOF
<1>1. port.turn.at = "calling" /\ saved' = saved
  BY DEF Replies
<1>2. PICK t : t = [port.turn EXCEPT !.captured = TRUE]
  OBVIOUS
<1>3. PICK n \in {1, ResponseLimit(port.turn)}, calls \in Proposals, truncated \in BOOLEAN :
        LET s == [port.turn EXCEPT !.captured = TRUE]
            bad == truncated \/ (s.phase = "deliberate" /\ Len(calls) # 1)
            retry == bad /\ MayComplete(s, n)
            status == IF ~bad THEN "accepted" ELSE IF retry THEN "invalid" ELSE "failed"
            p == [port EXCEPT !.turn = [s EXCEPT !.attempts = Exchanged(@, n, status)]]
        IN IF bad
           THEN \E anchored \in BOOLEAN :
                  LET again == retry /\ (s.phase = "deliberate" \/ anchored) IN
                  /\ port' = Incomplete(p, again)
                  /\ IF again THEN UNCHANGED run ELSE RunEnds
           ELSE Resolved(p, calls)
  BY ONLY Replies DEF Replies
<1>4. PICK bad, retry, status :
        /\ bad = (truncated \/ (t.phase = "deliberate" /\ Len(calls) # 1))
        /\ retry = (bad /\ MayComplete(t, n))
        /\ status = IF ~bad THEN "accepted" ELSE IF retry THEN "invalid" ELSE "failed"
  OBVIOUS
<1>5. PICK u, p : /\ u = [t EXCEPT !.attempts = Exchanged(@, n, status)]
                  /\ p = [port EXCEPT !.turn = u]
  OBVIOUS
<1>6. status \in Statuses
  BY <1>4 DEF Statuses
<1>7. (retry => n = 1) /\ bad \in BOOLEAN /\ retry \in BOOLEAN
  BY ONLY <1>4 DEF MayComplete
<1>8. IF bad
      THEN \E anchored \in BOOLEAN :
             LET again == retry /\ (t.phase = "deliberate" \/ anchored) IN
             /\ port' = Incomplete(p, again)
             /\ IF again THEN UNCHANGED run ELSE RunEnds
      ELSE Resolved(p, calls)
  BY ONLY <1>2, <1>3, <1>4, <1>5
<1>9. Answered(t, u, p, n, status)
  BY <1>2, <1>5 DEF Answered
<1>10. CASE bad
  <2>1. PICK anchored \in BOOLEAN :
          LET again == retry /\ (t.phase = "deliberate" \/ anchored) IN
          /\ port' = Incomplete(p, again)
          /\ IF again THEN UNCHANGED run ELSE RunEnds
    BY ONLY <1>8, <1>10
  <2>2. PICK again : again = (retry /\ (t.phase = "deliberate" \/ anchored))
    OBVIOUS
  <2>3. /\ again \in BOOLEAN /\ (again => retry)
        /\ port' = Incomplete(p, again)
        /\ IF again THEN UNCHANGED run ELSE RunEnds
    BY ONLY <2>1, <2>2
  <2>4. again => n = 1
    BY <1>7, <2>3
  <2> QED  BY <1>1, <1>6, <1>9, <2>3, <2>4, IncompleteKeeps
<1>11. CASE ~bad
  <2>1. Resolved(p, calls)
    BY <1>8, <1>11
  <2> QED  BY <1>1, <1>6, <1>9, <2>1, ResolvedKeeps
<1> QED  BY <1>10, <1>11

\* So does an answer the SDK gives up.
LEMMA GivesUpKeeps ==
    ASSUME BridgeInv, GivesUp
    PROVE  BridgeInv'
PROOF
<1>1. port.turn.at = "calling" /\ saved' = saved
  BY DEF GivesUp
<1>2. PICK t : t = [port.turn EXCEPT !.captured = TRUE]
  OBVIOUS
<1>3. PICK n \in {0, 1, ResponseLimit(port.turn)},
           truncated \in BOOLEAN, anchored \in BOOLEAN :
        LET s == [port.turn EXCEPT !.captured = TRUE]
            retry == MayComplete(s, n) /\ (s.phase = "deliberate" \/ truncated)
            again == retry /\ (s.phase = "deliberate" \/ anchored)
            p == [port EXCEPT !.turn = [s EXCEPT !.attempts =
                                Exchanged(@, n, IF retry THEN "invalid" ELSE "failed")]]
        IN /\ port' = Incomplete(p, again)
           /\ IF again THEN UNCHANGED run ELSE RunEnds
  BY ONLY GivesUp DEF GivesUp
<1>4. PICK retry, again, status, u, p :
        /\ retry = (MayComplete(t, n) /\ (t.phase = "deliberate" \/ truncated))
        /\ again = (retry /\ (t.phase = "deliberate" \/ anchored))
        /\ status = IF retry THEN "invalid" ELSE "failed"
        /\ u = [t EXCEPT !.attempts = Exchanged(@, n, status)]
        /\ p = [port EXCEPT !.turn = u]
  OBVIOUS
<1>5. /\ port' = Incomplete(p, again)
      /\ IF again THEN UNCHANGED run ELSE RunEnds
  BY ONLY <1>2, <1>3, <1>4
<1>6. Answered(t, u, p, n, status)
  BY <1>2, <1>4 DEF Answered
<1>7. again \in BOOLEAN /\ (again => n = 1)
  BY ONLY <1>4 DEF MayComplete
<1>8. status \in Statuses
  BY <1>4 DEF Statuses
<1> QED  BY <1>1, <1>5, <1>6, <1>7, <1>8, IncompleteKeeps

\* A request that fails on its way waits while the allowance lasts; else the
\* turn fails.
LEMMA UnavailableKeeps ==
    ASSUME BridgeInv, Unavailable
    PROVE  BridgeInv'
PROOF
<1>1. /\ port.turn.at = "calling" /\ saved' = saved
  BY DEF Unavailable
<1>2. /\ PortShape(port) /\ RunShape(run) /\ TurnTrue(port.turn, run.step)
      /\ TurnShape(port.turn) /\ run.at = "running"
      /\ Truthful(port.turn.local) /\ Closes(port.turn.local, run.step)
  BY <1>1, TurnHas
<1>3. PICK tries : tries = Settled(port.turn.attempts, "failed")
  OBVIOUS
<1>4. PICK t, u, p : /\ t = [port.turn EXCEPT !.captured = TRUE, !.attempts = tries]
                     /\ u = [t EXCEPT !.at = "sleeping"]
                     /\ p = [port EXCEPT !.turn = t]
  OBVIOUS
<1>5. \/ /\ t.retries > 0 /\ run' = run
         /\ port' = [port EXCEPT !.turn = u]
      \/ port' = Failed(p, "failed") /\ RunEnds
  BY ONLY <1>3, <1>4, Unavailable DEF Unavailable
<1>6. /\ TurnShape(t) /\ t.local = port.turn.local /\ t.retries = port.turn.retries
      /\ t.attempts = tries /\ t.rejected = port.turn.rejected /\ t.reason = port.turn.reason
  BY ONLY <1>2, <1>4 DEF TurnShape
<1>7. CASE port' = Failed(p, "failed") /\ RunEnds
  <2>1. PortShape(p) /\ p.history = port.history /\ p.turn = t
    BY ONLY <1>2, <1>4 DEF PortShape
  <2>2. RunShape(run')
    BY <1>2, <1>7, EndsShape
  <2> QED  BY <1>1, <1>2, <1>6, <1>7, <2>1, <2>2, FailedKeeps
<1>8. CASE t.retries > 0 /\ run' = run /\ port' = [port EXCEPT !.turn = u]
  <2>1. /\ TurnShape(u) /\ u.at = "sleeping" /\ u.local = t.local /\ u.retries = t.retries
        /\ u.attempts = tries /\ u.rejected = t.rejected /\ u.reason = t.reason
    BY ONLY <1>4, <1>6 DEF TurnShape
  <2>2. PortShape(port') /\ port'.history = port.history /\ port'.turn = u
    BY ONLY <1>2, <1>8 DEF PortShape
  <2>3. WithinAllowance(tries, t.retries) /\ tries # <<>>
    <3>1. "failed" \in Statuses
      BY DEF Statuses
    <3>2. WithinAllowance(port.turn.attempts, t.retries) /\ port.turn.attempts # <<>>
      BY <1>1, <1>2, <1>6 DEF TurnTrue
    <3> QED  BY <1>3, <3>1, <3>2, SettledWithin
  <2>4. u.retries # 0
    <3>1. t.retries \in Nat
      BY <2>3 DEF WithinAllowance
    <3> QED  BY ONLY <1>8, <2>1, <3>1
  <2>5. TurnTrue(u, run.step)
    BY <1>1, <1>2, <1>6, <2>1, <2>3, <2>4 DEF TurnTrue, Rejection
  <2> QED  BY <1>1, <1>2, <1>8, <2>2, <2>5, GoesOnKeeps
<1> QED  BY <1>5, <1>7, <1>8

\* A retry is one more attempt of the same envelope.
LEMMA RetryKeeps ==
    ASSUME BridgeInv, Retry
    PROVE  BridgeInv'
PROOF
<1>1. port.turn.at = "sleeping" /\ run' = run /\ saved' = saved
  BY DEF Retry
<1>2. /\ PortShape(port) /\ TurnTrue(port.turn, run.step)
      /\ TurnShape(port.turn) /\ run.at = "running" /\ port.turn.phase \in Phases
  BY <1>1, TurnHas
<1>3. PICK tries, room : /\ tries = Started(port.turn.attempts, port.turn.phase, TRUE)
                         /\ room = port.turn.retries - 1
  OBVIOUS
<1>4. port' = [port EXCEPT !.turn.at = "calling", !.turn.retries = @ - 1,
                           !.turn.attempts = Started(@, port.turn.phase, TRUE)]
  BY DEF Retry
<1>5. /\ PortShape(port') /\ port'.history = port.history
      /\ TurnShape(port'.turn) /\ port'.turn.at = "calling"
      /\ port'.turn.local = port.turn.local /\ port'.turn.retries = room
      /\ port'.turn.attempts = tries
      /\ port'.turn.rejected = port.turn.rejected /\ port'.turn.reason = port.turn.reason
  BY ONLY <1>2, <1>3, <1>4 DEF PortShape, TurnShape
<1>6. WithinAllowance(tries, room) /\ tries # <<>>
  <2>1. WithinAllowance(port.turn.attempts, port.turn.retries) /\ port.turn.retries # 0
    BY <1>1, <1>2 DEF TurnTrue
  <2> QED  BY <1>2, <1>3, <2>1, RetriedWithin
<1>7. TurnTrue(port'.turn, run.step)
  BY <1>1, <1>2, <1>5, <1>6 DEF TurnTrue, Rejection
<1> QED  BY <1>1, <1>2, <1>5, <1>7, GoesOnKeeps

\* Whatever is raised while the request is out fails the turn.
LEMMA RaisesKeeps ==
    ASSUME BridgeInv, Raises
    PROVE  BridgeInv'
PROOF
<1>1. port.turn.at = "calling" /\ saved' = saved /\ RunEnds
  BY DEF Raises
<1>2. /\ PortShape(port) /\ RunShape(run) /\ TurnShape(port.turn)
      /\ Truthful(port.turn.local) /\ Closes(port.turn.local, run.step)
  BY <1>1, TurnHas
<1>3. PICK captured \in BOOLEAN :
        port' = Failed([port EXCEPT !.turn.captured = @ \/ captured], "failed")
  BY DEF Raises
<1>4. PICK p : p = [port EXCEPT !.turn.captured = @ \/ captured]
  OBVIOUS
<1>5. PortShape(p) /\ p.history = port.history /\ p.turn.local = port.turn.local
  BY ONLY <1>2, <1>4 DEF PortShape, TurnShape
<1>6. RunShape(run')
  BY <1>1, <1>2, EndsShape
<1> QED  BY <1>1, <1>2, <1>3, <1>4, <1>5, <1>6, FailedKeeps

\* So does its cancellation, at whatever await it arrives.
LEMMA CancelledKeeps ==
    ASSUME BridgeInv, Cancel
    PROVE  BridgeInv'
PROOF
<1>1. port.turn.at # "idle" /\ saved' = saved /\ RunEnds
  BY DEF Cancel
<1>2. /\ PortShape(port) /\ RunShape(run) /\ TurnShape(port.turn)
      /\ Truthful(port.turn.local) /\ Closes(port.turn.local, run.step)
  BY <1>1, TurnHas
<1>3. PICK captured \in BOOLEAN :
        LET t == [port.turn EXCEPT
                    !.cancelled = TRUE,
                    !.captured = @ \/ (captured /\ port.turn.at = "calling"),
                    !.attempts = IF port.turn.at = "calling"
                                 THEN Settled(@, "cancelled") ELSE @]
        IN port' = Failed([port EXCEPT !.turn = t], "cancelled")
  BY DEF Cancel
<1>4. PICK t, p :
        /\ t = [port.turn EXCEPT
                  !.cancelled = TRUE,
                  !.captured = @ \/ (captured /\ port.turn.at = "calling"),
                  !.attempts = IF port.turn.at = "calling"
                               THEN Settled(@, "cancelled") ELSE @]
        /\ p = [port EXCEPT !.turn = t]
  OBVIOUS
<1>5. t.local = port.turn.local
  BY ONLY <1>2, <1>4 DEF TurnShape
<1>6. PortShape(p) /\ p.history = port.history /\ p.turn = t
  BY ONLY <1>2, <1>4 DEF PortShape
<1>7. RunShape(run')
  BY <1>1, <1>2, EndsShape
<1>8. port' = Failed(p, "cancelled")
  BY ONLY <1>3, <1>4
<1> QED  BY <1>1, <1>2, <1>5, <1>6, <1>7, <1>8, FailedKeeps

\* A step of the run between turns: the port has no turn.
LEMMA BetweenTurnsKeeps ==
    ASSUME BridgeInv, port.turn.at = "idle", PortShape(port'), port'.turn = port.turn,
           Truthful(port'.history), Truthful(saved'.history), RunShape(run')
    PROVE  BridgeInv'
PROOF
<1>1. TurnTrue(port.turn, run'.step)
  BY DEF BridgeInv, TurnTrue
<1> QED  BY <1>1 DEF BridgeInv

\* The loop and the session take their steps between the turns of the policy.
LEMMA RunKeeps ==
    ASSUME BridgeInv, Commit \/ Answer \/ Resume \/ Crash \/ Recover
    PROVE  BridgeInv'
PROOF
<1>1. /\ PortShape(port) /\ RunShape(run)
      /\ Truthful(port.history) /\ Truthful(saved.history)
      /\ run.at # "running" => port.turn.at = "idle"
  BY TurnHas
<1>2. CASE Commit
  <2>1. /\ port.turn.at = "idle" /\ port' = port /\ saved' = saved
    BY <1>1, <1>2 DEF Commit
  <2>2. RunShape(run')
    BY ONLY <1>1, <1>2 DEF Commit, RunShape
  <2> QED  BY <1>1, <2>1, <2>2, BetweenTurnsKeeps
<1>3. CASE Answer
  <2>1. /\ port.turn.at = "idle" /\ port' = port /\ saved' = saved
    BY <1>1, <1>3 DEF Answer
  <2>2. RunShape(run')
    BY ONLY <1>1, <1>3 DEF Answer, RunShape
  <2> QED  BY <1>1, <2>1, <2>2, BetweenTurnsKeeps
<1>4. CASE Resume
  <2>1. /\ port.turn.at = "idle" /\ port' = port
    BY <1>1, <1>4 DEF Resume
  <2>2. RunShape(run')
    BY ONLY <1>1, <1>4 DEF Resume, RunShape
  <2>3. Truthful(saved'.history)
    <3>1. saved'.history = <<>>
      BY <1>4 DEF Resume, NoCheckpoint
    <3> QED  BY <3>1, NothingIsTrue
  <2> QED  BY <1>1, <2>1, <2>2, <2>3, BetweenTurnsKeeps
<1>5. CASE Crash
  <2>1. PICK none : none = <<>>
    OBVIOUS
  <2>2. PICK idle : idle = Idle
    OBVIOUS
  <2>3. /\ port' = [port EXCEPT !.history = none, !.identity = 0, !.outcome = "none",
                                !.turn = idle]
        /\ run' = [run EXCEPT !.at = "lost"] /\ saved' = saved
    BY <1>5, <2>1, <2>2 DEF Crash
  <2>4. /\ PortShape(port') /\ port'.history = none /\ port'.turn = idle
    BY ONLY <1>1, <2>3 DEF PortShape
  <2>5. RunShape(run')
    BY ONLY <1>1, <2>3 DEF RunShape
  <2>7. TurnTrue(idle, run'.step) /\ idle.at = "idle"
    BY <2>2, IdleIsTrue
  <2>8. Truthful(none)
    BY <2>1, NothingIsTrue
  <2> QED  BY <1>1, <2>3, <2>4, <2>5, <2>7, <2>8 DEF BridgeInv
<1>6. CASE Recover
  <2>1. port.turn.at = "idle" /\ saved' = saved
    BY <1>1, <1>6 DEF Recover
  <2>2. port' = [port EXCEPT !.history = saved.history, !.identity = saved.rev]
    BY <1>6 DEF Recover
  <2>3. PortShape(port') /\ port'.history = saved.history /\ port'.turn = port.turn
    BY ONLY <1>1, <2>2 DEF PortShape
  <2>4. RunShape(run')
    BY ONLY <1>1, <1>6 DEF Recover, RunShape
  <2> QED  BY <1>1, <2>1, <2>3, <2>4, BetweenTurnsKeeps
<1> QED  BY <1>2, <1>3, <1>4, <1>5, <1>6

\* A pause closes the open calls before the history is stored.
LEMMA PauseKeeps ==
    ASSUME BridgeInv, Pause
    PROVE  BridgeInv'
PROOF
<1>1. /\ PortShape(port) /\ RunShape(run)
      /\ Truthful(port.history) /\ Truthful(saved.history)
      /\ port.turn.at = "idle"
  BY TurnHas DEF Pause
<1>2. PICK step, settled, goesOn :
        /\ step = BoundaryStep
        /\ settled = Folded(Closed(port.history, step))
        /\ goesOn = IF run.at = "acting" THEN "running" ELSE run.at
  OBVIOUS
<1>3. \/ /\ run' = [run EXCEPT !.at = goesOn, !.step = step, !.decision = NoCall]
         /\ port' = port /\ saved' = saved
      \/ /\ Closes(port.history, step)
         /\ port' = [port EXCEPT !.history = settled]
         /\ \/ /\ run' = [run EXCEPT !.at = "paused", !.from = goesOn,
                                     !.step = step, !.decision = NoCall]
               /\ saved' = Checkpoint(settled, goesOn, step)
            \/ /\ run' = [run EXCEPT !.at = goesOn, !.step = step, !.decision = NoCall]
               /\ saved' = saved
  BY ONLY <1>2, Pause DEF Pause
<1>4. RunShape(run')
  BY ONLY <1>1, <1>3 DEF RunShape
<1>5. CASE port' = port /\ saved' = saved
  BY <1>1, <1>4, <1>5, BetweenTurnsKeeps
<1>6. CASE /\ Closes(port.history, step)
           /\ port' = [port EXCEPT !.history = settled]
           /\ saved' = saved \/ saved' = Checkpoint(settled, goesOn, step)
  <2>1. PICK closed : closed = Closed(port.history, step)
    OBVIOUS
  <2>2. Truthful(closed)
    BY <1>1, <1>6, <2>1, CloseIsTrue DEF Closed
  <2>3. Truthful(settled)
    BY <1>2, <2>1, <2>2, FoldedIsTrue
  <2>4. PortShape(port') /\ port'.history = settled /\ port'.turn = port.turn
    BY ONLY <1>1, <1>6 DEF PortShape
  <2>5. Truthful(saved'.history)
    <3>1. saved'.history = saved.history \/ saved'.history = settled
      BY <1>6 DEF Checkpoint
    <3> QED  BY <1>1, <2>3, <3>1
  <2> QED  BY <1>1, <1>4, <2>3, <2>4, <2>5, BetweenTurnsKeeps
<1> QED  BY <1>3, <1>5, <1>6

\* A revision gives the history of the old task up.
LEMMA ReviseKeeps ==
    ASSUME BridgeInv, Revise
    PROVE  BridgeInv'
PROOF
<1>1. /\ PortShape(port) /\ RunShape(run) /\ port.turn.at = "idle"
  BY TurnHas DEF Revise
<1>2. PICK none, next : none = <<>> /\ next = run.rev + 1
  OBVIOUS
<1>3. port' = [port EXCEPT !.history = none, !.identity = next]
  BY <1>2 DEF Revise
<1>4. PortShape(port') /\ port'.history = none /\ port'.turn = port.turn
  BY ONLY <1>1, <1>3 DEF PortShape
<1>5. RunShape(run')
  BY ONLY <1>1, Revise DEF Revise, RunShape
<1>6. saved'.history = none
  BY <1>2 DEF Revise
<1>7. Truthful(none)
  BY <1>2, NothingIsTrue
<1> QED  BY <1>1, <1>4, <1>5, <1>6, <1>7, BetweenTurnsKeeps

\* It holds when a task is admitted.
LEMMA BridgeInvInit == BridgeInit => BridgeInv
PROOF
<1> SUFFICES ASSUME BridgeInit PROVE BridgeInv
  OBVIOUS
<1>1. PICK none, idle : none = <<>> /\ idle = Idle
  OBVIOUS
<1>2. port = [history |-> none, identity |-> 1, issued |-> 0, outcome |-> "none",
              turn |-> idle]
  BY <1>1 DEF BridgeInit
<1>3. PortShape(port) /\ port.history = none /\ port.turn = idle
  BY ONLY <1>2 DEF PortShape
<1>4. RunShape(run)
  BY ONLY BridgeInit DEF BridgeInit, RunShape
<1>5. saved.history = none
  BY <1>1 DEF BridgeInit, NoCheckpoint
<1>6. Truthful(none)
  BY <1>1, NothingIsTrue
<1>8. TurnTrue(idle, run.step) /\ idle.at = "idle"
  BY <1>1, IdleIsTrue
<1> QED  BY <1>3, <1>4, <1>5, <1>6, <1>8 DEF BridgeInv

\* Every step of the bridge keeps the invariant.
LEMMA BridgeStep ==
    ASSUME BridgeInv, [BridgeNext]_bridgeVars
    PROVE  BridgeInv'
PROOF
<1>1. CASE UNCHANGED bridgeVars
  BY <1>1 DEF bridgeVars, BridgeInv
<1> QED
  BY <1>1, ThinkKeeps, CompactKeeps, RepliesKeeps, GivesUpKeeps, UnavailableKeeps,
     RetryKeeps, RaisesKeeps, CancelledKeeps, RunKeeps, PauseKeeps, ReviseKeeps
  DEF BridgeNext

\* The invariant of the bridge holds in every reachable state, for every
\* number of calls, of revisions and of retries.
THEOREM BridgeIsSound == BridgeSpec => []BridgeInv
PROOF
<1>1. BridgeInv /\ [BridgeNext]_bridgeVars => BridgeInv'
  BY BridgeStep
<1> QED
  BY <1>1, BridgeInvInit, PTL DEF BridgeSpec

\* Whatever is compacted, closed at a boundary, failed, repaired or recovered,
\* the history the model is sent, the one a turn works with and the stored one
\* can be coded for the provider, and every result in them stands with the
\* calls of the step that earned it (generate, close_deferred_call,
\* restore_persisted_checkpoint_history).
THEOREM HistoriesTellTheTruth == BridgeSpec => []HistoryTellsTheTruth
PROOF
<1>1. ASSUME NEW h, Truthful(h)
      PROVE  /\ Codable(h)
             /\ \A i \in 1..Len(h) : h[i].kind = "returns" => h[i].by = Head(h[i].calls)
  <2>1. h \in Seq(Messages) /\ Codable(h)
    BY <1>1 DEF Truthful
  <2>2. \A i \in 1 .. Len(h) : h[i] \in Messages
    BY <2>1
  <2> QED  BY <2>1, <2>2, MessagesHave
<1>2. BridgeInv => HistoryTellsTheTruth
  <2> SUFFICES ASSUME BridgeInv PROVE HistoryTellsTheTruth
    OBVIOUS
  <2>1. Truthful(port.history) /\ Truthful(port.turn.local) /\ Truthful(saved.history)
    BY TurnHas
  <2> QED  BY <1>1, <2>1 DEF HistoryTellsTheTruth
<1> QED
  BY <1>2, BridgeIsSound, PTL

\* However often the SDK and the port's own fallback ask again within an
\* envelope, its transport retries stay within one allowance
\* (_record_attempt_started, _replace_active_attempt).
THEOREM AllowanceIsOne == BridgeSpec => []OneAllowance
PROOF
<1>1. BridgeInv => OneAllowance
  <2> SUFFICES ASSUME BridgeInv PROVE OneAllowance
    OBVIOUS
  <2>1. WithinAllowance(port.turn.attempts, port.turn.retries)
    BY DEF BridgeInv, TurnTrue
  <2>2. /\ Cardinality(RetriesIn(port.turn.attempts)) \in Nat
        /\ Cardinality(RetriesIn(port.turn.attempts)) <= MaxRetries
    BY <2>1, RetriesAssumption DEF WithinAllowance
  <2> QED  BY <2>2 DEF OneAllowance, RetriesIn
<1> QED
  BY <1>1, BridgeIsSound, PTL

=============================================================================
