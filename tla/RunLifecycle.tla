---------------------------- MODULE RunLifecycle ----------------------------
(***************************************************************************)
(* What a session promises of one run and its effects, whatever happens    *)
(* inside it: an effect leaves only while the agent holds an open run, one *)
(* at a time, and the run is held, handed to the user, or over only when   *)
(* it knows every effect that has left.  A process that dies forgets the   *)
(* run; what another process makes of it is held, and knows every effect.  *)
(***************************************************************************)
EXTENDS Naturals

VARIABLES
    stage,   \* who may do something with the run
    known,   \* the effects the run has on record
    sent     \* the effects that have left

lifecycle == <<stage, known, sent>>

Stages == {"new", "open", "held", "user", "over", "gone"}

Init ==
    /\ stage = "new"
    /\ known = 0
    /\ sent = 0

\* a run begins, and may be over at once
Begin ==
    /\ stage = "new"
    /\ stage' \in {"open", "over"}
    /\ UNCHANGED <<known, sent>>

Effect ==
    /\ stage = "open"
    /\ known = sent
    /\ sent' = sent + 1
    /\ UNCHANGED <<stage, known>>

\* the run learns of the effect under way and goes on, stops, or ends
Account ==
    /\ stage = "open"
    /\ known < sent
    /\ known' = sent
    /\ stage' \in {"open", "held", "over"}
    /\ UNCHANGED sent

\* with no effect under way, an open run stops or ends, a held one is
\* released, handed over, or ended, and the user gives an open run back
Move(from, to) ==
    /\ stage = from
    /\ known = sent
    /\ stage' \in to
    /\ UNCHANGED <<known, sent>>

Settle ==
    \/ Move("open", {"held", "over"})
    \/ Move("held", {"open", "user", "over"})
    \/ Move("user", {"open", "over"})

Die ==
    /\ stage # "gone"
    /\ stage' = "gone"
    /\ known' = 0
    /\ UNCHANGED sent

Revive ==
    /\ stage = "gone"
    /\ stage' = "held"
    /\ known' = sent
    /\ UNCHANGED sent

Next == Begin \/ Effect \/ Account \/ Settle \/ Die \/ Revive

Spec == Init /\ [][Next]_lifecycle
=============================================================================
