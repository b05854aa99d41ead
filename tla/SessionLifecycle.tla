-------------------------- MODULE SessionLifecycle --------------------------
(***************************************************************************)
(* The public session implements RunLifecycle: its forty-odd actions, with *)
(* their runner, locks, transactions and recoveries, are steps of the      *)
(* abstract run or change nothing of it.                                   *)
(***************************************************************************)
EXTENDS PublicSession

\* the stage of the run, from the process, the control lease and the run
Stage ==
    CASE ~live -> "gone"
      [] live /\ run.status = "none" -> "new"
      [] live /\ run.status # "none" /\ Terminal(run) -> "over"
      [] live /\ run.status # "none" /\ ~Terminal(run) ->
            IF session.owner = "user" \/ session.returning THEN "user"
            ELSE IF AtPause(run) THEN "held"
            ELSE "open"

Lifecycle ==
    INSTANCE RunLifecycle WITH stage <- Stage, known <- run.execs, sent <- sent

\* Across pauses, takeovers, crashes and recoveries an effect leaves only an
\* open run that the agent holds, one at a time, and whoever stops, takes,
\* ends or recovers the run knows of every effect.
ImplementsLifecycle == Lifecycle!Spec
=============================================================================
