----------------------------- MODULE RunControl -----------------------------
(***************************************************************************)
(* CooperativeRunControl (agent/run_control.py): the in-memory owner of    *)
(* the pause and cancel requests of one Runtime session.  A request waits  *)
(* in `pending` until the loop acknowledges it at a safe boundary, fails   *)
(* it, or finds the run terminal; a reached pause is held in `paused`      *)
(* until it is resumed or cancelled.  Each answer enters a history of at   *)
(* most MaxOutcomes outcomes.                                              *)
(*                                                                         *)
(* The methods are operators from one control record to the next, so that  *)
(* RunLoop and PublicSession can take several of them in one step.  The    *)
(* dispatch status and the failure code an outcome carries are left out:   *)
(* nothing in the control owner reads them.                                *)
(***************************************************************************)
EXTENDS Naturals, Sequences

CONSTANTS
    CommandIds,   \* identities of control commands
    MaxOutcomes,  \* _max_outcomes: 128 in the code
    None          \* Python's None

ASSUME MaxOutcomesAssumption == MaxOutcomes \in Nat \ {0}
Kinds == {"pause", "cancel"}

Boundaries == {"before_policy", "after_policy", "after_evaluation",
               "waiting_user", "waiting_confirmation"}

Answers == {"pause_boundary_reached", "cancelled", "superseded",
            "run_already_terminal", "boundary_failed", "resumed"}

Reached == {"pause_boundary_reached", "cancelled"}

Request == [id : CommandIds, kind : Kinds]

\* RunControlOutcome: exactly a reached outcome has a boundary
Outcome ==
    {o \in [id : CommandIds, kind : Kinds, answer : Answers,
            boundary : Boundaries \cup {None}] :
        (o.boundary # None) <=> (o.answer \in Reached)}

ASSUME NoneAssumption ==
    None \notin CommandIds \cup Boundaries \cup Request \cup Outcome

Control == [pending  : Request \cup {None},
            paused   : Outcome \cup {None},
            outcomes : [CommandIds -> Outcome \cup {None}],
            order    : Seq(CommandIds)]

Fresh == [pending  |-> None,
          paused   |-> None,
          outcomes |-> [i \in CommandIds |-> None],
          order    |-> << >>]


-----------------------------------------------------------------------------
(* The methods.                                                            *)

\* _record without the eviction
RecordForever(c, o) ==
    [c EXCEPT !.outcomes = [@ EXCEPT ![o.id] = o], !.order = Append(@, o.id)]

\* _record: the newest outcome enters, the oldest leaves a full history
Record(c, o) ==
    LET grown == RecordForever(c, o)
    IN  IF Len(grown.order) > MaxOutcomes
        THEN [grown EXCEPT !.order = Tail(grown.order),
                           !.outcomes[Head(grown.order)] = None]
        ELSE grown

\* the answer to the pending request when no boundary was reached
Answered(c, answer) ==
    [id |-> c.pending.id, kind |-> c.pending.kind,
     answer |-> answer, boundary |-> None]

IsPending(c, i) == c.pending # None /\ c.pending.id = i

\* request, first test: the command was answered or is waiting
Known(c, i) == c.outcomes[i] # None \/ IsPending(c, i)

\* request: a waiting request yields to a cancel only, and only a pause does
OccupiedFor(c, r) ==
    /\ c.paused = None
    /\ c.pending # None
    /\ ~(c.pending.kind = "pause" /\ r.kind = "cancel")

\* request: what keeps a new command out
Refuses(c, r) == (c.paused # None /\ r.kind = "pause") \/ OccupiedFor(c, r)

\* request: what the caller is told
Admission(c, r) ==
    CASE Known(c, r.id)                       -> "duplicate"
      [] ~Known(c, r.id) /\ Refuses(c, r)     -> "conflict"
      [] ~Known(c, r.id) /\ ~Refuses(c, r)    -> "accepted"

\* request: a cancel supersedes a pending pause; on a paused run it takes
\* the pending slot whatever is there
Requested(c, r) ==
    IF Admission(c, r) = "accepted"
    THEN LET known == IF c.paused = None /\ c.pending # None
                      THEN Record(c, Answered(c, "superseded")) ELSE c
         IN  [known EXCEPT !.pending = r]
    ELSE c

\* preview
Preview(c, b) ==
    [id |-> c.pending.id, kind |-> c.pending.kind,
     answer |-> IF c.pending.kind = "pause" THEN "pause_boundary_reached"
                                            ELSE "cancelled",
     boundary |-> b]

\* acknowledge with the pending slot left as it is
AcknowledgedKept(c, b) ==
    Record([c EXCEPT !.paused = IF c.pending.kind = "pause"
                                THEN Preview(c, b) ELSE None],
           Preview(c, b))

\* acknowledge
Acknowledged(c, b) ==
    Record([c EXCEPT !.pending = None,
                     !.paused = IF c.pending.kind = "pause"
                                THEN Preview(c, b) ELSE None],
           Preview(c, b))

\* fail_pending
FailedPending(c) ==
    Record([c EXCEPT !.pending = None], Answered(c, "boundary_failed"))

\* resolve_terminal
ResolvedTerminal(c) ==
    IF c.pending = None THEN c
    ELSE Record([c EXCEPT !.pending = None],
                Answered(c, "run_already_terminal"))

\* resume, for a run that is paused: a known command changes nothing
Resumed(c, i) ==
    IF c.outcomes[i] # None THEN c
    ELSE Record([c EXCEPT !.paused = None],
                [id |-> i, kind |-> "pause", answer |-> "resumed",
                 boundary |-> None])

\* restore_paused, on the control of a fresh Runtime
RestoredPaused(o) == Record([Fresh EXCEPT !.paused = o], o)

-----------------------------------------------------------------------------
(* The owner on its own, under any caller that does what the callers in    *)
(* core_loop.py, runtime.py and public_session.py do: only a pending pause *)
(* is failed, only a paused run is resumed, and a resume command is not    *)
(* the command that is waiting for an answer.                              *)

VARIABLE control

ControlInit == control = Fresh

CallRequest ==
    \E r \in Request : control' = Requested(control, r)

CallAcknowledge ==
    /\ control.pending # None
    /\ \E b \in Boundaries : control' = Acknowledged(control, b)

CallFailPending ==
    /\ control.pending # None
    /\ control.pending.kind = "pause"
    /\ control' = FailedPending(control)

CallResolveTerminal ==
    /\ control.pending # None
    /\ control' = ResolvedTerminal(control)

CallResume ==
    /\ control.paused # None
    /\ \E i \in CommandIds :
        /\ control.pending # None => i # control.pending.id
        /\ control' = Resumed(control, i)

\* A new Runtime process hydrates a pause that an earlier one committed.
Restart ==
    \E i \in CommandIds, b \in Boundaries :
        control' = RestoredPaused([id |-> i, kind |-> "pause",
                                   answer |-> "pause_boundary_reached",
                                   boundary |-> b])

ControlNext ==
    \/ CallRequest
    \/ CallAcknowledge
    \/ CallFailPending
    \/ CallResolveTerminal
    \/ CallResume
    \/ Restart

ControlSpec == ControlInit /\ [][ControlNext]_control

-----------------------------------------------------------------------------
(* Properties.                                                             *)

\* The control record has its type; in particular a stored outcome has a
\* boundary exactly when it says one was reached (RunControlOutcome).
ControlTypeOK == control \in Control

\* The order list names each retained outcome once and nothing else, and is
\* never longer than the bound.
InStep(c) ==
    /\ Len(c.order) <= MaxOutcomes
    /\ \A i \in CommandIds :
        c.outcomes[i] # None
            <=> \E n \in 1 .. Len(c.order) : c.order[n] = i
    /\ \A m, n \in 1 .. Len(c.order) : c.order[m] = c.order[n] => m = n

\* The history and its eviction order agree: _record keeps the dictionary and
\* the list in step through every eviction.
HistoryAgrees == InStep(control)

\* No command is waiting and answered at the same time, so that an answer in
\* the history is never rewritten by a second one.
PendingUnanswered ==
    control.pending # None => control.outcomes[control.pending.id] = None

\* While a pause is held, it is a pause that reached its boundary and the only
\* request that can be waiting is a cancel.
PausedAdmitsOnlyCancel ==
    control.paused # None =>
        /\ control.paused.answer = "pause_boundary_reached"
        /\ control.paused.kind = "pause"
        /\ control.pending # None => control.pending.kind = "cancel"

=============================================================================
