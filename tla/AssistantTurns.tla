--------------------------- MODULE AssistantTurns ---------------------------
(***************************************************************************)
(* AssistantSessionPort (external/interaction-shell, assistant_port.py)    *)
(* behind one handle: a command starts a turn of the outer assistant; the  *)
(* turn may delegate one task to an inner GUI session, follow it, and      *)
(* decide what the session shows; the client polls meanwhile.  Commands    *)
(* are serialised by their caller, the manager's lock; polls and the       *)
(* clean-up of an expired session are not.                                 *)
(*                                                                         *)
(* One action runs from one await that gives way to the next.  Bringing    *)
(* the inner session's events up to date does not give way: the installed  *)
(* port answers from a list.  The inner session itself is external: the    *)
(* log of its statuses is its events.                                      *)
(***************************************************************************)
EXTENDS Integers, Sequences, FiniteSets

CONSTANTS
    MaxTurns,      \* bounds of the model: turns of the handle,
    MaxLog,        \* events of one inner session,
    MaxMessages    \* commands of the client

ASSUME TurnsAssumption ==
    MaxTurns \in Nat \ {0} /\ MaxLog \in Nat /\ MaxMessages \in Nat

VARIABLES
    shown,     \* handle.snapshot: the status, and who published it
    turns,     \* the task of each turn
    inner,     \* inner_handle, inner_snapshot, inner_cursor, inner_wakeup
    gui,       \* the inner sessions, external
    cmd,       \* the command under way
    closing,   \* closed, and how far close has come
    messages   \* commands so far

turnVars == <<shown, turns, inner, gui, cmd, closing, messages>>

TurnIds == 1 .. MaxTurns

GuiTerminal == {"done", "failed", "cancelled"}

Unbegun == [at |-> "none", used |-> FALSE, result |-> "none"]

NoInner == [handle |-> 0, seen |-> "none", cursor |-> 0, wakeup |-> FALSE]

NoMessage == [at |-> "idle", kind |-> "none", expect |-> "none"]

TurnsInit ==
    /\ shown = [status |-> "idle", by |-> "turn"]
    /\ turns = [i \in TurnIds |-> Unbegun]
    /\ inner = NoInner
    /\ gui = [i \in TurnIds |-> [open |-> FALSE, log |-> <<>>]]
    /\ cmd = NoMessage
    /\ closing = "open"
    /\ messages = 0

Says(status) == [status |-> status, by |-> "turn"]

Alive(i) == turns[i].at \notin {"none", "ended"}

\* active_turn is not None and not done
ActiveTurns == {i \in TurnIds : Alive(i)}

StatusOf(g) == IF gui[g].log = <<>> THEN "idle" ELSE gui[g].log[Len(gui[g].log)]

-----------------------------------------------------------------------------
(* _refresh_inner: the inner session's new events are taken over and shown. *)

HasNews == inner.handle # 0 /\ Len(gui[inner.handle].log) > inner.cursor

\* _project_inner_snapshot: a terminal inner session is still a running turn
Projected(status) == IF status \in GuiTerminal THEN "running" ELSE status

FreshInner ==
    IF HasNews THEN [inner EXCEPT !.cursor = Len(gui[inner.handle].log),
                                  !.seen = StatusOf(inner.handle)]
               ELSE inner

FreshShown ==
    IF HasNews THEN [status |-> Projected(StatusOf(inner.handle)), by |-> "gui"]
               ELSE shown

Refreshes == inner' = FreshInner /\ shown' = FreshShown

\* _retire_inner up to its await: the turn that waits is woken
Retired == [NoInner EXCEPT !.wakeup = TRUE]

GuiCloses(g) == gui' = IF g = 0 THEN gui ELSE [gui EXCEPT ![g].open = FALSE]

-----------------------------------------------------------------------------
(* A turn: _run_turn and _run_gui_task.                                    *)

Goes(i, place) == turns' = [turns EXCEPT ![i].at = place]

OnlyTurn == UNCHANGED <<cmd, closing, messages>>

\* the runner's answer decides the status: the delegated result if it is not
\* a success, a question, or an answer
TurnAnswers(i) ==
    /\ turns[i].at = "model"
    /\ Goes(i, "ended")
    /\ \E status \in IF turns[i].result \in {"failed", "cancelled"}
                     THEN {turns[i].result} ELSE {"done", "waiting"} :
        shown' = Says(status)
    /\ UNCHANGED <<inner, gui>> /\ OnlyTurn

\* the model, or a call to the inner session, raises
TurnFails(i) ==
    /\ turns[i].at \in {"model", "open", "snapshot", "start"}
    /\ Goes(i, "ended")
    /\ shown' = Says("failed")
    /\ UNCHANGED <<inner, gui>> /\ OnlyTurn

\* the runner calls its one GUI task: an earlier inner session is retired
TurnDelegates(i) ==
    /\ turns[i].at = "model" /\ ~turns[i].used
    /\ turns' = [turns EXCEPT ![i] = [at |-> "open", used |-> TRUE, result |-> "none"]]
    /\ GuiCloses(inner.handle)
    /\ inner' = Retired
    /\ UNCHANGED shown /\ OnlyTurn

TurnOpens(i) ==
    /\ turns[i].at = "open"
    /\ gui' = [gui EXCEPT ![i] = [open |-> TRUE, log |-> <<>>]]
    /\ inner' = [inner EXCEPT !.handle = i]
    /\ Goes(i, "snapshot")
    /\ UNCHANGED shown /\ OnlyTurn

TurnSnapshots(i) ==
    /\ turns[i].at = "snapshot"
    /\ inner' = [inner EXCEPT !.seen = StatusOf(i), !.cursor = 0]
    /\ Goes(i, "start")
    /\ UNCHANGED <<shown, gui>> /\ OnlyTurn

\* the inner session admits the task, or the delegation has failed
TurnStartsGui(i) ==
    /\ turns[i].at = "start"
    /\ \/ /\ StatusOf(i) = "idle" /\ gui[i].open
          /\ gui' = [gui EXCEPT ![i].log = Append(@, "running")]
          /\ Goes(i, "sleep")
       \/ /\ turns' = [turns EXCEPT ![i].at = "model", ![i].result = "failed"]
          /\ UNCHANGED gui
    /\ UNCHANGED <<shown, inner>> /\ OnlyTurn

\* what the turn makes of the inner session's status: a result, a wait for
\* the user's next command, or another look
Follows(turn, seen) ==
    CASE seen = "none" -> [turn EXCEPT !.at = "model", !.result = "failed"]
      [] seen \in GuiTerminal -> [turn EXCEPT !.at = "model", !.result = seen]
      [] seen = "waiting" -> [turn EXCEPT !.at = "wait"]
      [] OTHER -> [turn EXCEPT !.at = "sleep"]

\* the next look: after a tenth of a second, or once woken
TurnLooks(i) ==
    /\ \/ turns[i].at = "sleep" /\ inner' = FreshInner
       \/ /\ turns[i].at = "wait" /\ inner.wakeup
          /\ inner' = [FreshInner EXCEPT !.wakeup = FALSE]
    /\ turns' = [turns EXCEPT ![i] = Follows(@, FreshInner.seen)]
    /\ shown' = FreshShown
    /\ UNCHANGED gui /\ OnlyTurn

-----------------------------------------------------------------------------
(* Commands: command.                                                      *)

MessageKinds == {"start", "answer", "revise", "cancel", "close", "steer"}

MessageGoes(place) == cmd' = [cmd EXCEPT !.at = place]

\* the client sends a command for the status it is shown
MessageComes ==
    /\ cmd = NoMessage
    /\ messages < MaxMessages
    /\ messages' = messages + 1
    /\ \E kind \in MessageKinds :
        cmd' = [at |-> "came", kind |-> kind, expect |-> shown.status]
    /\ UNCHANGED <<shown, turns, inner, gui, closing>>

\* a revision that leaves the running turn to itself
LeavesTurns == UNCHANGED turns

\* active_turn.cancel(): whatever it awaits, the turn is over
CancelsTurns ==
    turns' = [i \in TurnIds |-> IF Alive(i) THEN [turns[i] EXCEPT !.at = "ended"]
                                            ELSE turns[i]]

\* the command passes the checks; the inner session was refreshed first
Deciding(kind) ==
    /\ cmd.at = "came" /\ cmd.kind = kind
    /\ closing = "open" /\ cmd.expect = FreshShown.status
    /\ shown' = FreshShown
    /\ UNCHANGED messages

\* session_closed, stale_command
DecideConflict ==
    /\ cmd.at = "came"
    /\ closing # "open" \/ cmd.expect # FreshShown.status
    /\ Refreshes
    /\ cmd' = NoMessage
    /\ UNCHANGED <<turns, gui, closing, messages>>

DecideClose ==
    /\ Deciding("close")
    /\ closing' = "join"
    /\ CancelsTurns
    /\ inner' = FreshInner
    /\ cmd' = NoMessage
    /\ UNCHANGED gui

\* _cancel: the inner session is told first
DecideCancel ==
    /\ Deciding("cancel")
    /\ inner' = FreshInner
    /\ MessageGoes(IF inner'.handle # 0 /\ inner'.seen # "none" THEN "tell" ELSE "stop")
    /\ UNCHANGED <<turns, gui, closing>>

\* and ends at once, ends later, refuses, or does not answer
CancelTold ==
    /\ cmd.at = "tell"
    /\ MessageGoes("stop")
    /\ \/ /\ inner.handle # 0 /\ gui[inner.handle].open
          /\ StatusOf(inner.handle) = "waiting"
          /\ Len(gui[inner.handle].log) < MaxLog
          /\ gui' = [gui EXCEPT ![inner.handle].log = Append(@, "cancelled")]
       \/ UNCHANGED gui
    /\ UNCHANGED <<shown, turns, inner, closing, messages>>

CancelStops ==
    /\ cmd.at = "stop"
    /\ CancelsTurns
    /\ MessageGoes("stopped")
    /\ UNCHANGED <<shown, inner, gui, closing, messages>>

CancelPublished ==
    /\ cmd.at = "stopped"
    /\ shown' = Says("cancelled")
    /\ cmd' = NoMessage
    /\ UNCHANGED <<turns, inner, gui, closing, messages>>

\* StartTask: a conflict while a turn runs, else the last inner session is
\* retired and a turn started
DecideStart ==
    /\ Deciding("start")
    /\ IF ActiveTurns # {} THEN cmd' = NoMessage /\ inner' = FreshInner /\ UNCHANGED gui
       ELSE GuiCloses(inner.handle) /\ inner' = Retired /\ MessageGoes("begin")
    /\ UNCHANGED <<turns, closing>>

\* _start_turn, which looks at closed no more
TurnBegins ==
    /\ cmd.at = "begin"
    /\ \E i \in TurnIds :
        /\ turns[i].at = "none"
        /\ \A j \in TurnIds : j < i => turns[j].at # "none"
        /\ Goes(i, "model")
    /\ shown' = Says("running")
    /\ cmd' = NoMessage
    /\ UNCHANGED <<inner, gui, closing, messages>>

\* MaxTurns is reached: the command is given up
NoTurnLeft == \A i \in TurnIds : turns[i].at # "none"

TurnUnmodelled ==
    /\ cmd.at = "begin" /\ NoTurnLeft
    /\ cmd' = NoMessage
    /\ UNCHANGED <<shown, turns, inner, gui, closing, messages>>

HasInner == FreshInner.handle # 0 /\ FreshInner.seen # "none"

\* every other command goes to the inner session while there is one
DecideForward ==
    /\ \E kind \in {"answer", "revise", "steer"} : Deciding(kind)
    /\ HasInner
    /\ inner' = FreshInner
    /\ MessageGoes("forward")
    /\ UNCHANGED <<turns, gui, closing>>

\* the inner session's answer with the turn that waits for it left asleep
Unwoken == inner

\* the turn that waits is woken
Woken == [inner EXCEPT !.wakeup = TRUE]

\* The inner session admits the command, shows it and the turn is woken; or
\* it does not admit it, which wakes the turn as well.
MessageForwarded ==
    /\ cmd.at = "forward"
    /\ \/ /\ inner.handle # 0 /\ gui[inner.handle].open
          /\ StatusOf(inner.handle) = "waiting"
          /\ Len(gui[inner.handle].log) < MaxLog
          /\ LET log == Append(gui[inner.handle].log, "running")
             IN  /\ gui' = [gui EXCEPT ![inner.handle].log = log]
                 /\ inner' = [Woken EXCEPT !.seen = "running", !.cursor = Len(log)]
                 /\ shown' = [status |-> "running", by |-> "gui"]
       \/ inner' = [FreshInner EXCEPT !.wakeup = Woken.wakeup] /\ shown' = FreshShown
          /\ UNCHANGED gui
    /\ cmd' = NoMessage
    /\ UNCHANGED <<turns, closing, messages>>

\* ReviseTask without an inner session: the turn is stopped and replaced
DecideRevise ==
    /\ Deciding("revise")
    /\ ~HasInner
    /\ CancelsTurns
    /\ inner' = FreshInner
    /\ MessageGoes("begin")
    /\ UNCHANGED <<gui, closing>>

\* AnswerQuestion without one: the question must be the outer assistant's
DecideAnswer ==
    /\ Deciding("answer")
    /\ ~HasInner
    /\ inner' = FreshInner
    /\ IF shown' = Says("waiting") THEN MessageGoes("begin") ELSE cmd' = NoMessage
    /\ UNCHANGED <<turns, gui, closing>>

DecideSteer ==
    /\ Deciding("steer")
    /\ ~HasInner
    /\ inner' = FreshInner
    /\ cmd' = NoMessage
    /\ UNCHANGED <<turns, gui, closing>>

-----------------------------------------------------------------------------
(* Polls, clean-up, the inner session.                                     *)

\* snapshot, events
PortPolled ==
    /\ HasNews
    /\ Refreshes
    /\ UNCHANGED <<turns, gui, cmd, closing, messages>>

\* close by the manager's clean-up, which takes no lock
CleanUp ==
    /\ closing = "open"
    /\ closing' = "join"
    /\ CancelsTurns
    /\ UNCHANGED <<shown, inner, gui, cmd, messages>>

CloseRetires ==
    /\ closing = "join"
    /\ GuiCloses(inner.handle)
    /\ inner' = Retired
    /\ closing' = "closed"
    /\ UNCHANGED <<shown, turns, cmd, messages>>

\* external: a running inner session asks its user something or ends; the
\* last entries of its log are kept for the answer and the end
GuiMoves ==
    /\ \E g \in TurnIds, status \in GuiTerminal \cup {"waiting"} :
        /\ gui[g].open /\ StatusOf(g) = "running"
        /\ Len(gui[g].log) < (IF status = "waiting" THEN MaxLog - 2 ELSE MaxLog)
        /\ gui' = [gui EXCEPT ![g].log = Append(@, status)]
    /\ UNCHANGED <<shown, turns, inner, cmd, closing, messages>>

-----------------------------------------------------------------------------
(* The specification.                                                      *)

TurnStep ==
    \E i \in TurnIds :
        \/ TurnAnswers(i) \/ TurnFails(i) \/ TurnDelegates(i) \/ TurnOpens(i)
        \/ TurnSnapshots(i) \/ TurnStartsGui(i) \/ TurnLooks(i)

MessageStep ==
    \/ DecideConflict \/ DecideClose \/ DecideCancel \/ CancelTold
    \/ CancelStops \/ CancelPublished \/ DecideStart \/ TurnBegins
    \/ TurnUnmodelled \/ DecideForward \/ MessageForwarded \/ DecideRevise
    \/ DecideAnswer \/ DecideSteer

TurnsNext ==
    \/ TurnStep \/ MessageStep \/ MessageComes \/ PortPolled
    \/ CleanUp \/ CloseRetires \/ GuiMoves

TurnsSpec == TurnsInit /\ [][TurnsNext]_turnVars

\* The coroutines of the process go on: each command, each turn, the close.
\* Neither the client nor the inner session owes anything.
TurnsFairness ==
    /\ WF_turnVars(MessageStep) /\ WF_turnVars(CloseRetires)
    /\ \A i \in TurnIds :
        /\ WF_turnVars(TurnAnswers(i) \/ TurnFails(i)) /\ WF_turnVars(TurnOpens(i))
        /\ WF_turnVars(TurnSnapshots(i)) /\ WF_turnVars(TurnStartsGui(i))
        /\ WF_turnVars(TurnLooks(i))

FairTurnsSpec == TurnsSpec /\ TurnsFairness

-----------------------------------------------------------------------------
(* Properties.                                                             *)

\* One turn at a time works for a session: an old request never goes on
\* beside the one that replaced it (command, _cancel, close, _start_turn).
OneTurn == Cardinality(ActiveTurns) <= 1

\* A turn does not sleep through the end of the inner session it follows:
\* the wait of _run_gui_task is woken by whatever lets the session go on, so
\* once the inner session is over, the turn gets over too.
TurnFollowsGui ==
    \A i \in TurnIds : StatusOf(i) \in GuiTerminal ~> ~Alive(i)

\* What the documents promise and the code does not keep.

\* The question of the outer assistant can be answered: an answer sent for
\* the status WAITING_USER that the assistant shows starts the next turn
\* (docs/interaction-shell.md, allowed next actions of WAITING_USER).
AskedIsAnswerable ==
    [][ (/\ cmd.at = "came" /\ cmd.kind = "answer" /\ closing = "open"
         /\ FreshShown = Says("waiting") /\ cmd.expect = "waiting"
         /\ cmd' # cmd)
            => cmd'.at = "begin" ]_turnVars
=============================================================================
