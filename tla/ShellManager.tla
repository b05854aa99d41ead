---------------------------- MODULE ShellManager ----------------------------
(***************************************************************************)
(* RunSessionManager (external/interaction-shell, manager.py) for one      *)
(* session of a client: creation, look-up and polling, commands, viewer    *)
(* input, expiry, shutdown, and recovery in another process from the       *)
(* registry's row (session_registry.py), with the bounded conversation     *)
(* (conversation.py) that each answer brings up to date.                   *)
(*                                                                         *)
(* Every request is a task; everything between two awaits is one action.   *)
(* managed.lock orders commands and viewer input, the recovery lock orders *)
(* recoveries; polling and expiry take neither.  The port behind a handle  *)
(* is external: it emits events, holds the control lease, may fail.        *)
(***************************************************************************)
EXTENDS Integers, Sequences, FiniteSets, SequencesExt

CONSTANTS
    Tasks,       \* coroutines of requests
    Commands,    \* identities of commands that carry language
    MaxHandles,  \* bound of the model on handles that are ever opened
    MaxEvents,   \* bound of the model on the events of one handle
    MaxFeed,     \* max_feed_blocks
    MaxCalls,    \* bound of the model on the requests of the client
    Nothing

ASSUME ManagerAssumption ==
    /\ MaxHandles \in Nat \ {0} /\ MaxEvents \in Nat
    /\ MaxFeed \in Nat \ {0} /\ MaxCalls \in Nat
    /\ Nothing \notin Tasks

VARIABLES
    up,         \* the process lives
    expired,    \* the session's time to live has passed
    row,        \* the registry's row: the saved conversation, or none
    port,       \* the handles of the port, external
    managed,    \* the ManagedSession of each handle
    installed,  \* the handle in _sessions, or 0
    lock,       \* the task that holds managed.lock
    recovery,   \* the task that holds the recovery lock
    task,       \* the requests under way
    created,    \* create has answered: the client has its key
    calls       \* requests made so far

managerVars == <<up, expired, row, port, managed, installed, lock, recovery,
                 task, created, calls>>

Handles == 1 .. MaxHandles

\* A block is the event it came with: its epoch and its cursor.
Conversation == [epoch : 0 .. MaxHandles, cursor : 0 .. MaxEvents,
                 feed : Seq(Handles \X (1 .. MaxEvents)), kept : SUBSET Commands]

\* The registry has no row for the session, or one.
Unregistered == <<>>
Registered(conversation) == <<conversation>>

EmptyConversation == [epoch |-> 0, cursor |-> 0, feed |-> <<>>, kept |-> {}]

NoTask == [at |-> "idle", for |-> "none", h |-> 0, revoke |-> FALSE,
           after |-> 0, cand |-> Nothing, what |-> Nothing]

NewManaged(conversation) == [conv |-> conversation, cleanup |-> "no"]

ManagerInit ==
    /\ up = TRUE /\ expired = FALSE /\ created = FALSE /\ calls = 0
    /\ row = Unregistered
    /\ port = [h \in Handles |-> [state |-> "new", events |-> 0,
                                  closes |-> 0, user |-> FALSE]]
    /\ managed = [h \in Handles |-> NewManaged(EmptyConversation)]
    /\ installed = 0
    /\ lock = Nothing /\ recovery = Nothing
    /\ task = [t \in Tasks |-> NoTask]

-----------------------------------------------------------------------------
(* The bounded conversation.                                               *)

\* event_after
EventAfter(conv, h) == IF conv.epoch = h THEN conv.cursor ELSE 0

\* the blocks of events that have not been seen, oldest first
Unseen(conv, h, events) ==
    LET news == {n \in events : <<h, n>> \notin Range(conv.feed)}
    IN  [i \in 1 .. Cardinality(news) |-> <<h, SetToSortSeq(news, <)[i]>>]

\* ingest_feed raises on a stale event whose blocks it no longer has
StaleEvent(conv, h, events) ==
    \E n \in events : /\ conv.epoch = h /\ n < conv.cursor
                      /\ <<h, n>> \notin Range(conv.feed)

\* ingest_feed of the events of one answer, in their order: new blocks enter,
\* the oldest leave, the position only moves forward within an epoch
Ingested(conv, h, events) ==
    IF events = {} THEN conv
    ELSE LET last == CHOOSE n \in events : \A m \in events : m <= n
             all  == conv.feed \o Unseen(conv, h, events)
             drop == IF Len(all) > MaxFeed THEN Len(all) - MaxFeed ELSE 0
         IN  [conv EXCEPT !.feed   = SubSeq(all, drop + 1, Len(all)),
                          !.epoch  = h,
                          !.cursor = IF @ > last /\ conv.epoch = h THEN @ ELSE last]

\* append, and revision_context: the language of a command is kept once
Kept(conv, command) == [conv EXCEPT !.kept = @ \cup {command}]

-----------------------------------------------------------------------------
(* Tasks.                                                                  *)

\* the request of t ends: its locks come free
Ends(t) ==
    /\ task' = [task EXCEPT ![t] = NoTask]
    /\ lock' = IF lock = t THEN Nothing ELSE lock
    /\ recovery' = IF recovery = t THEN Nothing ELSE recovery

Waits(t, next) ==
    /\ task' = [task EXCEPT ![t] = next]
    /\ UNCHANGED <<lock, recovery>>

At(t, place) == up /\ task[t].at = place

\* a request of the client, who needs a key for all but the first
Calls(t) ==
    /\ up /\ task[t] = NoTask
    /\ calls < MaxCalls
    /\ calls' = calls + 1

Begun(for, at, h) == [NoTask EXCEPT !.for = for, !.at = at, !.h = h]

-----------------------------------------------------------------------------
(* Cleaning up: _cleanup_once and _expire_if_needed.                       *)

\* _cleanup_once: the first caller closes the port, any later one returns
CleansUp(t, for, h, revoke) ==
    IF managed[h].cleanup = "no"
    THEN /\ managed' = [managed EXCEPT ![h].cleanup = "started"]
         /\ Waits(t, [Begun(for, "close", h) EXCEPT !.revoke = revoke])
    ELSE UNCHANGED managed /\ Ends(t)

\* the port is closed, or raised: closed is set either way
CloseReturns(t) ==
    /\ At(t, "close")
    /\ LET h == task[t].h
       IN  /\ port' = [port EXCEPT ![h].state = "closed", ![h].closes = @ + 1]
           /\ managed' = [managed EXCEPT ![h].cleanup = "done"]
    /\ IF task[t].revoke THEN Waits(t, [task[t] EXCEPT !.at = "revoke"]) ELSE Ends(t)
    /\ UNCHANGED <<up, expired, row, installed, created, calls>>

RevokeReturns(t) ==
    /\ At(t, "revoke")
    /\ row' = Unregistered
    /\ Ends(t)
    /\ UNCHANGED <<up, expired, port, managed, installed, created, calls>>

\* expire: the sweep over the sessions
Sweep(t) ==
    /\ up /\ task[t] = NoTask
    /\ installed # 0 /\ expired
    /\ managed[installed].cleanup = "no"
    /\ CleansUp(t, "sweep", installed, TRUE)
    /\ UNCHANGED <<up, expired, row, port, installed, created, calls>>

-----------------------------------------------------------------------------
(* _snapshot and _sync_projection.                                         *)

\* Where a request goes when its conversation is up to date.
Installs(t) ==
    /\ installed' = task[t].h
    /\ created' = TRUE
    /\ Ends(t)

SyncDone(t) ==
    CASE task[t].for = "create" ->
            /\ Waits(t, [task[t] EXCEPT !.at = "register", !.cand = Nothing])
            /\ UNCHANGED <<installed, created>>
      [] task[t].for = "recover" -> Installs(t)
      [] task[t].for \in {"poll", "command"} ->
            Ends(t) /\ UNCHANGED <<installed, created>>

\* the port's snapshot arrives: the events after the known position are next
SnapshotReturns(t) ==
    /\ At(t, "snapshot")
    /\ port[task[t].h].state = "open" \/ task[t].for \in {"poll", "command"}
    /\ Waits(t, [task[t] EXCEPT !.at = "events",
                    !.after = EventAfter(managed[task[t].h].conv, task[t].h)])
    /\ UNCHANGED <<up, expired, row, port, managed, installed, created, calls>>

\* The events arrive.  The conversation is cloned only now, and saved if the
\* events changed it.
EventsReturn(t) ==
    /\ At(t, "events")
    /\ LET h      == task[t].h
           events == (task[t].after + 1) .. port[h].events
           conv   == managed[h].conv
           cand   == Ingested(conv, h, events)
       IN  /\ ~StaleEvent(conv, h, events)
           /\ IF cand # conv
              THEN /\ Waits(t, [task[t] EXCEPT !.at = "save", !.cand = cand])
                   /\ UNCHANGED <<installed, created>>
              ELSE SyncDone(t)
    /\ UNCHANGED <<up, expired, row, port, managed, calls>>

\* The clone becomes the conversation, whatever has happened to it since,
\* and whether or not the registry could save it.
SaveReturns(t) ==
    /\ At(t, "save")
    /\ row' \in (IF row = Unregistered THEN {row} ELSE {row, Registered(task[t].cand)})
    /\ managed' = [managed EXCEPT ![task[t].h].conv = task[t].cand]
    /\ SyncDone(t)
    /\ UNCHANGED <<up, expired, port, calls>>

\* _cleanup_once after a failed recovery: the row stays for another attempt
FailedRecoveryCleansUp(t) == CleansUp(t, "recover", task[t].h, FALSE)

\* the port raises, or a stale event does
SyncRaises(t) ==
    /\ up /\ task[t].at \in {"snapshot", "events"}
    /\ CASE task[t].for = "create" -> CleansUp(t, "create", task[t].h, TRUE)
         [] task[t].for = "recover" -> FailedRecoveryCleansUp(t)
         [] task[t].for \in {"poll", "command"} -> UNCHANGED managed /\ Ends(t)
    /\ UNCHANGED <<up, expired, row, port, installed, created, calls>>

-----------------------------------------------------------------------------
(* create, lookup, snapshot, events.                                       *)

Create(t) ==
    /\ Calls(t)
    /\ ~created
    /\ port[1].state = "new"
    /\ \A u \in Tasks : task[u] = NoTask
    /\ Waits(t, Begun("create", "open", 1))
    /\ UNCHANGED <<up, expired, row, port, managed, installed, created>>

\* port.open returns a handle, for create or for recover_absent
OpenReturns(t) ==
    /\ At(t, "open")
    /\ port' = [port EXCEPT ![task[t].h].state = "open"]
    /\ managed' = [managed EXCEPT ![task[t].h] =
                    NewManaged(IF task[t].cand = Nothing THEN EmptyConversation
                                                         ELSE task[t].cand)]
    /\ Waits(t, [task[t] EXCEPT !.at = "snapshot", !.cand = Nothing])
    /\ UNCHANGED <<up, expired, row, installed, created, calls>>

OpenFails(t) ==
    /\ At(t, "open")
    /\ Ends(t)
    /\ UNCHANGED <<up, expired, row, port, managed, installed, created, calls>>

\* register: a row with an empty conversation
RegisterReturns(t) ==
    /\ At(t, "register")
    /\ row' = Registered(EmptyConversation)
    /\ Installs(t)
    /\ UNCHANGED <<up, expired, port, managed, calls>>

RegisterFails(t) ==
    /\ At(t, "register")
    /\ CleansUp(t, "create", task[t].h, TRUE)
    /\ UNCHANGED <<up, expired, row, port, installed, created, calls>>

\* lookup, snapshot and events of an installed session, without a lock
Poll(t) ==
    /\ Calls(t)
    /\ created /\ installed # 0
    /\ IF expired
       THEN CleansUp(t, "poll", installed, TRUE)
       ELSE Waits(t, Begun("poll", "snapshot", installed)) /\ UNCHANGED managed
    /\ UNCHANGED <<up, expired, row, port, installed, created>>

\* lookup of a session that is not installed: an expired row is revoked
LookupAbsent(t) ==
    /\ Calls(t)
    /\ created /\ installed = 0
    /\ row # Unregistered /\ expired
    /\ Waits(t, Begun("poll", "revoke", 0))
    /\ UNCHANGED <<up, expired, row, port, managed, installed, created>>

-----------------------------------------------------------------------------
(* admit and forward_viewer_input, under managed.lock.                     *)

\* a command, or viewer input, that goes ahead without the lock
TakesNoLock(t) == UNCHANGED lock

TakesLock(t) ==
    /\ lock = Nothing
    /\ lock' = t

\* what a command carries: language that is saved before the port sees it
\* (ReviseTask), or once it is accepted (StartTask, AnswerQuestion); or a
\* change of the control lease
ForwardedKinds == {"revise", "start", "take_over", "return_control"}

\* the session expired before the lock was held: clean up, under the lock
ExpiresLocked(t) ==
    IF managed[installed].cleanup = "no"
    THEN /\ managed' = [managed EXCEPT ![installed].cleanup = "started"]
         /\ task' = [task EXCEPT ![t] =
                [Begun("command", "close", installed) EXCEPT !.revoke = TRUE]]
    ELSE /\ task' = [task EXCEPT ![t] = Begun("command", "leave", installed)]
         /\ UNCHANGED managed

\* admit
Admit(t) ==
    /\ Calls(t)
    /\ created /\ installed # 0
    /\ TakesLock(t)
    /\ IF expired THEN ExpiresLocked(t)
       ELSE /\ \E kind \in ForwardedKinds, c \in Commands :
                task' = [task EXCEPT ![t] =
                   IF kind = "revise"
                   THEN [Begun("command", "persist", installed) EXCEPT
                            !.what = <<kind, c>>,
                            !.cand = Kept(managed[installed].conv, c)]
                   ELSE [Begun("command", "port", installed) EXCEPT !.what = <<kind, c>>]]
            /\ UNCHANGED managed
    /\ UNCHANGED <<up, expired, row, port, installed, recovery, created>>

\* SessionExpired leaves the lock
Leave(t) ==
    /\ At(t, "leave")
    /\ Ends(t)
    /\ UNCHANGED <<up, expired, row, port, managed, installed, created, calls>>

\* the context of a revision is saved, or the command is rejected
PersistReturns(t) ==
    /\ At(t, "persist")
    /\ \/ /\ row # Unregistered
          /\ row' = Registered(task[t].cand)
          /\ managed' = [managed EXCEPT ![task[t].h].conv = task[t].cand]
          /\ Waits(t, [task[t] EXCEPT !.at = "port", !.cand = Nothing])
       \/ /\ Waits(t, [task[t] EXCEPT !.at = "snapshot", !.cand = Nothing])
          /\ UNCHANGED <<row, managed>>
    /\ UNCHANGED <<up, expired, port, installed, created, calls>>

\* port.command answers
PortReturns(t) ==
    /\ At(t, "port")
    /\ LET h    == task[t].h
           kind == task[t].what[1]
       IN  /\ port' = [port EXCEPT ![h].user =
                        IF port[h].state # "open" THEN @
                        ELSE CASE kind = "take_over" -> TRUE
                               [] kind = "return_control" -> FALSE
                               [] OTHER -> @]
           /\ \/ /\ kind = "start" /\ port[h].state = "open"
                 /\ Waits(t, [task[t] EXCEPT !.at = "keep",
                                !.cand = Kept(managed[h].conv, task[t].what[2])])
              \/ Waits(t, [task[t] EXCEPT !.at = "events",
                                !.after = EventAfter(managed[h].conv, h)])
    /\ UNCHANGED <<up, expired, row, managed, installed, created, calls>>

\* the accepted language is saved, or dropped
KeepReturns(t) ==
    /\ At(t, "keep")
    /\ LET h == task[t].h
       IN  /\ \/ /\ row # Unregistered
                 /\ row' = Registered(task[t].cand)
                 /\ managed' = [managed EXCEPT ![h].conv = task[t].cand]
              \/ UNCHANGED <<row, managed>>
           /\ Waits(t, [task[t] EXCEPT !.at = "events", !.cand = Nothing,
                            !.after = EventAfter(managed'[h].conv, h)])
    /\ UNCHANGED <<up, expired, port, installed, created, calls>>

\* forward_viewer_input: expiry, the closed flag, then the port's lease
ViewerInput(t) ==
    /\ Calls(t)
    /\ created /\ installed # 0
    /\ TakesLock(t)
    /\ IF expired THEN ExpiresLocked(t)
       ELSE /\ managed[installed].cleanup # "done"
            /\ task' = [task EXCEPT ![t] = Begun("input", "lease", installed)]
            /\ UNCHANGED managed
    /\ UNCHANGED <<up, expired, row, port, installed, recovery, created>>

\* admits_surface_input
LeaseAnswered(t) ==
    /\ At(t, "lease")
    /\ IF port[task[t].h].state = "open" /\ port[task[t].h].user
       THEN Waits(t, [task[t] EXCEPT !.at = "forward"])
       ELSE Ends(t)
    /\ UNCHANGED <<up, expired, row, port, managed, installed, created, calls>>

Forwarded(t) ==
    /\ At(t, "forward")
    /\ Ends(t)
    /\ UNCHANGED <<up, expired, row, port, managed, installed, created, calls>>

-----------------------------------------------------------------------------
(* recover, under the recovery lock.                                       *)

\* a recovery that does not wait for another
TakesNoRecovery(t) == UNCHANGED recovery

TakesRecovery(t) ==
    /\ recovery = Nothing
    /\ recovery' = t

\* absent sessions are looked up in the registry, live ones answer
\* themselves if they have not expired
Recover(t) ==
    /\ Calls(t)
    /\ created
    /\ TakesRecovery(t)
    /\ \/ /\ installed = 0
          /\ task' = [task EXCEPT ![t] = Begun("recover", "auth", 0)]
          /\ UNCHANGED managed
       \/ /\ installed # 0 /\ expired
          /\ managed[installed].cleanup = "no"
          /\ managed' = [managed EXCEPT ![installed].cleanup = "started"]
          /\ task' = [task EXCEPT ![t] =
                [Begun("recover", "close", installed) EXCEPT !.revoke = TRUE]]
    /\ UNCHANGED <<up, expired, row, port, installed, lock, created>>

\* _authenticate_recovery
AuthReturns(t) ==
    /\ At(t, "auth")
    /\ IF row = Unregistered THEN Ends(t)
       ELSE Waits(t, [task[t] EXCEPT !.at = IF expired THEN "revoke" ELSE "load"])
    /\ UNCHANGED <<up, expired, row, port, managed, installed, created, calls>>

\* load_projection, and then recover_absent opens a handle of its own
LoadReturns(t) ==
    /\ At(t, "load")
    /\ \/ /\ row # Unregistered
          /\ \E h \in Handles :
              /\ port[h].state = "new"
              /\ \A g \in Handles : g < h =>
                    port[g].state # "new" \/ \E u \in Tasks : task[u].h = g
              /\ \A u \in Tasks : task[u].h # h
              /\ Waits(t, [task[t] EXCEPT !.at = "open", !.h = h, !.cand = row[1]])
       \/ Ends(t)
    /\ UNCHANGED <<up, expired, row, port, managed, installed, created, calls>>

-----------------------------------------------------------------------------
(* Time, the port, the process.                                            *)

Expire ==
    /\ created /\ ~expired
    /\ expired' = TRUE
    /\ UNCHANGED <<up, row, port, managed, installed, lock, recovery, task, created, calls>>

\* external: the session behind a handle emits an event
Emit ==
    /\ up
    /\ \E h \in Handles :
        /\ port[h].state = "open" /\ port[h].events < MaxEvents
        /\ port' = [port EXCEPT ![h].events = @ + 1]
    /\ UNCHANGED <<up, expired, row, managed, installed, lock, recovery, task, created, calls>>

\* close_all: shutdown closes the handle and leaves the row
Shutdown(t) ==
    /\ up /\ task[t] = NoTask
    /\ installed # 0 /\ managed[installed].cleanup = "no"
    /\ CleansUp(t, "sweep", installed, FALSE)
    /\ UNCHANGED <<up, expired, row, port, installed, created, calls>>

\* the process ends, in order or not: only the registry's row is left
Down ==
    /\ up /\ created
    /\ up' = FALSE
    /\ port' = [h \in Handles |->
                IF port[h].state = "new" THEN port[h]
                ELSE [state |-> "dead", events |-> 0, closes |-> 0, user |-> FALSE]]
    /\ managed' = [h \in Handles |-> NewManaged(EmptyConversation)]
    /\ installed' = 0 /\ lock' = Nothing /\ recovery' = Nothing
    /\ task' = [t \in Tasks |-> NoTask]
    /\ UNCHANGED <<expired, row, created, calls>>

ManagerRestart ==
    /\ ~up
    /\ up' = TRUE
    /\ UNCHANGED <<expired, row, port, managed, installed, lock, recovery, task, created, calls>>

-----------------------------------------------------------------------------
(* The specification.                                                      *)

TaskStep(t) ==
    \/ CloseReturns(t) \/ RevokeReturns(t) \/ SnapshotReturns(t) \/ EventsReturn(t)
    \/ SaveReturns(t) \/ SyncRaises(t) \/ OpenReturns(t) \/ OpenFails(t)
    \/ RegisterReturns(t) \/ RegisterFails(t) \/ Leave(t) \/ PersistReturns(t)
    \/ PortReturns(t) \/ KeepReturns(t) \/ LeaseAnswered(t) \/ Forwarded(t)
    \/ AuthReturns(t) \/ LoadReturns(t)

SessionRequest(t) ==
    \/ Create(t) \/ Poll(t) \/ LookupAbsent(t) \/ Admit(t) \/ ViewerInput(t)
    \/ Recover(t) \/ Sweep(t) \/ Shutdown(t)

ManagerNext ==
    \/ \E t \in Tasks : TaskStep(t) \/ SessionRequest(t)
    \/ Expire \/ Emit \/ Down \/ ManagerRestart

ManagerSpec == ManagerInit /\ [][ManagerNext]_managerVars

-----------------------------------------------------------------------------
(* Properties.                                                             *)

Open(h) == port[h].state = "open"

\* The session has one open handle at most, and no handle is closed twice.
OneHandle ==
    /\ Cardinality({h \in Handles : Open(h)}) <= 1
    /\ \A h \in Handles : port[h].closes <= 1

\* The registry has its row until it expires.
RowUntilExpiry == created /\ ~expired => row # Unregistered

\* Whatever requests, expiries, recoveries and restarts race, a client that has
\* its key can come back until the session expires (no shutdown, crash or
\* failed recovery takes the registry's row away), and comes back to one
\* handle only (manager.py:385-560).
SessionIsKept == OneHandle /\ RowUntilExpiry

\* While a viewer's input is on its way the user holds the control lease,
\* unless the session is being cleaned up.
InputUnderLease ==
    \A t \in Tasks : task[t].at = "forward" =>
        \/ port[task[t].h].user
        \/ managed[task[t].h].cleanup # "no"

=============================================================================
