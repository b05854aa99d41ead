------------------------- MODULE ShellManagerProofs -------------------------
(***************************************************************************)
(* Proofs about ShellManager, for every number of requests, handles,       *)
(* events and commands: however requests, expiry, recoveries, shutdown and *)
(* restarts race, a session has one open handle, closes it once, keeps its *)
(* row until it expires, and forwards a viewer's input under the lease.    *)
(***************************************************************************)
EXTENDS ShellManager, FiniteSetTheorems, TLAPS

-----------------------------------------------------------------------------
(* The inductive invariant.                                                *)

Kinds == {"none", "create", "recover", "poll", "command", "input", "sweep"}
Spots == {"idle", "open", "snapshot", "events", "save", "register", "close",
          "revoke", "leave", "persist", "port", "keep", "lease", "forward",
          "auth", "load"}

\* What a request carries besides is of no account here.
TaskLike(k) == k \in [at : Spots, for : Kinds, h : 0 .. MaxHandles,
                      revoke : BOOLEAN, after : {k.after}, cand : {k.cand},
                      what : {k.what}]

PortLike(p) == p \in [state : {"new", "open", "closed", "dead"}, events : Nat,
                      closes : Nat, user : BOOLEAN]

ManagedLike(m) == m \in [conv : {m.conv}, cleanup : {"no", "started", "done"}]

PortsLike(q) == /\ q = [h \in Handles |-> q[h]]
                /\ \A h \in Handles : PortLike(q[h])

ManagedAll(m) == /\ m = [h \in Handles |-> m[h]]
                 /\ \A h \in Handles : ManagedLike(m[h])

ManagerTypeOK ==
    /\ up \in BOOLEAN /\ expired \in BOOLEAN /\ created \in BOOLEAN
    /\ PortsLike(port)
    /\ ManagedAll(managed)
    /\ task = [t \in Tasks |-> task[t]]
    /\ \A t \in Tasks : TaskLike(task[t])
    /\ installed \in 0 .. MaxHandles
    /\ lock \in Tasks \cup {Nothing}
    /\ recovery \in Tasks \cup {Nothing}

\* a request that has a handle of its own until it is installed
Makes(k) == k.for \in {"create", "recover"}
Making == {"snapshot", "events", "save", "register"}

\* Where a request of each kind can be, with which handle and which lock.
WellPlaced(t, k) ==
    /\ k.for = "none" => k = NoTask
    /\ k.for = "create" => /\ k.at \in Making \cup {"open", "close", "revoke"}
                           /\ k.h = 1 /\ ~created
    /\ k.for = "recover" =>
            /\ recovery = t
            /\ k.at \in Making \cup {"auth", "load", "open", "close", "revoke"}
            /\ k.at # "register"
            /\ k.at \notin {"close", "revoke"} => installed = 0
            /\ k.at \notin {"auth", "load", "revoke"} => k.h \in Handles
            /\ k.at = "close" => installed \in {0, k.h}
    /\ k.for = "poll" =>
            /\ k.at \in {"snapshot", "events", "save", "close", "revoke"}
            /\ k.at # "revoke" => k.h = installed /\ k.h \in Handles
    /\ k.for = "sweep" =>
            /\ k.at \in {"close", "revoke"}
            /\ k.at # "revoke" => k.h = installed /\ k.h \in Handles
    /\ k.for = "command" =>
            /\ k.at \in {"close", "revoke", "leave", "persist", "port",
                         "snapshot", "keep", "events", "save"}
            /\ k.h = installed /\ k.h \in Handles /\ lock = t
    /\ k.for = "input" =>
            /\ k.at \in {"lease", "forward"}
            /\ k.h = installed /\ k.h \in Handles /\ lock = t

\* What a request knows of its handle at each place.
KnowsHandle(k) ==
    /\ Makes(k) /\ k.at = "open" => port[k.h].state = "new"
    /\ Makes(k) /\ k.at \in Making => port[k.h].state = "open" /\ managed[k.h].cleanup = "no"
    /\ k.at = "close" => port[k.h].state = "open" /\ managed[k.h].cleanup = "started"
    /\ k.at = "revoke" \/ (k.at = "close" /\ k.revoke) => expired \/ k.for = "create"
    /\ Makes(k) /\ k.at \in {"revoke", "auth", "load"} /\ k.h \in Handles
            => port[k.h].state = "closed"
    /\ k.at = "forward" => port[k.h].user \/ managed[k.h].cleanup # "no"

\* two requests that may not be under way together
Exclude(k, l) == \/ k.at = "close" /\ l.at = "close" /\ k.h = l.h
                 \/ Makes(k) /\ Makes(l)

RequestsAreSound ==
    /\ \A t \in Tasks : WellPlaced(t, task[t]) /\ KnowsHandle(task[t])
    /\ \A t, u \in Tasks : Exclude(task[t], task[u]) => t = u
    /\ ~up => \A t \in Tasks : task[t] = NoTask

\* Nothing but the request that creates the session comes before it.
CreationIsFirst ==
    /\ ~created => /\ up /\ installed = 0
                   /\ \A t \in Tasks : task[t] = NoTask \/ task[t].for = "create"
    /\ created /\ ~expired => row # Unregistered

\* a handle somebody answers for
Answered(h) ==
    \/ h = installed
    \/ \E t \in Tasks : Makes(task[t]) /\ task[t].h = h

HandleIsSound(h) ==
    /\ port[h].closes = IF port[h].state = "closed" THEN 1 ELSE 0
    /\ port[h].state \in {"new", "dead"} => managed[h].cleanup = "no"
    /\ port[h].state = "closed" <=> managed[h].cleanup = "done"
    /\ port[h].state = "open" => Answered(h)
    /\ h = installed => port[h].state \in {"open", "closed"}

ManagerInv ==
    /\ ManagerTypeOK
    /\ RequestsAreSound
    /\ CreationIsFirst
    /\ \A h \in Handles : HandleIsSound(h)

-----------------------------------------------------------------------------
(* One request moves, and one handle at most with it.                      *)

\* what the other requests see of a handle
Same(h) ==
    /\ port'[h].state = port[h].state /\ port'[h].closes = port[h].closes
    /\ port'[h].user = port[h].user
    /\ managed'[h].cleanup = managed[h].cleanup

\* The locks of the other requests stay with them.
OthersKeepLocks(t) ==
    \A u \in Tasks \ {t} : /\ lock = u => lock' = u
                           /\ recovery = u => recovery' = u

\* A step of request t, which becomes k, with the handle g.
Moves(t, k, g) ==
    /\ up /\ up' /\ expired' = expired /\ created' = created
    /\ installed' = installed
    /\ task' = [task EXCEPT ![t] = k] /\ TaskLike(k)
    /\ lock' \in Tasks \cup {Nothing} /\ recovery' \in Tasks \cup {Nothing}
    /\ OthersKeepLocks(t)
    /\ PortsLike(port') /\ ManagedAll(managed')
    /\ \A h \in Handles \ {g} : Same(h)

\* What makes such a step sound.
SoundMove(t, k, g) ==
    /\ WellPlaced(t, k)' /\ KnowsHandle(k)'
    /\ \A u \in Tasks \ {t} : ~Exclude(k, task[u])
    /\ \A u \in Tasks \ {t} : task[u].h = g => KnowsHandle(task[u])'
    /\ g \in Handles => HandleIsSound(g)'
    /\ Makes(task[t]) /\ task[t].h # g /\ task[t].h \in Handles
            /\ port[task[t].h].state = "open" => Makes(k) /\ k.h = task[t].h
    /\ ~created => k = NoTask \/ k.for = "create"
    /\ created /\ ~expired => row' # Unregistered

\* Another request is where it was, if its locks and the session are.
LEMMA OthersStay ==
    ASSUME NEW u, NEW k, WellPlaced(u, k), created' = created, installed' = installed,
           lock = u => lock' = u, recovery = u => recovery' = u
    PROVE  WellPlaced(u, k)'
BY DEF WellPlaced

\* A request that works with a handle has one.
LEMMA PlacedHandle ==
    ASSUME NEW u, NEW k, TaskLike(k), WellPlaced(u, k),
           \/ k.at \in {"open", "close", "forward"}
           \/ k.at \in Making
    PROVE  k.h \in Handles
<1>1. 1 \in Handles
  BY ManagerAssumption DEF Handles
<1> QED BY <1>1 DEF WellPlaced, Making, NoTask, TaskLike, Kinds

\* What a request knows of its handle holds while the handle is the same.
LEMMA KnowsStays ==
    ASSUME NEW u, NEW k, TaskLike(k), WellPlaced(u, k), KnowsHandle(k), expired' = expired,
           k.h \in Handles => Same(k.h)
    PROVE  KnowsHandle(k)'
BY PlacedHandle DEF KnowsHandle, Same, Makes, Making

\* An answered handle stays so if the request of its own stays with it.
LEMMA AnsweredStays ==
    ASSUME NEW t \in Tasks, NEW k, NEW h, Answered(h), installed' = installed,
           task'[t] = k, \A u \in Tasks \ {t} : task'[u] = task[u],
           Makes(task[t]) /\ task[t].h = h => Makes(k) /\ k.h = h
    PROVE  Answered(h)'
BY DEF Answered, Makes

\* A sound step of one request keeps the invariant.
LEMMA MovesKeep ==
    ASSUME ManagerInv, NEW t \in Tasks, NEW k, NEW g, Moves(t, k, g), SoundMove(t, k, g)
    PROVE  ManagerInv'
<1> USE DEF ManagerInv
<1>1. /\ task = [u \in Tasks |-> task[u]]
      /\ task' = [task EXCEPT ![t] = k]
  BY DEF ManagerTypeOK, Moves
<1>2. /\ task'[t] = k
      /\ \A u \in Tasks \ {t} : task'[u] = task[u]
      /\ task' = [u \in Tasks |-> task'[u]]
  BY ONLY <1>1, t \in Tasks
<1>3. ManagerTypeOK'
  BY <1>2 DEF ManagerTypeOK, Moves
<1>4. /\ up /\ up' /\ expired' = expired /\ created' = created
      /\ installed' = installed
      /\ \A h \in Handles \ {g} : Same(h)
  BY DEF Moves
<1>5. \A u \in Tasks : (WellPlaced(u, task[u]) /\ KnowsHandle(task[u]))'
  <2> SUFFICES ASSUME NEW u \in Tasks
               PROVE  (WellPlaced(u, task[u]) /\ KnowsHandle(task[u]))'
    OBVIOUS
  <2>1. CASE u = t
    BY <1>2, <2>1 DEF SoundMove
  <2>2. CASE u # t
    <3>1. /\ WellPlaced(u, task[u]) /\ KnowsHandle(task[u]) /\ task'[u] = task[u]
          /\ TaskLike(task[u])
      BY <1>2, <2>2 DEF RequestsAreSound, ManagerTypeOK
    <3>2. WellPlaced(u, task[u])' 
      <4>1. /\ lock = u => lock' = u
            /\ recovery = u => recovery' = u
        BY <2>2 DEF Moves, OthersKeepLocks
      <4> QED BY <1>4, <3>1, <4>1, OthersStay
    <3>3. CASE task[u].h = g
      BY <2>2, <3>2, <3>3 DEF SoundMove
    <3>4. CASE task[u].h # g
      BY <1>4, <3>1, <3>2, <3>4, KnowsStays
    <3> QED BY <3>3, <3>4
  <2> QED BY <2>1, <2>2
<1>6. \A u, v \in Tasks : Exclude(task'[u], task'[v]) => u = v
  <2> SUFFICES ASSUME NEW u \in Tasks, NEW v \in Tasks, Exclude(task'[u], task'[v]), u # v
               PROVE  FALSE
    OBVIOUS
  <2>1. \A x \in Tasks \ {t} : ~Exclude(k, task[x]) /\ ~Exclude(task[x], k)
    BY DEF SoundMove, Exclude
  <2>2. u # t /\ v # t
    BY <1>2, <2>1
  <2> QED BY <1>2, <2>2 DEF RequestsAreSound
<1>7. RequestsAreSound'
  BY <1>4, <1>5, <1>6 DEF RequestsAreSound, Exclude, Makes
<1>8. CreationIsFirst'
  BY <1>2, <1>4 DEF CreationIsFirst, SoundMove
<1>9. ASSUME NEW h \in Handles PROVE HandleIsSound(h)'
  <2>1. CASE h = g
    BY <2>1 DEF SoundMove
  <2>2. CASE h # g
    <3>1. Same(h) /\ HandleIsSound(h)
      BY <1>4, <2>2
    <3>2. port[h].state = "open" => Answered(h)'
      <4> SUFFICES ASSUME port[h].state = "open" PROVE Answered(h)'
        OBVIOUS
      <4>1. Answered(h)
        BY <3>1 DEF HandleIsSound
      <4>2. Makes(task[t]) /\ task[t].h = h => Makes(k) /\ k.h = h
        BY <2>2 DEF SoundMove
      <4> QED BY <1>2, <1>4, <4>1, <4>2, AnsweredStays
    <3> QED BY <1>4, <3>1, <3>2 DEF HandleIsSound, Same
  <2> QED BY <2>1, <2>2
<1> QED BY <1>3, <1>7, <1>8, <1>9

-----------------------------------------------------------------------------
(* A request that ends, and one that goes on with its handle.              *)

\* no handle changes but for the conversation of one
SameHandles == /\ PortsLike(port') /\ ManagedAll(managed')
               /\ \A h \in Handles : Same(h)

\* the session is the one it was
SameSession == UNCHANGED <<up, expired, installed, created>>

RowStays == created /\ ~expired => row' # Unregistered

\* NoTask has no handle.
LEMMA NoTaskIsPlaced ==
    /\ TaskLike(NoTask)
    /\ ~Makes(NoTask) /\ NoTask.at = "idle" /\ NoTask.for = "none"
    /\ \A u : WellPlaced(u, NoTask) /\ WellPlaced(u, NoTask)'
    /\ KnowsHandle(NoTask) /\ KnowsHandle(NoTask)'
<1>1. /\ TaskLike(NoTask)
      /\ ~Makes(NoTask) /\ NoTask.at = "idle" /\ NoTask.for = "none"
  BY ManagerAssumption DEF NoTask, TaskLike, Makes, Spots, Kinds
<1> QED BY <1>1 DEF WellPlaced, KnowsHandle, Making

\* A request gives back its own locks only.
LEMMA EndsLocks ==
    ASSUME ManagerTypeOK, NEW t \in Tasks, Ends(t)
    PROVE  /\ lock' \in Tasks \cup {Nothing} /\ recovery' \in Tasks \cup {Nothing}
           /\ OthersKeepLocks(t)
BY DEF Ends, OthersKeepLocks, ManagerTypeOK

\* What the other requests know holds while no handle changes.
LEMMA OthersKnow ==
    ASSUME ManagerInv, NEW t \in Tasks, NEW k, task' = [task EXCEPT ![t] = k],
           expired' = expired, \A h \in Handles : Same(h)
    PROVE  \A u \in Tasks \ {t} : KnowsHandle(task[u])'
<1> SUFFICES ASSUME NEW u \in Tasks \ {t} PROVE KnowsHandle(task[u])'
  OBVIOUS
<1>1. /\ TaskLike(task[u]) /\ WellPlaced(u, task[u]) /\ KnowsHandle(task[u])
      /\ task = [v \in Tasks |-> task[v]]
  BY DEF ManagerInv, ManagerTypeOK, RequestsAreSound
<1>2. task'[u] = task[u]
  BY <1>1
<1> QED BY <1>1, <1>2, KnowsStays

\* A request that ends, with no handle of its own that is open.
LEMMA RequestEnds ==
    ASSUME ManagerInv, NEW t \in Tasks, up, Ends(t), SameSession, SameHandles, RowStays,
           Makes(task[t]) /\ task[t].h \in Handles => port[task[t].h].state # "open"
    PROVE  ManagerInv'
<1>1. Moves(t, NoTask, 0)
  BY EndsLocks, NoTaskIsPlaced DEF Moves, Ends, SameSession, SameHandles, ManagerInv, Same
<1>2. SoundMove(t, NoTask, 0)
  <2>1. 0 \notin Handles
    BY DEF Handles
  <2>2. \A u \in Tasks \ {t} : KnowsHandle(task[u])'
    BY OthersKnow DEF Ends, SameSession, SameHandles
  <2>3. \A u \in Tasks : ~Exclude(NoTask, task[u])
    BY NoTaskIsPlaced DEF Exclude
  <2> QED BY <2>1, <2>2, <2>3, NoTaskIsPlaced DEF SoundMove, RowStays
<1> QED BY <1>1, <1>2, MovesKeep

\* A request that goes on with its handle.
LEMMA RequestGoes ==
    ASSUME ManagerInv, NEW t \in Tasks, NEW k, up, Waits(t, k), SameSession, SameHandles,
           RowStays, TaskLike(k), k.for = task[t].for, k.h = task[t].h,
           WellPlaced(t, k), KnowsHandle(k), k.at # "close"
    PROVE  ManagerInv'
<1>1. Moves(t, k, 0)
  BY DEF Moves, Waits, SameSession, SameHandles, ManagerInv, ManagerTypeOK, OthersKeepLocks
<1>2. SoundMove(t, k, 0)
  <2>1. 0 \notin Handles
    BY DEF Handles
  <2>2. \A u \in Tasks \ {t} : KnowsHandle(task[u])'
    BY OthersKnow DEF Waits, SameSession, SameHandles
  <2>3. KnowsHandle(k)'
    BY KnowsStays DEF SameSession, SameHandles
  <2>4. WellPlaced(t, k)'
    BY OthersStay DEF SameSession, Waits
  <2>5. \A u \in Tasks \ {t} : ~Exclude(k, task[u])
    BY DEF ManagerInv, RequestsAreSound, Exclude, Makes
  <2>6. ~created => k = NoTask \/ k.for = "create"
    BY NoTaskIsPlaced DEF ManagerInv, CreationIsFirst, WellPlaced
  <2>7. Makes(task[t]) => Makes(k) /\ k.h = task[t].h
    BY DEF Makes
  <2> QED BY <2>1, <2>2, <2>3, <2>4, <2>5, <2>6, <2>7 DEF SoundMove, RowStays
<1> QED BY <1>1, <1>2, MovesKeep

-----------------------------------------------------------------------------
(* What the steps have in common.                                          *)

\* What the invariant says of one request.
LEMMA TaskFacts ==
    ASSUME ManagerInv, NEW t \in Tasks
    PROVE  TaskLike(task[t]) /\ WellPlaced(t, task[t]) /\ KnowsHandle(task[t])
BY DEF ManagerInv, ManagerTypeOK, RequestsAreSound

\* x is the request k at the place a
IsAt(x, k, a) == /\ TaskLike(x) /\ x.at = a
                 /\ x.for = k.for /\ x.h = k.h /\ x.revoke = k.revoke

\* A request that goes to another place stays what it is.
LEMMA GoesTo ==
    ASSUME NEW k, TaskLike(k), NEW a \in Spots, NEW c, NEW n
    PROVE  /\ IsAt([k EXCEPT !.at = a], k, a)
           /\ IsAt([k EXCEPT !.at = a, !.cand = c], k, a)
           /\ IsAt([k EXCEPT !.at = a, !.after = n], k, a)
           /\ IsAt([k EXCEPT !.at = a, !.cand = c, !.after = n], k, a)
BY DEF TaskLike, IsAt

\* No handle changes while the port and the sessions stay.
LEMMA HandlesStay ==
    ASSUME ManagerInv, UNCHANGED <<port, managed>> PROVE SameHandles
BY DEF SameHandles, Same, ManagerInv, ManagerTypeOK, PortsLike, ManagedAll, PortLike, ManagedLike

\* A conversation is of no account to the handles.
LEMMA ConversationChanges ==
    ASSUME ManagerInv, UNCHANGED port, NEW h \in Handles, NEW c,
           managed' = [managed EXCEPT ![h].conv = c]
    PROVE  SameHandles
<1>1. /\ managed = [g \in Handles |-> managed[g]]
      /\ \A g \in Handles : ManagedLike(managed[g]) /\ PortLike(port[g])
      /\ PortsLike(port)
  BY DEF ManagerInv, ManagerTypeOK, PortsLike, ManagedAll
<1>2. \A g \in Handles : /\ ManagedLike(managed'[g])
                         /\ managed'[g].cleanup = managed[g].cleanup
  BY <1>1 DEF ManagedLike
<1>3. managed' = [g \in Handles |-> managed'[g]]
  BY <1>1
<1> QED BY <1>1, <1>2, <1>3 DEF SameHandles, Same, ManagedAll, PortsLike

\* The row is kept while it is not taken away.
LEMMA RowIsKept ==
    ASSUME ManagerInv, row' = row \/ row' # Unregistered PROVE RowStays
BY DEF RowStays, ManagerInv, CreationIsFirst

\* A row is not the lack of one.
LEMMA RowIsThere == \A c : Registered(c) # Unregistered
BY DEF Registered, Unregistered

-----------------------------------------------------------------------------
(* The steps of a request that change no handle.                           *)

\* The row of an expired session is revoked, or that of a failed creation.
LEMMA RevokeReturnsKeeps == ASSUME ManagerInv, NEW t \in Tasks, RevokeReturns(t)
                            PROVE  ManagerInv'
<1>1. up /\ task[t].at = "revoke" /\ Ends(t) /\ SameSession /\ UNCHANGED <<port, managed>>
  BY DEF RevokeReturns, At, SameSession
<1>2. RowStays
  BY <1>1, TaskFacts DEF RowStays, KnowsHandle, WellPlaced
<1>3. Makes(task[t]) /\ task[t].h \in Handles => port[task[t].h].state # "open"
  BY <1>1, TaskFacts DEF KnowsHandle
<1> QED BY <1>1, <1>2, <1>3, HandlesStay, RequestEnds

\* The snapshot arrives.
LEMMA SnapshotReturnsKeeps == ASSUME ManagerInv, NEW t \in Tasks, SnapshotReturns(t)
                              PROVE  ManagerInv'
<1> DEFINE k == [task[t] EXCEPT !.at = "events",
                     !.after = EventAfter(managed[task[t].h].conv, task[t].h)]
<1>1. /\ up /\ task[t].at = "snapshot" /\ Waits(t, k) /\ SameSession
      /\ UNCHANGED <<port, managed, row>>
  BY DEF SnapshotReturns, At, SameSession
<1>2. IsAt(k, task[t], "events")
  BY TaskFacts, GoesTo DEF Spots
<1> HIDE DEF k
<1>3. WellPlaced(t, k) /\ KnowsHandle(k)
  BY <1>1, <1>2, TaskFacts DEF IsAt, WellPlaced, KnowsHandle, Makes, Making, NoTask
<1> QED BY <1>1, <1>2, <1>3, HandlesStay, RowIsKept, RequestGoes DEF IsAt

\* Opening failed: there is no handle.
LEMMA OpenFailsKeeps == ASSUME ManagerInv, NEW t \in Tasks, OpenFails(t) PROVE ManagerInv'
<1>1. /\ up /\ task[t].at = "open" /\ Ends(t) /\ SameSession
      /\ UNCHANGED <<port, managed, row>>
  BY DEF OpenFails, At, SameSession
<1>2. Makes(task[t]) /\ task[t].h \in Handles => port[task[t].h].state # "open"
  BY <1>1, TaskFacts DEF KnowsHandle
<1> QED BY <1>1, <1>2, HandlesStay, RowIsKept, RequestEnds

\* A command that came too late leaves.
LEMMA LeaveKeeps == ASSUME ManagerInv, NEW t \in Tasks, Leave(t) PROVE ManagerInv'
<1>1. /\ up /\ task[t].at = "leave" /\ Ends(t) /\ SameSession
      /\ UNCHANGED <<port, managed, row>>
  BY DEF Leave, At, SameSession
<1>2. ~Makes(task[t])
  BY <1>1, TaskFacts DEF WellPlaced, Makes, Making
<1> QED BY <1>1, <1>2, HandlesStay, RowIsKept, RequestEnds

\* A viewer's input has reached the port.
LEMMA ForwardedKeeps == ASSUME ManagerInv, NEW t \in Tasks, Forwarded(t) PROVE ManagerInv'
<1>1. /\ up /\ task[t].at = "forward" /\ Ends(t) /\ SameSession
      /\ UNCHANGED <<port, managed, row>>
  BY DEF Forwarded, At, SameSession
<1>2. ~Makes(task[t])
  BY <1>1, TaskFacts DEF WellPlaced, Makes, Making
<1> QED BY <1>1, <1>2, HandlesStay, RowIsKept, RequestEnds

\* The lease is the user's, or the input is dropped.
LEMMA LeaseAnsweredKeeps == ASSUME ManagerInv, NEW t \in Tasks, LeaseAnswered(t)
                            PROVE  ManagerInv'
<1> DEFINE k == [task[t] EXCEPT !.at = "forward"]
<1>1. /\ up /\ task[t].at = "lease" /\ SameSession
      /\ UNCHANGED <<port, managed, row>>
      /\ \/ port[task[t].h].user /\ Waits(t, k)
         \/ Ends(t)
  BY DEF LeaseAnswered, At, SameSession
<1>2. ~Makes(task[t]) /\ task[t].for = "input"
  BY <1>1, TaskFacts DEF WellPlaced, Makes, Making, NoTask, TaskLike, Kinds
<1>3. IsAt(k, task[t], "forward")
  BY TaskFacts, GoesTo DEF Spots
<1> HIDE DEF k
<1>4. CASE port[task[t].h].user /\ Waits(t, k)
  <2>1. WellPlaced(t, k) /\ KnowsHandle(k)
    BY <1>2, <1>3, <1>4, TaskFacts DEF IsAt, WellPlaced, KnowsHandle, Makes, Making
  <2> QED BY <1>1, <1>3, <1>4, <2>1, HandlesStay, RowIsKept, RequestGoes DEF IsAt
<1>5. CASE Ends(t)
  BY <1>1, <1>2, <1>5, HandlesStay, RowIsKept, RequestEnds
<1> QED BY <1>1, <1>4, <1>5

\* The registry knows the session, or the recovery is over.
LEMMA AuthReturnsKeeps == ASSUME ManagerInv, NEW t \in Tasks, AuthReturns(t)
                          PROVE  ManagerInv'
<1> DEFINE a == IF expired THEN "revoke" ELSE "load"
           k == [task[t] EXCEPT !.at = a]
<1>1. /\ up /\ task[t].at = "auth" /\ SameSession
      /\ UNCHANGED <<port, managed, row>>
      /\ Ends(t) \/ Waits(t, k)
  BY DEF AuthReturns, At, SameSession
<1>2. task[t].for = "recover"
  BY <1>1, TaskFacts DEF WellPlaced, Making, NoTask, TaskLike, Kinds
<1>3. a \in Spots /\ a \in {"revoke", "load"} /\ (a = "revoke" => expired)
  BY DEF Spots
<1> HIDE DEF a
<1>4. IsAt(k, task[t], a)
  BY <1>3, TaskFacts, GoesTo
<1> HIDE DEF k
<1>5. CASE Waits(t, k)
  <2>1. WellPlaced(t, k)
    BY <1>1, <1>2, <1>3, <1>4, TaskFacts DEF IsAt, WellPlaced, Making
  <2>2. KnowsHandle(k)
    BY <1>1, <1>2, <1>3, <1>4, TaskFacts DEF IsAt, KnowsHandle, Makes, Making
  <2> QED BY <1>1, <1>3, <1>4, <1>5, <2>1, <2>2, HandlesStay, RowIsKept, RequestGoes DEF IsAt
<1>6. CASE Ends(t)
  <2>1. Makes(task[t]) /\ task[t].h \in Handles => port[task[t].h].state # "open"
    BY <1>1, TaskFacts DEF KnowsHandle
  <2> QED BY <1>1, <1>6, <2>1, HandlesStay, RowIsKept, RequestEnds
<1> QED BY <1>1, <1>5, <1>6

\* A revision's language is saved before the port sees it, or the command is
\* rejected.
LEMMA PersistReturnsKeeps == ASSUME ManagerInv, NEW t \in Tasks, PersistReturns(t)
                             PROVE  ManagerInv'
<1> DEFINE k == [task[t] EXCEPT !.at = "port", !.cand = Nothing]
           l == [task[t] EXCEPT !.at = "snapshot", !.cand = Nothing]
<1>1. /\ up /\ task[t].at = "persist" /\ SameSession /\ UNCHANGED port
      /\ \/ /\ row' = Registered(task[t].cand)
            /\ managed' = [managed EXCEPT ![task[t].h].conv = task[t].cand]
            /\ Waits(t, k)
         \/ Waits(t, l) /\ UNCHANGED <<row, managed>>
  BY DEF PersistReturns, At, SameSession
<1>2. IsAt(k, task[t], "port") /\ IsAt(l, task[t], "snapshot")
  BY TaskFacts, GoesTo DEF Spots
<1> HIDE DEF k, l
<1>3. task[t].for = "command" /\ task[t].h \in Handles
  BY <1>1, TaskFacts DEF WellPlaced, Making, NoTask, TaskLike, Kinds
<1>4. /\ WellPlaced(t, k) /\ KnowsHandle(k) /\ k.at = "port"
      /\ WellPlaced(t, l) /\ KnowsHandle(l) /\ l.at = "snapshot"
  BY <1>1, <1>2, <1>3, TaskFacts DEF IsAt, WellPlaced, KnowsHandle, Makes, Making
<1>5. CASE /\ row' = Registered(task[t].cand)
           /\ managed' = [managed EXCEPT ![task[t].h].conv = task[t].cand]
           /\ Waits(t, k)
  <2>1. SameHandles
    BY <1>1, <1>3, <1>5, ConversationChanges
  <2>2. RowStays
    BY <1>5, RowIsThere, RowIsKept
  <2> QED BY <1>1, <1>2, <1>4, <1>5, <2>1, <2>2, RequestGoes DEF IsAt
<1>6. CASE Waits(t, l) /\ UNCHANGED <<row, managed>>
  BY <1>1, <1>2, <1>4, <1>6, HandlesStay, RowIsKept, RequestGoes DEF IsAt
<1> QED BY <1>1, <1>5, <1>6

\* An accepted command's language is saved, or dropped.
LEMMA KeepReturnsKeeps == ASSUME ManagerInv, NEW t \in Tasks, KeepReturns(t)
                          PROVE  ManagerInv'
<1> DEFINE k == [task[t] EXCEPT !.at = "events", !.cand = Nothing,
                     !.after = EventAfter(managed'[task[t].h].conv, task[t].h)]
<1>1. /\ up /\ task[t].at = "keep" /\ SameSession /\ UNCHANGED port
      /\ Waits(t, k)
      /\ \/ /\ row' = Registered(task[t].cand)
            /\ managed' = [managed EXCEPT ![task[t].h].conv = task[t].cand]
         \/ UNCHANGED <<row, managed>>
  BY DEF KeepReturns, At, SameSession
<1>2. IsAt(k, task[t], "events")
  BY TaskFacts, GoesTo DEF Spots
<1> HIDE DEF k
<1>3. task[t].for = "command" /\ task[t].h \in Handles
  BY <1>1, TaskFacts DEF WellPlaced, Making, NoTask, TaskLike, Kinds
<1>4. WellPlaced(t, k) /\ KnowsHandle(k) /\ k.at = "events"
  BY <1>1, <1>2, <1>3, TaskFacts DEF IsAt, WellPlaced, KnowsHandle, Makes, Making
<1>5. SameHandles
  BY <1>1, <1>3, HandlesStay, ConversationChanges
<1>6. RowStays
  BY <1>1, RowIsThere, RowIsKept
<1> QED BY <1>1, <1>2, <1>4, <1>5, <1>6, RequestGoes DEF IsAt

\* Where a request goes when its conversation is up to date, if it does not
\* install its handle.
LEMMA SyncDoneKeeps ==
    ASSUME ManagerInv, NEW t \in Tasks, up, task[t].at \in {"events", "save"},
           task[t].for # "recover", SyncDone(t), UNCHANGED <<up, expired>>,
           SameHandles, RowStays
    PROVE  ManagerInv'
<1>1. task[t].for \in {"create", "poll", "command"}
  BY TaskFacts DEF WellPlaced, NoTask, TaskLike, Kinds
<1>2. CASE task[t].for = "create"
  <2> DEFINE k == [task[t] EXCEPT !.at = "register", !.cand = Nothing]
  <2>1. Waits(t, k) /\ UNCHANGED <<installed, created>>
    BY <1>2 DEF SyncDone
  <2>2. IsAt(k, task[t], "register")
    BY TaskFacts, GoesTo DEF Spots
  <2> HIDE DEF k
  <2>3. WellPlaced(t, k) /\ KnowsHandle(k)
    BY <1>2, <2>2, TaskFacts DEF IsAt, WellPlaced, KnowsHandle, Makes, Making
  <2> QED BY <2>1, <2>2, <2>3, RequestGoes DEF IsAt, SameSession
<1>3. CASE task[t].for \in {"poll", "command"}
  <2>1. Ends(t) /\ UNCHANGED <<installed, created>> /\ ~Makes(task[t])
    BY <1>3 DEF SyncDone, Makes
  <2> QED BY <2>1, RequestEnds DEF SameSession
<1> QED BY <1>1, <1>2, <1>3

\* The session has its handle: nobody else makes one, or works with another.
LEMMA InstallsKeep ==
    ASSUME ManagerInv, NEW t \in Tasks, up, task[t].at \in Making, Makes(task[t]),
           Installs(t), UNCHANGED <<up, expired>>, SameHandles,
           expired \/ row' # Unregistered
    PROVE  ManagerInv'
<1> DEFINE g == task[t].h
<1>1. /\ TaskLike(task[t]) /\ WellPlaced(t, task[t]) /\ KnowsHandle(task[t])
  BY TaskFacts
<1>2. /\ g \in Handles /\ port[g].state = "open" /\ managed[g].cleanup = "no"
      /\ installed = 0
  BY <1>1, ManagerAssumption DEF KnowsHandle, WellPlaced, Makes, Making, Handles,
     ManagerInv, CreationIsFirst
<1>3. /\ installed' = g /\ created' /\ up' /\ expired' = expired
      /\ task' = [task EXCEPT ![t] = NoTask]
      /\ lock' \in Tasks \cup {Nothing} /\ recovery' \in Tasks \cup {Nothing}
      /\ OthersKeepLocks(t)
  BY EndsLocks DEF Installs, Ends, ManagerInv
<1> HIDE DEF g
<1>4. task'[t] = NoTask /\ \A u \in Tasks \ {t} : task'[u] = task[u]
  BY <1>3 DEF ManagerInv, ManagerTypeOK
<1>5. \A u \in Tasks \ {t} : \/ task[u] = NoTask
                             \/ task[u].at = "revoke" /\ task[u].for \in {"poll", "sweep"}
  <2> SUFFICES ASSUME NEW u \in Tasks \ {t}
               PROVE  \/ task[u] = NoTask
                      \/ task[u].at = "revoke" /\ task[u].for \in {"poll", "sweep"}
    OBVIOUS
  <2>1. ~Makes(task[u])
    BY DEF ManagerInv, RequestsAreSound, Exclude
  <2>2. WellPlaced(u, task[u]) /\ TaskLike(task[u]) /\ 0 \notin Handles
    BY TaskFacts DEF Handles
  <2> QED BY <1>2, <2>1, <2>2 DEF WellPlaced, Makes, TaskLike, Kinds
<1>6. \A u \in Tasks : \/ task'[u] = NoTask
                       \/ /\ task'[u].at = "revoke" /\ task'[u].for \in {"poll", "sweep"}
                          /\ task'[u] = task[u]
  BY <1>4, <1>5
<1>7. ManagerTypeOK'
  <2>1. installed' \in 0 .. MaxHandles
    BY <1>2, <1>3, ManagerAssumption DEF Handles
  <2>2. task' = [u \in Tasks |-> task'[u]]
    BY <1>3 DEF ManagerInv, ManagerTypeOK
  <2>3. \A u \in Tasks : TaskLike(task'[u])
    BY <1>4, TaskFacts, NoTaskIsPlaced
  <2> QED BY <1>3, <2>1, <2>2, <2>3 DEF ManagerTypeOK, SameHandles, ManagerInv
<1>8. \A u \in Tasks : (WellPlaced(u, task[u]) /\ KnowsHandle(task[u]))'
  <2> SUFFICES ASSUME NEW u \in Tasks
               PROVE  (WellPlaced(u, task[u]) /\ KnowsHandle(task[u]))'
    OBVIOUS
  <2>1. CASE task'[u] = NoTask
    BY <2>1, NoTaskIsPlaced
  <2>2. CASE /\ task'[u].at = "revoke" /\ task'[u].for \in {"poll", "sweep"}
             /\ task'[u] = task[u]
    BY <1>3, <2>2, TaskFacts DEF WellPlaced, KnowsHandle, Makes, Making
  <2> QED BY <1>6, <2>1, <2>2
<1>9. \A u, v \in Tasks : ~Exclude(task'[u], task'[v])
  BY <1>6, NoTaskIsPlaced DEF Exclude, Makes
<1>10. RequestsAreSound'
  BY <1>3, <1>8, <1>9 DEF RequestsAreSound, Exclude, Makes
<1>11. CreationIsFirst'
  BY <1>3 DEF CreationIsFirst
<1>12. ASSUME NEW h \in Handles PROVE HandleIsSound(h)'
  <2>1. Same(h) /\ HandleIsSound(h) /\ h # installed
    BY <1>2 DEF SameHandles, ManagerInv, Handles
  <2>2. port[h].state = "open" => h = g
    BY <1>5, <2>1, NoTaskIsPlaced DEF HandleIsSound, Answered, Makes, g
  <2>3. h = g => port[h].state = "open"
    BY <1>2
  <2> QED BY <1>3, <2>1, <2>2, <2>3 DEF HandleIsSound, Same, Answered
<1> QED BY <1>7, <1>10, <1>11, <1>12 DEF ManagerInv

\* The conversation is up to date, for whatever the request is.
LEMMA SyncedKeeps ==
    ASSUME ManagerInv, NEW t \in Tasks, up, task[t].at \in {"events", "save"},
           SyncDone(t), UNCHANGED <<up, expired>>, SameHandles, RowStays
    PROVE  ManagerInv'
<1>1. CASE task[t].for = "recover"
  <2>1. Installs(t)
    BY <1>1 DEF SyncDone
  <2>2. created
    BY <1>1, NoTaskIsPlaced DEF ManagerInv, CreationIsFirst
  <2>3. expired \/ row' # Unregistered
    BY <2>2 DEF RowStays
  <2> QED BY <1>1, <2>1, <2>3, InstallsKeep DEF Makes, Making
<1>2. CASE task[t].for # "recover"
  BY <1>2, SyncDoneKeeps
<1> QED BY <1>1, <1>2

\* The events arrive.
LEMMA EventsReturnKeeps == ASSUME ManagerInv, NEW t \in Tasks, EventsReturn(t)
                           PROVE  ManagerInv'
<1> DEFINE events == (task[t].after + 1) .. port[task[t].h].events
           conv == managed[task[t].h].conv
           cand == Ingested(conv, task[t].h, events)
           k == [task[t] EXCEPT !.at = "save", !.cand = cand]
<1>1. /\ up /\ task[t].at = "events"
      /\ UNCHANGED <<up, expired, row, port, managed>>
      /\ \/ Waits(t, k) /\ UNCHANGED <<installed, created>>
         \/ SyncDone(t)
  BY DEF EventsReturn, At
<1> HIDE DEF events, conv, cand
<1>2. IsAt(k, task[t], "save")
  BY TaskFacts, GoesTo DEF Spots
<1> HIDE DEF k
<1>3. CASE Waits(t, k) /\ UNCHANGED <<installed, created>>
  <2>1. WellPlaced(t, k) /\ KnowsHandle(k)
    BY <1>1, <1>2, TaskFacts DEF IsAt, WellPlaced, KnowsHandle, Makes, Making, NoTask
  <2> QED BY <1>1, <1>2, <1>3, <2>1, HandlesStay, RowIsKept, RequestGoes DEF IsAt, SameSession
<1>4. CASE SyncDone(t)
  BY <1>1, <1>4, HandlesStay, RowIsKept, SyncedKeeps
<1> QED BY <1>1, <1>3, <1>4

\* The clone becomes the conversation.
LEMMA SaveReturnsKeeps == ASSUME ManagerInv, NEW t \in Tasks, SaveReturns(t)
                          PROVE  ManagerInv'
<1>1. /\ up /\ task[t].at = "save" /\ UNCHANGED <<up, expired, port>>
      /\ row' = row \/ row' = Registered(task[t].cand)
      /\ managed' = [managed EXCEPT ![task[t].h].conv = task[t].cand]
      /\ SyncDone(t)
  BY DEF SaveReturns, At
<1>2. task[t].h \in Handles
  BY <1>1, TaskFacts, PlacedHandle DEF Making
<1>3. SameHandles /\ RowStays
  BY <1>1, <1>2, ConversationChanges, RowIsThere, RowIsKept
<1> QED BY <1>1, <1>3, SyncedKeeps

\* The session is registered, and its handle is installed.
LEMMA RegisterReturnsKeeps == ASSUME ManagerInv, NEW t \in Tasks, RegisterReturns(t)
                              PROVE  ManagerInv'
<1>1. /\ up /\ task[t].at = "register" /\ Installs(t)
      /\ row' = Registered(EmptyConversation) /\ UNCHANGED <<up, expired, port, managed>>
  BY DEF RegisterReturns, At
<1>2. Makes(task[t]) /\ task[t].at \in Making
  BY <1>1, TaskFacts DEF WellPlaced, Makes, Making, NoTask, TaskLike, Kinds
<1> QED BY <1>1, <1>2, HandlesStay, RowIsThere, InstallsKeep

-----------------------------------------------------------------------------
(* The steps that change a handle.                                         *)

\* what one handle becomes
LEMMA PortChanges ==
    ASSUME ManagerInv, NEW g \in Handles, NEW p, PortLike(p), port' = [port EXCEPT ![g] = p]
    PROVE  /\ PortsLike(port') /\ port'[g] = p
           /\ \A h \in Handles \ {g} : port'[h] = port[h]
<1>1. port = [h \in Handles |-> port[h]] /\ \A h \in Handles : PortLike(port[h])
  BY DEF ManagerInv, ManagerTypeOK, PortsLike
<1>2. /\ port'[g] = p
      /\ \A h \in Handles \ {g} : port'[h] = port[h]
      /\ port' = [h \in Handles |-> port'[h]]
  BY ONLY <1>1, g \in Handles, port' = [port EXCEPT ![g] = p]
<1>3. \A h \in Handles : PortLike(port'[h])
  BY <1>1, <1>2
<1> QED BY <1>2, <1>3 DEF PortsLike

\* what its session becomes
LEMMA ManagedChanges ==
    ASSUME ManagerInv, NEW g \in Handles, NEW m, ManagedLike(m),
           managed' = [managed EXCEPT ![g] = m]
    PROVE  /\ ManagedAll(managed') /\ managed'[g] = m
           /\ \A h \in Handles \ {g} : managed'[h] = managed[h]
<1>1. managed = [h \in Handles |-> managed[h]] /\ \A h \in Handles : ManagedLike(managed[h])
  BY DEF ManagerInv, ManagerTypeOK, ManagedAll
<1>2. /\ managed'[g] = m
      /\ \A h \in Handles \ {g} : managed'[h] = managed[h]
      /\ managed' = [h \in Handles |-> managed'[h]]
  BY ONLY <1>1, g \in Handles, managed' = [managed EXCEPT ![g] = m]
<1>3. \A h \in Handles : ManagedLike(managed'[h])
  BY <1>1, <1>2
<1> QED BY <1>2, <1>3 DEF ManagedAll

\* The clean-up of a handle starts once, with the request that closes it.
StartsCleanup(t, k, h) ==
    /\ managed[h].cleanup = "no" /\ port[h].state = "open"
    /\ managed' = [managed EXCEPT ![h].cleanup = "started"]
    /\ task' = [task EXCEPT ![t] = k]
    /\ TaskLike(k) /\ k.at = "close" /\ k.h = h
    /\ k.revoke => expired \/ k.for = "create"
    /\ UNCHANGED <<up, expired, row, port, installed, created>>

\* Such a step is sound, whatever other requests know of the handle.
LEMMA StartsCleanupKeeps ==
    ASSUME ManagerInv, NEW t \in Tasks, NEW k, NEW h \in Handles, up,
           StartsCleanup(t, k, h), WellPlaced(t, k)',
           lock' \in Tasks \cup {Nothing}, recovery' \in Tasks \cup {Nothing},
           OthersKeepLocks(t),
           Makes(k) => \A u \in Tasks \ {t} : ~Makes(task[u]),
           Makes(task[t]) => \/ Makes(k) /\ task[t].h = h
                             \/ task[t].h \notin Handles,
           ~created => k.for = "create"
    PROVE  ManagerInv'
<1> DEFINE m == [managed[h] EXCEPT !.cleanup = "started"]
<1>1. ManagedLike(managed[h]) /\ PortLike(port[h])
  BY DEF ManagerInv, ManagerTypeOK, ManagedAll, PortsLike
<1>2. ManagedLike(m) /\ m.cleanup = "started"
  BY <1>1 DEF ManagedLike
<1>3. managed' = [managed EXCEPT ![h] = m]
  BY DEF StartsCleanup
<1> HIDE DEF m
<1>4. /\ ManagedAll(managed') /\ managed'[h].cleanup = "started"
      /\ \A g \in Handles \ {h} : managed'[g] = managed[g]
  BY <1>2, <1>3, ManagedChanges
<1>5. port' = port /\ expired' = expired /\ installed' = installed
  BY DEF StartsCleanup
<1>6. Moves(t, k, h)
  BY <1>4 DEF Moves, StartsCleanup, Same, ManagerInv, ManagerTypeOK
<1>7. KnowsHandle(k)'
  BY <1>4, <1>5 DEF StartsCleanup, KnowsHandle, Making
<1>8. \A u \in Tasks \ {t} : task[u].h = h => task[u].at # "close"
  BY TaskFacts DEF KnowsHandle, StartsCleanup
<1>9. \A u \in Tasks \ {t} : ~Exclude(k, task[u])
  BY <1>8 DEF Exclude, StartsCleanup
<1>10. ASSUME NEW u \in Tasks \ {t}, task[u].h = h PROVE KnowsHandle(task[u])'
  <2>1. TaskLike(task[u]) /\ WellPlaced(u, task[u]) /\ KnowsHandle(task[u])
    BY TaskFacts
  <2>2. task'[u] = task[u]
    BY DEF StartsCleanup, ManagerInv, ManagerTypeOK
  <2>3. Makes(task[u]) => task[u].at \notin Making
    <3> SUFFICES ASSUME Makes(task[u]), task[u].at \in Making PROVE FALSE
      OBVIOUS
    <3>1. ~Makes(k)
      OBVIOUS
    <3>2. WellPlaced(t, k)' /\ TaskLike(k) /\ k.at = "close" /\ k.h = h
      BY DEF StartsCleanup
    <3>3. installed = h
      BY <1>5, <3>1, <3>2 DEF WellPlaced, Makes, TaskLike, Kinds, NoTask
    <3>4. created
      BY <3>1 DEF Makes
    <3> QED BY <2>1, <3>3, <3>4 DEF WellPlaced, Makes, Making, Handles
  <2> QED BY <1>4, <1>5, <1>8, <1>10, <2>1, <2>2, <2>3 DEF KnowsHandle
<1>11. HandleIsSound(h)'
  <2>1. HandleIsSound(h) /\ port[h].state = "open"
    BY DEF ManagerInv, StartsCleanup
  <2>2. Answered(h)'
    <3>1. Answered(h) /\ task'[t] = k /\ \A u \in Tasks \ {t} : task'[u] = task[u]
      BY <2>1 DEF HandleIsSound, StartsCleanup, ManagerInv, ManagerTypeOK
    <3>2. Makes(task[t]) /\ task[t].h = h => Makes(k) /\ k.h = h
      BY DEF StartsCleanup
    <3> QED BY <1>5, <3>1, <3>2, AnsweredStays
  <2> QED BY <1>4, <1>5, <2>1, <2>2 DEF HandleIsSound
<1>12. RowStays
  BY RowIsKept DEF StartsCleanup
<1>13. SoundMove(t, k, h)
  BY <1>7, <1>9, <1>10, <1>11, <1>12 DEF SoundMove, RowStays
<1> QED BY <1>6, <1>13, MovesKeep

\* x is a request that has just begun
IsBegun(x, for, at, h, revoke) ==
    TaskLike(x) /\ x.for = for /\ x.at = at /\ x.h = h /\ x.revoke = revoke

\* What a request begins with.
LEMMA BegunIs ==
    ASSUME NEW for \in Kinds, NEW at \in Spots, NEW h \in 0 .. MaxHandles,
           NEW r \in BOOLEAN, NEW c, NEW w
    PROVE  /\ IsBegun(Begun(for, at, h), for, at, h, FALSE)
           /\ IsBegun([Begun(for, at, h) EXCEPT !.revoke = r], for, at, h, r)
           /\ IsBegun([Begun(for, at, h) EXCEPT !.what = w], for, at, h, FALSE)
           /\ IsBegun([Begun(for, at, h) EXCEPT !.what = w, !.cand = c], for, at, h, FALSE)
BY DEF Begun, NoTask, IsBegun, TaskLike

\* What is a handle, and what may stand for the lack of one.
LEMMA HandleIsNumber ==
    /\ Handles \subseteq 0 .. MaxHandles /\ 0 \notin Handles
    /\ 0 \in 0 .. MaxHandles /\ 1 \in 0 .. MaxHandles /\ 1 \in Handles
BY ManagerAssumption DEF Handles

\* The first that cleans up closes the handle, any other one ends.
LEMMA CleansUpKeeps ==
    ASSUME ManagerInv, NEW t \in Tasks, NEW for \in {"create", "recover", "poll", "sweep"},
           NEW h \in Handles, NEW revoke \in BOOLEAN,
           up, CleansUp(t, for, h, revoke), UNCHANGED <<row, port>>, SameSession,
           managed[h].cleanup = "no" => port[h].state = "open",
           revoke => expired \/ for = "create",
           for = "create" => h = 1 /\ ~created,
           for = "recover" => recovery = t /\ installed \in {0, h},
           for \in {"poll", "sweep"} => h = installed,
           Makes(task[t]) => /\ task[t].for = for /\ task[t].h = h
                             /\ managed[h].cleanup = "no",
           for \in {"create", "recover"} => Makes(task[t]),
           ~created => for = "create"
    PROVE  ManagerInv'
<1> DEFINE k == [Begun(for, "close", h) EXCEPT !.revoke = revoke]
<1>1. CASE managed[h].cleanup = "no"
  <2>1. /\ managed' = [managed EXCEPT ![h].cleanup = "started"]
        /\ Waits(t, k)
    BY <1>1 DEF CleansUp
  <2>2. IsBegun(k, for, "close", h, revoke)
    <3>1. for \in Kinds /\ "close" \in Spots /\ h \in 0 .. MaxHandles
      BY HandleIsNumber DEF Kinds, Spots
    <3> QED BY ONLY <3>1, revoke \in BOOLEAN, BegunIs
  <2> HIDE DEF k
  <2>3. WellPlaced(t, k)'
    BY <2>1, <2>2, HandleIsNumber DEF IsBegun, WellPlaced, SameSession, Waits, Making
  <2>4. Makes(k) => \A u \in Tasks \ {t} : ~Makes(task[u])
    BY <2>2 DEF IsBegun, Makes, ManagerInv, RequestsAreSound, Exclude
  <2>5. Makes(task[t]) => \/ Makes(k) /\ task[t].h = h
                          \/ task[t].h \notin Handles
    BY <2>2 DEF IsBegun, Makes
  <2>6. StartsCleanup(t, k, h)
    BY <1>1, <2>1, <2>2 DEF StartsCleanup, IsBegun, SameSession, Waits
  <2>7. /\ lock' \in Tasks \cup {Nothing} /\ recovery' \in Tasks \cup {Nothing}
        /\ OthersKeepLocks(t)
    BY <2>1 DEF Waits, ManagerInv, ManagerTypeOK, OthersKeepLocks
  <2>8. ~created => k.for = "create"
    BY <2>2 DEF IsBegun
  <2> QED BY <2>3, <2>4, <2>5, <2>6, <2>7, <2>8, StartsCleanupKeeps
<1>2. CASE managed[h].cleanup # "no"
  <2>1. Ends(t) /\ UNCHANGED managed
    BY <1>2 DEF CleansUp
  <2>2. ~Makes(task[t])
    BY <1>2
  <2> QED BY <2>1, <2>2, HandlesStay, RowIsKept, RequestEnds
<1> QED BY <1>1, <1>2

\* The installed handle is open until it is cleaned up.
LEMMA InstalledHandle ==
    ASSUME ManagerInv, installed # 0
    PROVE  /\ installed \in Handles /\ created
           /\ managed[installed].cleanup = "no" => port[installed].state = "open"
<1>1. installed \in Handles
  BY ManagerAssumption DEF ManagerInv, ManagerTypeOK, Handles
<1>2. created
  BY DEF ManagerInv, CreationIsFirst
<1> QED BY <1>1, <1>2 DEF ManagerInv, HandleIsSound

\* The sweep over expired sessions.
LEMMA SweepKeeps == ASSUME ManagerInv, NEW t \in Tasks, Sweep(t) PROVE ManagerInv'
<1>1. /\ up /\ task[t] = NoTask /\ installed # 0 /\ expired
      /\ CleansUp(t, "sweep", installed, TRUE)
      /\ UNCHANGED <<row, port>> /\ SameSession
  BY DEF Sweep, SameSession
<1>2. ~Makes(task[t])
  BY <1>1, NoTaskIsPlaced
<1> QED BY <1>1, <1>2, InstalledHandle, CleansUpKeeps

\* Shutdown closes the handle.
LEMMA ShutdownKeeps == ASSUME ManagerInv, NEW t \in Tasks, Shutdown(t) PROVE ManagerInv'
<1>1. /\ up /\ task[t] = NoTask /\ installed # 0
      /\ CleansUp(t, "sweep", installed, FALSE)
      /\ UNCHANGED <<row, port>> /\ SameSession
  BY DEF Shutdown, SameSession
<1>2. ~Makes(task[t])
  BY <1>1, NoTaskIsPlaced
<1> QED BY <1>1, <1>2, InstalledHandle, CleansUpKeeps

\* The row of a new session could not be made.
LEMMA RegisterFailsKeeps == ASSUME ManagerInv, NEW t \in Tasks, RegisterFails(t)
                            PROVE  ManagerInv'
<1>1. /\ up /\ task[t].at = "register"
      /\ CleansUp(t, "create", task[t].h, TRUE)
      /\ UNCHANGED <<row, port>> /\ SameSession
  BY DEF RegisterFails, At, SameSession
<1>2. Makes(task[t]) /\ task[t].at \in Making /\ task[t].for = "create"
  BY <1>1, TaskFacts DEF WellPlaced, Makes, Making, NoTask, TaskLike, Kinds
<1>3. /\ task[t].h \in Handles /\ task[t].h = 1 /\ ~created
      /\ port[task[t].h].state = "open" /\ managed[task[t].h].cleanup = "no"
  BY <1>1, <1>2, TaskFacts, PlacedHandle DEF WellPlaced, KnowsHandle
<1> QED BY <1>1, <1>2, <1>3, CleansUpKeeps

\* The port raises, or a stale event does.
LEMMA SyncRaisesKeeps == ASSUME ManagerInv, NEW t \in Tasks, SyncRaises(t)
                         PROVE  ManagerInv'
<1>1. /\ up /\ task[t].at \in {"snapshot", "events"}
      /\ UNCHANGED <<row, port>> /\ SameSession
  BY DEF SyncRaises, SameSession
<1>2. task[t].for \in {"create", "recover", "poll", "command"}
  BY <1>1, TaskFacts DEF WellPlaced, NoTask, TaskLike, Kinds
<1>3. Makes(task[t]) =>
        /\ task[t].h \in Handles
        /\ port[task[t].h].state = "open" /\ managed[task[t].h].cleanup = "no"
  BY <1>1, TaskFacts, PlacedHandle DEF KnowsHandle, Making
<1>4. CASE task[t].for = "create"
  <2>1. CleansUp(t, "create", task[t].h, TRUE)
    BY <1>4 DEF SyncRaises
  <2>2. task[t].h = 1 /\ ~created
    BY <1>4, TaskFacts DEF WellPlaced
  <2> QED BY <1>1, <1>3, <1>4, <2>1, <2>2, CleansUpKeeps DEF Makes
<1>5. CASE task[t].for = "recover"
  <2>1. CleansUp(t, "recover", task[t].h, FALSE)
    BY <1>5 DEF SyncRaises, FailedRecoveryCleansUp
  <2>2. recovery = t /\ installed = 0 /\ created
    BY <1>1, <1>5, TaskFacts, NoTaskIsPlaced DEF WellPlaced, ManagerInv, CreationIsFirst
  <2> QED BY <1>1, <1>3, <1>5, <2>1, <2>2, CleansUpKeeps DEF Makes
<1>6. CASE task[t].for \in {"poll", "command"}
  <2>1. Ends(t) /\ UNCHANGED managed /\ ~Makes(task[t])
    BY <1>6 DEF SyncRaises, Makes
  <2> QED BY <1>1, <2>1, HandlesStay, RowIsKept, RequestEnds
<1> QED BY <1>2, <1>4, <1>5, <1>6

\* A request that closed its handle is over, or revokes the row.
LEMMA ClosedKeeps ==
    ASSUME ManagerInv, NEW t \in Tasks, NEW k, up, task[t].at = "close", SameSession,
           UNCHANGED row,
           port' = [port EXCEPT ![task[t].h].state = "closed", ![task[t].h].closes = @ + 1],
           managed' = [managed EXCEPT ![task[t].h].cleanup = "done"],
           task' = [task EXCEPT ![t] = k],
           lock' \in Tasks \cup {Nothing}, recovery' \in Tasks \cup {Nothing},
           OthersKeepLocks(t),
           \/ k = NoTask
           \/ IsAt(k, task[t], "revoke") /\ task[t].revoke /\ UNCHANGED <<lock, recovery>>
    PROVE  ManagerInv'
<1>1. TaskLike(task[t]) /\ WellPlaced(t, task[t]) /\ KnowsHandle(task[t])
  BY TaskFacts
<1>2. PICK g \in Handles : g = task[t].h
  BY <1>1, PlacedHandle
<1>3. /\ port[g].state = "open" /\ managed[g].cleanup = "started" /\ port[g].closes = 0
      /\ HandleIsSound(g)
  BY <1>1, <1>2 DEF KnowsHandle, ManagerInv, HandleIsSound
<1> DEFINE p == [port[g] EXCEPT !.state = "closed", !.closes = 1]
           m == [managed[g] EXCEPT !.cleanup = "done"]
<1>4. ManagedLike(managed[g]) /\ PortLike(port[g])
  BY DEF ManagerInv, ManagerTypeOK, ManagedAll, PortsLike
<1>5. /\ PortLike(p) /\ p.state = "closed" /\ p.closes = 1 /\ p.user = port[g].user
      /\ ManagedLike(m) /\ m.cleanup = "done"
  <2>2. /\ PortLike(p) /\ p.state = "closed" /\ p.closes = 1
        /\ p.user = port[g].user
    BY ONLY <1>4 DEF PortLike, p
  <2>3. ManagedLike(m) /\ m.cleanup = "done"
    BY ONLY <1>4 DEF ManagedLike, m
  <2> QED BY <2>2, <2>3
<1>6. port' = [port EXCEPT ![g] = p] /\ managed' = [managed EXCEPT ![g] = m]
  <2>1. port = [h \in Handles |-> port[h]]
    BY DEF ManagerInv, ManagerTypeOK, PortsLike
  <2>2. port' = [port EXCEPT ![g].state = "closed", ![g].closes = 1]
    BY <1>2, <1>3
  <2>3. port' = [port EXCEPT ![g] = p]
    BY ONLY <2>1, <2>2, g \in Handles DEF p
  <2> QED BY <1>2, <2>3
<1> HIDE DEF p, m
<1>7. /\ PortsLike(port') /\ ManagedAll(managed')
      /\ port'[g] = p /\ managed'[g] = m
      /\ \A h \in Handles \ {g} : port'[h] = port[h] /\ managed'[h] = managed[h]
  <2>2. /\ PortsLike(port') /\ port'[g] = p
        /\ \A h \in Handles \ {g} : port'[h] = port[h]
    BY ONLY <1>5, <1>6, ManagerInv, g \in Handles, PortChanges
  <2>3. /\ ManagedAll(managed') /\ managed'[g] = m
        /\ \A h \in Handles \ {g} : managed'[h] = managed[h]
    BY ONLY <1>5, <1>6, ManagerInv, g \in Handles, ManagedChanges
  <2> QED BY <2>2, <2>3
<1>8. TaskLike(k) /\ k.at \in {"idle", "revoke"}
  BY NoTaskIsPlaced DEF IsAt
<1>9. Moves(t, k, g)
  BY <1>7, <1>8 DEF Moves, SameSession, Same
<1>10. (WellPlaced(t, k) /\ KnowsHandle(k))'
  <2>1. CASE k = NoTask
    BY <2>1, NoTaskIsPlaced
  <2>2. CASE /\ IsAt(k, task[t], "revoke") /\ task[t].revoke
             /\ UNCHANGED <<lock, recovery>>
    <3>1. WellPlaced(t, k)'
      BY <1>1, <2>2, HandleIsNumber DEF WellPlaced, IsAt, SameSession, Making, NoTask
    <3>2. KnowsHandle(k)'
      BY <1>1, <1>2, <1>5, <1>7, <2>2 DEF KnowsHandle, IsAt, SameSession, Making, Makes
    <3> QED BY <3>1, <3>2
  <2> QED BY <2>1, <2>2
<1>11. \A u \in Tasks \ {t} : ~Exclude(k, task[u])
  BY <1>8, NoTaskIsPlaced DEF ManagerInv, RequestsAreSound, Exclude, Makes, IsAt
<1>12. ASSUME NEW u \in Tasks \ {t}, task[u].h = g PROVE KnowsHandle(task[u])'
  <2>1. KnowsHandle(task[u]) /\ task'[u] = task[u]
    BY TaskFacts DEF ManagerInv, ManagerTypeOK
  <2>2. task[u].at # "close"
    BY <1>2, <1>12 DEF ManagerInv, RequestsAreSound, Exclude
  <2> QED BY <1>3, <1>5, <1>7, <1>12, <2>1, <2>2 DEF KnowsHandle, SameSession
<1>13. HandleIsSound(g)'
  BY <1>3, <1>5, <1>7 DEF HandleIsSound
<1>14. ~created => k = NoTask \/ k.for = "create"
  BY NoTaskIsPlaced DEF ManagerInv, CreationIsFirst, IsAt
<1>15. SoundMove(t, k, g)
  BY <1>2, <1>10, <1>11, <1>12, <1>13, <1>14, RowIsKept DEF SoundMove, RowStays
<1> QED BY <1>9, <1>15, MovesKeep

\* The port is closed.
LEMMA CloseReturnsKeeps == ASSUME ManagerInv, NEW t \in Tasks, CloseReturns(t)
                           PROVE  ManagerInv'
<1> DEFINE k == [task[t] EXCEPT !.at = "revoke"]
<1>1. /\ up /\ task[t].at = "close" /\ SameSession /\ UNCHANGED row
      /\ port' = [port EXCEPT ![task[t].h].state = "closed", ![task[t].h].closes = @ + 1]
      /\ managed' = [managed EXCEPT ![task[t].h].cleanup = "done"]
      /\ \/ task[t].revoke /\ Waits(t, k)
         \/ Ends(t)
  BY DEF CloseReturns, At, SameSession
<1>2. IsAt(k, task[t], "revoke")
  BY TaskFacts, GoesTo DEF Spots
<1> HIDE DEF k
<1>3. CASE task[t].revoke /\ Waits(t, k)
  <2>1. /\ task' = [task EXCEPT ![t] = k] /\ UNCHANGED <<lock, recovery>>
        /\ lock' \in Tasks \cup {Nothing} /\ recovery' \in Tasks \cup {Nothing}
        /\ OthersKeepLocks(t)
    BY <1>3 DEF Waits, ManagerInv, ManagerTypeOK, OthersKeepLocks
  <2> QED BY <1>1, <1>2, <1>3, <2>1, ClosedKeeps
<1>4. CASE Ends(t)
  <2>1. /\ task' = [task EXCEPT ![t] = NoTask]
        /\ lock' \in Tasks \cup {Nothing} /\ recovery' \in Tasks \cup {Nothing}
        /\ OthersKeepLocks(t)
    BY <1>4, EndsLocks DEF Ends, ManagerInv
  <2> QED BY <1>1, <2>1, ClosedKeeps
<1> QED BY <1>1, <1>3, <1>4

\* The port opened the handle that was asked for.
LEMMA OpenedKeeps ==
    ASSUME ManagerInv, NEW t \in Tasks, NEW k, NEW m, up, task[t].at = "open", SameSession,
           UNCHANGED row, Waits(t, k), IsAt(k, task[t], "snapshot"),
           ManagedLike(m), m.cleanup = "no",
           port' = [port EXCEPT ![task[t].h].state = "open"],
           managed' = [managed EXCEPT ![task[t].h] = m]
    PROVE  ManagerInv'
<1>1. TaskLike(task[t]) /\ WellPlaced(t, task[t]) /\ KnowsHandle(task[t])
  BY TaskFacts
<1>2. PICK g \in Handles : g = task[t].h
  BY <1>1, PlacedHandle
<1>3. Makes(task[t]) /\ Makes(k)
  BY <1>1 DEF WellPlaced, NoTask, TaskLike, Kinds, Makes, IsAt
<1>4. /\ port[g].state = "new" /\ managed[g].cleanup = "no" /\ port[g].closes = 0
      /\ HandleIsSound(g) /\ g # installed
  BY <1>1, <1>2, <1>3 DEF KnowsHandle, ManagerInv, HandleIsSound
<1> DEFINE p == [port[g] EXCEPT !.state = "open"]
<1>5. PortLike(port[g])
  BY DEF ManagerInv, ManagerTypeOK, PortsLike
<1>6. PortLike(p) /\ p.state = "open" /\ p.closes = 0 /\ p.user = port[g].user
  BY <1>4, <1>5 DEF PortLike
<1>7. port' = [port EXCEPT ![g] = p] /\ managed' = [managed EXCEPT ![g] = m]
  BY <1>2 DEF ManagerInv, ManagerTypeOK, PortsLike
<1> HIDE DEF p
<1>8. /\ PortsLike(port') /\ ManagedAll(managed')
      /\ port'[g] = p /\ managed'[g] = m
      /\ \A h \in Handles \ {g} : port'[h] = port[h] /\ managed'[h] = managed[h]
  <2>1. /\ PortsLike(port') /\ port'[g] = p
        /\ \A h \in Handles \ {g} : port'[h] = port[h]
    BY ONLY <1>6, <1>7, ManagerInv, g \in Handles, PortChanges
  <2>2. /\ ManagedAll(managed') /\ managed'[g] = m
        /\ \A h \in Handles \ {g} : managed'[h] = managed[h]
    BY ONLY <1>7, ManagedLike(m), ManagerInv, g \in Handles, ManagedChanges
  <2> QED BY <2>1, <2>2
<1>9. Moves(t, k, g)
  BY <1>8 DEF Moves, SameSession, Same, Waits, IsAt, ManagerInv, ManagerTypeOK,
     OthersKeepLocks
<1>10. WellPlaced(t, k)'
  BY <1>1, <1>3 DEF WellPlaced, IsAt, SameSession, Making, Makes, Waits
<1>11. KnowsHandle(k)'
  BY <1>2, <1>6, <1>8 DEF KnowsHandle, IsAt
<1>12. \A u \in Tasks \ {t} : ~Exclude(k, task[u]) /\ ~Makes(task[u])
  BY <1>3 DEF ManagerInv, RequestsAreSound, Exclude, IsAt
<1>13. ASSUME NEW u \in Tasks \ {t}, task[u].h = g PROVE KnowsHandle(task[u])'
  <2>1. KnowsHandle(task[u]) /\ WellPlaced(u, task[u]) /\ TaskLike(task[u])
        /\ task'[u] = task[u] /\ ~Makes(task[u])
    BY <1>12, TaskFacts DEF ManagerInv, ManagerTypeOK, Waits
  <2>2. task[u].at \notin {"close", "forward"}
    BY <1>4, <1>13, <2>1, HandleIsNumber
       DEF KnowsHandle, WellPlaced, Makes, TaskLike, Kinds, NoTask
  <2> QED BY <2>1, <2>2 DEF KnowsHandle, Makes, SameSession
<1>14. HandleIsSound(g)'
  <2>1. Answered(g)'
    BY <1>2, <1>3 DEF Answered, Waits, IsAt, ManagerInv, ManagerTypeOK
  <2> QED BY <1>4, <1>6, <1>8, <2>1 DEF HandleIsSound
<1>15. ~created => k.for = "create"
  BY <1>3, NoTaskIsPlaced DEF ManagerInv, CreationIsFirst, IsAt
<1>16. SoundMove(t, k, g)
  BY <1>2, <1>10, <1>11, <1>12, <1>13, <1>14, <1>15, RowIsKept DEF SoundMove, RowStays
<1> QED BY <1>9, <1>16, MovesKeep

\* port.open returns a handle.
LEMMA OpenReturnsKeeps == ASSUME ManagerInv, NEW t \in Tasks, OpenReturns(t)
                          PROVE  ManagerInv'
<1> DEFINE k == [task[t] EXCEPT !.at = "snapshot", !.cand = Nothing]
           m == NewManaged(IF task[t].cand = Nothing THEN EmptyConversation
                                                     ELSE task[t].cand)
<1>1. /\ up /\ task[t].at = "open" /\ SameSession /\ UNCHANGED row /\ Waits(t, k)
      /\ port' = [port EXCEPT ![task[t].h].state = "open"]
      /\ managed' = [managed EXCEPT ![task[t].h] = m]
  BY DEF OpenReturns, At, SameSession
<1>2. IsAt(k, task[t], "snapshot")
  BY TaskFacts, GoesTo DEF Spots
<1>3. ManagedLike(m) /\ m.cleanup = "no"
  BY DEF ManagedLike, NewManaged
<1> HIDE DEF k, m
<1> QED BY <1>1, <1>2, <1>3, OpenedKeeps

\* A recovery asks for a handle that nobody else works with.
LEMMA AskedKeeps ==
    ASSUME ManagerInv, NEW t \in Tasks, NEW k, NEW h \in Handles, up, task[t].at = "load",
           SameSession, UNCHANGED <<row, port, managed>>, Waits(t, k),
           TaskLike(k), k.at = "open", k.for = task[t].for, k.h = h,
           port[h].state = "new", \A u \in Tasks : task[u].h # h
    PROVE  ManagerInv'
<1>1. TaskLike(task[t]) /\ WellPlaced(t, task[t]) /\ KnowsHandle(task[t])
  BY TaskFacts
<1>2. task[t].for = "recover" /\ Makes(task[t]) /\ Makes(k)
  BY <1>1 DEF WellPlaced, NoTask, TaskLike, Kinds, Makes, Making
<1>3. SameHandles
  BY HandlesStay
<1>4. Moves(t, k, h)
  BY <1>3 DEF Moves, SameSession, SameHandles, Waits, ManagerInv, ManagerTypeOK,
     OthersKeepLocks
<1>5. WellPlaced(t, k)'
  BY <1>1, <1>2 DEF WellPlaced, SameSession, Making, Waits
<1>6. KnowsHandle(k)'
  BY <1>2 DEF KnowsHandle, Making
<1>7. \A u \in Tasks \ {t} : ~Exclude(k, task[u])
  BY <1>2 DEF ManagerInv, RequestsAreSound, Exclude
<1>8. HandleIsSound(h)'
  BY <1>3 DEF ManagerInv, HandleIsSound, SameHandles, Same, SameSession
<1>9. created
  BY <1>2, NoTaskIsPlaced DEF ManagerInv, CreationIsFirst
<1>10. task[t].h \in Handles => port[task[t].h].state # "open"
  BY <1>1, <1>2 DEF KnowsHandle
<1>11. SoundMove(t, k, h)
  BY <1>5, <1>6, <1>7, <1>8, <1>9, <1>10, RowIsKept DEF SoundMove, RowStays
<1> QED BY <1>4, <1>11, MovesKeep

\* The saved conversation is loaded, or the recovery is over.
LEMMA LoadReturnsKeeps == ASSUME ManagerInv, NEW t \in Tasks, LoadReturns(t)
                          PROVE  ManagerInv'
<1>1. /\ up /\ task[t].at = "load" /\ SameSession /\ UNCHANGED <<row, port, managed>>
  BY DEF LoadReturns, At, SameSession
<1>2. ASSUME NEW h \in Handles, port[h].state = "new", \A u \in Tasks : task[u].h # h,
             Waits(t, [task[t] EXCEPT !.at = "open", !.h = h, !.cand = row[1]])
      PROVE  ManagerInv'
  <2> DEFINE k == [task[t] EXCEPT !.at = "open", !.h = h, !.cand = row[1]]
  <2>1. TaskLike(k) /\ k.at = "open" /\ k.for = task[t].for /\ k.h = h
    BY TaskFacts, HandleIsNumber DEF TaskLike, Spots
  <2>2. Waits(t, k)
    BY <1>2
  <2> HIDE DEF k
  <2> QED BY <1>1, <1>2, <2>1, <2>2, AskedKeeps
<1>3. CASE Ends(t)
  <2>1. Makes(task[t]) /\ task[t].h \in Handles => port[task[t].h].state # "open"
    BY <1>1, TaskFacts DEF KnowsHandle
  <2> QED BY <1>1, <1>3, <2>1, HandlesStay, RowIsKept, RequestEnds
<1> QED BY <1>2, <1>3 DEF LoadReturns

\* The lease of a handle changes hands, while the command holds the lock.
LEMMA AnsweredKeeps ==
    ASSUME ManagerInv, NEW t \in Tasks, NEW k, NEW b \in BOOLEAN, up, task[t].at = "port",
           SameSession, UNCHANGED <<row, managed>>, Waits(t, k),
           IsAt(k, task[t], "keep") \/ IsAt(k, task[t], "events"),
           port' = [port EXCEPT ![task[t].h].user = b]
    PROVE  ManagerInv'
<1>1. TaskLike(task[t]) /\ WellPlaced(t, task[t]) /\ KnowsHandle(task[t])
  BY TaskFacts
<1>2. /\ task[t].for = "command" /\ task[t].h \in Handles
      /\ task[t].h = installed /\ lock = t
  BY <1>1 DEF WellPlaced, NoTask, TaskLike, Kinds, Making
<1>3. PICK g \in Handles : g = task[t].h
  BY <1>2
<1> DEFINE p == [port[g] EXCEPT !.user = b]
<1>4. PortLike(port[g])
  BY DEF ManagerInv, ManagerTypeOK, PortsLike
<1>5. /\ PortLike(p) /\ p.state = port[g].state /\ p.closes = port[g].closes
  BY ONLY <1>4, b \in BOOLEAN DEF PortLike, p
<1>6. port' = [port EXCEPT ![g] = p]
  BY <1>3
<1> HIDE DEF p
<1>7. /\ PortsLike(port') /\ port'[g] = p
      /\ \A h \in Handles \ {g} : port'[h] = port[h]
  BY <1>5, <1>6, PortChanges
<1>8. Moves(t, k, g)
  BY <1>7 DEF Moves, SameSession, Same, Waits, IsAt, ManagerInv, ManagerTypeOK,
     OthersKeepLocks
<1>9. (WellPlaced(t, k) /\ KnowsHandle(k))' /\ ~Makes(k) /\ k.at # "close"
  BY <1>1, <1>2 DEF WellPlaced, KnowsHandle, IsAt, SameSession, Making, Makes, Waits
<1>10. \A u \in Tasks \ {t} : ~Exclude(k, task[u])
  BY <1>9 DEF Exclude
<1>11. ASSUME NEW u \in Tasks \ {t}, task[u].h = g PROVE KnowsHandle(task[u])'
  <2>1. /\ KnowsHandle(task[u]) /\ WellPlaced(u, task[u]) /\ TaskLike(task[u])
        /\ task'[u] = task[u]
    BY TaskFacts DEF ManagerInv, ManagerTypeOK, Waits
  <2>2. task[u].at # "forward"
    BY <1>2, <2>1 DEF WellPlaced, TaskLike, Kinds, NoTask, Making
  <2> QED BY <1>5, <1>7, <1>11, <2>1, <2>2 DEF KnowsHandle, SameSession
<1>12. HandleIsSound(g)'
  BY <1>2, <1>3, <1>5, <1>7 DEF ManagerInv, HandleIsSound, SameSession, Answered
<1>13. created
  BY <1>2, NoTaskIsPlaced DEF ManagerInv, CreationIsFirst
<1>14. SoundMove(t, k, g)
  BY <1>2, <1>3, <1>9, <1>10, <1>11, <1>12, <1>13, RowIsKept DEF SoundMove, RowStays, Makes
<1> QED BY <1>8, <1>14, MovesKeep

\* port.command answers.
LEMMA PortReturnsKeeps == ASSUME ManagerInv, NEW t \in Tasks, PortReturns(t)
                          PROVE  ManagerInv'
<1> DEFINE h == task[t].h
           b == IF port[h].state # "open" THEN port[h].user
                ELSE CASE task[t].what[1] = "take_over" -> TRUE
                       [] task[t].what[1] = "return_control" -> FALSE
                       [] OTHER -> port[h].user
           k == [task[t] EXCEPT !.at = "keep",
                                !.cand = Kept(managed[h].conv, task[t].what[2])]
           l == [task[t] EXCEPT !.at = "events",
                                !.after = EventAfter(managed[h].conv, h)]
<1>1. /\ up /\ task[t].at = "port" /\ SameSession /\ UNCHANGED <<row, managed>>
      /\ port' = [port EXCEPT ![h].user = b]
      /\ Waits(t, k) \/ Waits(t, l)
  BY DEF PortReturns, At, SameSession
<1>2. IsAt(k, task[t], "keep") /\ IsAt(l, task[t], "events")
  BY TaskFacts, GoesTo DEF Spots
<1>3. task[t].h \in Handles
  BY <1>1, TaskFacts DEF WellPlaced, NoTask, TaskLike, Kinds, Making
<1>4. port[h].user \in BOOLEAN
  BY <1>3 DEF ManagerInv, ManagerTypeOK, PortsLike, PortLike
<1>5. b \in BOOLEAN
  BY <1>4
<1> HIDE DEF k, l, b
<1> QED BY <1>1, <1>2, <1>5, AnsweredKeeps

-----------------------------------------------------------------------------
(* The requests.                                                           *)

\* A request that begins without touching a handle.
LEMMA BeginsKeeps ==
    ASSUME ManagerInv, NEW t \in Tasks, NEW k, up, task[t] = NoTask,
           task' = [task EXCEPT ![t] = k], SameSession, UNCHANGED <<row, port, managed>>,
           TaskLike(k), WellPlaced(t, k)', KnowsHandle(k)', k.at # "close",
           lock' \in Tasks \cup {Nothing}, recovery' \in Tasks \cup {Nothing},
           OthersKeepLocks(t),
           Makes(k) => \A u \in Tasks \ {t} : ~Makes(task[u]),
           ~created => k.for = "create"
    PROVE  ManagerInv'
<1>1. SameHandles /\ ~Makes(task[t])
  BY HandlesStay, NoTaskIsPlaced
<1>2. Moves(t, k, 0)
  BY <1>1 DEF Moves, SameSession, SameHandles, ManagerInv
<1>3. \A u \in Tasks \ {t} : KnowsHandle(task[u])'
  BY <1>1, OthersKnow DEF SameSession, SameHandles
<1>4. SoundMove(t, k, 0)
  BY <1>1, <1>3, HandleIsNumber, RowIsKept DEF SoundMove, RowStays, Exclude
<1> QED BY <1>2, <1>4, MovesKeep

\* A request that takes no lock leaves the locks alone.
LEMMA LocksStay ==
    ASSUME ManagerInv, NEW t \in Tasks, UNCHANGED <<lock, recovery>>
    PROVE  /\ lock' \in Tasks \cup {Nothing} /\ recovery' \in Tasks \cup {Nothing}
           /\ OthersKeepLocks(t)
BY DEF ManagerInv, ManagerTypeOK, OthersKeepLocks

\* A lock that is taken was free.
LEMMA LocksAreTaken ==
    ASSUME ManagerInv, NEW t \in Tasks,
           \/ TakesLock(t) /\ UNCHANGED recovery
           \/ TakesRecovery(t) /\ UNCHANGED lock
    PROVE  /\ lock' \in Tasks \cup {Nothing} /\ recovery' \in Tasks \cup {Nothing}
           /\ OthersKeepLocks(t)
BY ManagerAssumption DEF ManagerInv, ManagerTypeOK, OthersKeepLocks, TakesLock, TakesRecovery

\* A client asks for a session.
LEMMA CreateKeeps == ASSUME ManagerInv, NEW t \in Tasks, Create(t) PROVE ManagerInv'
<1> DEFINE k == Begun("create", "open", 1)
<1>1. /\ up /\ task[t] = NoTask /\ ~created /\ port[1].state = "new"
      /\ \A u \in Tasks : task[u] = NoTask
      /\ Waits(t, k) /\ SameSession /\ UNCHANGED <<row, port, managed>>
  BY DEF Create, Calls, SameSession
<1>2. IsBegun(k, "create", "open", 1, FALSE)
  BY BegunIs, HandleIsNumber DEF Kinds, Spots
<1> HIDE DEF k
<1>3. (WellPlaced(t, k) /\ KnowsHandle(k))'
  BY <1>1, <1>2 DEF IsBegun, WellPlaced, KnowsHandle, Making, SameSession
<1>4. /\ task' = [task EXCEPT ![t] = k] /\ UNCHANGED <<lock, recovery>>
      /\ TaskLike(k) /\ k.at # "close" /\ k.for = "create"
      /\ \A u \in Tasks : ~Makes(task[u])
  BY <1>1, <1>2, NoTaskIsPlaced DEF Waits, IsBegun
<1> QED BY <1>1, <1>3, <1>4, LocksStay, BeginsKeeps

\* A session is polled, or found expired.
LEMMA PollKeeps == ASSUME ManagerInv, NEW t \in Tasks, Poll(t) PROVE ManagerInv'
<1> DEFINE k == Begun("poll", "snapshot", installed)
<1>1. /\ up /\ task[t] = NoTask /\ created /\ installed # 0
      /\ SameSession /\ UNCHANGED <<row, port>>
      /\ \/ expired /\ CleansUp(t, "poll", installed, TRUE)
         \/ Waits(t, k) /\ UNCHANGED managed
  BY DEF Poll, Calls, SameSession
<1>2. installed \in Handles /\ installed \in 0 .. MaxHandles
  BY <1>1, InstalledHandle, HandleIsNumber
<1>3. CASE expired /\ CleansUp(t, "poll", installed, TRUE)
  <2>1. ~Makes(task[t])
    BY <1>1, NoTaskIsPlaced
  <2> QED BY <1>1, <1>2, <1>3, <2>1, InstalledHandle, CleansUpKeeps
<1>4. CASE Waits(t, k) /\ UNCHANGED managed
  <2>1. IsBegun(k, "poll", "snapshot", installed, FALSE)
    BY <1>2, BegunIs DEF Kinds, Spots
  <2> HIDE DEF k
  <2>2. PICK l : l = k
    OBVIOUS
  <2>3. (WellPlaced(t, l) /\ KnowsHandle(l))'
    BY <1>1, <1>2, <2>1, <2>2 DEF IsBegun, WellPlaced, KnowsHandle, Making, SameSession, Makes
  <2>4. /\ task' = [task EXCEPT ![t] = l] /\ UNCHANGED <<lock, recovery>>
        /\ TaskLike(l) /\ l.at # "close" /\ ~Makes(l)
    BY <1>4, <2>1, <2>2 DEF Waits, IsBegun, Makes
  <2> QED BY <1>1, <1>4, <2>3, <2>4, LocksStay, BeginsKeeps
<1> QED BY <1>1, <1>3, <1>4

\* A session that is not installed has an expired row.
LEMMA LookupAbsentKeeps == ASSUME ManagerInv, NEW t \in Tasks, LookupAbsent(t)
                           PROVE  ManagerInv'
<1> DEFINE k == Begun("poll", "revoke", 0)
<1>1. /\ up /\ task[t] = NoTask /\ created /\ expired
      /\ Waits(t, k) /\ SameSession /\ UNCHANGED <<row, port, managed>>
  BY DEF LookupAbsent, Calls, SameSession
<1>2. IsBegun(k, "poll", "revoke", 0, FALSE)
  BY BegunIs, HandleIsNumber DEF Kinds, Spots
<1> HIDE DEF k
<1>3. (WellPlaced(t, k) /\ KnowsHandle(k))'
  BY <1>1, <1>2 DEF IsBegun, WellPlaced, KnowsHandle, Making, SameSession, Makes
<1>4. /\ task' = [task EXCEPT ![t] = k] /\ UNCHANGED <<lock, recovery>>
      /\ TaskLike(k) /\ k.at # "close" /\ ~Makes(k)
  BY <1>1, <1>2 DEF Waits, IsBegun, Makes
<1> QED BY <1>1, <1>3, <1>4, LocksStay, BeginsKeeps

\* A request that finds its session expired once it holds the lock.
LEMMA ExpiresLockedKeeps ==
    ASSUME ManagerInv, NEW t \in Tasks, up, task[t] = NoTask, installed # 0, expired,
           TakesLock(t), UNCHANGED recovery, ExpiresLocked(t), SameSession,
           UNCHANGED <<row, port>>
    PROVE  ManagerInv'
<1>1. PICK h \in Handles : h = installed
  BY InstalledHandle
<1>2. h \in 0 .. MaxHandles /\ created /\ lock' = t /\ ~Makes(task[t])
  BY InstalledHandle, HandleIsNumber, NoTaskIsPlaced DEF TakesLock
<1>3. CASE managed[h].cleanup = "no"
  <2> DEFINE k == [Begun("command", "close", h) EXCEPT !.revoke = TRUE]
  <2>1. /\ managed' = [managed EXCEPT ![h].cleanup = "started"]
        /\ task' = [task EXCEPT ![t] = k]
    BY <1>1, <1>3 DEF ExpiresLocked
  <2>2. IsBegun(k, "command", "close", h, TRUE)
    BY <1>2, BegunIs DEF Kinds, Spots
  <2> HIDE DEF k
  <2>3. WellPlaced(t, k)'
    BY <1>1, <1>2, <2>2 DEF IsBegun, WellPlaced, SameSession
  <2>4. StartsCleanup(t, k, h) /\ ~Makes(k)
    BY <1>1, <1>3, <2>1, <2>2, InstalledHandle DEF StartsCleanup, IsBegun, SameSession, Makes
  <2> QED BY <1>2, <2>3, <2>4, LocksAreTaken, StartsCleanupKeeps
<1>4. CASE managed[h].cleanup # "no"
  <2> DEFINE k == Begun("command", "leave", h)
  <2>1. UNCHANGED managed /\ task' = [task EXCEPT ![t] = k]
    BY <1>1, <1>4 DEF ExpiresLocked
  <2>2. IsBegun(k, "command", "leave", h, FALSE)
    BY <1>2, BegunIs DEF Kinds, Spots
  <2> HIDE DEF k
  <2>3. (WellPlaced(t, k) /\ KnowsHandle(k))' /\ TaskLike(k) /\ k.at # "close" /\ ~Makes(k)
    BY <1>1, <1>2, <2>2 DEF IsBegun, WellPlaced, KnowsHandle, Making, SameSession, Makes
  <2> QED BY <1>2, <2>1, <2>3, LocksAreTaken, BeginsKeeps
<1> QED BY <1>3, <1>4

\* A request that goes to the installed handle under the lock.
LEMMA GoesLocked ==
    ASSUME ManagerInv, NEW t \in Tasks, NEW k, up, task[t] = NoTask, installed # 0,
           TakesLock(t), UNCHANGED recovery, SameSession,
           UNCHANGED <<row, port, managed>>, task' = [task EXCEPT ![t] = k],
           \/ IsBegun(k, "command", "persist", installed, FALSE)
           \/ IsBegun(k, "command", "port", installed, FALSE)
           \/ IsBegun(k, "input", "lease", installed, FALSE)
    PROVE  ManagerInv'
<1>1. installed \in Handles /\ created /\ lock' = t
  BY InstalledHandle DEF TakesLock
<1>2. (WellPlaced(t, k) /\ KnowsHandle(k))' /\ TaskLike(k) /\ k.at # "close" /\ ~Makes(k)
  BY <1>1 DEF IsBegun, WellPlaced, KnowsHandle, Making, SameSession, Makes
<1> QED BY <1>1, <1>2, LocksAreTaken, BeginsKeeps

\* A command is admitted.
LEMMA AdmitKeeps == ASSUME ManagerInv, NEW t \in Tasks, Admit(t) PROVE ManagerInv'
<1>1. /\ up /\ task[t] = NoTask /\ installed # 0 /\ TakesLock(t)
      /\ SameSession /\ UNCHANGED <<row, port, recovery>>
  BY DEF Admit, Calls, SameSession
<1>2. CASE expired
  BY <1>1, <1>2, ExpiresLockedKeeps DEF Admit
<1>3. ASSUME ~expired, NEW kind \in ForwardedKinds, NEW c \in Commands, UNCHANGED managed,
             task' = [task EXCEPT ![t] =
                   IF kind = "revise"
                   THEN [Begun("command", "persist", installed) EXCEPT
                            !.what = <<kind, c>>,
                            !.cand = Kept(managed[installed].conv, c)]
                   ELSE [Begun("command", "port", installed) EXCEPT !.what = <<kind, c>>]]
      PROVE  ManagerInv'
  <2>1. installed \in 0 .. MaxHandles
    BY <1>1, InstalledHandle, HandleIsNumber
  <2> DEFINE k == [Begun("command", "persist", installed) EXCEPT
                            !.what = <<kind, c>>,
                            !.cand = Kept(managed[installed].conv, c)]
             l == [Begun("command", "port", installed) EXCEPT !.what = <<kind, c>>]
  <2>2. /\ IsBegun(k, "command", "persist", installed, FALSE)
        /\ IsBegun(l, "command", "port", installed, FALSE)
    BY <2>1, BegunIs DEF Kinds, Spots
  <2>3. task' = [task EXCEPT ![t] = k] \/ task' = [task EXCEPT ![t] = l]
    BY <1>3
  <2> HIDE DEF k, l
  <2> QED BY <1>1, <1>3, <2>2, <2>3, GoesLocked
<1> QED BY <1>2, <1>3 DEF Admit

\* A viewer's input asks for the lease.
LEMMA ViewerInputKeeps == ASSUME ManagerInv, NEW t \in Tasks, ViewerInput(t)
                          PROVE  ManagerInv'
<1> DEFINE k == Begun("input", "lease", installed)
<1>1. /\ up /\ task[t] = NoTask /\ installed # 0 /\ TakesLock(t)
      /\ SameSession /\ UNCHANGED <<row, port, recovery>>
      /\ \/ expired /\ ExpiresLocked(t)
         \/ UNCHANGED managed /\ task' = [task EXCEPT ![t] = k]
  BY DEF ViewerInput, Calls, SameSession
<1>2. IsBegun(k, "input", "lease", installed, FALSE)
  <2>1. installed \in 0 .. MaxHandles
    BY <1>1, InstalledHandle, HandleIsNumber
  <2> QED BY <2>1, BegunIs DEF Kinds, Spots
<1> HIDE DEF k
<1>3. CASE expired /\ ExpiresLocked(t)
  BY <1>1, <1>3, ExpiresLockedKeeps
<1>4. CASE UNCHANGED managed /\ task' = [task EXCEPT ![t] = k]
  BY <1>1, <1>2, <1>4, GoesLocked
<1> QED BY <1>1, <1>3, <1>4

\* A client comes back to its session.
LEMMA RecoverKeeps == ASSUME ManagerInv, NEW t \in Tasks, Recover(t) PROVE ManagerInv'
<1>1. /\ up /\ task[t] = NoTask /\ created /\ TakesRecovery(t)
      /\ SameSession /\ UNCHANGED <<row, port, lock>>
  BY DEF Recover, Calls, SameSession
<1>2. recovery' = t /\ \A u \in Tasks : ~Makes(task[u])
  BY <1>1, TaskFacts, ManagerAssumption DEF TakesRecovery, WellPlaced, Makes
<1>3. CASE /\ installed = 0
           /\ task' = [task EXCEPT ![t] = Begun("recover", "auth", 0)]
           /\ UNCHANGED managed
  <2> DEFINE k == Begun("recover", "auth", 0)
  <2>1. IsBegun(k, "recover", "auth", 0, FALSE)
    BY BegunIs, HandleIsNumber DEF Kinds, Spots
  <2>2. task' = [task EXCEPT ![t] = k]
    BY <1>3
  <2> HIDE DEF k
  <2>3. (WellPlaced(t, k) /\ KnowsHandle(k))' /\ TaskLike(k) /\ k.at # "close"
    BY <1>1, <1>2, <1>3, <2>1, HandleIsNumber
       DEF IsBegun, WellPlaced, KnowsHandle, Making, SameSession, Makes
  <2> QED BY <1>1, <1>2, <1>3, <2>2, <2>3, LocksAreTaken, BeginsKeeps
<1>4. ASSUME installed # 0, expired, managed[installed].cleanup = "no",
             managed' = [managed EXCEPT ![installed].cleanup = "started"],
             task' = [task EXCEPT ![t] =
                   [Begun("recover", "close", installed) EXCEPT !.revoke = TRUE]]
      PROVE  ManagerInv'
  <2>1. PICK h \in Handles : h = installed
    BY <1>4, InstalledHandle
  <2> DEFINE k == [Begun("recover", "close", h) EXCEPT !.revoke = TRUE]
  <2>2. IsBegun(k, "recover", "close", h, TRUE)
    BY BegunIs, HandleIsNumber DEF Kinds, Spots
  <2>3. task' = [task EXCEPT ![t] = k]
    BY <1>4, <2>1
  <2> HIDE DEF k
  <2>4. WellPlaced(t, k)'
    BY <1>1, <1>2, <2>1, <2>2 DEF IsBegun, WellPlaced, SameSession, Making
  <2>5. StartsCleanup(t, k, h)
    BY <1>1, <1>4, <2>1, <2>2, <2>3, InstalledHandle DEF StartsCleanup, IsBegun, SameSession
  <2> QED BY <1>1, <1>2, <2>4, <2>5, LocksAreTaken, StartsCleanupKeeps
<1> QED BY <1>1, <1>3, <1>4 DEF Recover

-----------------------------------------------------------------------------
(* Time, the port, the process.                                            *)

\* The requests are what they were.
LEMMA TasksStay ==
    ASSUME ManagerInv, UNCHANGED <<task, lock, recovery, installed, created>>,
           expired => expired', up' \/ ~up,
           SameHandles
    PROVE  RequestsAreSound' /\ \A h \in Handles : HandleIsSound(h)'
<1>1. ASSUME NEW t \in Tasks PROVE WellPlaced(t, task[t])' /\ KnowsHandle(task[t])'
  <2>1. WellPlaced(t, task[t])'
    BY TaskFacts, OthersStay
  <2>2. task[t].h \in Handles => Same(task[t].h)
    BY DEF SameHandles
  <2>3. task'[t] = task[t] /\ TaskLike(task[t]) /\ WellPlaced(t, task[t]) /\ KnowsHandle(task[t])
    BY TaskFacts
  <2>4. KnowsHandle(task[t])'
    BY <2>2, <2>3, PlacedHandle DEF KnowsHandle, Same, Makes, Making
  <2> QED BY <2>1, <2>4
<1>2. RequestsAreSound'
  BY <1>1 DEF ManagerInv, RequestsAreSound, Exclude, Makes
<1>3. ASSUME NEW h \in Handles PROVE HandleIsSound(h)'
  BY DEF ManagerInv, HandleIsSound, SameHandles, Same, Answered, Makes
<1> QED BY <1>2, <1>3

\* The session's time to live passes.
LEMMA ExpireKeeps == ASSUME ManagerInv, Expire PROVE ManagerInv'
<1>1. /\ expired' = TRUE /\ SameHandles
      /\ UNCHANGED <<up, row, port, managed, installed, lock, recovery, task, created>>
  BY HandlesStay DEF Expire
<1>2. ManagerTypeOK' /\ CreationIsFirst'
  BY <1>1 DEF ManagerInv, ManagerTypeOK, CreationIsFirst, PortsLike, ManagedAll, TaskLike,
     PortLike, ManagedLike
<1> QED BY <1>1, <1>2, TasksStay DEF ManagerInv

\* The session behind a handle emits an event.
LEMMA EmitKeeps == ASSUME ManagerInv, Emit PROVE ManagerInv'
<1>1. PICK g \in Handles : port' = [port EXCEPT ![g].events = @ + 1]
  BY DEF Emit
<1>2. UNCHANGED <<up, expired, row, managed, installed, lock, recovery, task, created>>
  BY DEF Emit
<1> DEFINE p == [port[g] EXCEPT !.events = @ + 1]
<1>3. PortLike(port[g])
  BY DEF ManagerInv, ManagerTypeOK, PortsLike
<1>4. /\ PortLike(p) /\ p.state = port[g].state /\ p.closes = port[g].closes
      /\ p.user = port[g].user
  BY ONLY <1>3 DEF PortLike, p
<1>5. port' = [port EXCEPT ![g] = p]
  BY <1>1
<1> HIDE DEF p
<1>6. /\ PortsLike(port') /\ port'[g] = p
      /\ \A h \in Handles \ {g} : port'[h] = port[h]
  BY <1>4, <1>5, PortChanges
<1>7. SameHandles
  BY <1>2, <1>4, <1>6 DEF SameHandles, Same, ManagerInv, ManagerTypeOK, ManagedAll, ManagedLike
<1>8. ManagerTypeOK' /\ CreationIsFirst'
  BY <1>2, <1>7 DEF ManagerInv, ManagerTypeOK, CreationIsFirst, SameHandles, TaskLike
<1> QED BY <1>2, <1>7, <1>8, TasksStay DEF ManagerInv

\* The process comes back.
LEMMA ManagerRestartKeeps == ASSUME ManagerInv, ManagerRestart PROVE ManagerInv'
<1>1. /\ ~up /\ up' = TRUE /\ SameHandles
      /\ UNCHANGED <<expired, row, port, managed, installed, lock, recovery, task, created>>
  BY HandlesStay DEF ManagerRestart
<1>2. ManagerTypeOK' /\ CreationIsFirst'
  BY <1>1 DEF ManagerInv, ManagerTypeOK, CreationIsFirst, PortsLike, ManagedAll, TaskLike,
     PortLike, ManagedLike
<1> QED BY <1>1, <1>2, TasksStay DEF ManagerInv

\* No request, no installed handle, and every handle new or dead.
LEMMA NothingRuns ==
    ASSUME installed' = 0, task' = [t \in Tasks |-> NoTask],
           \A h \in Handles : /\ port'[h].state \in {"new", "dead"}
                              /\ port'[h].closes = 0
                              /\ managed'[h].cleanup = "no"
    PROVE  RequestsAreSound' /\ \A h \in Handles : HandleIsSound(h)'
<1>1. \A t \in Tasks : task'[t] = NoTask
  OBVIOUS
<1>2. RequestsAreSound'
  <2>1. \A t \in Tasks : (WellPlaced(t, task[t]) /\ KnowsHandle(task[t]))'
    BY <1>1, NoTaskIsPlaced DEF WellPlaced, KnowsHandle, Making, Makes
  <2>2. \A t, u \in Tasks : ~Exclude(task'[t], task'[u])
    BY <1>1, NoTaskIsPlaced DEF Exclude
  <2> QED BY <1>1, <2>1, <2>2 DEF RequestsAreSound, Exclude, Makes
<1>3. ASSUME NEW h \in Handles PROVE HandleIsSound(h)'
  BY HandleIsNumber DEF HandleIsSound
<1> QED BY <1>2, <1>3

\* The process ends: nothing but the row is left.
LEMMA DownKeeps == ASSUME ManagerInv, Down PROVE ManagerInv'
<1>1. /\ created /\ up' = FALSE /\ installed' = 0
      /\ lock' = Nothing /\ recovery' = Nothing
      /\ task' = [t \in Tasks |-> NoTask]
      /\ UNCHANGED <<expired, row, created>>
      /\ port' = [h \in Handles |->
                IF port[h].state = "new" THEN port[h]
                ELSE [state |-> "dead", events |-> 0, closes |-> 0, user |-> FALSE]]
      /\ managed' = [h \in Handles |-> NewManaged(EmptyConversation)]
  BY DEF Down
<1>2. \A h \in Handles : /\ PortLike(port'[h]) /\ port'[h].closes = 0
                         /\ port'[h].state \in {"new", "dead"}
  <2> SUFFICES ASSUME NEW h \in Handles
               PROVE  /\ PortLike(port'[h]) /\ port'[h].closes = 0
                      /\ port'[h].state \in {"new", "dead"}
    OBVIOUS
  <2>1. PortLike(port[h]) /\ HandleIsSound(h)
    BY DEF ManagerInv, ManagerTypeOK, PortsLike
  <2>2. CASE port[h].state = "new"
    BY <1>1, <2>1, <2>2 DEF HandleIsSound
  <2>3. CASE port[h].state # "new"
    BY <1>1, <2>3 DEF PortLike
  <2> QED BY <2>2, <2>3
<1>3. \A h \in Handles : ManagedLike(managed'[h]) /\ managed'[h].cleanup = "no"
  BY <1>1 DEF ManagedLike, NewManaged
<1>4. ManagerTypeOK'
  <2>1. PortsLike(port') /\ ManagedAll(managed')
    BY <1>1, <1>2, <1>3 DEF PortsLike, ManagedAll
  <2>2. \A t \in Tasks : TaskLike(task'[t])
    BY <1>1, NoTaskIsPlaced
  <2> QED BY <1>1, <2>1, <2>2, HandleIsNumber DEF ManagerTypeOK, ManagerInv
<1>5. CreationIsFirst'
  BY <1>1 DEF CreationIsFirst, ManagerInv
<1> QED BY <1>1, <1>2, <1>3, <1>4, <1>5, NothingRuns DEF ManagerInv

-----------------------------------------------------------------------------
(* The specification.                                                      *)

\* There is nothing at first.
LEMMA ManagerStarts == ManagerInit => ManagerInv
<1> SUFFICES ASSUME ManagerInit PROVE ManagerInv
  OBVIOUS
<1>1. \A h \in Handles : /\ PortLike(port[h]) /\ port[h].closes = 0
                         /\ port[h].state = "new"
  BY DEF ManagerInit, PortLike
<1>2. \A h \in Handles : ManagedLike(managed[h]) /\ managed[h].cleanup = "no"
  BY DEF ManagerInit, ManagedLike, NewManaged
<1>3. \A t \in Tasks : task[t] = NoTask
  BY DEF ManagerInit
<1>4. ManagerTypeOK
  <2>1. PortsLike(port) /\ ManagedAll(managed)
    BY <1>1, <1>2 DEF PortsLike, ManagedAll, ManagerInit
  <2>2. \A t \in Tasks : TaskLike(task[t])
    BY <1>3, NoTaskIsPlaced
  <2> QED BY <2>1, <2>2, HandleIsNumber DEF ManagerTypeOK, ManagerInit
<1>5. RequestsAreSound
  <2>1. \A t \in Tasks : WellPlaced(t, task[t]) /\ KnowsHandle(task[t])
    BY <1>3, NoTaskIsPlaced
  <2>2. \A t, u \in Tasks : ~Exclude(task[t], task[u])
    BY <1>3, NoTaskIsPlaced DEF Exclude
  <2> QED BY <1>3, <2>1, <2>2 DEF RequestsAreSound
<1>6. CreationIsFirst
  BY <1>3 DEF CreationIsFirst, ManagerInit
<1>7. ASSUME NEW h \in Handles PROVE HandleIsSound(h)
  BY <1>1, <1>2, HandleIsNumber DEF HandleIsSound, ManagerInit
<1> QED BY <1>4, <1>5, <1>6, <1>7 DEF ManagerInv

\* Every step keeps the invariant.
LEMMA ManagerKeeps == ManagerInv /\ [ManagerNext]_managerVars => ManagerInv'
<1> SUFFICES ASSUME ManagerInv, [ManagerNext]_managerVars PROVE ManagerInv'
  OBVIOUS
<1>1. ASSUME NEW t \in Tasks, TaskStep(t) PROVE ManagerInv'
  BY <1>1, CloseReturnsKeeps, RevokeReturnsKeeps, SnapshotReturnsKeeps, EventsReturnKeeps,
     SaveReturnsKeeps, SyncRaisesKeeps, OpenReturnsKeeps, OpenFailsKeeps,
     RegisterReturnsKeeps, RegisterFailsKeeps, LeaveKeeps, PersistReturnsKeeps,
     PortReturnsKeeps, KeepReturnsKeeps, LeaseAnsweredKeeps, ForwardedKeeps,
     AuthReturnsKeeps, LoadReturnsKeeps DEF TaskStep
<1>2. ASSUME NEW t \in Tasks, SessionRequest(t) PROVE ManagerInv'
  BY <1>2, CreateKeeps, PollKeeps, LookupAbsentKeeps, AdmitKeeps, ViewerInputKeeps,
     RecoverKeeps, SweepKeeps, ShutdownKeeps DEF SessionRequest
<1>3. CASE Expire \/ Emit \/ Down \/ ManagerRestart
  BY <1>3, ExpireKeeps, EmitKeeps, DownKeeps, ManagerRestartKeeps
<1>4. CASE UNCHANGED managerVars
  <2>1. /\ SameHandles
        /\ UNCHANGED <<up, expired, row, port, managed, installed, lock, recovery, task,
                       created>>
    BY <1>4, HandlesStay DEF managerVars
  <2>2. ManagerTypeOK' /\ CreationIsFirst'
    BY <2>1 DEF ManagerInv, ManagerTypeOK, CreationIsFirst, PortsLike, ManagedAll,
       TaskLike, PortLike, ManagedLike
  <2> QED BY <2>1, <2>2, TasksStay DEF ManagerInv
<1> QED BY <1>1, <1>2, <1>3, <1>4 DEF ManagerNext

\* However requests, expiry, recoveries and restarts race, the requests, the
\* locks and the handles of a session fit together (RunSessionManager).
THEOREM ManagerIsSafe == ManagerSpec => []ManagerInv
BY ManagerStarts, ManagerKeeps, PTL DEF ManagerSpec

\* Every handle, session, request and lock is what the manager makes of it.
THEOREM ManagerTypeSafe == ManagerSpec => []ManagerTypeOK
<1>1. ManagerInv => ManagerTypeOK
  BY DEF ManagerInv
<1> QED BY <1>1, ManagerIsSafe, PTL

\* Two open handles would need two that answer for them: the installed one
\* and that of a request, which makes one only while none is installed.
LEMMA OneIsOpen ==
    ASSUME ManagerInv, NEW g \in Handles, NEW h \in Handles, Open(g), Open(h)
    PROVE  g = h
<1>1. Answered(g) /\ Answered(h) /\ port[g].state = "open" /\ port[h].state = "open"
  BY DEF Open, ManagerInv, HandleIsSound
<1>2. ASSUME NEW t \in Tasks, NEW f \in Handles, Makes(task[t]), task[t].h = f, Open(f)
      PROVE  installed \in {0, f}
  BY <1>2, TaskFacts, NoTaskIsPlaced
     DEF WellPlaced, KnowsHandle, Makes, Open, ManagerInv, CreationIsFirst
<1>3. \A t, u \in Tasks : Makes(task[t]) /\ Makes(task[u]) => t = u
  BY DEF ManagerInv, RequestsAreSound, Exclude
<1> QED BY <1>1, <1>2, <1>3, HandleIsNumber DEF Answered

\* A session has one open handle at most, no handle is closed twice, and its
\* row stays until it expires, whatever races (manager.py, expire, recover,
\* close_all and _cleanup_once).
THEOREM SessionStaysKept == ManagerSpec => []SessionIsKept
<1>1. ManagerInv => SessionIsKept
  <2> SUFFICES ASSUME ManagerInv PROVE SessionIsKept
    OBVIOUS
  <2>1. Cardinality({h \in Handles : Open(h)}) <= 1
    <3> DEFINE S == {h \in Handles : Open(h)}
    <3>1. CASE S = {}
      BY <3>1, FS_EmptySet
    <3>2. CASE S # {}
      <4>1. PICK g \in Handles : Open(g)
        BY <3>2
      <4>2. S = {g}
        BY <4>1, OneIsOpen
      <4> QED BY <4>2, FS_Singleton
    <3> QED BY <3>1, <3>2
  <2>2. \A h \in Handles : port[h].closes <= 1
    BY DEF ManagerInv, HandleIsSound
  <2>3. RowUntilExpiry
    BY DEF ManagerInv, CreationIsFirst, RowUntilExpiry
  <2> QED BY <2>1, <2>2, <2>3 DEF SessionIsKept, OneHandle
<1> QED BY <1>1, ManagerIsSafe, PTL

\* A viewer's input is forwarded under the user's lease, or to a session that
\* is being cleaned up: no command changes the lease while the input holds
\* the lock (manager.py, forward_viewer_input).
THEOREM InputStaysUnderLease == ManagerSpec => []InputUnderLease
<1>1. ManagerInv => InputUnderLease
  BY DEF ManagerInv, RequestsAreSound, KnowsHandle, InputUnderLease
<1> QED BY <1>1, ManagerIsSafe, PTL

=============================================================================
