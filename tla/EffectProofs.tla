---------------------------- MODULE EffectProofs ----------------------------
(***************************************************************************)
(* Proofs about effects on the world.                                      *)
(*                                                                         *)
(* TaskRevision, for every number of commands, effects and checkpoints:    *)
(* whatever step of a revision fails, the owners of the task's revision    *)
(* agree again when it is over, a checkpoint is used up once, and an       *)
(* effect owed to the current revision is not forgotten.                   *)
(*                                                                         *)
(* WorldAcquisition, for every number of dispatches, frames, drifts and    *)
(* cancelled waits and for every deployment: an effect lands once, what    *)
(* is reported of its dispatch is true, and an owner thread that was given *)
(* up is left alone.                                                       *)
(***************************************************************************)
EXTENDS TaskRevision, WorldAcquisition, TLAPS

-----------------------------------------------------------------------------
(* The inductive invariant.                                                *)

Statuses == {"none", "running", "paused", "failed"} \cup Verdict
EffectType == [ref : Nat, revision : Nat, kind : Undo \cup {"none"}]
OwedType == [status : {"none", "pending", "needs_input", "compensated"},
             effect : EffectType]
WorkType == [status : Statuses, revision : Nat, count : Nat,
             effect : EffectType, owed : OwedType]

Reasons == {"needs-input", "attempt-closed", "attempt-rejected",
            "action-not-allowed"}
PauseIds == (Nat \X Nat \X Nat \X Reasons) \cup {NoPause}

Codes == CompilerAnswers \cup {"", "effect_reconciliation_required"}
Outcomes == Codes \cup {"none", "revised"}

Runners == {"none", "start", "top", "step", "settle"}
Places == {"idle", "pausing", "resuming", "granting", "load", "compile",
           "revise_task", "capture", "commit", "install", "restore",
           "withdraw", "reject"}
DeskType == [alive : BOOLEAN, owner : {"agent", "user"}, runner : Runners,
             asked : BOOLEAN, by : PauseIds, checkpoint : Nat, at : Places,
             command : Revises \cup {NoCommand}, code : Codes, next : WorkType]

SavedType == [work : WorkType, history : Nat, by : PauseIds]
LedgerType == [saved : Seq(SavedType), resumed : SUBSET Nat,
               revised : SUBSET (Nat \X Nat), outcome : [Revises -> Outcomes]]

RevisionTypeOK ==
    /\ work \in WorkType
    /\ desk \in DeskType
    /\ around \in [environment : Nat, history : Nat]
    /\ ledger \in LedgerType
    /\ heard \subseteq PauseIds

\* v is a later state of the run than w: its revision is no older, and in the
\* same revision the effect owed is the same and its state has moved forward
Follows(w, v) ==
    /\ w.revision <= v.revision
    /\ w.revision = v.revision /\ w.owed.status # "none" =>
            /\ v.owed.status # "none"
            /\ v.owed.effect = w.owed.effect
            /\ v.owed.status = "pending" => w.owed.status = "pending"

\* The store: what is saved is a paused run and the history of its revision,
\* in the order of the run; what is used up was saved before.
StoreIsOrdered ==
    /\ \A i \in 1 .. Latest :
            /\ ledger.saved[i].work.status = "paused"
            /\ ledger.saved[i].history = ledger.saved[i].work.revision
    /\ \A i, j \in 1 .. Latest :
            i <= j => Follows(ledger.saved[i].work, ledger.saved[j].work)
    /\ ledger.resumed \subseteq 1 .. Latest
    /\ \A r \in ledger.revised : r[1] \in 1 .. Latest - 1

\* Who is at work: a runner only on a running run that the agent controls, a
\* command that holds the lock only on a paused one.
OneAtWork ==
    /\ desk.runner # "none" => /\ desk.alive /\ desk.owner = "agent"
                               /\ desk.at \in {"idle", "pausing"}
                               /\ work.status = "running"
    /\ desk.at # "idle" => desk.alive /\ desk.owner = "agent"
    /\ desk.at \notin {"idle", "pausing"} => Paused
    /\ desk.owner = "user" => desk.alive

\* The checkpoint of a paused run is the latest but while a committed
\* revision is installed, and is free for one use.
CheckpointIsCurrent ==
    desk.alive /\ Paused =>
        /\ desk.checkpoint \in 1 .. Latest
        /\ work = Source.work
        /\ desk.checkpoint = IF desk.at = "install" THEN Latest - 1 ELSE Latest
        /\ desk.owner = "agent" /\ desk.at \notin {"resuming", "granting", "install"}
                => ~Consumed(desk.checkpoint)

\* The run is later than all that is saved of its revision or an older one.
RunIsLatest ==
    desk.alive /\ desk.at # "install" =>
        \A i \in 1 .. Latest : Follows(ledger.saved[i].work, work)

\* What the environment and the history carry at each step of a revision, and
\* the run that is to come.
OwnersOfRevision ==
    desk.alive =>
        /\ desk.at \notin {"capture", "commit", "install", "restore", "withdraw"} =>
                /\ around.environment = work.revision
                /\ around.history = work.revision
        /\ desk.at = "capture" => around.history = work.revision
        /\ desk.at \in {"commit", "install"} =>
                /\ around.environment = desk.next.revision
                /\ around.history = desk.next.revision
                /\ desk.next.revision = work.revision + 1
                /\ desk.next.status = "paused"
        /\ desk.at = "capture" => around.environment = work.revision + 1
        /\ desk.at = "install" => /\ ledger.saved[Latest].work = desk.next
                                  /\ Latest > 0 /\ Latest \notin ledger.resumed

RevisionInv ==
    /\ RevisionTypeOK
    /\ StoreIsOrdered
    /\ OneAtWork
    /\ CheckpointIsCurrent
    /\ RunIsLatest
    /\ OwnersOfRevision
    /\ ConsumedOnce

-----------------------------------------------------------------------------
(* The steps that only move the desk.                                      *)

\* A request to pause changes nothing that is saved or carried (pause).
LEMMA AsksPauseKeeps == ASSUME RevisionInv, AsksPause PROVE RevisionInv'
<1> USE DEF RevisionInv, AsksPause, AtDesk
<1>1. RevisionTypeOK' BY DEF RevisionTypeOK, DeskType, LedgerType, Places, Runners, Codes, CompilerAnswers
<1>2. StoreIsOrdered' BY DEF StoreIsOrdered, Latest
<1>3. OneAtWork' BY DEF OneAtWork, Paused, RevisionTypeOK, DeskType
<1>4. CheckpointIsCurrent' BY DEF CheckpointIsCurrent, OneAtWork, Paused, Latest, Source, Consumed, RevisionTypeOK, DeskType
<1>5. RunIsLatest' BY DEF RunIsLatest, OneAtWork, Paused, Latest, RevisionTypeOK, DeskType
<1>6. OwnersOfRevision' BY DEF OwnersOfRevision, OneAtWork, Latest, RevisionTypeOK, DeskType
<1>7. ConsumedOnce' BY DEF ConsumedOnce
<1> QED BY <1>1, <1>2, <1>3, <1>4, <1>5, <1>6, <1>7

\* A revision that begins waits for the pause, or finds it.
LEMMA ReviseBeginsKeeps == ASSUME NEW c \in Revises, RevisionInv, ReviseBegins(c) PROVE RevisionInv'
<1> USE DEF RevisionInv, ReviseBegins, AtDesk
<1>0. /\ desk.alive /\ desk'.alive
      /\ desk.owner = "agent" /\ desk'.owner = "agent"
      /\ desk'.runner = desk.runner /\ desk'.checkpoint = desk.checkpoint
      /\ desk.at = "idle"
      /\ \/ desk'.at = "load" /\ Paused
         \/ desk'.at = "pausing" /\ ~Paused
  BY DEF RevisionTypeOK, DeskType, Paused
<1>1. RevisionTypeOK'
  <2>1. desk \in DeskType BY DEF RevisionTypeOK
  <2>2. CASE Paused /\ desk' = [desk EXCEPT !.at = "load", !.command = c]
    <3>1. desk' \in DeskType BY ONLY <2>1, <2>2, c \in Revises DEF DeskType, Places
    <3> QED BY <3>1 DEF RevisionTypeOK
  <2>3. CASE desk' = [desk EXCEPT !.at = "pausing", !.command = c, !.asked = TRUE]
    <3>1. desk' \in DeskType BY ONLY <2>1, <2>3, c \in Revises DEF DeskType, Places
    <3> QED BY <3>1 DEF RevisionTypeOK
  <2> QED BY <2>2, <2>3
<1>2. StoreIsOrdered' BY DEF StoreIsOrdered, Latest
<1>3. OneAtWork' BY DEF OneAtWork, Paused, RevisionTypeOK, DeskType
<1>4. CheckpointIsCurrent' BY <1>0 DEF CheckpointIsCurrent, Paused, Latest, Source, Consumed
<1>5. RunIsLatest' BY DEF RunIsLatest, OneAtWork, Paused, Latest, RevisionTypeOK, DeskType
<1>6. OwnersOfRevision' BY DEF OwnersOfRevision, OneAtWork, Latest, RevisionTypeOK, DeskType
<1>7. ConsumedOnce' BY DEF ConsumedOnce
<1> QED BY <1>1, <1>2, <1>3, <1>4, <1>5, <1>6, <1>7

\* The blank that stands for no run is a run.
LEMMA NoWorkTyped == NoWork \in WorkType
<1>1. NoEffect \in EffectType BY DEF NoEffect, Effect, EffectType
<1>2. NotOwed \in OwedType BY <1>1 DEF NotOwed, Owed, OwedType
<1> QED BY <1>1, <1>2 DEF NoWork, Work, WorkType, Statuses

\* The runner's end lets the revision go on, or ends it.
LEMMA PauseAwaitedKeeps == ASSUME RevisionInv, PauseAwaited PROVE RevisionInv'
<1> USE DEF RevisionInv, PauseAwaited, Revising, CommandEnds
<1>1. RevisionTypeOK'
  <2>1. desk \in DeskType BY DEF RevisionTypeOK
  <2>2. CommandEnds \in DeskType
    BY ONLY <2>1, NoWorkTyped DEF CommandEnds, DeskType, Places, Codes, CompilerAnswers
  <2>3. [desk EXCEPT !.at = "load"] \in DeskType
    BY ONLY <2>1 DEF DeskType, Places
  <2> HIDE DEF CommandEnds
  <2>4. desk' \in DeskType BY <2>2, <2>3
  <2> QED BY <2>4 DEF RevisionTypeOK
<1>2. StoreIsOrdered' BY DEF StoreIsOrdered, Latest
<1>3. OneAtWork' BY DEF OneAtWork, Paused, RevisionTypeOK, DeskType
<1>4. CheckpointIsCurrent' BY DEF CheckpointIsCurrent, OneAtWork, Paused, Latest, Source, Consumed, RevisionTypeOK, DeskType
<1>5. RunIsLatest' BY DEF RunIsLatest, OneAtWork, Paused, Latest, RevisionTypeOK, DeskType
<1>6. OwnersOfRevision' BY DEF OwnersOfRevision, OneAtWork, Latest, RevisionTypeOK, DeskType
<1>7. ConsumedOnce' BY DEF ConsumedOnce
<1> QED BY <1>1, <1>2, <1>3, <1>4, <1>5, <1>6, <1>7

\* An effect that is owed, or more than one, is refused before any work.
LEMMA ReviseLoadsKeeps == ASSUME RevisionInv, ReviseLoads PROVE RevisionInv'
<1> USE DEF RevisionInv, ReviseLoads, Revising, Rejected
<1>1. RevisionTypeOK' BY DEF RevisionTypeOK, DeskType, LedgerType, Places, Runners, Codes, CompilerAnswers
<1>2. StoreIsOrdered' BY DEF StoreIsOrdered, Latest
<1>3. OneAtWork' BY DEF OneAtWork, Paused, RevisionTypeOK, DeskType
<1>4. CheckpointIsCurrent' BY DEF CheckpointIsCurrent, OneAtWork, Paused, Latest, Source, Consumed, RevisionTypeOK, DeskType
<1>5. RunIsLatest' BY DEF RunIsLatest, OneAtWork, Paused, Latest, RevisionTypeOK, DeskType
<1>6. OwnersOfRevision' BY DEF OwnersOfRevision, OneAtWork, Latest, RevisionTypeOK, DeskType
<1>7. ConsumedOnce' BY DEF ConsumedOnce
<1> QED BY <1>1, <1>2, <1>3, <1>4, <1>5, <1>6, <1>7

\* Whatever the compiler answers, nothing is changed yet.
LEMMA ReviseCompilesKeeps == ASSUME NEW answer \in CompilerAnswers, NEW ok \in BOOLEAN, RevisionInv, ReviseCompiles(answer, ok) PROVE RevisionInv'
<1> USE DEF RevisionInv, ReviseCompiles, Revising, Rejected, CompilerAnswers
<1>1. RevisionTypeOK' BY DEF RevisionTypeOK, DeskType, LedgerType, Places, Runners, Codes, CompilerAnswers
<1>2. StoreIsOrdered' BY DEF StoreIsOrdered, Latest
<1>3. OneAtWork' BY DEF OneAtWork, Paused, RevisionTypeOK, DeskType
<1>4. CheckpointIsCurrent' BY DEF CheckpointIsCurrent, OneAtWork, Paused, Latest, Source, Consumed, RevisionTypeOK, DeskType
<1>5. RunIsLatest' BY DEF RunIsLatest, OneAtWork, Paused, Latest, RevisionTypeOK, DeskType
<1>6. OwnersOfRevision' BY DEF OwnersOfRevision, OneAtWork, Latest, RevisionTypeOK, DeskType
<1>7. ConsumedOnce' BY DEF ConsumedOnce
<1> QED BY <1>1, <1>2, <1>3, <1>4, <1>5, <1>6, <1>7

\* A failed capture sends the revision back to its source.
LEMMA CaptureFailsKeeps == ASSUME RevisionInv, CaptureFails PROVE RevisionInv'
<1> USE DEF RevisionInv, CaptureFails, Revising, Rejected
<1>1. RevisionTypeOK' BY DEF RevisionTypeOK, DeskType, LedgerType, Places, Runners, Codes, CompilerAnswers
<1>2. StoreIsOrdered' BY DEF StoreIsOrdered, Latest
<1>3. OneAtWork' BY DEF OneAtWork, Paused, RevisionTypeOK, DeskType
<1>4. CheckpointIsCurrent' BY DEF CheckpointIsCurrent, OneAtWork, Paused, Latest, Source, Consumed, RevisionTypeOK, DeskType
<1>5. RunIsLatest' BY DEF RunIsLatest, OneAtWork, Paused, Latest, RevisionTypeOK, DeskType
<1>6. OwnersOfRevision' BY DEF OwnersOfRevision, OneAtWork, Latest, RevisionTypeOK, DeskType
<1>7. ConsumedOnce' BY DEF ConsumedOnce
<1> QED BY <1>1, <1>2, <1>3, <1>4, <1>5, <1>6, <1>7

\* A failed transaction sends the revision back to its source.
LEMMA ReviseCommitFailsKeeps == ASSUME RevisionInv, ReviseCommitFails PROVE RevisionInv'
<1> USE DEF RevisionInv, ReviseCommitFails, Revising
<1>1. RevisionTypeOK' BY DEF RevisionTypeOK, DeskType, LedgerType, Places, Runners, Codes, CompilerAnswers
<1>2. StoreIsOrdered' BY DEF StoreIsOrdered, Latest
<1>3. OneAtWork' BY DEF OneAtWork, Paused, RevisionTypeOK, DeskType
<1>4. CheckpointIsCurrent' BY DEF CheckpointIsCurrent, OneAtWork, Paused, Latest, Source, Consumed, RevisionTypeOK, DeskType
<1>5. RunIsLatest' BY DEF RunIsLatest, OneAtWork, Paused, Latest, RevisionTypeOK, DeskType
<1>6. OwnersOfRevision' BY DEF OwnersOfRevision, OneAtWork, Latest, RevisionTypeOK, DeskType
<1>7. ConsumedOnce' BY DEF ConsumedOnce
<1> QED BY <1>1, <1>2, <1>3, <1>4, <1>5, <1>6, <1>7

\* The user has control of a run whose checkpoint is used up.
LEMMA TakeOverReturnsKeeps == ASSUME RevisionInv, TakeOverReturns PROVE RevisionInv'
<1> USE DEF RevisionInv, TakeOverReturns
<1>1. RevisionTypeOK' BY DEF RevisionTypeOK, DeskType, LedgerType, Places, Runners, Codes, CompilerAnswers
<1>2. StoreIsOrdered' BY DEF StoreIsOrdered, Latest
<1>3. OneAtWork' BY DEF OneAtWork, Paused, RevisionTypeOK, DeskType
<1>4. CheckpointIsCurrent' BY DEF CheckpointIsCurrent, OneAtWork, Paused, Latest, Source, Consumed, RevisionTypeOK, DeskType
<1>5. RunIsLatest' BY DEF RunIsLatest, OneAtWork, Paused, Latest, RevisionTypeOK, DeskType
<1>6. OwnersOfRevision' BY DEF OwnersOfRevision, OneAtWork, Latest, RevisionTypeOK, DeskType
<1>7. ConsumedOnce' BY DEF ConsumedOnce
<1> QED BY <1>1, <1>2, <1>3, <1>4, <1>5, <1>6, <1>7

-----------------------------------------------------------------------------
(* The order of the runs, and what the store gains.                        *)

\* The order of the runs is transitive.
LEMMA FollowsOn ==
    ASSUME NEW u \in WorkType, NEW v \in WorkType, NEW w \in WorkType,
           Follows(u, v), Follows(v, w)
    PROVE  Follows(u, w)
BY DEF Follows, WorkType, OwedType

\* A run is saved as it is, but paused.
LEMMA SavedAsPaused ==
    ASSUME NEW w \in WorkType, NEW h \in Nat, NEW by \in PauseIds
    PROVE  /\ Saved(w, h, by) \in SavedType
           /\ Saved(w, h, by).history = h
           /\ Saved(w, h, by).work.status = "paused"
           /\ w.status = "paused" => Saved(w, h, by).work = w
           /\ Saved(w, h, by).work.revision = w.revision
           /\ Saved(w, h, by).work.owed = w.owed
BY DEF Saved, SavedType, WorkType, Statuses

\* The order looks at the revision and at what is owed.
LEMMA FollowsSaved ==
    ASSUME NEW u \in WorkType, NEW w \in WorkType, NEW h \in Nat,
           NEW by \in PauseIds, Follows(u, w)
    PROVE  Follows(u, Saved(w, h, by).work)
BY SavedAsPaused DEF Follows

\* The checkpoints that were there stay there.
LEMMA StoreAppends ==
    ASSUME RevisionTypeOK, NEW s \in SavedType,
           ledger'.saved = Append(ledger.saved, s)
    PROVE  /\ Latest \in Nat /\ Latest' = Latest + 1
           /\ ledger'.saved \in Seq(SavedType)
           /\ ledger'.saved[Latest + 1] = s
           /\ \A i \in 1 .. Latest : /\ ledger'.saved[i] = ledger.saved[i]
                                     /\ ledger.saved[i] \in SavedType
BY DEF RevisionTypeOK, LedgerType, Latest

\* What is saved is a run, its history and a pause.
LEMMA SavedHasType ==
    ASSUME RevisionTypeOK
    PROVE  /\ Latest \in Nat
           /\ \A i \in 1 .. Latest : /\ ledger.saved[i].work \in WorkType
                                     /\ ledger.saved[i].work.revision \in Nat
                                     /\ ledger.saved[i].history \in Nat
                                     /\ ledger.saved[i].by \in PauseIds
<1>1. Latest \in Nat /\ \A i \in 1 .. Latest : ledger.saved[i] \in SavedType
  BY DEF RevisionTypeOK, LedgerType, Latest
<1>2. \A w \in WorkType : w.revision \in Nat
  BY DEF WorkType
<1> QED BY ONLY <1>1, <1>2 DEF SavedType

\* A later run that is appended keeps the store in order.
LEMMA StoreGrows ==
    ASSUME RevisionTypeOK, StoreIsOrdered, NEW w \in WorkType, NEW by \in PauseIds,
           \A i \in 1 .. Latest : Follows(ledger.saved[i].work, w),
           ledger'.saved = Append(ledger.saved, Saved(w, w.revision, by)),
           ledger'.resumed = ledger.resumed,
           \A r \in ledger'.revised : r \in ledger.revised \/ r[1] \in 1 .. Latest
    PROVE  StoreIsOrdered'
<1> DEFINE s == Saved(w, w.revision, by)
<1>1. w.revision \in Nat
  BY DEF WorkType
<1>2. /\ s \in SavedType /\ s.history = s.work.revision
      /\ s.work.status = "paused"
      /\ s.work.revision = w.revision /\ s.work.owed = w.owed
  BY <1>1, SavedAsPaused
<1>3. \A i \in 1 .. Latest : Follows(ledger.saved[i].work, s.work)
  BY <1>2 DEF Follows
<1>4. Follows(s.work, s.work)
  BY <1>1, <1>2 DEF Follows
<1> HIDE DEF s
<1>5. /\ Latest \in Nat /\ Latest' = Latest + 1
      /\ ledger'.saved[Latest + 1] = s
      /\ \A i \in 1 .. Latest : ledger'.saved[i] = ledger.saved[i]
  BY <1>2, StoreAppends DEF s
<1>6. ASSUME NEW i \in 1 .. Latest'
      PROVE  /\ ledger'.saved[i].work.status = "paused"
             /\ ledger'.saved[i].history = ledger'.saved[i].work.revision
  <2>1. CASE i \in 1 .. Latest
    BY ONLY <1>5, <2>1, StoreIsOrdered DEF StoreIsOrdered
  <2>2. CASE i = Latest + 1
    BY ONLY <1>2, <1>5, <2>2
  <2>3. i \in 1 .. Latest \/ i = Latest + 1
    BY ONLY <1>5, i \in 1 .. Latest'
  <2> QED BY ONLY <2>1, <2>2, <2>3
<1>7. ASSUME NEW i \in 1 .. Latest', NEW j \in 1 .. Latest', i <= j
      PROVE  Follows(ledger'.saved[i].work, ledger'.saved[j].work)
  <2>1. CASE j \in 1 .. Latest
    <3>1. i \in 1 .. Latest
      BY <1>5, <1>7, <2>1
    <3> QED BY ONLY <1>5, <1>7, <2>1, <3>1, StoreIsOrdered DEF StoreIsOrdered
  <2>2. CASE j = Latest + 1 /\ i \in 1 .. Latest
    BY ONLY <1>3, <1>5, <2>2
  <2>3. CASE j = Latest + 1 /\ i = Latest + 1
    BY ONLY <1>4, <1>5, <2>3
  <2>4. /\ i \in 1 .. Latest \/ i = Latest + 1
        /\ j \in 1 .. Latest \/ j = Latest + 1
    BY ONLY <1>5, i \in 1 .. Latest', j \in 1 .. Latest'
  <2> QED BY ONLY <2>1, <2>2, <2>3, <2>4
<1>8. ledger'.resumed \subseteq 1 .. Latest'
  BY <1>5 DEF StoreIsOrdered
<1>9. \A r \in ledger'.revised : r[1] \in 1 .. Latest' - 1
  BY <1>5 DEF StoreIsOrdered
<1> QED BY <1>6, <1>7, <1>8, <1>9 DEF StoreIsOrdered

-----------------------------------------------------------------------------
(* The steps of the loop.                                                  *)

\* The state of what is owed moves forward within a revision.
Advances(w, v) ==
    /\ v.revision = w.revision
    /\ w.owed.status # "none" => /\ v.owed.status # "none"
                                 /\ v.owed.effect = w.owed.effect
                                 /\ v.owed.status = "pending" => w.owed.status = "pending"

\* What any step of the loop does: the run advances, and nothing is saved.
LoopAdvances ==
    /\ desk.runner # "none"
    /\ UNCHANGED <<around, ledger>>
    /\ work' \in WorkType /\ work'.status # "paused"
    /\ Advances(work, work')
    /\ heard' \subseteq PauseIds
    /\ \E r \in Runners, q \in BOOLEAN, b \in PauseIds :
        /\ desk' = [desk EXCEPT !.runner = r, !.asked = q, !.by = b]
        /\ r # "none" => work'.status = "running"

\* A run that advances stays later than what is saved.
LEMMA FollowsAdvance ==
    ASSUME NEW u, NEW v, NEW w, Follows(u, v), Advances(v, w)
    PROVE  Follows(u, w)
BY DEF Follows, Advances

\* Such a step keeps the invariant.
LEMMA LoopAdvancesKeeps == ASSUME RevisionInv, LoopAdvances PROVE RevisionInv'
<1> USE DEF RevisionInv
<1>1. PICK r \in Runners, q \in BOOLEAN, b \in PauseIds :
        /\ desk' = [desk EXCEPT !.runner = r, !.asked = q, !.by = b]
        /\ r # "none" => work'.status = "running"
  BY DEF LoopAdvances
<1>2. /\ desk' \in DeskType
      /\ desk'.runner = r
      /\ desk'.alive = desk.alive /\ desk'.owner = desk.owner /\ desk'.at = desk.at
      /\ desk'.checkpoint = desk.checkpoint /\ desk'.next = desk.next
  BY <1>1 DEF RevisionTypeOK, DeskType
<1>3. /\ desk.alive /\ desk.owner = "agent" /\ desk.at \in {"idle", "pausing"}
      /\ work'.status # "paused"
      /\ work'.revision = work.revision
      /\ ledger' = ledger /\ around' = around
  BY DEF LoopAdvances, OneAtWork, Advances
<1>4. RevisionTypeOK'
  BY <1>2, <1>3 DEF RevisionTypeOK, LoopAdvances
<1>5. StoreIsOrdered' /\ ConsumedOnce'
  BY <1>3 DEF StoreIsOrdered, Latest, ConsumedOnce
<1>6. OneAtWork'
  BY <1>1, <1>2, <1>3 DEF OneAtWork, Paused
<1>7. CheckpointIsCurrent'
  BY <1>3 DEF CheckpointIsCurrent, Paused
<1>8. RunIsLatest'
  <2>1. \A i \in 1 .. Latest : Follows(ledger.saved[i].work, work)
    BY <1>3 DEF RunIsLatest
  <2>2. \A i \in 1 .. Latest : Follows(ledger.saved[i].work, work')
    BY <2>1, FollowsAdvance DEF LoopAdvances
  <2> QED BY <1>3, <2>2 DEF RunIsLatest, Latest
<1>9. OwnersOfRevision'
  BY <1>2, <1>3 DEF OwnersOfRevision, Latest
<1> QED BY <1>4, <1>5, <1>6, <1>7, <1>8, <1>9

\* What a step of the loop may leave the run as.
Goes(w) == w \in WorkType /\ Advances(work, w) /\ w.status = "running"

\* A pause of the loop's own is a pause, or the session fails.
LEMMA OwnPauseAdvances ==
    ASSUME RevisionInv, NEW w, Goes(w), NEW why \in Reasons,
           desk.runner # "none", OwnPause(w, PauseId(work, why)),
           UNCHANGED <<around, ledger>>
    PROVE  LoopAdvances
<1> DEFINE id == PauseId(work, why)
<1>1. id \in PauseIds
  BY DEF RevisionInv, RevisionTypeOK, PauseId, PauseIds, WorkType, OwedType, EffectType
<1> HIDE DEF id
<1>2. OwnPause(w, id)
  BY DEF id
<1>3. desk \in DeskType /\ heard \subseteq PauseIds
  BY DEF RevisionInv, RevisionTypeOK
<1>4. CASE ~desk.asked /\ id \notin heard
  <2>1. /\ desk' = [desk EXCEPT !.runner = "settle", !.asked = FALSE, !.by = id]
        /\ work' = w /\ heard' = heard \cup {id}
    <3>1. desk.asked = FALSE
      BY ONLY <1>3, <1>4 DEF DeskType
    <3>2. /\ desk' = [desk EXCEPT !.runner = "settle", !.by = id]
          /\ work' = w /\ heard' = heard \cup {id}
      BY ONLY <1>2, <1>4 DEF OwnPause
    <3>3. desk' = [desk EXCEPT !.runner = "settle", !.asked = FALSE, !.by = id]
      BY ONLY <1>3, <3>1, <3>2 DEF DeskType
    <3> QED BY <3>2, <3>3
  <2> QED BY <1>1, <1>3, <2>1 DEF LoopAdvances, Goes, Runners
<1>5. CASE desk.asked \/ id \in heard
  <2>1. /\ desk' = [desk EXCEPT !.runner = "none", !.asked = FALSE, !.by = desk.by]
        /\ work' = [w EXCEPT !.status = "failed"] /\ heard' = heard
    <3>1. /\ desk' = [desk EXCEPT !.runner = "none", !.asked = FALSE]
          /\ work' = [w EXCEPT !.status = "failed"] /\ heard' = heard
      BY ONLY <1>2, <1>5 DEF OwnPause
    <3>2. desk' = [desk EXCEPT !.runner = "none", !.asked = FALSE, !.by = desk.by]
      BY ONLY <1>3, <3>1 DEF DeskType
    <3> QED BY <3>1, <3>2
  <2>2. /\ work' \in WorkType /\ work'.status = "failed"
        /\ Advances(work, work')
    BY <2>1 DEF Goes, WorkType, Statuses, Advances
  <2>3. desk.by \in PauseIds
    BY <1>3 DEF DeskType
  <2> QED BY <1>3, <2>1, <2>2, <2>3 DEF LoopAdvances, Runners
<1> QED BY <1>4, <1>5

\* The user's pause of a running run.
LEMMA UserPauseAdvances ==
    ASSUME RevisionInv, NEW w, Goes(w), desk.runner # "none", UserPause(w),
           UNCHANGED <<around, ledger>>
    PROVE  LoopAdvances
<1>1. NoPause \in PauseIds /\ heard \subseteq PauseIds
  BY DEF PauseIds, RevisionInv, RevisionTypeOK
<1> QED BY <1>1 DEF UserPause, LoopAdvances, Goes, Runners

\* The end of the run.
LEMMA RunEndsAdvances ==
    ASSUME RevisionInv, NEW w, Goes(w), desk.runner # "none",
           NEW status \in Verdict, RunEnds(w, status), UNCHANGED <<around, ledger>>
    PROVE  LoopAdvances
<1>1. desk \in DeskType /\ heard \subseteq PauseIds /\ desk.by \in PauseIds
  BY DEF RevisionInv, RevisionTypeOK, DeskType
<1>2. desk' = [desk EXCEPT !.runner = "none", !.asked = FALSE, !.by = desk.by]
  BY <1>1 DEF RunEnds, DeskType
<1>3. /\ work' \in WorkType /\ work'.status = status
      /\ Advances(work, work') /\ heard' = heard
  BY DEF RunEnds, Goes, WorkType, Statuses, Advances
<1>4. status # "paused"
  BY DEF Verdict
<1> QED BY <1>1, <1>2, <1>3, <1>4 DEF LoopAdvances, Runners

\* A step that closes, whatever it answers.
LEMMA StepClosesAdvances ==
    ASSUME RevisionInv, NEW w, Goes(w), desk.runner # "none",
           NEW status \in Verdict, StepCloses(w, status),
           UNCHANGED <<around, ledger>>
    PROVE  LoopAdvances
<1>1. CASE status # "running"
  BY <1>1, RunEndsAdvances DEF StepCloses
<1>2. CASE status = "running" /\ desk.asked
  BY <1>2, UserPauseAdvances DEF StepCloses
<1>3. CASE status = "running" /\ ~desk.asked
  <2>1. desk \in DeskType /\ heard \subseteq PauseIds /\ desk.by \in PauseIds
    BY DEF RevisionInv, RevisionTypeOK, DeskType
  <2>2. /\ work' = w /\ heard' = heard
        /\ desk' = [desk EXCEPT !.runner = "top", !.asked = FALSE, !.by = desk.by]
    BY <1>3, <2>1 DEF StepCloses, DeskType
  <2> QED BY <2>1, <2>2 DEF LoopAdvances, Goes, Runners
<1> QED BY <1>1, <1>2, <1>3

\* A run whose runner lives goes on as it is.
LEMMA GoesAsItIs ==
    ASSUME RevisionInv, desk.runner # "none" PROVE Goes(work)
BY DEF RevisionInv, RevisionTypeOK, OneAtWork, Goes, Advances

\* A run that is to wait for the user goes on.
LEMMA GoesWaiting ==
    ASSUME RevisionInv, desk.runner # "none", Pending(work)
    PROVE  Goes(InputRequired(work))
BY DEF RevisionInv, RevisionTypeOK, OneAtWork, Goes, Advances, Pending,
       InputRequired, WorkType, OwedType

\* A run that has acted goes on.
LEMMA GoesDispatched ==
    ASSUME RevisionInv, desk.runner # "none",
           NEW kind \in Undo, NEW verified \in BOOLEAN
    PROVE  Goes(Dispatched(work, kind, verified))
<1> DEFINE n == work.count + 1
           done == Effect(work.count + 1, work.revision, kind)
           owed == IF ~Pending(work) THEN work.owed
                   ELSE [work.owed EXCEPT !.status =
                            IF kind # "unsure" /\ verified
                            THEN "compensated" ELSE "needs_input"]
<1>1. work \in WorkType /\ work.status = "running"
  BY DEF RevisionInv, RevisionTypeOK, OneAtWork
<1>2. done \in EffectType
  BY <1>1 DEF Effect, EffectType, WorkType
<1>3. /\ owed \in OwedType
      /\ work.owed.status # "none" =>
            /\ owed.status # "none" /\ owed.effect = work.owed.effect
            /\ owed.status = "pending" => work.owed.status = "pending"
  BY <1>1 DEF Pending, WorkType, OwedType
<1>4. Dispatched(work, kind, verified) =
        [work EXCEPT !.count = n, !.effect = done, !.owed = owed]
  BY DEF Dispatched
<1>5. n \in Nat
  BY <1>1 DEF WorkType
<1> HIDE DEF done, owed, n
<1>6. /\ Dispatched(work, kind, verified) \in WorkType
      /\ Dispatched(work, kind, verified).status = work.status
      /\ Dispatched(work, kind, verified).revision = work.revision
      /\ Dispatched(work, kind, verified).owed = owed
  BY ONLY <1>1, <1>2, <1>3, <1>4, <1>5 DEF WorkType
<1> QED BY <1>1, <1>3, <1>6 DEF Goes, Advances

\* The top of the loop.
LEMMA LoopLooksKeeps == ASSUME RevisionInv, NEW offered \in BOOLEAN, LoopLooks(offered)
                        PROVE  RevisionInv'
<1>1. desk.runner # "none" /\ UNCHANGED <<around, ledger>>
  BY DEF LoopLooks
<1>2. CASE Pending(work) /\ ~offered
  <2>1. OwnPause(InputRequired(work), PauseId(work, "needs-input"))
    BY <1>2 DEF LoopLooks, Pending
  <2> QED BY <1>1, <1>2, <2>1, GoesWaiting, OwnPauseAdvances, LoopAdvancesKeeps DEF Reasons
<1>3. CASE ~(Pending(work) /\ ~offered) /\ work.owed.status = "needs_input"
  <2>1. OwnPause(work, PauseId(work, "needs-input"))
    BY <1>3 DEF LoopLooks
  <2> QED BY <1>1, <2>1, GoesAsItIs, OwnPauseAdvances, LoopAdvancesKeeps DEF Reasons
<1>4. CASE /\ ~(Pending(work) /\ ~offered)
           /\ work.owed.status # "needs_input"
           /\ desk.asked
  <2>1. UserPause(work)
    BY <1>4 DEF LoopLooks
  <2> QED BY <1>1, <2>1, GoesAsItIs, UserPauseAdvances, LoopAdvancesKeeps
<1>5. CASE /\ ~(Pending(work) /\ ~offered)
           /\ work.owed.status # "needs_input"
           /\ ~desk.asked
  <2>1. desk \in DeskType /\ heard \subseteq PauseIds /\ desk.by \in PauseIds
    BY DEF RevisionInv, RevisionTypeOK, DeskType
  <2>2. /\ work' = work /\ heard' = heard
        /\ desk' = [desk EXCEPT !.runner = "step"]
    BY <1>5 DEF LoopLooks
  <2>3. desk' = [desk EXCEPT !.runner = "step", !.asked = FALSE, !.by = desk.by]
    BY <1>5, <2>1, <2>2 DEF DeskType
  <2>4. LoopAdvances
    BY <1>1, <2>1, <2>2, <2>3, GoesAsItIs DEF LoopAdvances, Goes, Runners
  <2> QED BY <2>4, LoopAdvancesKeeps
<1> QED BY <1>2, <1>3, <1>4, <1>5

\* A step that sends nothing.
LEMMA LoopReadsKeeps == ASSUME RevisionInv, NEW v \in Verdict, LoopReads(v)
                        PROVE  RevisionInv'
BY GoesAsItIs, StepClosesAdvances, LoopAdvancesKeeps DEF LoopReads, RunnerInStep

\* An action, with nothing owed.
LEMMA LoopActsKeeps ==
    ASSUME RevisionInv, NEW k \in Undo, NEW v \in Verdict, LoopActs(k, v)
    PROVE  RevisionInv'
<1>1. /\ desk.runner # "none" /\ UNCHANGED <<around, ledger>>
      /\ StepCloses(Dispatched(work, k, FALSE), Closing(k, v))
  BY DEF LoopActs, RunnerInStep
<1>2. Closing(k, v) \in Verdict
  BY DEF Closing, Verdict
<1> QED BY <1>1, <1>2, GoesDispatched, StepClosesAdvances, LoopAdvancesKeeps

\* The action that undoes, whatever comes of it.
LEMMA LoopUndoesKeeps ==
    ASSUME RevisionInv, NEW k \in Undo, NEW ok \in BOOLEAN, NEW v \in Verdict,
           LoopUndoes(k, ok, v)
    PROVE  RevisionInv'
<1> DEFINE w == Dispatched(work, k, ok)
<1>1. desk.runner # "none" /\ UNCHANGED <<around, ledger>>
  BY DEF LoopUndoes, RunnerInStep
<1>2. Goes(w)
  BY <1>1, GoesDispatched
<1>3. Closing(k, v) \in Verdict
  BY DEF Closing, Verdict
<1>4. IF desk.asked THEN StepCloses(w, Closing(k, v))
      ELSE OwnPause(w, PauseId(work, "attempt-closed"))
  BY DEF LoopUndoes
<1> HIDE DEF w
<1>5. CASE desk.asked
  BY <1>1, <1>2, <1>3, <1>4, <1>5, StepClosesAdvances, LoopAdvancesKeeps
<1>6. CASE ~desk.asked
  BY <1>1, <1>2, <1>4, <1>6, OwnPauseAdvances, LoopAdvancesKeeps DEF Reasons
<1> QED BY <1>5, <1>6

\* The pause of an action that is turned down.
LEMMA TurnedDownKeeps ==
    ASSUME RevisionInv, desk.runner # "none", Pending(work), NEW why \in Reasons,
           OwnPause(InputRequired(work), PauseId(work, why)),
           UNCHANGED <<around, ledger>>
    PROVE  RevisionInv'
BY GoesWaiting, OwnPauseAdvances, LoopAdvancesKeeps

\* The action that undoes is refused.
LEMMA LoopRefusedKeeps == ASSUME RevisionInv, LoopRefused PROVE RevisionInv'
<1>1. /\ desk.runner # "none" /\ UNCHANGED <<around, ledger>> /\ Pending(work)
      /\ IF desk.asked THEN RunEnds(work, "blocked")
         ELSE OwnPause(InputRequired(work), PauseId(work, "attempt-rejected"))
  BY DEF LoopRefused, RunnerInStep
<1>2. CASE desk.asked
  BY <1>1, <1>2, GoesAsItIs, RunEndsAdvances, LoopAdvancesKeeps DEF Verdict
<1>3. CASE ~desk.asked
  BY <1>1, <1>3, TurnedDownKeeps DEF Reasons
<1> QED BY <1>2, <1>3

\* A final answer while an effect is owed.
LEMMA LoopConcludesKeeps == ASSUME RevisionInv, LoopConcludes PROVE RevisionInv'
<1>1. /\ desk.runner # "none" /\ UNCHANGED <<around, ledger>> /\ Pending(work)
      /\ IF desk.asked THEN UserPause(work)
         ELSE OwnPause(InputRequired(work), PauseId(work, "action-not-allowed"))
  BY DEF LoopConcludes, RunnerInStep
<1>2. CASE desk.asked
  BY <1>1, <1>2, GoesAsItIs, UserPauseAdvances, LoopAdvancesKeeps
<1>3. CASE ~desk.asked
  BY <1>1, <1>3, TurnedDownKeeps DEF Reasons
<1> QED BY <1>2, <1>3

-----------------------------------------------------------------------------
(* The steps that change what the owners of the revision carry.            *)

\* The environment takes the next revision before any other owner.
LEMMA EnvironmentRevisedKeeps == ASSUME RevisionInv, EnvironmentRevised PROVE RevisionInv'
<1> USE DEF RevisionInv
<1>1. /\ desk' = [desk EXCEPT !.at = "capture"] /\ desk.at = "revise_task"
      /\ around' = [around EXCEPT !.environment = work.revision + 1]
      /\ work' = work /\ ledger' = ledger /\ heard' = heard
  BY DEF EnvironmentRevised, Revising
<1>2. /\ desk' \in DeskType /\ desk'.at = "capture"
      /\ desk'.alive = desk.alive /\ desk'.owner = desk.owner
      /\ desk'.runner = desk.runner /\ desk'.checkpoint = desk.checkpoint
  BY <1>1 DEF RevisionTypeOK, DeskType, Places
<1>3. /\ around' \in [environment : Nat, history : Nat]
      /\ around'.environment = work.revision + 1
      /\ around'.history = around.history
  BY <1>1 DEF RevisionTypeOK, WorkType
<1>4. RevisionTypeOK'
  BY <1>1, <1>2, <1>3 DEF RevisionTypeOK
<1>5. StoreIsOrdered' /\ ConsumedOnce'
  BY <1>1 DEF StoreIsOrdered, Latest, ConsumedOnce
<1>6. OneAtWork' /\ CheckpointIsCurrent' /\ RunIsLatest'
  BY <1>1, <1>2 DEF OneAtWork, CheckpointIsCurrent, RunIsLatest, Paused, Latest, Source, Consumed
<1>7. OwnersOfRevision'
  BY <1>1, <1>2, <1>3 DEF OwnersOfRevision, Latest
<1> QED BY <1>4, <1>5, <1>6, <1>7

\* The candidate of a revision is a paused run of the next revision.
LEMMA CandidateIsNext ==
    ASSUME RevisionTypeOK, Paused, NEW satisfied \in BOOLEAN
    PROVE  /\ Candidate(satisfied) \in WorkType
           /\ Candidate(satisfied).revision = work.revision + 1
           /\ Candidate(satisfied).status = "paused"
<1> DEFINE n == work.revision + 1
           owed == IF Assessed(work, satisfied) = "compensation_required"
                   THEN Owed("pending", work.effect) ELSE NotOwed
<1>1. work \in WorkType /\ work.status = "paused" /\ n \in Nat
  BY DEF RevisionTypeOK, Paused, WorkType
<1>2. owed \in OwedType
  BY <1>1 DEF Owed, NotOwed, NoEffect, Effect, EffectType, OwedType, WorkType
<1>3. Candidate(satisfied) = [work EXCEPT !.revision = n, !.owed = owed]
  BY DEF Candidate
<1> HIDE DEF n, owed
<1>4. /\ Candidate(satisfied) \in WorkType
      /\ Candidate(satisfied).revision = n
      /\ Candidate(satisfied).status = "paused"
  BY ONLY <1>1, <1>2, <1>3 DEF WorkType
<1> QED BY <1>4 DEF n

\* A candidate is ready, or the effect does not allow it.
LEMMA CandidateReadyKeeps ==
    ASSUME RevisionInv, NEW satisfied \in BOOLEAN, CandidateReady(satisfied)
    PROVE  RevisionInv'
<1> USE DEF RevisionInv
<1> DEFINE n == work.revision + 1
           candidate == Candidate(satisfied)
<1>1. /\ desk.alive /\ desk.at = "capture" /\ Paused
      /\ around.environment = n
      /\ work' = work /\ ledger' = ledger /\ heard' = heard
  BY DEF CandidateReady, Revising, OneAtWork, OwnersOfRevision
<1>2. /\ candidate \in WorkType /\ candidate.revision = n
      /\ candidate.status = "paused" /\ n \in Nat
  BY <1>1, CandidateIsNext DEF RevisionTypeOK, WorkType
<1>3. \/ /\ desk' = [desk EXCEPT !.at = "restore", !.code = "effect_reconciliation_required"]
         /\ around' = around
      \/ /\ desk' = [desk EXCEPT !.at = "commit", !.next = candidate]
         /\ around' = [around EXCEPT !.history = n]
  BY DEF CandidateReady, Rejected
<1> HIDE DEF candidate, n
<1>4. /\ desk' \in DeskType
      /\ desk'.alive = desk.alive /\ desk'.owner = desk.owner
      /\ desk'.runner = desk.runner /\ desk'.checkpoint = desk.checkpoint
      /\ around' \in [environment : Nat, history : Nat]
      /\ \/ desk'.at = "restore"
         \/ /\ desk'.at = "commit" /\ desk'.next = candidate
            /\ around'.history = n /\ around'.environment = n
  <2>1. desk \in DeskType /\ around \in [environment : Nat, history : Nat]
    BY DEF RevisionTypeOK
  <2>2. CASE /\ desk' = [desk EXCEPT !.at = "restore", !.code = "effect_reconciliation_required"]
             /\ around' = around
    BY ONLY <2>1, <2>2 DEF DeskType, Places, Codes
  <2>3. CASE /\ desk' = [desk EXCEPT !.at = "commit", !.next = candidate]
             /\ around' = [around EXCEPT !.history = n]
    BY ONLY <1>1, <1>2, <2>1, <2>3 DEF DeskType, Places
  <2> QED BY <1>3, <2>2, <2>3
<1>5. RevisionTypeOK'
  BY <1>1, <1>4 DEF RevisionTypeOK
<1>6. StoreIsOrdered' /\ ConsumedOnce'
  BY <1>1 DEF StoreIsOrdered, Latest, ConsumedOnce
<1>7. OneAtWork' /\ CheckpointIsCurrent' /\ RunIsLatest'
  BY <1>1, <1>4 DEF OneAtWork, CheckpointIsCurrent, RunIsLatest, Paused, Latest, Source, Consumed
<1>8. OwnersOfRevision'
  BY <1>1, <1>2, <1>4 DEF OwnersOfRevision, Latest, n
<1> QED BY <1>5, <1>6, <1>7, <1>8

\* A revision that is over leaves the desk idle.
LEMMA CommandEndsIsIdle ==
    ASSUME desk \in DeskType
    PROVE  /\ CommandEnds \in DeskType /\ CommandEnds.at = "idle"
           /\ CommandEnds.alive = desk.alive /\ CommandEnds.owner = desk.owner
           /\ CommandEnds.runner = desk.runner
           /\ CommandEnds.checkpoint = desk.checkpoint
<1>1. NoWork \in WorkType
  BY DEF NoWork, Work, NoEffect, Effect, NotOwed, Owed, WorkType, OwedType, EffectType, Statuses
<1>2. "" \in Codes
  BY DEF Codes
<1> QED BY <1>1, <1>2 DEF CommandEnds, DeskType, Places

\* A revision that came to nothing: the history, the environment and the run
\* are those of the checkpoint.
LEMMA RestoresKeeps ==
    ASSUME RevisionInv, NEW captured \in BOOLEAN, Restores(captured)
    PROVE  RevisionInv'
<1> USE DEF RevisionInv
<1>1. /\ desk.alive /\ desk.at \in {"restore", "withdraw"} /\ Paused
      /\ desk.owner = "agent" /\ desk.runner = "none"
      /\ desk.checkpoint \in 1 .. Latest /\ work = Source.work
      /\ ledger' = ledger /\ heard' = heard
  BY DEF Restores, Revising, OneAtWork, CheckpointIsCurrent, Paused
<1>2. Source.work = work /\ Source.history = work.revision
  BY <1>1 DEF StoreIsOrdered, Source, Latest
<1>3. /\ work' = work
      /\ around' = [environment |-> work.revision, history |-> work.revision]
      /\ \/ desk' = [desk EXCEPT !.at = "reject"]
         \/ desk' = CommandEnds
  BY <1>2 DEF Restores
<1>4. desk \in DeskType
  BY DEF RevisionTypeOK
<1>5. /\ desk' \in DeskType
      /\ desk'.at \in {"reject", "idle"}
      /\ desk'.alive = desk.alive /\ desk'.owner = desk.owner
      /\ desk'.runner = desk.runner /\ desk'.checkpoint = desk.checkpoint
  <2>1. CASE desk' = [desk EXCEPT !.at = "reject"]
    BY ONLY <1>4, <2>1 DEF DeskType, Places
  <2>2. CASE desk' = CommandEnds
    BY ONLY <1>4, <2>2, CommandEndsIsIdle
  <2> QED BY <1>3, <2>1, <2>2
<1>6. RevisionTypeOK'
  <2>1. work.revision \in Nat
    BY DEF RevisionTypeOK, WorkType
  <2> QED BY <1>1, <1>3, <1>5, <2>1 DEF RevisionTypeOK
<1>7. StoreIsOrdered' /\ ConsumedOnce'
  BY <1>1 DEF StoreIsOrdered, Latest, ConsumedOnce
<1>8. OneAtWork'
  BY <1>1, <1>3, <1>5 DEF OneAtWork, Paused
<1>9. CheckpointIsCurrent'
  BY <1>1, <1>3, <1>5 DEF CheckpointIsCurrent, Paused, Latest, Source, Consumed
<1>10. RunIsLatest'
  BY <1>1, <1>3, <1>5 DEF RunIsLatest, Latest
<1>11. OwnersOfRevision'
  BY <1>1, <1>3, <1>5 DEF OwnersOfRevision, Latest
<1> QED BY <1>6, <1>7, <1>8, <1>9, <1>10, <1>11

\* The end of a revision that is turned down.
LEMMA ReviseRejectsKeeps ==
    ASSUME RevisionInv, NEW stored \in BOOLEAN, ReviseRejects(stored)
    PROVE  RevisionInv'
<1> USE DEF RevisionInv
<1>1. /\ desk.alive /\ desk.at = "reject" /\ Paused
      /\ desk.owner = "agent" /\ desk.runner = "none"
      /\ work' = work /\ around' = around /\ heard' = heard
      /\ desk' = CommandEnds
  BY DEF ReviseRejects, Revising, OneAtWork, Paused
<1>2. desk \in DeskType
  BY DEF RevisionTypeOK
<1>3. /\ desk' \in DeskType /\ desk'.at = "idle"
      /\ desk'.alive = desk.alive /\ desk'.owner = desk.owner
      /\ desk'.runner = desk.runner /\ desk'.checkpoint = desk.checkpoint
  BY <1>1, <1>2, CommandEndsIsIdle
<1>4. /\ ledger' \in LedgerType
      /\ ledger'.saved = ledger.saved /\ ledger'.resumed = ledger.resumed
      /\ ledger'.revised = ledger.revised
  <2>1. desk.code \in Outcomes /\ ledger \in LedgerType
    BY DEF RevisionTypeOK, DeskType, Outcomes
  <2>2. ledger' = ledger \/ ledger' = [ledger EXCEPT !.outcome[desk.command] = desk.code]
    BY DEF ReviseRejects
  <2> QED BY <2>1, <2>2 DEF LedgerType
<1>5. RevisionTypeOK'
  BY <1>1, <1>3, <1>4 DEF RevisionTypeOK
<1>6. StoreIsOrdered' /\ ConsumedOnce'
  BY <1>4 DEF StoreIsOrdered, Latest, ConsumedOnce
<1>7. OneAtWork'
  BY <1>1, <1>3 DEF OneAtWork, Paused
<1>8. CheckpointIsCurrent'
  BY <1>1, <1>3, <1>4 DEF CheckpointIsCurrent, Paused, Latest, Source, Consumed
<1>9. RunIsLatest'
  BY <1>1, <1>3, <1>4 DEF RunIsLatest, Latest
<1>10. OwnersOfRevision'
  BY <1>1, <1>3, <1>4 DEF OwnersOfRevision, Latest
<1> QED BY <1>5, <1>6, <1>7, <1>8, <1>9, <1>10

-----------------------------------------------------------------------------
(* The commands that use up a checkpoint, and the pause that makes one.    *)

\* A run that starts again has no checkpoint, and is as it was.
LEMMA ResumeReturnsKeeps == ASSUME RevisionInv, NEW v \in Verdict, ResumeReturns(v)
                            PROVE  RevisionInv'
<1> USE DEF RevisionInv
<1> DEFINE r == IF v = "running" THEN "start" ELSE "none"
<1>1. /\ desk.alive /\ desk.at = "resuming" /\ Paused
      /\ desk.owner = "agent" /\ desk.runner = "none"
      /\ ledger' = ledger /\ around' = around /\ heard' = heard
      /\ work' = [work EXCEPT !.status = v]
      /\ desk' = [desk EXCEPT !.at = "idle", !.runner = r]
  BY DEF ResumeReturns, OneAtWork, Paused
<1>2. v # "paused" /\ v \in Statuses
  BY DEF Verdict, Statuses
<1>3. r \in Runners /\ (r # "none" => v = "running")
  BY DEF Runners
<1> HIDE DEF r
<1>4. /\ work' \in WorkType /\ work'.status = v
      /\ work'.revision = work.revision /\ work'.owed = work.owed
  BY <1>1, <1>2 DEF RevisionTypeOK, WorkType
<1>5. /\ desk' \in DeskType /\ desk'.at = "idle" /\ desk'.runner = r
      /\ desk'.alive /\ desk'.owner = "agent"
  BY <1>1, <1>3 DEF RevisionTypeOK, DeskType, Places
<1>6. RevisionTypeOK'
  BY <1>1, <1>4, <1>5 DEF RevisionTypeOK
<1>7. StoreIsOrdered' /\ ConsumedOnce'
  BY <1>1 DEF StoreIsOrdered, Latest, ConsumedOnce
<1>8. OneAtWork' /\ CheckpointIsCurrent'
  BY <1>2, <1>3, <1>4, <1>5 DEF OneAtWork, CheckpointIsCurrent, Paused
<1>9. RunIsLatest'
  BY <1>1, <1>4 DEF RunIsLatest, Follows, Latest
<1>10. OwnersOfRevision'
  BY <1>1, <1>4, <1>5 DEF OwnersOfRevision
<1> QED BY <1>6, <1>7, <1>8, <1>9, <1>10

\* The user hands control back, and the run is as it was.
LEMMA ReturnControlKeeps == ASSUME RevisionInv, NEW v \in Verdict, ReturnControl(v)
                            PROVE  RevisionInv'
<1> USE DEF RevisionInv
<1> DEFINE r == IF v = "running" THEN "start" ELSE "none"
<1>1. /\ desk.alive /\ desk.at = "idle" /\ desk.owner = "user"
      /\ ledger' = ledger /\ around' = around /\ heard' = heard
      /\ work' = [work EXCEPT !.status = v]
      /\ desk' = [desk EXCEPT !.owner = "agent", !.checkpoint = 0, !.runner = r]
  BY DEF ReturnControl
<1>2. v # "paused" /\ v \in Statuses
  BY DEF Verdict, Statuses
<1>3. r \in Runners /\ (r # "none" => v = "running")
  BY DEF Runners
<1> HIDE DEF r
<1>4. /\ work' \in WorkType /\ work'.status = v
      /\ work'.revision = work.revision /\ work'.owed = work.owed
  BY <1>1, <1>2 DEF RevisionTypeOK, WorkType
<1>5. /\ desk' \in DeskType /\ desk'.at = "idle" /\ desk'.runner = r
      /\ desk'.alive /\ desk'.owner = "agent"
  BY <1>1, <1>3 DEF RevisionTypeOK, DeskType, Places
<1>6. RevisionTypeOK'
  BY <1>1, <1>4, <1>5 DEF RevisionTypeOK
<1>7. StoreIsOrdered' /\ ConsumedOnce'
  BY <1>1 DEF StoreIsOrdered, Latest, ConsumedOnce
<1>8. OneAtWork' /\ CheckpointIsCurrent'
  BY <1>2, <1>3, <1>4, <1>5 DEF OneAtWork, CheckpointIsCurrent, Paused
<1>9. RunIsLatest'
  BY <1>1, <1>4 DEF RunIsLatest, Follows, Latest
<1>10. OwnersOfRevision'
  BY <1>1, <1>4, <1>5 DEF OwnersOfRevision
<1> QED BY <1>6, <1>7, <1>8, <1>9, <1>10

\* A failed return leaves a run that nobody runs.
LEMMA ReturnFailsKeeps == ASSUME RevisionInv, ReturnFails PROVE RevisionInv'
<1> USE DEF RevisionInv
<1>1. /\ desk.alive /\ desk.at = "idle" /\ desk.owner = "user"
      /\ ledger' = ledger /\ around' = around /\ heard' = heard /\ desk' = desk
      /\ work' = [work EXCEPT !.status = "running"]
  BY DEF ReturnFails
<1>2. /\ work' \in WorkType /\ work'.status = "running"
      /\ work'.revision = work.revision /\ work'.owed = work.owed
  BY <1>1 DEF RevisionTypeOK, WorkType, Statuses
<1>3. RevisionTypeOK'
  BY <1>1, <1>2 DEF RevisionTypeOK
<1>4. StoreIsOrdered' /\ ConsumedOnce'
  BY <1>1 DEF StoreIsOrdered, Latest, ConsumedOnce
<1>5. OneAtWork' /\ CheckpointIsCurrent'
  BY <1>1, <1>2 DEF OneAtWork, CheckpointIsCurrent, Paused
<1>6. RunIsLatest'
  BY <1>1, <1>2 DEF RunIsLatest, Follows, Latest
<1>7. OwnersOfRevision'
  BY <1>1, <1>2 DEF OwnersOfRevision
<1> QED BY <1>3, <1>4, <1>5, <1>6, <1>7

\* The resume transaction uses up a checkpoint that nothing has used.
LEMMA ResumeConsumesKeeps ==
    ASSUME RevisionInv, AtDesk, Paused, NEW at \in {"resuming", "granting"},
           ResumeConsumes(at), UNCHANGED <<work, around, heard>>
    PROVE  RevisionInv'
<1> USE DEF RevisionInv
<1>1. /\ desk.alive /\ desk.at = "idle" /\ desk.owner = "agent"
      /\ desk.runner = "none" /\ work.status = "paused"
      /\ work' = work /\ around' = around /\ heard' = heard
      /\ desk' = [desk EXCEPT !.at = at]
      /\ ledger' = [ledger EXCEPT !.resumed = @ \cup {desk.checkpoint}]
  BY DEF AtDesk, ResumeConsumes, OneAtWork, Paused
<1>2. desk.checkpoint \in 1 .. Latest /\ ~Consumed(desk.checkpoint)
  BY <1>1 DEF CheckpointIsCurrent, Paused
<1>3. /\ desk' \in DeskType /\ desk'.at = at
      /\ desk'.alive = desk.alive /\ desk'.owner = desk.owner
      /\ desk'.runner = desk.runner /\ desk'.checkpoint = desk.checkpoint
  BY <1>1 DEF RevisionTypeOK, DeskType, Places
<1>4. /\ ledger' \in LedgerType
      /\ ledger'.saved = ledger.saved
      /\ ledger'.resumed = ledger.resumed \cup {desk.checkpoint}
      /\ ledger'.revised = ledger.revised
  BY <1>1 DEF RevisionTypeOK, DeskType, LedgerType
<1>5. RevisionTypeOK'
  BY <1>1, <1>3, <1>4 DEF RevisionTypeOK
<1>6. StoreIsOrdered'
  BY <1>2, <1>4 DEF StoreIsOrdered, Latest
<1>7. ConsumedOnce'
  BY <1>2, <1>4 DEF ConsumedOnce, Consumed
<1>8. OneAtWork'
  BY <1>1, <1>3 DEF OneAtWork, Paused
<1>9. CheckpointIsCurrent'
  BY <1>1, <1>3, <1>4 DEF CheckpointIsCurrent, Paused, Latest, Source
<1>10. RunIsLatest'
  BY <1>1, <1>3, <1>4 DEF RunIsLatest, Latest
<1>11. OwnersOfRevision'
  BY <1>1, <1>3 DEF OwnersOfRevision
<1> QED BY <1>5, <1>6, <1>7, <1>8, <1>9, <1>10, <1>11

\* The transaction of a resume, and that of a takeover.
LEMMA ResumeCommitsKeeps == ASSUME RevisionInv, ResumeCommits PROVE RevisionInv'
BY ResumeConsumesKeeps DEF ResumeCommits

\* A takeover uses the checkpoint up as a resume does.
LEMMA TakeOverCommitsKeeps == ASSUME RevisionInv, TakeOverCommits PROVE RevisionInv'
BY ResumeConsumesKeeps DEF TakeOverCommits

\* A pause saves the run, as the latest and free for one use.
LEMMA PauseCommitsKeeps == ASSUME RevisionInv, PauseCommits PROVE RevisionInv'
<1> USE DEF RevisionInv
<1> DEFINE s == Saved(work, around.history, desk.by)
           k == Latest + 1
<1>1. /\ desk.alive /\ desk.runner = "settle" /\ desk.owner = "agent"
      /\ desk.at \in {"idle", "pausing"} /\ work.status = "running"
      /\ around' = around /\ heard' = heard
      /\ around.history = work.revision /\ around.environment = work.revision
      /\ work \in WorkType /\ work.revision \in Nat /\ desk.by \in PauseIds
  BY DEF PauseCommits, OneAtWork, OwnersOfRevision, RevisionTypeOK, DeskType, WorkType
<1>2. /\ s \in SavedType /\ s.work.status = "paused"
      /\ s.work.revision = work.revision /\ s.work.owed = work.owed
      /\ s = Saved(work, work.revision, desk.by)
      /\ s.work = [work EXCEPT !.status = "paused"]
  BY <1>1, SavedAsPaused DEF Saved
<1>3. /\ ledger' = [ledger EXCEPT !.saved = Append(@, s)]
      /\ work' = s.work
      /\ desk' = [desk EXCEPT !.runner = "none", !.checkpoint = k]
  BY <1>2 DEF PauseCommits
<1> HIDE DEF s, k
<1>4. /\ ledger'.saved = Append(ledger.saved, s)
      /\ ledger'.resumed = ledger.resumed /\ ledger'.revised = ledger.revised
      /\ ledger'.outcome = ledger.outcome
  BY <1>3 DEF RevisionTypeOK, LedgerType
<1>5. /\ Latest \in Nat /\ k = Latest + 1 /\ Latest' = k
      /\ ledger'.saved \in Seq(SavedType)
      /\ ledger'.saved[k] = s
      /\ \A i \in 1 .. Latest : ledger'.saved[i] = ledger.saved[i]
  BY <1>2, <1>4, StoreAppends DEF k
<1>6. ledger' \in LedgerType
  BY <1>3, <1>4, <1>5 DEF RevisionTypeOK, LedgerType
<1>7. /\ desk' \in DeskType /\ desk'.at = desk.at
      /\ desk'.alive /\ desk'.owner = "agent"
      /\ desk'.runner = "none" /\ desk'.checkpoint = k
  <2>1. desk \in DeskType /\ k \in Nat
    BY <1>5 DEF RevisionTypeOK
  <2> QED BY ONLY <1>1, <1>3, <2>1 DEF DeskType, Runners
<1>8. work' \in WorkType
  BY <1>2, <1>3 DEF SavedType
<1>9. RevisionTypeOK'
  BY <1>1, <1>6, <1>7, <1>8 DEF RevisionTypeOK
<1>10. \A i \in 1 .. Latest : Follows(ledger.saved[i].work, work)
  BY <1>1 DEF RunIsLatest
<1>11. StoreIsOrdered'
  BY <1>1, <1>2, <1>4, <1>10, StoreGrows
<1>12. ConsumedOnce'
  BY <1>4 DEF ConsumedOnce
<1>13. OneAtWork'
  BY <1>1, <1>2, <1>3, <1>7 DEF OneAtWork, Paused
<1>14. CheckpointIsCurrent'
  <2>1. k \notin ledger.resumed /\ ~\E r \in ledger.revised : r[1] = k
    BY <1>5 DEF StoreIsOrdered
  <2>2. k \in 1 .. Latest'
    BY ONLY <1>5
  <2>3. work' = ledger'.saved[k].work
    BY ONLY <1>3, <1>5
  <2>4. k \notin ledger'.resumed /\ ~\E r \in ledger'.revised : r[1] = k
    BY ONLY <1>4, <2>1
  <2> QED BY ONLY <1>1, <1>5, <1>7, <2>2, <2>3, <2>4
          DEF CheckpointIsCurrent, Paused, Source, Consumed
<1>15. RunIsLatest'
  <2>1. k \in 1 .. Latest'
    BY ONLY <1>5
  <2>2. \A i \in 1 .. Latest' : Follows(ledger'.saved[i].work, ledger'.saved[k].work)
    BY ONLY <1>5, <1>11, <2>1 DEF StoreIsOrdered
  <2> QED BY ONLY <1>3, <1>5, <2>2 DEF RunIsLatest
<1>16. OwnersOfRevision'
  BY <1>1, <1>2, <1>3, <1>7 DEF OwnersOfRevision
<1> QED BY <1>9, <1>11, <1>12, <1>13, <1>14, <1>15, <1>16

\* A committed revision saves the run that is to come.
LEMMA ReviseCommitsKeeps == ASSUME RevisionInv, ReviseCommits PROVE RevisionInv'
<1> USE DEF RevisionInv
<1> DEFINE b == ledger.saved[desk.checkpoint].by
           s == Saved(desk.next, around.history, b)
           k == Latest + 1
           n == desk.next
<1>1. /\ desk.alive /\ desk.at = "commit" /\ work.status = "paused"
      /\ desk.owner = "agent" /\ desk.runner = "none"
      /\ around' = around /\ heard' = heard /\ work' = work
      /\ desk' = [desk EXCEPT !.at = "install"]
  BY DEF ReviseCommits, Revising, OneAtWork, Paused
<1>2. /\ around.history = n.revision /\ around.environment = n.revision
      /\ n.revision = work.revision + 1 /\ n.status = "paused"
      /\ n \in WorkType /\ n.revision \in Nat /\ work.revision \in Nat
  BY <1>1 DEF OwnersOfRevision, RevisionTypeOK, DeskType, WorkType
<1>3. /\ desk.checkpoint \in 1 .. Latest /\ desk.checkpoint = Latest
      /\ ~Consumed(desk.checkpoint) /\ work = Source.work
  BY <1>1 DEF CheckpointIsCurrent, Paused
<1>4. b \in PauseIds
  BY <1>3, SavedHasType
<1>5. /\ s \in SavedType /\ s.work = n
      /\ s = Saved(n, n.revision, b)
  BY <1>2, <1>4, SavedAsPaused
<1>6. /\ ledger'.saved = Append(ledger.saved, s)
      /\ ledger'.resumed = ledger.resumed
      /\ ledger'.revised = ledger.revised \cup {<<desk.checkpoint, Latest + 1>>}
      /\ ledger' = [ledger EXCEPT !.saved = ledger'.saved,
                       !.revised = ledger'.revised, !.outcome = ledger'.outcome]
      /\ ledger'.outcome = [ledger.outcome EXCEPT ![desk.command] = "revised"]
  BY DEF ReviseCommits, RevisionConsumes, RevisionTypeOK, LedgerType
<1> HIDE DEF b, s, k, n
<1>7. /\ Latest \in Nat /\ k = Latest + 1 /\ Latest' = k /\ k \in Nat
      /\ ledger'.saved \in Seq(SavedType)
      /\ ledger'.saved[k] = s
      /\ \A i \in 1 .. Latest : ledger'.saved[i] = ledger.saved[i]
  <2>1. RevisionTypeOK /\ k = Latest + 1
    BY DEF k
  <2>2. /\ Latest \in Nat /\ Latest' = Latest + 1
        /\ ledger'.saved \in Seq(SavedType)
        /\ ledger'.saved[Latest + 1] = s
        /\ \A i \in 1 .. Latest : ledger'.saved[i] = ledger.saved[i]
    BY ONLY <1>5, <1>6, <2>1, StoreAppends
  <2>3. k \in Nat
    BY ONLY <2>1, <2>2
  <2> QED BY <2>1, <2>2, <2>3
<1>8. ledger' \in LedgerType
  <2>1. ledger \in LedgerType /\ desk.checkpoint \in Nat /\ "revised" \in Outcomes
    BY <1>3 DEF RevisionTypeOK, DeskType, Outcomes
  <2>2. ledger'.revised \in SUBSET (Nat \X Nat)
    BY <1>6, <1>7, <2>1 DEF LedgerType
  <2>3. ledger'.outcome \in [Revises -> Outcomes]
    BY <1>6, <2>1 DEF LedgerType
  <2> QED BY ONLY <1>6, <1>7, <2>1, <2>2, <2>3 DEF LedgerType
<1>9. /\ desk' \in DeskType /\ desk'.at = "install"
      /\ desk'.alive /\ desk'.owner = "agent"
      /\ desk'.runner = "none" /\ desk'.checkpoint = desk.checkpoint
      /\ desk'.next = n
  BY <1>1 DEF RevisionTypeOK, DeskType, Places, n
<1>10. RevisionTypeOK'
  BY <1>1, <1>8, <1>9 DEF RevisionTypeOK
<1>11. \A i \in 1 .. Latest : Follows(ledger.saved[i].work, n)
  <2>1. \A i \in 1 .. Latest : /\ ledger.saved[i].work.revision <= work.revision
                               /\ ledger.saved[i].work.revision \in Nat
    BY <1>1, SavedHasType DEF RunIsLatest, Follows
  <2> QED BY ONLY <1>2, <2>1 DEF Follows
<1>12. StoreIsOrdered'
  <2>1. \A r \in ledger'.revised : r \in ledger.revised \/ r[1] \in 1 .. Latest
    BY ONLY <1>3, <1>6
  <2> QED BY <1>2, <1>4, <1>5, <1>6, <1>11, <2>1, StoreGrows
<1>13. ConsumedOnce'
  BY <1>3, <1>6 DEF ConsumedOnce, Consumed
<1>14. OneAtWork'
  BY <1>1, <1>9 DEF OneAtWork, Paused
<1>15. CheckpointIsCurrent'
  <2>1. desk.checkpoint \in 1 .. Latest' /\ desk.checkpoint = Latest' - 1
    BY ONLY <1>3, <1>7
  <2>2. ledger'.saved[desk.checkpoint] = ledger.saved[desk.checkpoint]
    BY ONLY <1>3, <1>7
  <2> QED BY <1>1, <1>3, <1>9, <2>1, <2>2 DEF CheckpointIsCurrent, Paused, Source
<1>16. RunIsLatest'
  BY <1>9 DEF RunIsLatest
<1>17. OwnersOfRevision'
  <2>1. ledger'.saved[Latest'].work = n /\ Latest' > 0
    BY ONLY <1>5, <1>7
  <2>2. Latest' \notin ledger'.resumed
    BY <1>6, <1>7 DEF StoreIsOrdered
  <2> QED BY <1>1, <1>2, <1>9, <2>1, <2>2 DEF OwnersOfRevision
<1> QED BY <1>10, <1>12, <1>13, <1>14, <1>15, <1>16, <1>17

\* What was committed becomes the run, with a checkpoint of its own.
LEMMA ReviseInstallsKeeps == ASSUME RevisionInv, ReviseInstalls PROVE RevisionInv'
<1> USE DEF RevisionInv
<1>1. /\ desk.alive /\ desk.at = "install"
      /\ desk.owner = "agent" /\ desk.runner = "none"
      /\ around' = around /\ heard' = heard /\ ledger' = ledger
      /\ work' = desk.next
      /\ desk' = [CommandEnds EXCEPT !.checkpoint = Latest]
  BY DEF ReviseInstalls, Revising, OneAtWork, Paused
<1>2. /\ around.history = desk.next.revision /\ around.environment = desk.next.revision
      /\ desk.next.status = "paused"
      /\ ledger.saved[Latest].work = desk.next
      /\ Latest > 0 /\ Latest \in Nat
  BY <1>1 DEF OwnersOfRevision, RevisionTypeOK, LedgerType, Latest
<1>3. desk \in DeskType /\ desk.next \in WorkType
  BY DEF RevisionTypeOK, DeskType
<1>4. /\ CommandEnds \in DeskType /\ CommandEnds.at = "idle"
      /\ CommandEnds.alive = desk.alive /\ CommandEnds.owner = desk.owner
      /\ CommandEnds.runner = desk.runner
  BY <1>3, CommandEndsIsIdle
<1>5. /\ desk' \in DeskType /\ desk'.at = "idle"
      /\ desk'.alive /\ desk'.owner = "agent"
      /\ desk'.runner = "none" /\ desk'.checkpoint = Latest
  BY ONLY <1>1, <1>2, <1>4 DEF DeskType
<1>6. RevisionTypeOK'
  BY <1>1, <1>3, <1>5 DEF RevisionTypeOK
<1>7. StoreIsOrdered' /\ ConsumedOnce'
  BY <1>1 DEF StoreIsOrdered, Latest, ConsumedOnce
<1>8. OneAtWork'
  BY <1>5 DEF OneAtWork
<1>9. CheckpointIsCurrent'
  <2>1. Latest \in 1 .. Latest
    BY <1>2
  <2>2. ~Consumed(Latest)
    <3>1. Latest \notin ledger.resumed
      BY <1>1 DEF OwnersOfRevision
    <3> QED BY <1>2, <3>1 DEF Consumed, StoreIsOrdered
  <2> QED BY <1>1, <1>2, <1>5, <2>1, <2>2 DEF CheckpointIsCurrent, Source, Consumed, Latest
<1>10. RunIsLatest'
  <2>1. \A i \in 1 .. Latest : Follows(ledger.saved[i].work, ledger.saved[Latest].work)
    BY <1>2 DEF StoreIsOrdered
  <2> QED BY <1>1, <1>2, <2>1 DEF RunIsLatest, Latest
<1>11. OwnersOfRevision'
  BY <1>1, <1>2, <1>5 DEF OwnersOfRevision
<1> QED BY <1>6, <1>7, <1>8, <1>9, <1>10, <1>11

-----------------------------------------------------------------------------
(* The end of the process, and the recovery in another one.                *)

\* The end of the process leaves the store.
LEMMA DeskCrashesKeeps == ASSUME RevisionInv, DeskCrashes PROVE RevisionInv'
<1> USE DEF RevisionInv
<1>1. /\ desk' = [IdleDesk EXCEPT !.alive = FALSE] /\ work' = NoWork
      /\ around' = [environment |-> 0, history |-> 0] /\ heard' = {}
      /\ ledger' = ledger
  BY DEF DeskCrashes
<1>2. NoWork \in WorkType
  BY DEF NoWork, Work, NoEffect, Effect, NotOwed, Owed, WorkType, OwedType, EffectType, Statuses
<1>3. NoPause \in PauseIds /\ "" \in Codes
  BY DEF PauseIds, Codes
<1>4. /\ desk' \in DeskType /\ ~desk'.alive /\ desk'.at = "idle"
      /\ desk'.owner = "agent" /\ desk'.runner = "none"
  BY <1>1, <1>2, <1>3 DEF IdleDesk, DeskType, Runners, Places
<1>5. RevisionTypeOK'
  BY <1>1, <1>2, <1>4 DEF RevisionTypeOK
<1>6. StoreIsOrdered' /\ ConsumedOnce'
  BY <1>1 DEF StoreIsOrdered, Latest, ConsumedOnce
<1>7. OneAtWork' /\ CheckpointIsCurrent' /\ RunIsLatest' /\ OwnersOfRevision'
  BY <1>4 DEF OneAtWork, CheckpointIsCurrent, RunIsLatest, OwnersOfRevision
<1> QED BY <1>5, <1>6, <1>7

\* The latest checkpoint is a run that goes on where it was paused.
LEMMA DeskRecoversKeeps == ASSUME RevisionInv, DeskRecovers PROVE RevisionInv'
<1> USE DEF RevisionInv
<1> DEFINE s == ledger.saved[Latest]
<1>1. /\ Latest > 0 /\ ~Consumed(Latest)
      /\ work' = s.work /\ heard' = {s.by} \ {NoPause}
      /\ around' = [environment |-> s.work.revision, history |-> s.history]
      /\ desk' = [IdleDesk EXCEPT !.checkpoint = Latest]
      /\ ledger' = ledger
  BY DEF DeskRecovers
<1>2. Latest \in Nat /\ Latest \in 1 .. Latest
  BY <1>1, SavedHasType
<1>3. /\ s.work \in WorkType /\ s.work.revision \in Nat
      /\ s.by \in PauseIds /\ s.work.status = "paused"
      /\ s.history = s.work.revision
  BY <1>2, SavedHasType DEF StoreIsOrdered
<1>4. \A i \in 1 .. Latest : Follows(ledger.saved[i].work, s.work)
  BY <1>2 DEF StoreIsOrdered
<1> HIDE DEF s
<1>5. NoWork \in WorkType
  BY DEF NoWork, Work, NoEffect, Effect, NotOwed, Owed, WorkType, OwedType, EffectType, Statuses
<1>6. NoPause \in PauseIds /\ "" \in Codes
  BY DEF PauseIds, Codes
<1>7. /\ desk' \in DeskType /\ desk'.alive /\ desk'.at = "idle"
      /\ desk'.owner = "agent" /\ desk'.runner = "none"
      /\ desk'.checkpoint = Latest
  BY <1>1, <1>2, <1>5, <1>6 DEF IdleDesk, DeskType, Runners, Places
<1>8. RevisionTypeOK'
  BY <1>1, <1>3, <1>7 DEF RevisionTypeOK
<1>9. StoreIsOrdered' /\ ConsumedOnce'
  BY <1>1 DEF StoreIsOrdered, Latest, ConsumedOnce
<1>10. OneAtWork'
  BY <1>7 DEF OneAtWork
<1>11. CheckpointIsCurrent'
  BY <1>1, <1>2, <1>7 DEF CheckpointIsCurrent, Source, Consumed, Latest, s
<1>12. RunIsLatest'
  BY <1>1, <1>4 DEF RunIsLatest, Latest
<1>13. OwnersOfRevision'
  BY <1>1, <1>3, <1>7 DEF OwnersOfRevision
<1> QED BY <1>8, <1>9, <1>10, <1>11, <1>12, <1>13

-----------------------------------------------------------------------------
(* The theorems.                                                           *)

\* At the start nothing is saved, and every owner carries the first revision.
LEMMA RevisionStarts == ASSUME RevisionInit PROVE RevisionInv
<1>1. NoEffect \in EffectType /\ NotOwed \in OwedType
  BY DEF NoEffect, Effect, NotOwed, Owed, OwedType, EffectType
<1>2. /\ NoWork \in WorkType
      /\ work \in WorkType /\ work.status = "running" /\ work.revision = 1
  BY <1>1 DEF RevisionInit, Work, NoWork, WorkType, Statuses
<1>3. NoPause \in PauseIds /\ "" \in Codes
  BY DEF PauseIds, Codes
<1>4. /\ desk \in DeskType /\ desk.alive /\ desk.at = "idle"
      /\ desk.owner = "agent" /\ desk.runner = "start"
  BY <1>2, <1>3 DEF RevisionInit, IdleDesk, DeskType, Runners, Places
<1>5. /\ ledger.saved = <<>> /\ ledger.resumed = {} /\ ledger.revised = {}
      /\ ledger \in LedgerType
  <2>1. [c \in Revises |-> "none"] \in [Revises -> Outcomes]
    BY DEF Outcomes
  <2> QED BY <2>1 DEF RevisionInit, LedgerType
<1>6. Latest = 0
  BY <1>5 DEF Latest
<1>7. RevisionTypeOK
  BY <1>2, <1>4, <1>5 DEF RevisionTypeOK, RevisionInit
<1>8. StoreIsOrdered /\ ConsumedOnce
  BY <1>5, <1>6 DEF StoreIsOrdered, ConsumedOnce
<1>9. OneAtWork /\ CheckpointIsCurrent /\ RunIsLatest
  BY <1>2, <1>4, <1>6 DEF OneAtWork, CheckpointIsCurrent, RunIsLatest, Paused
<1>10. OwnersOfRevision
  BY <1>2, <1>4 DEF OwnersOfRevision, RevisionInit
<1> QED BY <1>7, <1>8, <1>9, <1>10 DEF RevisionInv

\* Each step keeps the invariant.
LEMMA RevisionKeeps == ASSUME RevisionInv, [RevisionNext]_revisionVars PROVE RevisionInv'
<1>1. ASSUME LoopMoves PROVE RevisionInv'
  BY <1>1, LoopLooksKeeps, LoopRefusedKeeps, LoopConcludesKeeps, LoopReadsKeeps,
     LoopActsKeeps, LoopUndoesKeeps DEF LoopMoves
<1>2. ASSUME CommandMoves PROVE RevisionInv'
  BY <1>2, AsksPauseKeeps, PauseCommitsKeeps, ResumeCommitsKeeps, TakeOverCommitsKeeps,
     TakeOverReturnsKeeps, ReturnFailsKeeps, ResumeReturnsKeeps, ReturnControlKeeps,
     DeskCrashesKeeps, DeskRecoversKeeps DEF CommandMoves
<1>3. ASSUME ReviseMoves PROVE RevisionInv'
  BY <1>3, ReviseBeginsKeeps, PauseAwaitedKeeps, ReviseLoadsKeeps, EnvironmentRevisedKeeps,
     CaptureFailsKeeps, ReviseCommitsKeeps, ReviseCommitFailsKeeps, ReviseInstallsKeeps,
     ReviseCompilesKeeps, CandidateReadyKeeps, RestoresKeeps, ReviseRejectsKeeps
     DEF ReviseMoves
<1>4. CASE UNCHANGED revisionVars
  BY <1>4 DEF revisionVars, RevisionInv, RevisionTypeOK, StoreIsOrdered, OneAtWork,
     CheckpointIsCurrent, RunIsLatest, OwnersOfRevision, ConsumedOnce, Latest, Paused,
     Source, Consumed
<1> QED BY <1>1, <1>2, <1>3, <1>4 DEF RevisionNext

\* The invariant holds in every state of the revision, whatever fails.
THEOREM RevisionIsSafe == RevisionSpec => []RevisionInv
BY RevisionStarts, RevisionKeeps, PTL DEF RevisionSpec

\* The run, the desk, the owners, the store and the pauses keep their types.
THEOREM RevisionTypeSafe == RevisionSpec => []RevisionTypeOK
<1>1. RevisionInv => RevisionTypeOK
  BY DEF RevisionInv
<1> QED BY <1>1, RevisionIsSafe, PTL

\* Whenever no command is under way the run, the environment and the history
\* carry one revision, and a paused run is the one of its checkpoint: whatever
\* step of a revision failed (public_session.py:740-942, 1081-1107).
THEOREM RevisionStaysOne == RevisionSpec => []RevisionIsOne
<1>1. RevisionInv => RevisionIsOne
  BY DEF RevisionInv, OwnersOfRevision, CheckpointIsCurrent, RevisionIsOne, Paused, Source
<1> QED BY <1>1, RevisionIsSafe, PTL

\* A checkpoint is used up by one resume or one revision, though neither
\* transaction looks at the other's outcomes, and an effect that is owed to the
\* current revision is not forgotten (checkpoint.py:641-682, 711-778).
THEOREM RevisionStaysDurable == RevisionSpec => []RevisionIsDurable
<1>1. RevisionInv => ConsumedOnce
  BY DEF RevisionInv
<1>2. RevisionInv => OwedIsRemembered
  BY DEF RevisionInv, RunIsLatest, Follows, OwedIsRemembered
<1> QED BY <1>1, <1>2, RevisionIsSafe, PTL DEF RevisionIsDurable

\* A run that has its runner is nobody else's, and a command that holds the
\* lock works on a paused run of the agent (public_session.py:740-942).
THEOREM RevisionIsAlone == RevisionSpec => []OneAtWork
<1>1. RevisionInv => OneAtWork
  BY DEF RevisionInv
<1> QED BY <1>1, RevisionIsSafe, PTL

\* A revision of the task that was committed is not taken back: the run is
\* never of an older revision than a checkpoint, except while the revision
\* just committed is installed.
CommittedIsTaken ==
    desk.alive /\ desk.at # "install" =>
        \A i \in 1 .. Latest : ledger.saved[i].work.revision <= work.revision

\* Neither a failed step, a takeover nor a recovery takes back a committed
\* revision (public_session.py:740-942, checkpoint.py:711-778).
THEOREM RevisionIsKept == RevisionSpec => []CommittedIsTaken
<1>1. RevisionInv => CommittedIsTaken
  BY DEF RevisionInv, RunIsLatest, Follows, CommittedIsTaken
<1> QED BY <1>1, RevisionIsSafe, PTL
-----------------------------------------------------------------------------
(* The world: what is known of a dispatch and its effect.                  *)

LoopPlaces ==
    {"start", "idle", "refresh", "blocked", "ended", "acquire", "bound", "probe", "step",
     "recover", "health", "health_probe", "final"}

Purposes == {"reset", "observe", "refresh", "post", "recover", "final"}

\* The fields of the records, and the values of those that matter.
ActShape(m) ==
    m \in [at : LoopPlaces, n : 0 .. MaxDispatches, binding : {m.binding}, needs : {m.needs},
           status : {"not_sent", "sent", "unknown"}, faulty : {m.faulty}]

AcqShape(q) ==
    q \in [at : {"none", "ask", "frame"}, round : {q.round}, kind : {q.kind},
           requested : {q.requested}, route : {q.route}, then : Purposes, plan : {q.plan},
           asked : {q.asked}, results : {q.results}, layer : {q.layer}]

AdShape(d) ==
    d \in [dom : {d.dom}, visual : {d.visual}, pend : {d.pend}, pendFor : {d.pendFor},
           before : {d.before}, err : {d.err}, final : {d.final}]

PageShape(p) ==
    p \in [v : Nat, drift : {p.drift}, serial : {p.serial}, landed : [Sends -> Nat],
           out : SUBSET Sends]

CommandNames == {"capture", "probe", "step", "final", "health"}

Commands == [name : CommandNames, n : 0 .. MaxDispatches, waited : BOOLEAN]

OwnerShape(o) ==
    o \in [queue : Seq(Commands), busy : Seq(Commands), timedOut : BOOLEAN,
           cancels : {o.cancels},
           answer : [kind : {o.answer.kind}, frame : {o.answer.frame}]]

IsStep(c, n) == c.name = "step" /\ c.n = n

\* A command of the owner may still carry out the effect of a dispatch.
Steps(o, n) ==
    \/ \E i \in 1 .. Len(o.queue) : IsStep(o.queue[i], n)
    \/ o.busy # <<>> /\ IsStep(o.busy[1], n)

Used(p, o, n) == p.landed[n] # 0 \/ n \in p.out \/ Steps(o, n)

PageOK(p, o) ==
    /\ PageShape(p)
    /\ \A n \in Sends :
         /\ p.landed[n] <= p.v
         /\ n \in p.out \/ Steps(o, n) => p.landed[n] = 0
         /\ Steps(o, n) => n \notin p.out

CommandsOK(o) ==
    /\ OwnerShape(o) /\ Len(o.busy) \in 0 .. 1
    /\ \A i, j \in 1 .. Len(o.queue), n \in 0 .. MaxDispatches :
          IsStep(o.queue[i], n) /\ IsStep(o.queue[j], n) => i = j
    /\ \A i \in 1 .. Len(o.queue), n \in 0 .. MaxDispatches :
          IsStep(o.queue[i], n) => n # 0 /\ (o.busy # <<>> => ~IsStep(o.busy[1], n))
    /\ o.busy # <<>> /\ o.busy[1].name = "step" => o.busy[1].n # 0

Expected(m, q) ==
    IF q.at = "frame" THEN "capture" ELSE IF m.at = "probe" THEN "probe"
    ELSE IF m.at = "step" THEN "step" ELSE IF m.at = "final" THEN "final"
    ELSE IF m.at = "health_probe" THEN "health" ELSE "nothing"

WaitOK(o, m, q) ==
    /\ \A i \in 1 .. Len(o.queue) : o.queue[i].waited =>
          /\ i = Len(o.queue) /\ o.queue[i].name = Expected(m, q)
          /\ IsStep(o.queue[i], o.queue[i].n) => o.queue[i].n = m.n
          /\ o.answer.kind = "none"
    /\ o.busy # <<>> /\ o.busy[1].waited =>
          /\ o.queue = <<>> /\ o.busy[1].name = Expected(m, q)
          /\ IsStep(o.busy[1], o.busy[1].n) => o.busy[1].n = m.n
          /\ o.answer.kind = "none"
    /\ Expected(m, q) = "nothing" => o.answer.kind = "none"

After == {"post", "recover"}

\* what is known of a dispatch that was sent, until it is closed
SentOK(g, p, o, d, m) ==
    /\ ~Steps(o, m.n)
    /\ m.n \in p.out =>
          g = "gym" /\ d.err = "navigation_pending" /\ d.pend = NoFrame
    /\ g = "gym" => d.pend = NoFrame \/ d.pend.seen >= p.landed[m.n]

Fresh(p, results, n) ==
    \A src \in DOMAIN results : results[src].status = "acquired" =>
        n \notin p.out /\ results[src].obs.seen >= p.landed[n]

AcqOK(g, p, o, d, m, q) ==
    /\ q.then = "final" => m.n = 0
    /\ q.then # "final" => \A n \in Sends : Used(p, o, n) => n <= m.n
    /\ q.then \in After => m.n \in Sends /\ m.status \in {"sent", "unknown"}
    /\ q.then \in After /\ m.status = "sent" =>
          /\ SentOK(g, p, o, d, m)
          /\ Fresh(p, q.results, m.n)

\* a frame that is waited for will show it
FrameOK(p, o, m, q) ==
    q.at = "frame" /\ q.then \in After /\ m.status = "sent" =>
        /\ m.n \notin p.out
        /\ o.answer.kind = "frame" => o.answer.frame.seen >= p.landed[m.n]

StepOK(p, o, d, m) ==
    /\ d.pend = NoFrame
    /\ o.answer.kind \notin {"none", "raised"} => ~Steps(o, m.n)
    /\ o.answer.kind \in {"frame", "acquisition_unstable"} => m.n \notin p.out
    /\ o.answer.kind = "frame" => o.answer.frame.seen >= p.landed[m.n]

ActOK(g, p, o, d, m, q, c) ==
    /\ m.at = "acquire" => AcqOK(g, p, o, d, m, q) /\ FrameOK(p, o, m, q)
    /\ m.at \notin {"acquire", "final", "ended"} => \A n \in Sends : Used(p, o, n) => n <= m.n
    /\ m.at \in {"bound", "probe", "step"} => m.n \in Sends /\ c.n = 0
    /\ m.at \in {"bound", "probe"} => m.status = "not_sent" /\ ~Used(p, o, m.n)
    /\ m.at \in {"probe", "step"} => g = "gym"
    /\ m.at = "step" => StepOK(p, o, d, m)
    /\ m.at = "recover" => /\ m.n \in Sends /\ m.status \in {"sent", "unknown"}
                           /\ m.status = "sent" => SentOK(g, p, o, d, m)
    /\ m.at \in {"health", "health_probe"} => m.status = "unknown"
    /\ m.at = "final" => m.n = 0

ClosedOK(p, o, c) ==
    c.n # 0 =>
      /\ c.n \in Sends
      /\ c.status = "not_sent" => ~Used(p, o, c.n)
      /\ c.status = "sent" /\ c.after # {} =>
           /\ c.n \notin p.out /\ ~Steps(o, c.n)
           /\ \A obs \in c.after : obs.seen >= p.landed[c.n]

WorldInv ==
    /\ PageOK(page, owner)
    /\ CommandsOK(owner)
    /\ WaitOK(owner, act, acq)
    /\ ActShape(act) /\ AcqShape(acq) /\ AdShape(ad)
    /\ acq.at = "none" <=> act.at # "acquire"
    /\ ActOK(deployment, page, owner, ad, act, acq, closed)
    /\ ClosedOK(page, owner, closed)
-----------------------------------------------------------------------------
(* How an acquisition leads on.                                            *)

\* What one step makes of the acquisition q of the dispatch m: another round or
\* a new acquisition, the loop goes on with the old world or the new one, the
\* dispatch is closed, or it is recovered or given up for unresolved.
Leads(m, q, m2, q2, c, c2) ==
    \/ /\ ActShape(m2) /\ m2.at = "acquire" /\ m2.n = m.n /\ m2.status = m.status
       /\ AcqShape(q2) /\ q2.at = "ask" /\ q2.then = q.then /\ q2.results = q.results
       /\ c2 = c
    \/ /\ q2 = NoAcquisition
       /\ \/ /\ q.then \notin {"post", "recover", "final"}
             /\ c2 = c
             /\ \E at \in {"idle", "ended"} : m2 = Doing(at, m.n)
          \/ /\ q.then \in {"post", "recover", "final"}
             /\ c2.n = m.n /\ c2.status = m.status /\ c2.after \in {World(q.results), {}}
             /\ \E at \in {"idle", "blocked", "ended"} :
                   m2 = Doing(at, m.n) /\ (q.then = "final" => at = "ended")
          \/ /\ q.then = "post" /\ c2 = c
             /\ ActShape(m2) /\ m2.at = "recover" /\ m2.n = m.n /\ m2.status = m.status
          \/ /\ q.then = "recover" /\ m.status = "unknown" /\ c2 = c
             /\ ActShape(m2) /\ m2.at = "health" /\ m2.n = m.n /\ m2.status = m.status

\* The step of the loop at another place, or with another mark.
LEMMA MovedAct ==
    ASSUME NEW m, ActShape(m), NEW at \in LoopPlaces
    PROVE  /\ ActShape([m EXCEPT !.at = at])
           /\ [m EXCEPT !.at = at].at = at
           /\ [m EXCEPT !.at = at].n = m.n
           /\ [m EXCEPT !.at = at].status = m.status
PROOF BY DEF ActShape

\* The step with a mark that some call of it did not go well.
LEMMA MarkedAct ==
    ASSUME NEW m, ActShape(m), NEW faulty
    PROVE  /\ ActShape([m EXCEPT !.faulty = faulty])
           /\ [m EXCEPT !.faulty = faulty].at = m.at
           /\ [m EXCEPT !.faulty = faulty].n = m.n
           /\ [m EXCEPT !.faulty = faulty].status = m.status
PROOF BY DEF ActShape

\* The dispatch as it enters the acquisition after it.
Entering(m, status, faulty) ==
    [m EXCEPT !.at = "acquire", !.status = status, !.faulty = faulty]

\* It is the same dispatch, with what is known of its fate.
LEMMA DispatchedAct ==
    ASSUME NEW m, ActShape(m), NEW faulty, NEW status \in {"not_sent", "sent", "unknown"},
           NEW t, t = Entering(m, status, faulty)
    PROVE  ActShape(t) /\ t.at = "acquire" /\ t.n = m.n /\ t.status = status
PROOF
<1>1. /\ t.at = "acquire" /\ t.n = m.n /\ t.status = status /\ t.binding = m.binding
      /\ t.needs = m.needs /\ t.faulty = faulty
      /\ t \in [at : {"acquire"}, n : {m.n}, binding : {m.binding}, needs : {m.needs},
               status : {status}, faulty : {faulty}]
  BY DEF Entering, ActShape
<1>2. m.n \in 0 .. MaxDispatches /\ "acquire" \in LoopPlaces
  BY DEF ActShape, LoopPlaces
<1> QED  BY ONLY <1>1, <1>2, status \in {"not_sent", "sent", "unknown"} DEF ActShape

\* _acquire at its end, and what the loop makes of it.
LEMMA DoneLeads ==
    ASSUME NEW m, ActShape(m), m.at = "acquire", NEW a, AcqShape(a), NEW fused,
           Done(m, a, fused)
    PROVE  Leads(m, a, act', acq', closed, closed')
PROOF
<1>1. acq' = NoAcquisition
  BY DEF Done
<1>2. a.then \in Purposes
  BY DEF AcqShape
<1>3. CASE a.then \in {"post", "recover", "final"}
  <2>1. PICK ok : DispatchCloses(m, a, ok)
    BY <1>3 DEF Done
  <2>2. CASE /\ Close(m, World(a.results), "none")
             /\ \E at \in IF m.status = "unknown" THEN {"idle", "blocked"} ELSE {"idle"} :
                   act' = Doing(IF a.then = "final" THEN "ended" ELSE at, m.n)
    <3>1. PICK at \in {"idle", "blocked"} :
             act' = Doing(IF a.then = "final" THEN "ended" ELSE at, m.n)
      BY <2>2
    <3>2. PICK place \in {"idle", "blocked", "ended"} :
             act' = Doing(place, m.n) /\ (a.then = "final" => place = "ended")
      BY <3>1
    <3> QED  BY <1>1, <1>3, <2>2, <3>2 DEF Leads, Close
  <2>3. CASE a.then = "post" /\ act' = [m EXCEPT !.at = "recover"] /\ closed' = closed
    <3>1. "recover" \in LoopPlaces
      BY DEF LoopPlaces
    <3> QED  BY <1>1, <2>3, <3>1, MovedAct DEF Leads
  <2>4. CASE /\ a.then = "recover" /\ m.status = "unknown"
             /\ act' = [m EXCEPT !.at = "health"] /\ closed' = closed
    <3>1. "health" \in LoopPlaces
      BY DEF LoopPlaces
    <3> QED  BY <1>1, <2>4, <3>1, MovedAct DEF Leads
  <2>5. CASE Close(m, {}, "no_observation") /\ act' = Doing("ended", m.n)
    BY <1>1, <1>3, <2>5 DEF Leads, Close
  <2> QED  BY <2>1, <2>2, <2>3, <2>4, <2>5 DEF DispatchCloses
<1>4. CASE a.then \notin {"post", "recover", "final"}
  <2>1. PICK ok : LoopAdopts(m, a, ok)
    BY <1>4 DEF Done
  <2>2. PICK at \in {"idle", "ended"} : act' = Doing(at, m.n)
    BY <2>1 DEF LoopAdopts
  <2> QED  BY <1>1, <1>4, <2>1, <2>2 DEF Leads, LoopAdopts
<1> QED  BY <1>3, <1>4

\* An acquisition begins with nothing.
LEMMA BeginGives ==
    ASSUME NEW kind, NEW requested, NEW route, NEW then \in Purposes
    PROVE  LET a == Begin(kind, requested, route, then)
           IN  AcqShape(a) /\ a.then = then /\ a.results = <<>>
PROOF
<1>1. PICK plan : plan = Select(Offers, kind, requested, route, {}, FALSE)
  OBVIOUS
<1>2. Begin(kind, requested, route, then) =
        [NoAcquisition EXCEPT !.at = "ask", !.kind = kind, !.requested = requested,
                              !.route = route, !.then = then, !.plan = plan]
  BY ONLY <1>1 DEF Begin
<1>3. AcqShape(NoAcquisition) /\ NoAcquisition.results = <<>>
  BY DEF NoAcquisition, AcqShape, Purposes
<1> QED  BY ONLY <1>2, <1>3, then \in Purposes DEF AcqShape

\* The start of an acquisition, or its end when there is no plan.
LEMMA StartsLead ==
    ASSUME NEW m, ActShape(m), m.at = "acquire", NEW kind, NEW requested, NEW route,
           NEW then \in Purposes, Starts(m, Begin(kind, requested, route, then))
    PROVE  \E q : /\ q.then = then /\ q.results = <<>>
                  /\ Leads(m, q, act', acq', closed, closed')
PROOF
<1>1. PICK a : a = Begin(kind, requested, route, then)
  OBVIOUS
<1>2. AcqShape(a) /\ a.then = then /\ a.results = <<>> /\ a.at = "ask"
  BY <1>1, BeginGives DEF Begin, NoAcquisition
<1>3. Starts(m, a)
  BY <1>1
<1>4. CASE Done(m, a, FALSE)
  BY <1>2, <1>4, DoneLeads
<1>5. CASE acq' = a /\ act' = m /\ closed' = closed
  BY <1>2, <1>5 DEF Leads
<1> QED  BY <1>2, <1>3, <1>4, <1>5 DEF Starts
\* The results of a round, over those of the round before; whether another
\* round follows is not asked here.
LEMMA AnsweredLeads ==
    ASSUME NEW m, ActShape(m), m.at = "acquire", NEW a, AcqShape(a), NEW outcome,
           CaptureAnswered(m, a, outcome)
    PROVE  \E q : /\ q.then = a.then /\ q.results = Over(outcome.results, a.results)
                  /\ Leads(m, q, act', acq', closed, closed')
PROOF
<1>1. PICK b : b = [a EXCEPT !.results = Over(outcome.results, @),
                             !.layer = @ \/ outcome.layer]
  OBVIOUS
<1>2. PICK r : r = Refined(b)
  OBVIOUS
<1>3. PICK more : more = [b EXCEPT !.plan = r, !.round = 2, !.at = "ask"]
  OBVIOUS
<1>4. PICK faulty : faulty = (m.faulty \/ outcome.faulty)
  OBVIOUS
<1>5. /\ AcqShape(b) /\ b.then = a.then
      /\ b.results = Over(outcome.results, a.results)
  BY ONLY <1>1, AcqShape(a) DEF AcqShape
<1>6. /\ AcqShape(more) /\ more.at = "ask" /\ more.then = a.then
      /\ more.results = Over(outcome.results, a.results)
  BY ONLY <1>3, <1>5 DEF AcqShape
<1>7. \/ acq' = more /\ act' = [m EXCEPT !.faulty = faulty] /\ closed' = closed
      \/ \E k, ok, q : /\ ActShape(k) /\ k.at = "acquire" /\ k.n = m.n /\ k.status = m.status
                       /\ q \in {more, b} /\ Done(k, q, ok)
  <2>1. IF ShouldRefine(b) /\ r.failure = "" /\ Asked(more) # {}
        THEN /\ acq' = more
             /\ act' = [m EXCEPT !.faulty = faulty]
             /\ UNCHANGED <<co, closed>>
        ELSE \E fused \in BOOLEAN :
                Done([m EXCEPT !.faulty = faulty \/ ~fused],
                     IF ShouldRefine(b) /\ r.failure = "" THEN more ELSE b,
                     fused /\ ~(ShouldRefine(b) /\ r.failure # ""))
    BY ONLY <1>1, <1>2, <1>3, <1>4, CaptureAnswered(m, a, outcome) DEF CaptureAnswered
  <2>2. CASE ShouldRefine(b) /\ r.failure = "" /\ Asked(more) # {}
    BY <2>1, <2>2
  <2>3. CASE ~(ShouldRefine(b) /\ r.failure = "" /\ Asked(more) # {})
    <3>1. PICK fused \in BOOLEAN :
            Done([m EXCEPT !.faulty = faulty \/ ~fused],
                 IF ShouldRefine(b) /\ r.failure = "" THEN more ELSE b,
                 fused /\ ~(ShouldRefine(b) /\ r.failure # ""))
      BY <2>1, <2>3
    <3>2. PICK q \in {more, b} : q = IF ShouldRefine(b) /\ r.failure = "" THEN more ELSE b
      OBVIOUS
    <3>3. PICK k : k = [m EXCEPT !.faulty = faulty \/ ~fused]
      OBVIOUS
    <3>4. PICK ok : ok = (fused /\ ~(ShouldRefine(b) /\ r.failure # ""))
      OBVIOUS
    <3>5. Done(k, q, ok)
      BY ONLY <3>1, <3>2, <3>3, <3>4
    <3>6. ActShape(k) /\ k.at = "acquire" /\ k.n = m.n /\ k.status = m.status
      BY <3>3, MarkedAct
    <3> QED  BY ONLY <3>5, <3>6, q \in {more, b}
  <2> QED  BY <2>2, <2>3
<1>8. CASE acq' = more /\ act' = [m EXCEPT !.faulty = faulty] /\ closed' = closed
  <2>1. Leads(m, more, act', acq', closed, closed')
    BY <1>6, <1>8, MarkedAct DEF Leads
  <2> QED  BY <1>6, <2>1
<1>9. ASSUME NEW k, NEW ok, NEW q, ActShape(k), k.at = "acquire", k.n = m.n,
             k.status = m.status, q \in {more, b}, Done(k, q, ok)
      PROVE  \E x : /\ x.then = a.then /\ x.results = Over(outcome.results, a.results)
                    /\ Leads(m, x, act', acq', closed, closed')
  <2>1. AcqShape(q) /\ q.then = a.then /\ q.results = Over(outcome.results, a.results)
    BY <1>5, <1>6, <1>9
  <2>2. Leads(k, q, act', acq', closed, closed')
    BY <1>9, <2>1, DoneLeads
  <2>3. Leads(m, q, act', acq', closed, closed')
    BY <1>9, <2>2 DEF Leads
  <2> QED  BY <2>1, <2>3
<1> QED  BY ONLY <1>7, <1>8, <1>9

\* Nothing is waited for, and nobody has answered.
Quiet(o) ==
    /\ \A i \in 1 .. Len(o.queue) : ~o.queue[i].waited
    /\ o.busy # <<>> => ~o.busy[1].waited
    /\ o.answer.kind = "none"

\* What is known of a dispatch carries over to whatever its acquisition leads to.
LEMMA LeadsKeeps ==
    ASSUME PageOK(page', owner'), CommandsOK(owner'), Quiet(owner'), AdShape(ad'),
           ClosedOK(page', owner', closed),
           NEW m, ActShape(m), NEW q, AcqOK(deployment', page', owner', ad', m, q),
           Leads(m, q, act', acq', closed, closed')
    PROVE  WorldInv'
PROOF
<1>1. WaitOK(owner', act', acq')
  BY DEF Quiet, WaitOK
<1>2. CASE /\ ActShape(act') /\ act'.at = "acquire" /\ act'.n = m.n /\ act'.status = m.status
           /\ AcqShape(acq') /\ acq'.at = "ask" /\ acq'.then = q.then
           /\ acq'.results = q.results /\ closed' = closed
  <2>1. AcqOK(deployment', page', owner', ad', act', acq')
    BY <1>2 DEF AcqOK, SentOK
  <2>2. ActOK(deployment', page', owner', ad', act', acq', closed')
    BY <1>2, <2>1 DEF ActOK, FrameOK
  <2> QED  BY <1>1, <1>2, <2>2 DEF WorldInv
<1>3. AcqShape(NoAcquisition) /\ NoAcquisition.at = "none"
  BY DEF NoAcquisition, AcqShape, Purposes
<1>4. ASSUME NEW at \in {"idle", "blocked", "ended"}, act' = Doing(at, m.n)
      PROVE  /\ ActShape(act') /\ act'.at = at /\ act'.n = m.n
  BY <1>4 DEF Doing, ActShape, LoopPlaces
<1>5. CASE /\ acq' = NoAcquisition /\ q.then \notin {"post", "recover", "final"}
           /\ closed' = closed
           /\ \E at \in {"idle", "ended"} : act' = Doing(at, m.n)
  <2>1. ActShape(act') /\ act'.at \in {"idle", "ended"} /\ act'.n = m.n
    BY <1>4, <1>5
  <2>2. ActOK(deployment', page', owner', ad', act', acq', closed')
    BY <1>5, <2>1 DEF ActOK, AcqOK
  <2> QED  BY <1>1, <1>3, <1>5, <2>1, <2>2 DEF WorldInv
<1>6. CASE /\ acq' = NoAcquisition /\ q.then \in {"post", "recover", "final"}
           /\ closed'.n = m.n /\ closed'.status = m.status
           /\ closed'.after \in {World(q.results), {}}
           /\ \E at \in {"idle", "blocked", "ended"} :
                 act' = Doing(at, m.n) /\ (q.then = "final" => at = "ended")
  <2>1. /\ ActShape(act') /\ act'.at \in {"idle", "blocked", "ended"} /\ act'.n = m.n
        /\ q.then = "final" => act'.at = "ended"
    BY <1>4, <1>6
  <2>2. ActOK(deployment', page', owner', ad', act', acq', closed')
    BY <1>6, <2>1 DEF ActOK, AcqOK
  <2>3. ClosedOK(page', owner', closed')
    <3>1. CASE m.n = 0
      BY <1>6, <3>1 DEF ClosedOK
    <3>2. CASE m.n # 0
      <4>1. q.then \in After /\ m.n \in Sends /\ m.status \in {"sent", "unknown"}
        BY <1>6, <3>2 DEF AcqOK, After
      <4>2. CASE m.status = "sent"
        <5>1. SentOK(deployment', page', owner', ad', m) /\ Fresh(page', q.results, m.n)
          BY <4>1, <4>2 DEF AcqOK
        <5>2. \A obs \in World(q.results) :
                 m.n \notin page'.out /\ obs.seen >= page'.landed[m.n]
          BY <5>1 DEF World, Fresh
        <5> QED  BY <1>6, <4>1, <4>2, <5>1, <5>2 DEF ClosedOK, SentOK
      <4> QED  BY <1>6, <4>1, <4>2 DEF ClosedOK
    <3> QED  BY <3>1, <3>2
  <2> QED  BY <1>1, <1>3, <1>6, <2>1, <2>2, <2>3 DEF WorldInv
<1>7. CASE /\ acq' = NoAcquisition /\ q.then = "post" /\ closed' = closed
           /\ ActShape(act') /\ act'.at = "recover" /\ act'.n = m.n
           /\ act'.status = m.status
  <2>1. ActOK(deployment', page', owner', ad', act', acq', closed')
    BY <1>7 DEF ActOK, AcqOK, After, SentOK
  <2> QED  BY <1>1, <1>3, <1>7, <2>1 DEF WorldInv
<1>8. CASE /\ acq' = NoAcquisition /\ q.then = "recover" /\ m.status = "unknown"
           /\ closed' = closed
           /\ ActShape(act') /\ act'.at = "health" /\ act'.n = m.n
           /\ act'.status = m.status
  <2>1. ActOK(deployment', page', owner', ad', act', acq', closed')
    BY <1>8 DEF ActOK, AcqOK
  <2> QED  BY <1>1, <1>3, <1>8, <2>1 DEF WorldInv
<1> QED  BY <1>2, <1>5, <1>6, <1>7, <1>8 DEF Leads
-----------------------------------------------------------------------------
(* What the page and the owner do by themselves.                           *)

\* No command is added, nothing new happens to a dispatch that has no command:
\* its effect lands only if it was out.
Ages(p, o, p2, o2) ==
    \A n \in Sends :
        /\ Steps(o2, n) => Steps(o, n)
        /\ Used(p2, o2, n) => Used(p, o, n)
        /\ ~Steps(o, n) =>
             /\ n \in p2.out => n \in p.out
             /\ n \notin p.out => p2.landed[n] = p.landed[n]

\* What is known of a sent dispatch before is known after.
LEMMA AgesKeepsSent ==
    ASSUME NEW g, NEW p, NEW o, NEW d, NEW m, m.n \in Sends, SentOK(g, p, o, d, m),
           NEW p2, NEW o2, Ages(p, o, p2, o2)
    PROVE  SentOK(g, p2, o2, d, m)
PROOF BY DEF SentOK, Ages

\* What was known of the dispatch before is known after.
LEMMA AgesKeepsAcq ==
    ASSUME NEW g, NEW p, NEW o, NEW d, NEW m, NEW q, AcqOK(g, p, o, d, m, q),
           NEW p2, NEW o2, Ages(p, o, p2, o2)
    PROVE  AcqOK(g, p2, o2, d, m, q)
PROOF
<1>1. ASSUME q.then \in After, m.status = "sent"
      PROVE  SentOK(g, p2, o2, d, m) /\ Fresh(p2, q.results, m.n)
  <2>1. m.n \in Sends /\ SentOK(g, p, o, d, m) /\ Fresh(p, q.results, m.n)
    BY <1>1 DEF AcqOK
  <2>2. Fresh(p2, q.results, m.n)
    BY <2>1 DEF Fresh, Ages, SentOK
  <2> QED  BY <2>1, <2>2, AgesKeepsSent
<1>2. \A n \in Sends : Used(p2, o2, n) => Used(p, o, n)
  BY DEF Ages
<1> QED  BY <1>1, <1>2 DEF AcqOK

\* What was reported of a closed dispatch stays true.
LEMMA AgesKeepsClosed ==
    ASSUME NEW p, NEW o, NEW c, ClosedOK(p, o, c), NEW p2, NEW o2, Ages(p, o, p2, o2)
    PROVE  ClosedOK(p2, o2, c)
PROOF
<1>1. ASSUME c.n # 0, c.status = "sent", c.after # {}
      PROVE  /\ c.n \notin p2.out /\ ~Steps(o2, c.n)
             /\ \A obs \in c.after : obs.seen >= p2.landed[c.n]
  <2>1. /\ c.n \in Sends /\ c.n \notin p.out /\ ~Steps(o, c.n)
        /\ \A obs \in c.after : obs.seen >= p.landed[c.n]
    BY <1>1 DEF ClosedOK
  <2>2. c.n \notin p2.out /\ ~Steps(o2, c.n) /\ p2.landed[c.n] = p.landed[c.n]
    BY <2>1 DEF Ages
  <2> QED  BY <2>1, <2>2
<1> QED  BY <1>1 DEF ClosedOK, Ages

\* The page and the owner go on while the run waits.
LEMMA AgesKeeps ==
    ASSUME WorldInv, UNCHANGED <<deployment, acq, act, ad, closed>>,
           PageOK(page', owner'), CommandsOK(owner'), WaitOK(owner', act, acq),
           Ages(page, owner, page', owner'),
           act.at = "acquire" => FrameOK(page', owner', act, acq),
           act.at = "step" => StepOK(page', owner', ad, act)
    PROVE  WorldInv'
PROOF
<1>1. ClosedOK(page', owner', closed)
  BY AgesKeepsClosed DEF WorldInv
<1>2. act.at = "acquire" => AcqOK(deployment, page', owner', ad, act, acq)
  BY AgesKeepsAcq DEF WorldInv, ActOK
<1>3. act.at = "recover" /\ act.status = "sent" => SentOK(deployment, page', owner', ad, act)
  BY AgesKeepsSent DEF WorldInv, ActOK
<1>4. \A n \in Sends : Used(page', owner', n) => Used(page, owner, n)
  BY DEF Ages
<1>5. ActOK(deployment, page', owner', ad, act, acq, closed)
  BY <1>2, <1>3, <1>4 DEF WorldInv, ActOK
<1> QED  BY <1>1, <1>5 DEF WorldInv

\* The answer stays as it is, or there is none, or it is an exception.
LEMMA AnswerAges ==
    ASSUME WorldInv, NEW p2, NEW o2, Ages(page, owner, p2, o2),
           o2.answer = owner.answer \/ o2.answer.kind \in {"none", "raised"}
    PROVE  /\ act.at = "acquire" => FrameOK(p2, o2, act, acq)
           /\ act.at = "step" => StepOK(p2, o2, ad, act)
PROOF
<1>1. ASSUME act.at = "acquire" PROVE FrameOK(p2, o2, act, acq)
  <2> SUFFICES ASSUME acq.at = "frame", acq.then \in After, act.status = "sent"
               PROVE  /\ act.n \notin p2.out
                      /\ o2.answer.kind = "frame" =>
                           o2.answer.frame.seen >= p2.landed[act.n]
    BY DEF FrameOK
  <2>1. /\ act.n \in Sends /\ act.n \notin page.out /\ ~Steps(owner, act.n)
        /\ owner.answer.kind = "frame" =>
             owner.answer.frame.seen >= page.landed[act.n]
    BY <1>1 DEF WorldInv, ActOK, AcqOK, FrameOK, SentOK
  <2> QED  BY <2>1 DEF Ages
<1>2. ASSUME act.at = "step" PROVE StepOK(p2, o2, ad, act)
  <2>1. act.n \in Sends /\ StepOK(page, owner, ad, act)
    BY <1>2 DEF WorldInv, ActOK
  <2>2. CASE o2.answer.kind \in {"none", "raised"}
    BY <2>1, <2>2 DEF StepOK
  <2>3. CASE o2.answer = owner.answer /\ owner.answer.kind \notin {"none", "raised"}
    <3>1. ~Steps(owner, act.n)
      BY <2>1, <2>3 DEF StepOK
    <3> QED  BY <2>1, <2>3, <3>1 DEF StepOK, Ages
  <2> QED  BY <2>2, <2>3
<1> QED  BY <1>1, <1>2
\* The page after an effect, and after a frame was captured.
LEMMA LandsGives ==
    ASSUME NEW p, PageShape(p), NEW n \in Sends, NEW t, t = Lands(p, n)
    PROVE  /\ PageShape(t) /\ t.v = p.v + 1 /\ t.out = p.out \ {n} /\ t.serial = p.serial
           /\ t.landed[n] = p.v + 1
           /\ \A k \in Sends : k # n => t.landed[k] = p.landed[k]
PROOF
<1>1. p.v \in Nat /\ p.v + 1 \in Nat /\ p.landed \in [Sends -> Nat] /\ p.out \in SUBSET Sends
  BY DEF PageShape
<1>2. /\ t.v = p.v + 1 /\ t.out = p.out \ {n} /\ t.serial = p.serial /\ t.drift = p.drift
      /\ t.landed = [p.landed EXCEPT ![n] = p.v + 1]
      /\ t = [v |-> t.v, drift |-> t.drift, serial |-> t.serial, landed |-> t.landed,
              out |-> t.out]
  BY DEF Lands, PageShape
<1>3. t.landed \in [Sends -> Nat]
  BY <1>1, <1>2
<1> QED  BY ONLY <1>1, <1>2, <1>3, n \in Sends DEF PageShape

\* A captured frame is all that is new.
LEMMA FramedGives ==
    ASSUME NEW p, PageShape(p), NEW s, NEW t, t = [p EXCEPT !.serial = s]
    PROVE  PageShape(t) /\ t.v = p.v /\ t.out = p.out /\ t.landed = p.landed
PROOF BY DEF PageShape

\* A captured frame changes nothing that is known of the page.
LEMMA FramedAges ==
    ASSUME NEW p, NEW o, NEW t, t.out = p.out, t.landed = p.landed, NEW o2,
           \A n \in Sends : Steps(o2, n) => Steps(o, n)
    PROVE  Ages(p, o, t, o2)
PROOF BY DEF Ages, Used

\* The page is consistent with the commands after a frame as before it.
LEMMA FramedPage ==
    ASSUME NEW p, NEW o, PageOK(p, o), NEW t, PageShape(t), t.v = p.v, t.out = p.out,
           t.landed = p.landed, NEW o2, \A n \in Sends : Steps(o2, n) => Steps(o, n)
    PROVE  PageOK(t, o2)
PROOF BY DEF PageOK

\* What the page does by itself.
LEMMA DriftKeeps == WorldInv /\ PageDrifts => WorldInv'
PROOF
<1> SUFFICES ASSUME WorldInv, PageDrifts PROVE WorldInv'
  OBVIOUS
<1>1. PageOK(page, owner) /\ PageShape(page)
  BY DEF WorldInv, PageOK
<1>2. PageShape(page') /\ page'.v = page.v + 1 /\ page'.out = page.out
      /\ page'.landed = page.landed
  <2>1. page' = [page EXCEPT !.v = @ + 1, !.drift = @ + 1]
    BY DEF PageDrifts
  <2>2. page.v \in Nat /\ page.v + 1 \in Nat
    BY <1>1 DEF PageShape
  <2>3. /\ page'.v = page.v + 1 /\ page'.drift = page.drift + 1
        /\ page'.serial = page.serial /\ page'.landed = page.landed /\ page'.out = page.out
        /\ page' \in [v : Nat, drift : {page.drift + 1}, serial : {page.serial},
                     landed : [Sends -> Nat], out : SUBSET Sends]
    BY ONLY <1>1, <2>1, <2>2 DEF PageShape
  <2> QED  BY <2>3 DEF PageShape
<1>3. UNCHANGED <<deployment, co, acq, act, ad, owner, closed>>
  BY DEF PageDrifts
<1>4. Ages(page, owner, page', owner')
  BY <1>2, <1>3, FramedAges
<1>5. PageOK(page', owner')
  BY <1>1, <1>2, <1>3 DEF PageOK, PageShape
<1>6. CommandsOK(owner') /\ WaitOK(owner', act, acq)
  BY <1>3 DEF WorldInv
<1> QED  BY <1>3, <1>4, <1>5, <1>6, AnswerAges, AgesKeeps

\* An effect that was out lands.
LEMMA OutLands ==
    ASSUME NEW p, NEW o, PageOK(p, o), NEW n \in p.out, NEW t, t = Lands(p, n)
    PROVE  PageOK(t, o) /\ Ages(p, o, t, o)
PROOF
<1>1. PageShape(p) /\ n \in Sends /\ p.v \in Nat
  BY DEF PageOK, PageShape
<1>2. /\ PageShape(t) /\ t.v = p.v + 1 /\ t.out = p.out \ {n}
      /\ t.landed[n] = p.v + 1
      /\ \A k \in Sends : k # n => t.landed[k] = p.landed[k]
  BY <1>1, LandsGives
<1>3. \A k \in Sends : p.landed[k] \in Nat
  BY <1>1 DEF PageShape
<1>4. ~Steps(o, n)
  BY <1>1 DEF PageOK
<1>5. PageOK(t, o)
  BY <1>1, <1>2, <1>3, <1>4 DEF PageOK
<1>6. Ages(p, o, t, o)
  BY <1>1, <1>2 DEF Ages, Used
<1> QED  BY <1>5, <1>6

\* A navigation commits, with the effect that was on its way (_causal_step).
LEMMA NavigationKeeps == WorldInv /\ NavigationCommits => WorldInv'
PROOF
<1> SUFFICES ASSUME WorldInv, NavigationCommits PROVE WorldInv'
  OBVIOUS
<1>1. PICK n \in page.out : page' = Lands(page, n)
  BY DEF NavigationCommits
<1>2. UNCHANGED <<deployment, co, acq, act, ad, owner, closed>>
  BY DEF NavigationCommits
<1>3. PageOK(page', owner') /\ Ages(page, owner, page', owner')
  BY <1>1, <1>2, OutLands DEF WorldInv
<1>4. CommandsOK(owner') /\ WaitOK(owner', act, acq)
  BY <1>2 DEF WorldInv
<1> QED  BY <1>2, <1>3, <1>4, AnswerAges, AgesKeeps
-----------------------------------------------------------------------------
(* The owner thread.                                                       *)

\* A command in its queue, and the one it works on, are commands.
LEMMA CommandsAre ==
    ASSUME NEW o, CommandsOK(o)
    PROVE  /\ o.queue \in Seq(Commands) /\ o.busy \in Seq(Commands)
           /\ Len(o.queue) \in Nat /\ Len(o.busy) \in 0 .. 1
           /\ \A i \in 1 .. Len(o.queue) : o.queue[i] \in Commands
           /\ o.busy # <<>> => Len(o.busy) = 1 /\ o.busy[1] \in Commands
           /\ o.queue # <<>> => Len(o.queue) >= 1
PROOF BY DEF CommandsOK, OwnerShape

\* The owner has taken the first of its commands.
Taken(o) == [o EXCEPT !.busy = <<Head(o.queue)>>, !.queue = Tail(@)]

\* The commands after it are those of before.
LEMMA TakenGives ==
    ASSUME NEW o, CommandsOK(o), o.queue # <<>>, o.busy = <<>>,
           NEW t, t = Taken(o)
    PROVE  /\ OwnerShape(t) /\ t.timedOut = o.timedOut /\ t.answer = o.answer
           /\ t.busy = <<o.queue[1]>> /\ Len(t.queue) = Len(o.queue) - 1
           /\ \A i \in 1 .. Len(t.queue) : t.queue[i] = o.queue[i + 1]
PROOF
<1>1. OwnerShape(o)
  BY DEF CommandsOK
<1>2. /\ o.queue \in Seq(Commands) /\ Len(o.queue) >= 1 /\ Len(o.queue) \in Nat
      /\ o.queue[1] \in Commands
  BY CommandsAre
<1>3. Head(o.queue) = o.queue[1] /\ Tail(o.queue) \in Seq(Commands)
  BY <1>2
<1>4. <<o.queue[1]>> \in Seq(Commands)
  BY <1>2
<1>5. /\ t.queue = Tail(o.queue) /\ t.busy = <<o.queue[1]>> /\ t.timedOut = o.timedOut
      /\ t.answer = o.answer /\ t.cancels = o.cancels
      /\ t \in [queue : {Tail(o.queue)}, busy : {<<o.queue[1]>>}, timedOut : BOOLEAN,
               cancels : {o.cancels},
               answer : [kind : {o.answer.kind}, frame : {o.answer.frame}]]
  BY ONLY <1>1, <1>3, t = Taken(o) DEF OwnerShape, Taken
<1>6. OwnerShape(t)
  BY ONLY <1>3, <1>4, <1>5 DEF OwnerShape
<1> QED  BY <1>2, <1>5, <1>6

\* The owner takes a command: it is the same command as before.
LEMMA TakenKeeps ==
    ASSUME NEW o, CommandsOK(o), o.queue # <<>>, o.busy = <<>>,
           NEW t, t = Taken(o)
    PROVE  /\ CommandsOK(t)
           /\ \A n \in 0 .. MaxDispatches : Steps(t, n) <=> Steps(o, n)
           /\ \A m, q : WaitOK(o, m, q) => WaitOK(t, m, q)
PROOF
<1>1. /\ OwnerShape(t) /\ t.timedOut = o.timedOut /\ t.answer = o.answer
      /\ t.busy = <<o.queue[1]>> /\ Len(t.queue) = Len(o.queue) - 1
      /\ \A i \in 1 .. Len(t.queue) : t.queue[i] = o.queue[i + 1]
  BY TakenGives
<1>2. Len(o.queue) \in Nat /\ Len(o.queue) >= 1
  BY CommandsAre
<1>3. t.busy # <<>> /\ Len(t.busy) = 1 /\ t.busy[1] = o.queue[1] /\ Len(t.queue) \in Nat
  BY <1>1, <1>2
<1>4. \A i \in 1 .. Len(t.queue) : i + 1 \in 1 .. Len(o.queue) /\ i + 1 # 1
  BY <1>1, <1>2
<1>5. CommandsOK(t)
  <2>1. ASSUME NEW i \in 1 .. Len(t.queue), NEW j \in 1 .. Len(t.queue),
               NEW n \in 0 .. MaxDispatches, IsStep(t.queue[i], n), IsStep(t.queue[j], n)
        PROVE  i = j
    <3>1. IsStep(o.queue[i + 1], n) /\ IsStep(o.queue[j + 1], n)
      BY <1>1, <2>1
    <3>2. i + 1 = j + 1
      BY <1>4, <3>1 DEF CommandsOK
    <3> QED  BY <3>2
  <2>2. ASSUME NEW i \in 1 .. Len(t.queue), NEW n \in 0 .. MaxDispatches,
               IsStep(t.queue[i], n)
        PROVE  n # 0 /\ ~IsStep(t.busy[1], n)
    <3>1. IsStep(o.queue[i + 1], n)
      BY <1>1, <2>2
    <3>2. n # 0 /\ ~IsStep(o.queue[1], n)
      BY <1>2, <1>4, <3>1 DEF CommandsOK
    <3> QED  BY <1>3, <3>2
  <2>3. t.busy[1].name = "step" => t.busy[1].n # 0
    <3>1. 1 \in 1 .. Len(o.queue) /\ o.queue[1] \in Commands
      BY <1>2, CommandsAre
    <3> QED  BY <1>3, <3>1 DEF CommandsOK, IsStep, Commands
  <2>4. Len(t.busy) \in 0 .. 1
    BY <1>3
  <2> QED  BY ONLY <1>1, <2>1, <2>2, <2>3, <2>4 DEF CommandsOK
<1>6. ASSUME NEW n \in 0 .. MaxDispatches
      PROVE  Steps(t, n) <=> Steps(o, n)
  <2>1. ASSUME Steps(t, n) PROVE Steps(o, n)
    BY <1>1, <1>2, <1>3, <1>4, <2>1 DEF Steps
  <2>2. ASSUME Steps(o, n) PROVE Steps(t, n)
    <3>1. PICK i \in 1 .. Len(o.queue) : IsStep(o.queue[i], n)
      BY <2>2 DEF Steps
    <3>2. CASE i = 1
      BY <1>3, <3>1, <3>2 DEF Steps
    <3>3. CASE i # 1
      <4>1. PICK j \in 1 .. Len(t.queue) : i = j + 1
        <5>1. i - 1 \in 1 .. Len(t.queue) /\ i = (i - 1) + 1
          BY <1>1, <1>2, <3>1, <3>3
        <5> QED  BY <5>1
      <4> QED  BY <1>1, <3>1, <4>1 DEF Steps
    <3> QED  BY <3>2, <3>3
  <2> QED  BY <2>1, <2>2
<1>7. ASSUME NEW m, NEW q, WaitOK(o, m, q)
      PROVE  WaitOK(t, m, q)
  <2>1. ASSUME NEW i \in 1 .. Len(t.queue), t.queue[i].waited
        PROVE  /\ i = Len(t.queue) /\ t.queue[i].name = Expected(m, q)
               /\ IsStep(t.queue[i], t.queue[i].n) => t.queue[i].n = m.n
               /\ t.answer.kind = "none"
    <3>1. i + 1 \in 1 .. Len(o.queue) /\ t.queue[i] = o.queue[i + 1]
      BY <1>1, <1>4
    <3>2. o.queue[i + 1].waited
      BY <2>1, <3>1
    <3>3. /\ i + 1 = Len(o.queue) /\ o.queue[i + 1].name = Expected(m, q)
          /\ IsStep(o.queue[i + 1], o.queue[i + 1].n) => o.queue[i + 1].n = m.n
          /\ o.answer.kind = "none"
      BY <1>7, <3>1, <3>2 DEF WaitOK
    <3> QED  BY <1>1, <1>2, <3>1, <3>3
  <2>2. ASSUME t.busy[1].waited
        PROVE  /\ t.queue = <<>> /\ t.busy[1].name = Expected(m, q)
               /\ IsStep(t.busy[1], t.busy[1].n) => t.busy[1].n = m.n
               /\ t.answer.kind = "none"
    <3>1. 1 \in 1 .. Len(o.queue) /\ o.queue[1].waited
      BY <1>2, <1>3, <2>2
    <3>2. /\ 1 = Len(o.queue) /\ o.queue[1].name = Expected(m, q)
          /\ IsStep(o.queue[1], o.queue[1].n) => o.queue[1].n = m.n
          /\ o.answer.kind = "none"
      BY <1>7, <3>1 DEF WaitOK
    <3>3. Len(t.queue) = 0 /\ t.queue \in Seq(Commands)
      BY ONLY <1>1, <3>2 DEF OwnerShape
    <3> QED  BY <1>1, <1>3, <3>2, <3>3
  <2> QED  BY <1>1, <1>7, <2>1, <2>2 DEF WaitOK
<1> QED  BY <1>5, <1>6, <1>7

\* The owner takes the oldest command of its queue (ThreadBoundBrowserGym._run).
LEMMA TakesKeeps == WorldInv /\ OwnerTakes => WorldInv'
PROOF
<1> SUFFICES ASSUME WorldInv, OwnerTakes PROVE WorldInv'
  OBVIOUS
<1>1. /\ owner.queue # <<>> /\ owner.busy = <<>>
      /\ owner' = [owner EXCEPT !.busy = <<Head(owner.queue)>>, !.queue = Tail(@)]
      /\ UNCHANGED <<deployment, page, co, acq, act, ad, closed>>
  BY DEF OwnerTakes
<1>2. CommandsOK(owner) /\ PageOK(page, owner) /\ WaitOK(owner, act, acq)
  BY DEF WorldInv
<1>3. /\ CommandsOK(owner')
      /\ \A n \in 0 .. MaxDispatches : Steps(owner', n) <=> Steps(owner, n)
      /\ WaitOK(owner', act, acq)
      /\ owner'.answer = owner.answer
  <2>1. owner' = Taken(owner)
    BY <1>1 DEF Taken
  <2> QED  BY <1>1, <1>2, <2>1, TakenKeeps, TakenGives
<1>4. \A n \in Sends : n \in 0 .. MaxDispatches
  BY DispatchesAssumption DEF Sends
<1>5. Ages(page, owner, page', owner')
  BY <1>1, <1>3, <1>4 DEF Ages, Used
<1>6. PageOK(page', owner')
  BY <1>1, <1>2, <1>3, <1>4 DEF PageOK
<1> QED  BY <1>1, <1>3, <1>5, <1>6, AnswerAges, AgesKeeps
\* The owner is done with a command, and answers if somebody waits.
Finished(o, a) ==
    [o EXCEPT !.busy = <<>>, !.answer = IF o.busy[1].waited THEN a ELSE @]

\* What it is then.
LEMMA FinishedGives ==
    ASSUME NEW o, CommandsOK(o), o.busy # <<>>, NEW a, NEW t, t = Finished(o, a),
           a \in [kind : {a.kind}, frame : {a.frame}]
    PROVE  /\ OwnerShape(t) /\ t.timedOut = o.timedOut /\ t.queue = o.queue
           /\ t.busy = <<>> /\ t.answer = IF o.busy[1].waited THEN a ELSE o.answer
PROOF
<1>1. OwnerShape(o)
  BY DEF CommandsOK
<1>2. PICK b : b = IF o.busy[1].waited THEN a ELSE o.answer
  OBVIOUS
<1>3. b \in [kind : {b.kind}, frame : {b.frame}]
  BY ONLY <1>1, <1>2, a \in [kind : {a.kind}, frame : {a.frame}] DEF OwnerShape
<1>4. t = [o EXCEPT !.busy = <<>>, !.answer = b]
  BY ONLY <1>2, t = Finished(o, a) DEF Finished
<1>5. /\ t.queue = o.queue /\ t.busy = <<>> /\ t.timedOut = o.timedOut
      /\ t.answer = b /\ t.cancels = o.cancels
      /\ t \in [queue : Seq(Commands), busy : {<<>>}, timedOut : BOOLEAN,
               cancels : {o.cancels}, answer : {b}]
  BY ONLY <1>1, <1>4 DEF OwnerShape
<1>6. <<>> \in Seq(Commands)
  OBVIOUS
<1>7. OwnerShape(t)
  BY ONLY <1>3, <1>5, <1>6 DEF OwnerShape
<1> QED  BY <1>2, <1>5, <1>7

\* The owner is rid of its command, and whoever waited for it is answered.
LEMMA FinishedKeeps ==
    ASSUME NEW o, CommandsOK(o), o.busy # <<>>, NEW a, NEW t, t = Finished(o, a),
           a \in [kind : {a.kind}, frame : {a.frame}],
           NEW m, NEW q, WaitOK(o, m, q)
    PROVE  /\ CommandsOK(t) /\ WaitOK(t, m, q)
           /\ \A n \in 0 .. MaxDispatches :
                /\ Steps(t, n) => Steps(o, n)
                /\ IsStep(o.busy[1], n) => ~Steps(t, n)
PROOF
<1>1. /\ OwnerShape(t) /\ t.timedOut = o.timedOut /\ t.queue = o.queue
      /\ t.busy = <<>> /\ t.answer = IF o.busy[1].waited THEN a ELSE o.answer
  BY FinishedGives
<1>2. Len(t.busy) = 0
  BY <1>1
<1>3. CommandsOK(t)
  BY <1>1, <1>2 DEF CommandsOK
<1>4. \A n \in 0 .. MaxDispatches :
        /\ Steps(t, n) => Steps(o, n)
        /\ IsStep(o.busy[1], n) => ~Steps(t, n)
  BY <1>1 DEF Steps, CommandsOK
<1>5. WaitOK(t, m, q)
  <2>1. CASE o.busy[1].waited
    <3>1. /\ o.queue = <<>> /\ o.busy[1].name = Expected(m, q)
      BY <2>1 DEF WaitOK
    <3>2. o.busy[1] \in Commands
      BY CommandsAre
    <3>3. Expected(m, q) # "nothing"
      BY <3>1, <3>2 DEF Commands, CommandNames
    <3>4. Len(t.queue) = 0
      BY <1>1, <3>1
    <3> QED  BY <1>1, <3>3, <3>4 DEF WaitOK
  <2>2. CASE ~o.busy[1].waited
    BY <1>1, <2>2 DEF WaitOK
  <2> QED  BY <2>1, <2>2
<1> QED  BY <1>3, <1>4, <1>5

\* An answer of the owner is a kind and a frame.
LEMMA AnswerIs ==
    ASSUME NEW kind, NEW frame
    PROVE  LET a == OwnerAnswer(kind, frame)
           IN  /\ a.kind = kind /\ a.frame = frame
               /\ a \in [kind : {a.kind}, frame : {a.frame}]
PROOF BY DEF OwnerAnswer

\* A dispatch has a number that a command can carry.
LEMMA SendsAreCommands == \A n \in Sends : n \in 0 .. MaxDispatches /\ n # 0
PROOF BY DispatchesAssumption DEF Sends

\* What a captured frame shows is what has landed.
LEMMA FrameShows ==
    ASSUME NEW p, NEW o, PageOK(p, o), NEW n \in Sends
    PROVE  p.v >= p.landed[n]
PROOF BY DEF PageOK, PageShape

\* A command that is not a step ends, with or without a frame.
LEMMA FinishesKeeps == WorldInv /\ OwnerFinishes => WorldInv'
PROOF
<1> SUFFICES ASSUME WorldInv, OwnerFinishes PROVE WorldInv'
  OBVIOUS
<1>1. /\ CommandsOK(owner) /\ PageOK(page, owner) /\ WaitOK(owner, act, acq)
      /\ PageShape(page)
  BY DEF WorldInv, PageOK
<1>2. /\ owner.busy # <<>>
      /\ UNCHANGED <<deployment, co, acq, act, ad, closed>>
      /\ \E kind, frame :
           /\ Finishes(kind, frame)
           /\ page' = page \/ page' = [page EXCEPT !.serial = @ + 1]
           /\ \/ kind = "raised"
              \/ kind = "frame" /\ frame = NextFrame /\ owner.busy[1].name \in {"capture", "final"}
              \/ kind \notin {"none", "frame"} /\ owner.busy[1].name \in {"probe", "health"}
  <2>1. CASE Works("capture") /\ Captures(NextFrame)
    BY <2>1 DEF OwnerFinishes, Works, Captures
  <2>2. CASE /\ Works("probe")
             /\ \E kind \in {"current", "unavailable"} \cup
                  (IF page.v # act.binding.seen THEN {"stale"} ELSE {}) : Finishes(kind, NoFrame)
             /\ UNCHANGED page
    <3>1. PICK kind \in {"current", "unavailable", "stale"} : Finishes(kind, NoFrame)
      BY <2>2
    <3> QED  BY <2>2, <3>1 DEF OwnerFinishes, Works
  <2>3. CASE Works("final") /\ Captures(NextFrame)
    BY <2>3 DEF OwnerFinishes, Works, Captures
  <2>4. CASE /\ Works("health")
             /\ \E kind \in {"alive", "lost"} : Finishes(kind, NoFrame)
             /\ UNCHANGED page
    BY <2>4 DEF OwnerFinishes, Works
  <2>5. CASE owner.busy # <<>> /\ Finishes("raised", NoFrame) /\ UNCHANGED page
    BY <2>5 DEF OwnerFinishes
  <2> QED  BY <2>1, <2>2, <2>3, <2>4, <2>5 DEF OwnerFinishes
<1>3. PICK kind, frame :
           /\ Finishes(kind, frame)
           /\ page' = page \/ page' = [page EXCEPT !.serial = @ + 1]
           /\ \/ kind = "raised"
              \/ kind = "frame" /\ frame = NextFrame /\ owner.busy[1].name \in {"capture", "final"}
              \/ kind \notin {"none", "frame"} /\ owner.busy[1].name \in {"probe", "health"}
  BY <1>2
<1>4. PICK a : a = OwnerAnswer(kind, frame)
  OBVIOUS
<1>5. a.kind = kind /\ a.frame = frame /\ a \in [kind : {a.kind}, frame : {a.frame}]
  BY <1>4, AnswerIs
<1>6. owner' = Finished(owner, a)
  BY <1>3, <1>4 DEF Finishes, Finished
<1>7. /\ CommandsOK(owner') /\ WaitOK(owner', act, acq)
      /\ \A n \in 0 .. MaxDispatches : Steps(owner', n) => Steps(owner, n)
      /\ owner'.answer = IF owner.busy[1].waited THEN a ELSE owner.answer
  BY <1>1, <1>2, <1>5, <1>6, FinishedKeeps, FinishedGives
<1>8. /\ PageShape(page') /\ page'.v = page.v /\ page'.out = page.out
      /\ page'.landed = page.landed
  BY <1>1, <1>3, FramedGives
<1>9. \A n \in Sends : Steps(owner', n) => Steps(owner, n)
  BY <1>7, SendsAreCommands
<1>10. PageOK(page', owner') /\ Ages(page, owner, page', owner')
  BY <1>1, <1>8, <1>9, FramedPage, FramedAges
<1>11. CASE ~owner.busy[1].waited \/ kind = "raised"
  <2>1. owner'.answer = owner.answer \/ owner'.answer.kind \in {"none", "raised"}
    BY <1>5, <1>7, <1>11
  <2> QED  BY <1>2, <1>7, <1>10, <2>1, AnswerAges, AgesKeeps
<1>12. CASE owner.busy[1].waited /\ kind # "raised"
  <2>1. owner.busy[1].name = Expected(act, acq) /\ owner'.answer = a
    BY <1>1, <1>2, <1>7, <1>12 DEF WaitOK
  <2>2. act.at # "step"
    BY <1>3, <1>12, <2>1 DEF Expected, WorldInv
  <2>3. act.at = "acquire" => FrameOK(page', owner', act, acq)
    <3> SUFFICES ASSUME act.at = "acquire", acq.at = "frame", acq.then \in After,
                        act.status = "sent"
                 PROVE  /\ act.n \notin page'.out
                        /\ a.kind = "frame" => a.frame.seen >= page'.landed[act.n]
      BY <2>1 DEF FrameOK
    <3>1. act.n \in Sends /\ act.n \notin page.out
      BY DEF WorldInv, ActOK, AcqOK, FrameOK
    <3>2. a.kind = "frame" => a.frame.seen = page.v
      BY <1>3, <1>5 DEF NextFrame
    <3>3. page.v >= page.landed[act.n]
      BY <1>1, <3>1, FrameShows
    <3> QED  BY <1>8, <3>1, <3>2, <3>3
  <2> QED  BY <1>2, <1>7, <1>10, <2>2, <2>3, AgesKeeps
<1> QED  BY <1>11, <1>12
\* A step ends: its effect lands, or it stays out, and the frame that it answers
\* with shows it.
LEMMA StepsKeeps == WorldInv /\ OwnerSteps => WorldInv'
PROOF
<1> SUFFICES ASSUME WorldInv, OwnerSteps PROVE WorldInv'
  OBVIOUS
<1>1. /\ CommandsOK(owner) /\ PageOK(page, owner) /\ WaitOK(owner, act, acq)
      /\ PageShape(page) /\ page.v \in Nat
  BY DEF WorldInv, PageOK, PageShape
<1>2. PICK n : n = owner.busy[1].n
  OBVIOUS
<1>3. /\ owner.busy # <<>> /\ owner.busy[1].name = "step" /\ owner.busy[1] \in Commands
      /\ n \in Sends /\ IsStep(owner.busy[1], n) /\ Steps(owner, n)
      /\ n \in 0 .. MaxDispatches
  <2>1. owner.busy # <<>> /\ owner.busy[1].name = "step"
    BY DEF OwnerSteps, Works
  <2>2. owner.busy[1] \in Commands /\ n # 0
    BY <1>1, <1>2, <2>1, CommandsAre DEF CommandsOK
  <2>3. n \in 0 .. MaxDispatches
    BY <1>2, <2>2 DEF Commands
  <2>4. n \in Sends
    BY <2>2, <2>3, DispatchesAssumption DEF Sends
  <2> QED  BY <1>2, <2>1, <2>2, <2>3, <2>4 DEF IsStep, Steps
<1>4. UNCHANGED <<deployment, co, acq, act, ad, closed>>
  BY DEF OwnerSteps
<1>5. PICK landed : landed = Lands(page, n)
  OBVIOUS
<1>6. /\ PageShape(landed) /\ landed.v = page.v + 1 /\ landed.out = page.out \ {n}
      /\ landed.landed[n] = page.v + 1
      /\ \A k \in Sends : k # n => landed.landed[k] = page.landed[k]
  BY <1>1, <1>3, <1>5, LandsGives
<1>7. \E kind, frame :
        /\ Finishes(kind, frame) /\ PageShape(page')
        /\ \/ /\ page'.v = page.v + 1 /\ page'.out = page.out \ {n}
              /\ page'.landed = landed.landed
              /\ kind \in {"frame", "acquisition_unstable", "raised"}
              /\ kind = "frame" => frame.seen = page.v + 1
           \/ /\ page'.v = page.v /\ page'.out = page.out \cup {n}
              /\ page'.landed = page.landed /\ kind = "navigation_pending"
  <2>1. \/ /\ page' = [landed EXCEPT !.serial = @ + 1]
           /\ Finishes("frame", [serial |-> landed.serial + 1, seen |-> landed.v])
        \/ /\ page' = landed
           /\ \E kind \in {"acquisition_unstable", "raised"} : Finishes(kind, NoFrame)
        \/ /\ page' = [page EXCEPT !.out = @ \cup {n}]
           /\ Finishes("navigation_pending", NoFrame)
    BY <1>2, <1>5 DEF OwnerSteps
  <2>2. CASE /\ page' = [landed EXCEPT !.serial = @ + 1]
             /\ Finishes("frame", [serial |-> landed.serial + 1, seen |-> landed.v])
    <3>1. PICK frame : frame = [serial |-> landed.serial + 1, seen |-> landed.v]
      OBVIOUS
    <3>2. Finishes("frame", frame) /\ frame.seen = page.v + 1
      BY <1>6, <2>2, <3>1
    <3>3. PageShape(page') /\ page'.v = landed.v /\ page'.out = landed.out
          /\ page'.landed = landed.landed
      BY <1>6, <2>2, FramedGives
    <3> QED  BY ONLY <1>6, <3>2, <3>3
  <2>3. CASE /\ page' = landed
             /\ \E kind \in {"acquisition_unstable", "raised"} : Finishes(kind, NoFrame)
    BY <1>6, <2>3
  <2>4. CASE /\ page' = [page EXCEPT !.out = @ \cup {n}]
             /\ Finishes("navigation_pending", NoFrame)
    <3>1. page.out \cup {n} \in SUBSET Sends
      BY <1>1, <1>3 DEF PageShape
    <3>2. /\ PageShape(page') /\ page'.v = page.v /\ page'.out = page.out \cup {n}
          /\ page'.landed = page.landed
      BY ONLY <1>1, <2>4, <3>1 DEF PageShape
    <3> QED  BY <2>4, <3>2
  <2> QED  BY <2>1, <2>2, <2>3, <2>4
<1>8. PICK kind, frame :
        /\ Finishes(kind, frame) /\ PageShape(page')
        /\ \/ /\ page'.v = page.v + 1 /\ page'.out = page.out \ {n}
              /\ page'.landed = landed.landed
              /\ kind \in {"frame", "acquisition_unstable", "raised"}
              /\ kind = "frame" => frame.seen = page.v + 1
           \/ /\ page'.v = page.v /\ page'.out = page.out \cup {n}
              /\ page'.landed = page.landed /\ kind = "navigation_pending"
  BY <1>7
<1>9. PICK a : a = OwnerAnswer(kind, frame)
  OBVIOUS
<1>10. a.kind = kind /\ a.frame = frame /\ a \in [kind : {a.kind}, frame : {a.frame}]
  BY <1>9, AnswerIs
<1>11. owner' = Finished(owner, a)
  BY <1>8, <1>9 DEF Finishes, Finished
<1>12. /\ CommandsOK(owner') /\ WaitOK(owner', act, acq)
       /\ \A k \in 0 .. MaxDispatches :
            /\ Steps(owner', k) => Steps(owner, k)
            /\ IsStep(owner.busy[1], k) => ~Steps(owner', k)
       /\ owner'.answer = IF owner.busy[1].waited THEN a ELSE owner.answer
  BY <1>1, <1>3, <1>10, <1>11, FinishedKeeps, FinishedGives
<1>13. /\ ~Steps(owner', n)
       /\ \A k \in Sends : Steps(owner', k) => Steps(owner, k)
  BY <1>3, <1>12, SendsAreCommands
<1>14. page.landed[n] = 0 /\ n \notin page.out
  BY <1>1, <1>3 DEF PageOK
<1>15. \A k \in Sends : k # n => page'.landed[k] = page.landed[k] /\ (k \in page'.out <=> k \in page.out)
  BY <1>6, <1>8
<1>16. Ages(page, owner, page', owner')
  BY <1>3, <1>13, <1>15 DEF Ages, Used
<1>17. PageOK(page', owner')
  <2>1. ASSUME NEW k \in Sends
        PROVE  /\ page'.landed[k] <= page'.v
               /\ k \in page'.out \/ Steps(owner', k) => page'.landed[k] = 0
               /\ Steps(owner', k) => k \notin page'.out
    <3>1. page.landed[k] \in Nat /\ page.landed[k] <= page.v
      BY <1>1 DEF PageOK, PageShape
    <3>2. CASE k = n
      BY <1>1, <1>6, <1>8, <1>13, <1>14, <3>2
    <3>3. CASE k # n
      BY <1>1, <1>8, <1>13, <1>15, <3>1, <3>3 DEF PageOK
    <3> QED  BY <3>2, <3>3
  <2> QED  BY <1>8, <2>1 DEF PageOK
<1>18. CASE ~owner.busy[1].waited
  <2>1. owner'.answer = owner.answer
    BY <1>12, <1>18
  <2> QED  BY <1>4, <1>12, <1>16, <1>17, <2>1, AnswerAges, AgesKeeps
<1>19. CASE owner.busy[1].waited
  <2>1. /\ owner.busy[1].name = Expected(act, acq) /\ owner'.answer = a
        /\ owner.busy[1].n = act.n
    BY <1>1, <1>2, <1>3, <1>12, <1>19 DEF WaitOK
  <2>2. act.at # "acquire" \/ acq.at # "frame"
    BY <1>3, <2>1 DEF Expected
  <2>3. act.at = "acquire" => FrameOK(page', owner', act, acq)
    BY <2>2 DEF FrameOK
  <2>4. act.at = "step" => StepOK(page', owner', ad, act)
    <3> SUFFICES ASSUME act.at = "step" PROVE StepOK(page', owner', ad, act)
      OBVIOUS
    <3>1. ad.pend = NoFrame
      BY DEF WorldInv, ActOK, StepOK
    <3>2. a.kind \in {"frame", "acquisition_unstable"} => n \notin page'.out
      BY <1>8, <1>10
    <3>3. a.kind = "frame" => a.frame.seen >= page'.landed[n]
      BY <1>1, <1>6, <1>8, <1>10
    <3> QED  BY <1>2, <1>13, <2>1, <3>1, <3>2, <3>3 DEF StepOK
  <2> QED  BY <1>4, <1>12, <1>16, <1>17, <2>3, <2>4, AgesKeeps
<1> QED  BY <1>18, <1>19

\* Nobody waits any more: the commands are the same, and go on.
LEMMA UnwaitedGives ==
    ASSUME NEW o, CommandsOK(o), NEW t, t = Unwaited(o)
    PROVE  /\ CommandsOK(t) /\ t.timedOut = o.timedOut /\ t.answer = o.answer
           /\ t.cancels = o.cancels
           /\ Len(t.queue) = Len(o.queue) /\ (t.busy = <<>> <=> o.busy = <<>>)
           /\ \A n \in 0 .. MaxDispatches : Steps(t, n) <=> Steps(o, n)
           /\ \A i \in 1 .. Len(t.queue) : ~t.queue[i].waited
           /\ t.busy # <<>> => ~t.busy[1].waited
PROOF
<1>1. ASSUME NEW s \in Seq(Commands)
      PROVE  /\ GivenUp(s) \in Seq(Commands) /\ Len(GivenUp(s)) = Len(s)
             /\ \A i \in 1 .. Len(s) : /\ GivenUp(s)[i].name = s[i].name
                                       /\ GivenUp(s)[i].n = s[i].n
                                       /\ ~GivenUp(s)[i].waited
  <2>1. DOMAIN s = 1 .. Len(s) /\ Len(s) \in Nat /\ \A i \in 1 .. Len(s) : s[i] \in Commands
    OBVIOUS
  <2>2. ASSUME NEW i \in 1 .. Len(s)
        PROVE  /\ [s[i] EXCEPT !.waited = FALSE] \in Commands
               /\ [s[i] EXCEPT !.waited = FALSE].name = s[i].name
               /\ [s[i] EXCEPT !.waited = FALSE].n = s[i].n
               /\ [s[i] EXCEPT !.waited = FALSE].waited = FALSE
    BY <2>1 DEF Commands
  <2>3. PICK u : u = GivenUp(s)
    OBVIOUS
  <2>4. u = [i \in 1 .. Len(s) |-> [s[i] EXCEPT !.waited = FALSE]]
    BY <2>1, <2>3 DEF GivenUp
  <2>5. u \in [1 .. Len(s) -> Commands]
    BY ONLY <2>2, <2>4
  <2>6. u \in Seq(Commands) /\ Len(u) = Len(s)
    BY ONLY <2>1, <2>5
  <2>7. \A i \in 1 .. Len(s) : u[i] = [s[i] EXCEPT !.waited = FALSE]
    BY ONLY <2>4
  <2> QED  BY <2>2, <2>3, <2>6, <2>7
<1>2. OwnerShape(o) /\ o.queue \in Seq(Commands) /\ o.busy \in Seq(Commands)
      /\ Len(o.busy) \in 0 .. 1
  BY DEF CommandsOK, OwnerShape
<1>3. /\ t.queue = GivenUp(o.queue) /\ t.busy = GivenUp(o.busy) /\ t.timedOut = o.timedOut
      /\ t.answer = o.answer /\ t.cancels = o.cancels
      /\ t \in [queue : {GivenUp(o.queue)}, busy : {GivenUp(o.busy)}, timedOut : BOOLEAN,
               cancels : {o.cancels},
               answer : [kind : {o.answer.kind}, frame : {o.answer.frame}]]
  BY ONLY <1>2, t = Unwaited(o) DEF OwnerShape, Unwaited
<1>4. /\ t.queue \in Seq(Commands) /\ t.busy \in Seq(Commands)
      /\ Len(t.queue) = Len(o.queue) /\ Len(t.busy) = Len(o.busy)
      /\ \A i \in 1 .. Len(o.queue) : /\ t.queue[i].name = o.queue[i].name
                                      /\ t.queue[i].n = o.queue[i].n
                                      /\ ~t.queue[i].waited
      /\ \A i \in 1 .. Len(o.busy) : /\ t.busy[i].name = o.busy[i].name
                                     /\ t.busy[i].n = o.busy[i].n
                                     /\ ~t.busy[i].waited
  BY <1>1, <1>2, <1>3
<1>5. OwnerShape(t)
  BY ONLY <1>3, <1>4 DEF OwnerShape
<1>6. t.busy = <<>> <=> o.busy = <<>>
  BY <1>2, <1>4
<1>7. o.busy # <<>> => 1 \in 1 .. Len(o.busy)
  BY <1>2
<1>8. \A n : /\ \A i \in 1 .. Len(o.queue) : IsStep(t.queue[i], n) <=> IsStep(o.queue[i], n)
             /\ o.busy # <<>> => (IsStep(t.busy[1], n) <=> IsStep(o.busy[1], n))
  BY <1>4, <1>7 DEF IsStep
<1>9. CommandsOK(t)
  BY <1>2, <1>4, <1>5, <1>6, <1>7, <1>8 DEF CommandsOK
<1>10. \A n \in 0 .. MaxDispatches : Steps(t, n) <=> Steps(o, n)
  BY <1>4, <1>6, <1>8 DEF Steps
<1> QED  BY <1>3, <1>4, <1>6, <1>7, <1>9, <1>10
\* The answer and the marks of the owner do not matter to its commands.
LEMMA SameCommands ==
    ASSUME NEW o, CommandsOK(o), NEW t, OwnerShape(t), t.queue = o.queue, t.busy = o.busy
    PROVE  CommandsOK(t) /\ \A n : Steps(t, n) <=> Steps(o, n)
PROOF BY DEF CommandsOK, Steps

\* A deadline passes: somebody who waited is told so, and what was submitted goes
\* on unwaited.
LEMMA TimeoutKeeps == WorldInv /\ Timeout => WorldInv'
PROOF
<1> SUFFICES ASSUME WorldInv, Timeout PROVE WorldInv'
  OBVIOUS
<1>1. CommandsOK(owner) /\ PageOK(page, owner) /\ WaitOK(owner, act, acq)
  BY DEF WorldInv
<1>2. UNCHANGED <<deployment, page, co, acq, act, ad, closed>>
  BY DEF Timeout
<1>3. PICK o : o = Unwaited(owner)
  OBVIOUS
<1>4. /\ CommandsOK(o) /\ o.timedOut = owner.timedOut /\ o.answer = owner.answer
      /\ \A n \in 0 .. MaxDispatches : Steps(o, n) <=> Steps(owner, n)
      /\ \A i \in 1 .. Len(o.queue) : ~o.queue[i].waited
      /\ o.busy # <<>> => ~o.busy[1].waited
      /\ OwnerShape(o)
  BY <1>1, <1>3, UnwaitedGives DEF CommandsOK
<1>5. PICK a : a = IF Awaiting THEN OwnerAnswer("raised", NoFrame) ELSE o.answer
  OBVIOUS
<1>6. PICK late : late = (o.timedOut \/ Overdue)
  OBVIOUS
<1>7. a \in [kind : {a.kind}, frame : {a.frame}]
  BY <1>4, <1>5, AnswerIs DEF OwnerShape
<1>8. owner' = [o EXCEPT !.timedOut = late, !.answer = a]
  BY ONLY Timeout, <1>3, <1>5, <1>6 DEF Timeout
<1>9. late \in BOOLEAN
  BY <1>4, <1>6 DEF OwnerShape
<1>10. /\ owner'.queue = o.queue /\ owner'.busy = o.busy /\ owner'.answer = a
       /\ owner' \in [queue : Seq(Commands), busy : Seq(Commands), timedOut : {late},
                      cancels : {o.cancels}, answer : {a}]
       /\ owner'.cancels = o.cancels
  BY ONLY <1>4, <1>8 DEF OwnerShape
<1>11. OwnerShape(owner')
  BY ONLY <1>7, <1>9, <1>10 DEF OwnerShape
<1>12. CommandsOK(owner') /\ \A n : Steps(owner', n) <=> Steps(o, n)
  BY <1>4, <1>10, <1>11, SameCommands
<1>13. WaitOK(owner', act, acq)
  <2>1. Expected(act, acq) = "nothing" => a.kind = "none"
    BY <1>1, <1>4, <1>5 DEF WaitOK, Expected, Awaiting
  <2> QED  BY <1>4, <1>10, <2>1 DEF WaitOK
<1>14. \A n \in Sends : Steps(owner', n) <=> Steps(owner, n)
  BY <1>4, <1>12, SendsAreCommands
<1>15. PageOK(page', owner') /\ Ages(page, owner, page', owner')
  BY <1>1, <1>2, <1>14 DEF PageOK, Ages, Used
<1>16. owner'.answer = owner.answer \/ owner'.answer.kind \in {"none", "raised"}
  BY <1>4, <1>5, <1>10, AnswerIs
<1> QED  BY <1>2, <1>12, <1>13, <1>15, <1>16, AnswerAges, AgesKeeps
-----------------------------------------------------------------------------
(* What the run asks of the owner.                                         *)

\* Nobody waits for a command of the owner.
Unhurried(o) ==
    /\ \A i \in 1 .. Len(o.queue) : ~o.queue[i].waited
    /\ o.busy # <<>> => ~o.busy[1].waited

\* Whoever has been answered, or waits for nothing, has no command left.
LEMMA NobodyWaits ==
    ASSUME NEW o, CommandsOK(o), NEW m, NEW q, WaitOK(o, m, q),
           o.answer.kind # "none" \/ Expected(m, q) = "nothing"
    PROVE  Unhurried(o)
PROOF
<1>1. "nothing" \notin CommandNames
  BY DEF CommandNames
<1>2. \A i \in 1 .. Len(o.queue) : o.queue[i].name \in CommandNames
  BY CommandsAre DEF Commands
<1>3. o.busy # <<>> => o.busy[1].name \in CommandNames
  BY CommandsAre DEF Commands
<1> QED  BY <1>1, <1>2, <1>3 DEF WaitOK, Unhurried

\* An answer that is read is gone, and nothing else is.
LEMMA ReadGives ==
    ASSUME NEW o, CommandsOK(o), Unhurried(o), NEW t,
           t = [o EXCEPT !.answer = OwnerAnswer("none", NoFrame)]
    PROVE  /\ CommandsOK(t) /\ Quiet(t) /\ \A n : Steps(t, n) <=> Steps(o, n)
           /\ t.timedOut = o.timedOut /\ t.queue = o.queue
PROOF
<1>1. PICK a : a = OwnerAnswer("none", NoFrame)
  OBVIOUS
<1>2. a.kind = "none" /\ a \in [kind : {a.kind}, frame : {a.frame}]
  BY <1>1, AnswerIs
<1>3. OwnerShape(o) /\ t = [o EXCEPT !.answer = a]
  BY <1>1 DEF CommandsOK
<1>4. OwnerShape(t) /\ t.queue = o.queue /\ t.busy = o.busy /\ t.answer = a
      /\ t.timedOut = o.timedOut
  BY ONLY <1>2, <1>3 DEF OwnerShape
<1> QED  BY <1>2, <1>4, SameCommands DEF Quiet, Unhurried

\* A cancelled wait leaves the commands to themselves.
LEMMA AbandonedGives ==
    ASSUME CommandsOK(owner), NEW t, t = Abandoned
    PROVE  /\ CommandsOK(t) /\ Quiet(t) /\ t.timedOut = owner.timedOut
           /\ Len(t.queue) = Len(owner.queue)
           /\ \A n \in 0 .. MaxDispatches : Steps(t, n) <=> Steps(owner, n)
PROOF
<1>1. PICK o : o = Unwaited(owner)
  OBVIOUS
<1>2. /\ CommandsOK(o) /\ OwnerShape(o) /\ o.timedOut = owner.timedOut
      /\ Len(o.queue) = Len(owner.queue)
      /\ \A n \in 0 .. MaxDispatches : Steps(o, n) <=> Steps(owner, n)
      /\ \A i \in 1 .. Len(o.queue) : ~o.queue[i].waited
      /\ o.busy # <<>> => ~o.busy[1].waited
  BY <1>1, UnwaitedGives DEF CommandsOK
<1>3. PICK a : a = OwnerAnswer("none", NoFrame)
  OBVIOUS
<1>4. a.kind = "none" /\ a \in [kind : {a.kind}, frame : {a.frame}]
  BY <1>3, AnswerIs
<1>5. t = [o EXCEPT !.answer = a, !.cancels = @ + 1]
  BY ONLY t = Abandoned, <1>1, <1>3 DEF Abandoned
<1>6. /\ t.queue = o.queue /\ t.busy = o.busy /\ t.answer = a /\ t.timedOut = o.timedOut
      /\ t \in [queue : Seq(Commands), busy : Seq(Commands), timedOut : BOOLEAN,
               cancels : {o.cancels + 1}, answer : {a}]
      /\ t.cancels = o.cancels + 1
  BY ONLY <1>2, <1>5 DEF OwnerShape
<1>7. OwnerShape(t)
  BY ONLY <1>4, <1>6 DEF OwnerShape
<1>8. CommandsOK(t) /\ \A n : Steps(t, n) <=> Steps(o, n)
  BY <1>2, <1>6, <1>7, SameCommands
<1> QED  BY <1>2, <1>4, <1>6, <1>8 DEF Quiet

\* What the run has sent the owner off for, if it still takes commands.
AskedOf(o, t, name, n) ==
    /\ OwnerShape(t) /\ t.timedOut = o.timedOut /\ t.busy = o.busy
    /\ IF o.timedOut THEN t.queue = o.queue /\ t.answer.kind \in {"none", "raised"}
       ELSE /\ t.queue = Append(o.queue, [name |-> name, n |-> n, waited |-> TRUE])
            /\ t.answer.kind = "none"

\* A command more: the one that is waited for is the last of its queue, and a
\* step is there once.
LEMMA SubmittedGives ==
    ASSUME NEW o, CommandsOK(o), Unhurried(o), NEW name \in CommandNames,
           NEW n \in 0 .. MaxDispatches, name = "step" => n # 0 /\ ~Steps(o, n),
           NEW t, AskedOf(o, t, name, n)
    PROVE  /\ CommandsOK(t)
           /\ \A k \in 0 .. MaxDispatches :
                Steps(t, k) => Steps(o, k) \/ (name = "step" /\ k = n)
           /\ \A m, q : Expected(m, q) = name /\ (name = "step" => m.n = n) => WaitOK(t, m, q)
PROOF
<1>1. \A m, q : Expected(m, q) = name => Expected(m, q) # "nothing"
  BY DEF CommandNames
<1>2. CASE o.timedOut
  <2>1. /\ OwnerShape(t) /\ t.busy = o.busy /\ t.queue = o.queue
    BY <1>2 DEF AskedOf
  <2>2. CommandsOK(t) /\ \A k : Steps(t, k) <=> Steps(o, k)
    BY <2>1, SameCommands
  <2>3. \A m, q : Expected(m, q) = name => WaitOK(t, m, q)
    BY <1>1, <2>1 DEF WaitOK, Unhurried
  <2> QED  BY <2>2, <2>3
<1>3. CASE ~o.timedOut
  <2>1. PICK c : c = [name |-> name, n |-> n, waited |-> TRUE]
    OBVIOUS
  <2>2. c \in Commands /\ c.name = name /\ c.n = n
    BY <2>1 DEF Commands
  <2>3. /\ OwnerShape(t) /\ t.busy = o.busy /\ t.queue = Append(o.queue, c)
        /\ t.answer.kind = "none"
    BY <1>3, <2>1 DEF AskedOf
  <2>4. o.queue \in Seq(Commands) /\ Len(o.queue) \in Nat
    BY CommandsAre
  <2>5. /\ Len(t.queue) = Len(o.queue) + 1 /\ t.queue[Len(t.queue)] = c
        /\ \A i \in 1 .. Len(o.queue) : t.queue[i] = o.queue[i]
        /\ Len(t.queue) \in Nat
    BY ONLY <2>2, <2>3, <2>4
  <2>6. \A i \in 1 .. Len(t.queue) : i \in 1 .. Len(o.queue) \/ i = Len(t.queue)
    BY ONLY <2>4, <2>5
  <2>7. \A k : IsStep(c, k) <=> name = "step" /\ k = n
    BY <2>2 DEF IsStep
  <2>8. \A k \in 0 .. MaxDispatches, i \in 1 .. Len(o.queue) :
           IsStep(o.queue[i], k) => Steps(o, k)
    BY DEF Steps
  <2>9. ASSUME NEW i \in 1 .. Len(t.queue), NEW j \in 1 .. Len(t.queue),
               NEW k \in 0 .. MaxDispatches, IsStep(t.queue[i], k), IsStep(t.queue[j], k)
        PROVE  i = j
    <3>1. CASE i \in 1 .. Len(o.queue) /\ j \in 1 .. Len(o.queue)
      BY <2>5, <2>9, <3>1 DEF CommandsOK
    <3>2. CASE i = Len(t.queue) /\ j \in 1 .. Len(o.queue)
      BY <2>5, <2>7, <2>8, <2>9, <3>2
    <3>3. CASE i \in 1 .. Len(o.queue) /\ j = Len(t.queue)
      BY <2>5, <2>7, <2>8, <2>9, <3>3
    <3> QED  BY <2>6, <3>1, <3>2, <3>3
  <2>10. ASSUME NEW i \in 1 .. Len(t.queue), NEW k \in 0 .. MaxDispatches,
                IsStep(t.queue[i], k)
         PROVE  k # 0 /\ (t.busy # <<>> => ~IsStep(t.busy[1], k))
    <3>1. CASE i \in 1 .. Len(o.queue)
      BY <2>3, <2>5, <2>10, <3>1 DEF CommandsOK
    <3>2. CASE i = Len(t.queue)
      BY <2>3, <2>5, <2>7, <2>10, <3>2 DEF Steps
    <3> QED  BY <2>6, <3>1, <3>2
  <2>11. CommandsOK(t)
    BY <2>3, <2>9, <2>10 DEF CommandsOK
  <2>12. \A k \in 0 .. MaxDispatches :
            Steps(t, k) => Steps(o, k) \/ (name = "step" /\ k = n)
    BY <2>3, <2>5, <2>6, <2>7 DEF Steps
  <2>13. ASSUME NEW m, NEW q, Expected(m, q) = name, name = "step" => m.n = n
         PROVE  WaitOK(t, m, q)
    <3>1. ASSUME NEW i \in 1 .. Len(t.queue), t.queue[i].waited
          PROVE  i = Len(t.queue) /\ t.queue[i] = c
      BY <2>5, <2>6, <3>1 DEF Unhurried
    <3>2. t.busy # <<>> => ~t.busy[1].waited
      BY <2>3 DEF Unhurried
    <3> QED  BY <2>2, <2>3, <2>13, <3>1, <3>2 DEF WaitOK, IsStep
  <2> QED  BY <2>11, <2>12, <2>13
<1> QED  BY <1>2, <1>3

\* _call asks in this way.
LEMMA SubmittedAsks ==
    ASSUME CommandsOK(owner), NEW name \in CommandNames, act.n \in 0 .. MaxDispatches,
           owner.answer.kind = "none", NEW t, t = Submitted(name)
    PROVE  AskedOf(owner, t, name, act.n)
PROOF
<1>1. OwnerShape(owner) /\ owner.queue \in Seq(Commands)
  BY DEF CommandsOK, OwnerShape
<1>2. CASE owner.timedOut
  <2>1. PICK a : a = OwnerAnswer("raised", NoFrame)
    OBVIOUS
  <2>2. a.kind = "raised" /\ a \in [kind : {a.kind}, frame : {a.frame}]
    BY <2>1, AnswerIs
  <2>3. t = [owner EXCEPT !.answer = a]
    BY <1>2, <2>1 DEF Submitted
  <2>4. OwnerShape(t) /\ t.queue = owner.queue /\ t.busy = owner.busy /\ t.answer = a
        /\ t.timedOut = owner.timedOut
    BY ONLY <1>1, <2>2, <2>3 DEF OwnerShape
  <2> QED  BY <1>2, <2>2, <2>4 DEF AskedOf
<1>3. CASE ~owner.timedOut
  <2>1. PICK c : c = [name |-> name, n |-> act.n, waited |-> TRUE]
    OBVIOUS
  <2>2. t = [owner EXCEPT !.queue = Append(@, c)]
    BY <1>3, <2>1 DEF Submitted, SubmittedAnyway
  <2>3. c \in Commands /\ Append(owner.queue, c) \in Seq(Commands)
    BY <1>1, <2>1 DEF Commands
  <2>4. /\ OwnerShape(t) /\ t.queue = Append(owner.queue, c) /\ t.busy = owner.busy
        /\ t.answer = owner.answer /\ t.timedOut = owner.timedOut
    BY ONLY <1>1, <2>2, <2>3 DEF OwnerShape
  <2> QED  BY <1>3, <2>1, <2>4 DEF AskedOf
<1> QED  BY <1>2, <1>3
-----------------------------------------------------------------------------
(* The rounds of an acquisition.                                           *)

\* Everything acquired shows one frame.
Shows(results, frame) ==
    \A src \in DOMAIN results :
        results[src].status = "acquired" => results[src].obs.seen = frame.seen

\* Results laid over results show a frame, or are fresh, if both are.
LEMMA OverKeeps ==
    ASSUME NEW f, NEW g
    PROVE  /\ \A frame : Shows(f, frame) /\ Shows(g, frame) => Shows(Over(f, g), frame)
           /\ \A p, n : Fresh(p, f, n) /\ Fresh(p, g, n) => Fresh(p, Over(f, g), n)
PROOF BY DEF Over, Shows, Fresh

\* A round that failed shows nothing.
LEMMA NothingAcquired ==
    ASSUME NEW requests, NEW status \in {"failed", "unavailable"}
    PROVE  /\ \A frame : Shows(AllFail(requests, status), frame)
           /\ \A p, n : Fresh(p, AllFail(requests, status), n)
PROOF
<1>1. PICK f : f = AllFail(requests, status)
  OBVIOUS
<1>2. \A src \in DOMAIN f : f[src].status = status
  BY <1>1 DEF AllFail, SourceResult
<1>3. status # "acquired"
  OBVIOUS
<1> QED  BY ONLY <1>1, <1>2, <1>3 DEF Shows, Fresh

\* A single result shows its frame.
LEMMA OnlyShows ==
    ASSUME NEW src, NEW x, NEW frame, x.status = "acquired" => x.obs.seen = frame.seen
    PROVE  Shows(Only(src, x), frame)
PROOF BY DEF Shows, Only

\* What becomes of a frame shows that frame.
LEMMA ProjectedShows ==
    ASSUME NEW requests, NEW frame, NEW structured,
           NEW outcome \in Projected(requests, frame, structured)
    PROVE  /\ Shows(outcome.results, frame)
           /\ outcome = [results |-> outcome.results, faulty |-> outcome.faulty,
                         layer |-> outcome.layer]
PROOF
<1>1. PICK visual : visual = RequestOf(requests, "visual")
  OBVIOUS
<1>2. PICK domain : domain = IF Asks(requests, "dom")
                     THEN Only("dom", DomResult(RequestOf(requests, "dom"), frame)) ELSE <<>>
  OBVIOUS
<1>3. \E r, faulty :
        /\ outcome = Reading(r, faulty, FALSE)
        /\ \/ r = domain
           \/ r = AllFail(requests, "failed")
           \/ \E x : /\ r = Over(domain, Only("visual", x))
                     /\ x.status = "acquired" => x.obs.seen = frame.seen
  <2>1. \A x \in VisualResults(visual, frame) : x.obs.seen = frame.seen
    BY DEF VisualResults, SourceResult, Obs
  <2>2. \A status, q :
          /\ SourceResult(visual, status, {}, NoBinding).status = status
          /\ [SourceResult(visual, status, {}, NoBinding) EXCEPT !.query = q].status = status
    BY DEF SourceResult
  <2>3. \/ outcome = Reading(domain, FALSE, FALSE)
        \/ \E faulty : outcome = Reading(AllFail(requests, "failed"), faulty, FALSE)
        \/ \E x \in VisualResults(visual, frame) :
              outcome = Reading(Over(domain, Only("visual", x)), FALSE, FALSE)
        \/ \E q : outcome =
              Reading(Over(domain, Only("visual",
                 [SourceResult(visual, "failed", {}, NoBinding) EXCEPT !.query = q])), TRUE, FALSE)
        \/ outcome = Reading(Over(domain, Only("visual",
                 SourceResult(visual, "unavailable", {}, NoBinding))), FALSE, FALSE)
    BY <1>1, <1>2 DEF Projected
  <2>4. CASE outcome = Reading(domain, FALSE, FALSE)
    BY <2>4
  <2>5. CASE \E faulty : outcome = Reading(AllFail(requests, "failed"), faulty, FALSE)
    BY <2>5
  <2>6. CASE \E x \in VisualResults(visual, frame) :
               outcome = Reading(Over(domain, Only("visual", x)), FALSE, FALSE)
    BY <2>1, <2>6
  <2>7. CASE \E q : outcome =
               Reading(Over(domain, Only("visual",
                 [SourceResult(visual, "failed", {}, NoBinding) EXCEPT !.query = q])), TRUE, FALSE)
    <3>1. PICK q, x : /\ x = [SourceResult(visual, "failed", {}, NoBinding) EXCEPT !.query = q]
                      /\ outcome = Reading(Over(domain, Only("visual", x)), TRUE, FALSE)
      BY <2>7
    <3>2. x.status # "acquired"
      BY <2>2, <3>1
    <3> QED  BY <3>1, <3>2
  <2>8. CASE outcome = Reading(Over(domain, Only("visual",
                 SourceResult(visual, "unavailable", {}, NoBinding))), FALSE, FALSE)
    <3>1. PICK x : /\ x = SourceResult(visual, "unavailable", {}, NoBinding)
                   /\ outcome = Reading(Over(domain, Only("visual", x)), FALSE, FALSE)
      BY <2>8
    <3>2. x.status # "acquired"
      BY <2>2, <3>1
    <3> QED  BY <3>1, <3>2
  <2> QED  BY ONLY <2>3, <2>4, <2>5, <2>6, <2>7, <2>8
<1>4. Shows(domain, frame)
  <2>1. \A src : Shows(Only(src, DomResult(RequestOf(requests, "dom"), frame)), frame)
    BY OnlyShows DEF DomResult, SourceResult, Obs
  <2>2. Shows(<<>>, frame)
    BY DEF Shows
  <2> QED  BY <1>2, <2>1, <2>2
<1>5. PICK r, faulty :
        /\ outcome = Reading(r, faulty, FALSE)
        /\ \/ r = domain
           \/ r = AllFail(requests, "failed")
           \/ \E x : /\ r = Over(domain, Only("visual", x))
                     /\ x.status = "acquired" => x.obs.seen = frame.seen
  BY <1>3
<1>6. Shows(r, frame)
  BY <1>4, <1>5, NothingAcquired, OnlyShows, OverKeeps
<1> QED  BY <1>5, <1>6 DEF Reading

\* The answer of a round: what is known of the dispatch goes over to what comes
\* next, if what was acquired is fresh.
LEMMA AnswerKeeps ==
    ASSUME WorldInv, act.at = "acquire", NEW outcome, CaptureAnswered(act, acq, outcome),
           deployment' = deployment, PageOK(page', owner'), CommandsOK(owner'),
           Quiet(owner'), AdShape(ad'), Ages(page, owner, page', owner'),
           acq.then \in After /\ act.status = "sent" =>
              /\ SentOK(deployment, page', owner', ad', act)
              /\ Fresh(page', outcome.results, act.n)
    PROVE  WorldInv'
PROOF
<1>1. /\ ActShape(act) /\ AcqShape(acq)
      /\ AcqOK(deployment, page, owner, ad, act, acq) /\ ClosedOK(page, owner, closed)
  BY DEF WorldInv, ActOK
<1>2. PICK q : /\ q.then = acq.then /\ q.results = Over(outcome.results, acq.results)
               /\ Leads(act, q, act', acq', closed, closed')
  BY <1>1, AnsweredLeads
<1>3. AcqOK(deployment, page', owner', ad, act, acq)
  BY <1>1, AgesKeepsAcq
<1>4. AcqOK(deployment', page', owner', ad', act, q)
  <2>1. ASSUME acq.then \in After, act.status = "sent"
        PROVE  Fresh(page', q.results, act.n)
    BY <1>2, <1>3, <2>1, OverKeeps DEF AcqOK
  <2> QED  BY <1>2, <1>3, <2>1 DEF AcqOK
<1>5. ClosedOK(page', owner', closed)
  BY <1>1, AgesKeepsClosed
<1> QED  BY <1>1, <1>2, <1>4, <1>5, LeadsKeeps

\* The start of an acquisition.
LEMMA StartKeeps ==
    ASSUME NEW m, ActShape(m), m.at = "acquire", NEW kind, NEW requested, NEW route,
           NEW then \in Purposes, Starts(m, Begin(kind, requested, route, then)),
           PageOK(page', owner'), CommandsOK(owner'), Quiet(owner'), AdShape(ad'),
           ClosedOK(page', owner', closed),
           then = "final" => m.n = 0,
           then # "final" => \A n \in Sends : Used(page', owner', n) => n <= m.n,
           then \in After => m.n \in Sends /\ m.status \in {"sent", "unknown"},
           then \in After /\ m.status = "sent" => SentOK(deployment', page', owner', ad', m)
    PROVE  WorldInv'
PROOF
<1>1. PICK q : /\ q.then = then /\ q.results = <<>>
               /\ Leads(m, q, act', acq', closed, closed')
  BY StartsLead
<1>2. Fresh(page', q.results, m.n)
  BY <1>1 DEF Fresh
<1>3. AcqOK(deployment', page', owner', ad', m, q)
  BY <1>1, <1>2 DEF AcqOK
<1> QED  BY <1>1, <1>3, LeadsKeeps
-----------------------------------------------------------------------------
(* The steps of the loop.                                                  *)

\* A loop that waits for nothing has nobody to answer it.
LEMMA RestIsQuiet ==
    ASSUME WorldInv, Expected(act, acq) = "nothing"
    PROVE  Quiet(owner)
PROOF
<1>1. Unhurried(owner) /\ owner.answer.kind = "none"
  BY NobodyWaits DEF WorldInv, WaitOK
<1> QED  BY <1>1 DEF Quiet, Unhurried

\* Outside an acquisition and the waits of a dispatch nothing is going on.
LEMMA OutOfAcquisition ==
    ASSUME WorldInv, act.at \notin {"acquire", "probe", "step", "final", "health_probe"}
    PROVE  acq.at = "none" /\ Quiet(owner)
PROOF
<1>1. acq.at = "none"
  BY DEF WorldInv
<1> QED  BY <1>1, RestIsQuiet DEF Expected

\* The parts of the invariant that an unchanged page and owner keep.
LEMMA Untouched ==
    ASSUME WorldInv
    PROVE  /\ PageOK(page, owner) /\ CommandsOK(owner) /\ AdShape(ad) /\ ActShape(act)
           /\ ClosedOK(page, owner, closed) /\ Ages(page, owner, page, owner)
           /\ act.at \notin {"acquire", "final", "ended"} =>
                \A n \in Sends : Used(page, owner, n) => n <= act.n
PROOF BY DEF WorldInv, Ages, ActOK

\* The loop at another place, with nothing else of the world changed.
LEMMA PlacedKeeps ==
    ASSUME WorldInv, acq.at = "none", Quiet(owner'), CommandsOK(owner'),
           PageOK(page', owner'), Ages(page, owner, page', owner'), AdShape(ad'),
           acq' = acq, closed' = closed \/ ClosedOK(page', owner', closed'),
           ActShape(act'),
           act'.at \in {"idle", "refresh", "blocked", "ended", "health"},
           act'.at # "ended" => \A n \in Sends : Used(page', owner', n) => n <= act'.n,
           act'.at = "health" => act'.status = "unknown"
    PROVE  WorldInv'
PROOF
<1>1. ClosedOK(page', owner', closed')
  BY AgesKeepsClosed DEF WorldInv
<1>2. WaitOK(owner', act', acq')
  BY DEF Quiet, WaitOK
<1>3. ActOK(deployment', page', owner', ad', act', acq', closed')
  BY DEF ActOK
<1>4. AcqShape(acq') /\ acq'.at = "none"
  BY DEF WorldInv
<1> QED  BY <1>1, <1>2, <1>3, <1>4 DEF WorldInv

\* A step at a place of the loop, with nothing sent.
LEMMA DoingIs ==
    ASSUME NEW at \in LoopPlaces, NEW n \in 0 .. MaxDispatches
    PROVE  LET m == Doing(at, n)
           IN  ActShape(m) /\ m.at = at /\ m.n = n /\ m.status = "not_sent"
PROOF BY DEF Doing, ActShape

\* The run begins (reset, core_loop.py).
LEMMA ResetKeeps == WorldInv /\ Reset => WorldInv'
PROOF
<1> SUFFICES ASSUME WorldInv, Reset PROVE WorldInv'
  OBVIOUS
<1>1. act.at = "start" /\ UNCHANGED <<deployment, owner>>
  BY DEF Reset
<1>2. acq.at = "none" /\ Quiet(owner')
  BY <1>1, OutOfAcquisition
<1>3. /\ PageOK(page, owner) /\ CommandsOK(owner) /\ AdShape(ad) /\ ActShape(act)
      /\ ClosedOK(page, owner, closed) /\ PageShape(page)
      /\ \A n \in Sends : Used(page, owner, n) => n <= act.n
  BY <1>1, Untouched DEF PageOK
<1>4. CASE /\ IF deployment = "gym"
              THEN /\ ad' = [ad EXCEPT !.pend = NextFrame]
                   /\ page' = [page EXCEPT !.serial = @ + 1]
              ELSE UNCHANGED <<page, ad>>
           /\ Starts([act EXCEPT !.at = "acquire"], Begin("policy", {}, "", "reset"))
  <2>1. PageShape(page') /\ page'.v = page.v /\ page'.out = page.out
        /\ page'.landed = page.landed
    <3>1. page' = page \/ page' = [page EXCEPT !.serial = page.serial + 1]
      BY <1>4
    <3> QED  BY ONLY <1>3, <3>1 DEF PageShape
  <2>2. AdShape(ad')
    BY <1>3, <1>4 DEF AdShape
  <2>3. PageOK(page', owner') /\ Ages(page, owner, page', owner')
    BY <1>1, <1>3, <2>1, FramedPage, FramedAges
  <2>4. ClosedOK(page', owner', closed)
    BY <1>3, <2>3, AgesKeepsClosed
  <2>5. PICK m : m = [act EXCEPT !.at = "acquire"]
    OBVIOUS
  <2>6. ActShape(m) /\ m.at = "acquire" /\ m.n = act.n
    BY <1>3, <2>5, MovedAct DEF LoopPlaces
  <2>7. \A n \in Sends : Used(page', owner', n) => n <= m.n
    BY <1>3, <2>3, <2>6 DEF Ages
  <2>8. Starts(m, Begin("policy", {}, "", "reset")) /\ "reset" \in Purposes /\ "reset" \notin After
    BY <1>4, <2>5 DEF Purposes, After
  <2> QED  BY <1>1, <1>2, <1>3, <2>2, <2>3, <2>4, <2>6, <2>7, <2>8, StartKeeps
<1>5. CASE act' = Doing("ended", act.n) /\ UNCHANGED <<page, co, acq, ad, closed>>
  <2>1. ActShape(act') /\ act'.at = "ended"
    BY <1>3, <1>5, DoingIs DEF ActShape, LoopPlaces
  <2>2. Ages(page, owner, page', owner')
    BY <1>1, <1>5, Untouched
  <2> QED  BY <1>1, <1>2, <1>3, <1>5, <2>1, <2>2, PlacedKeeps
<1> QED  BY <1>4, <1>5 DEF Reset

\* An acquisition begins on an unchanged page.
LEMMA SimpleStartKeeps ==
    ASSUME WorldInv, act.at \in {"idle", "refresh", "blocked", "recover"},
           UNCHANGED <<deployment, page, ad, owner>>,
           NEW kind, NEW requested,
           NEW then \in {"observe", "refresh", "recover"}, then = "recover" <=> act.at = "recover",
           Starts([act EXCEPT !.at = "acquire"], Begin(kind, requested, "", then))
    PROVE  WorldInv'
PROOF
<1>1. acq.at = "none" /\ Quiet(owner')
  BY OutOfAcquisition
<1>2. /\ PageOK(page, owner) /\ CommandsOK(owner) /\ AdShape(ad) /\ ActShape(act)
      /\ ClosedOK(page, owner, closed)
      /\ \A n \in Sends : Used(page, owner, n) => n <= act.n
  BY Untouched
<1>3. PICK m : m = [act EXCEPT !.at = "acquire"]
  OBVIOUS
<1>4. ActShape(m) /\ m.at = "acquire" /\ m.n = act.n /\ m.status = act.status
  BY <1>2, <1>3, MovedAct DEF LoopPlaces
<1>5. then \in Purposes /\ then # "final"
  BY DEF Purposes
<1>6. then \in After => /\ m.n \in Sends /\ m.status \in {"sent", "unknown"}
                        /\ m.status = "sent" => SentOK(deployment, page, owner, ad, m)
  BY <1>4 DEF After, WorldInv, ActOK, SentOK
<1>7. Starts(m, Begin(kind, requested, "", then))
  BY <1>3
<1>8. SentOK(deployment, page, owner, ad, m) => SentOK(deployment', page', owner', ad', m)
  OBVIOUS
<1> QED  BY <1>1, <1>2, <1>4, <1>5, <1>6, <1>7, <1>8, StartKeeps

\* The loop looks again, refreshes a stale binding or a blocked world, or
\* recovers what it could not see (_observe, _refresh_stale_binding,
\* _recover_post_dispatch_observation).
LEMMA LooksKeep == WorldInv /\ (Observe \/ Refresh \/ Recover) => WorldInv'
PROOF
<1>1. ASSUME WorldInv, Observe PROVE WorldInv'
  BY <1>1, SimpleStartKeeps DEF Observe
<1>2. ASSUME WorldInv, Refresh PROVE WorldInv'
  BY <1>2, SimpleStartKeeps DEF Refresh
<1>3. ASSUME WorldInv, Recover PROVE WorldInv'
  BY <1>3, SimpleStartKeeps DEF Recover
<1> QED  BY <1>1, <1>2, <1>3
\* The policy acts: a dispatch with a number of its own (_select).
LEMMA SelectKeeps == WorldInv /\ SelectAction => WorldInv'
PROOF
<1> SUFFICES ASSUME WorldInv, SelectAction PROVE WorldInv'
  OBVIOUS
<1>1. act.at = "idle" /\ act.n < MaxDispatches
  BY DEF SelectAction
<1>2. /\ closed' = NothingClosed /\ UNCHANGED <<deployment, page, co, acq, ad, owner>>
      /\ \E obs, needs : act' = [at |-> "bound", n |-> act.n + 1, binding |-> obs,
                                 needs |-> needs, status |-> "not_sent", faulty |-> FALSE]
  BY DEF SelectAction
<1>3. /\ act.n \in 0 .. MaxDispatches /\ AdShape(ad) /\ AcqShape(acq) /\ acq.at = "none"
      /\ PageOK(page, owner) /\ CommandsOK(owner) /\ Quiet(owner)
      /\ \A n \in Sends : Used(page, owner, n) => n <= act.n
  BY <1>1, OutOfAcquisition, Untouched DEF WorldInv, ActShape
<1>4. act.n + 1 \in Sends /\ act.n + 1 \in 0 .. MaxDispatches
  BY <1>1, <1>3, DispatchesAssumption DEF Sends
<1>5. ActShape(act') /\ act'.at = "bound" /\ act'.n = act.n + 1 /\ act'.status = "not_sent"
  BY <1>2, <1>4 DEF ActShape, LoopPlaces
<1>6. \A n \in Sends : Used(page, owner, n) => n <= act'.n /\ n # act'.n
  BY <1>3, <1>5 DEF Sends
<1>7. closed'.n = 0
  BY <1>2 DEF NothingClosed
<1>8. ActOK(deployment, page, owner, ad, act', acq, closed')
  BY <1>4, <1>5, <1>6, <1>7 DEF ActOK
<1>9. ClosedOK(page, owner, closed')
  BY <1>7 DEF ClosedOK
<1>10. WaitOK(owner, act', acq)
  BY <1>3 DEF Quiet, WaitOK
<1> QED  BY <1>2, <1>3, <1>5, <1>8, <1>9, <1>10 DEF WorldInv

\* Nothing was sent: the dispatch is closed as one that never had an effect.
LEMMA NotSentKeeps ==
    ASSUME WorldInv, act.at \in {"bound", "probe"}, NEW error, NotSent(error),
           UNCHANGED <<deployment, page, ad>>, CommandsOK(owner'), Quiet(owner'),
           \A n \in Sends : Steps(owner', n) <=> Steps(owner, n)
    PROVE  WorldInv'
PROOF
<1>1. /\ acq.at = "none" /\ PageOK(page, owner) /\ AdShape(ad) /\ ActShape(act)
      /\ act.n \in Sends /\ act.n \in 0 .. MaxDispatches /\ act.status = "not_sent"
      /\ ~Used(page, owner, act.n)
      /\ \A n \in Sends : Used(page, owner, n) => n <= act.n
  BY DEF WorldInv, ActOK, ActShape
<1>2. \A n \in Sends : Used(page', owner', n) <=> Used(page, owner, n)
  BY DEF Used
<1>3. Ages(page, owner, page', owner') /\ PageOK(page', owner')
  BY <1>1 DEF Ages, Used, PageOK
<1>4. /\ closed'.n = act.n /\ closed'.status = "not_sent" /\ acq' = acq
      /\ \E at \in {"refresh", "idle", "ended"} : act' = Doing(at, act.n)
  BY DEF NotSent
<1>5. ActShape(act') /\ act'.at \in {"refresh", "idle", "ended"} /\ act'.n = act.n
  BY <1>1, <1>4, DoingIs DEF LoopPlaces
<1>6. ClosedOK(page', owner', closed')
  BY <1>1, <1>2, <1>4 DEF ClosedOK
<1> QED  BY <1>1, <1>2, <1>3, <1>4, <1>5, <1>6, PlacedKeeps

\* Something may have been sent: the acquisition after it.
LEMMA SentKeeps ==
    ASSUME WorldInv, act.at \in {"bound", "step"}, NEW status \in {"sent", "unknown"},
           NEW faulty, Sent(status, faulty), deployment' = deployment,
           PageOK(page', owner'), CommandsOK(owner'), Quiet(owner'), AdShape(ad'),
           \A n \in Sends : Used(page', owner', n) => n <= act.n,
           status = "sent" =>
             /\ ~Steps(owner', act.n)
             /\ act.n \in page'.out =>
                  deployment = "gym" /\ ad'.err = "navigation_pending" /\ ad'.pend = NoFrame
             /\ deployment = "gym" =>
                  ad'.pend = NoFrame \/ ad'.pend.seen >= page'.landed[act.n]
    PROVE  WorldInv'
PROOF
<1>1. ActShape(act) /\ act.n \in Sends /\ closed.n = 0
  BY DEF WorldInv, ActOK
<1>2. PICK m : m = Entering(act, status, faulty)
  OBVIOUS
<1>3. ActShape(m) /\ m.at = "acquire" /\ m.n = act.n /\ m.status = status
  BY <1>1, <1>2, DispatchedAct
<1>4. Starts(m, Begin("post", act.needs, act.binding.source, "post"))
  BY <1>2 DEF Sent, Entering
<1>5. ClosedOK(page', owner', closed)
  BY <1>1 DEF ClosedOK
<1>6. status = "sent" => SentOK(deployment', page', owner', ad', m)
  BY <1>3 DEF SentOK
<1>7. "post" \in Purposes /\ "post" # "final"
  BY DEF Purposes
<1> QED  BY <1>1, <1>3, <1>4, <1>5, <1>6, <1>7, StartKeeps
-----------------------------------------------------------------------------
(* The dom and bundle adapters.                                            *)

\* The adapter of a session after a capture is an adapter.
LEMMA SessionAdapterIs ==
    ASSUME AdShape(ad), NEW requests, NEW frame, NEW outcome, NEW t,
           t = SessionAdapter(requests, frame, outcome)
    PROVE  AdShape(t)
PROOF
<1>1. \E a, b, c, e : t = [ad EXCEPT !.dom = a, !.visual = b, !.pend = c, !.pendFor = e]
  BY DEF SessionAdapter
<1>2. PICK a, b, c, e : t = [ad EXCEPT !.dom = a, !.visual = b, !.pend = c, !.pendFor = e]
  BY <1>1
<1>3. t \in [dom : {a}, visual : {b}, pend : {c}, pendFor : {e}, before : {ad.before},
             err : {ad.err}, final : {ad.final}]
  BY ONLY <1>2, AdShape(ad) DEF AdShape
<1> QED  BY ONLY <1>3 DEF AdShape

\* A session captures and projects at once: nothing of its page is out.
LEMMA SessionAcquiresKeeps == WorldInv /\ SessionAcquires => WorldInv'
PROOF
<1> SUFFICES ASSUME WorldInv, SessionAcquires PROVE WorldInv'
  OBVIOUS
<1>1. /\ deployment # "gym" /\ acq.at = "ask" /\ act.at = "acquire"
      /\ UNCHANGED <<deployment, owner>>
  BY DEF SessionAcquires, WorldInv
<1>2. Quiet(owner')
  BY <1>1, RestIsQuiet DEF Expected
<1>3. /\ PageOK(page, owner) /\ CommandsOK(owner') /\ AdShape(ad) /\ PageShape(page)
      /\ ActShape(act) /\ AcqOK(deployment, page, owner, ad, act, acq)
  BY <1>1 DEF WorldInv, ActOK, PageOK
<1>4. acq.then \in After /\ act.status = "sent" =>
         act.n \in Sends /\ act.n \notin page.out /\ ~Steps(owner, act.n)
  BY <1>1, <1>3 DEF AcqOK, SentOK
<1>5. PICK requests : requests = Asked(acq)
  OBVIOUS
<1>6. CASE /\ \E status \in {"failed"} \cup
                  (IF Asks(requests, "visual") THEN {"unavailable"} ELSE {}) :
                 CaptureAnswered(act, acq, Reading(AllFail(requests, status), TRUE, FALSE))
           /\ UNCHANGED <<page, ad>>
  <2>1. PICK status \in {"failed", "unavailable"} :
                 CaptureAnswered(act, acq, Reading(AllFail(requests, status), TRUE, FALSE))
    BY <1>6
  <2>2. PICK outcome : outcome = Reading(AllFail(requests, status), TRUE, FALSE)
    OBVIOUS
  <2>3. CaptureAnswered(act, acq, outcome)
    BY <2>1, <2>2
  <2>4. Fresh(page', outcome.results, act.n)
    BY <2>2, NothingAcquired DEF Reading
  <2>5. Ages(page, owner, page', owner') /\ PageOK(page', owner')
    BY <1>1, <1>3, <1>6, Untouched
  <2>6. acq.then \in After /\ act.status = "sent" => SentOK(deployment, page', owner', ad', act)
    BY <1>1, <1>4, <1>6 DEF SentOK
  <2> QED  BY <1>1, <1>2, <1>3, <1>6, <2>3, <2>4, <2>5, <2>6, AnswerKeeps
<1>7. CASE /\ page' = [page EXCEPT !.serial = @ + 1]
           /\ \E structured : \E outcome, layer :
                 /\ outcome \in Projected(requests, NextFrame, structured)
                 /\ ad' = SessionAdapter(requests, NextFrame, outcome)
                 /\ CaptureAnswered(act, acq, [outcome EXCEPT !.layer = layer])
  <2>1. PICK structured : \E outcome, layer :
                 /\ outcome \in Projected(requests, NextFrame, structured)
                 /\ ad' = SessionAdapter(requests, NextFrame, outcome)
                 /\ CaptureAnswered(act, acq, [outcome EXCEPT !.layer = layer])
    BY <1>7
  <2>2. PICK outcome, layer :
                 /\ outcome \in Projected(requests, NextFrame, structured)
                 /\ ad' = SessionAdapter(requests, NextFrame, outcome)
                 /\ CaptureAnswered(act, acq, [outcome EXCEPT !.layer = layer])
    BY <2>1
  <2>3. PICK x : x = [outcome EXCEPT !.layer = layer]
    OBVIOUS
  <2>4. Shows(x.results, NextFrame)
    <3>1. /\ Shows(outcome.results, NextFrame)
          /\ outcome = [results |-> outcome.results, faulty |-> outcome.faulty,
                        layer |-> outcome.layer]
      BY <2>2, ProjectedShows
    <3>2. x.results = outcome.results
      BY ONLY <2>3, <3>1
    <3> QED  BY <3>1, <3>2
  <2>5. /\ PageShape(page') /\ page'.v = page.v /\ page'.out = page.out
        /\ page'.landed = page.landed
    BY <1>3, <1>7, FramedGives
  <2>6. PageOK(page', owner') /\ Ages(page, owner, page', owner')
    BY <1>1, <1>3, <2>5, FramedPage, FramedAges
  <2>7. acq.then \in After /\ act.status = "sent" =>
          /\ SentOK(deployment, page', owner', ad', act)
          /\ Fresh(page', x.results, act.n)
    <3> SUFFICES ASSUME acq.then \in After, act.status = "sent"
                 PROVE  /\ SentOK(deployment, page', owner', ad', act)
                        /\ Fresh(page', x.results, act.n)
      OBVIOUS
    <3>1. act.n \in Sends /\ act.n \notin page.out /\ ~Steps(owner, act.n)
      BY <1>4
    <3>2. SentOK(deployment, page', owner', ad', act)
      BY <1>1, <2>5, <3>1 DEF SentOK
    <3>3. NextFrame.seen = page.v /\ page.v >= page.landed[act.n]
      BY <1>3, <3>1, FrameShows DEF NextFrame
    <3> QED  BY <2>4, <2>5, <3>1, <3>2, <3>3 DEF Shows, Fresh
  <2>8. CaptureAnswered(act, acq, x)
    BY <2>2, <2>3
  <2>9. AdShape(ad')
    BY <1>3, <2>2, SessionAdapterIs
  <2> QED  BY <1>1, <1>2, <1>3, <2>6, <2>7, <2>8, <2>9, AnswerKeeps
<1> QED  BY <1>5, <1>6, <1>7 DEF SessionAcquires

\* A session executes: the effect of this dispatch lands, or none does.
LEMMA SessionExecutesKeeps == WorldInv /\ SessionExecutes => WorldInv'
PROOF
<1> SUFFICES ASSUME WorldInv, SessionExecutes PROVE WorldInv'
  OBVIOUS
<1>1. deployment # "gym" /\ act.at = "bound" /\ UNCHANGED <<deployment, owner>>
  BY DEF SessionExecutes
<1>2. Quiet(owner')
  BY <1>1, OutOfAcquisition
<1>3. /\ PageOK(page, owner) /\ PageShape(page) /\ CommandsOK(owner') /\ AdShape(ad)
      /\ ActShape(act)
      /\ act.n \in Sends /\ ~Used(page, owner, act.n) /\ act.n \in Nat
      /\ \A n \in Sends : Used(page, owner, n) => n <= act.n
  BY <1>1 DEF WorldInv, ActOK, PageOK, Sends
<1>4. ASSUME NEW error, NotSent(error), UNCHANGED <<page, ad>> PROVE WorldInv'
  BY <1>1, <1>2, <1>3, <1>4, NotSentKeeps
<1>5. PICK landed : landed = Lands(page, act.n)
  OBVIOUS
<1>6. /\ PageShape(landed) /\ landed.v = page.v + 1 /\ landed.out = page.out \ {act.n}
      /\ landed.landed[act.n] = page.v + 1
      /\ \A k \in Sends : k # act.n => landed.landed[k] = page.landed[k]
  BY <1>3, <1>5, LandsGives
<1>7. ASSUME page' \in {page, landed}
      PROVE  /\ PageOK(page', owner') /\ act.n \notin page'.out
             /\ ~Steps(owner', act.n)
             /\ \A n \in Sends : Used(page', owner', n) => n <= act.n
  <2>1. act.n \notin page.out /\ ~Steps(owner', act.n) /\ act.n <= act.n
    BY <1>1, <1>3 DEF Used
  <2>2. \A k \in Sends : page.landed[k] \in Nat /\ page.v \in Nat
    BY <1>3 DEF PageShape
  <2>3. CASE page' = page
    BY <1>1, <1>3, <2>1, <2>3
  <2>4. CASE page' = landed
    <3>1. PageOK(page', owner')
      BY <1>1, <1>3, <1>6, <2>1, <2>2, <2>4 DEF PageOK
    <3>2. ASSUME NEW n \in Sends, Used(page', owner', n)
          PROVE  n <= act.n
      <4>1. CASE n = act.n
        BY <2>1, <4>1
      <4>2. CASE n # act.n
        BY <1>1, <1>3, <1>6, <2>4, <3>2, <4>2 DEF Used
      <4> QED  BY <4>1, <4>2
    <3> QED  BY <1>6, <2>1, <2>4, <3>1, <3>2
  <2> QED  BY <1>7, <2>3, <2>4
<1>8. ASSUME NEW before, ad' = [ad EXCEPT !.before = before] PROVE AdShape(ad')
  BY <1>3, <1>8 DEF AdShape
<1>9. CASE /\ \E before \in BOOLEAN :
                 ad' = [ad EXCEPT !.before = deployment = "bundle" /\ before]
           /\ \/ page' = landed /\ Sent("sent", FALSE)
              \/ page' \in {page, landed} /\ Sent("unknown", TRUE)
  <2>1. AdShape(ad')
    BY <1>8, <1>9
  <2>2. page' \in {page, landed}
    BY <1>9
  <2> QED  BY <1>1, <1>2, <1>3, <1>7, <1>9, <2>1, <2>2, SentKeeps
<1>10. \/ \E error : NotSent(error) /\ UNCHANGED <<page, ad>>
       \/ /\ \E before \in BOOLEAN :
                 ad' = [ad EXCEPT !.before = deployment = "bundle" /\ before]
          /\ \/ page' = landed /\ Sent("sent", FALSE)
             \/ page' \in {page, landed} /\ Sent("unknown", TRUE)
  BY <1>5 DEF SessionExecutes
<1> QED  BY <1>4, <1>9, <1>10

\* A session without a health probe gives the run up (_unresolved_dispatch_step).
LEMMA SessionUnresolvedKeeps == WorldInv /\ SessionUnresolved => WorldInv'
PROOF
<1> SUFFICES ASSUME WorldInv, SessionUnresolved PROVE WorldInv'
  OBVIOUS
<1>1. /\ act.at = "health" /\ act' = Doing("ended", act.n)
      /\ closed'.n = act.n /\ closed'.status = act.status /\ closed'.after = {}
      /\ UNCHANGED <<deployment, page, co, acq, ad, owner>>
  BY DEF SessionUnresolved, Close
<1>2. acq.at = "none" /\ Quiet(owner')
  BY <1>1, OutOfAcquisition
<1>3. /\ PageOK(page', owner') /\ CommandsOK(owner') /\ AdShape(ad') /\ ActShape(act)
      /\ Ages(page, owner, page', owner') /\ act.status = "unknown"
  BY <1>1, Untouched DEF WorldInv, ActOK
<1>4. ActShape(act') /\ act'.at = "ended"
  BY <1>1, <1>3, DoingIs DEF ActShape, LoopPlaces
<1>5. ClosedOK(page', owner', closed')
  BY <1>1, <1>3 DEF ClosedOK, ActShape, Sends
<1> QED  BY <1>1, <1>2, <1>3, <1>4, <1>5, PlacedKeeps
-----------------------------------------------------------------------------
(* The gym adapter.                                                        *)

\* The frame that the adapter holds is as young as the effect, and there is none
\* while the effect is out.
HoldOK(p, d, m) ==
    /\ m.n \in p.out => d.err = "navigation_pending" /\ d.pend = NoFrame
    /\ d.pend = NoFrame \/ d.pend.seen >= p.landed[m.n]

\* A command that is no step leaves everything of a dispatch as it is.
LEMMA OtherAges ==
    ASSUME NEW p, NEW o, NEW o2, \A n \in Sends : Steps(o2, n) => Steps(o, n)
    PROVE  Ages(p, o, p, o2)
PROOF BY DEF Ages, Used

\* The same page with commands that are no new steps.
LEMMA OtherPage ==
    ASSUME NEW p, NEW o, PageOK(p, o), NEW o2, \A n \in Sends : Steps(o2, n) => Steps(o, n)
    PROVE  PageOK(p, o2)
PROOF BY DEF PageOK

\* The adapter with its frame claimed, and with what a projection leaves.
LEMMA ClaimedIs ==
    ASSUME NEW a, AdShape(a), NEW b, b = Claimed(a)
    PROVE  AdShape(b) /\ b.pend = a.pend /\ b.err = a.err
PROOF BY DEF Claimed, AdShape

\* A projection keeps what is known of the frame (_project_requests).
LEMMA ProjectsKeeps ==
    ASSUME WorldInv, act.at = "acquire", NEW a, AdShape(a), GymProjects(a),
           UNCHANGED <<deployment, page>>, CommandsOK(owner'), Quiet(owner'),
           \A n \in Sends : Steps(owner', n) => Steps(owner, n),
           acq.then \in After /\ act.status = "sent" =>
              HoldOK(page, a, act) /\ (act.n \in page.out => deployment = "gym")
    PROVE  WorldInv'
PROOF
<1>1. PageOK(page', owner') /\ Ages(page, owner, page', owner')
  BY OtherAges, OtherPage DEF WorldInv
<1>2. acq.then \in After /\ act.status = "sent" =>
         act.n \in Sends /\ ~Steps(owner', act.n)
  BY DEF WorldInv, ActOK, AcqOK, SentOK
<1>3. PICK requests : requests = Asked(acq)
  OBVIOUS
<1>4. PICK b : b = Claimed(a)
  OBVIOUS
<1>5. AdShape(b) /\ b.pend = a.pend /\ b.err = a.err
  BY <1>4, ClaimedIs
<1>6. CASE /\ ad' = [b EXCEPT !.err = IF @ = "none" /\ b.pend # NoFrame
                                      THEN "projection_failed" ELSE @]
           /\ CaptureAnswered(act, acq, Reading(AllFail(requests, "failed"), TRUE, FALSE))
  <2>1. PICK err : err = IF b.err = "none" /\ b.pend # NoFrame
                         THEN "projection_failed" ELSE b.err
    OBVIOUS
  <2>2. ad' = [b EXCEPT !.err = err]
    BY <1>6, <2>1
  <2>3. AdShape(ad') /\ ad'.pend = a.pend /\ ad'.err = err
    BY <1>5, <2>2 DEF AdShape
  <2>4. acq.then \in After /\ act.status = "sent" => SentOK(deployment, page', owner', ad', act)
    BY <1>2, <1>5, <2>1, <2>3 DEF HoldOK, SentOK
  <2>5. PICK outcome : outcome = Reading(AllFail(requests, "failed"), TRUE, FALSE)
    OBVIOUS
  <2>6. Fresh(page', outcome.results, act.n) /\ CaptureAnswered(act, acq, outcome)
    BY <1>6, <2>5, NothingAcquired DEF Reading
  <2> QED  BY <1>1, <2>3, <2>4, <2>6, AnswerKeeps
<1>7. CASE /\ b.pend # NoFrame
           /\ \E outcome, d, v :
                 /\ outcome \in Projected(requests, b.pend, TRUE)
                 /\ ad' = [b EXCEPT !.dom = d, !.visual = v]
                 /\ CaptureAnswered(act, acq, outcome)
  <2>1. PICK outcome, d, v :
                 /\ outcome \in Projected(requests, b.pend, TRUE)
                 /\ ad' = [b EXCEPT !.dom = d, !.visual = v]
                 /\ CaptureAnswered(act, acq, outcome)
    BY <1>7
  <2>2. AdShape(ad') /\ ad'.pend = a.pend /\ ad'.err = a.err
    <3>1. /\ ad'.pend = b.pend /\ ad'.err = b.err
          /\ ad' \in [dom : {d}, visual : {v}, pend : {b.pend}, pendFor : {b.pendFor},
                      before : {b.before}, err : {b.err}, final : {b.final}]
      BY ONLY <1>5, <2>1 DEF AdShape
    <3> QED  BY ONLY <1>5, <3>1 DEF AdShape
  <2>3. Shows(outcome.results, a.pend)
    BY <1>5, <2>1, ProjectedShows
  <2>4. acq.then \in After /\ act.status = "sent" =>
          /\ SentOK(deployment, page', owner', ad', act)
          /\ Fresh(page', outcome.results, act.n)
    <3> SUFFICES ASSUME acq.then \in After, act.status = "sent"
                 PROVE  /\ SentOK(deployment, page', owner', ad', act)
                        /\ Fresh(page', outcome.results, act.n)
      OBVIOUS
    <3>1. SentOK(deployment, page', owner', ad', act)
      BY <1>2, <2>2 DEF HoldOK, SentOK
    <3>2. act.n \notin page'.out /\ a.pend.seen >= page'.landed[act.n]
      BY <1>5, <1>7 DEF HoldOK
    <3> QED  BY <2>3, <3>1, <3>2 DEF Shows, Fresh
  <2> QED  BY <1>1, <2>1, <2>2, <2>4, AnswerKeeps
<1>8. ASSUME NEW outcome \in Projected(requests, b.pend, TRUE), NEW points,
             ad' = [b EXCEPT !.dom = b.pend.serial,
                             !.visual = IF points THEN b.pend.serial ELSE 0]
      PROVE  \E d, v : ad' = [b EXCEPT !.dom = d, !.visual = v]
  BY <1>8
<1> QED  BY <1>3, <1>4, <1>6, <1>7, <1>8 DEF GymProjects

\* What is known of the dispatch of an acquisition of the gym adapter.
LEMMA HeldInGym ==
    ASSUME WorldInv, deployment = "gym", act.at = "acquire", acq.then \in After,
           act.status = "sent"
    PROVE  HoldOK(page, ad, act) /\ act.n \in Sends /\ ~Steps(owner, act.n)
PROOF BY DEF WorldInv, ActOK, AcqOK, SentOK, HoldOK

\* The gym adapter fails a guarded round, projects the frame at hand, or has
\* one captured (acquire_group).
LEMMA GymAcquiresKeeps == WorldInv /\ GymAcquires => WorldInv'
PROOF
<1> SUFFICES ASSUME WorldInv, GymAcquires PROVE WorldInv'
  OBVIOUS
<1>1. deployment = "gym" /\ acq.at = "ask" /\ act.at = "acquire" /\ UNCHANGED <<deployment, page>>
  BY DEF GymAcquires, WorldInv
<1>2. /\ AdShape(ad) /\ ActShape(act) /\ AcqShape(acq) /\ CommandsOK(owner)
      /\ PageOK(page, owner) /\ ClosedOK(page, owner, closed) /\ Quiet(owner)
      /\ AcqOK(deployment, page, owner, ad, act, acq)
  BY <1>1, RestIsQuiet DEF WorldInv, ActOK, Expected
<1>3. PICK guarded : guarded = (ad.err \in {"navigation_pending", "acquisition_unstable"})
  OBVIOUS
<1>4. PICK mark : mark = IF ad.pendFor = 0 /\ (guarded \/ ad.pend # NoFrame)
                         THEN co.seq ELSE ad.pendFor
  OBVIOUS
<1>5. PICK claimed : claimed = [ad EXCEPT !.pendFor = mark]
  OBVIOUS
<1>6. AdShape(claimed) /\ claimed.pend = ad.pend /\ claimed.err = ad.err
  BY ONLY <1>2, <1>5 DEF AdShape
<1>7. IF guarded /\ ~Recapturable(ad)
      THEN /\ CaptureAnswered(act, acq, Reading(AllFail(Asked(acq), "failed"),
                                              ad.err = "navigation_pending", FALSE))
           /\ ad' = claimed
           /\ UNCHANGED owner
      ELSE IF claimed.pendFor # co.seq
      THEN /\ acq' = [acq EXCEPT !.at = "frame"]
           /\ owner' = Submitted("capture")
           /\ UNCHANGED <<co, act, ad, closed>>
      ELSE GymProjects(claimed) /\ UNCHANGED owner
  BY <1>3, <1>4, <1>5 DEF GymAcquires
<1>8. acq.then \in After /\ act.status = "sent" =>
         HoldOK(page, ad, act) /\ act.n \in Sends /\ ~Steps(owner, act.n)
  BY <1>1, HeldInGym
<1>9. CASE /\ CaptureAnswered(act, acq, Reading(AllFail(Asked(acq), "failed"),
                                              ad.err = "navigation_pending", FALSE))
           /\ ad' = claimed
           /\ UNCHANGED owner
  <2>1. PICK outcome : outcome = Reading(AllFail(Asked(acq), "failed"),
                                         ad.err = "navigation_pending", FALSE)
    OBVIOUS
  <2>2. CaptureAnswered(act, acq, outcome) /\ Fresh(page', outcome.results, act.n)
    BY <1>9, <2>1, NothingAcquired DEF Reading
  <2>3. PageOK(page', owner') /\ CommandsOK(owner') /\ Quiet(owner')
        /\ Ages(page, owner, page', owner')
    BY <1>1, <1>2, <1>9, OtherAges
  <2>4. acq.then \in After /\ act.status = "sent" => SentOK(deployment, page', owner', ad', act)
    BY <1>1, <1>6, <1>8, <1>9 DEF HoldOK, SentOK
  <2> QED  BY <1>1, <1>6, <1>9, <2>2, <2>3, <2>4, AnswerKeeps
<1>10. CASE GymProjects(claimed) /\ UNCHANGED owner
  <2>1. CommandsOK(owner') /\ Quiet(owner')
    BY <1>2, <1>10
  <2>2. acq.then \in After /\ act.status = "sent" => HoldOK(page, claimed, act)
    BY <1>6, <1>8 DEF HoldOK
  <2> QED  BY <1>1, <1>6, <1>10, <2>1, <2>2, ProjectsKeeps
<1>11. CASE /\ ~(guarded /\ ~Recapturable(ad))
            /\ acq' = [acq EXCEPT !.at = "frame"]
            /\ owner' = Submitted("capture")
            /\ UNCHANGED <<co, act, ad, closed>>
  <2>1. AcqShape(acq') /\ acq'.at = "frame" /\ acq'.then = acq.then /\ acq'.results = acq.results
    BY ONLY <1>2, <1>11 DEF AcqShape
  <2>2. ad.err # "navigation_pending"
    BY <1>3, <1>11 DEF Recapturable
  <2>3. act.n \in 0 .. MaxDispatches /\ "capture" \in CommandNames
    BY <1>2 DEF ActShape, CommandNames
  <2>4. AskedOf(owner, owner', "capture", act.n)
    BY <1>2, <1>11, <2>3, SubmittedAsks DEF Quiet
  <2>5. /\ CommandsOK(owner')
        /\ \A k \in 0 .. MaxDispatches : Steps(owner', k) => Steps(owner, k)
        /\ Expected(act, acq') = "capture" => WaitOK(owner', act, acq')
    BY <1>2, <2>3, <2>4, SubmittedGives DEF Quiet, Unhurried
  <2>6. \A k \in Sends : Steps(owner', k) => Steps(owner, k)
    BY <2>5 DEF Sends
  <2>7. /\ PageOK(page, owner') /\ Ages(page, owner, page, owner')
    BY <1>2, <2>6, OtherAges, OtherPage
  <2>8. WaitOK(owner', act, acq') /\ ClosedOK(page, owner', closed)
    BY <1>2, <2>1, <2>5, <2>7, AgesKeepsClosed DEF Expected
  <2>9. AcqOK(deployment, page, owner', ad, act, acq)
    BY <1>2, <2>7, AgesKeepsAcq
  <2>10. AcqOK(deployment, page, owner', ad, act, acq')
    BY <2>1, <2>9 DEF AcqOK
  <2>11. owner'.answer.kind \in {"none", "raised"}
    BY <2>4 DEF AskedOf
  <2>12. FrameOK(page, owner', act, acq')
    BY <1>8, <2>1, <2>2, <2>11 DEF HoldOK, FrameOK
  <2>13. ActOK(deployment, page, owner', ad, act, acq', closed)
    BY <1>1, <2>10, <2>12 DEF ActOK
  <2> QED  BY <1>1, <1>2, <1>11, <2>1, <2>5, <2>7, <2>8, <2>13 DEF WorldInv
<1> QED  BY <1>7, <1>9, <1>10, <1>11

\* What a command of the run has answered is read, once.
LEMMA AnswerIsRead ==
    ASSUME WorldInv, owner.answer.kind # "none", Read
    PROVE  /\ CommandsOK(owner') /\ Quiet(owner')
           /\ \A n : Steps(owner', n) <=> Steps(owner, n)
           /\ owner'.queue = owner.queue
PROOF
<1>1. CommandsOK(owner) /\ Unhurried(owner)
  BY NobodyWaits DEF WorldInv
<1> QED  BY <1>1, ReadGives DEF Read

\* The frame that was waited for, or an exception (_prepare_frame).
LEMMA FrameAnsweredKeeps == WorldInv /\ FrameAnswered => WorldInv'
PROOF
<1> SUFFICES ASSUME WorldInv, FrameAnswered PROVE WorldInv'
  OBVIOUS
<1>1. /\ acq.at = "frame" /\ act.at = "acquire" /\ UNCHANGED <<deployment, page>>
      /\ owner.answer.kind # "none" /\ Read
  BY DEF FrameAnswered, WorldInv, Has
<1>2. /\ AdShape(ad) /\ PageOK(page, owner) /\ FrameOK(page, owner, act, acq)
      /\ AcqOK(deployment, page, owner, ad, act, acq)
  BY <1>1 DEF WorldInv, ActOK
<1>3. /\ CommandsOK(owner') /\ Quiet(owner')
      /\ \A n \in Sends : Steps(owner', n) => Steps(owner, n)
  BY <1>1, AnswerIsRead
<1>4. CASE owner.answer.kind = "frame" /\ GymProjects(Prepared(ad, owner.answer.frame))
  <2>1. PICK a : a = Prepared(ad, owner.answer.frame)
    OBVIOUS
  <2>2. AdShape(a) /\ a.pend = owner.answer.frame
    <3>1. /\ a.pend = owner.answer.frame
          /\ a \in [dom : {ad.dom}, visual : {ad.visual}, pend : {owner.answer.frame},
                    pendFor : {0}, before : {ad.before}, err : {"none"}, final : {ad.final}]
      BY ONLY <1>2, <2>1 DEF Prepared, AdShape
    <3> QED  BY ONLY <3>1 DEF AdShape
  <2>3. acq.then \in After /\ act.status = "sent" => HoldOK(page, a, act) /\ act.n \notin page.out
    BY <1>1, <1>2, <1>4, <2>2 DEF FrameOK, HoldOK
  <2> QED  BY <1>1, <1>3, <1>4, <2>1, <2>2, <2>3, ProjectsKeeps
<1>5. CASE /\ CaptureAnswered(act, acq, Reading(AllFail(Asked(acq), "failed"), TRUE, FALSE))
           /\ UNCHANGED ad
  <2>1. PICK outcome : outcome = Reading(AllFail(Asked(acq), "failed"), TRUE, FALSE)
    OBVIOUS
  <2>2. CaptureAnswered(act, acq, outcome) /\ Fresh(page', outcome.results, act.n)
    BY <1>5, <2>1, NothingAcquired DEF Reading
  <2>3. PageOK(page', owner') /\ Ages(page, owner, page', owner')
    BY <1>1, <1>2, <1>3, OtherAges, OtherPage
  <2>4. acq.then \in After /\ act.status = "sent" => SentOK(deployment, page', owner', ad', act)
    <3>1. AcqOK(deployment, page', owner', ad', act, acq)
      BY <1>1, <1>2, <1>5, <2>3, AgesKeepsAcq
    <3> QED  BY <3>1 DEF AcqOK
  <2> QED  BY <1>1, <1>2, <1>3, <1>5, <2>2, <2>3, <2>4, AnswerKeeps
<1> QED  BY <1>4, <1>5 DEF FrameAnswered, Has

\* What the run asks of the owner adds one command, and nothing else.
LEMMA AsksGive ==
    ASSUME WorldInv, Unhurried(owner), NEW name \in CommandNames, NEW n \in 0 .. MaxDispatches,
           name = "step" => n \in Sends /\ ~Used(page, owner, n) /\ closed.n = 0,
           AskedOf(owner, owner', name, n), name = "step" => act'.n = n,
           Expected(act', acq') = name,
           page' = page, closed' = closed
    PROVE  /\ CommandsOK(owner') /\ WaitOK(owner', act', acq') /\ PageOK(page', owner')
           /\ ClosedOK(page', owner', closed')
           /\ \A k \in Sends : Used(page', owner', k) =>
                Used(page, owner, k) \/ (name = "step" /\ k = n)
PROOF
<1>1. CommandsOK(owner) /\ PageOK(page, owner) /\ ClosedOK(page, owner, closed)
  BY DEF WorldInv
<1>2. name = "step" => n # 0 /\ ~Steps(owner, n)
  BY DEF Sends, Used
<1>3. /\ CommandsOK(owner') /\ WaitOK(owner', act', acq')
      /\ \A k \in 0 .. MaxDispatches :
            Steps(owner', k) => Steps(owner, k) \/ (name = "step" /\ k = n)
  BY <1>1, <1>2, SubmittedGives
<1>4. \A k \in Sends : Steps(owner', k) => Steps(owner, k) \/ (name = "step" /\ k = n)
  BY <1>3 DEF Sends
<1>5. PageOK(page', owner')
  BY <1>1, <1>4 DEF PageOK, Used
<1>6. \A k \in Sends : Used(page', owner', k) =>
                Used(page, owner, k) \/ (name = "step" /\ k = n)
  BY <1>4 DEF Used
<1>7. ClosedOK(page', owner', closed')
  <2>1. CASE name = "step"
    BY <2>1 DEF ClosedOK
  <2>2. CASE name # "step"
    <3>1. Ages(page, owner, page, owner')
      BY <1>4, <2>2, OtherAges
    <3> QED  BY <1>1, <3>1, AgesKeepsClosed
  <2> QED  BY <2>1, <2>2
<1> QED  BY <1>3, <1>5, <1>6, <1>7

\* The gym adapter has the live page probed before it acts (execute).
LEMMA GymExecutesKeeps == WorldInv /\ GymExecutes => WorldInv'
PROOF
<1> SUFFICES ASSUME WorldInv, GymExecutes PROVE WorldInv'
  OBVIOUS
<1>1. deployment = "gym" /\ act.at = "bound" /\ UNCHANGED <<deployment, page, ad>>
  BY DEF GymExecutes
<1>2. /\ acq.at = "none" /\ Quiet(owner) /\ CommandsOK(owner) /\ ActShape(act) /\ AcqShape(acq)
      /\ AdShape(ad) /\ act.n \in Sends /\ closed.n = 0 /\ act.status = "not_sent"
      /\ ~Used(page, owner, act.n) /\ act.n \in 0 .. MaxDispatches
      /\ \A n \in Sends : Used(page, owner, n) => n <= act.n
  BY <1>1, OutOfAcquisition DEF WorldInv, ActOK, ActShape
<1>3. CASE NotSent("unavailable") /\ UNCHANGED owner
  BY <1>1, <1>2, <1>3, NotSentKeeps
<1>4. CASE /\ act' = [act EXCEPT !.at = "probe"]
           /\ owner' = Submitted("probe")
           /\ UNCHANGED <<co, acq, closed>>
  <2>1. /\ ActShape(act') /\ act'.at = "probe" /\ act'.n = act.n /\ act'.status = "not_sent"
        /\ "probe" \in CommandNames
    BY <1>2, <1>4, MovedAct DEF LoopPlaces, CommandNames
  <2>2. AskedOf(owner, owner', "probe", act.n)
    BY <1>2, <1>4, <2>1, SubmittedAsks DEF Quiet
  <2>3. Expected(act', acq') = "probe" /\ Unhurried(owner)
    BY <1>2, <1>4, <2>1 DEF Expected, Quiet, Unhurried
  <2>4. /\ CommandsOK(owner') /\ WaitOK(owner', act', acq') /\ PageOK(page', owner')
        /\ ClosedOK(page', owner', closed')
        /\ \A k \in Sends : Used(page', owner', k) => Used(page, owner, k)
    BY <1>1, <1>2, <1>4, <2>1, <2>2, <2>3, AsksGive
  <2>5. ActOK(deployment', page', owner', ad', act', acq', closed')
    BY <1>1, <1>2, <1>4, <2>1, <2>4 DEF ActOK
  <2> QED  BY <1>1, <1>2, <1>4, <2>1, <2>4, <2>5 DEF WorldInv
<1> QED  BY <1>3, <1>4 DEF GymExecutes

\* A current binding is sent, once: no command for it was there before
\* (execute, ThreadBoundBrowserGym.step).
LEMMA ProbeAnsweredKeeps == WorldInv /\ ProbeAnswered => WorldInv'
PROOF
<1> SUFFICES ASSUME WorldInv, ProbeAnswered PROVE WorldInv'
  OBVIOUS
<1>1. act.at = "probe" /\ owner.answer.kind # "none" /\ UNCHANGED <<deployment, page>>
  BY DEF ProbeAnswered, Has
<1>2. /\ acq.at = "none" /\ Unhurried(owner) /\ CommandsOK(owner) /\ ActShape(act)
      /\ AcqShape(acq) /\ AdShape(ad) /\ act.n \in Sends /\ closed.n = 0
      /\ ~Used(page, owner, act.n) /\ act.n \in 0 .. MaxDispatches /\ deployment = "gym"
      /\ \A n \in Sends : Used(page, owner, n) => n <= act.n
  BY <1>1, NobodyWaits DEF WorldInv, ActOK, ActShape
<1>3. ASSUME NEW error, NotSent(error), Read, UNCHANGED ad PROVE WorldInv'
  BY <1>1, <1>3, AnswerIsRead, NotSentKeeps
<1>4. CASE /\ ad' = [ad EXCEPT !.pend = NoFrame, !.pendFor = 0, !.err = "none", !.before = TRUE]
           /\ act' = [act EXCEPT !.at = "step"]
           /\ owner' = [Submitted("step") EXCEPT !.answer =
                           IF owner.timedOut THEN @ ELSE OwnerAnswer("none", NoFrame)]
           /\ UNCHANGED <<co, acq, closed>>
  <2>1. /\ ActShape(act') /\ act'.at = "step" /\ act'.n = act.n /\ "step" \in CommandNames
    BY <1>2, <1>4, MovedAct DEF LoopPlaces, CommandNames
  <2>2. AskedOf(owner, owner', "step", act.n)
    <3>1. OwnerShape(owner) /\ owner.queue \in Seq(Commands)
      BY <1>2 DEF CommandsOK, OwnerShape
    <3>2. CASE owner.timedOut
      <4>1. PICK a : a = OwnerAnswer("raised", NoFrame)
        OBVIOUS
      <4>2. a.kind = "raised" /\ a \in [kind : {a.kind}, frame : {a.frame}]
        BY <4>1, AnswerIs
      <4>3. PICK t : t = [owner EXCEPT !.answer = a]
        OBVIOUS
      <4>4. owner' = [t EXCEPT !.answer = t.answer]
        BY <1>4, <3>2, <4>1, <4>3 DEF Submitted
      <4>5. OwnerShape(t) /\ t.queue = owner.queue /\ t.busy = owner.busy /\ t.answer = a
            /\ t.timedOut = owner.timedOut
        BY ONLY <3>1, <4>2, <4>3 DEF OwnerShape
      <4>6. OwnerShape(owner') /\ owner'.queue = t.queue /\ owner'.busy = t.busy
            /\ owner'.answer = a /\ owner'.timedOut = t.timedOut
        BY ONLY <4>2, <4>4, <4>5 DEF OwnerShape
      <4> QED  BY <3>2, <4>2, <4>5, <4>6 DEF AskedOf
    <3>3. CASE ~owner.timedOut
      <4>1. PICK a : a = OwnerAnswer("none", NoFrame)
        OBVIOUS
      <4>2. a.kind = "none" /\ a \in [kind : {a.kind}, frame : {a.frame}]
        BY <4>1, AnswerIs
      <4>3. PICK c : c = [name |-> "step", n |-> act.n, waited |-> TRUE]
        OBVIOUS
      <4>4. owner' = [owner EXCEPT !.queue = Append(@, c), !.answer = a]
        BY <1>4, <3>3, <4>1, <4>3 DEF Submitted, SubmittedAnyway
      <4>5. c \in Commands /\ Append(owner.queue, c) \in Seq(Commands)
        BY <1>2, <2>1, <3>1, <4>3 DEF Commands
      <4>6. OwnerShape(owner') /\ owner'.queue = Append(owner.queue, c)
            /\ owner'.busy = owner.busy /\ owner'.answer = a /\ owner'.timedOut = owner.timedOut
        BY ONLY <3>1, <4>2, <4>4, <4>5 DEF OwnerShape
      <4> QED  BY <3>3, <4>2, <4>3, <4>6 DEF AskedOf
    <3> QED  BY <3>2, <3>3
  <2>3. Expected(act', acq') = "step"
    BY <1>2, <1>4, <2>1 DEF Expected
  <2>4. /\ CommandsOK(owner') /\ WaitOK(owner', act', acq') /\ PageOK(page', owner')
        /\ ClosedOK(page', owner', closed')
        /\ \A k \in Sends : Used(page', owner', k) => Used(page, owner, k) \/ k = act.n
    BY <1>1, <1>2, <1>4, <2>1, <2>2, <2>3, AsksGive
  <2>5. AdShape(ad') /\ ad'.pend = NoFrame
    <3>1. /\ ad'.pend = NoFrame
          /\ ad' \in [dom : {ad.dom}, visual : {ad.visual}, pend : {NoFrame}, pendFor : {0},
                      before : {TRUE}, err : {"none"}, final : {ad.final}]
      BY ONLY <1>2, <1>4 DEF AdShape
    <3> QED  BY ONLY <3>1 DEF AdShape
  <2>6. owner'.answer.kind \in {"none", "raised"}
    BY <2>2 DEF AskedOf
  <2>7. \A k \in Sends : Used(page', owner', k) => k <= act'.n
    BY <1>2, <2>1, <2>4 DEF Sends
  <2>8. ActOK(deployment', page', owner', ad', act', acq', closed')
    BY <1>1, <1>2, <1>4, <2>1, <2>5, <2>6, <2>7 DEF ActOK, StepOK
  <2> QED  BY <1>1, <1>2, <1>4, <2>1, <2>4, <2>5, <2>8 DEF WorldInv
<1> QED  BY <1>3, <1>4 DEF ProbeAnswered

\* The transition comes back: stable, on its way, or with an exception.
LEMMA StepAnsweredKeeps == WorldInv /\ StepAnswered => WorldInv'
PROOF
<1> SUFFICES ASSUME WorldInv, StepAnswered PROVE WorldInv'
  OBVIOUS
<1>1. /\ act.at = "step" /\ owner.answer.kind # "none" /\ Read
      /\ UNCHANGED <<deployment, page>>
  BY DEF StepAnswered, Has
<1>2. /\ AdShape(ad) /\ PageOK(page, owner) /\ deployment = "gym" /\ act.n \in Sends
      /\ StepOK(page, owner, ad, act)
      /\ \A n \in Sends : Used(page, owner, n) => n <= act.n
  BY <1>1 DEF WorldInv, ActOK
<1>3. /\ CommandsOK(owner') /\ Quiet(owner')
      /\ \A n \in Sends : Steps(owner', n) <=> Steps(owner, n)
  BY <1>1, AnswerIsRead
<1>4. PageOK(page', owner') /\ \A n \in Sends : Used(page', owner', n) => n <= act.n
  BY <1>1, <1>2, <1>3, OtherPage DEF Used
<1>5. CASE /\ owner.answer.kind = "frame"
           /\ ad' = Prepared(ad, owner.answer.frame)
           /\ Sent("sent", FALSE)
  <2>1. AdShape(ad') /\ ad'.pend = owner.answer.frame
    <3>1. /\ ad'.pend = owner.answer.frame
          /\ ad' \in [dom : {ad.dom}, visual : {ad.visual}, pend : {owner.answer.frame},
                      pendFor : {0}, before : {ad.before}, err : {"none"}, final : {ad.final}]
      BY ONLY <1>2, <1>5 DEF Prepared, AdShape
    <3> QED  BY ONLY <3>1 DEF AdShape
  <2>2. /\ ~Steps(owner', act.n) /\ act.n \notin page'.out
        /\ ad'.pend.seen >= page'.landed[act.n]
    BY <1>1, <1>2, <1>3, <1>5, <2>1 DEF StepOK
  <2> QED  BY <1>1, <1>3, <1>4, <1>5, <2>1, <2>2, SentKeeps
<1>6. CASE /\ owner.answer.kind \in {"navigation_pending", "acquisition_unstable"}
           /\ ad' = [ad EXCEPT !.err = owner.answer.kind]
           /\ Sent("sent", Has({"navigation_pending"}))
  <2>1. AdShape(ad') /\ ad'.pend = NoFrame /\ ad'.err = owner.answer.kind
    BY <1>2, <1>6 DEF AdShape, StepOK
  <2>2. /\ ~Steps(owner', act.n)
        /\ act.n \in page'.out => ad'.err = "navigation_pending"
    BY <1>1, <1>2, <1>3, <1>6, <2>1 DEF StepOK
  <2> QED  BY <1>1, <1>2, <1>3, <1>4, <1>6, <2>1, <2>2, SentKeeps
<1>7. CASE /\ ad' = [ad EXCEPT !.err = "step_failed"]
           /\ Sent("unknown", TRUE)
  <2>1. AdShape(ad')
    BY <1>2, <1>7 DEF AdShape
  <2> QED  BY <1>1, <1>3, <1>4, <1>7, <2>1, SentKeeps
<1> QED  BY <1>5, <1>6, <1>7 DEF StepAnswered, Has

\* The answer to the user is sent off (finalize).
LEMMA FinalizeKeeps == WorldInv /\ Finalize => WorldInv'
PROOF
<1> SUFFICES ASSUME WorldInv, Finalize PROVE WorldInv'
  OBVIOUS
<1>1. /\ act.at = "idle" /\ UNCHANGED <<deployment, page, co, acq, closed>>
      /\ ad' = [ad EXCEPT !.final = TRUE, !.pend = NoFrame, !.pendFor = 0]
      /\ act' = [act EXCEPT !.at = "final", !.n = 0]
      /\ owner' = Submitted("final")
  BY DEF Finalize
<1>2. /\ acq.at = "none" /\ Quiet(owner) /\ CommandsOK(owner) /\ ActShape(act) /\ AcqShape(acq)
      /\ AdShape(ad) /\ act.n \in 0 .. MaxDispatches
  BY <1>1, OutOfAcquisition DEF WorldInv, ActShape
<1>3. ActShape(act') /\ act'.at = "final" /\ act'.n = 0
  <2>1. 0 \in 0 .. MaxDispatches /\ "final" \in LoopPlaces
    BY DispatchesAssumption DEF LoopPlaces
  <2>2. /\ act'.at = "final" /\ act'.n = 0
        /\ act' \in [at : {"final"}, n : {0}, binding : {act.binding}, needs : {act.needs},
                     status : {"not_sent", "sent", "unknown"}, faulty : {act.faulty}]
    BY ONLY <1>1, <1>2 DEF ActShape
  <2> QED  BY ONLY <2>1, <2>2 DEF ActShape
<1>4. AdShape(ad')
  <2>1. ad' \in [dom : {ad.dom}, visual : {ad.visual}, pend : {NoFrame}, pendFor : {0},
                 before : {ad.before}, err : {ad.err}, final : {TRUE}]
    BY ONLY <1>1, <1>2 DEF AdShape
  <2> QED  BY ONLY <2>1 DEF AdShape
<1>5. "final" \in CommandNames
  BY DEF CommandNames
<1>6. AskedOf(owner, owner', "final", act.n)
  BY <1>1, <1>2, <1>5, SubmittedAsks DEF Quiet
<1>7. Expected(act', acq') = "final" /\ Unhurried(owner)
  BY <1>1, <1>2, <1>3 DEF Expected, Quiet, Unhurried
<1>8. /\ CommandsOK(owner') /\ WaitOK(owner', act', acq') /\ PageOK(page', owner')
      /\ ClosedOK(page', owner', closed')
  BY <1>1, <1>2, <1>5, <1>6, <1>7, AsksGive
<1>9. ActOK(deployment', page', owner', ad', act', acq', closed')
  BY <1>3 DEF ActOK
<1> QED  BY <1>1, <1>2, <1>3, <1>4, <1>8, <1>9 DEF WorldInv

\* The last acquisition, after the answer to the user.
LEMMA FinalStartsKeeps ==
    ASSUME WorldInv, act.at = "final", NEW status \in {"sent", "unknown"}, NEW faulty,
           FinalStarts(status, faulty), UNCHANGED <<deployment, page>>,
           CommandsOK(owner'), Quiet(owner'), AdShape(ad'),
           \A n \in Sends : Steps(owner', n) => Steps(owner, n)
    PROVE  WorldInv'
PROOF
<1>1. /\ PageOK(page, owner) /\ ActShape(act) /\ act.n = 0 /\ ClosedOK(page, owner, closed)
  BY DEF WorldInv, ActOK
<1>2. PICK m : m = Entering(act, status, faulty)
  OBVIOUS
<1>3. ActShape(m) /\ m.at = "acquire" /\ m.n = 0
  BY <1>1, <1>2, DispatchedAct
<1>4. Starts(m, Begin("post", {}, "dom", "final"))
  BY <1>2 DEF FinalStarts, Entering
<1>5. PageOK(page', owner') /\ ClosedOK(page', owner', closed)
  BY <1>1, OtherPage, OtherAges, AgesKeepsClosed
<1>6. "final" \in Purposes /\ "final" \notin After
  BY DEF Purposes, After
<1> QED  BY <1>3, <1>4, <1>5, <1>6, StartKeeps

\* The answer to the user has been sent, or perhaps (finalize).
LEMMA FinalAnsweredKeeps == WorldInv /\ FinalAnswered => WorldInv'
PROOF
<1> SUFFICES ASSUME WorldInv, FinalAnswered PROVE WorldInv'
  OBVIOUS
<1>1. /\ act.at = "final" /\ owner.answer.kind # "none" /\ Read
      /\ UNCHANGED <<deployment, page>> /\ AdShape(ad)
  BY DEF FinalAnswered, Has, WorldInv
<1>2. /\ CommandsOK(owner') /\ Quiet(owner')
      /\ \A n \in Sends : Steps(owner', n) => Steps(owner, n)
  BY <1>1, AnswerIsRead
<1>3. CASE ad' = Prepared(ad, owner.answer.frame) /\ FinalStarts("sent", FALSE)
  <2>1. ad' \in [dom : {ad.dom}, visual : {ad.visual}, pend : {owner.answer.frame},
                 pendFor : {0}, before : {ad.before}, err : {"none"}, final : {ad.final}]
    BY ONLY <1>1, <1>3 DEF Prepared, AdShape
  <2>2. AdShape(ad')
    BY ONLY <2>1 DEF AdShape
  <2> QED  BY <1>1, <1>2, <1>3, <2>2, FinalStartsKeeps
<1>4. CASE ad' = [ad EXCEPT !.err = "step_failed"] /\ FinalStarts("unknown", TRUE)
  <2>1. AdShape(ad')
    BY <1>1, <1>4 DEF AdShape
  <2> QED  BY <1>1, <1>2, <1>4, <2>1, FinalStartsKeeps
<1> QED  BY <1>3, <1>4 DEF FinalAnswered

\* The session is asked whether it is alive (_unresolved_dispatch_step).
LEMMA ProbesKeeps == WorldInv /\ Probes => WorldInv'
PROOF
<1> SUFFICES ASSUME WorldInv, Probes PROVE WorldInv'
  OBVIOUS
<1>1. /\ act.at = "health" /\ UNCHANGED <<deployment, page, co, acq, ad, closed>>
      /\ act' = [act EXCEPT !.at = "health_probe"]
      /\ owner' = Submitted("health")
  BY DEF Probes
<1>2. /\ acq.at = "none" /\ Quiet(owner) /\ CommandsOK(owner) /\ ActShape(act) /\ AcqShape(acq)
      /\ AdShape(ad) /\ act.n \in 0 .. MaxDispatches /\ act.status = "unknown"
      /\ \A n \in Sends : Used(page, owner, n) => n <= act.n
  BY <1>1, OutOfAcquisition DEF WorldInv, ActShape, ActOK
<1>3. /\ ActShape(act') /\ act'.at = "health_probe" /\ act'.n = act.n /\ act'.status = "unknown"
      /\ "health" \in CommandNames
  BY <1>1, <1>2, MovedAct DEF LoopPlaces, CommandNames
<1>4. AskedOf(owner, owner', "health", act.n)
  BY <1>1, <1>2, <1>3, SubmittedAsks DEF Quiet
<1>5. Expected(act', acq') = "health" /\ Unhurried(owner)
  BY <1>1, <1>2, <1>3 DEF Expected, Quiet, Unhurried
<1>6. /\ CommandsOK(owner') /\ WaitOK(owner', act', acq') /\ PageOK(page', owner')
      /\ ClosedOK(page', owner', closed')
      /\ \A k \in Sends : Used(page', owner', k) => Used(page, owner, k)
  BY <1>1, <1>2, <1>3, <1>4, <1>5, AsksGive
<1>7. ActOK(deployment', page', owner', ad', act', acq', closed')
  BY <1>1, <1>2, <1>3, <1>6 DEF ActOK
<1> QED  BY <1>1, <1>2, <1>3, <1>6, <1>7 DEF WorldInv

\* A dispatch of unknown fate is closed, and the loop blocked or ended.
LEMMA UnresolvedKeeps ==
    ASSUME WorldInv, act.at = "health_probe", NEW error, Close(act, {}, error),
           NEW at \in {"blocked", "ended"}, act' = Doing(at, act.n),
           UNCHANGED <<deployment, page, acq, ad>>, CommandsOK(owner'), Quiet(owner'),
           \A n \in Sends : Steps(owner', n) => Steps(owner, n)
    PROVE  WorldInv'
PROOF
<1>1. /\ acq.at = "none" /\ PageOK(page, owner) /\ AdShape(ad) /\ act.n \in 0 .. MaxDispatches
      /\ act.status = "unknown" /\ \A n \in Sends : Used(page, owner, n) => n <= act.n
  BY DEF WorldInv, ActOK, ActShape
<1>2. /\ PageOK(page', owner') /\ Ages(page, owner, page', owner')
  BY <1>1, OtherAges, OtherPage
<1>3. ActShape(act') /\ act'.at = at /\ act'.n = act.n
  BY <1>1, DoingIs DEF LoopPlaces
<1>4. \A n \in Sends : Used(page', owner', n) => n <= act'.n
  BY <1>1, <1>2, <1>3 DEF Ages
<1>5. ClosedOK(page', owner', closed')
  BY <1>1 DEF ClosedOK, Close, Sends
<1> QED  BY <1>1, <1>2, <1>3, <1>4, <1>5, PlacedKeeps

\* The session has answered for itself, or it is lost.
LEMMA HealthAnsweredKeeps == WorldInv /\ HealthAnswered => WorldInv'
PROOF
<1> SUFFICES ASSUME WorldInv, HealthAnswered PROVE WorldInv'
  OBVIOUS
<1>1. /\ act.at = "health_probe" /\ owner.answer.kind # "none" /\ Read
      /\ UNCHANGED <<deployment, page, co, acq, ad>>
      /\ \E error : Close(act, {}, error)
      /\ \E at \in {"blocked", "ended"} : act' = Doing(at, act.n)
  BY DEF HealthAnswered, Has
<1>2. /\ CommandsOK(owner') /\ Quiet(owner')
      /\ \A n \in Sends : Steps(owner', n) => Steps(owner, n)
  BY <1>1, AnswerIsRead
<1> QED  BY <1>1, <1>2, UnresolvedKeeps

\* A wait is cancelled: the command is left to itself.
LEMMA CancelKeeps == WorldInv /\ Cancel => WorldInv'
PROOF
<1> SUFFICES ASSUME WorldInv, Cancel PROVE WorldInv'
  OBVIOUS
<1>1. owner' = Abandoned /\ UNCHANGED <<deployment, page>>
  BY DEF Cancel
<1>2. /\ PageOK(page, owner) /\ CommandsOK(owner) /\ AdShape(ad) /\ ActShape(act)
      /\ ClosedOK(page, owner, closed) /\ act.n \in 0 .. MaxDispatches
  BY DEF WorldInv, ActShape
<1>3. /\ CommandsOK(owner') /\ Quiet(owner')
      /\ \A n \in 0 .. MaxDispatches : Steps(owner', n) <=> Steps(owner, n)
  BY <1>1, <1>2, AbandonedGives
<1>4. \A n \in Sends : Steps(owner', n) <=> Steps(owner, n)
  BY <1>3 DEF Sends
<1>5. /\ PageOK(page', owner') /\ Ages(page, owner, page', owner')
  BY <1>1, <1>2, <1>4, OtherAges, OtherPage
<1>6. \A n \in Sends : Used(page', owner', n) <=> Used(page, owner, n)
  BY <1>1, <1>4 DEF Used
<1>7. CASE /\ act.at = "probe" /\ Close(act, {}, "cancelled")
           /\ act' = Doing("ended", act.n) /\ UNCHANGED <<co, acq, ad>>
  <2>1. /\ acq.at = "none" /\ act.n \in Sends /\ act.status = "not_sent"
        /\ ~Used(page, owner, act.n)
    BY <1>7 DEF WorldInv, ActOK
  <2>2. ClosedOK(page', owner', closed')
    BY <1>6, <1>7, <2>1 DEF ClosedOK, Close
  <2>3. ActShape(act') /\ act'.at = "ended"
    BY <1>2, <1>7, DoingIs DEF LoopPlaces
  <2> QED  BY <1>2, <1>3, <1>5, <1>7, <2>1, <2>2, <2>3, PlacedKeeps
<1>8. CASE /\ act.at = "health_probe" /\ Close(act, {}, "session_lost")
           /\ act' = Doing("ended", act.n) /\ UNCHANGED <<co, acq, ad>>
  BY <1>1, <1>3, <1>4, <1>8, UnresolvedKeeps
<1>9. CASE /\ act.at = "step" /\ ad' = [ad EXCEPT !.err = "step_failed"]
           /\ Sent("unknown", TRUE)
  <2>1. AdShape(ad')
    BY <1>2, <1>9 DEF AdShape
  <2>2. \A n \in Sends : Used(page', owner', n) => n <= act.n
    BY <1>6, <1>9 DEF WorldInv, ActOK
  <2> QED  BY <1>1, <1>3, <1>5, <1>9, <2>1, <2>2, SentKeeps
<1>10. CASE /\ act.at = "final" /\ ad' = [ad EXCEPT !.err = "step_failed"]
            /\ FinalStarts("unknown", TRUE)
  <2>1. AdShape(ad')
    BY <1>2, <1>10 DEF AdShape
  <2> QED  BY <1>1, <1>3, <1>4, <1>10, <2>1, FinalStartsKeeps
<1>11. CASE /\ acq.at = "frame"
            /\ IF acq.then = "post" THEN Close(act, {}, "cancelled") ELSE UNCHANGED closed
            /\ acq' = NoAcquisition
            /\ act' = Doing("ended", act.n)
            /\ UNCHANGED <<co, ad>>
  <2>1. act.at = "acquire" /\ AcqOK(deployment, page, owner, ad, act, acq)
    BY <1>11 DEF WorldInv, ActOK
  <2>2. ClosedOK(page', owner', closed')
    <3>1. CASE acq.then = "post"
      <4>1. /\ act.n \in Sends /\ act.status \in {"sent", "unknown"}
        BY <2>1, <3>1 DEF AcqOK, After
      <4> QED  BY <1>11, <3>1, <4>1 DEF ClosedOK, Close
    <3>2. CASE acq.then # "post"
      BY <1>2, <1>5, <1>11, <3>2, AgesKeepsClosed
    <3> QED  BY <3>1, <3>2
  <2>3. ActShape(act') /\ act'.at = "ended"
    BY <1>2, <1>11, DoingIs DEF LoopPlaces
  <2>4. AcqShape(NoAcquisition) /\ NoAcquisition.at = "none"
    BY DEF NoAcquisition, AcqShape, Purposes
  <2>5. WaitOK(owner', act', acq')
    BY <1>3 DEF Quiet, WaitOK
  <2>6. ActOK(deployment', page', owner', ad', act', acq', closed')
    BY <2>3 DEF ActOK
  <2> QED  BY <1>2, <1>3, <1>5, <1>11, <2>2, <2>3, <2>4, <2>5, <2>6 DEF WorldInv
<1> QED  BY <1>7, <1>8, <1>9, <1>10, <1>11 DEF Cancel
-----------------------------------------------------------------------------
(* The theorems.                                                           *)

\* At the beginning nothing is sent, asked or out.
LEMMA WorldInvInit == Init => WorldInv
PROOF
<1> SUFFICES ASSUME Init PROVE WorldInv
  OBVIOUS
<1>1. 0 \in 0 .. MaxDispatches
  BY DispatchesAssumption
<1>2. /\ owner.queue = <<>> /\ owner.busy = <<>> /\ owner.answer.kind = "none"
      /\ owner.queue \in Seq(Commands) /\ owner.busy \in Seq(Commands)
      /\ OwnerShape(owner)
  BY DEF Init, IdleOwner, OwnerShape, OwnerAnswer
<1>3. CommandsOK(owner) /\ Quiet(owner) /\ WaitOK(owner, act, acq)
  BY <1>2 DEF CommandsOK, Quiet, WaitOK
<1>4. \A n : ~Steps(owner, n)
  BY <1>2 DEF Steps
<1>5. PageShape(page)
  BY DEF Init, PageShape
<1>6. /\ PageOK(page, owner) /\ \A n \in Sends : ~Used(page, owner, n)
  BY <1>4, <1>5 DEF PageOK, Used, Init
<1>7. /\ ActShape(act) /\ act.at = "start"
  BY <1>1, DoingIs DEF Init, LoopPlaces
<1>8. AcqShape(acq) /\ acq.at = "none" /\ AdShape(ad)
  BY DEF Init, NoAcquisition, AcqShape, Purposes, AdShape
<1>9. ActOK(deployment, page, owner, ad, act, acq, closed)
  BY <1>6, <1>7 DEF ActOK
<1>10. ClosedOK(page, owner, closed)
  BY DEF Init, ClosedOK, NothingClosed
<1> QED  BY <1>3, <1>6, <1>7, <1>8, <1>9, <1>10 DEF WorldInv

\* A step in which nothing happens.
LEMMA StutterKeeps == WorldInv /\ UNCHANGED vars => WorldInv'
PROOF BY DEF WorldInv, vars

\* Every step keeps what is known of the dispatch.
LEMMA WorldStep == WorldInv /\ [Next]_vars => WorldInv'
PROOF
<1> SUFFICES ASSUME WorldInv, [Next]_vars PROVE WorldInv'
  OBVIOUS
<1>1. CASE Reset \/ Observe \/ Refresh \/ Recover \/ SelectAction
  BY <1>1, ResetKeeps, LooksKeep, SelectKeeps
<1>2. CASE SessionAcquires \/ SessionExecutes \/ SessionUnresolved
  BY <1>2, SessionAcquiresKeeps, SessionExecutesKeeps, SessionUnresolvedKeeps
<1>3. CASE GymAcquires \/ FrameAnswered \/ GymExecutes \/ ProbeAnswered \/ StepAnswered
  BY <1>3, GymAcquiresKeeps, FrameAnsweredKeeps, GymExecutesKeeps, ProbeAnsweredKeeps,
     StepAnsweredKeeps
<1>4. CASE Finalize \/ FinalAnswered \/ Probes \/ HealthAnswered
  BY <1>4, FinalizeKeeps, FinalAnsweredKeeps, ProbesKeeps, HealthAnsweredKeeps
<1>5. CASE PageDrifts \/ NavigationCommits \/ OwnerTakes \/ OwnerFinishes \/ OwnerSteps
  BY <1>5, DriftKeeps, NavigationKeeps, TakesKeeps, FinishesKeeps, StepsKeeps
<1>6. CASE Timeout \/ Cancel
  BY <1>6, TimeoutKeeps, CancelKeeps
<1> QED  BY <1>1, <1>2, <1>3, <1>4, <1>5, <1>6, StutterKeeps DEF Next, RunSteps

\* What is known of a dispatch, its command and its effect holds throughout: a
\* command is worked on once, an effect that is out has not landed, and the frame
\* of a sent dispatch is younger than its effect (orchestrator.execute,
\* environment.execute, ThreadBoundBrowserGym._call and _run).
THEOREM WorldIsSound == Spec => []WorldInv
PROOF
<1>1. Init => WorldInv
  BY WorldInvInit
<1>2. WorldInv /\ [Next]_vars => WorldInv'
  BY WorldStep
<1> QED  BY <1>1, <1>2, PTL DEF Spec

\* What a step reports of its dispatch is what happened to it: a sent one is closed
\* with a world only if that was seen after its effect, and one that was not sent
\* has no effect, not even a late one (orchestrator.execute, environment.execute).
THEOREM ReportsAreTrue == Spec => []ReportIsTrue
PROOF
<1>1. WorldInv => ReportIsTrue
  <2> SUFFICES ASSUME WorldInv PROVE ReportIsTrue
    OBVIOUS
  <2>1. ClosedOK(page, owner, closed)
    BY DEF WorldInv
  <2>2. FreshAfterEffect
    BY <2>1 DEF ClosedOK, FreshAfterEffect
  <2>3. NotSentMeansNoEffect
    BY <2>1 DEF ClosedOK, Used, NotSentMeansNoEffect
  <2> QED  BY <2>2, <2>3 DEF ReportIsTrue
<1> QED  BY <1>1, WorldIsSound, PTL

\* An effect lands on no version, or on the one it has landed on.
LandsOn(p, p2) == \A n \in Sends : p.landed[n] # 0 => p2.landed[n] = p.landed[n]

\* A step lands no effect, or one that has not landed.
LEMMA StepsLand == WorldInv /\ [Next]_vars => LandsOn(page, page')
PROOF
<1> SUFFICES ASSUME WorldInv, [Next]_vars PROVE LandsOn(page, page')
  OBVIOUS
<1>1. PageOK(page, owner) /\ PageShape(page) /\ CommandsOK(owner)
  BY DEF WorldInv, PageOK
<1>2. ASSUME NEW n \in Sends, page.landed[n] = 0, NEW t, t = Lands(page, n)
      PROVE  LandsOn(page, t)
  BY <1>1, <1>2, LandsGives DEF LandsOn
<1>3. ASSUME page'.landed = page.landed PROVE LandsOn(page, page')
  BY <1>3 DEF LandsOn
<1>4. ASSUME NEW s, page' = [page EXCEPT !.serial = s] PROVE LandsOn(page, page')
  BY <1>1, <1>3, <1>4, FramedGives
<1>5. CASE PageDrifts
  <2>1. page'.landed = page.landed
    BY <1>1, <1>5 DEF PageDrifts, PageShape
  <2> QED  BY <1>3, <2>1
<1>6. CASE Reset \/ SessionAcquires \/ OwnerFinishes
  <2>1. page' = page \/ \E s : page' = [page EXCEPT !.serial = s]
    BY <1>6 DEF Reset, SessionAcquires, OwnerFinishes, Captures
  <2> QED  BY <1>3, <1>4, <2>1
<1>7. CASE SessionExecutes
  <2>1. act.n \in Sends /\ page.landed[act.n] = 0
    BY <1>7 DEF SessionExecutes, WorldInv, ActOK, Used
  <2>2. page' = page \/ page' = Lands(page, act.n)
    BY <1>7 DEF SessionExecutes
  <2> QED  BY <1>2, <1>3, <2>1, <2>2
<1>8. CASE NavigationCommits
  <2>1. PICK n \in page.out : page' = Lands(page, n)
    BY <1>8 DEF NavigationCommits
  <2>2. n \in Sends /\ page.landed[n] = 0
    BY <1>1 DEF PageOK, PageShape
  <2> QED  BY <1>2, <2>1, <2>2
<1>9. CASE OwnerSteps
  <2>1. owner.busy # <<>> /\ owner.busy[1].name = "step"
    BY <1>9 DEF OwnerSteps, Works
  <2>2. PICK n : n = owner.busy[1].n
    OBVIOUS
  <2>3. n \in Sends /\ Steps(owner, n)
    BY <1>1, <2>1, <2>2, CommandsAre DEF CommandsOK, Commands, Steps, IsStep, Sends
  <2>4. page.landed[n] = 0
    BY <1>1, <2>3 DEF PageOK
  <2>5. PICK landed : landed = Lands(page, n)
    OBVIOUS
  <2>6. \/ \E s : page' = [landed EXCEPT !.serial = s]
        \/ page' = landed
        \/ page' = [page EXCEPT !.out = @ \cup {n}]
    BY <1>9, <2>2, <2>5 DEF OwnerSteps
  <2>7. PageShape(landed) /\ LandsOn(page, landed)
    BY <1>1, <1>2, <2>3, <2>4, <2>5, LandsGives
  <2>8. ASSUME NEW s, page' = [landed EXCEPT !.serial = s] PROVE LandsOn(page, page')
    BY <2>7, <2>8, FramedGives DEF LandsOn
  <2>9. ASSUME page' = [page EXCEPT !.out = @ \cup {n}] PROVE page'.landed = page.landed
    BY <1>1, <2>9 DEF PageShape
  <2> QED  BY <1>3, <2>6, <2>7, <2>8, <2>9
<1>10. CASE UNCHANGED page
  BY <1>3, <1>10
<1>11. CASE Observe \/ Refresh \/ Recover \/ SelectAction \/ SessionUnresolved \/ GymAcquires
            \/ FrameAnswered \/ GymExecutes \/ ProbeAnswered
  BY <1>10, <1>11 DEF Observe, Refresh, Recover, SelectAction, SessionUnresolved, GymAcquires,
     FrameAnswered, GymExecutes, ProbeAnswered
<1>12. CASE StepAnswered \/ Finalize \/ FinalAnswered \/ Probes \/ HealthAnswered \/ OwnerTakes
            \/ Timeout \/ Cancel \/ UNCHANGED vars
  BY <1>10, <1>12 DEF StepAnswered, Finalize, FinalAnswered, Probes, HealthAnswered, OwnerTakes,
     Timeout, Cancel, vars
<1> QED  BY <1>5, <1>6, <1>7, <1>8, <1>9, <1>11, <1>12 DEF Next, RunSteps

\* The effect of a dispatch lands at most once, whatever is refreshed, recovered,
\* given up or answered late (orchestrator.execute,
\* core_loop._refresh_stale_binding, ThreadBoundBrowserGym._run).
THEOREM EffectsLandOnce == Spec => EffectLandsOnce
PROOF
<1>1. ASSUME WorldInv, [Next]_vars
      PROVE  \A n \in Sends :
                page.landed[n] # 0 => page'.landed[n] = page.landed[n] /\ n \notin page'.out
  <2>1. LandsOn(page, page') /\ PageOK(page', owner')
    BY <1>1, StepsLand, WorldStep DEF WorldInv
  <2> QED  BY <2>1 DEF LandsOn, PageOK
<1> QED  BY <1>1, WorldIsSound, PTL DEF Spec, EffectLandsOnce

\* A command that has not been submitted makes no queue longer.
LEMMA SubmittedLeaves ==
    ASSUME CommandsOK(owner), owner.timedOut, NEW name
    PROVE  Submitted(name).queue = owner.queue
PROOF BY DEF Submitted, CommandsOK, OwnerShape

\* After a deadline the owner is given no other command: no effect is started
\* behind one whose fate is unknown (ThreadBoundBrowserGym._call).
THEOREM OwnerIsLeftAlone == Spec => AbandonedOwnerIsLeftAlone
PROOF
<1>1. ASSUME WorldInv, [Next]_vars, owner.timedOut
      PROVE  Len(owner'.queue) <= Len(owner.queue)
  <2>1. CommandsOK(owner) /\ OwnerShape(owner) /\ Len(owner.queue) \in Nat
    BY <1>1, CommandsAre DEF WorldInv, CommandsOK
  <2>2. CASE owner'.queue = owner.queue
    BY <2>1, <2>2
  <2>3. CASE OwnerTakes
    <3>1. owner.queue # <<>> /\ owner'.queue = Tail(owner.queue)
      BY <2>1, <2>3 DEF OwnerTakes, OwnerShape
    <3> QED  BY <2>1, <3>1 DEF OwnerShape
  <2>4. CASE OwnerFinishes \/ OwnerSteps
    <3>1. \E kind, frame : Finishes(kind, frame)
      BY <2>4 DEF OwnerFinishes, OwnerSteps, Captures
    <3>2. owner'.queue = owner.queue
      BY <2>1, <3>1 DEF Finishes, OwnerShape
    <3> QED  BY <2>2, <3>2
  <2>5. CASE Timeout
    <3>1. PICK o : o = Unwaited(owner)
      OBVIOUS
    <3>2. OwnerShape(o) /\ Len(o.queue) = Len(owner.queue)
      BY <2>1, <3>1, UnwaitedGives DEF CommandsOK
    <3>3. \E late, a : owner' = [o EXCEPT !.timedOut = late, !.answer = a]
      BY <2>5, <3>1 DEF Timeout
    <3>4. owner'.queue = o.queue
      BY <3>2, <3>3 DEF OwnerShape
    <3> QED  BY <2>1, <3>2, <3>4
  <2>6. CASE Cancel
    <3>1. Len(owner'.queue) = Len(owner.queue)
      BY <2>1, <2>6, AbandonedGives DEF Cancel
    <3> QED  BY <2>1, <3>1
  <2>7. ASSUME Read PROVE owner'.queue = owner.queue
    BY <2>1, <2>7 DEF Read, OwnerShape
  <2>8. CASE FrameAnswered \/ StepAnswered \/ FinalAnswered \/ HealthAnswered
    BY <2>2, <2>7, <2>8 DEF FrameAnswered, StepAnswered, FinalAnswered, HealthAnswered
  <2>9. CASE GymAcquires \/ GymExecutes \/ Finalize \/ Probes
    <3>1. owner' = owner \/ \E name : owner' = Submitted(name)
      BY <2>9 DEF GymAcquires, GymExecutes, Finalize, Probes
    <3> QED  BY <1>1, <2>1, <2>2, <3>1, SubmittedLeaves
  <2>10. CASE ProbeAnswered
    <3>1. Read \/ owner' = [Submitted("step") EXCEPT !.answer = @]
      BY <1>1, <2>10 DEF ProbeAnswered
    <3>2. ASSUME owner' = [Submitted("step") EXCEPT !.answer = @]
          PROVE  owner'.queue = owner.queue
      <4>1. Submitted("step") = [owner EXCEPT !.answer = OwnerAnswer("raised", NoFrame)]
        BY <1>1 DEF Submitted
      <4> QED  BY <2>1, <3>2, <4>1 DEF OwnerShape
    <3> QED  BY <2>2, <2>7, <3>1, <3>2
  <2>11. CASE PageDrifts \/ Reset \/ Observe \/ Refresh \/ Recover \/ SelectAction
              \/ SessionAcquires \/ SessionExecutes \/ SessionUnresolved \/ NavigationCommits
              \/ UNCHANGED vars
    BY <2>2, <2>11 DEF PageDrifts, Reset, Observe, Refresh, Recover, SelectAction,
       SessionAcquires, SessionExecutes, SessionUnresolved, NavigationCommits, vars
  <2> QED  BY <1>1, <2>3, <2>4, <2>5, <2>6, <2>8, <2>9, <2>10, <2>11 DEF Next, RunSteps
<1> QED  BY <1>1, WorldIsSound, PTL DEF Spec, AbandonedOwnerIsLeftAlone
=============================================================================
