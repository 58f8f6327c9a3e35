------------------------- MODULE TransferJobProofs -------------------------
(***************************************************************************)
(* What holds of a transfer job for any number of workers, managers and    *)
(* initiators, any edits and any interruptions: its types, that its        *)
(* progress never falls and that a recorded cancellation or completion is  *)
(* not undone.  The row has no owner, so the argument cannot be about who  *)
(* drives the job; it is about what a stale snapshot may still write.  For *)
(* one worker also: what is promoted was verified, and what is completed   *)
(* is at the destination.                                                  *)
(***************************************************************************)
EXTENDS TransferJob, TLAPS

(***************************************************************************)
(* The invariant.  Beside the types: a worker beyond its claim has a       *)
(* snapshot of a job in the middle, one that finishes a cancellation has a *)
(* snapshot of a cancelling one, a request has a snapshot its operation    *)
(* admits, and no row means no progress.                                   *)
(***************************************************************************)
Driving == Places \ {"idle", "resume", "finish"}

Snapshots ==
    \A p \in Workers :
        \/ w[p].at \in {"idle", "resume"}
        \/ w[p].at = "finish" /\ w[p].exp = "cancelling"
        \/ w[p].at \in Driving /\ w[p].exp \in Mid

Requests ==
    /\ (user.op = "cancel") => user.exp \in Mid \cup {"queued"}
    /\ (user.op = "retry") => user.exp \in {"failed", "blocked"}

NoRow == (state = "none") => done = 0

Inv == TypeOK /\ Snapshots /\ Requests /\ NoRow

-----------------------------------------------------------------------------
(***************************************************************************)
(* What a step does to the row: nothing, or an advance, or the requeueing  *)
(* and the creation of PersistPlan.                                        *)
(***************************************************************************)
Kept == UNCHANGED <<state, done>>

Advance ==
    /\ state \in Active \cup {"failed", "blocked"}
    /\ state' \in Active \cup Ended
    /\ done' \in 0..Grown /\ done <= done'
    /\ (state = "cancelling") => state' \in {"cancelled", "completed"}

WorkersGood == WorkersOK /\ Snapshots

\* A worker that goes from one place of its work to another keeps its snapshot.
LEMMA GotoGood ==
    ASSUME WorkersGood, NEW p \in Workers, NEW l \in Driving,
           w[p].at \in Driving, Goto(p, l)
    PROVE  WorkersGood'
BY DEF WorkersGood, WorkersOK, Snapshots, Goto, Driving

\* A worker that stops has no snapshot.
LEMMA StopGood ==
    ASSUME WorkersGood, TransferAssumption, NEW p \in Workers, Stop(p)
    PROVE  WorkersGood'
BY DEF WorkersGood, WorkersOK, Snapshots, Stop, Idle, Driving, Places, TransferAssumption, Grown

\* transition advances the row or leaves it alone.
LEMMA TransitionGood ==
    ASSUME WorkersGood, RowOK, TransferAssumption, NEW p \in Workers, w[p].at \in Driving,
           NEW next \in Mid, NEW l \in Driving, Transition(p, next, l)
    PROVE  WorkersGood' /\ (Kept \/ Advance)
<1>1. CASE Writable(w[p].exp, w[p].done)
  <2>1. w[p].exp \in Mid /\ w[p].done \in 0..Grown
    BY DEF WorkersGood, WorkersOK, Snapshots, Driving
  <2>2. Advance
    BY <1>1, <2>1 DEF Transition, Writable, Advance, Active, Mid, RowOK, Grown
  <2>3. WorkersGood'
    BY <1>1 DEF Transition, WorkersGood, WorkersOK, Snapshots, Driving
  <2> QED BY <2>2, <2>3
<1>2. CASE ~Writable(w[p].exp, w[p].done)
  <2>1. Stop(p) /\ Kept
    BY <1>2 DEF Transition, Kept, row
  <2> QED BY <2>1, StopGood
<1> QED BY <1>1, <1>2

\* So do fail and block.
LEMMA EndGood ==
    ASSUME WorkersGood, RowOK, TransferAssumption, NEW p \in Workers, w[p].at \in Driving,
           NEW to \in Ended, NEW again \in BOOLEAN, NEW d \in 0..Grown, End(p, to, again, d)
    PROVE  WorkersGood' /\ (Kept \/ Advance)
<1>1. WorkersGood'
  BY StopGood DEF End
<1>2. w[p].exp \in Mid
  BY DEF WorkersGood, WorkersOK, Snapshots, Driving
<1>3. Kept \/ Advance
  BY <1>2 DEF End, Writable, Kept, Advance, Active, Mid, Ended, RowOK
<1> QED BY <1>1, <1>3

LEMMA FailGood ==
    ASSUME WorkersGood, RowOK, TransferAssumption, NEW p \in Workers, w[p].at \in Driving,
           NEW again \in BOOLEAN, Fail(p, again)
    PROVE  WorkersGood' /\ (Kept \/ Advance)
<1>1. w[p].done \in 0..Grown /\ "failed" \in Ended
  BY DEF WorkersGood, WorkersOK, Ended
<1>2. End(p, "failed", again, w[p].done)
  BY DEF Fail
<1> QED BY <1>1, <1>2, EndGood

\* A failed route is followed by the next one or by the failure of the job.
LEMMA NextRouteGood ==
    ASSUME WorkersGood, RowOK, TransferAssumption, NEW p \in Workers, w[p].at \in Driving,
           NEW d \in 0..Grown, NextRoute(p, d)
    PROVE  WorkersGood' /\ (Kept \/ Advance)
<1>1. CASE w[p].route < Routes
  <2>1. w' = [w EXCEPT ![p].at = "copy", ![p].route = @ + 1, ![p].done = d] /\ Kept
    BY <1>1 DEF NextRoute, row, Kept
  <2>2. "copy" \in Driving /\ w[p].route + 1 \in 1..Routes
    BY <1>1 DEF Driving, Places, WorkersGood, WorkersOK, TransferAssumption
  <2>3. WorkersGood'
    BY <2>1, <2>2 DEF WorkersGood, WorkersOK, Snapshots, Driving
  <2> QED BY <2>1, <2>3
<1>2. CASE ~(w[p].route < Routes)
  <2>1. End(p, "failed", TRUE, d) /\ "failed" \in Ended
    BY <1>2 DEF NextRoute, Ended
  <2> QED BY <2>1, EndGood
<1> QED BY <1>1, <1>2

-----------------------------------------------------------------------------
(***************************************************************************)
(* The flags of the row take only the values the code writes.  They are    *)
(* proved apart: the steps above do arithmetic, these do not.              *)
(***************************************************************************)
LEMMA TransitionFlags ==
    ASSUME FlagsOK, NEW p, NEW next, NEW l, Transition(p, next, l)
    PROVE  FlagsOK'
BY ZenonT(30) DEF FlagsOK, Transition, row

LEMMA EndFlags ==
    ASSUME FlagsOK, NEW p, NEW to, NEW again \in BOOLEAN, NEW d, End(p, to, again, d)
    PROVE  FlagsOK'
BY ZenonT(30) DEF FlagsOK, End

LEMMA FailFlags ==
    ASSUME FlagsOK, NEW p, NEW again \in BOOLEAN, Fail(p, again)
    PROVE  FlagsOK'
BY EndFlags DEF Fail

LEMMA NextRouteFlags ==
    ASSUME FlagsOK, NEW p, NEW d, NextRoute(p, d)
    PROVE  FlagsOK'
<1>1. CASE w[p].route < Routes
  BY <1>1, ZenonT(30) DEF NextRoute, row, FlagsOK
<1>2. CASE ~(w[p].route < Routes)
  BY <1>2, EndFlags DEF NextRoute
<1> QED BY <1>1, <1>2

LEMMA RowUnchanged ==
    ASSUME FlagsOK, UNCHANGED row
    PROVE  FlagsOK' /\ Kept
BY ZenonT(30) DEF FlagsOK, row, Kept

-----------------------------------------------------------------------------
(***************************************************************************)
(* A step of a worker is good when it leaves the workers with sound        *)
(* snapshots, advances the row or leaves it alone, and keeps the types.    *)
(***************************************************************************)
GoodStep ==
    /\ WorkersGood' /\ (Kept \/ Advance) /\ FlagsOK' /\ PathsOK' /\ CommandsOK'
    /\ UserOK' /\ Requests' /\ BoundsOK'

LEMMA GoodStepKeepsInv ==
    ASSUME Inv, GoodStep
    PROVE  Inv'
BY DEF Inv, TypeOK, GoodStep, Kept, Advance, RowOK, NoRow, WorkersGood, Active, Ended, Mid

\* What the steps that touch only the row and the workers leave alone.
LEMMA Elsewhere ==
    ASSUME Inv, UNCHANGED <<source, remote, user, bounds>>
    PROVE  PathsOK' /\ CommandsOK' /\ UserOK' /\ Requests' /\ BoundsOK'
BY DEF Inv, TypeOK, PathsOK, CommandsOK, UserOK, Requests, BoundsOK, remote, bounds

\* The same when the paths and commands change but the user does not.
LEMMA UserUnchanged ==
    ASSUME Inv, UNCHANGED <<user, bounds>>
    PROVE  UserOK' /\ Requests' /\ BoundsOK'
BY DEF Inv, TypeOK, UserOK, Requests, BoundsOK, bounds

LEMMA InvParts ==
    ASSUME Inv
    PROVE  WorkersGood /\ RowOK /\ FlagsOK /\ PathsOK /\ CommandsOK /\ UserOK /\ BoundsOK
BY DEF Inv, TypeOK, WorkersGood

(***************************************************************************)
(* Claim, resumption and plan                                              *)
(***************************************************************************)
LEMMA ClaimGood ==
    ASSUME TransferAssumption, Inv, NEW p \in Workers, ClaimTransferJob(p)
    PROVE  GoodStep
<1> USE InvParts
<1>1. UNCHANGED <<source, remote, user, bounds>>
  BY DEF ClaimTransferJob
<1>2. WorkersGood'
  BY DEF ClaimTransferJob, WorkersGood, WorkersOK, Snapshots, Driving, Places, Mid, RowOK,
         TransferAssumption
<1>3. Advance
  BY DEF ClaimTransferJob, Advance, Active, Mid, RowOK
<1>4. FlagsOK'
  BY ZenonT(30) DEF ClaimTransferJob, FlagsOK
<1> QED BY <1>1, <1>2, <1>3, <1>4, Elsewhere DEF GoodStep

LEMMA ReconcileGood ==
    ASSUME TransferAssumption, Inv, NEW p \in Workers, Reconcile(p)
    PROVE  GoodStep
<1> USE InvParts
<1>1. UNCHANGED <<source, remote, user, bounds>> /\ UNCHANGED row
  BY DEF Reconcile
<1>2. WorkersGood'
  BY DEF Reconcile, WorkersGood, WorkersOK, Snapshots, Driving, Places, Goto, At
<1> QED BY <1>1, <1>2, Elsewhere, RowUnchanged DEF GoodStep

LEMMA ResumeGood ==
    ASSUME TransferAssumption, Inv, NEW p \in Workers, Resume(p)
    PROVE  GoodStep
<1> USE InvParts
<1>1. UNCHANGED <<source, remote, user, bounds>> /\ UNCHANGED row
  BY DEF Resume
<1>2. CASE state \in Mid
  <2>1. w' = [w EXCEPT ![p] = [at |-> "plan", exp |-> state, done |-> done, route |-> 1]]
    BY <1>2 DEF Resume, Mid
  <2>2. WorkersGood'
    BY <1>2, <2>1 DEF WorkersGood, WorkersOK, Snapshots, Driving, Places, RowOK, TransferAssumption
  <2> QED BY <2>2, <1>1, Elsewhere, RowUnchanged DEF GoodStep
<1>3. CASE state = "cancelling"
  <2>1. w' = [w EXCEPT ![p] = [at |-> "finish", exp |-> "cancelling", done |-> done, route |-> 1]]
    BY <1>3 DEF Resume, Mid
  <2>2. WorkersGood'
    BY <1>3, <2>1 DEF WorkersGood, WorkersOK, Snapshots, Driving, Places, RowOK, TransferAssumption
  <2> QED BY <2>2, <1>1, Elsewhere, RowUnchanged DEF GoodStep
<1>4. CASE state \notin Mid /\ state # "cancelling"
  <2>1. Stop(p)
    BY <1>4 DEF Resume
  <2> QED BY <2>1, <1>1, StopGood, Elsewhere, RowUnchanged DEF GoodStep
<1> QED BY <1>2, <1>3, <1>4

LEMMA ReadPlanGood ==
    ASSUME TransferAssumption, Inv, NEW p \in Workers, ReadPlan(p)
    PROVE  GoodStep
<1> USE InvParts
<1>1. UNCHANGED <<source, remote, user, bounds>> /\ w[p].at \in Driving
  BY DEF ReadPlan, At, Driving, Places
<1>2. CASE Goto(p, StageOf(w[p].exp)) /\ UNCHANGED row
  <2>1. w[p].exp \in Mid
    BY <1>1 DEF WorkersGood, Snapshots, Driving
  <2>2. StageOf(w[p].exp) \in Driving
    BY <2>1 DEF StageOf, Mid, Driving, Places
  <2> QED BY <1>1, <1>2, <2>2, GotoGood, Elsewhere, RowUnchanged DEF GoodStep
<1>3. CASE \E again \in BOOLEAN : Fail(p, again)
  BY <1>1, <1>3, FailGood, FailFlags, Elsewhere DEF GoodStep
<1> QED BY <1>2, <1>3 DEF ReadPlan

LEMMA BeginTransferGood ==
    ASSUME TransferAssumption, Inv, NEW p \in Workers, BeginTransfer(p)
    PROVE  GoodStep
<1> USE InvParts
<1>1. /\ UNCHANGED <<source, remote, user, bounds>> /\ w[p].at \in Driving
      /\ Transition(p, "transferring", "copy")
      /\ "transferring" \in Mid /\ "copy" \in Driving
  BY DEF BeginTransfer, At, Driving, Places, Mid
<1> QED BY <1>1, TransitionGood, TransitionFlags, Elsewhere DEF GoodStep

(***************************************************************************)
(* Copy                                                                    *)
(***************************************************************************)

\* Nobody waits any more: the lock and the queue stay of their types.
LEMMA AbandonGood ==
    ASSUME TransferAssumption, Inv, NEW p \in Workers, Abandon(p)
    PROVE  /\ lock' \in [1..Routes -> {"nobody", "orphan"} \cup Workers]
           /\ late' \subseteq 1..Routes /\ stray' \in BOOLEAN
<1>1. w[p].route \in 1..Routes
  BY InvParts DEF WorkersGood, WorkersOK
<1>2. stray' \in BOOLEAN
  BY InvParts, Zenon DEF Abandon, CommandsOK
<1>3. CASE lock[w[p].route] = p
  BY <1>1, <1>2, <1>3, InvParts DEF Abandon, CommandsOK
<1>4. CASE lock[w[p].route] # p
  BY <1>1, <1>2, <1>4, InvParts DEF Abandon, CommandsOK
<1> QED BY <1>3, <1>4

LEMMA StartCopyGood ==
    ASSUME TransferAssumption, Inv, NEW p \in Workers, StartCopy(p)
    PROVE  GoodStep
<1> USE InvParts
<1>1. UNCHANGED <<source, remote, user, bounds>> /\ w[p].at \in Driving
  BY DEF StartCopy, At, Driving, Places
<1>2. CASE state = w[p].exp
  <2>1. Touched(p, "copying") /\ "copying" \in Driving
    BY <1>2 DEF StartCopy, Driving, Places
  <2>2. WorkersGood' /\ Kept
    BY <1>1, <2>1, GotoGood DEF Touched, Kept
  <2>3. FlagsOK'
    BY <2>1, ZenonT(30) DEF Touched, FlagsOK
  <2> QED BY <1>1, <2>2, <2>3, Elsewhere DEF GoodStep
<1>3. CASE state # w[p].exp
  <2>1. NextRoute(p, w[p].done) /\ w[p].done \in 0..Grown
    BY <1>3 DEF StartCopy, WorkersGood, WorkersOK
  <2> QED BY <1>1, <2>1, NextRouteGood, NextRouteFlags, Elsewhere DEF GoodStep
<1> QED BY <1>2, <1>3

LEMMA RsyncLocksGood ==
    ASSUME TransferAssumption, Inv, NEW p \in Workers, RsyncLocks(p)
    PROVE  GoodStep
<1> USE InvParts
<1>1. UNCHANGED <<row, w, source, staging, final, late, promo, stray, user, bounds>>
  BY DEF RsyncLocks
<1>2. WorkersGood' /\ PathsOK'
  BY <1>1 DEF WorkersGood, WorkersOK, Snapshots, PathsOK
<1>3. CommandsOK'
  BY <1>1 DEF RsyncLocks, CommandsOK, WorkersGood, WorkersOK
<1> QED BY <1>1, <1>2, <1>3, RowUnchanged, UserUnchanged DEF GoodStep

\* The high-water mark is not below the snapshot it is taken of.
LEMMA MarkGood ==
    ASSUME WorkersGood, NEW p \in Workers, NEW d \in 0..Grown
    PROVE  Mark(p, d) \in 0..Grown /\ w[p].done <= Mark(p, d)
BY DEF Mark, WorkersGood, WorkersOK, Grown

LEMMA ReportProgressGood ==
    ASSUME TransferAssumption, Inv, NEW p \in Workers, ReportProgress(p)
    PROVE  GoodStep
<1> USE InvParts
<1>1. /\ UNCHANGED <<source, staging, final, promo, user, bounds>>
      /\ w[p].at = "copying" /\ w[p].at \in Driving
  BY DEF ReportProgress, At, Driving, Places
<1>2. PICK d \in 1..Size :
         LET m == Mark(p, d)
         IN  IF Writable(w[p].exp, m)
               THEN /\ done' = m /\ fresh' = TRUE
                    /\ w' = [w EXCEPT ![p].done = m]
                    /\ UNCHANGED <<state, retryable, lock, late, stray>>
               ELSE NextRoute(p, m) /\ Abandon(p)
  BY DEF ReportProgress
<1> DEFINE m == Mark(p, d)
<1>3. m \in 0..Grown /\ w[p].exp \in Mid
  BY <1>1, MarkGood DEF Size, Grown, Planned, WorkersGood, Snapshots, Driving
<1>4. PathsOK'
  BY <1>1 DEF PathsOK
<1> HIDE DEF m
<1>5. CASE Writable(w[p].exp, m)
  <2>1. /\ done' = m /\ fresh' = TRUE /\ w' = [w EXCEPT ![p].done = m]
        /\ UNCHANGED <<state, retryable, lock, late, stray>>
    BY <1>2, <1>5 DEF m
  <2>2. WorkersGood'
    BY <1>3, <2>1 DEF WorkersGood, WorkersOK, Snapshots
  <2>3. Advance
    BY <1>3, <1>5, <2>1 DEF Writable, Advance, Active, Mid
  <2>4. FlagsOK'
    BY <2>1, ZenonT(30) DEF FlagsOK
  <2>5. CommandsOK'
    BY <1>1, <2>1 DEF CommandsOK
  <2> QED BY <1>1, <1>4, <2>2, <2>3, <2>4, <2>5, UserUnchanged DEF GoodStep
<1>6. CASE ~Writable(w[p].exp, m)
  <2>1. NextRoute(p, m) /\ Abandon(p)
    BY <1>2, <1>6 DEF m
  <2>2. CommandsOK'
    BY <1>1, <2>1, AbandonGood DEF CommandsOK
  <2> QED BY <1>1, <1>3, <1>4, <2>1, <2>2, NextRouteGood, NextRouteFlags, UserUnchanged DEF GoodStep
<1> QED BY <1>5, <1>6

LEMMA WholeGood == Whole \subseteq {"dirty", "good"}
BY DEF Whole

LEMMA RsyncDoneGood ==
    ASSUME TransferAssumption, Inv, NEW p \in Workers, RsyncDone(p)
    PROVE  GoodStep
<1> USE InvParts
<1> DEFINE m == Mark(p, Size)
<1>1. /\ UNCHANGED <<source, final, late, promo, stray, user, bounds>>
      /\ w[p].at = "copying" /\ w[p].at \in Driving
  BY DEF RsyncDone, At, Driving, Places
<1>2. PathsOK'
  BY <1>1, WholeGood DEF RsyncDone, PathsOK
<1>3. CommandsOK'
  BY <1>1 DEF RsyncDone, CommandsOK
<1>4. m \in 0..Grown /\ w[p].exp \in Mid
  BY <1>1, MarkGood DEF Size, Grown, Planned, WorkersGood, Snapshots, Driving
<1>5. IF Writable(w[p].exp, m)
        THEN /\ done' = m /\ fresh' = TRUE
             /\ w' = [w EXCEPT ![p].at = "copied", ![p].done = m]
             /\ UNCHANGED <<state, retryable>>
        ELSE NextRoute(p, m)
  BY DEF RsyncDone
<1> HIDE DEF m
<1>6. CASE Writable(w[p].exp, m)
  <2>1. /\ done' = m /\ fresh' = TRUE
        /\ w' = [w EXCEPT ![p].at = "copied", ![p].done = m]
        /\ UNCHANGED <<state, retryable>>
    BY <1>5, <1>6
  <2>2. WorkersGood'
    <3>1. "copied" \in Places /\ "copied" \in Driving
      BY DEF Driving, Places
    <3>2. WorkersOK'
      BY <1>4, <2>1, <3>1 DEF WorkersGood, WorkersOK
    <3>3. Snapshots'
      BY <1>1, <1>4, <2>1, <3>1 DEF WorkersGood, WorkersOK, Snapshots
    <3> QED BY <3>2, <3>3 DEF WorkersGood
  <2>3. Advance
    BY <1>4, <1>6, <2>1 DEF Writable, Advance, Active, Mid
  <2>4. FlagsOK'
    BY <2>1, ZenonT(30) DEF FlagsOK
  <2> QED BY <1>1, <1>2, <1>3, <2>2, <2>3, <2>4, UserUnchanged DEF GoodStep
<1>7. CASE ~Writable(w[p].exp, m)
  <2>1. NextRoute(p, m)
    BY <1>5, <1>7
  <2> QED BY <1>1, <1>2, <1>3, <1>4, <2>1, NextRouteGood, NextRouteFlags, UserUnchanged DEF GoodStep
<1> QED BY <1>6, <1>7

LEMMA CopyErrorGood ==
    ASSUME TransferAssumption, Inv, NEW p \in Workers, CopyError(p)
    PROVE  GoodStep
<1> USE InvParts
<1>1. /\ UNCHANGED <<source, staging, final, promo, user, bounds>>
      /\ w[p].at \in Driving /\ w[p].done \in 0..Grown
  BY DEF CopyError, At, Driving, Places, WorkersGood, WorkersOK
<1>2. PathsOK'
  BY <1>1 DEF PathsOK
<1>3. CASE NextRoute(p, w[p].done) /\ Abandon(p)
  <2>1. CommandsOK'
    BY <1>1, <1>3, AbandonGood DEF CommandsOK
  <2> QED BY <1>1, <1>2, <1>3, <2>1, NextRouteGood, NextRouteFlags, UserUnchanged DEF GoodStep
<1>4. CASE Fail(p, FALSE) /\ UNCHANGED <<lock, late, stray>>
  <2>1. CommandsOK'
    BY <1>1, <1>4 DEF CommandsOK
  <2> QED BY <1>1, <1>2, <1>4, <2>1, FailGood, FailFlags, UserUnchanged DEF GoodStep
<1> QED BY <1>3, <1>4 DEF CopyError

LEMMA EndCopyGood ==
    ASSUME TransferAssumption, Inv, NEW p \in Workers, EndCopy(p)
    PROVE  GoodStep
<1> USE InvParts
<1>1. /\ UNCHANGED <<source, remote, user, bounds>> /\ w[p].at \in Driving
      /\ Transition(p, "verifying", "verify")
      /\ "verifying" \in Mid /\ "verify" \in Driving
  BY DEF EndCopy, At, Driving, Places, Mid
<1> QED BY <1>1, TransitionGood, TransitionFlags, Elsewhere DEF GoodStep

(***************************************************************************)
(* Orphaned commands                                                       *)
(***************************************************************************)
LEMMA RsyncWritesGood ==
    ASSUME TransferAssumption, Inv, NEW r \in 1..Routes, RsyncWrites(r)
    PROVE  GoodStep
<1> USE InvParts
<1>1. UNCHANGED <<row, w, source, final, lock, late, promo, stray, user, bounds>>
  BY DEF RsyncWrites
<1>2. WorkersGood' /\ CommandsOK'
  BY <1>1 DEF WorkersGood, WorkersOK, Snapshots, CommandsOK
<1>3. PathsOK'
  BY <1>1 DEF RsyncWrites, PathsOK, Some
<1> QED BY <1>1, <1>2, <1>3, RowUnchanged, UserUnchanged DEF GoodStep

LEMMA OrphanGood ==
    ASSUME TransferAssumption, Inv, NEW r \in 1..Routes, Orphan(r)
    PROVE  GoodStep
<1> USE InvParts
<1>1. CASE OrphanLocks(r)
  <2>1. UNCHANGED <<row, w, source, staging, final, promo, stray, user, bounds>>
    BY <1>1 DEF OrphanLocks
  <2>2. WorkersGood' /\ PathsOK'
    BY <2>1 DEF WorkersGood, WorkersOK, Snapshots, PathsOK
  <2>3. CommandsOK'
    BY <1>1, <2>1 DEF OrphanLocks, CommandsOK
  <2> QED BY <2>1, <2>2, <2>3, RowUnchanged, UserUnchanged DEF GoodStep
<1>2. CASE OrphanEnds(r)
  <2>1. UNCHANGED <<row, w, source, final, late, promo, stray, user, bounds>>
    BY <1>2 DEF OrphanEnds
  <2>2. WorkersGood'
    BY <2>1 DEF WorkersGood, WorkersOK, Snapshots
  <2>3. CommandsOK' /\ PathsOK'
    BY <1>2, <2>1, WholeGood DEF OrphanEnds, CommandsOK, PathsOK
  <2> QED BY <2>1, <2>2, <2>3, RowUnchanged, UserUnchanged DEF GoodStep
<1> QED BY <1>1, <1>2 DEF Orphan

(***************************************************************************)
(* Verification and promotion                                              *)
(***************************************************************************)
LEMMA StartOperationGood ==
    ASSUME TransferAssumption, Inv, NEW p \in Workers, NEW l \in Driving,
           NEW operating \in Driving, StartOperation(p, l, operating)
    PROVE  GoodStep
<1> USE InvParts
<1>1. UNCHANGED <<source, remote, user, bounds>> /\ w[p].at \in Driving
  BY DEF StartOperation, At
<1>2. CASE state = w[p].exp
  <2>1. Touched(p, operating)
    BY <1>2 DEF StartOperation
  <2>2. WorkersGood' /\ Kept
    BY <1>1, <2>1, GotoGood DEF Touched, Kept
  <2>3. FlagsOK'
    BY <2>1, ZenonT(30) DEF Touched, FlagsOK
  <2> QED BY <1>1, <2>2, <2>3, Elsewhere DEF GoodStep
<1>3. CASE state # w[p].exp
  <2>1. Stop(p) /\ UNCHANGED row
    BY <1>3 DEF StartOperation
  <2> QED BY <1>1, <2>1, StopGood, RowUnchanged, Elsewhere DEF GoodStep
<1> QED BY <1>2, <1>3

LEMMA VerifyGood ==
    ASSUME TransferAssumption, Inv, NEW p \in Workers, Verify(p)
    PROVE  GoodStep
<1> USE InvParts
<1>1. /\ UNCHANGED <<source, remote, user, bounds>>
      /\ w[p].at \in Driving /\ w[p].exp \in Mid
  BY DEF Verify, At, Driving, Places, WorkersGood, Snapshots
<1>2. CASE w' = [w EXCEPT ![p].at = "verified", ![p].done = Planned] /\ UNCHANGED row
  <2>1. "verified" \in Places /\ "verified" \in Driving /\ Planned \in 0..Grown
    BY DEF Driving, Places, Planned, Grown
  <2>2. WorkersOK'
    BY <1>2, <2>1 DEF WorkersGood, WorkersOK
  <2>3. Snapshots'
    BY <1>1, <1>2, <2>1 DEF WorkersGood, WorkersOK, Snapshots
  <2> QED BY <1>1, <1>2, <2>2, <2>3, RowUnchanged, Elsewhere DEF GoodStep, WorkersGood
<1>3. CASE Fail(p, TRUE)
  BY <1>1, <1>3, FailGood, FailFlags, Elsewhere DEF GoodStep
<1> QED BY <1>2, <1>3 DEF Verify

LEMMA EndVerifyGood ==
    ASSUME TransferAssumption, Inv, NEW p \in Workers, EndVerify(p)
    PROVE  GoodStep
<1> USE InvParts
<1>1. /\ UNCHANGED <<source, remote, user, bounds>> /\ w[p].at \in Driving
      /\ Transition(p, "promoting", "promote")
      /\ "promoting" \in Mid /\ "promote" \in Driving
  BY DEF EndVerify, At, Driving, Places, Mid
<1> QED BY <1>1, TransitionGood, TransitionFlags, Elsewhere DEF GoodStep

\* An existing destination is accepted or blocks the job.
LEMMA AcceptGood ==
    ASSUME TransferAssumption, Inv, NEW p \in Workers, w[p].at \in Driving, Accept(p)
    PROVE  WorkersGood' /\ (Kept \/ Advance) /\ FlagsOK'
<1> USE InvParts
<1>1. CASE Goto(p, "record") /\ UNCHANGED row
  <2>1. "record" \in Driving
    BY DEF Driving, Places
  <2> QED BY <1>1, <2>1, GotoGood, RowUnchanged
<1>2. CASE Block(p)
  <2>1. End(p, "blocked", FALSE, w[p].done) /\ "blocked" \in Ended /\ w[p].done \in 0..Grown
    BY <1>2 DEF Block, Ended, WorkersGood, WorkersOK
  <2> QED BY <2>1, EndGood, EndFlags
<1> QED BY <1>1, <1>2 DEF Accept

LEMMA StatDestinationGood ==
    ASSUME TransferAssumption, Inv, NEW p \in Workers, StatDestination(p)
    PROVE  GoodStep
<1> USE InvParts
<1>1. /\ UNCHANGED <<source, staging, final, lock, late, stray, user, bounds>>
      /\ w[p].at \in Driving /\ "exec" \in Driving
  BY DEF StatDestination, At, Driving, Places
<1>2. PathsOK'
  BY <1>1 DEF PathsOK
<1>3. CASE Accept(p) /\ UNCHANGED promo
  <2>1. CommandsOK'
    BY <1>1, <1>3 DEF CommandsOK
  <2> QED BY <1>1, <1>2, <1>3, <2>1, AcceptGood, UserUnchanged DEF GoodStep
<1>4. CASE promo' = [promo EXCEPT ![p] = "sent"] /\ Goto(p, "exec") /\ UNCHANGED row
  <2>1. CommandsOK'
    BY <1>1, <1>4 DEF CommandsOK
  <2> QED BY <1>1, <1>2, <1>4, <2>1, GotoGood, RowUnchanged, UserUnchanged DEF GoodStep
<1>5. CASE Fail(p, TRUE) /\ UNCHANGED promo
  <2>1. CommandsOK'
    BY <1>1, <1>5 DEF CommandsOK
  <2> QED BY <1>1, <1>2, <1>5, <2>1, FailGood, FailFlags, UserUnchanged DEF GoodStep
<1> QED BY <1>3, <1>4, <1>5 DEF StatDestination

LEMMA PromoteCommandGood ==
    ASSUME TransferAssumption, Inv, NEW p \in Workers, PromoteCommand(p)
    PROVE  GoodStep
<1> USE InvParts
<1>1. UNCHANGED <<row, w, source, lock, late, stray, user, bounds>>
  BY DEF PromoteCommand, PromoteChecks, PromoteRenames, PromoteLost
<1>2. WorkersGood'
  BY <1>1 DEF WorkersGood, WorkersOK, Snapshots
<1>3. promo' \in [Workers -> {"none", "sent", "checked", "ok", "exists", "error"}]
  <2>1. CASE PromoteChecks(p)
    BY <2>1 DEF PromoteChecks, Answer, CommandsOK
  <2>2. CASE PromoteRenames(p)
    BY <2>2 DEF PromoteRenames, Answer, CommandsOK
  <2>3. CASE PromoteLost(p)
    BY <2>3 DEF PromoteLost, CommandsOK
  <2> QED BY <2>1, <2>2, <2>3 DEF PromoteCommand
<1>4. CommandsOK'
  BY <1>1, <1>3 DEF CommandsOK
<1>5. PathsOK'
  BY <1>1 DEF PromoteCommand, PromoteChecks, PromoteRenames, PromoteLost, PathsOK
<1> QED BY <1>1, <1>2, <1>4, <1>5, RowUnchanged, UserUnchanged DEF GoodStep
LEMMA PromoteReturnsGood ==
    ASSUME TransferAssumption, Inv, NEW p \in Workers, PromoteReturns(p)
    PROVE  GoodStep
<1> USE InvParts
<1>1. /\ UNCHANGED <<source, staging, final, lock, late, stray, user, bounds>>
      /\ w[p].at \in Driving /\ "record" \in Driving
      /\ promo' = [promo EXCEPT ![p] = "none"]
  BY DEF PromoteReturns, At, Driving, Places
<1>2. PathsOK' /\ CommandsOK'
  BY <1>1 DEF PathsOK, CommandsOK
<1>3. CASE Goto(p, "record") /\ UNCHANGED row
  BY <1>1, <1>2, <1>3, GotoGood, RowUnchanged, UserUnchanged DEF GoodStep
<1>4. CASE Accept(p)
  BY <1>1, <1>2, <1>4, AcceptGood, UserUnchanged DEF GoodStep
<1>5. CASE Fail(p, TRUE)
  BY <1>1, <1>2, <1>5, FailGood, FailFlags, UserUnchanged DEF GoodStep
<1> QED BY <1>3, <1>4, <1>5 DEF PromoteReturns

\* Neither does the promotion command that is left behind.
LEMMA LeavePromotionGood ==
    ASSUME TransferAssumption, Inv, NEW p \in Workers, LeavePromotion(p)
    PROVE  /\ promo' \in [Workers -> {"none", "sent", "checked", "ok", "exists", "error"}]
           /\ stray' \in BOOLEAN
<1> USE InvParts
<1>1. stray' \in BOOLEAN
  BY Zenon DEF LeavePromotion
<1>2. promo' \in [Workers -> {"none", "sent", "checked", "ok", "exists", "error"}]
  BY DEF LeavePromotion, CommandsOK
<1> QED BY <1>1, <1>2

LEMMA PromoteErrorGood ==
    ASSUME TransferAssumption, Inv, NEW p \in Workers, PromoteError(p)
    PROVE  GoodStep
<1> USE InvParts
<1>1. /\ UNCHANGED <<source, staging, final, lock, late, user, bounds>>
      /\ w[p].at \in Driving /\ Fail(p, TRUE)
  BY DEF PromoteError, At, Driving, Places
<1>2. PathsOK'
  BY <1>1 DEF PathsOK
<1>3. CommandsOK'
  BY <1>1, LeavePromotionGood DEF PromoteError, CommandsOK
<1> QED BY <1>1, <1>2, <1>3, FailGood, FailFlags, UserUnchanged DEF GoodStep

LEMMA RecordPlacementGood ==
    ASSUME TransferAssumption, Inv, NEW p \in Workers, RecordPlacement(p)
    PROVE  GoodStep
<1> USE InvParts
<1>1. /\ UNCHANGED <<source, remote, user, bounds>>
      /\ w[p].at \in Driving /\ "complete" \in Driving
  BY DEF RecordPlacement, At, Driving, Places
<1>2. CASE Goto(p, "complete") /\ UNCHANGED row
  BY <1>1, <1>2, GotoGood, RowUnchanged, Elsewhere DEF GoodStep
<1>3. CASE Fail(p, TRUE)
  BY <1>1, <1>3, FailGood, FailFlags, Elsewhere DEF GoodStep
<1> QED BY <1>2, <1>3 DEF RecordPlacement

LEMMA CompleteGood ==
    ASSUME TransferAssumption, Inv, NEW p \in Workers, Complete(p)
    PROVE  GoodStep
<1> USE InvParts
<1>1. /\ UNCHANGED <<source, remote, user, bounds>>
      /\ w[p].at \in Driving /\ "raced" \in Driving /\ w[p].done \in 0..Grown
  BY DEF Complete, At, Driving, Places, WorkersGood, WorkersOK
<1>2. CASE Writable("promoting", w[p].done)
  <2>1. /\ state' = "completed" /\ done' = w[p].done /\ fresh' = TRUE
        /\ Stop(p) /\ UNCHANGED retryable
    BY <1>2 DEF Complete
  <2>2. Advance
    BY <1>1, <1>2, <2>1 DEF Writable, Advance, Active, Mid, Ended
  <2>3. FlagsOK'
    BY <2>1, ZenonT(30) DEF FlagsOK
  <2> QED BY <1>1, <2>1, <2>2, <2>3, StopGood, Elsewhere DEF GoodStep
<1>3. CASE ~Writable("promoting", w[p].done)
  <2>1. Goto(p, "raced") /\ UNCHANGED row
    BY <1>3 DEF Complete
  <2> QED BY <1>1, <2>1, GotoGood, RowUnchanged, Elsewhere DEF GoodStep
<1> QED BY <1>2, <1>3

LEMMA CompleteRacedGood ==
    ASSUME TransferAssumption, Inv, NEW p \in Workers, CompleteRaced(p)
    PROVE  GoodStep
<1> USE InvParts
<1>1. UNCHANGED <<done, retryable, source, remote, user, bounds>> /\ Stop(p)
  BY DEF CompleteRaced
<1>2. Kept \/ Advance
  BY <1>1 DEF CompleteRaced, Kept, Advance, Active, Mid, Ended, RowOK, Grown
<1>3. FlagsOK'
  <2>1. fresh' = TRUE \/ UNCHANGED fresh
    BY DEF CompleteRaced
  <2> QED BY <1>1, <2>1, ZenonT(30) DEF FlagsOK
<1> QED BY <1>1, <1>2, <1>3, StopGood, Elsewhere DEF GoodStep

LEMMA FinishCancelledGood ==
    ASSUME TransferAssumption, Inv, NEW p \in Workers, FinishCancelled(p)
    PROVE  GoodStep
<1> USE InvParts
<1>1. UNCHANGED <<retryable, fresh, source, remote, user, bounds>> /\ Stop(p)
  BY DEF FinishCancelled
<1>2. w[p].done \in 0..Grown
  BY DEF WorkersGood, WorkersOK
<1>3. Kept \/ Advance
  BY <1>2 DEF FinishCancelled, Writable, Kept, Advance, Active, Mid, Ended, RowOK
<1>4. FlagsOK'
  BY <1>1, ZenonT(30) DEF FlagsOK
<1> QED BY <1>1, <1>3, <1>4, StopGood, Elsewhere DEF GoodStep

(***************************************************************************)
(* Time, interruptions and edits                                           *)
(***************************************************************************)
LEMMA LeaseGood ==
    ASSUME TransferAssumption, Inv, LeaseExpires \/ (\E p \in Workers : Beat(p))
    PROVE  GoodStep
<1> USE InvParts
<1>1. UNCHANGED <<state, done, retryable, w, source, remote, user, bounds>>
  BY DEF LeaseExpires, Beat
<1>2. fresh' = TRUE \/ fresh' = FALSE
  BY DEF LeaseExpires, Beat
<1>3. FlagsOK'
  BY <1>1, <1>2, ZenonT(30) DEF FlagsOK
<1>4. WorkersGood' /\ Kept
  BY <1>1 DEF WorkersGood, WorkersOK, Snapshots, Kept
<1> QED BY <1>1, <1>3, <1>4, Elsewhere DEF GoodStep

LEMMA InterruptedGood ==
    ASSUME TransferAssumption, Inv, NEW p \in Workers, Interrupted(p)
    PROVE  GoodStep
<1> USE InvParts
<1>1. UNCHANGED <<row, source, staging, final, user, edits>> /\ Stop(p)
  BY DEF Interrupted
<1>2. PathsOK' /\ UserOK' /\ Requests'
  BY <1>1 DEF PathsOK, UserOK, Requests, Inv
<1>3. BoundsOK'
  BY <1>1 DEF Interrupted, BoundsOK, TransferAssumption
<1>4. CASE At(p, "copying") /\ Abandon(p) /\ UNCHANGED promo
  <2>1. CommandsOK'
    BY <1>4, AbandonGood DEF CommandsOK
  <2> QED BY <1>1, <1>2, <1>3, <2>1, StopGood, RowUnchanged DEF GoodStep
<1>5. CASE LeavePromotion(p) /\ UNCHANGED <<lock, late>>
  <2>1. CommandsOK'
    BY <1>5, LeavePromotionGood DEF CommandsOK
  <2> QED BY <1>1, <1>2, <1>3, <2>1, StopGood, RowUnchanged DEF GoodStep
<1> QED BY <1>4, <1>5 DEF Interrupted

LEMMA EditGood ==
    ASSUME TransferAssumption, Inv, Edit
    PROVE  GoodStep
<1> USE InvParts
<1>1. UNCHANGED <<row, w, staging, lock, late, promo, stray, user, interrupts>>
  BY DEF Edit
<1>2. WorkersGood' /\ CommandsOK' /\ UserOK' /\ Requests'
  BY <1>1 DEF WorkersGood, WorkersOK, Snapshots, CommandsOK, UserOK, Requests, Inv
<1>3. BoundsOK' /\ PathsOK'
  BY <1>1 DEF Edit, BoundsOK, PathsOK, TransferAssumption
<1> QED BY <1>1, <1>2, <1>3, RowUnchanged DEF GoodStep

(***************************************************************************)
(* The user                                                                *)
(***************************************************************************)

\* What a request leaves alone; its own state is typed and its snapshot fits.
LEMMA RequestElsewhere ==
    ASSUME Inv, UNCHANGED <<w, source, remote, bounds>>
    PROVE  WorkersGood' /\ PathsOK' /\ CommandsOK' /\ BoundsOK'
BY DEF Inv, TypeOK, WorkersGood, WorkersOK, Snapshots, PathsOK, CommandsOK, BoundsOK, remote,
       bounds

LEMMA NoUserGood ==
    ASSUME user' = NoUser
    PROVE  UserOK' /\ Requests'
BY DEF NoUser, UserOK, Requests, Grown

LEMMA ReadGood ==
    ASSUME TransferAssumption, Inv, BuildPlan \/ ReadForCancel \/ ReadForRetry
    PROVE  GoodStep
<1> USE InvParts
<1>1. UNCHANGED row /\ UNCHANGED <<w, source, remote, bounds>>
  BY DEF BuildPlan, ReadForCancel, ReadForRetry
<1>2. UserOK' /\ Requests'
  <2>1. CASE BuildPlan
    BY <2>1 DEF BuildPlan, NoUser, UserOK, Requests, Grown
  <2>2. CASE ReadForCancel
    BY <2>2 DEF ReadForCancel, UserOK, Requests, RowOK
  <2>3. CASE ReadForRetry
    BY <2>3 DEF ReadForRetry, UserOK, Requests, RowOK
  <2> QED BY <2>1, <2>2, <2>3
<1> QED BY <1>1, <1>2, RequestElsewhere, RowUnchanged DEF GoodStep

LEMMA CancelGood ==
    ASSUME TransferAssumption, Inv, Cancel
    PROVE  GoodStep
<1> USE InvParts
<1>1. /\ UNCHANGED <<retryable, fresh, w, source, remote, bounds>> /\ user' = NoUser
      /\ user.exp \in Mid \cup {"queued"} /\ user.done \in 0..Grown
  BY DEF Cancel, Inv, Requests, UserOK
<1>2. Kept \/ Advance
  <2>1. CASE Writable(user.exp, user.done)
    BY <1>1, <2>1 DEF Cancel, Writable, Advance, Active, Mid, Ended
  <2>2. CASE ~Writable(user.exp, user.done)
    BY <2>2 DEF Cancel, Kept
  <2> QED BY <2>1, <2>2
<1>3. FlagsOK'
  BY <1>1, ZenonT(30) DEF FlagsOK
<1> QED BY <1>1, <1>2, <1>3, NoUserGood, RequestElsewhere DEF GoodStep

LEMMA RetryGood ==
    ASSUME TransferAssumption, Inv, Retry
    PROVE  GoodStep
<1> USE InvParts
<1>1. /\ UNCHANGED <<fresh, w, source, remote, bounds>> /\ user' = NoUser
      /\ user.exp \in {"failed", "blocked"} /\ user.done \in 0..Grown
  BY DEF Retry, Inv, Requests, UserOK
<1>2. Kept \/ Advance
  <2>1. CASE Writable(user.exp, user.done)
    BY <1>1, <2>1 DEF Retry, Writable, Advance, Active, Mid, Ended
  <2>2. CASE ~Writable(user.exp, user.done)
    BY <2>2 DEF Retry, Kept
  <2> QED BY <2>1, <2>2
<1>3. FlagsOK'
  <2>1. retryable' = TRUE \/ UNCHANGED retryable
    BY DEF Retry
  <2> QED BY <1>1, <2>1, ZenonT(30) DEF FlagsOK
<1> QED BY <1>1, <1>2, <1>3, NoUserGood, RequestElsewhere DEF GoodStep

\* PersistPlan is the one step that may set the progress back.
LEMMA PersistPlanGood ==
    ASSUME TransferAssumption, Inv, PersistPlan
    PROVE  /\ Inv'
           /\ Kept \/ (state \in {"none", "completed"} /\ state' = "queued" /\ done' = 0)
<1> USE InvParts
<1>1. UNCHANGED <<w, source, remote, bounds>> /\ user' = NoUser
  BY DEF PersistPlan
<1>2. CASE state \in {"none", "completed"}
  <2>1. state' = "queued" /\ done' = 0 /\ retryable' = TRUE /\ UNCHANGED fresh
    BY <1>2 DEF PersistPlan
  <2>2. FlagsOK'
    BY <2>1, ZenonT(30) DEF FlagsOK
  <2>3. RowOK' /\ NoRow'
    BY <2>1 DEF RowOK, NoRow, Active, Grown
  <2> QED BY <1>1, <1>2, <2>1, <2>2, <2>3, NoUserGood, RequestElsewhere
          DEF Inv, TypeOK, WorkersGood
<1>3. CASE state \notin {"none", "completed"}
  <2>1. UNCHANGED row
    BY <1>3 DEF PersistPlan
  <2>2. Kept /\ FlagsOK'
    BY <2>1, RowUnchanged
  <2>3. RowOK' /\ NoRow'
    BY <2>2 DEF Kept, RowOK, NoRow, Inv
  <2> QED BY <1>1, <2>2, <2>3, NoUserGood, RequestElsewhere DEF Inv, TypeOK, WorkersGood
<1> QED BY <1>2, <1>3

-----------------------------------------------------------------------------
(***************************************************************************)
(* The theorems                                                            *)
(***************************************************************************)

\* Every step but PersistPlan is good.
LEMMA NextGood ==
    ASSUME TransferAssumption, Inv, Next, ~PersistPlan
    PROVE  GoodStep
<1>1. CASE Request
  BY <1>1, ReadGood, CancelGood, RetryGood DEF Request
<1>2. CASE LeaseExpires \/ Edit
  BY <1>2, LeaseGood, EditGood
<1>3. ASSUME NEW p \in Workers, ClaimTransferJob(p) \/ Reconcile(p) PROVE GoodStep
  BY <1>3, ClaimGood, ReconcileGood
<1>4. ASSUME NEW p \in Workers, CopyStep(p) PROVE GoodStep
  BY <1>4, BeginTransferGood, StartCopyGood, RsyncLocksGood, RsyncDoneGood, CopyErrorGood,
     EndCopyGood DEF CopyStep
<1>5. ASSUME NEW p \in Workers, VerifyStep(p) PROVE GoodStep
  <2>1. "verify" \in Driving /\ "verifying" \in Driving
    BY DEF Driving, Places
  <2> QED BY <1>5, <2>1, StartOperationGood, VerifyGood, EndVerifyGood DEF VerifyStep, StartVerify
<1>6. ASSUME NEW p \in Workers, PromoteStep(p) PROVE GoodStep
  <2>1. "promote" \in Driving /\ "stat" \in Driving
    BY DEF Driving, Places
  <2> QED BY <1>6, <2>1, StartOperationGood, StatDestinationGood, PromoteReturnsGood,
             PromoteErrorGood, RecordPlacementGood, CompleteGood, CompleteRacedGood
          DEF PromoteStep, StartPromote
<1>7. ASSUME NEW p \in Workers, Work(p) PROVE GoodStep
  BY <1>4, <1>5, <1>6, <1>7, ResumeGood, ReadPlanGood, FinishCancelledGood DEF Work
<1>8. ASSUME NEW p \in Workers, ReportProgress(p) \/ Beat(p) \/ Interrupted(p) PROVE GoodStep
  BY <1>8, ReportProgressGood, LeaseGood, InterruptedGood
<1>9. ASSUME NEW r \in 1..Routes, RsyncWrites(r) \/ Orphan(r) PROVE GoodStep
  BY <1>9, RsyncWritesGood, OrphanGood
<1> QED BY <1>1, <1>2, <1>3, <1>7, <1>8, <1>9, PromoteCommandGood DEF Next

LEMMA InitInv ==
    ASSUME TransferAssumption, Init
    PROVE  Inv
<1>1. WorkersOK /\ Snapshots
  BY DEF Init, Idle, WorkersOK, Snapshots, Places, TransferAssumption, Grown
<1>2. RowOK /\ PathsOK /\ UserOK /\ Requests /\ NoRow
  BY DEF Init, RowOK, PathsOK, UserOK, Requests, NoRow, NoUser, Active, Grown
<1>3. FlagsOK
  BY ZenonT(30) DEF Init, FlagsOK
<1>4. stray \in BOOLEAN
  BY Zenon DEF Init
<1>5. CommandsOK /\ BoundsOK
  BY <1>4 DEF Init, CommandsOK, BoundsOK, TransferAssumption
<1> QED BY <1>1, <1>2, <1>3, <1>5 DEF Inv, TypeOK

LEMMA InvStep ==
    ASSUME TransferAssumption, Inv, [Next]_vars
    PROVE  Inv'
<1>1. CASE PersistPlan
  BY <1>1, PersistPlanGood
<1>2. CASE Next /\ ~PersistPlan
  BY <1>2, NextGood, GoodStepKeepsInv
<1>3. CASE UNCHANGED vars
  <2>1. UNCHANGED <<source, remote, user, bounds>> /\ UNCHANGED row /\ UNCHANGED w
    BY <1>3 DEF vars
  <2>2. WorkersGood'
    BY <2>1, InvParts DEF WorkersGood, WorkersOK, Snapshots
  <2>3. GoodStep
    BY <2>1, <2>2, InvParts, RowUnchanged, Elsewhere DEF GoodStep
  <2> QED BY <2>3, GoodStepKeepsInv
<1> QED BY <1>1, <1>2, <1>3

LEMMA Invariant == Spec => []Inv
<1>1. Init => Inv
  BY InitInv, TransferAssumption
<1>2. Inv /\ [Next]_vars => Inv'
  BY InvStep, TransferAssumption
<1> QED BY <1>1, <1>2, PTL DEF Spec

\* The row, the workers' snapshots, the paths, the commands and the request have
\* their types in every reachable state.
THEOREM TypeCorrect == Spec => []TypeOK
<1>1. Inv => TypeOK
  BY DEF Inv
<1> QED BY <1>1, Invariant, PTL

\* However many workers drive the job from however old a snapshot, the progress in
\* the row does not fall until a completed job is reopened: the comparison in the
\* update of the row is enough, a lease is not needed.
THEOREM ProgressIsMonotone == Spec => ProgressNeverFalls
<1>1. ASSUME Inv, [Next]_vars, done' < done
      PROVE  state = "completed" /\ state' = "queued"
  <2>1. done \in 0..Grown
    BY <1>1 DEF Inv, TypeOK, RowOK
  <2>2. CASE PersistPlan
    BY <1>1, <2>1, <2>2, PersistPlanGood, TransferAssumption DEF Kept, Grown, Inv, NoRow
  <2>3. CASE Next /\ ~PersistPlan
    <3>1. Kept \/ Advance
      BY <1>1, <2>3, NextGood, TransferAssumption DEF GoodStep
    <3> QED BY <1>1, <2>1, <3>1 DEF Kept, Advance, Grown
  <2>4. CASE UNCHANGED vars
    BY <1>1, <2>1, <2>4 DEF vars, row, Grown
  <2> QED BY <1>1, <2>2, <2>3, <2>4
<1>2. Inv /\ [Next]_vars => [(done' < done) => state = "completed" /\ state' = "queued"]_vars
  BY <1>1
<1> QED BY <1>2, Invariant, PTL DEF Spec, ProgressNeverFalls

\* A cancellation or completion that is in the row is not undone by any stale
\* snapshot of a worker or of the user: every write names the state it replaces,
\* and none names these.
THEOREM EndIsFinal == Spec => EndIsKept
<1> DEFINE Undone ==
      /\ (state = "cancelling") => state' \in {"cancelling", "cancelled", "completed"}
      /\ (state = "cancelled") => state' = "cancelled"
      /\ (state = "completed") => state' = "completed" \/ PersistPlan
<1>1. ASSUME Inv, [Next]_vars
      PROVE  Undone
  <2>1. CASE PersistPlan
    BY <1>1, <2>1, PersistPlanGood, TransferAssumption DEF Kept
  <2>2. CASE Next /\ ~PersistPlan
    <3>1. Kept \/ Advance
      BY <1>1, <2>2, NextGood, TransferAssumption DEF GoodStep
    <3> QED BY <3>1 DEF Kept, Advance, Active, Mid
  <2>3. CASE UNCHANGED vars
    BY <2>3 DEF vars, row
  <2> QED BY <1>1, <2>1, <2>2, <2>3
<1>2. Inv /\ [Next]_vars => [Undone]_vars
  BY <1>1
<1> QED BY <1>2, Invariant, PTL DEF Spec, EndIsKept
-----------------------------------------------------------------------------
(***************************************************************************)
(* Content.  What reaches the destination was verified, when one worker at *)
(* a time can drive the job: a second one may copy from an old snapshot    *)
(* into the staging path that the first has verified.  The strengthening   *)
(* says that the place of a worker and the state in its snapshot agree,    *)
(* that a command is held by the worker that waits for it unless one is    *)
(* astray, and that from the verification on nobody writes the staging     *)
(* path until it is renamed away.                                          *)
(***************************************************************************)
OneWorker == \A p, q \in Workers : p = q

StageFits(x) ==
    \/ x.at \in {"idle", "resume"} /\ x.exp = "none"
    \/ x.at = "finish" /\ x.exp = "cancelling"
    \/ x.at = "plan" /\ x.exp \in Mid
    \/ x.at = "begin" /\ x.exp = "planning"
    \/ x.at \in {"copy", "copying", "copied"} /\ x.exp = "transferring"
    \/ x.at \in {"verify", "verifying", "verified"} /\ x.exp = "verifying"
    \/ /\ x.at \in {"promote", "stat", "exec", "record", "complete", "raced"}
       /\ x.exp = "promoting"

Stages == \A p \in Workers : StageFits(w[p])

Holders ==
    \A p \in Workers, r \in 1..Routes : lock[r] = p => At(p, "copying") /\ w[p].route = r

Waited ==
    ~stray => /\ late = {} /\ \A r \in 1..Routes : lock[r] # "orphan"
              /\ \A p \in Workers : promo[p] # "none" => At(p, "exec")

OneDriver ==
    (state = "promoting") =>
        \A p \in Workers : w[p].at \in {"idle", "resume"} \/ w[p].exp = "promoting"

Past ==
    \/ state = "promoting"
    \/ \E p \in Workers : w[p].exp = "promoting" \/ At(p, "verified")

StagingKept == ~stray /\ Past => staging \in {"good", "none"}

ContentInv == Stages /\ Holders /\ Waited /\ OneDriver /\ StagingKept /\ OnlyVerifiedIsPromoted

LEMMA InitContent == ASSUME TransferAssumption, Init PROVE ContentInv
BY DEF Init, ContentInv, Stages, StageFits, Holders, Waited, OneDriver, Past, StagingKept,
       OnlyVerifiedIsPromoted, Idle, At, TransferAssumption

\* The one worker moves and the commands and paths stay as they are: it holds no
\* command that it leaves, and comes after the verification only with a staging
\* path that was found good.
LEMMA MoveContent ==
    ASSUME OneWorker, ContentInv, NEW p \in Workers, UNCHANGED remote, StageFits(w[p])',
           \/ \A r \in 1..Routes : lock[r] # p
           \/ At(p, "copying")' /\ w'[p].route = w[p].route,
           At(p, "exec") => promo[p] = "none" \/ At(p, "exec")',
           (state' = "promoting") => state = "promoting" \/ w'[p].exp = "promoting",
           (state' = "promoting") => w'[p].at \in {"idle", "resume"} \/ w'[p].exp = "promoting",
           (w'[p].exp = "promoting" \/ At(p, "verified")') => Past \/ staging = "good"
    PROVE  ContentInv'
<1>1. \A q \in Workers : q = p
  BY DEF OneWorker
<1>2. UNCHANGED <<staging, final, lock, late, promo, stray>>
  BY DEF remote
<1>3. Stages' /\ OneDriver'
  BY <1>1 DEF Stages, OneDriver
<1>4. Holders'
  BY <1>1, <1>2 DEF ContentInv, Holders
<1>5. Waited'
  BY <1>1, <1>2 DEF ContentInv, Waited
<1>6. StagingKept'
  <2>1. Past' => Past \/ staging = "good"
    BY <1>1 DEF Past
  <2> QED BY <1>2, <2>1 DEF ContentInv, StagingKept
<1> QED BY <1>2, <1>3, <1>4, <1>5, <1>6 DEF ContentInv, OnlyVerifiedIsPromoted

\* The worker stops, with no command left.
LEMMA StopContent ==
    ASSUME OneWorker, Inv, ContentInv, NEW p \in Workers, UNCHANGED remote, Stop(p),
           \A r \in 1..Routes : lock[r] # p, At(p, "exec") => promo[p] = "none",
           (state' = "promoting") => state = "promoting"
    PROVE  ContentInv'
<1>1. w'[p] = Idle
  BY DEF Stop, Inv, TypeOK, WorkersOK
<1>2. StageFits(w'[p]) /\ w'[p].exp = "none" /\ w'[p].at = "idle"
  BY <1>1 DEF StageFits, Idle
<1> QED BY <1>2, MoveContent DEF At

\* Only a worker that is copying holds a lock.
LEMMA NoLock ==
    ASSUME ContentInv, NEW p \in Workers, ~At(p, "copying")
    PROVE  \A r \in 1..Routes : lock[r] # p
BY DEF ContentInv, Holders

LEMMA EndContent ==
    ASSUME OneWorker, Inv, ContentInv, NEW p \in Workers, UNCHANGED remote,
           NEW to \in Ended, NEW again, NEW d, End(p, to, again, d),
           \A r \in 1..Routes : lock[r] # p, At(p, "exec") => promo[p] = "none"
    PROVE  ContentInv'
<1>1. Stop(p) /\ state' \in {state} \cup Ended
  BY DEF End
<1> QED BY <1>1, StopContent DEF Ended

LEMMA FailContent ==
    ASSUME OneWorker, Inv, ContentInv, NEW p \in Workers, UNCHANGED remote,
           NEW again, Fail(p, again),
           \A r \in 1..Routes : lock[r] # p, At(p, "exec") => promo[p] = "none"
    PROVE  ContentInv'
BY EndContent DEF Fail, Ended

\* transition, from a place that holds no command.
LEMMA TransitionContent ==
    ASSUME OneWorker, Inv, ContentInv, NEW p \in Workers, UNCHANGED remote,
           ~At(p, "copying"), ~At(p, "exec"), NEW next, NEW l, Transition(p, next, l),
           StageFits([at |-> l, exp |-> next]),
           (next = "promoting" \/ l = "verified") => Past \/ staging = "good"
    PROVE  ContentInv'
<1>1. CASE Writable(w[p].exp, w[p].done)
  <2>1. state' = next /\ w'[p].at = l /\ w'[p].exp = next
    BY <1>1 DEF Transition, Inv, TypeOK, WorkersOK
  <2>2. StageFits(w'[p])
    BY <2>1 DEF StageFits
  <2> QED BY <2>1, <2>2, NoLock, MoveContent DEF At
<1>2. CASE ~Writable(w[p].exp, w[p].done)
  <2>1. Stop(p) /\ state' = state
    BY <1>2 DEF Transition, row
  <2> QED BY <2>1, NoLock, StopContent
<1> QED BY <1>1, <1>2

\* The worker goes from one place of a stage to another of the same stage.
LEMMA GotoContent ==
    ASSUME OneWorker, Inv, ContentInv, NEW p \in Workers, UNCHANGED <<remote, state>>,
           ~At(p, "copying"), ~At(p, "exec"), NEW l, Goto(p, l),
           StageFits([at |-> l, exp |-> w[p].exp]), w[p].exp # "none",
           (l = "verified") => staging = "good"
    PROVE  ContentInv'
<1>1. w'[p].at = l /\ w'[p].exp = w[p].exp
  BY DEF Goto, Inv, TypeOK, WorkersOK
<1>2. StageFits(w'[p])
  BY <1>1 DEF StageFits
<1>3. (state = "promoting") => w[p].exp = "promoting"
  BY DEF ContentInv, OneDriver, Stages, StageFits
<1> QED BY <1>1, <1>2, <1>3, NoLock, MoveContent DEF At, Past

LEMMA NextRouteContent ==
    ASSUME OneWorker, Inv, ContentInv, NEW p \in Workers, UNCHANGED remote,
           w[p].at \in {"copy", "copying"}, \A r \in 1..Routes : lock[r] # p,
           NEW d, NextRoute(p, d)
    PROVE  ContentInv'
<1>1. w[p].exp = "transferring" /\ state # "promoting" /\ ~At(p, "exec")
  BY DEF ContentInv, Stages, StageFits, OneDriver, At
<1>2. CASE w[p].route < Routes
  <2>1. w'[p].at = "copy" /\ w'[p].exp = "transferring" /\ state' = state
    BY <1>1, <1>2 DEF NextRoute, row, Inv, TypeOK, WorkersOK
  <2>2. StageFits(w'[p])
    BY <2>1 DEF StageFits
  <2> QED BY <1>1, <2>1, <2>2, MoveContent DEF At
<1>3. CASE ~(w[p].route < Routes)
  BY <1>1, <1>3, EndContent DEF NextRoute, Ended
<1> QED BY <1>2, <1>3

(***************************************************************************)
(* The steps of the worker that leave the paths and the commands alone     *)
(***************************************************************************)
LEMMA ClaimContent ==
    ASSUME OneWorker, Inv, ContentInv, NEW p \in Workers,
           ClaimTransferJob(p) \/ Reconcile(p) \/ Resume(p)
    PROVE  ContentInv'
<1>1. UNCHANGED remote /\ w[p].at \in {"idle", "resume"}
  BY DEF At, ClaimTransferJob, Reconcile, Resume
<1>2. UNCHANGED remote /\ ~At(p, "copying") /\ ~At(p, "exec") /\ w[p].exp = "none"
  BY <1>1 DEF At, ContentInv, Stages, StageFits
<1>3. \A r \in 1..Routes : lock[r] # p
  BY <1>2, NoLock
<1>4. CASE ClaimTransferJob(p)
  <2>1. w'[p].at = "plan" /\ w'[p].exp = "planning" /\ state' = "planning"
    BY <1>4 DEF ClaimTransferJob, Inv, TypeOK, WorkersOK
  <2>2. StageFits(w'[p])
    BY <2>1 DEF StageFits, Mid
  <2> QED BY <1>2, <1>3, <2>1, <2>2, MoveContent DEF At
<1>5. CASE Reconcile(p)
  <2>1. w'[p].at = "resume" /\ w'[p].exp = "none" /\ state' = state
    BY <1>2, <1>5 DEF Reconcile, Goto, row, Inv, TypeOK, WorkersOK
  <2>2. StageFits(w'[p])
    BY <2>1 DEF StageFits
  <2> QED BY <1>2, <1>3, <2>1, <2>2, MoveContent DEF At
<1>6. CASE Resume(p)
  <2>1. state' = state
    BY <1>6 DEF Resume, row
  <2>2. CASE state \in Mid
    <3>1. w'[p].at = "plan" /\ w'[p].exp = state
      BY <1>6, <2>2 DEF Resume, Mid, Inv, TypeOK, WorkersOK
    <3>2. StageFits(w'[p])
      BY <2>2, <3>1 DEF StageFits
    <3> QED BY <1>2, <1>3, <2>1, <3>1, <3>2, MoveContent DEF At, Past
  <2>3. CASE state = "cancelling"
    <3>1. w'[p].at = "finish" /\ w'[p].exp = "cancelling"
      BY <1>6, <2>3 DEF Resume, Mid, Inv, TypeOK, WorkersOK
    <3>2. StageFits(w'[p])
      BY <3>1 DEF StageFits
    <3> QED BY <1>2, <1>3, <2>1, <2>3, <3>1, <3>2, MoveContent DEF At
  <2>4. CASE state \notin Mid /\ state # "cancelling"
    BY <1>2, <1>3, <1>6, <2>1, <2>4, StopContent DEF Resume
  <2> QED BY <2>2, <2>3, <2>4
<1> QED BY <1>4, <1>5, <1>6

LEMMA StageContent ==
    ASSUME OneWorker, Inv, ContentInv, NEW p \in Workers,
           \/ ReadPlan(p) \/ BeginTransfer(p) \/ StartCopy(p) \/ EndCopy(p)
           \/ StartVerify(p) \/ Verify(p) \/ EndVerify(p) \/ StartPromote(p)
           \/ RecordPlacement(p)
    PROVE  ContentInv'
<1> USE DEF At
<1>1. UNCHANGED remote /\ ~At(p, "copying") /\ ~At(p, "exec")
  BY DEF ReadPlan, BeginTransfer, StartCopy, EndCopy, StartVerify, Verify, EndVerify,
         StartPromote, StartOperation, RecordPlacement
<1>2. \A r \in 1..Routes : lock[r] # p
  BY <1>1, NoLock
<1>3. StageFits(w[p])
  BY DEF ContentInv, Stages
<1>4. ASSUME NEW l, Goto(p, l), UNCHANGED state, StageFits([at |-> l, exp |-> w[p].exp]),
             w[p].exp # "none", (l = "verified") => staging = "good"
      PROVE  ContentInv'
  BY <1>1, <1>4, GotoContent
<1>5. ASSUME \E again \in BOOLEAN : Fail(p, again) PROVE ContentInv'
  BY <1>1, <1>2, <1>5, FailContent
<1>6. ASSUME Stop(p), UNCHANGED row PROVE ContentInv'
  BY <1>1, <1>2, <1>6, StopContent DEF row
<1>7. CASE ReadPlan(p)
  <2>1. w[p].exp \in Mid
    BY <1>3, <1>7 DEF ReadPlan, StageFits
  <2>2. StageFits([at |-> StageOf(w[p].exp), exp |-> w[p].exp]) /\ StageOf(w[p].exp) # "verified"
    BY <2>1 DEF Mid, StageOf, StageFits
  <2> QED BY <1>4, <1>5, <1>7, <2>1, <2>2 DEF ReadPlan, row, Mid
<1>8. CASE BeginTransfer(p) \/ EndCopy(p)
  <2>1. StageFits([at |-> "copy", exp |-> "transferring"])
        /\ StageFits([at |-> "verify", exp |-> "verifying"])
    BY DEF StageFits
  <2> QED BY <1>1, <1>8, <2>1, TransitionContent DEF BeginTransfer, EndCopy
<1>9. CASE StartCopy(p)
  <2>1. w[p].exp = "transferring" /\ StageFits([at |-> "copying", exp |-> "transferring"])
    BY <1>3, <1>9 DEF StartCopy, StageFits
  <2>2. CASE state = w[p].exp
    BY <1>4, <1>9, <2>1, <2>2 DEF StartCopy, Touched
  <2>3. CASE state # w[p].exp
    BY <1>1, <1>2, <1>9, <2>3, NextRouteContent DEF StartCopy
  <2> QED BY <2>2, <2>3
<1>10. CASE StartVerify(p) \/ StartPromote(p)
  <2>1. \/ /\ StartOperation(p, "verify", "verifying")
           /\ w[p].exp = "verifying" /\ StageFits([at |-> "verifying", exp |-> "verifying"])
        \/ /\ StartOperation(p, "promote", "stat")
           /\ w[p].exp = "promoting" /\ StageFits([at |-> "stat", exp |-> "promoting"])
    BY <1>3, <1>10 DEF StartVerify, StartPromote, StartOperation, StageFits
  <2> QED BY <1>4, <1>6, <2>1 DEF StartOperation, Touched
<1>11. CASE Verify(p)
  <2>1. w[p].exp = "verifying" /\ StageFits([at |-> "verified", exp |-> "verifying"])
    BY <1>3, <1>11 DEF Verify, StageFits
  <2>2. CASE Fail(p, TRUE)
    BY <1>5, <2>2
  <2>3. CASE /\ staging = "good" /\ UNCHANGED row
             /\ w' = [w EXCEPT ![p].at = "verified", ![p].done = Planned]
    <3>1. w'[p].at = "verified" /\ w'[p].exp = "verifying"
      BY <2>1, <2>3 DEF Inv, TypeOK, WorkersOK
    <3>2. StageFits(w'[p])
      BY <3>1 DEF StageFits
    <3>3. state' = state /\ state # "promoting"
      BY <2>1, <2>3, <1>11 DEF row, Verify, ContentInv, OneDriver
    <3> QED BY <1>1, <1>2, <2>3, <3>1, <3>2, <3>3, MoveContent
  <2> QED BY <1>11, <2>2, <2>3 DEF Verify
<1>12. CASE EndVerify(p)
  <2>1. StageFits([at |-> "promote", exp |-> "promoting"]) /\ Past
    BY <1>12 DEF EndVerify, StageFits, Past
  <2> QED BY <1>1, <1>12, <2>1, TransitionContent DEF EndVerify
<1>13. CASE RecordPlacement(p)
  <2>1. w[p].exp = "promoting" /\ StageFits([at |-> "complete", exp |-> "promoting"])
    BY <1>3, <1>13 DEF RecordPlacement, StageFits
  <2> QED BY <1>4, <1>5, <1>13, <2>1 DEF RecordPlacement, row
<1> QED BY <1>7, <1>8, <1>9, <1>10, <1>11, <1>12, <1>13

LEMMA LastContent ==
    ASSUME OneWorker, Inv, ContentInv, NEW p \in Workers,
           Complete(p) \/ CompleteRaced(p) \/ FinishCancelled(p)
    PROVE  ContentInv'
<1>1. UNCHANGED remote /\ ~At(p, "copying") /\ ~At(p, "exec")
  BY DEF Complete, CompleteRaced, FinishCancelled, At
<1>2. \A r \in 1..Routes : lock[r] # p
  BY <1>1, NoLock
<1>3. CASE Goto(p, "raced") /\ UNCHANGED row /\ At(p, "complete")
  <2>1. w[p].exp = "promoting" /\ StageFits([at |-> "raced", exp |-> "promoting"])
    BY <1>3 DEF ContentInv, Stages, StageFits, At
  <2> QED BY <1>1, <1>3, <2>1, GotoContent DEF row
<1>4. CASE Stop(p) /\ state' \in {state, "completed", "cancelled"}
  BY <1>1, <1>2, <1>4, StopContent
<1> QED BY <1>3, <1>4 DEF Complete, CompleteRaced, FinishCancelled

(***************************************************************************)
(* The steps of the copy                                                   *)
(***************************************************************************)

\* Before the verification the staging path may be written.
LEMMA CopyContent ==
    ASSUME OneWorker, ContentInv, NEW p \in Workers, UNCHANGED final, stray => stray',
           Holders', Waited', StageFits(w[p])', w'[p].exp # "promoting",
           ~At(p, "verified")', state' # "promoting"
    PROVE  ContentInv'
<1>1. \A q \in Workers : q = p
  BY DEF OneWorker
<1>2. Stages' /\ OneDriver' /\ ~Past'
  BY <1>1 DEF Stages, OneDriver, Past
<1> QED BY <1>2 DEF ContentInv, StagingKept, OnlyVerifiedIsPromoted

\* While p copies, the job is not being promoted and its command is not p's.
LEMMA Copying ==
    ASSUME OneWorker, ContentInv, NEW p \in Workers, At(p, "copying")
    PROVE  /\ w[p].exp = "transferring" /\ state # "promoting" /\ ~Past
           /\ ~stray => promo[p] = "none"
<1>1. w[p].exp = "transferring"
  BY DEF ContentInv, Stages, StageFits, At
<1>2. state # "promoting"
  BY <1>1 DEF ContentInv, OneDriver, At
<1>3. ~Past
  BY <1>1, <1>2 DEF Past, OneWorker, At
<1> QED BY <1>1, <1>2, <1>3 DEF ContentInv, Waited, At

\* The command nobody waits for any more ends, or is astray from now on.
LEMMA AbandonContent ==
    ASSUME TransferAssumption, Inv, ContentInv, NEW p \in Workers, At(p, "copying"), Abandon(p)
    PROVE  /\ \A r \in 1..Routes : lock'[r] # p
           /\ \/ stray' = TRUE
              \/ /\ UNCHANGED <<late, stray>>
                 /\ \A r \in 1..Routes : lock'[r] \in {lock[r], "nobody"}
<1>1. w[p].route \in 1..Routes /\ lock \in [1..Routes -> {"nobody", "orphan"} \cup Workers]
  BY DEF Inv, TypeOK, WorkersOK, CommandsOK
<1>2. \A r \in 1..Routes : lock[r] = p => r = w[p].route
  BY DEF ContentInv, Holders
<1>3. p # "nobody" /\ p # "orphan"
  BY DEF TransferAssumption
<1>4. CASE lock[w[p].route] = p
  BY <1>1, <1>2, <1>3, <1>4 DEF Abandon
<1>5. CASE lock[w[p].route] # p
  BY <1>1, <1>2, <1>3, <1>5 DEF Abandon
<1> QED BY <1>4, <1>5

\* A worker that abandons its command and goes elsewhere.
LEMMA AbandonLeaves ==
    ASSUME TransferAssumption, OneWorker, Inv, ContentInv, NEW p \in Workers,
           At(p, "copying"), Abandon(p), UNCHANGED promo
    PROVE  Holders' /\ Waited' /\ (stray => stray')
<1>1. \A q \in Workers : q = p
  BY DEF OneWorker
<1>2. Holders'
  BY <1>1, AbandonContent DEF Holders
<1>3. stray => stray'
  BY AbandonContent
<1>4. Waited'
  <2> SUFFICES ASSUME ~stray' PROVE Waited'
    BY DEF Waited
  <2>1. /\ late' = late /\ ~stray
        /\ \A r \in 1..Routes : lock'[r] \in {lock[r], "nobody"}
    BY AbandonContent
  <2>2. promo[p] = "none"
    BY <2>1, Copying
  <2> QED BY <1>1, <2>1, <2>2 DEF Waited, ContentInv
<1> QED BY <1>2, <1>3, <1>4

\* NextRoute and its failure, whatever has become of the command.
LEMMA NextRouteLands ==
    ASSUME OneWorker, Inv, ContentInv, NEW p \in Workers, At(p, "copying"),
           NEW d, NextRoute(p, d)
    PROVE  /\ StageFits(w[p])' /\ w'[p].exp # "promoting" /\ ~At(p, "verified")'
           /\ state' # "promoting"
<1>1. w[p].exp = "transferring" /\ state # "promoting"
  BY Copying
<1>2. CASE w[p].route < Routes
  <2>1. w'[p].at = "copy" /\ w'[p].exp = "transferring" /\ state' = state
    BY <1>1, <1>2 DEF NextRoute, row, Inv, TypeOK, WorkersOK
  <2> QED BY <1>1, <2>1 DEF StageFits, At
<1>3. CASE ~(w[p].route < Routes)
  <2>1. w'[p] = Idle /\ state' \in {state, "failed"}
    BY <1>3 DEF NextRoute, End, Stop, Inv, TypeOK, WorkersOK
  <2> QED BY <1>1, <2>1 DEF StageFits, At, Idle
<1> QED BY <1>2, <1>3

LEMMA RsyncContent ==
    ASSUME TransferAssumption, OneWorker, Inv, ContentInv, NEW p \in Workers,
           RsyncLocks(p) \/ ReportProgress(p) \/ RsyncDone(p) \/ CopyError(p)
    PROVE  ContentInv'
<1>1. At(p, "copying") /\ UNCHANGED final
  BY DEF RsyncLocks, ReportProgress, RsyncDone, CopyError
<1>2. /\ w[p].exp = "transferring" /\ state # "promoting"
      /\ ~stray => promo[p] = "none"
  BY <1>1, Copying
<1>3. \A q \in Workers : q = p
  BY DEF OneWorker
<1>4. /\ w \in [Workers -> [at : Places, exp : {"none"} \cup Mid \cup {"cancelling"},
                            done : 0..Grown, route : 1..Routes]]
      /\ lock \in [1..Routes -> {"nobody", "orphan"} \cup Workers]
      /\ p # "nobody" /\ p # "orphan"
  BY DEF Inv, TypeOK, WorkersOK, CommandsOK, TransferAssumption
<1>5. CASE RsyncLocks(p)
  <2>1. /\ UNCHANGED <<state, w, late, promo, stray>>
        /\ lock' = [lock EXCEPT ![w[p].route] = p]
    BY <1>5 DEF RsyncLocks, row
  <2>2. Holders'
    BY <1>1, <1>3, <1>4, <2>1 DEF Holders, ContentInv, At
  <2>3. Waited'
    BY <1>4, <2>1 DEF Waited, ContentInv, At
  <2> QED BY <1>1, <1>2, <2>1, <2>2, <2>3, CopyContent DEF ContentInv, Stages, At
<1>6. CASE RsyncDone(p)
  <2>1. lock' = [lock EXCEPT ![w[p].route] = "nobody"] /\ UNCHANGED <<late, promo, stray>>
    BY <1>6 DEF RsyncDone
  <2>2. \A r \in 1..Routes : lock'[r] # p /\ lock'[r] \in {lock[r], "nobody"}
    BY <1>4, <2>1 DEF ContentInv, Holders
  <2>3. Holders' /\ Waited'
    BY <1>2, <1>3, <2>1, <2>2 DEF Holders, Waited, ContentInv
  <2>4. CASE NextRoute(p, Mark(p, Size))
    BY <1>1, <2>1, <2>3, <2>4, NextRouteLands, CopyContent
  <2>5. CASE w' = [w EXCEPT ![p].at = "copied", ![p].done = Mark(p, Size)] /\ UNCHANGED state
    <3>1. w'[p].at = "copied" /\ w'[p].exp = "transferring"
      BY <1>2, <1>4, <2>5
    <3> QED BY <1>1, <1>2, <2>1, <2>3, <2>5, <3>1, CopyContent DEF StageFits, At
  <2> QED BY <1>6, <2>4, <2>5 DEF RsyncDone
<1>7. ASSUME NEW d, NextRoute(p, d), Abandon(p), UNCHANGED promo PROVE ContentInv'
  BY <1>1, <1>7, AbandonLeaves, NextRouteLands, CopyContent
<1>8. CASE ReportProgress(p)
  <2>1. \/ \E d \in 1..Size : NextRoute(p, Mark(p, d)) /\ Abandon(p)
        \/ \E d \in 1..Size : /\ w' = [w EXCEPT ![p].done = Mark(p, d)]
                              /\ UNCHANGED <<state, lock, late, stray>>
    BY <1>8 DEF ReportProgress
  <2>2. UNCHANGED promo
    BY <1>8 DEF ReportProgress
  <2>3. CASE \E d \in 1..Size : NextRoute(p, Mark(p, d)) /\ Abandon(p)
    BY <1>7, <2>2, <2>3
  <2>4. CASE \E d \in 1..Size : /\ w' = [w EXCEPT ![p].done = Mark(p, d)]
                                /\ UNCHANGED <<state, lock, late, stray>>
    <3>1. PICK d \in 1..Size : /\ w' = [w EXCEPT ![p].done = Mark(p, d)]
                               /\ UNCHANGED <<state, lock, late, stray>>
      BY <2>4
    <3>2. w'[p].at = w[p].at /\ w'[p].exp = w[p].exp /\ w'[p].route = w[p].route
      BY <1>4, <3>1
    <3>3. Holders' /\ Waited'
      BY <1>3, <2>2, <3>1, <3>2 DEF Holders, Waited, ContentInv, At
    <3> QED BY <1>1, <1>2, <3>1, <3>2, <3>3, CopyContent DEF StageFits, At
  <2> QED BY <2>1, <2>3, <2>4
<1>9. CASE CopyError(p)
  <2>1. CASE NextRoute(p, w[p].done) /\ Abandon(p)
    BY <1>7, <1>9, <2>1 DEF CopyError
  <2>2. CASE lock[w[p].route] # p /\ Fail(p, FALSE) /\ UNCHANGED <<lock, late, stray>>
    <3>1. UNCHANGED remote /\ \A r \in 1..Routes : lock[r] # p
      BY <1>9, <2>2 DEF CopyError, remote, ContentInv, Holders
    <3> QED BY <1>1, <2>2, <3>1, FailContent DEF At
  <2> QED BY <1>9, <2>1, <2>2 DEF CopyError
<1> QED BY <1>5, <1>6, <1>8, <1>9

\* What the commands write and what becomes of those that are astray.
LEMMA OrphanContent ==
    ASSUME OneWorker, Inv, ContentInv, NEW r \in 1..Routes, RsyncWrites(r) \/ Orphan(r)
    PROVE  ContentInv'
<1>1. UNCHANGED <<state, w, final, promo, stray>>
  BY DEF RsyncWrites, Orphan, OrphanLocks, OrphanEnds, row
<1>2. lock \in [1..Routes -> {"nobody", "orphan"} \cup Workers]
  BY DEF Inv, TypeOK, CommandsOK
<1>3. Stages' /\ OneDriver' /\ OnlyVerifiedIsPromoted' /\ (Past' <=> Past)
  BY <1>1 DEF ContentInv, Stages, OneDriver, OnlyVerifiedIsPromoted, Past, At
<1>4. CASE RsyncWrites(r)
  <2>1. UNCHANGED <<lock, late>> /\ lock[r] # "nobody"
    BY <1>4 DEF RsyncWrites
  <2>2. Holders' /\ Waited'
    BY <1>1, <2>1 DEF ContentInv, Holders, Waited, At
  <2>3. ~stray => ~Past
    <3> SUFFICES ASSUME ~stray PROVE ~Past
      OBVIOUS
    <3>1. PICK p \in Workers : lock[r] = p
      BY <1>2, <2>1 DEF ContentInv, Waited
    <3> QED BY <3>1, Copying DEF ContentInv, Holders
  <2> QED BY <1>1, <1>3, <2>2, <2>3 DEF ContentInv, StagingKept
<1>5. CASE Orphan(r)
  <2>1. stray
    BY <1>5 DEF Orphan, OrphanLocks, OrphanEnds, ContentInv, Waited
  <2>2. lock' = [lock EXCEPT ![r] = "orphan"] \/ lock' = [lock EXCEPT ![r] = "nobody"]
    BY <1>5 DEF Orphan, OrphanLocks, OrphanEnds
  <2>3. \A p \in Workers, i \in 1..Routes : lock'[i] = p => lock[i] = p \/ p \in {"orphan", "nobody"}
    BY <1>2, <2>2
  <2>4. Holders'
    BY <1>1, <2>3, TransferAssumption DEF ContentInv, Holders, At, TransferAssumption
  <2> QED BY <1>1, <1>3, <2>1, <2>4 DEF ContentInv, Waited, StagingKept
<1> QED BY <1>4, <1>5

(***************************************************************************)
(* The promotion                                                           *)
(***************************************************************************)

\* The worker moves while its command changes hands; the paths stay.
LEMMA CommandContent ==
    ASSUME OneWorker, ContentInv, NEW p \in Workers, UNCHANGED <<staging, final>>,
           stray => stray', Holders', Waited', StageFits(w[p])',
           (state' = "promoting") => state = "promoting",
           (state' = "promoting") => w'[p].at \in {"idle", "resume"} \/ w'[p].exp = "promoting",
           (w'[p].exp = "promoting") => w[p].exp = "promoting", ~At(p, "verified")'
    PROVE  ContentInv'
<1>1. \A q \in Workers : q = p
  BY DEF OneWorker
<1>2. Stages' /\ OneDriver' /\ (Past' => Past)
  BY <1>1 DEF Stages, OneDriver, Past
<1> QED BY <1>2 DEF ContentInv, StagingKept, OnlyVerifiedIsPromoted

\* A command that is left behind is astray.
LEMMA LeaveContent ==
    ASSUME OneWorker, Inv, ContentInv, NEW p \in Workers, ~At(p, "copying"),
           Stop(p), LeavePromotion(p), UNCHANGED <<staging, final, lock, late>>,
           (state' = "promoting") => state = "promoting"
    PROVE  ContentInv'
<1>1. \A q \in Workers : q = p
  BY DEF OneWorker
<1>2. /\ w'[p] = Idle /\ promo \in [Workers -> {"none", "sent", "checked", "ok", "exists", "error"}]
      /\ \A r \in 1..Routes : lock[r] # p
  BY NoLock DEF Stop, Inv, TypeOK, WorkersOK, CommandsOK
<1>3. stray => stray'
  BY DEF LeavePromotion
<1>4. Holders'
  BY <1>1, <1>2 DEF Holders
<1>5. Waited'
  <2>1. ~stray' => ~stray /\ promo'[p] = "none"
    BY <1>2 DEF LeavePromotion
  <2> QED BY <1>1, <2>1 DEF Waited, ContentInv
<1> QED BY <1>2, <1>3, <1>4, <1>5, CommandContent DEF StageFits, Idle, At

\* The worker at a promotion whose command is not on its way.
LEMMA AcceptContent ==
    ASSUME OneWorker, Inv, ContentInv, NEW p \in Workers,
           w[p].at \in {"stat", "exec"},
           (Goto(p, "record") /\ UNCHANGED row) \/ Accept(p) \/ Fail(p, TRUE),
           UNCHANGED <<staging, final, lock, late, stray>>,
           promo' = [promo EXCEPT ![p] = "none"]
    PROVE  ContentInv'
<1>1. \A q \in Workers : q = p
  BY DEF OneWorker
<1>2. /\ w[p].exp = "promoting" /\ ~At(p, "copying")
      /\ \A r \in 1..Routes : lock[r] # p
  BY NoLock DEF ContentInv, Stages, StageFits, At
<1>3. Holders' /\ Waited'
  <2>1. promo'[p] = "none"
    BY DEF Inv, TypeOK, CommandsOK
  <2> QED BY <1>1, <1>2, <2>1 DEF Holders, Waited, ContentInv
<1>4. CASE Goto(p, "record") /\ UNCHANGED row
  <2>1. w'[p].at = "record" /\ w'[p].exp = "promoting" /\ state' = state
    BY <1>2, <1>4 DEF Goto, row, Inv, TypeOK, WorkersOK
  <2> QED BY <1>2, <1>3, <2>1, CommandContent DEF StageFits, At
<1>5. CASE Block(p) \/ Fail(p, TRUE)
  <2>1. w'[p] = Idle /\ state' \in {state, "failed", "blocked"}
    BY <1>5 DEF Block, Fail, End, Stop, Inv, TypeOK, WorkersOK
  <2> QED BY <1>3, <2>1, CommandContent DEF StageFits, Idle, At
<1> QED BY <1>4, <1>5 DEF Accept

LEMMA StatContent ==
    ASSUME OneWorker, Inv, ContentInv, NEW p \in Workers, StatDestination(p)
    PROVE  ContentInv'
<1>1. /\ At(p, "stat") /\ promo[p] = "none"
      /\ UNCHANGED <<staging, final, lock, late, stray>>
      /\ promo \in [Workers -> {"none", "sent", "checked", "ok", "exists", "error"}]
  BY DEF StatDestination, Inv, TypeOK, CommandsOK
<1>2. CASE (Accept(p) \/ Fail(p, TRUE)) /\ UNCHANGED promo
  <2>1. promo' = [promo EXCEPT ![p] = "none"]
    BY <1>1, <1>2
  <2> QED BY <1>1, <1>2, <2>1, AcceptContent DEF At
<1>3. CASE promo' = [promo EXCEPT ![p] = "sent"] /\ Goto(p, "exec") /\ UNCHANGED row
  <2>1. \A q \in Workers : q = p
    BY DEF OneWorker
  <2>2. /\ w[p].exp = "promoting" /\ ~At(p, "copying")
        /\ \A r \in 1..Routes : lock[r] # p
    BY <1>1, NoLock DEF ContentInv, Stages, StageFits, At
  <2>3. w'[p].at = "exec" /\ w'[p].exp = "promoting" /\ state' = state
    BY <1>3, <2>2 DEF Goto, row, Inv, TypeOK, WorkersOK
  <2>4. Holders' /\ Waited'
    BY <1>1, <2>1, <2>2, <2>3 DEF Holders, Waited, ContentInv, At
  <2> QED BY <1>1, <2>2, <2>3, <2>4, CommandContent DEF StageFits, At
<1> QED BY <1>2, <1>3 DEF StatDestination

LEMMA ReturnsContent ==
    ASSUME OneWorker, Inv, ContentInv, NEW p \in Workers, PromoteReturns(p) \/ PromoteError(p)
    PROVE  ContentInv'
<1>1. CASE PromoteReturns(p)
  BY <1>1, AcceptContent DEF PromoteReturns, At
<1>2. CASE PromoteError(p)
  <2>1. Stop(p) /\ state' \in {state, "failed"} /\ ~At(p, "copying")
    BY <1>2 DEF PromoteError, Fail, End, At
  <2> QED BY <1>2, <2>1, LeaveContent DEF PromoteError
<1> QED BY <1>1, <1>2

\* The command itself: with nothing astray, the tree it renames is the one that
\* was verified.
LEMMA PromoteContent ==
    ASSUME OneWorker, Inv, ContentInv, NEW p \in Workers, PromoteCommand(p)
    PROVE  ContentInv'
<1>1. UNCHANGED <<state, w, lock, late, stray>>
  BY DEF PromoteCommand, PromoteChecks, PromoteRenames, PromoteLost, row
<1>2. /\ promo \in [Workers -> {"none", "sent", "checked", "ok", "exists", "error"}]
      /\ \A q \in Workers : q = p
  BY DEF OneWorker, Inv, TypeOK, CommandsOK
<1>3. promo[p] \in {"sent", "checked"} /\ \E a : promo' = [promo EXCEPT ![p] = a]
  BY DEF PromoteCommand, PromoteChecks, PromoteRenames, PromoteLost, Answer
<1>4. ~stray => At(p, "exec") /\ Past
  <2>1. ~stray => At(p, "exec")
    BY <1>3 DEF ContentInv, Waited
  <2>2. At(p, "exec") => w[p].exp = "promoting"
    BY DEF ContentInv, Stages, StageFits, At
  <2> QED BY <2>1, <2>2 DEF Past
<1>5. Stages' /\ Holders' /\ OneDriver' /\ (Past' <=> Past)
  BY <1>1 DEF ContentInv, Stages, Holders, OneDriver, Past, At
<1>6. Waited'
  BY <1>1, <1>2, <1>4 DEF ContentInv, Waited, At
<1>7. /\ staging' \in {staging, "none"}
      /\ final' = "wrong" => final = "wrong" \/ staging \notin {"good", "none"}
  BY DEF PromoteCommand, PromoteChecks, PromoteRenames, PromoteLost
<1> QED
  BY <1>1, <1>4, <1>5, <1>6, <1>7 DEF ContentInv, StagingKept, OnlyVerifiedIsPromoted

(***************************************************************************)
(* Interruptions, edits and requests                                       *)
(***************************************************************************)
LEMMA InterruptedContent ==
    ASSUME TransferAssumption, OneWorker, Inv, ContentInv, NEW p \in Workers, Interrupted(p)
    PROVE  ContentInv'
<1>1. Stop(p) /\ UNCHANGED <<state, staging, final>>
  BY DEF Interrupted, row
<1>2. CASE At(p, "copying") /\ Abandon(p) /\ UNCHANGED promo
  <2>1. Holders' /\ Waited' /\ (stray => stray')
    BY <1>2, AbandonLeaves
  <2>2. w'[p] = Idle
    BY <1>1 DEF Stop, Inv, TypeOK, WorkersOK
  <2> QED BY <1>1, <2>1, <2>2, CommandContent DEF StageFits, Idle, At
<1>3. CASE ~At(p, "copying") /\ LeavePromotion(p) /\ UNCHANGED <<lock, late>>
  BY <1>1, <1>3, LeaveContent
<1> QED BY <1>2, <1>3 DEF Interrupted

\* Steps of others: they do not touch the worker nor what its commands write.
LEMMA OtherContent ==
    ASSUME ContentInv, UNCHANGED <<w, staging, lock, late, promo, stray>>,
           (state' = "promoting") => state = "promoting",
           (final' = "wrong") => final = "wrong"
    PROVE  ContentInv'
<1>1. Stages' /\ Holders' /\ Waited' /\ OneDriver' /\ (Past' => Past)
  BY DEF ContentInv, Stages, Holders, Waited, OneDriver, Past, At
<1> QED BY <1>1 DEF ContentInv, StagingKept, OnlyVerifiedIsPromoted

LEMMA RequestContent ==
    ASSUME ContentInv, Request \/ LeaseExpires \/ Edit \/ \E p \in Workers : Beat(p)
    PROVE  ContentInv'
<1>1. CASE Request
  BY <1>1, OtherContent
  DEF Request, BuildPlan, PersistPlan, ReadForCancel, Cancel, ReadForRetry, Retry, remote, row
<1>2. CASE LeaseExpires \/ Edit \/ \E p \in Workers : Beat(p)
  BY <1>2, OtherContent DEF LeaseExpires, Edit, Beat, remote, row
<1> QED BY <1>1, <1>2

LEMMA ContentStep ==
    ASSUME TransferAssumption, OneWorker, Inv, ContentInv, [Next]_vars
    PROVE  ContentInv'
<1>1. CASE UNCHANGED vars
  BY <1>1, OtherContent DEF vars, row, remote
<1>2. CASE Request \/ LeaseExpires \/ Edit
  BY <1>2, RequestContent
<1>3. ASSUME NEW p \in Workers, ClaimTransferJob(p) \/ Reconcile(p) PROVE ContentInv'
  BY <1>3, ClaimContent
<1>4. ASSUME NEW p \in Workers, Work(p) PROVE ContentInv'
  <2>1. CASE Resume(p) \/ ReadPlan(p) \/ FinishCancelled(p)
    BY <2>1, ClaimContent, StageContent, LastContent
  <2>2. CASE CopyStep(p)
    BY <2>2, StageContent, RsyncContent DEF CopyStep
  <2>3. CASE VerifyStep(p)
    BY <2>3, StageContent DEF VerifyStep
  <2>4. CASE PromoteStep(p)
    BY <2>4, StageContent, StatContent, ReturnsContent, LastContent DEF PromoteStep
  <2> QED BY <1>4, <2>1, <2>2, <2>3, <2>4 DEF Work
<1>5. ASSUME NEW p \in Workers,
             ReportProgress(p) \/ Beat(p) \/ Interrupted(p) \/ PromoteCommand(p)
      PROVE  ContentInv'
  BY <1>5, RsyncContent, RequestContent, InterruptedContent, PromoteContent
<1>6. ASSUME NEW r \in 1..Routes, RsyncWrites(r) \/ Orphan(r) PROVE ContentInv'
  BY <1>6, OrphanContent
<1> QED BY <1>1, <1>2, <1>3, <1>4, <1>5, <1>6 DEF Next

\* With one worker at a time, any number of initiators and interruptions and
\* whatever happens to the source and the destination, content that was not
\* verified reaches the destination only through a command astray.
THEOREM PromotedWasVerified ==
    ASSUME OneWorker
    PROVE  Spec => []OnlyVerifiedIsPromoted
<1>1. Init => ContentInv
  BY InitContent, TransferAssumption
<1>2. Inv /\ ContentInv /\ [Next]_vars => ContentInv'
  BY ContentStep, TransferAssumption
<1>3. ContentInv => OnlyVerifiedIsPromoted
  BY DEF ContentInv
<1> QED BY <1>1, <1>2, <1>3, Invariant, PTL DEF Spec

-----------------------------------------------------------------------------
(***************************************************************************)
(* Completion.  A worker that is about to report the completion has seen   *)
(* the destination with the planned revision, or its command has put it    *)
(* there; without removals nothing but another promotion replaces it.      *)
(***************************************************************************)
Won(p) == w[p].at \in {"record", "complete", "raced"} \/ promo[p] = "ok"

Delivered == \A p \in Workers : Won(p) => final \in {"good", "wrong"}

\* The destination, once there, is replaced by a promotion only.
LEMMA FinalStays ==
    ASSUME "removal" \notin Edits, Next, final \in {"good", "wrong"}
    PROVE  final' \in {"good", "wrong"}
<1>1. CASE Edit
  BY <1>1 DEF Edit
<1>2. CASE Request \/ LeaseExpires
  BY <1>2 DEF Request, BuildPlan, PersistPlan, ReadForCancel, Cancel, ReadForRetry, Retry,
              LeaseExpires, remote
<1>3. ASSUME NEW p \in Workers, PromoteCommand(p) PROVE final' \in {"good", "wrong"}
  BY <1>3 DEF PromoteCommand, PromoteChecks, PromoteRenames, PromoteLost
<1>4. ASSUME NEW p \in Workers,
             \/ ClaimTransferJob(p) \/ Reconcile(p) \/ ReportProgress(p) \/ Beat(p)
             \/ Interrupted(p)
      PROVE  UNCHANGED final
  BY <1>4 DEF ClaimTransferJob, Reconcile, ReportProgress, Beat, Interrupted, remote
<1>5. ASSUME NEW p \in Workers, Work(p) PROVE UNCHANGED final
  <2>1. CASE Resume(p) \/ ReadPlan(p) \/ FinishCancelled(p) \/ CopyStep(p) \/ VerifyStep(p)
    BY <2>1 DEF Resume, ReadPlan, FinishCancelled, CopyStep, BeginTransfer, StartCopy,
                RsyncLocks, RsyncDone, CopyError, EndCopy, VerifyStep, StartVerify,
                StartOperation, Verify, EndVerify, remote
  <2>2. CASE PromoteStep(p)
    BY <2>2 DEF PromoteStep, StartPromote, StartOperation, StatDestination, PromoteReturns,
                PromoteError, RecordPlacement, Complete, CompleteRaced, remote
  <2> QED BY <1>5, <2>1, <2>2 DEF Work
<1>6. ASSUME NEW r \in 1..Routes, RsyncWrites(r) \/ Orphan(r) PROVE UNCHANGED final
  BY <1>6 DEF RsyncWrites, Orphan, OrphanLocks, OrphanEnds
<1> QED BY <1>1, <1>2, <1>3, <1>4, <1>5, <1>6 DEF Next

\* Only a promotion that found or put the planned revision is won.
LEMMA WinStep ==
    ASSUME TransferAssumption, Inv, Delivered, Next, NEW q \in Workers, Won(q)', ~Won(q)
    PROVE  final' \in {"good", "wrong"}
<1> USE DEF At
<1>1. /\ w \in [Workers -> [at : Places, exp : {"none"} \cup Mid \cup {"cancelling"},
                            done : 0..Grown, route : 1..Routes]]
      /\ promo \in [Workers -> {"none", "sent", "checked", "ok", "exists", "error"}]
  BY DEF Inv, TypeOK, WorkersOK, CommandsOK
<1>2. CASE Request \/ LeaseExpires \/ Edit \/ (\E r \in 1..Routes : RsyncWrites(r) \/ Orphan(r))
  BY <1>2 DEF Request, BuildPlan, PersistPlan, ReadForCancel, Cancel, ReadForRetry, Retry,
              LeaseExpires, Edit, RsyncWrites, Orphan, OrphanLocks, OrphanEnds, remote, Won
<1>3. ASSUME NEW p \in Workers, NEW l, Goto(p, l), UNCHANGED promo,
             l \notin {"record", "complete", "raced"} \/ Won(p)
      PROVE  FALSE
  BY <1>1, <1>3 DEF Goto, Won
<1>4. ASSUME NEW p \in Workers, Stop(p),
             UNCHANGED promo \/ \E a \in {"none", promo[p]} : promo' = [promo EXCEPT ![p] = a]
      PROVE  FALSE
  BY <1>1, <1>4 DEF Stop, Idle, Won
<1>5. ASSUME NEW p \in Workers, NEW next, NEW l, Transition(p, next, l), UNCHANGED promo,
             l \notin {"record", "complete", "raced"}
      PROVE  FALSE
  <2>1. CASE Stop(p)
    BY <1>4, <1>5, <2>1
  <2>2. CASE w' = [w EXCEPT ![p].at = l, ![p].exp = next]
    BY <1>1, <1>5, <2>2 DEF Won
  <2> QED BY <1>5, <2>1, <2>2 DEF Transition
<1>6. ASSUME NEW p \in Workers, NEW d, NextRoute(p, d), UNCHANGED promo
      PROVE  FALSE
  <2>1. CASE Stop(p)
    BY <1>4, <1>6, <2>1
  <2>2. CASE w' = [w EXCEPT ![p].at = "copy", ![p].route = @ + 1, ![p].done = d]
    BY <1>1, <1>6, <2>2 DEF Won
  <2> QED BY <1>6, <2>1, <2>2 DEF NextRoute, End
<1>7. ASSUME NEW p \in Workers, ClaimTransferJob(p) \/ Reconcile(p) \/ Resume(p)
      PROVE  FALSE
  <2>1. CASE Reconcile(p)
    BY <1>3, <2>1 DEF Reconcile, remote
  <2>2. CASE ClaimTransferJob(p) \/ (Resume(p) /\ ~Stop(p))
    <3>1. /\ w' = [w EXCEPT ![p] = w'[p]] /\ w'[p].at \in {"plan", "finish"}
          /\ UNCHANGED promo
      BY <1>1, <2>2 DEF ClaimTransferJob, Resume, remote
    <3> QED BY <1>1, <3>1 DEF Won
  <2>3. CASE Resume(p) /\ Stop(p)
    BY <1>4, <2>3 DEF Resume, remote
  <2> QED BY <1>7, <2>1, <2>2, <2>3
<1>8. ASSUME NEW p \in Workers, ReadPlan(p) PROVE FALSE
  <2>1. CASE Goto(p, StageOf(w[p].exp))
    <3>1. w[p].exp \in Mid
      BY <1>8 DEF ReadPlan, Inv, Snapshots
    <3>2. StageOf(w[p].exp) \notin {"record", "complete", "raced"}
      BY <3>1 DEF StageOf, Mid
    <3> QED BY <1>3, <1>8, <2>1, <3>2 DEF ReadPlan, remote
  <2>2. CASE Stop(p)
    BY <1>4, <1>8, <2>2 DEF ReadPlan, remote
  <2> QED BY <1>8, <2>1, <2>2 DEF ReadPlan, Fail, End
<1>9. ASSUME NEW p \in Workers, CopyStep(p) PROVE FALSE
  <2>1. UNCHANGED promo
    BY <1>9 DEF CopyStep, BeginTransfer, StartCopy, RsyncLocks, RsyncDone, CopyError,
                EndCopy, remote
  <2>2. CASE BeginTransfer(p) \/ EndCopy(p)
    BY <1>5, <2>1, <2>2 DEF BeginTransfer, EndCopy
  <2>3. CASE StartCopy(p)
    BY <1>3, <1>6, <2>1, <2>3 DEF StartCopy, Touched
  <2>4. CASE RsyncLocks(p)
    BY <2>1, <2>4 DEF RsyncLocks, Won
  <2>5. CASE RsyncDone(p)
    <3>1. CASE w' = [w EXCEPT ![p].at = "copied", ![p].done = Mark(p, Size)]
      BY <1>1, <2>1, <3>1 DEF Won
    <3> QED BY <1>6, <2>1, <2>5, <3>1 DEF RsyncDone
  <2>6. CASE CopyError(p)
    BY <1>4, <1>6, <2>1, <2>6 DEF CopyError, Fail, End
  <2> QED BY <1>9, <2>2, <2>3, <2>4, <2>5, <2>6 DEF CopyStep
<1>10. ASSUME NEW p \in Workers, VerifyStep(p) PROVE FALSE
  <2>1. UNCHANGED promo
    BY <1>10 DEF VerifyStep, StartVerify, StartOperation, Verify, EndVerify, remote
  <2>2. CASE StartVerify(p)
    BY <1>3, <1>4, <2>1, <2>2 DEF StartVerify, StartOperation, Touched
  <2>3. CASE Verify(p)
    <3>1. CASE w' = [w EXCEPT ![p].at = "verified", ![p].done = Planned]
      BY <1>1, <2>1, <3>1 DEF Won
    <3> QED BY <1>4, <2>1, <2>3, <3>1 DEF Verify, Fail, End
  <2>4. CASE EndVerify(p)
    BY <1>5, <2>1, <2>4 DEF EndVerify
  <2> QED BY <1>10, <2>2, <2>3, <2>4 DEF VerifyStep
<1>11. ASSUME NEW p \in Workers, ReportProgress(p) \/ Beat(p) \/ Interrupted(p) PROVE FALSE
  <2>1. CASE ReportProgress(p)
    <3>1. PICK d \in 1..Size : \/ w' = [w EXCEPT ![p].done = Mark(p, d)]
                               \/ NextRoute(p, Mark(p, d))
      BY <2>1 DEF ReportProgress
    <3>2. UNCHANGED promo
      BY <2>1 DEF ReportProgress
    <3>3. CASE w' = [w EXCEPT ![p].done = Mark(p, d)]
      BY <1>1, <3>2, <3>3 DEF Won
    <3> QED BY <1>6, <3>1, <3>2, <3>3
  <2>2. CASE Beat(p)
    BY <2>2 DEF Beat, remote, Won
  <2>3. CASE Interrupted(p)
    BY <1>4, <2>3 DEF Interrupted, LeavePromotion
  <2> QED BY <1>11, <2>1, <2>2, <2>3
<1>12. ASSUME NEW p \in Workers, PromoteStep(p) PROVE final' \in {"good", "wrong"}
  <2>1. CASE StartPromote(p)
    BY <1>3, <1>4, <2>1 DEF StartPromote, StartOperation, Touched, remote
  <2>2. ASSUME Accept(p), UNCHANGED final,
               UNCHANGED promo \/ promo' = [promo EXCEPT ![p] = "none"]
        PROVE  final' \in {"good", "wrong"}
    BY <1>4, <2>2 DEF Accept, Block, End
  <2>3. CASE StatDestination(p)
    <3>1. CASE promo' = [promo EXCEPT ![p] = "sent"] /\ Goto(p, "exec")
      BY <1>1, <3>1 DEF Goto, Won
    <3> QED BY <1>4, <2>2, <2>3, <3>1 DEF StatDestination, Fail, End
  <2>4. CASE PromoteReturns(p)
    <3>1. CASE promo[p] = "ok"
      BY <2>4, <3>1 DEF PromoteReturns, Delivered, Won
    <3>2. CASE promo[p] # "ok"
      BY <1>4, <2>2, <2>4, <3>2 DEF PromoteReturns, Fail, End
    <3> QED BY <3>1, <3>2
  <2>5. CASE PromoteError(p)
    BY <1>4, <2>5 DEF PromoteError, Fail, End, LeavePromotion
  <2>6. CASE RecordPlacement(p) \/ Complete(p)
    BY <1>3, <1>4, <2>6 DEF RecordPlacement, Complete, Fail, End, remote, Won
  <2>7. CASE CompleteRaced(p)
    BY <1>4, <2>7 DEF CompleteRaced, remote
  <2> QED BY <1>12, <2>1, <2>3, <2>4, <2>5, <2>6, <2>7 DEF PromoteStep
<1>13. ASSUME NEW p \in Workers, PromoteCommand(p) PROVE final' \in {"good", "wrong"}
  <2>1. CASE PromoteRenames(p)
    BY <1>1, <2>1 DEF PromoteRenames, Answer, Won
  <2>2. CASE PromoteChecks(p) \/ PromoteLost(p)
    BY <1>1, <2>2 DEF PromoteChecks, PromoteLost, Answer, Won
  <2> QED BY <1>13, <2>1, <2>2 DEF PromoteCommand
<1>14. ASSUME NEW p \in Workers, FinishCancelled(p) PROVE FALSE
  BY <1>4, <1>14 DEF FinishCancelled, remote
<1> QED
  BY <1>2, <1>7, <1>8, <1>9, <1>10, <1>11, <1>12, <1>13, <1>14 DEF Next, Work

LEMMA DeliveredStep ==
    ASSUME TransferAssumption, "removal" \notin Edits, Inv, Delivered, [Next]_vars
    PROVE  Delivered'
<1>1. CASE UNCHANGED vars
  BY <1>1 DEF vars, remote, Delivered, Won
<1>2. CASE Next
  BY <1>2, FinalStays, WinStep DEF Delivered
<1> QED BY <1>1, <1>2

\* The two steps that report the completion are taken by a worker that has won.
LEMMA CompletionStep ==
    ASSUME TransferAssumption, Inv, Next, state' = "completed", state # "completed"
    PROVE  \E p \in Workers : Won(p)
<1> USE DEF At
<1>1. CASE \E p \in Workers : Complete(p) \/ CompleteRaced(p)
  BY <1>1 DEF Complete, CompleteRaced, Won
<1>2. CASE Request \/ LeaseExpires \/ Edit
  BY <1>2 DEF Request, BuildPlan, PersistPlan, ReadForCancel, Cancel, ReadForRetry, Retry,
              LeaseExpires, Edit, row
<1>3. ASSUME NEW p \in Workers,
             \/ ClaimTransferJob(p) \/ Reconcile(p) \/ Beat(p) \/ Interrupted(p)
             \/ ReportProgress(p) \/ PromoteCommand(p) \/ Resume(p) \/ ReadPlan(p)
             \/ FinishCancelled(p)
      PROVE  FALSE
  <2>1. CASE ReportProgress(p)
    BY <2>1 DEF ReportProgress, NextRoute, End, row
  <2>2. CASE ~ReportProgress(p)
    BY <1>3, <2>2
    DEF ClaimTransferJob, Reconcile, Beat, Interrupted, PromoteCommand, PromoteChecks,
        PromoteRenames, PromoteLost, Resume, ReadPlan, FinishCancelled, Fail, End, row
  <2> QED BY <2>1, <2>2
<1>4. ASSUME NEW p \in Workers, CopyStep(p) \/ VerifyStep(p) PROVE FALSE
  <2>1. ASSUME NEW next \in Mid, NEW l, Transition(p, next, l) PROVE FALSE
    BY <2>1 DEF Transition, row, Mid
  <2>2. ASSUME NEW d, NextRoute(p, d) PROVE FALSE
    BY <2>2 DEF NextRoute, End, row
  <2>3. CASE BeginTransfer(p) \/ EndCopy(p) \/ EndVerify(p)
    BY <2>1, <2>3 DEF BeginTransfer, EndCopy, EndVerify, Mid
  <2>4. CASE StartCopy(p) \/ RsyncLocks(p) \/ RsyncDone(p) \/ CopyError(p)
    BY <2>2, <2>4 DEF StartCopy, Touched, RsyncLocks, RsyncDone, CopyError, Fail, End, row
  <2>5. CASE StartVerify(p) \/ Verify(p)
    BY <2>5 DEF StartVerify, StartOperation, Touched, Verify, Fail, End, row
  <2> QED BY <1>4, <2>3, <2>4, <2>5 DEF CopyStep, VerifyStep
<1>5. ASSUME NEW p \in Workers, PromoteStep(p), ~Complete(p), ~CompleteRaced(p) PROVE FALSE
  BY <1>5 DEF PromoteStep, StartPromote, StartOperation, Touched, StatDestination, Accept,
              Block, Fail, End, PromoteReturns, PromoteError, RecordPlacement, row
<1>6. ASSUME NEW r \in 1..Routes, RsyncWrites(r) \/ Orphan(r) PROVE FALSE
  BY <1>6 DEF RsyncWrites, Orphan, OrphanLocks, OrphanEnds, row
<1> QED BY <1>1, <1>2, <1>3, <1>4, <1>5, <1>6 DEF Next, Work

\* With one worker at a time and a destination that nobody removes, completed is
\* reported only of a destination that has the planned revision, or that a
\* command astray has replaced.
THEOREM CompletedWasDelivered ==
    ASSUME OneWorker, "removal" \notin Edits
    PROVE  Spec => CompletedIsDelivered
<1> DEFINE Reported ==
      state' = "completed" /\ state # "completed" => final = "good" \/ (final = "wrong" /\ stray)
<1>1. Init => ContentInv /\ Delivered
  <2>1. Init => Delivered
    BY DEF Init, Delivered, Won, Idle
  <2> QED BY <2>1, InitContent, TransferAssumption
<1>2. Inv /\ ContentInv /\ Delivered /\ [Next]_vars => (ContentInv /\ Delivered)'
  BY ContentStep, DeliveredStep, TransferAssumption
<1>3. ASSUME Inv, ContentInv, Delivered, [Next]_vars PROVE Reported
  <2>1. CASE UNCHANGED vars
    BY <2>1 DEF vars, row
  <2>2. CASE Next
    BY <1>3, <2>2, CompletionStep, TransferAssumption
    DEF Delivered, ContentInv, OnlyVerifiedIsPromoted
  <2> QED BY <1>3, <2>1, <2>2
<1>4. Inv /\ ContentInv /\ Delivered /\ [Next]_vars => [Reported]_vars
  BY <1>3
<1> QED BY <1>1, <1>2, <1>4, Invariant, PTL DEF Spec, CompletedIsDelivered
-----------------------------------------------------------------------------
(***************************************************************************)
(* The refinement: row and destination are the account of one worker.      *)
(* What is missing is that the row is where its worker believes it to be,  *)
(* or cancelling: nobody else brings the job to its end or back.           *)
(***************************************************************************)
Driven == \A p \in Workers : w[p].exp \in Mid => state \in {w[p].exp, "cancelling"}

AccountedStep == Driven' /\ Account!Step

LEMMA MidStages ==
    /\ Account!Mid = Mid
    /\ Account!Stages[1] = "planning" /\ Account!Stages[2] = "transferring"
    /\ Account!Stages[3] = "verifying" /\ Account!Stages[4] = "promoting"
BY DEF Account!Mid, Account!Stages, Mid

\* The worker moves, stops or looks at the row; row and destination stay.
LEMMA RowKept ==
    ASSUME OneWorker, Driven, NEW p \in Workers, UNCHANGED <<state, done, final>>,
           w'[p].exp \in {w[p].exp, "none", "cancelling", state}
    PROVE  AccountedStep
<1>1. \A q \in Workers : q = p
  BY DEF OneWorker
<1>2. Driven'
  BY <1>1 DEF Driven, Mid
<1> QED BY <1>2 DEF AccountedStep, Account!Step, Account!Rest

\* The worker goes on and the row stays.
LEMMA GotoAccounted ==
    ASSUME OneWorker, Inv, Driven, NEW p \in Workers, UNCHANGED <<state, done, final>>,
           (\E l : Goto(p, l)) \/ Stop(p)
    PROVE  AccountedStep
<1>1. w'[p].exp \in {w[p].exp, "none"}
  BY DEF Goto, Stop, Idle, Inv, TypeOK, WorkersOK
<1> QED BY <1>1, RowKept

\* fail and block.
LEMMA EndAccounted ==
    ASSUME OneWorker, Inv, Driven, NEW p \in Workers, w[p].exp \in Mid, UNCHANGED final,
           NEW to \in {"failed", "blocked"}, NEW again, NEW d \in Nat, End(p, to, again, d)
    PROVE  AccountedStep
<1>1. CASE UNCHANGED <<state, done>>
  BY <1>1, GotoAccounted DEF End
<1>2. CASE Writable(w[p].exp, d) /\ state' = to /\ done' = d
  <2>1. Account!Fail
    BY <1>2, MidStages DEF Writable, Account!Fail, Account!Move
  <2>2. Driven'
    BY DEF End, Stop, Idle, Driven, OneWorker, Inv, TypeOK, WorkersOK, Mid
  <2> QED BY <2>1, <2>2 DEF AccountedStep, Account!Step
<1> QED BY <1>1, <1>2 DEF End

LEMMA FailAccounted ==
    ASSUME OneWorker, Inv, Driven, NEW p \in Workers, w[p].exp \in Mid, UNCHANGED final,
           \/ \E again : Fail(p, again)
           \/ Block(p)
    PROVE  AccountedStep
<1>1. w[p].done \in Nat
  BY DEF Inv, TypeOK, WorkersOK, Grown
<1> QED BY <1>1, EndAccounted DEF Fail, Block

LEMMA NextRouteAccounted ==
    ASSUME OneWorker, Inv, Driven, NEW p \in Workers, w[p].exp \in Mid, UNCHANGED final,
           NEW d \in Nat, NextRoute(p, d)
    PROVE  AccountedStep
<1>1. CASE w[p].route < Routes
  <2>1. w'[p].exp = w[p].exp /\ UNCHANGED <<state, done>>
    BY <1>1 DEF NextRoute, row, Inv, TypeOK, WorkersOK
  <2> QED BY <2>1, RowKept
<1>2. CASE ~(w[p].route < Routes)
  BY <1>2, EndAccounted DEF NextRoute
<1> QED BY <1>1, <1>2

\* transition, from each stage to the next.
LEMMA TransitionAccounted ==
    ASSUME OneWorker, Inv, Driven, NEW p \in Workers, UNCHANGED final, NEW l, NEW k \in 1..3,
           w[p].exp = Account!Stages[k], Transition(p, Account!Stages[k + 1], l)
    PROVE  AccountedStep
<1> DEFINE next == Account!Stages[k + 1]
<1>1. CASE Writable(w[p].exp, w[p].done)
  <2>1. state = Account!Stages[k] /\ state' = next /\ done' >= done
    BY <1>1 DEF Transition, Writable, Inv, TypeOK, RowOK, WorkersOK, Grown
  <2>2. Account!Advance
    BY <2>1 DEF Account!Advance, Account!Move
  <2>3. w'[p].exp = next
    BY <1>1 DEF Transition, Inv, TypeOK, WorkersOK
  <2>4. Driven'
    BY <2>1, <2>3 DEF Driven, OneWorker
  <2> QED BY <2>2, <2>4 DEF AccountedStep, Account!Step
<1>2. CASE ~Writable(w[p].exp, w[p].done)
  BY <1>2, GotoAccounted DEF Transition, row
<1> QED BY <1>1, <1>2

\* The requests: only a job that no worker drives is opened, retried or
\* cancelled at once.
LEMMA RequestAccounted ==
    ASSUME Inv, Driven, Request
    PROVE  AccountedStep
<1>1. UNCHANGED <<w, final>> /\ done \in Nat /\ user.done \in Nat
  BY DEF Request, BuildPlan, PersistPlan, ReadForCancel, Cancel, ReadForRetry, Retry, remote,
         Inv, TypeOK, RowOK, UserOK, Grown
<1>2. CASE UNCHANGED <<state, done>>
  BY <1>1, <1>2 DEF AccountedStep, Driven, Account!Step, Account!Rest
<1>3. ASSUME PersistPlan, ~UNCHANGED <<state, done>> PROVE AccountedStep
  <2>1. state \in {"none", "completed"} /\ state' = "queued" /\ done' = 0
    BY <1>3 DEF PersistPlan, row
  <2> QED BY <1>1, <2>1 DEF AccountedStep, Driven, Account!Step, Account!Open, Mid
<1>4. ASSUME Cancel, ~UNCHANGED <<state, done>> PROVE AccountedStep
  <2>1. /\ state \in Mid \cup {"queued"} /\ done' >= done
        /\ state' = IF state = "queued" THEN "cancelled" ELSE "cancelling"
    BY <1>1, <1>4 DEF Cancel, Writable, Inv, Requests
  <2>2. Account!Cancel
    BY <1>1, <2>1, MidStages DEF Account!Cancel, Account!Move, Mid
  <2> QED BY <1>1, <2>1, <2>2 DEF AccountedStep, Driven, Account!Step, Mid
<1>5. ASSUME Retry, ~UNCHANGED <<state, done>> PROVE AccountedStep
  <2>1. state \in {"failed", "blocked"} /\ done' >= done /\ state' = "queued"
    BY <1>1, <1>5 DEF Retry, Writable, Inv, Requests
  <2> QED BY <1>1, <2>1 DEF AccountedStep, Driven, Account!Step, Account!Retry, Account!Move, Mid
<1>6. CASE BuildPlan \/ ReadForCancel \/ ReadForRetry
  BY <1>2, <1>6 DEF BuildPlan, ReadForCancel, ReadForRetry, row
<1> QED BY <1>2, <1>3, <1>4, <1>5, <1>6 DEF Request

\* Claim, resumption and plan.
LEMMA ClaimAccounted ==
    ASSUME OneWorker, Inv, ContentInv, Driven, NEW p \in Workers,
           ClaimTransferJob(p) \/ Reconcile(p) \/ Resume(p) \/ ReadPlan(p) \/ BeginTransfer(p)
    PROVE  AccountedStep
<1>1. UNCHANGED final
  BY DEF ClaimTransferJob, Reconcile, Resume, ReadPlan, BeginTransfer, remote
<1>2. CASE ClaimTransferJob(p)
  <2>1. /\ state = "queued" /\ state' = "planning" /\ done' = done /\ done \in Nat
        /\ w'[p].exp = "planning"
    BY <1>2 DEF ClaimTransferJob, Inv, TypeOK, WorkersOK, RowOK, Grown
  <2>2. Account!Claim
    BY <1>1, <2>1 DEF Account!Claim, Account!Move
  <2> QED BY <2>1, <2>2 DEF AccountedStep, Driven, OneWorker, Account!Step
<1>3. CASE Reconcile(p)
  BY <1>1, <1>3, GotoAccounted DEF Reconcile, row
<1>4. CASE Resume(p)
  <2>1. UNCHANGED <<state, done>>
    BY <1>4 DEF Resume, row
  <2>2. w'[p].exp \in {state, "none"}
    BY <1>4 DEF Resume, Stop, Idle, Inv, TypeOK, WorkersOK
  <2> QED BY <1>1, <2>1, <2>2, RowKept
<1>5. CASE ReadPlan(p)
  <2>1. w[p].exp \in Mid
    BY <1>5 DEF ReadPlan, At, ContentInv, Stages, StageFits
  <2> QED BY <1>1, <1>5, <2>1, GotoAccounted, FailAccounted DEF ReadPlan, row
<1>6. CASE BeginTransfer(p)
  <2>1. w[p].exp = "planning"
    BY <1>6 DEF BeginTransfer, At, ContentInv, Stages, StageFits
  <2>2. Transition(p, Account!Stages[1 + 1], "copy") /\ w[p].exp = Account!Stages[1]
    BY <1>6, <2>1, MidStages DEF BeginTransfer
  <2> QED BY <1>1, <2>2, TransitionAccounted
<1> QED BY <1>2, <1>3, <1>4, <1>5, <1>6

\* The copy.
LEMMA CopyAccounted ==
    ASSUME OneWorker, Inv, ContentInv, Driven, NEW p \in Workers,
           \/ StartCopy(p) \/ RsyncLocks(p) \/ ReportProgress(p) \/ RsyncDone(p)
           \/ CopyError(p) \/ EndCopy(p)
    PROVE  AccountedStep
<1>1. UNCHANGED final /\ w[p].exp = "transferring" /\ w[p].exp \in Mid /\ w[p].done \in Nat
  <2>1. UNCHANGED final
    BY DEF StartCopy, RsyncLocks, ReportProgress, RsyncDone, CopyError, EndCopy, remote
  <2>2. w[p].at \in {"copy", "copying", "copied"}
    BY DEF StartCopy, RsyncLocks, ReportProgress, RsyncDone, CopyError, EndCopy, At
  <2>3. w[p].exp = "transferring"
    BY <2>2 DEF ContentInv, Stages, StageFits
  <2> QED BY <2>1, <2>3 DEF Mid, Inv, TypeOK, WorkersOK, Grown
<1>2. \A d \in Nat : Mark(p, d) \in Nat
  BY <1>1 DEF Mark
<1>3. ASSUME NEW d \in Nat, Writable(w[p].exp, Mark(p, d)), done' = Mark(p, d), state' = state,
             w'[p].exp = w[p].exp
      PROVE  AccountedStep
  <2>1. Account!Report
    BY <1>1, <1>2, <1>3 DEF Writable, Account!Report, Account!Move, Inv, TypeOK, RowOK, Grown
  <2>2. Driven'
    BY <1>3 DEF Driven, OneWorker
  <2> QED BY <2>1, <2>2 DEF AccountedStep, Account!Step
<1>4. CASE StartCopy(p)
  BY <1>1, <1>4, GotoAccounted, NextRouteAccounted DEF StartCopy, Touched
<1>5. CASE RsyncLocks(p)
  BY <1>1, <1>5, RowKept DEF RsyncLocks, row
<1>6. CASE ReportProgress(p)
  <2>1. PICK d \in 1..Size :
          IF Writable(w[p].exp, Mark(p, d))
            THEN /\ done' = Mark(p, d) /\ state' = state
                 /\ w' = [w EXCEPT ![p].done = Mark(p, d)]
            ELSE NextRoute(p, Mark(p, d))
    BY <1>6 DEF ReportProgress
  <2>2. d \in Nat
    BY DEF Size, Grown, Planned
  <2>3. CASE Writable(w[p].exp, Mark(p, d))
    <3>1. w'[p].exp = w[p].exp
      BY <2>1, <2>3 DEF Inv, TypeOK, WorkersOK
    <3> QED BY <1>3, <2>1, <2>2, <2>3, <3>1
  <2>4. CASE ~Writable(w[p].exp, Mark(p, d))
    BY <1>1, <1>2, <2>1, <2>2, <2>4, NextRouteAccounted
  <2> QED BY <2>3, <2>4
<1>7. CASE RsyncDone(p)
  <2>1. Size \in Nat
    BY DEF Size, Grown, Planned
  <2>2. CASE Writable(w[p].exp, Mark(p, Size))
    <3>1. w'[p].exp = w[p].exp /\ done' = Mark(p, Size) /\ state' = state
      BY <1>7, <2>2 DEF RsyncDone, Inv, TypeOK, WorkersOK
    <3> QED BY <1>3, <2>1, <2>2, <3>1
  <2>3. CASE ~Writable(w[p].exp, Mark(p, Size))
    BY <1>1, <1>2, <1>7, <2>1, <2>3, NextRouteAccounted DEF RsyncDone
  <2> QED BY <2>2, <2>3
<1>8. CASE CopyError(p)
  BY <1>1, <1>8, NextRouteAccounted, FailAccounted DEF CopyError
<1>9. CASE EndCopy(p)
  <2>1. Transition(p, Account!Stages[2 + 1], "verify") /\ w[p].exp = Account!Stages[2]
    BY <1>1, <1>9, MidStages DEF EndCopy
  <2> QED BY <1>1, <2>1, TransitionAccounted
<1> QED BY <1>4, <1>5, <1>6, <1>7, <1>8, <1>9

\* The verification.
LEMMA VerifyAccounted ==
    ASSUME OneWorker, Inv, ContentInv, Driven, NEW p \in Workers, VerifyStep(p)
    PROVE  AccountedStep
<1>1. UNCHANGED final
  BY DEF VerifyStep, StartVerify, StartOperation, Verify, EndVerify, remote
<1>2. w[p].exp = "verifying" /\ w[p].exp \in Mid
  <2>1. w[p].at \in {"verify", "verifying", "verified"}
    BY DEF VerifyStep, StartVerify, StartOperation, Verify, EndVerify, At
  <2> QED BY <2>1 DEF ContentInv, Stages, StageFits, Mid
<1>3. CASE StartVerify(p)
  BY <1>1, <1>3, GotoAccounted DEF StartVerify, StartOperation, Touched, row
<1>4. CASE Verify(p)
  <2>1. CASE w' = [w EXCEPT ![p].at = "verified", ![p].done = Planned] /\ UNCHANGED row
    <3>1. w'[p].exp = w[p].exp
      BY <2>1 DEF Inv, TypeOK, WorkersOK
    <3> QED BY <1>1, <2>1, <3>1, RowKept DEF row
  <2> QED BY <1>1, <1>2, <1>4, <2>1, FailAccounted DEF Verify
<1>5. CASE EndVerify(p)
  <2>1. Transition(p, Account!Stages[3 + 1], "promote") /\ w[p].exp = Account!Stages[3]
    BY <1>2, <1>5, MidStages DEF EndVerify
  <2> QED BY <1>1, <2>1, TransitionAccounted
<1> QED BY <1>3, <1>4, <1>5 DEF VerifyStep

\* The worker's part of the promotion: it reports what the destination is found
\* or made to be, and its row is promoting or cancelling.
LEMMA PromoteAccounted ==
    ASSUME TransferAssumption, OneWorker, Inv, ContentInv, Driven, Delivered,
           NEW p \in Workers, PromoteStep(p)
    PROVE  AccountedStep
<1>1. UNCHANGED final
  BY DEF PromoteStep, StartPromote, StartOperation, StatDestination, PromoteReturns,
         PromoteError, RecordPlacement, Complete, CompleteRaced, remote
<1>2. w[p].exp = "promoting" /\ w[p].exp \in Mid /\ state \in {"promoting", "cancelling"}
  <2>1. w[p].at \in {"promote", "stat", "exec", "record", "complete", "raced"}
    BY DEF PromoteStep, StartPromote, StartOperation, StatDestination, PromoteReturns,
           PromoteError, RecordPlacement, Complete, CompleteRaced, At
  <2> QED BY <2>1 DEF ContentInv, Stages, StageFits, Mid, Driven
<1>3. ASSUME Accept(p) PROVE AccountedStep
  BY <1>1, <1>2, <1>3, GotoAccounted, FailAccounted DEF Accept, row
<1>4. CASE StartPromote(p)
  BY <1>1, <1>4, GotoAccounted DEF StartPromote, StartOperation, Touched, row
<1>5. CASE StatDestination(p)
  BY <1>1, <1>2, <1>3, <1>5, GotoAccounted, FailAccounted DEF StatDestination, row
<1>6. CASE PromoteReturns(p)
  BY <1>1, <1>2, <1>3, <1>6, GotoAccounted, FailAccounted DEF PromoteReturns, row
<1>7. CASE PromoteError(p) \/ RecordPlacement(p)
  BY <1>1, <1>2, <1>7, GotoAccounted, FailAccounted DEF PromoteError, RecordPlacement, row
<1>8. ASSUME state' = "completed", done' >= done, At(p, "complete") \/ At(p, "raced"), Stop(p)
      PROVE  AccountedStep
  <2>1. final = "good" \/ stray
    BY <1>8 DEF Delivered, Won, At, ContentInv, OnlyVerifiedIsPromoted
  <2>2. Account!Complete
    BY <1>1, <1>2, <1>8, <2>1 DEF Account!Complete, Account!Move
  <2>3. Driven'
    BY <1>8 DEF Stop, Idle, Driven, OneWorker, Inv, TypeOK, WorkersOK, Mid
  <2> QED BY <2>2, <2>3 DEF AccountedStep, Account!Step
<1>9. CASE Complete(p)
  <2>1. CASE Writable("promoting", w[p].done)
    BY <1>8, <1>9, <2>1 DEF Complete, Writable, Inv, TypeOK, RowOK, WorkersOK, Grown
  <2> QED BY <1>1, <1>9, <2>1, GotoAccounted DEF Complete, row
<1>10. CASE CompleteRaced(p)
  <2>1. CASE state = "cancelling"
    BY <1>8, <1>10, <2>1 DEF CompleteRaced, Inv, TypeOK, RowOK, Grown
  <2> QED BY <1>1, <1>10, <2>1, GotoAccounted DEF CompleteRaced
<1> QED BY <1>4, <1>5, <1>6, <1>7, <1>9, <1>10 DEF PromoteStep

\* The promotion command: unless one is astray, it renames what was verified for
\* the worker that waits for it.
LEMMA CommandAccounted ==
    ASSUME Inv, ContentInv, Driven, NEW p \in Workers, PromoteCommand(p)
    PROVE  AccountedStep
<1>1. UNCHANGED <<w, state, done>> /\ Driven'
  BY DEF PromoteCommand, PromoteChecks, PromoteRenames, PromoteLost, row, Driven
<1>2. CASE UNCHANGED final
  BY <1>1, <1>2 DEF AccountedStep, Account!Step, Account!Rest
<1>3. CASE /\ PromoteRenames(p) /\ staging # "none"
           /\ final' = IF staging = "good" THEN "good" ELSE "wrong"
  <2>1. CASE stray
    BY <1>1, <1>3, <2>1 DEF AccountedStep, Account!Step, Account!Overwrite
  <2>2. CASE ~stray
    <3>1. At(p, "exec")
      BY <1>3, <2>2 DEF PromoteRenames, ContentInv, Waited
    <3>2. w[p].exp = "promoting"
      BY <3>1 DEF ContentInv, Stages, StageFits, At
    <3>3. state \in {"promoting", "cancelling"} /\ staging = "good"
      BY <1>3, <2>2, <3>2 DEF Driven, Mid, ContentInv, StagingKept, Past
    <3> QED BY <1>1, <1>3, <3>3 DEF AccountedStep, Account!Step, Account!Promote
  <2> QED BY <2>1, <2>2
<1> QED BY <1>2, <1>3 DEF PromoteCommand, PromoteChecks, PromoteRenames, PromoteLost

\* Cancelled jobs, leases, interruptions and others.
LEMMA RestAccounted ==
    ASSUME TransferAssumption, OneWorker, "removal" \notin Edits, Inv, Driven,
           \/ LeaseExpires \/ Edit
           \/ \E p \in Workers : FinishCancelled(p) \/ Beat(p) \/ Interrupted(p)
           \/ \E r \in 1..Routes : RsyncWrites(r) \/ Orphan(r)
    PROVE  AccountedStep
<1>1. CASE LeaseExpires \/ (\E p \in Workers : Beat(p))
           \/ \E r \in 1..Routes : RsyncWrites(r) \/ Orphan(r)
  BY <1>1 DEF LeaseExpires, Beat, RsyncWrites, Orphan, OrphanLocks, OrphanEnds, remote, row,
              AccountedStep, Driven, Account!Step, Account!Rest
<1>2. CASE Edit
  <2>1. UNCHANGED <<w, state, done>> /\ (final' = final \/ (final = "none" /\ final' = "other"))
    BY <1>2 DEF Edit, row
  <2> QED BY <2>1 DEF AccountedStep, Driven, Account!Step, Account!Rest, Account!Rival
<1>3. ASSUME NEW p \in Workers, Interrupted(p) PROVE AccountedStep
  BY <1>3, GotoAccounted DEF Interrupted, row
<1>4. ASSUME NEW p \in Workers, FinishCancelled(p) PROVE AccountedStep
  <2>1. CASE Writable("cancelling", w[p].done)
    <3>1. Account!FinishCancelled
      BY <1>4, <2>1 DEF FinishCancelled, Writable, remote, Account!FinishCancelled, Account!Move,
                        Inv, TypeOK, RowOK, WorkersOK, Grown
    <3>2. Driven'
      BY <1>4 DEF FinishCancelled, Stop, Idle, Driven, OneWorker, Inv, TypeOK, WorkersOK, Mid
    <3> QED BY <3>1, <3>2 DEF AccountedStep, Account!Step
  <2> QED BY <1>4, <2>1, GotoAccounted DEF FinishCancelled, remote
<1> QED BY <1>1, <1>2, <1>3, <1>4

\* A command that has gone astray is never counted on again.
LEMMA StrayStays ==
    ASSUME Inv, Next
    PROVE  stray' \in {stray, TRUE}
<1>1. stray \in BOOLEAN
  BY DEF Inv, TypeOK, CommandsOK
<1>2. ASSUME NEW p \in Workers, Abandon(p) PROVE stray' \in {stray, TRUE}
  BY <1>2 DEF Abandon
<1>3. ASSUME NEW p \in Workers, LeavePromotion(p) PROVE stray' \in {stray, TRUE}
  <2>1. CASE promo[p] \in {"sent", "checked"}
    BY <1>3, <2>1 DEF LeavePromotion
  <2>2. CASE promo[p] \notin {"sent", "checked"}
    <3>1. stray' = (stray \/ FALSE)
      BY <1>3, <2>2, Zenon DEF LeavePromotion
    <3> QED BY <1>1, <3>1
  <2> QED BY <2>1, <2>2
<1>4. ASSUME NEW p \in Workers,
             ReportProgress(p) \/ CopyError(p) \/ PromoteError(p) \/ Interrupted(p)
      PROVE  stray' \in {stray, TRUE}
  BY <1>2, <1>3, <1>4 DEF ReportProgress, CopyError, PromoteError, Interrupted
<1>5. CASE \/ Request \/ LeaseExpires \/ Edit
           \/ \E r \in 1..Routes : RsyncWrites(r) \/ Orphan(r)
  BY <1>5 DEF Request, BuildPlan, PersistPlan, ReadForCancel, Cancel, ReadForRetry, Retry,
              LeaseExpires, Edit, RsyncWrites, Orphan, OrphanLocks, OrphanEnds, remote
<1>6. ASSUME NEW p \in Workers,
             \/ ClaimTransferJob(p) \/ Reconcile(p) \/ Beat(p) \/ PromoteCommand(p)
             \/ Resume(p) \/ ReadPlan(p) \/ FinishCancelled(p) \/ VerifyStep(p)
             \/ (CopyStep(p) /\ ~CopyError(p)) \/ (PromoteStep(p) /\ ~PromoteError(p))
      PROVE  UNCHANGED stray
  BY <1>6 DEF ClaimTransferJob, Reconcile, Beat, PromoteCommand, PromoteChecks, PromoteRenames,
       PromoteLost, Resume, ReadPlan, FinishCancelled, VerifyStep, StartVerify, StartOperation,
       Verify, EndVerify, CopyStep, BeginTransfer, StartCopy, RsyncLocks, RsyncDone, EndCopy,
       PromoteStep, StartPromote, StatDestination, PromoteReturns, RecordPlacement, Complete,
       CompleteRaced, remote
<1> QED BY <1>4, <1>5, <1>6 DEF Next, Work

LEMMA NextAccounted ==
    ASSUME TransferAssumption, OneWorker, "removal" \notin Edits,
           Inv, ContentInv, Delivered, Driven, Next
    PROVE  Driven' /\ Account!Next
<1>1. ASSUME NEW p \in Workers, Work(p) PROVE AccountedStep
  BY <1>1, ClaimAccounted, CopyAccounted, VerifyAccounted, PromoteAccounted, RestAccounted
  DEF Work, CopyStep
<1>2. AccountedStep
  BY <1>1, RequestAccounted, ClaimAccounted, CopyAccounted, CommandAccounted, RestAccounted
  DEF Next
<1> QED BY <1>2, StrayStays DEF AccountedStep, Account!Next

\* With one worker at a time and a destination that nobody removes, the row and
\* the destination are an account of its work: whatever is cancelled, retried,
\* resumed or lost in between, the destination is not written before the
\* verification nor after the job is over, unless a command is astray.
THEOREM RowIsAccount ==
    ASSUME OneWorker, "removal" \notin Edits
    PROVE  Spec => JobIsAccounted
<1> DEFINE I == Inv /\ ContentInv /\ Delivered /\ Driven
<1>1. Init => ContentInv /\ Delivered /\ Driven /\ Account!Init
  <2>1. Init => Delivered /\ Driven
    BY DEF Init, Delivered, Won, Idle, Driven, Mid
  <2>2. Init => Account!Init
    BY DEF Init, Account!Init
  <2> QED BY <2>1, <2>2, InitContent, TransferAssumption
<1>2. I /\ [Next]_vars => (ContentInv /\ Delivered /\ Driven)' /\ [Account!Next]_Account!vars
  <2> SUFFICES ASSUME I, [Next]_vars
               PROVE  (ContentInv /\ Delivered /\ Driven)' /\ [Account!Next]_Account!vars
    OBVIOUS
  <2>1. ContentInv' /\ Delivered'
    BY ContentStep, DeliveredStep, TransferAssumption
  <2>2. CASE UNCHANGED vars
    BY <2>1, <2>2 DEF vars, row, remote, Driven, Account!vars
  <2>3. CASE Next
    BY <2>1, <2>3, NextAccounted, TransferAssumption
  <2> QED BY <2>2, <2>3
<1> QED BY <1>1, <1>2, Invariant, PTL DEF Spec, JobIsAccounted, Account!Spec
=============================================================================
