---------------------------- MODULE TransferJob ----------------------------
(***************************************************************************)
(* One durable transfer job: its row, the workers that drive it, the rsync *)
(* and promotion commands they start on other machines, the staging and    *)
(* final paths those commands write, and the user's requests.              *)
(*                                                                         *)
(* A worker is a goroutine of a manager or a process that executes the job *)
(* in the foreground (a run that needs its inputs, aexp with --wait).  It  *)
(* holds nothing but a snapshot of the row; there is no owner or epoch in  *)
(* the row, only its state, its progress and a heartbeat.                  *)
(***************************************************************************)
EXTENDS Naturals, FiniteSets

CONSTANTS
    Workers,        \* those that may execute the job
    Managers,       \* the workers that also resume what others left
    Routes,         \* how many initiators the plan lists, fallbacks included
    Edits,          \* what may change behind the job's back
    MaxEdits,       \* bound on those changes
    MaxInterrupts,  \* bound on workers that stop between two steps
    LateBeats       \* whether a lease may expire while its worker lives

ASSUME TransferAssumption ==
    /\ IsFiniteSet(Workers) /\ Managers \subseteq Workers
    /\ Routes \in Nat \ {0}
    /\ Edits \subseteq {"source", "rival", "removal"}
    /\ MaxEdits \in Nat /\ MaxInterrupts \in Nat
    /\ LateBeats \in BOOLEAN
    /\ {"nobody", "orphan"} \cap Workers = {}

Mid    == {"planning", "transferring", "verifying", "promoting"}
Active == Mid \cup {"queued", "cancelling"}
Ended  == {"completed", "failed", "blocked", "cancelled"}

\* Progress in bytes: nothing, some, the whole of the planned source, and the
\* size the source has grown to when it is not the planned one any more.
Planned == 2
Grown   == 3

VARIABLES
    state,      \* transfer_jobs.state, "none" without a row
    done,       \* transfer_jobs.bytes_done
    retryable,  \* transfer_jobs.retryable of a failed job
    fresh,      \* the heartbeat is younger than ResumeAfter
    w,          \* the workers: where they are and their snapshot of the row
    source,     \* whether the source still has the planned revision
    staging,    \* the content of the staging path
    final,      \* the content of the destination
    lock,       \* who holds the rsync lock on each initiator
    late,       \* initiators where a command nobody waits for is queued
    promo,      \* each worker's promotion command
    stray,      \* history: a command has outlived the worker that waited for it
    user,       \* the request in progress
    edits, interrupts

row    == <<state, done, retryable, fresh>>
remote == <<staging, final, lock, late, promo, stray>>
bounds == <<edits, interrupts>>
vars   == <<row, w, source, remote, user, bounds>>

Idle   == [at |-> "idle", exp |-> "none", done |-> 0, route |-> 1]
NoUser == [op |-> "idle", exp |-> "none", done |-> 0]

Init ==
    /\ state = "none" /\ done = 0 /\ retryable = TRUE /\ fresh = FALSE
    /\ w = [p \in Workers |-> Idle]
    /\ source = "planned" /\ staging = "none" /\ final = "none"
    /\ lock = [r \in 1..Routes |-> "nobody"] /\ late = {}
    /\ promo = [p \in Workers |-> "none"] /\ stray = FALSE
    /\ user = NoUser
    /\ edits = 0 /\ interrupts = 0

At(p, l)   == w[p].at = l
Goto(p, l) == w' = [w EXCEPT ![p].at = l]
Stop(p)    == w' = [w EXCEPT ![p] = Idle]

-----------------------------------------------------------------------------
(* Writes of the row *)

\* Mutants of Writable: the progress is not compared; the state is not.
Writable_AnyProgress(exp, d) == state = exp
Writable_AnyState(exp, d)    == state \in Active \cup Ended /\ done <= d

\* UpdateTransferJobIfState
Writable(exp, d) == state = exp /\ done <= d

\* transition: on success the heartbeat is renewed, else the worker stops.
Transition(p, next, l) ==
    IF Writable(w[p].exp, w[p].done)
      THEN /\ state' = next /\ done' = w[p].done /\ fresh' = TRUE
           /\ w' = [w EXCEPT ![p].at = l, ![p].exp = next]
           /\ UNCHANGED retryable
      ELSE Stop(p) /\ UNCHANGED row

\* fail and block, with progress d: the worker stops, whether or not its write
\* wins.
End(p, to, again, d) ==
    /\ IF Writable(w[p].exp, d)
         THEN state' = to /\ done' = d /\ retryable' = again
         ELSE UNCHANGED <<state, done, retryable>>
    /\ Stop(p) /\ UNCHANGED fresh

Fail(p, again) == End(p, "failed", again, w[p].done)
Block(p)       == End(p, "blocked", FALSE, w[p].done)

\* The heartbeat before an operation; without the lease it is not started.
Touched(p, l) ==
    /\ state = w[p].exp
    /\ fresh' = TRUE /\ Goto(p, l)
    /\ UNCHANGED <<state, done, retryable>>

-----------------------------------------------------------------------------
(* The user: Create, Cancel and Retry, each a read followed by a write *)

\* Build: the plan of this job is found only with the planned source and a
\* destination that is missing.
BuildPlan ==
    /\ user.op = "idle" /\ source = "planned" /\ final = "none"
    /\ user' = [NoUser EXCEPT !.op = "create"]
    /\ UNCHANGED <<row, w, source, remote, bounds>>

\* A completed job is reopened on the word of the plan.
PersistPlan ==
    /\ user.op = "create"
    /\ IF state \in {"none", "completed"}
         THEN state' = "queued" /\ done' = 0 /\ retryable' = TRUE /\ UNCHANGED fresh
         ELSE UNCHANGED row
    /\ user' = NoUser
    /\ UNCHANGED <<w, source, remote, bounds>>

ReadForCancel ==
    /\ user.op = "idle" /\ state \in Mid \cup {"queued"}
    /\ user' = [op |-> "cancel", exp |-> state, done |-> done]
    /\ UNCHANGED <<row, w, source, remote, bounds>>

\* Mutant: the job of a worker that still runs is closed at once.
Cancel_AtOnce ==
    /\ user.op = "cancel"
    /\ IF Writable(user.exp, user.done)
         THEN state' = "cancelled" /\ done' = user.done
         ELSE UNCHANGED <<state, done>>
    /\ user' = NoUser
    /\ UNCHANGED <<retryable, fresh, w, source, remote, bounds>>

Cancel ==
    /\ user.op = "cancel"
    /\ IF Writable(user.exp, user.done)
         THEN /\ state' = IF user.exp = "queued" THEN "cancelled" ELSE "cancelling"
              /\ done' = user.done
         ELSE UNCHANGED <<state, done>>
    /\ user' = NoUser
    /\ UNCHANGED <<retryable, fresh, w, source, remote, bounds>>

ReadForRetry ==
    /\ user.op = "idle" /\ state \in {"failed", "blocked"} /\ retryable
    /\ user' = [op |-> "retry", exp |-> state, done |-> done]
    /\ UNCHANGED <<row, w, source, remote, bounds>>

Retry ==
    /\ user.op = "retry"
    /\ IF Writable(user.exp, user.done)
         THEN state' = "queued" /\ done' = user.done /\ retryable' = TRUE
         ELSE UNCHANGED <<state, done, retryable>>
    /\ user' = NoUser
    /\ UNCHANGED <<fresh, w, source, remote, bounds>>

-----------------------------------------------------------------------------
(* Manager and worker: claim, resumption, plan *)

ClaimTransferJob(p) ==
    /\ At(p, "idle") /\ state = "queued"
    /\ state' = "planning" /\ fresh' = TRUE
    /\ w' = [w EXCEPT ![p] = [at |-> "plan", exp |-> "planning", done |-> done, route |-> 1]]
    /\ UNCHANGED <<done, retryable, source, remote, user, bounds>>

\* reconcile lists the jobs without a fresh lease; a cancelling job needs none.
Reconcile(p) ==
    /\ p \in Managers /\ At(p, "idle")
    /\ state = "cancelling" \/ (state \in Mid /\ ~fresh)
    /\ Goto(p, "resume")
    /\ UNCHANGED <<row, source, remote, user, bounds>>

\* Mutant: a cancelling job is left to the worker that was driving it.
Resume_NotCancelling(p) ==
    /\ At(p, "resume")
    /\ IF state \in Mid
         THEN w' = [w EXCEPT ![p] = [at |-> "plan", exp |-> state, done |-> done, route |-> 1]]
         ELSE Stop(p)
    /\ UNCHANGED <<row, source, remote, user, bounds>>

\* Resume looks at the row again, but not at its lease.
Resume(p) ==
    /\ At(p, "resume")
    /\ CASE state \in Mid ->
              w' = [w EXCEPT ![p] = [at |-> "plan", exp |-> state, done |-> done, route |-> 1]]
         [] state = "cancelling" ->
              w' = [w EXCEPT ![p] = [at |-> "finish", exp |-> state, done |-> done, route |-> 1]]
         [] OTHER -> Stop(p)
    /\ UNCHANGED <<row, source, remote, user, bounds>>

\* The stage of executeClaimed at which a job in this state goes on.
StageOf(exp) ==
    CASE exp = "planning"     -> "begin"
      [] exp = "transferring" -> "copy"
      [] exp = "verifying"    -> "verify"
      [] exp = "promoting"    -> "promote"

ReadPlan(p) ==
    /\ At(p, "plan")
    /\ \/ Goto(p, StageOf(w[p].exp)) /\ UNCHANGED row
       \/ \E again \in BOOLEAN : Fail(p, again)
    /\ UNCHANGED <<source, remote, user, bounds>>

BeginTransfer(p) ==
    /\ At(p, "begin")
    /\ Transition(p, "transferring", "copy")
    /\ UNCHANGED <<source, remote, user, bounds>>

-----------------------------------------------------------------------------
(* copyWithFallback and the rsync commands *)

\* Mutant: one more route is tried than the plan lists.
NextRoute_OneMore(p, d) ==
    IF w[p].route <= Routes
      THEN /\ w' = [w EXCEPT ![p].at = "copy", ![p].route = @ + 1, ![p].done = d]
           /\ UNCHANGED row
      ELSE End(p, "failed", TRUE, d)

\* A failed route is followed by the next one, the last by the failure of the
\* transfer; the snapshot keeps the progress that was reported.
NextRoute(p, d) ==
    IF w[p].route < Routes
      THEN /\ w' = [w EXCEPT ![p].at = "copy", ![p].route = @ + 1, ![p].done = d]
           /\ UNCHANGED row
      ELSE End(p, "failed", TRUE, d)

\* What becomes of p's command when nobody waits for it any more: it ends with
\* its SSH session or goes on, holding or awaiting the lock.
Abandon(p) ==
    LET r == w[p].route
    IN  \/ /\ lock' = IF lock[r] = p THEN [lock EXCEPT ![r] = "nobody"] ELSE lock
           /\ UNCHANGED <<late, stray>>
        \/ /\ IF lock[r] = p
                THEN lock' = [lock EXCEPT ![r] = "orphan"] /\ UNCHANGED late
                ELSE late' = late \cup {r} /\ UNCHANGED lock
           /\ stray' = TRUE

StartCopy(p) ==
    /\ At(p, "copy")
    /\ IF state = w[p].exp THEN Touched(p, "copying") ELSE NextRoute(p, w[p].done)
    /\ UNCHANGED <<source, remote, user, bounds>>

RsyncLocks(p) ==
    /\ At(p, "copying") /\ lock[w[p].route] = "nobody"
    /\ lock' = [lock EXCEPT ![w[p].route] = p]
    /\ UNCHANGED <<row, w, source, staging, final, late, promo, stray, user, bounds>>

\* What rsync leaves when it has written some of the source, or all of it: a
\* tree into which another revision was copied once may keep part of that.
Some == IF source = "grown" THEN "dirty" ELSE IF staging = "none" THEN "part" ELSE staging
Whole == IF source = "grown" THEN {"dirty"}
         ELSE IF staging = "dirty" THEN {"dirty", "good"} ELSE {"good"}

RsyncWrites(r) ==
    /\ lock[r] # "nobody"
    /\ staging' = Some
    /\ UNCHANGED <<row, w, source, final, lock, late, promo, stray, user, bounds>>

\* The high-water mark of what rsync reports.
Mark(p, d) == IF d > w[p].done THEN d ELSE w[p].done

Size == IF source = "grown" THEN Grown ELSE Planned

\* A progress report renews the lease; if it cannot be written, Copy fails.
ReportProgress(p) ==
    /\ At(p, "copying") /\ lock[w[p].route] = p
    /\ \E d \in 1..Size :
         LET m == Mark(p, d)
         IN  IF Writable(w[p].exp, m)
               THEN /\ done' = m /\ fresh' = TRUE
                    /\ w' = [w EXCEPT ![p].done = m]
                    /\ UNCHANGED <<state, retryable, lock, late, stray>>
               ELSE NextRoute(p, m) /\ Abandon(p)
    /\ UNCHANGED <<source, staging, final, promo, user, bounds>>

\* rsync ends and Copy reports at least what the plan has promised.
RsyncDone(p) ==
    /\ At(p, "copying") /\ lock[w[p].route] = p
    /\ lock' = [lock EXCEPT ![w[p].route] = "nobody"]
    /\ staging' \in Whole
    /\ LET m == Mark(p, Size)
       IN  IF Writable(w[p].exp, m)
             THEN /\ done' = m /\ fresh' = TRUE
                  /\ w' = [w EXCEPT ![p].at = "copied", ![p].done = m]
                  /\ UNCHANGED <<state, retryable>>
             ELSE NextRoute(p, m)
    /\ UNCHANGED <<source, final, late, promo, stray, user, bounds>>

\* An error of Copy, or a heartbeat that finds the lease lost.
CopyError(p) ==
    /\ At(p, "copying")
    /\ \/ NextRoute(p, w[p].done) /\ Abandon(p)
       \/ /\ lock[w[p].route] # p
          /\ Fail(p, FALSE) /\ UNCHANGED <<lock, late, stray>>
    /\ UNCHANGED <<source, staging, final, promo, user, bounds>>

EndCopy(p) ==
    /\ At(p, "copied")
    /\ Transition(p, "verifying", "verify")
    /\ UNCHANGED <<source, remote, user, bounds>>

OrphanLocks(r) ==
    /\ r \in late /\ lock[r] = "nobody"
    /\ lock' = [lock EXCEPT ![r] = "orphan"] /\ late' = late \ {r}
    /\ UNCHANGED <<row, w, source, staging, final, promo, stray, user, bounds>>

OrphanEnds(r) ==
    /\ lock[r] = "orphan"
    /\ lock' = [lock EXCEPT ![r] = "nobody"]
    /\ staging' \in {staging} \cup Whole
    /\ UNCHANGED <<row, w, source, final, late, promo, stray, user, bounds>>

-----------------------------------------------------------------------------
(* Verification *)

\* Starting Verify or Promote without the lease stops the worker.
StartOperation(p, l, operating) ==
    /\ At(p, l)
    /\ IF state = w[p].exp THEN Touched(p, operating) ELSE Stop(p) /\ UNCHANGED row
    /\ UNCHANGED <<source, remote, user, bounds>>

StartVerify(p) == StartOperation(p, "verify", "verifying")

\* Mutant: whatever is in staging is accepted.
Verify_Anything(p) ==
    /\ At(p, "verifying")
    /\ Goto(p, "verified")
    /\ UNCHANGED <<row, source, remote, user, bounds>>

\* The hash of the staging path must be the planned revision; its size then
\* replaces the progress in the snapshot.
Verify(p) ==
    /\ At(p, "verifying")
    /\ \/ /\ staging = "good"
          /\ w' = [w EXCEPT ![p].at = "verified", ![p].done = Planned]
          /\ UNCHANGED row
       \/ Fail(p, TRUE)
    /\ UNCHANGED <<source, remote, user, bounds>>

EndVerify(p) ==
    /\ At(p, "verified")
    /\ Transition(p, "promoting", "promote")
    /\ UNCHANGED <<source, remote, user, bounds>>

-----------------------------------------------------------------------------
(* Promotion *)

StartPromote(p) == StartOperation(p, "promote", "stat")

\* Mutant: a destination that exists is accepted whatever it contains.
Accept_Any(p) == Goto(p, "record") /\ UNCHANGED row

\* acceptExistingDestination
Accept(p) == IF final = "good" THEN Goto(p, "record") /\ UNCHANGED row ELSE Block(p)

\* Promote: an existing destination is compared, never replaced; for a missing
\* one the command is sent.  Each worker has one such command at a time, a bound
\* on the commands that nobody waits for.
StatDestination(p) ==
    /\ At(p, "stat") /\ promo[p] = "none"
    /\ \/ final # "none" /\ Accept(p) /\ UNCHANGED promo
       \/ /\ final = "none"
          /\ promo' = [promo EXCEPT ![p] = "sent"]
          /\ Goto(p, "exec") /\ UNCHANGED row
       \/ Fail(p, TRUE) /\ UNCHANGED promo
    /\ UNCHANGED <<source, staging, final, lock, late, stray, user, bounds>>

\* Only a worker that waits for the command sees its outcome.
Answer(p, a) == promo' = [promo EXCEPT ![p] = IF At(p, "exec") THEN a ELSE "none"]

\* atomicPromoteCommand looks at both paths ...
PromoteChecks(p) ==
    /\ promo[p] = "sent"
    /\ CASE final # "none"   -> Answer(p, "exists")
         [] staging = "none" -> Answer(p, "error")
         [] OTHER            -> promo' = [promo EXCEPT ![p] = "checked"]
    /\ UNCHANGED <<row, w, source, staging, final, lock, late, stray, user, bounds>>

\* ... and then renames, which replaces a file that has appeared since.
PromoteRenames(p) ==
    /\ promo[p] = "checked"
    /\ \/ /\ staging # "none"
          /\ final' = IF staging = "good" THEN "good" ELSE "wrong"
          /\ staging' = "none" /\ Answer(p, "ok")
       \/ /\ staging = "none" \/ final # "none"
          /\ Answer(p, "error") /\ UNCHANGED <<staging, final>>
    /\ UNCHANGED <<row, w, source, lock, late, stray, user, bounds>>

PromoteLost(p) ==
    /\ promo[p] = "sent" /\ ~At(p, "exec")
    /\ promo' = [promo EXCEPT ![p] = "none"]
    /\ UNCHANGED <<row, w, source, staging, final, lock, late, stray, user, bounds>>

PromoteReturns(p) ==
    /\ At(p, "exec") /\ promo[p] \in {"ok", "exists", "error"}
    /\ CASE promo[p] = "ok"                        -> Goto(p, "record") /\ UNCHANGED row
         [] promo[p] = "exists" /\ final # "none" -> Accept(p)
         [] OTHER                                 -> Fail(p, TRUE)
    /\ promo' = [promo EXCEPT ![p] = "none"]
    /\ UNCHANGED <<source, staging, final, lock, late, stray, user, bounds>>

\* The promotion command that p leaves behind if it has sent one.
LeavePromotion(p) ==
    LET left == promo[p] \in {"sent", "checked"}
    IN  /\ promo' = [promo EXCEPT ![p] = IF left THEN @ ELSE "none"]
        /\ stray' = (stray \/ left)

\* An SSH error or a lost lease, whatever becomes of the command.
PromoteError(p) ==
    /\ At(p, "exec")
    /\ Fail(p, TRUE)
    /\ LeavePromotion(p)
    /\ UNCHANGED <<source, staging, final, lock, late, user, bounds>>

RecordPlacement(p) ==
    /\ At(p, "record")
    /\ \/ Goto(p, "complete") /\ UNCHANGED row
       \/ Fail(p, TRUE)
    /\ UNCHANGED <<source, remote, user, bounds>>

Complete(p) ==
    /\ At(p, "complete")
    /\ IF Writable("promoting", w[p].done)
         THEN /\ state' = "completed" /\ done' = w[p].done /\ fresh' = TRUE
              /\ Stop(p) /\ UNCHANGED retryable
         ELSE Goto(p, "raced") /\ UNCHANGED row
    /\ UNCHANGED <<source, remote, user, bounds>>

\* A promotion that won the race with a cancellation is reported completed.
CompleteRaced(p) ==
    /\ At(p, "raced")
    /\ IF state = "cancelling" THEN state' = "completed" /\ fresh' = TRUE
                               ELSE UNCHANGED <<state, fresh>>
    /\ Stop(p)
    /\ UNCHANGED <<done, retryable, source, remote, user, bounds>>

FinishCancelled(p) ==
    /\ At(p, "finish")
    /\ IF Writable("cancelling", w[p].done)
         THEN state' = "cancelled" /\ done' = w[p].done
         ELSE UNCHANGED <<state, done>>
    /\ Stop(p)
    /\ UNCHANGED <<retryable, fresh, source, remote, user, bounds>>

-----------------------------------------------------------------------------
(* Time, interruptions and the world outside *)

Operations == {"copying", "verifying", "stat", "exec"}

Beat(p) ==
    /\ w[p].at \in Operations /\ state = w[p].exp
    /\ fresh' = TRUE
    /\ UNCHANGED <<state, done, retryable, w, source, remote, user, bounds>>

Undriven == \A p \in Workers : w[p].at \in {"idle", "resume", "finish"}

\* Thirty seconds without a heartbeat: nobody drives the job, or its worker
\* slept with the machine or could not write.
LeaseExpires ==
    /\ fresh
    /\ LateBeats \/ Undriven
    /\ fresh' = FALSE
    /\ UNCHANGED <<state, done, retryable, w, source, remote, user, bounds>>

\* The process ends, its context is cancelled or the database refuses: the
\* worker is gone, its commands may be not.
Interrupted(p) ==
    /\ ~At(p, "idle") /\ interrupts < MaxInterrupts
    /\ interrupts' = interrupts + 1
    /\ Stop(p)
    /\ \/ At(p, "copying") /\ Abandon(p) /\ UNCHANGED promo
       \/ ~At(p, "copying") /\ LeavePromotion(p) /\ UNCHANGED <<lock, late>>
    /\ UNCHANGED <<row, source, staging, final, user, edits>>

\* The source grows or is put back; another job or a person creates the
\* destination; the destination is removed.
Edit ==
    /\ edits < MaxEdits /\ edits' = edits + 1
    /\ \/ /\ "source" \in Edits
          /\ source' = IF source = "planned" THEN "grown" ELSE "planned"
          /\ UNCHANGED final
       \/ /\ "rival" \in Edits /\ final = "none"
          /\ final' = "other" /\ UNCHANGED source
       \/ /\ "removal" \in Edits /\ final # "none"
          /\ final' = "none" /\ UNCHANGED source
    /\ UNCHANGED <<row, w, staging, lock, late, promo, stray, user, interrupts>>

-----------------------------------------------------------------------------

Request ==
    \/ BuildPlan \/ PersistPlan \/ ReadForCancel \/ Cancel \/ ReadForRetry \/ Retry

CopyStep(p) ==
    \/ BeginTransfer(p) \/ StartCopy(p) \/ RsyncLocks(p) \/ RsyncDone(p)
    \/ CopyError(p) \/ EndCopy(p)

VerifyStep(p) == StartVerify(p) \/ Verify(p) \/ EndVerify(p)

PromoteStep(p) ==
    \/ StartPromote(p) \/ StatDestination(p) \/ PromoteReturns(p) \/ PromoteError(p)
    \/ RecordPlacement(p) \/ Complete(p) \/ CompleteRaced(p)

\* The steps by which a worker comes to its end.
Work(p) ==
    \/ Resume(p) \/ ReadPlan(p) \/ CopyStep(p) \/ VerifyStep(p) \/ PromoteStep(p)
    \/ FinishCancelled(p)

PromoteCommand(p) == PromoteChecks(p) \/ PromoteRenames(p) \/ PromoteLost(p)

Orphan(r) == OrphanLocks(r) \/ OrphanEnds(r)

Next ==
    \/ Request \/ LeaseExpires \/ Edit
    \/ \E p \in Workers : \/ ClaimTransferJob(p) \/ Reconcile(p) \/ Work(p)
                          \/ ReportProgress(p) \/ Beat(p) \/ Interrupted(p)
                          \/ PromoteCommand(p)
    \/ \E r \in 1..Routes : RsyncWrites(r) \/ Orphan(r)

Spec == Init /\ [][Next]_vars

\* Managers look at the jobs again and again, workers and remote commands come
\* to an end, and the lease of a job that nobody drives expires.
Fairness ==
    /\ \A p \in Managers : WF_vars(ClaimTransferJob(p) \/ Reconcile(p))
    /\ \A p \in Workers : WF_vars(Work(p)) /\ WF_vars(PromoteCommand(p))
    /\ \A r \in 1..Routes : WF_vars(Orphan(r))
    /\ WF_vars(Undriven /\ LeaseExpires)

FairSpec == Spec /\ Fairness

-----------------------------------------------------------------------------
(* Properties *)

Places == {"idle", "resume", "plan", "begin", "copy", "copying", "copied", "verify",
           "verifying", "verified", "promote", "stat", "exec", "record", "complete",
           "raced", "finish"}

RowOK == state \in {"none"} \cup Active \cup Ended /\ done \in 0..Grown

FlagsOK == retryable \in BOOLEAN /\ fresh \in BOOLEAN

WorkersOK ==
    w \in [Workers -> [at : Places, exp : {"none"} \cup Mid \cup {"cancelling"},
                       done : 0..Grown, route : 1..Routes]]

PathsOK ==
    /\ source \in {"planned", "grown"}
    /\ staging \in {"none", "part", "dirty", "good"}
    /\ final \in {"none", "other", "wrong", "good"}

CommandsOK ==
    /\ lock \in [1..Routes -> {"nobody", "orphan"} \cup Workers]
    /\ late \subseteq 1..Routes
    /\ promo \in [Workers -> {"none", "sent", "checked", "ok", "exists", "error"}]
    /\ stray \in BOOLEAN

UserOK ==
    user \in [op : {"idle", "create", "cancel", "retry"},
              exp : {"none", "queued", "failed", "blocked"} \cup Mid, done : 0..Grown]

BoundsOK == edits \in 0..MaxEdits /\ interrupts \in 0..MaxInterrupts

\* The types of the row, of the workers, of the paths and commands and of the
\* request in progress.
TypeOK ==
    RowOK /\ FlagsOK /\ WorkersOK /\ PathsOK /\ CommandsOK /\ UserOK /\ BoundsOK

\* Only content that was found to have the planned revision is ever put at the
\* destination, at whatever stage a job is resumed and however its source
\* changes: as long as no command outlives the worker that waited for it.
OnlyVerifiedIsPromoted == final = "wrong" => stray

\* Completed is reported only of a destination that has the planned revision,
\* also when the cancellation and the promotion race: with the same exception.
CompletedIsDelivered ==
    [][state' = "completed" /\ state # "completed"
         => final = "good" \/ (final = "wrong" /\ stray)]_vars

\* The progress of a job never falls, whatever snapshots its workers and its
\* user write, until a completed job is reopened.
ProgressNeverFalls ==
    [][(done' < done) => state = "completed" /\ state' = "queued"]_vars

\* A cancellation once recorded cannot be undone: neither the user's retry nor a
\* worker with an old snapshot revives the job, and the one other end is the
\* completion that its promotion had won.  Only a request for the same transfer
\* reopens a completed job.
EndIsKept ==
    [][/\ (state = "cancelling") => state' \in {"cancelling", "cancelled", "completed"}
       /\ (state = "cancelled") => state' = "cancelled"
       /\ (state = "completed") => state' = "completed" \/ PersistPlan]_vars

Account == INSTANCE TransferAccount

\* What a reader of the row and of the destination sees is the work of one
\* worker that goes through its stages: the destination is written only from the
\* verification to the report, and by nothing once the job is over, as long as
\* no command is astray.
JobIsAccounted == Account!Spec

\* A job comes to rest in an end state: no crash, lost lease, orphaned command
\* or race between a cancellation and the workers leaves it in the middle.
JobSettles == state \in Active ~> state \in Ended
=============================================================================
