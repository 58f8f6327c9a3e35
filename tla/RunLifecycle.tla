---------------------------- MODULE RunLifecycle ----------------------------
(***************************************************************************)
(* The life of one run: its row in the local database, the launch job that *)
(* makes the launch durable, the goroutine or CLI process that launches    *)
(* it, the user who cancels it, the probes that observe it and the tmux    *)
(* session that executes it on the resource.                               *)
(*                                                                         *)
(* Every access to the database, every SSH command and every use of the    *)
(* launchCancels map is a step of its own; what a process remembers        *)
(* between two steps is explicit (seen, stop, probe).  Runs meet only in   *)
(* the GPU slot check, whose verdict is one of the outcomes of Preflight.  *)
(***************************************************************************)
EXTENDS Naturals, FiniteSets

CONSTANTS
    Servers,      \* `aexp serve` processes opened on this database
    Cli,          \* the CLI or MCP process that may submit the run itself
    Watchers,     \* threads that probe: reconciler, API refresh, CLI status
    Stopper,      \* the thread that executes Cancel
    Submitters,   \* the processes through which the user may submit the run
    CancelHosts,  \* the processes in which Cancel may execute, Cli being any
                  \* process other than the servers
    MaxCrashes    \* bound on the crashes of the servers

ASSUME LifecycleAssumption ==
    /\ IsFiniteSet(Servers) /\ IsFiniteSet(Watchers)
    /\ Cli \notin Servers
    /\ Stopper \notin Watchers
    /\ Submitters \subseteq Servers \cup {Cli}
    /\ CancelHosts \subseteq Servers \cup {Cli}
    /\ MaxCrashes \in Nat

Procs   == Servers \cup {Cli}
Threads == Watchers \cup {Stopper}

\* "lost" stands for lost, container_expired and run_lost_but_events_cached.
Refreshable == {"starting", "running"}
Terminal    == {"succeeded", "failed", "cancelled", "lost"}
Statuses    == {"none", "queued", "preflighting"} \cup Refreshable \cup Terminal

JobOpen   == {"queued", "launching"}
JobClosed == {"succeeded", "blocked", "failed"}

BootPcs   == {"requeue", "list", "scan", "orphan"}
LaunchPcs == {"load", "reserve", "preflight", "inputs", "setup", "starting"}
RemotePcs == {"send", "sent", "running"}
FailPcs   == {"readErr", "readBlk", "markErr", "markBlk"}
ClosePcs  == {"closeSucceeded", "closeBlocked", "closeFailed"}
Pcs == {"idle", "claim", "check", "register"} \cup BootPcs \cup LaunchPcs
         \cup RemotePcs \cup FailPcs \cup ClosePcs

VARIABLES
    status,       \* runs.status
    job,          \* run_launch_jobs.state, "none" without a row
    up,           \* the servers that are alive
    pc,           \* where each process is in launching or resuming the run
    seen,         \* the status a process read and expects in its next write
    aborted,      \* the processes whose launch context is cancelled
    wire,         \* processes whose tmux command has not reached the resource
    remote,       \* the tmux session and the files of the run directory
    result,       \* the exit code: "ok" is 0, "bad" anything else
    starts,       \* history: sessions created, saturating at 2
    stop,         \* the Cancel in progress
    probe,        \* the status probe each thread is making
    crashes

db      == <<status, job>>
launch  == <<pc, seen, aborted>>
machine == <<remote, result, starts>>
vars == <<db, up, launch, wire, machine, stop, probe, crashes>>

SessionAlive == remote \in {"live", "logged", "exited"}
HasExitFile  == remote \in {"exited", "done"}
HasLogLine   == remote \in {"logged", "exited", "done", "cut"}

NoStop  == [at |-> "idle", exp |-> "none", host |-> Cli]
NoProbe == [at |-> "idle", exp |-> "none", sees |-> "none"]

Init ==
    /\ status = "none" /\ job = "none"
    /\ up = {} /\ crashes = 0
    /\ pc = [p \in Procs |-> "idle"]
    /\ seen = [p \in Procs |-> "none"]
    /\ aborted = {} /\ wire = {}
    /\ remote = "absent" /\ result = "none"
    /\ starts = 0
    /\ stop = NoStop
    /\ probe = [t \in Threads |-> NoProbe]

Goto(p, l) == pc' = [pc EXCEPT ![p] = l]

\* What p remembers of the row is set here and dropped once it is used.
Remember(p, st) == seen' = [seen EXCEPT ![p] = st]

\* store.UpdateRunIfStatus: the row changes only if it still has status from.
CAS(from, to) == status' = IF status = from THEN to ELSE status

Serving(s) == s \in up /\ pc[s] \notin BootPcs

\* launchCancels[run] is set in this process's map.
Registered(p) == p \in Servers /\ pc[p] \in LaunchPcs \cup RemotePcs

-----------------------------------------------------------------------------
(* Submission *)

\* The run and its launch job are created in one transaction.
SubmitAsync(s) ==
    /\ s \in Submitters /\ Serving(s) /\ status = "none"
    /\ status' = "queued" /\ job' = "queued"
    /\ Goto(s, "claim")
    /\ UNCHANGED <<up, seen, aborted, wire, machine, stop, probe, crashes>>

\* The CLI and MCP path: no launch job, the caller launches in the foreground.
SubmitVisible ==
    /\ Cli \in Submitters /\ status = "none"
    /\ status' = "queued"
    /\ Goto(Cli, "load")
    /\ UNCHANGED <<job, up, seen, aborted, wire, machine, stop, probe, crashes>>

-----------------------------------------------------------------------------
(* launchPersistedSubmission *)

ClaimRunLaunchJob(s) ==
    /\ pc[s] = "claim"
    /\ IF job = "queued" THEN job' = "launching" /\ Goto(s, "check")
                         ELSE job' = job /\ Goto(s, "idle")
    /\ UNCHANGED <<status, up, seen, aborted, wire, machine, stop, probe, crashes>>

\* Mutants of CheckLaunchable: every unfinished run is launched again; a
\* reclaimed run in preflight counts as launched.
CheckLaunchable_Relaunch(s) ==
    /\ pc[s] = "check"
    /\ Goto(s, IF status \in Terminal THEN "closeFailed" ELSE "register")
    /\ UNCHANGED <<db, up, seen, aborted, wire, machine, stop, probe, crashes>>

CheckLaunchable_Preflighted(s) ==
    /\ pc[s] = "check"
    /\ Goto(s, CASE status \in Refreshable \cup {"succeeded", "preflighting"} -> "closeSucceeded"
                 [] status = "queued" -> "register"
                 [] OTHER             -> "closeFailed")
    /\ UNCHANGED <<db, up, seen, aborted, wire, machine, stop, probe, crashes>>

\* Lifecycle state is authoritative: a started or finished run closes the job.
CheckLaunchable(s) ==
    /\ pc[s] = "check"
    /\ Goto(s, CASE status \in Refreshable \cup {"succeeded"} -> "closeSucceeded"
                 [] status \in {"queued", "preflighting"}     -> "register"
                 [] OTHER                                     -> "closeFailed")
    /\ UNCHANGED <<db, up, seen, aborted, wire, machine, stop, probe, crashes>>

RegisterLaunchCancel(s) ==
    /\ pc[s] = "register"
    /\ Goto(s, "load")
    /\ UNCHANGED <<db, up, seen, aborted, wire, machine, stop, probe, crashes>>

\* The launch context expires after 30 minutes.
LaunchTimeout(s) ==
    /\ Registered(s)
    /\ aborted' = aborted \cup {s}
    /\ UNCHANGED <<db, up, pc, seen, wire, machine, stop, probe, crashes>>

-----------------------------------------------------------------------------
(* SubmitWithOptions for a reserved run *)

\* Leaving SubmitWithOptions with an error: the context is cancelled and the
\* entry of launchCancels deleted before recordLaunchFailure runs.
LaunchError(p, l) == Goto(p, l) /\ aborted' = aborted \ {p}

\* GetRun: whatever status it finds is what the next write expects.
LoadReserved(p) ==
    /\ pc[p] = "load"
    /\ \/ /\ p \notin aborted
          /\ Remember(p, status)
          /\ Goto(p, "reserve") /\ UNCHANGED aborted
       \/ LaunchError(p, "readErr") /\ UNCHANGED seen
    /\ UNCHANGED <<db, up, wire, machine, stop, probe, crashes>>

ReservePreflight(p) ==
    /\ pc[p] = "reserve"
    /\ \/ /\ p \notin aborted /\ status = seen[p]
          /\ status' = "preflighting"
          /\ Goto(p, "preflight") /\ UNCHANGED aborted
       \/ /\ p \in aborted \/ status # seen[p]
          /\ LaunchError(p, "readErr") /\ UNCHANGED status
    /\ Remember(p, "none")
    /\ UNCHANGED <<job, up, wire, machine, stop, probe, crashes>>

\* Sandbox, preemption, GPU slot and provenance checks, then the metadata
\* write that requires the run to be preflighting still.
Preflight(p) ==
    /\ pc[p] = "preflight"
    /\ \/ /\ p \notin aborted /\ status = "preflighting"
          /\ Goto(p, "inputs") /\ UNCHANGED aborted
       \/ \E l \in {"readErr", "readBlk"} : LaunchError(p, l)
    /\ UNCHANGED <<db, up, seen, wire, machine, stop, probe, crashes>>

\* A run without inputs passes even when its context is cancelled.
EnsureInputs(p) ==
    /\ pc[p] = "inputs"
    /\ \/ Goto(p, "setup") /\ UNCHANGED aborted
       \/ LaunchError(p, "readBlk")
    /\ UNCHANGED <<db, up, seen, wire, machine, stop, probe, crashes>>

\* Manifest, wrapper, run directory and command.sh.  An error of the SSH part
\* goes through failSubmission, which expects the run to be preflighting.
SetupRemote(p) ==
    /\ pc[p] = "setup"
    /\ \/ Goto(p, "starting") /\ UNCHANGED <<status, aborted>>
       \/ LaunchError(p, "readErr") /\ UNCHANGED status
       \/ CAS("preflighting", "failed") /\ LaunchError(p, "readErr")
    /\ UNCHANGED <<job, up, seen, wire, machine, stop, probe, crashes>>

MarkStarting(p) ==
    /\ pc[p] = "starting"
    /\ \/ /\ p \notin aborted /\ status = "preflighting"
          /\ status' = "starting"
          /\ Goto(p, "send") /\ UNCHANGED aborted
       \/ /\ p \in aborted \/ status # "preflighting"
          /\ LaunchError(p, "readErr") /\ UNCHANGED status
    /\ UNCHANGED <<job, up, seen, wire, machine, stop, probe, crashes>>

SendTmux(p) ==
    /\ pc[p] = "send"
    /\ wire' = wire \cup {p}
    /\ Goto(p, "sent")
    /\ UNCHANGED <<db, up, seen, aborted, machine, stop, probe, crashes>>

\* exec returns without error: the command has run on the resource.
TmuxReturns(p) ==
    /\ pc[p] = "sent" /\ p \notin wire
    /\ Goto(p, "running")
    /\ UNCHANGED <<db, up, seen, aborted, wire, machine, stop, probe, crashes>>

\* Mutant: the error of exec is only logged.
TmuxFails_Ignored(p) ==
    /\ pc[p] = "sent"
    /\ Goto(p, "running")
    /\ UNCHANGED <<db, up, seen, aborted, wire, machine, stop, probe, crashes>>

\* exec returns an error, whether or not the command has run or will run.
TmuxFails(p) ==
    /\ pc[p] = "sent"
    /\ CAS("starting", "failed")
    /\ LaunchError(p, "readErr")
    /\ UNCHANGED <<job, up, seen, wire, machine, stop, probe, crashes>>

MarkRunning(p) ==
    /\ pc[p] = "running"
    /\ \/ /\ p \notin aborted /\ status = "starting"
          /\ status' = "running"
          /\ Goto(p, IF p = Cli THEN "idle" ELSE "closeSucceeded")
          /\ aborted' = aborted \ {p}
       \/ /\ p \in aborted \/ status # "starting"
          /\ LaunchError(p, "readErr") /\ UNCHANGED status
    /\ UNCHANGED <<job, up, seen, wire, machine, stop, probe, crashes>>

-----------------------------------------------------------------------------
(* recordLaunchFailure and the end of the launch *)

RecordFailureRead(p) ==
    /\ pc[p] \in {"readErr", "readBlk"}
    /\ Remember(p, status)
    /\ Goto(p, IF pc[p] = "readErr" THEN "markErr" ELSE "markBlk")
    /\ UNCHANGED <<db, up, aborted, wire, machine, stop, probe, crashes>>

\* A blocked launch writes failed over whatever it read, terminal or not; any
\* other error leaves a terminal status alone.
RecordFailureWrite(p) ==
    /\ pc[p] \in {"markErr", "markBlk"}
    /\ IF pc[p] = "markBlk" \/ seen[p] \notin Terminal
         THEN CAS(seen[p], "failed")
         ELSE UNCHANGED status
    /\ Goto(p, CASE p = Cli           -> "idle"
                 [] pc[p] = "markBlk" -> "closeBlocked"
                 [] OTHER             -> "closeFailed")
    /\ Remember(p, "none")
    /\ UNCHANGED <<job, up, aborted, wire, machine, stop, probe, crashes>>

\* Mutant: the outcome is stored under the launcher's own name for it.
JobState_Raw(l) == l

JobState(l) == CASE l = "closeSucceeded" -> "succeeded"
                 [] l = "closeBlocked"   -> "blocked"
                 [] l = "closeFailed"    -> "failed"

\* The job's final state is written without looking at the present one.
CompleteLaunchJob(s) ==
    /\ pc[s] \in ClosePcs
    /\ job' = JobState(pc[s])
    /\ Goto(s, "idle")
    /\ UNCHANGED <<status, up, seen, aborted, wire, machine, stop, probe, crashes>>

-----------------------------------------------------------------------------
(* Start and crash of a control plane; the death of a CLI *)

Boot(s) ==
    /\ s \notin up
    /\ up' = up \cup {s}
    /\ Goto(s, "requeue")
    /\ UNCHANGED <<db, seen, aborted, wire, machine, stop, probe, crashes>>

\* Mutant: the jobs a crash interrupted stay launching.
RequeueInterrupted_Skip(s) ==
    /\ pc[s] = "requeue"
    /\ Goto(s, "list")
    /\ UNCHANGED <<db, up, seen, aborted, wire, machine, stop, probe, crashes>>

\* Every launching job is taken for interrupted, whoever is launching it.
RequeueInterrupted(s) ==
    /\ pc[s] = "requeue"
    /\ job' = IF job = "launching" THEN "queued" ELSE job
    /\ Goto(s, "list")
    /\ UNCHANGED <<status, up, seen, aborted, wire, machine, stop, probe, crashes>>

ListPending(s) ==
    /\ pc[s] = "list"
    /\ Goto(s, IF job = "queued" THEN "claim" ELSE "scan")
    /\ UNCHANGED <<db, up, seen, aborted, wire, machine, stop, probe, crashes>>

\* Mutant: only queued runs are looked at.
ScanOrphan_QueuedOnly(s) ==
    /\ pc[s] = "scan"
    /\ IF status = "queued" THEN Remember(s, status) /\ Goto(s, "orphan")
                            ELSE UNCHANGED seen /\ Goto(s, "idle")
    /\ UNCHANGED <<db, up, aborted, wire, machine, stop, probe, crashes>>

\* reconcileOrphanedLocalRuns: a local run without a pending job is an orphan.
ScanOrphan(s) ==
    /\ pc[s] = "scan"
    /\ IF status \in {"queued", "preflighting"}
         THEN Remember(s, status) /\ Goto(s, "orphan")
         ELSE UNCHANGED seen /\ Goto(s, "idle")
    /\ UNCHANGED <<db, up, aborted, wire, machine, stop, probe, crashes>>

MarkOrphan(s) ==
    /\ pc[s] = "orphan"
    /\ CAS(seen[s], "failed")
    /\ Goto(s, "idle") /\ Remember(s, "none")
    /\ UNCHANGED <<job, up, aborted, wire, machine, stop, probe, crashes>>

Crash(s) ==
    /\ s \in up /\ crashes < MaxCrashes
    /\ up' = up \ {s} /\ crashes' = crashes + 1
    /\ Goto(s, "idle") /\ Remember(s, "none") /\ aborted' = aborted \ {s}
    /\ IF stop.host = s
         THEN stop' = NoStop /\ probe' = [probe EXCEPT ![Stopper] = NoProbe]
         ELSE UNCHANGED <<stop, probe>>
    /\ UNCHANGED <<db, wire, machine>>

CliDies ==
    /\ pc[Cli] # "idle"
    /\ Goto(Cli, "idle") /\ Remember(Cli, "none")
    /\ UNCHANGED <<db, up, aborted, wire, machine, stop, probe, crashes>>

-----------------------------------------------------------------------------
(* The resource *)

\* "if [ -f exit_code ] || tmux has-session; then :; else tmux new-session"
TmuxExecutes(p) ==
    /\ p \in wire
    /\ wire' = wire \ {p}
    /\ IF HasExitFile \/ SessionAlive
         THEN UNCHANGED machine
         ELSE /\ remote' = "live" /\ result' = "none"
              /\ starts' = IF starts = 0 THEN 1 ELSE 2
    /\ UNCHANGED <<db, up, launch, stop, probe, crashes>>

\* A command nobody waits for any more may never arrive.
TmuxLost(p) ==
    /\ p \in wire /\ pc[p] # "sent"
    /\ wire' = wire \ {p}
    /\ UNCHANGED <<db, up, launch, machine, stop, probe, crashes>>

\* wrapper.sh: the finish line goes to the logs, then exit_code is written,
\* then the session closes.
CommandEnds ==
    /\ remote = "live"
    /\ remote' = "logged" /\ result' \in {"ok", "bad"}
    /\ UNCHANGED <<db, up, launch, wire, starts, stop, probe, crashes>>

WrapperWritesExit ==
    /\ remote = "logged" /\ remote' = "exited"
    /\ UNCHANGED <<db, up, launch, wire, result, starts, stop, probe, crashes>>

SessionCloses ==
    /\ remote = "exited" /\ remote' = "done"
    /\ UNCHANGED <<db, up, launch, wire, result, starts, stop, probe, crashes>>

\* What is left when the session is killed at this point of the wrapper.
Killed == CASE remote = "live"   -> "killed"
            [] remote = "logged" -> "cut"
            [] remote = "exited" -> "done"
            [] OTHER             -> remote

\* A reboot, an out-of-memory kill or the end of the container.
MachineDies ==
    /\ SessionAlive
    /\ remote' = Killed
    /\ UNCHANGED <<db, up, launch, wire, result, starts, stop, probe, crashes>>

-----------------------------------------------------------------------------
(* A status probe: RefreshRuns and CheckRunStatus *)

\* The thread's probe is over; Cancel continues with the row it leaves.
ProbeDone(t, st) ==
    /\ probe' = [probe EXCEPT ![t] = NoProbe]
    /\ stop' = IF t = Stopper THEN [stop EXCEPT !.at = "probed", !.exp = st] ELSE stop

ProbeRead(t) ==
    /\ probe[t].at = "idle"
    /\ t = Stopper => stop.at = "probe"
    /\ \/ /\ status \in Refreshable
          /\ probe' = [probe EXCEPT ![t] = [at |-> "exit", exp |-> status, sees |-> "none"]]
          /\ UNCHANGED stop
       \/ /\ t = Stopper /\ status \notin Refreshable
          /\ ProbeDone(t, status)
    /\ UNCHANGED <<db, up, launch, wire, machine, crashes>>

Verdict == IF result = "ok" THEN "succeeded" ELSE "failed"

ProbeExitFile(t) ==
    /\ probe[t].at = "exit"
    /\ probe' = [probe EXCEPT ![t].at   = IF HasExitFile THEN "persist" ELSE "session",
                              ![t].sees = IF HasExitFile THEN Verdict ELSE "none"]
    /\ UNCHANGED <<db, up, launch, wire, machine, stop, crashes>>

\* A live session leaves the status as it is.
ProbeSession(t) ==
    /\ probe[t].at = "session"
    /\ \/ /\ SessionAlive
          /\ ProbeDone(t, status)
       \/ /\ ~SessionAlive
          /\ probe' = [probe EXCEPT ![t].at = "logs"] /\ UNCHANGED stop
    /\ UNCHANGED <<db, up, launch, wire, machine, crashes>>

\* resolveGoneRun: the finish line in the logs, or lost; an SSH error while
\* the logs are read counts as no finish line.
ProbeLogs(t) ==
    /\ probe[t].at = "logs"
    /\ \E sees \in {"lost"} \cup IF HasLogLine THEN {Verdict} ELSE {} :
         probe' = [probe EXCEPT ![t].at = "persist", ![t].sees = sees]
    /\ UNCHANGED <<db, up, launch, wire, machine, stop, crashes>>

ProbePersist(t) ==
    /\ probe[t].at = "persist"
    /\ CAS(probe[t].exp, probe[t].sees)
    /\ ProbeDone(t, status')
    /\ UNCHANGED <<job, up, launch, wire, machine, crashes>>

\* The control channel is unreachable: only the observation columns change,
\* and Cancel goes on with the row it had read first.
ProbeFails(t) ==
    /\ probe[t].at \in {"exit", "session"}
    /\ ProbeDone(t, stop.exp)
    /\ UNCHANGED <<db, up, launch, wire, machine, crashes>>

-----------------------------------------------------------------------------
(* Cancel, executed in a server or in a process of its own (host = Cli) *)

StopAt(l) == stop' = IF l = "idle" THEN NoStop ELSE [stop EXCEPT !.at = l]

StopRead(h) ==
    /\ stop.at = "idle" /\ status # "none"
    /\ h \in CancelHosts /\ (h = Cli \/ Serving(h))
    /\ stop' = [at |-> "decide", exp |-> status, host |-> h]
    /\ UNCHANGED <<db, up, launch, wire, machine, probe, crashes>>

\* launchCancels is read after the row; a launch of this process is aborted.
StopDecide ==
    /\ stop.at = "decide"
    /\ \/ /\ \/ stop.exp \in {"queued", "preflighting"}
             \/ stop.exp = "starting" /\ Registered(stop.host)
          /\ aborted' = IF Registered(stop.host) THEN aborted \cup {stop.host} ELSE aborted
          /\ StopAt("casLocal")
       \/ /\ stop.exp \in Refreshable
          /\ ~(stop.exp = "starting" /\ Registered(stop.host))
          /\ StopAt("probe") /\ UNCHANGED aborted
       \/ /\ stop.exp \in Terminal
          /\ StopAt("idle") /\ UNCHANGED aborted
    /\ UNCHANGED <<db, up, pc, seen, wire, machine, probe, crashes>>

StopLocalWrite ==
    /\ stop.at = "casLocal"
    /\ CAS(stop.exp, "cancelled")
    /\ StopAt(IF status = stop.exp THEN "job" ELSE "idle")
    /\ UNCHANGED <<job, up, launch, wire, machine, probe, crashes>>

StopCloseJob ==
    /\ stop.at = "job"
    /\ job' = IF job = "none" THEN "none" ELSE "failed"
    /\ StopAt("idle")
    /\ UNCHANGED <<status, up, launch, wire, machine, probe, crashes>>

StopProbed ==
    /\ stop.at = "probed"
    /\ StopAt(IF stop.exp \in Refreshable THEN "signal" ELSE "idle")
    /\ UNCHANGED <<db, up, launch, wire, machine, probe, crashes>>

\* tmux kill-session
KillSession ==
    /\ SessionAlive
    /\ remote' = Killed
    /\ UNCHANGED <<result, starts>>

\* C-c: the command may ignore it or end and let the wrapper record its exit
\* code; it may die with the wrapper, as when the session is killed because
\* send-keys failed; or no command arrives at all.
StopSignal ==
    /\ stop.at = "signal"
    /\ StopAt("grace")
    /\ \/ UNCHANGED machine
       \/ KillSession
       \/ /\ remote = "live" /\ remote' = "logged" /\ result' \in {"ok", "bad"}
          /\ UNCHANGED starts
    /\ UNCHANGED <<db, up, launch, wire, probe, crashes>>

\* After the grace period a session that is still there is killed.
StopKill ==
    /\ stop.at = "grace"
    /\ StopAt("cas")
    /\ KillSession \/ UNCHANGED machine
    /\ UNCHANGED <<db, up, launch, wire, probe, crashes>>

\* Mutant: the whole row is written without an expected status.
StopWrite_Blind ==
    /\ stop.at = "cas"
    /\ status' = "cancelled"
    /\ StopAt("idle")
    /\ UNCHANGED <<job, up, launch, wire, machine, probe, crashes>>

StopWrite ==
    /\ stop.at = "cas"
    /\ CAS(stop.exp, "cancelled")
    /\ StopAt("idle")
    /\ UNCHANGED <<job, up, launch, wire, machine, probe, crashes>>

-----------------------------------------------------------------------------

LaunchStep(p) ==
    \/ LoadReserved(p) \/ ReservePreflight(p) \/ Preflight(p) \/ EnsureInputs(p)
    \/ SetupRemote(p) \/ MarkStarting(p)
    \/ SendTmux(p) \/ TmuxReturns(p) \/ TmuxFails(p) \/ MarkRunning(p)
    \/ RecordFailureRead(p) \/ RecordFailureWrite(p)

ResumeStep(s) ==
    \/ RequeueInterrupted(s) \/ ListPending(s) \/ ScanOrphan(s) \/ MarkOrphan(s)

JobStep(s) ==
    \/ ClaimRunLaunchJob(s) \/ CheckLaunchable(s) \/ RegisterLaunchCancel(s)
    \/ CompleteLaunchJob(s)

ProbeStep(t) ==
    \/ ProbeRead(t) \/ ProbeExitFile(t) \/ ProbeSession(t) \/ ProbeLogs(t)
    \/ ProbePersist(t)

StopStep ==
    \/ StopDecide \/ StopLocalWrite \/ StopCloseJob \/ StopProbed
    \/ StopSignal \/ StopKill \/ StopWrite

RemoteStep ==
    \/ CommandEnds \/ WrapperWritesExit \/ SessionCloses

Next ==
    \/ SubmitVisible \/ CliDies \/ MachineDies \/ RemoteStep \/ StopStep
    \/ \E s \in Servers : \/ SubmitAsync(s) \/ LaunchTimeout(s)
                          \/ Boot(s) \/ Crash(s) \/ ResumeStep(s) \/ JobStep(s)
    \/ \E p \in Procs : LaunchStep(p) \/ TmuxExecutes(p) \/ TmuxLost(p) \/ StopRead(p)
    \/ \E t \in Threads : ProbeStep(t) \/ ProbeFails(t)

Spec == Init /\ [][Next]_vars

\* A crashed server is started again and its goroutines run; the wrapper makes
\* progress and the command ends; a probe repeated for ever is answered.
Fairness ==
    /\ \A s \in Servers : /\ WF_vars(Boot(s))
                          /\ WF_vars(ResumeStep(s) \/ JobStep(s) \/ LaunchStep(s))
    /\ WF_vars(RemoteStep)
    /\ \A t \in Watchers : /\ WF_vars(ProbeRead(t) \/ ProbeLogs(t) \/ ProbePersist(t))
                           /\ SF_vars(ProbeExitFile(t)) /\ SF_vars(ProbeSession(t))

FairSpec == Spec /\ Fairness

-----------------------------------------------------------------------------
(* Properties *)

TypeOK ==
    /\ status \in Statuses /\ job \in {"none"} \cup JobOpen \cup JobClosed
    /\ up \subseteq Servers /\ aborted \subseteq Procs /\ wire \subseteq Procs
    /\ pc \in [Procs -> Pcs] /\ seen \in [Procs -> Statuses]
    /\ remote \in {"absent", "live", "logged", "exited", "done", "killed", "cut"}
    /\ result \in {"none", "ok", "bad"}
    /\ starts \in 0..2 /\ crashes \in 0..MaxCrashes
    /\ stop \in [at : {"idle", "decide", "casLocal", "job", "probe", "probed",
                       "signal", "grace", "cas"},
                 exp : Statuses, host : Procs]
    /\ probe \in [Threads -> [at : {"idle", "exit", "session", "logs", "persist"},
                              exp : Statuses, sees : {"none"} \cup Terminal]]

\* However often the control plane crashes and resumes, and whatever Cancel
\* and the probes do meanwhile, the command is executed at most once
\* (ResumePendingSubmissions: "idempotent by tmux session identity").
AtMostOneStart == starts <= 1

\* A run is reported running only after its session was created, and reported
\* succeeded only if its command ended with exit code 0.
VerdictMatchesExit ==
    /\ status \in {"running", "succeeded"} => starts > 0
    /\ status = "succeeded" => result = "ok"

\* A launch job reported succeeded has handed its run over: the run is never
\* again a local one that nobody will launch.
LaunchedIsHandedOver == job = "succeeded" => status \notin {"queued", "preflighting"}

\* Once its command has started, a run that became terminal stays what it is:
\* no snapshot read earlier by a launcher, a probe or Cancel overwrites it.
StartedVerdictIsFinal ==
    [][starts > 0 /\ status \in Terminal => status' = status]_vars

\* The row of a run is an account of one execution, whatever launches, probes,
\* cancellations and crashes interleave: what RunAccount promises.
Account == INSTANCE RunAccount

RunIsAccounted == Account!Spec

\* A launch job is never forgotten: through crashes at any step of the launch
\* and of the resumption, an open job is closed in the end.
LaunchJobCloses == job \in JobOpen ~> job \in JobClosed

\* A run submitted through the control plane does not stay in between: also
\* when a crash leaves it between two steps of its launch with its job closed,
\* and when a launch revives it after its cancellation, it reaches a terminal
\* status.
AsyncRunSettles == status \notin Terminal /\ job # "none" ~> status \in Terminal

-----------------------------------------------------------------------------
(* What the documents say and the code does not keep *)

\* launchPersistedSubmission: "never relaunch a run that is already
\* observable remotely".
ObservableIsNotRelaunched ==
    [][(status \in Refreshable) => status' \notin {"queued", "preflighting"}]_vars
=============================================================================
