------------------------- MODULE RunLifecycleProofs -------------------------
(***************************************************************************)
(* Theorems about RunLifecycle for every set of processes and every bound: *)
(* its types and, for one control plane, that the command is executed at   *)
(* most once, that the verdict is true and written once, what a succeeded  *)
(* launch job promises, and that the module implements RunAccount.         *)
(***************************************************************************)
EXTENDS RunLifecycle, TLAPS

-----------------------------------------------------------------------------
(* Type correctness *)

LEMMA InitTypeOK == Init => TypeOK
<1> SUFFICES ASSUME Init PROVE TypeOK
  OBVIOUS
<1> USE DEF Init, Procs, Statuses
<1>1. stop \in [at : {"idle", "decide", "casLocal", "job", "probe", "probed",
                      "signal", "grace", "cas"},
                exp : Statuses, host : Procs]
  BY DEF NoStop
<1>2. probe \in [Threads -> [at : {"idle", "exit", "session", "logs", "persist"},
                             exp : Statuses, sees : {"none"} \cup Terminal]]
  BY DEF NoProbe
<1>3. pc \in [Procs -> Pcs] /\ seen \in [Procs -> Statuses]
  BY DEF Pcs
<1>4. starts \in 0..2 /\ crashes \in 0..MaxCrashes
  BY LifecycleAssumption
<1> QED
  BY <1>1, <1>2, <1>3, <1>4 DEF TypeOK

\* The vocabulary every type obligation needs.
LEMMA LaunchType ==
  ASSUME TypeOK, NEW p \in Procs, LaunchStep(p)
  PROVE  TypeOK'
<1> USE DEF TypeOK, Statuses, Refreshable, Terminal, Pcs, LaunchPcs, RemotePcs, FailPcs,
            ClosePcs, BootPcs, Goto, Remember, CAS, LaunchError, machine, db
<1>1. CASE LoadReserved(p)       BY <1>1 DEF LoadReserved
<1>2. CASE ReservePreflight(p)   BY <1>2 DEF ReservePreflight
<1>3. CASE Preflight(p)          BY <1>3 DEF Preflight
<1>4. CASE EnsureInputs(p)       BY <1>4 DEF EnsureInputs
<1>5. CASE SetupRemote(p)        BY <1>5 DEF SetupRemote
<1>6. CASE MarkStarting(p)       BY <1>6 DEF MarkStarting
<1>7. CASE SendTmux(p)           BY <1>7 DEF SendTmux
<1>8. CASE TmuxReturns(p)        BY <1>8 DEF TmuxReturns
<1>9. CASE TmuxFails(p)          BY <1>9 DEF TmuxFails
<1>10. CASE MarkRunning(p)       BY <1>10 DEF MarkRunning
<1>11. CASE RecordFailureRead(p) BY <1>11 DEF RecordFailureRead
<1>12. CASE RecordFailureWrite(p) BY <1>12 DEF RecordFailureWrite
<1> QED BY <1>1, <1>2, <1>3, <1>4, <1>5, <1>6, <1>7, <1>8, <1>9, <1>10, <1>11, <1>12
        DEF LaunchStep

LEMMA ControlPlaneType ==
  ASSUME TypeOK, NEW s \in Servers,
         SubmitAsync(s) \/ LaunchTimeout(s) \/ Boot(s) \/ Crash(s)
           \/ ResumeStep(s) \/ JobStep(s)
  PROVE  TypeOK'
<1> USE DEF TypeOK, Procs, Statuses, Refreshable, Terminal, Pcs, BootPcs, ClosePcs,
            JobOpen, JobClosed, Goto, Remember, CAS, machine, db
<1>1. CASE SubmitAsync(s)   BY <1>1 DEF SubmitAsync
<1>2. CASE LaunchTimeout(s) BY <1>2 DEF LaunchTimeout
<1>3. CASE Boot(s)          BY <1>3 DEF Boot
<1>4. CASE Crash(s)
  <2>1. crashes' \in 0..MaxCrashes
    BY <1>4, LifecycleAssumption DEF Crash
  <2>2. Stopper \in Threads
    BY DEF Threads
  <2>3. stop' \in [at : {"idle", "decide", "casLocal", "job", "probe", "probed",
                         "signal", "grace", "cas"}, exp : Statuses, host : Procs]
    BY <1>4 DEF Crash, NoStop
  <2>4. probe' \in [Threads -> [at : {"idle", "exit", "session", "logs", "persist"},
                                exp : Statuses, sees : {"none"} \cup Terminal]]
    BY <1>4, <2>2 DEF Crash, NoProbe
  <2> QED BY <1>4, <2>1, <2>3, <2>4 DEF Crash
<1>5. CASE ResumeStep(s)
  <2>1. CASE RequeueInterrupted(s) BY <2>1 DEF RequeueInterrupted
  <2>2. CASE ListPending(s)        BY <2>2 DEF ListPending
  <2>3. CASE ScanOrphan(s)         BY <2>3 DEF ScanOrphan
  <2>4. CASE MarkOrphan(s)         BY <2>4 DEF MarkOrphan
  <2> QED BY <1>5, <2>1, <2>2, <2>3, <2>4 DEF ResumeStep
<1>6. CASE JobStep(s)
  <2>1. CASE ClaimRunLaunchJob(s)    BY <2>1 DEF ClaimRunLaunchJob
  <2>2. CASE CheckLaunchable(s)      BY <2>2 DEF CheckLaunchable
  <2>3. CASE RegisterLaunchCancel(s) BY <2>3 DEF RegisterLaunchCancel, LaunchPcs
  <2>4. CASE CompleteLaunchJob(s)    BY <2>4 DEF CompleteLaunchJob, JobState
  <2> QED BY <1>6, <2>1, <2>2, <2>3, <2>4 DEF JobStep
<1> QED BY <1>1, <1>2, <1>3, <1>4, <1>5, <1>6

LEMMA ResourceType ==
  ASSUME TypeOK,
         SubmitVisible \/ CliDies \/ MachineDies \/ RemoteStep
           \/ \E p \in Procs : TmuxExecutes(p) \/ TmuxLost(p)
  PROVE  TypeOK'
<1> USE DEF TypeOK, Procs, Statuses, Pcs, Goto, Remember, machine, launch, db
<1>1. CASE SubmitVisible BY <1>1 DEF SubmitVisible, LaunchPcs
<1>2. CASE CliDies       BY <1>2 DEF CliDies
<1>3. CASE MachineDies   BY <1>3 DEF MachineDies, Killed
<1>4. CASE RemoteStep
  <2>1. CASE CommandEnds       BY <2>1 DEF CommandEnds
  <2>2. CASE WrapperWritesExit BY <2>2 DEF WrapperWritesExit
  <2>3. CASE SessionCloses     BY <2>3 DEF SessionCloses
  <2> QED BY <1>4, <2>1, <2>2, <2>3 DEF RemoteStep
<1>5. CASE \E p \in Procs : TmuxExecutes(p)
  <2>1. CASE HasExitFile \/ SessionAlive BY <1>5, <2>1 DEF TmuxExecutes
  <2>2. CASE ~(HasExitFile \/ SessionAlive)
    <3>1. remote' = "live" /\ result' = "none" /\ starts' \in {1, 2}
      BY <1>5, <2>2 DEF TmuxExecutes
    <3> QED BY <1>5, <3>1 DEF TmuxExecutes
  <2> QED BY <2>1, <2>2
<1>6. CASE \E p \in Procs : TmuxLost(p)     BY <1>6 DEF TmuxLost
<1> QED BY <1>1, <1>2, <1>3, <1>4, <1>5, <1>6

LEMMA ProbeDoneType ==
  ASSUME TypeOK, NEW t \in Threads, NEW st \in Statuses, ProbeDone(t, st)
  PROVE  /\ stop' \in [at : {"idle", "decide", "casLocal", "job", "probe", "probed",
                             "signal", "grace", "cas"}, exp : Statuses, host : Procs]
         /\ probe' \in [Threads -> [at : {"idle", "exit", "session", "logs", "persist"},
                                    exp : Statuses, sees : {"none"} \cup Terminal]]
<1>1. NoProbe \in [at : {"idle", "exit", "session", "logs", "persist"},
                   exp : Statuses, sees : {"none"} \cup Terminal]
  BY DEF NoProbe, Statuses
<1> QED BY <1>1 DEF ProbeDone, TypeOK

LEMMA ProbeType ==
  ASSUME TypeOK, NEW t \in Threads, ProbeStep(t) \/ ProbeFails(t)
  PROVE  TypeOK'
<1> USE DEF TypeOK, db, launch, machine
<1>1. CASE ProbeRead(t)
  <2>1. CASE status \in Refreshable
    BY <1>1, <2>1 DEF ProbeRead, Statuses
  <2>2. CASE status \notin Refreshable
    BY <1>1, <2>2, ProbeDoneType DEF ProbeRead
  <2> QED BY <2>1, <2>2
<1>2. CASE ProbeExitFile(t)
  <2>1. PICK at \in {"persist", "session"}, sees \in {"none"} \cup Terminal :
          probe' = [probe EXCEPT ![t].at = at, ![t].sees = sees]
    BY <1>2 DEF ProbeExitFile, Verdict, Terminal
  <2>2. probe' \in [Threads -> [at : {"idle", "exit", "session", "logs", "persist"},
                                exp : Statuses, sees : {"none"} \cup Terminal]]
    BY <2>1
  <2> QED BY <1>2, <2>2 DEF ProbeExitFile
<1>3. CASE ProbeSession(t)
  <2>1. CASE SessionAlive  BY <1>3, <2>1, ProbeDoneType DEF ProbeSession
  <2>2. CASE ~SessionAlive BY <1>3, <2>2 DEF ProbeSession
  <2> QED BY <2>1, <2>2
<1>4. CASE ProbeLogs(t)
  <2>1. {"lost"} \cup (IF HasLogLine THEN {Verdict} ELSE {}) \subseteq {"none"} \cup Terminal
    BY DEF Verdict, Terminal
  <2>2. PICK sees \in {"none"} \cup Terminal :
          probe' = [probe EXCEPT ![t].at = "persist", ![t].sees = sees]
    BY <1>4, <2>1 DEF ProbeLogs
  <2>3. probe' \in [Threads -> [at : {"idle", "exit", "session", "logs", "persist"},
                                exp : Statuses, sees : {"none"} \cup Terminal]]
    BY <2>2
  <2> QED BY <1>4, <2>3 DEF ProbeLogs
<1>5. CASE ProbePersist(t)
  <2>1. status' \in Statuses
    BY <1>5 DEF ProbePersist, CAS, Statuses, Terminal
  <2> QED BY <1>5, <2>1, ProbeDoneType DEF ProbePersist
<1>6. CASE ProbeFails(t)
  <2>1. stop.exp \in Statuses OBVIOUS
  <2> QED BY <1>6, <2>1, ProbeDoneType DEF ProbeFails
<1> QED BY <1>1, <1>2, <1>3, <1>4, <1>5, <1>6 DEF ProbeStep

LEMMA StopType ==
  ASSUME TypeOK, StopStep \/ \E p \in Procs : StopRead(p)
  PROVE  TypeOK'
<1> USE DEF TypeOK, Procs, Statuses, Terminal, StopAt, NoStop, CAS, db, launch
<1>1. CASE \E p \in Procs : StopRead(p) BY <1>1 DEF StopRead, machine
<1>2. CASE StopDecide     BY <1>2 DEF StopDecide, machine
<1>3. CASE StopLocalWrite BY <1>3 DEF StopLocalWrite, machine
<1>4. CASE StopCloseJob   BY <1>4 DEF StopCloseJob, JobClosed, machine
<1>5. CASE StopProbed     BY <1>5 DEF StopProbed, machine
<1>6. ASSUME KillSession \/ UNCHANGED machine
      PROVE  /\ remote' \in {"absent", "live", "logged", "exited", "done", "killed", "cut"}
             /\ result' \in {"none", "ok", "bad"}
             /\ starts' \in 0..2
  <2>1. CASE UNCHANGED machine BY <2>1 DEF machine
  <2>2. CASE KillSession BY <2>2 DEF KillSession, Killed
  <2> QED BY <1>6, <2>1, <2>2
<1>7. CASE StopSignal
  <2>1. CASE KillSession \/ UNCHANGED machine
    BY <1>6, <1>7, <2>1 DEF StopSignal
  <2>2. CASE ~(KillSession \/ UNCHANGED machine)
    BY <1>7, <2>2 DEF StopSignal
  <2> QED BY <2>1, <2>2
<1>9. CASE StopKill BY <1>6, <1>9 DEF StopKill
<1>8. CASE StopWrite      BY <1>8 DEF StopWrite, machine
<1> QED BY <1>1, <1>2, <1>3, <1>4, <1>5, <1>7, <1>8, <1>9 DEF StopStep

LEMMA NextTypeOK == TypeOK /\ [Next]_vars => TypeOK'
<1> SUFFICES ASSUME TypeOK, [Next]_vars PROVE TypeOK'
  OBVIOUS
<1>1. CASE UNCHANGED vars
  BY <1>1 DEF TypeOK, vars, db, launch, machine
<1>2. CASE Next
  BY <1>2, LaunchType, ControlPlaneType, ResourceType, ProbeType, StopType DEF Next
<1> QED BY <1>1, <1>2

\* Every variable of the run's life keeps its type, for any set of servers,
\* watchers, submitters and any number of crashes.
THEOREM TypeCorrect == Spec => []TypeOK
<1> QED BY InitTypeOK, NextTypeOK, PTL DEF Spec

-----------------------------------------------------------------------------
(* At most one execution, under one control plane.  The inductive            *)
(* invariant: only one process can be launching the run, and from the moment *)
(* it writes starting no process is at a step before that write any more.    *)

OneServer == \A s, u \in Servers : s = u

PreLaunch == LaunchPcs \cup {"register"}
BlkPcs    == {"readBlk", "markBlk"}

\* The launch has crossed the point where a second launch would be a second
\* execution: a tmux command is about to be sent, travels or was executed.
Committed == starts > 0 \/ wire # {} \/ \E p \in Procs : pc[p] \in RemotePcs

Unsubmitted ==
    status = "none" => /\ job = "none" /\ ~Committed
                       /\ \A p \in Procs : pc[p] \in BootPcs \cup {"idle"}
                       /\ pc[Cli] = "idle"

OneLauncher ==
    /\ pc[Cli] # "idle" => job = "none"
    /\ job = "none" => \A s \in Servers : pc[s] \in BootPcs \cup {"idle"}

CommittedIsPast ==
    Committed => /\ status \in Refreshable \cup Terminal
                 /\ \A p \in Procs : pc[p] \notin PreLaunch \cup BlkPcs

OneCommand ==
    /\ \A p \in Procs : pc[p] = "send" => starts = 0 /\ wire = {}
    /\ wire # {} => starts = 0
    /\ \A p, q \in wire : p = q
    /\ starts \in {0, 1}

LaunchInv == TypeOK /\ Unsubmitted /\ OneLauncher /\ CommittedIsPast /\ OneCommand

LEMMA InitLaunchInv == Init => LaunchInv
<1> SUFFICES ASSUME Init PROVE LaunchInv
  OBVIOUS
<1>1. ~Committed
  BY DEF Init, Committed, RemotePcs
<1> QED
  BY <1>1, InitTypeOK
  DEF Init, LaunchInv, Unsubmitted, OneLauncher, CommittedIsPast, OneCommand, Procs

\* Two processes are never both past the claim of the launch.
LEMMA Exclusive ==
  ASSUME OneServer, LaunchInv, NEW p \in Procs, NEW q \in Procs,
         pc[p] \notin BootPcs \cup {"idle"}, pc[q] \notin BootPcs \cup {"idle"}
  PROVE  p = q
  BY DEF OneServer, LaunchInv, OneLauncher, Procs, BootPcs

\* Steps that touch neither the launchers nor the wire, and change the status
\* at most to a terminal one: probes, Cancel and the resource.
LEMMA QuietLaunchInv ==
  ASSUME LaunchInv, TypeOK', UNCHANGED <<pc, wire, starts>>,
         job = "none" <=> job' = "none", status' \in {status} \cup Terminal
  PROVE  LaunchInv'
<1>1. Committed' <=> Committed
  BY DEF Committed
<1>2. status' = "none" => status = "none"
  BY DEF Terminal
<1> QED
  BY <1>1, <1>2 DEF LaunchInv, Unsubmitted, OneLauncher, CommittedIsPast, OneCommand

LEMMA ProbeQuiet ==
  ASSUME NEW t \in Threads, ProbeStep(t) \/ ProbeFails(t),
         probe[t].at = "persist" => probe[t].sees \in Terminal
  PROVE  UNCHANGED <<pc, wire, starts, job>> /\ status' \in {status} \cup Terminal
<1> USE DEF db, launch, machine
<1>1. CASE ProbePersist(t)
  BY <1>1 DEF ProbePersist, CAS
<1> QED
  BY <1>1 DEF ProbeStep, ProbeRead, ProbeExitFile, ProbeSession, ProbeLogs, ProbeFails

LEMMA StopQuiet ==
  ASSUME StopStep \/ \E p \in Procs : StopRead(p)
  PROVE  /\ UNCHANGED <<pc, wire, starts>> /\ status' \in {status} \cup Terminal
         /\ job = "none" <=> job' = "none"
<1> USE DEF db, launch, machine, Terminal
<1>1. CASE StopLocalWrite BY <1>1 DEF StopLocalWrite, CAS
<1>2. CASE StopWrite      BY <1>2 DEF StopWrite, CAS
<1>3. CASE StopCloseJob   BY <1>3 DEF StopCloseJob
<1>4. CASE StopSignal     BY <1>4 DEF StopSignal, KillSession
<1>5. CASE StopKill       BY <1>5 DEF StopKill, KillSession
<1>6. CASE StopDecide     BY <1>6 DEF StopDecide
<1>7. CASE StopProbed     BY <1>7 DEF StopProbed
<1>8. CASE \E p \in Procs : StopRead(p) BY <1>8 DEF StopRead
<1> QED BY <1>1, <1>2, <1>3, <1>4, <1>5, <1>6, <1>7, <1>8 DEF StopStep

\* Steps in which one launcher moves without coming closer to the resource.
LEMMA MoveLaunchInv ==
  ASSUME LaunchInv, TypeOK', NEW p \in Procs, UNCHANGED <<wire, starts>>,
         NEW l \in Pcs \ (PreLaunch \cup BlkPcs \cup RemotePcs), Goto(p, l),
         pc[p] \in BootPcs \cup {"idle"} =>
             l \in BootPcs \cup {"idle"} \/ job # "none",
         p = Cli => pc[p] # "idle",
         job = "none" <=> job' = "none",
         status' \in {status} \cup Refreshable \cup Terminal
  PROVE  LaunchInv'
<1>1. pc' = [pc EXCEPT ![p] = l] /\ pc \in [Procs -> Pcs]
  BY DEF Goto, LaunchInv, TypeOK
<1>2. Committed' => Committed
  BY <1>1 DEF Committed
<1>3. status' = "none" => status = "none"
  BY DEF Refreshable, Terminal
<1>4. Unsubmitted'
  BY <1>1, <1>2, <1>3 DEF LaunchInv, Unsubmitted
<1>5. OneLauncher'
  BY <1>1 DEF LaunchInv, OneLauncher, Procs
<1>6. CommittedIsPast'
  BY <1>1, <1>2 DEF LaunchInv, CommittedIsPast
<1>7. OneCommand'
  BY <1>1 DEF LaunchInv, OneCommand, RemotePcs
<1> QED BY <1>4, <1>5, <1>6, <1>7 DEF LaunchInv

\* Steps of a launcher before the write of starting, an abort for a blocked
\* launch included: nobody has committed to an execution yet.
LEMMA PreLaunchInv ==
  ASSUME LaunchInv, TypeOK', NEW p \in Procs, ~Committed,
         pc[p] \notin BootPcs \cup {"idle"},
         NEW l \in PreLaunch \cup BlkPcs, Goto(p, l),
         UNCHANGED <<wire, starts, job>>, status' # "none"
  PROVE  LaunchInv'
<1>1. pc' = [pc EXCEPT ![p] = l] /\ pc \in [Procs -> Pcs]
  BY DEF Goto, LaunchInv, TypeOK
<1>2. ~Committed'
  BY <1>1
  DEF Committed, PreLaunch, BlkPcs, LaunchPcs, RemotePcs
<1>3. OneLauncher'
  BY <1>1 DEF LaunchInv, OneLauncher, Procs
<1>4. OneCommand'
  BY <1>1 DEF LaunchInv, OneCommand, PreLaunch, BlkPcs, LaunchPcs, Committed
<1> QED BY <1>2, <1>3, <1>4 DEF LaunchInv, Unsubmitted, CommittedIsPast

\* The launcher, its steps up to the write of starting.
LEMMA BeforeStartInv ==
  ASSUME OneServer, LaunchInv, TypeOK', NEW p \in Procs,
         LoadReserved(p) \/ ReservePreflight(p) \/ Preflight(p)
           \/ EnsureInputs(p) \/ SetupRemote(p)
  PROVE  LaunchInv'
<1>1. pc[p] \in PreLaunch
  BY DEF LoadReserved, ReservePreflight, Preflight, EnsureInputs, SetupRemote,
         PreLaunch, LaunchPcs
<1>2. pc[p] \notin BootPcs \cup {"idle"} /\ status # "none"
  BY <1>1 DEF PreLaunch, LaunchPcs, BootPcs, LaunchInv, Unsubmitted
<1>3. UNCHANGED <<wire, starts, job>>
  BY DEF LoadReserved, ReservePreflight, Preflight, EnsureInputs, SetupRemote,
         machine, db
<1>4. status' \in {status, "preflighting", "failed"}
  BY DEF LoadReserved, ReservePreflight, Preflight, EnsureInputs, SetupRemote, CAS, db
<1>5. \E l \in PreLaunch \cup BlkPcs \cup {"readErr"} : Goto(p, l)
  BY DEF LoadReserved, ReservePreflight, Preflight, EnsureInputs, SetupRemote,
         LaunchError, PreLaunch, LaunchPcs, BlkPcs
<1>6. PICK l \in PreLaunch \cup BlkPcs \cup {"readErr"} : Goto(p, l)
  BY <1>5
<1>7. CASE l \in PreLaunch \cup BlkPcs
  <2>1. ~Committed
    BY <1>1 DEF LaunchInv, CommittedIsPast
  <2> QED BY <1>2, <1>3, <1>4, <1>6, <1>7, <2>1, PreLaunchInv
<1>8. CASE l = "readErr"
  <2>1. status' = "preflighting" => l # "readErr" \/ status' = status
    BY <1>6 DEF LoadReserved, ReservePreflight, Preflight, EnsureInputs, SetupRemote,
                LaunchError, CAS, Goto, LaunchInv, TypeOK, db
  <2>2. status' \in {status} \cup Terminal
    BY <1>4, <1>8, <2>1 DEF Terminal
  <2>3. l \in Pcs \ (PreLaunch \cup BlkPcs \cup RemotePcs)
    BY <1>8 DEF Pcs, FailPcs, PreLaunch, LaunchPcs, BlkPcs, RemotePcs
  <2> QED BY <1>2, <1>3, <1>6, <2>2, <2>3, MoveLaunchInv
<1> QED BY <1>6, <1>7, <1>8
\* The launcher, from the write of starting on.
LEMMA MarkStartingInv ==
  ASSUME OneServer, LaunchInv, TypeOK', NEW p \in Procs, MarkStarting(p)
  PROVE  LaunchInv'
<1>1. pc[p] = "starting" /\ UNCHANGED <<wire, starts, job>>
  BY DEF MarkStarting, machine
<1>2. pc \in [Procs -> Pcs]
  BY DEF LaunchInv, TypeOK
<1>3. CASE status' = "starting" /\ Goto(p, "send")
  <2>1. ~Committed /\ starts = 0 /\ wire = {}
    BY <1>1, SMT DEF LaunchInv, CommittedIsPast, Committed, PreLaunch, LaunchPcs, TypeOK
  <2>2. \A q \in Procs : q # p => pc[q] \in BootPcs \cup {"idle"}
    BY <1>1, Exclusive DEF BootPcs
  <2>3. pc' = [pc EXCEPT ![p] = "send"]
    BY <1>3 DEF Goto
  <2>4. \A q \in Procs : pc'[q] \in {"send", "idle"} \cup BootPcs
    BY <1>2, <2>2, <2>3
  <2>5. OneLauncher'
    BY <1>1, <1>2, <2>3 DEF LaunchInv, OneLauncher, Procs, BootPcs
  <2>6. CommittedIsPast'
    BY <1>3, <2>4 DEF CommittedIsPast, Refreshable, PreLaunch, LaunchPcs, BlkPcs, BootPcs
  <2>7. OneCommand'
    BY <1>1, <2>1 DEF OneCommand
  <2> QED BY <1>3, <2>5, <2>6, <2>7 DEF LaunchInv, Unsubmitted
<1>4. CASE status' = status /\ Goto(p, "readErr")
  <2>1. "readErr" \in Pcs \ (PreLaunch \cup BlkPcs \cup RemotePcs)
    BY DEF Pcs, FailPcs, PreLaunch, LaunchPcs, BlkPcs, RemotePcs
  <2> QED BY <1>1, <1>4, <2>1, MoveLaunchInv DEF BootPcs
<1> QED BY <1>3, <1>4 DEF MarkStarting, LaunchError

LEMMA SendTmuxInv ==
  ASSUME OneServer, LaunchInv, TypeOK', NEW p \in Procs, SendTmux(p)
  PROVE  LaunchInv'
<1>1. /\ pc[p] = "send" /\ UNCHANGED <<starts, status, job>>
      /\ wire' = wire \cup {p} /\ pc' = [pc EXCEPT ![p] = "sent"]
  BY DEF SendTmux, Goto, machine, db
<1>2. pc \in [Procs -> Pcs]
  BY DEF LaunchInv, TypeOK
<1>3. \A q \in Procs : q # p => pc[q] \in BootPcs \cup {"idle"}
  BY <1>1, Exclusive DEF BootPcs
<1>4. starts = 0 /\ wire = {} /\ Committed
  BY <1>1 DEF LaunchInv, OneCommand, Committed, RemotePcs
<1>5. \A q \in Procs : pc'[q] \in {"sent", "idle"} \cup BootPcs
  BY <1>1, <1>2, <1>3
<1>6. OneLauncher'
  BY <1>1, <1>2 DEF LaunchInv, OneLauncher, Procs, BootPcs
<1>7. CommittedIsPast'
  BY <1>1, <1>4, <1>5
  DEF LaunchInv, CommittedIsPast, PreLaunch, LaunchPcs, BlkPcs, BootPcs
<1>8. OneCommand'
  BY <1>1, <1>4, <1>5 DEF OneCommand, BootPcs
<1>9. status # "none"
  BY <1>4 DEF LaunchInv, Unsubmitted
<1> QED BY <1>1, <1>6, <1>7, <1>8, <1>9 DEF LaunchInv, Unsubmitted

LEMMA TmuxReturnsInv ==
  ASSUME LaunchInv, TypeOK', NEW p \in Procs, TmuxReturns(p)
  PROVE  LaunchInv'
<1>1. /\ pc[p] = "sent" /\ UNCHANGED <<starts, wire, status, job>>
      /\ pc' = [pc EXCEPT ![p] = "running"]
  BY DEF TmuxReturns, Goto, machine, db
<1>2. pc \in [Procs -> Pcs]
  BY DEF LaunchInv, TypeOK
<1>3. Committed
  BY <1>1 DEF Committed, RemotePcs
<1>4. OneLauncher'
  BY <1>1, <1>2 DEF LaunchInv, OneLauncher, Procs, BootPcs
<1>5. CommittedIsPast'
  BY <1>1, <1>2, <1>3 DEF LaunchInv, CommittedIsPast, PreLaunch, LaunchPcs, BlkPcs
<1>6. OneCommand'
  BY <1>1, <1>2 DEF LaunchInv, OneCommand
<1>7. status # "none"
  BY <1>3 DEF LaunchInv, Unsubmitted
<1> QED BY <1>1, <1>4, <1>5, <1>6, <1>7 DEF LaunchInv, Unsubmitted

LEMMA AfterStartInv ==
  ASSUME LaunchInv, TypeOK', NEW p \in Procs,
         TmuxFails(p) \/ MarkRunning(p)
           \/ RecordFailureRead(p) \/ RecordFailureWrite(p)
  PROVE  LaunchInv'
<1>1. pc[p] \in RemotePcs \cup FailPcs /\ pc[p] \notin BootPcs \cup {"idle"}
  BY DEF TmuxFails, MarkRunning, RecordFailureRead, RecordFailureWrite,
         RemotePcs, FailPcs, BootPcs
<1>2. UNCHANGED <<wire, starts, job>>
  BY DEF TmuxFails, MarkRunning, RecordFailureRead, RecordFailureWrite, machine, db
<1>3. status' \in {status, "running", "failed"}
  BY DEF TmuxFails, MarkRunning, RecordFailureRead, RecordFailureWrite, CAS, db
<1>4. CASE pc[p] = "readBlk" /\ Goto(p, "markBlk")
  <2>1. ~Committed /\ status # "none"
    BY <1>1, <1>4 DEF BlkPcs, LaunchInv, Unsubmitted, CommittedIsPast
  <2>2. status' # "none"
    BY <1>3, <2>1
  <2> QED BY <1>1, <1>2, <1>4, <2>1, <2>2, PreLaunchInv DEF BlkPcs
<1>5. CASE \E l \in {"readErr", "markErr", "idle"} \cup ClosePcs : Goto(p, l)
  <2>1. PICK l \in {"readErr", "markErr", "idle"} \cup ClosePcs : Goto(p, l)
    BY <1>5
  <2>2. l \in Pcs \ (PreLaunch \cup BlkPcs \cup RemotePcs)
    BY DEF Pcs, FailPcs, ClosePcs, PreLaunch, LaunchPcs, BlkPcs, RemotePcs
  <2>3. status' \in {status} \cup Refreshable \cup Terminal
    BY <1>3 DEF Refreshable, Terminal
  <2> QED BY <1>1, <1>2, <2>1, <2>2, <2>3, MoveLaunchInv
<1> QED
  BY <1>4, <1>5
  DEF TmuxFails, MarkRunning, RecordFailureRead, RecordFailureWrite, LaunchError, ClosePcs

LEMMA LaunchStepInv ==
  ASSUME OneServer, LaunchInv, TypeOK', NEW p \in Procs, LaunchStep(p)
  PROVE  LaunchInv'
<1>1. CASE LoadReserved(p) \/ ReservePreflight(p) \/ Preflight(p)
             \/ EnsureInputs(p) \/ SetupRemote(p)
  BY <1>1, BeforeStartInv
<1>2. CASE MarkStarting(p) BY <1>2, MarkStartingInv
<1>3. CASE SendTmux(p)     BY <1>3, SendTmuxInv
<1>4. CASE TmuxReturns(p)  BY <1>4, TmuxReturnsInv
<1>5. CASE TmuxFails(p) \/ MarkRunning(p)
             \/ RecordFailureRead(p) \/ RecordFailureWrite(p)
  BY <1>5, AfterStartInv
<1> QED BY <1>1, <1>2, <1>3, <1>4, <1>5 DEF LaunchStep
\* Submission, the launch job, start and crash of a control plane.
LEMMA ControlPlaneInv ==
  ASSUME LaunchInv, TypeOK',
         \/ SubmitVisible \/ CliDies
         \/ \E s \in Servers : \/ SubmitAsync(s) \/ LaunchTimeout(s)
                               \/ Boot(s) \/ Crash(s) \/ ResumeStep(s) \/ JobStep(s)
  PROVE  LaunchInv'
<1> USE DEF db, machine
<1>1. ASSUME NEW p \in Procs, UNCHANGED <<wire, starts>>,
             \E l \in {"idle", "check", "scan", "orphan", "list", "requeue"} : Goto(p, l),
             pc[p] \in BootPcs \cup {"idle"} => ~Goto(p, "check"),
             p = Cli => pc[p] # "idle",
             job = "none" <=> job' = "none", status' \in {status, "failed"}
      PROVE  LaunchInv'
  <2>1. PICK l \in {"idle", "check", "scan", "orphan", "list", "requeue"} : Goto(p, l)
    BY <1>1
  <2>2. /\ l \in Pcs \ (PreLaunch \cup BlkPcs \cup RemotePcs)
        /\ l # "check" => l \in BootPcs \cup {"idle"}
    BY DEF Pcs, BootPcs, PreLaunch, LaunchPcs, BlkPcs, RemotePcs
  <2>3. status' \in {status} \cup Refreshable \cup Terminal
    BY <1>1 DEF Terminal
  <2>4. pc[p] \in BootPcs \cup {"idle"} => l \in BootPcs \cup {"idle"}
    BY <1>1, <2>1, <2>2
  <2> QED BY <1>1, <2>1, <2>2, <2>3, <2>4, MoveLaunchInv
<1>2. CASE SubmitVisible
  <2>1. /\ status = "none" /\ status' = "queued" /\ UNCHANGED <<job, wire, starts>>
        /\ pc' = [pc EXCEPT ![Cli] = "load"] /\ pc \in [Procs -> Pcs] /\ Cli \in Procs
    BY <1>2 DEF SubmitVisible, Goto, LaunchInv, TypeOK, Procs
  <2>2. /\ job = "none" /\ ~Committed
        /\ \A p \in Procs : pc[p] \in BootPcs \cup {"idle"}
    BY <2>1 DEF LaunchInv, Unsubmitted
  <2>3. ~Committed'
    BY <2>1, <2>2 DEF Committed, RemotePcs
  <2>4. OneLauncher'
    BY <2>1, <2>2, LifecycleAssumption DEF OneLauncher, Procs
  <2>5. OneCommand'
    BY <2>1, <2>2 DEF LaunchInv, OneCommand, BootPcs
  <2> QED BY <2>1, <2>3, <2>4, <2>5 DEF LaunchInv, Unsubmitted, CommittedIsPast
<1>3. ASSUME NEW s \in Servers, SubmitAsync(s) PROVE LaunchInv'
  <2>1. /\ status = "none" /\ status' = "queued" /\ job' = "queued"
        /\ UNCHANGED <<wire, starts>> /\ s \in Procs /\ s # Cli
        /\ pc' = [pc EXCEPT ![s] = "claim"] /\ pc \in [Procs -> Pcs]
    BY <1>3, LifecycleAssumption DEF SubmitAsync, Goto, LaunchInv, TypeOK, Procs
  <2>2. /\ ~Committed /\ pc[Cli] = "idle"
        /\ \A p \in Procs : pc[p] \in BootPcs \cup {"idle"}
    BY <2>1 DEF LaunchInv, Unsubmitted
  <2>3. ~Committed'
    BY <2>1, <2>2 DEF Committed, RemotePcs
  <2>4. OneLauncher'
    BY <2>1, <2>2 DEF OneLauncher, Procs
  <2>5. OneCommand'
    BY <2>1, <2>2 DEF LaunchInv, OneCommand, BootPcs
  <2> QED BY <2>1, <2>3, <2>4, <2>5 DEF LaunchInv, Unsubmitted, CommittedIsPast
<1>4. CASE CliDies
  <2>1. /\ Cli \in Procs /\ pc[Cli] # "idle" /\ Goto(Cli, "idle")
        /\ UNCHANGED <<status, job, wire, starts>>
    BY <1>4 DEF CliDies, Procs
  <2>2. ~Goto(Cli, "check")
    BY <2>1 DEF Goto, LaunchInv, TypeOK
  <2> QED BY <1>1, <2>1, <2>2
<1>5. ASSUME NEW s \in Servers, LaunchTimeout(s) PROVE LaunchInv'
  BY <1>5, QuietLaunchInv DEF LaunchTimeout
<1>6. ASSUME NEW s \in Servers, Boot(s) \/ Crash(s) \/ RequeueInterrupted(s)
                                  \/ ScanOrphan(s) \/ MarkOrphan(s)
      PROVE  LaunchInv'
  <2>1. s \in Procs /\ s # Cli
    BY LifecycleAssumption DEF Procs
  <2>2. UNCHANGED <<wire, starts>> /\ (job = "none" <=> job' = "none")
    BY <1>6 DEF Boot, Crash, RequeueInterrupted, ScanOrphan, MarkOrphan
  <2>3. status' \in {status, "failed"}
    BY <1>6 DEF Boot, Crash, RequeueInterrupted, ScanOrphan, MarkOrphan, CAS
  <2>4. \E l \in {"idle", "orphan", "list", "requeue"} : Goto(s, l)
    BY <1>6 DEF Boot, Crash, RequeueInterrupted, ScanOrphan, MarkOrphan
  <2>5. ~Goto(s, "check")
    BY <2>1, <2>4 DEF Goto, LaunchInv, TypeOK
  <2> QED BY <1>1, <2>1, <2>2, <2>3, <2>4, <2>5
<1>7. ASSUME NEW s \in Servers, ListPending(s) PROVE LaunchInv'
  <2>1. /\ s \in Procs /\ s # Cli /\ UNCHANGED <<status, job, wire, starts>>
        /\ \E l \in {"claim", "scan"} : Goto(s, l) /\ (l = "claim" => job # "none")
    BY <1>7, LifecycleAssumption DEF ListPending, Procs
  <2>2. PICK l \in {"claim", "scan"} : Goto(s, l) /\ (l = "claim" => job # "none")
    BY <2>1
  <2>3. /\ l \in Pcs \ (PreLaunch \cup BlkPcs \cup RemotePcs)
        /\ l = "scan" => l \in BootPcs
    BY DEF Pcs, BootPcs, PreLaunch, LaunchPcs, BlkPcs, RemotePcs
  <2> QED BY <2>1, <2>2, <2>3, MoveLaunchInv
<1>8. ASSUME NEW s \in Servers, ClaimRunLaunchJob(s) PROVE LaunchInv'
  <2>1. /\ s \in Procs /\ s # Cli /\ UNCHANGED <<status, wire, starts>>
        /\ pc[s] = "claim" /\ \E l \in {"check", "idle"} : Goto(s, l)
        /\ job = "none" <=> job' = "none"
    BY <1>8, LifecycleAssumption DEF ClaimRunLaunchJob, Procs
  <2>2. pc[s] \notin BootPcs \cup {"idle"}
    BY <2>1 DEF BootPcs
  <2> QED BY <1>1, <2>1, <2>2
<1>9. ASSUME NEW s \in Servers, CheckLaunchable(s) \/ RegisterLaunchCancel(s)
      PROVE  LaunchInv'
  <2>1. /\ s \in Procs /\ s # Cli /\ UNCHANGED <<status, job, wire, starts>>
        /\ pc[s] \in {"check", "register"}
    BY <1>9, LifecycleAssumption DEF CheckLaunchable, RegisterLaunchCancel, Procs
  <2>2. pc[s] \notin BootPcs \cup {"idle"} /\ status # "none"
    BY <2>1 DEF BootPcs, LaunchInv, Unsubmitted
  <2>3. CASE Goto(s, "register") /\ status \in {"queued", "preflighting"}
    <3>1. ~Committed
      BY <2>3 DEF LaunchInv, CommittedIsPast, Refreshable, Terminal
    <3> QED BY <2>1, <2>2, <2>3, <3>1, PreLaunchInv DEF PreLaunch
  <2>4. CASE Goto(s, "load") /\ pc[s] = "register"
    <3>1. ~Committed
      BY <2>1, <2>4 DEF LaunchInv, CommittedIsPast, PreLaunch
    <3> QED BY <2>1, <2>2, <2>4, <3>1, PreLaunchInv DEF PreLaunch, LaunchPcs
  <2>5. CASE \E l \in ClosePcs : Goto(s, l)
    <3>1. PICK l \in ClosePcs : Goto(s, l) BY <2>5
    <3>2. l \in Pcs \ (PreLaunch \cup BlkPcs \cup RemotePcs)
      BY DEF Pcs, ClosePcs, PreLaunch, LaunchPcs, BlkPcs, RemotePcs
    <3> QED BY <2>1, <2>2, <3>1, <3>2, MoveLaunchInv
  <2>6. CheckLaunchable(s) => \/ Goto(s, "register") /\ status \in {"queued", "preflighting"}
                              \/ \E l \in ClosePcs : Goto(s, l)
    BY DEF CheckLaunchable, ClosePcs
  <2> QED BY <1>9, <2>3, <2>4, <2>5, <2>6 DEF RegisterLaunchCancel
<1>10. ASSUME NEW s \in Servers, CompleteLaunchJob(s) PROVE LaunchInv'
  <2>1. /\ s \in Procs /\ s # Cli /\ UNCHANGED <<status, wire, starts>>
        /\ pc[s] \in ClosePcs /\ Goto(s, "idle") /\ job' \in JobClosed
    BY <1>10, LifecycleAssumption DEF CompleteLaunchJob, Procs, JobState, JobClosed, ClosePcs
  <2>2. job # "none" /\ job' # "none"
    BY <2>1 DEF ClosePcs, BootPcs, JobClosed, LaunchInv, OneLauncher
  <2>3. ~Goto(s, "check")
    BY <2>1 DEF Goto, LaunchInv, TypeOK
  <2> QED BY <1>1, <2>1, <2>2, <2>3
<1> QED
  BY <1>2, <1>3, <1>4, <1>5, <1>6, <1>7, <1>8, <1>9, <1>10 DEF ResumeStep, JobStep
\* The resource: the one command on the wire creates the one session.
LEMMA ResourceInv ==
  ASSUME LaunchInv, TypeOK',
         \/ MachineDies \/ RemoteStep
         \/ \E p \in Procs : TmuxExecutes(p) \/ TmuxLost(p)
  PROVE  LaunchInv'
<1> USE DEF db, launch, machine
<1>1. CASE MachineDies \/ RemoteStep
  BY <1>1, QuietLaunchInv
  DEF MachineDies, RemoteStep, CommandEnds, WrapperWritesExit, SessionCloses
<1>2. ASSUME NEW p \in Procs, TmuxExecutes(p) \/ TmuxLost(p) PROVE LaunchInv'
  <2>1. /\ p \in wire /\ wire' = wire \ {p} /\ UNCHANGED <<status, job, pc>>
        /\ starts' \in {starts, IF starts = 0 THEN 1 ELSE 2}
    BY <1>2 DEF TmuxExecutes, TmuxLost
  <2>2. Committed /\ starts = 0 /\ wire' = {} /\ starts' \in {0, 1}
    BY <2>1 DEF Committed, LaunchInv, OneCommand
  <2>3. OneLauncher' BY <2>1 DEF LaunchInv, OneLauncher
  <2>4. CommittedIsPast' BY <2>1, <2>2 DEF LaunchInv, CommittedIsPast
  <2>5. OneCommand' BY <2>1, <2>2 DEF LaunchInv, OneCommand
  <2>6. status # "none" BY <2>2 DEF LaunchInv, Unsubmitted
  <2> QED BY <2>1, <2>3, <2>4, <2>5, <2>6 DEF LaunchInv, Unsubmitted
<1> QED BY <1>1, <1>2

\* What a probe, Cancel or the resumption remembers between the read of the
\* row and its write.
StaleWrites ==
    /\ \A t \in Threads :
          /\ probe[t].at # "idle" => probe[t].exp \in Refreshable
          /\ probe[t].at = "persist" => probe[t].sees \in Terminal
    /\ stop.at = "casLocal" => stop.exp \in {"queued", "preflighting", "starting"}
    /\ stop.at \in {"signal", "grace", "cas"} => stop.exp \in Refreshable
    /\ \A p \in Procs : pc[p] = "orphan" => seen[p] \in {"queued", "preflighting"}

LEMMA InitStaleWrites == Init => StaleWrites
  BY DEF Init, StaleWrites, NoProbe, NoStop

\* Steps of one launcher that do not reach the write of an orphan.
LEMMA LauncherStale ==
  ASSUME TypeOK, StaleWrites, NEW p \in Procs, NEW l \in Pcs \ {"orphan"}, Goto(p, l),
         seen' = seen \/ \E st \in Statuses : Remember(p, st), UNCHANGED <<probe, stop>>
  PROVE  StaleWrites'
<1>1. \A q \in Procs : pc'[q] = "orphan" => q # p /\ pc[q] = "orphan"
  BY DEF Goto, TypeOK
<1>2. \A q \in Procs : q # p => seen'[q] = seen[q]
  BY DEF Remember, TypeOK
<1> QED BY <1>1, <1>2 DEF StaleWrites
LEMMA LaunchStepStale ==
  ASSUME TypeOK, StaleWrites, NEW p \in Procs, LaunchStep(p)
  PROVE  StaleWrites'
<1> DEFINE Ls == {"reserve", "readErr", "preflight", "inputs", "readBlk", "setup",
                  "starting", "send", "sent", "running", "idle", "closeSucceeded",
                  "closeBlocked", "closeFailed", "markErr", "markBlk"}
<1>1. Ls \subseteq Pcs \ {"orphan"}
  BY DEF Pcs, LaunchPcs, RemotePcs, FailPcs, ClosePcs
<1>2. UNCHANGED <<probe, stop>>
  BY DEF LaunchStep, LoadReserved, ReservePreflight, Preflight, EnsureInputs, SetupRemote,
         MarkStarting, SendTmux, TmuxReturns, TmuxFails, MarkRunning, RecordFailureRead,
         RecordFailureWrite
<1>3. seen' = seen \/ \E st \in Statuses : Remember(p, st)
  <2>1. status \in Statuses /\ "none" \in Statuses
    BY DEF TypeOK, Statuses
  <2> QED
    BY <2>1
    DEF LaunchStep, LoadReserved, ReservePreflight, Preflight, EnsureInputs, SetupRemote,
        MarkStarting, SendTmux, TmuxReturns, TmuxFails, MarkRunning, RecordFailureRead,
        RecordFailureWrite
<1>4. \E l \in Ls : Goto(p, l)
  <2>1. CASE LoadReserved(p)     BY <2>1 DEF LoadReserved, LaunchError
  <2>2. CASE ReservePreflight(p) BY <2>2 DEF ReservePreflight, LaunchError
  <2>3. CASE Preflight(p)        BY <2>3 DEF Preflight, LaunchError
  <2>4. CASE EnsureInputs(p)     BY <2>4 DEF EnsureInputs, LaunchError
  <2>5. CASE SetupRemote(p)      BY <2>5 DEF SetupRemote, LaunchError
  <2>6. CASE MarkStarting(p)     BY <2>6 DEF MarkStarting, LaunchError
  <2>7. CASE SendTmux(p)         BY <2>7 DEF SendTmux
  <2>8. CASE TmuxReturns(p)      BY <2>8 DEF TmuxReturns
  <2>9. CASE TmuxFails(p)        BY <2>9 DEF TmuxFails, LaunchError
  <2>10. CASE MarkRunning(p)     BY <2>10 DEF MarkRunning, LaunchError
  <2>11. CASE RecordFailureRead(p)  BY <2>11 DEF RecordFailureRead
  <2>12. CASE RecordFailureWrite(p) BY <2>12 DEF RecordFailureWrite
  <2> QED BY <2>1, <2>2, <2>3, <2>4, <2>5, <2>6, <2>7, <2>8, <2>9, <2>10, <2>11, <2>12
          DEF LaunchStep
<1> QED BY <1>1, <1>2, <1>3, <1>4, LauncherStale

LEMMA ControlPlaneStale ==
  ASSUME TypeOK, StaleWrites,
         \/ SubmitVisible \/ CliDies
         \/ \E s \in Servers : \/ SubmitAsync(s) \/ LaunchTimeout(s)
                               \/ Boot(s) \/ Crash(s) \/ ResumeStep(s) \/ JobStep(s)
  PROVE  StaleWrites'
<1> DEFINE Ls == {"claim", "load", "check", "idle", "register", "requeue", "list", "scan"}
                   \cup ClosePcs
<1>1. Ls \subseteq Pcs \ {"orphan"}
  BY DEF Pcs, BootPcs, LaunchPcs, ClosePcs
<1>2. ASSUME NEW p \in Procs, \E l \in Ls : Goto(p, l), UNCHANGED <<probe, stop>>,
             seen' = seen \/ Remember(p, "none")
      PROVE  StaleWrites'
  BY <1>1, <1>2, LauncherStale DEF Statuses
<1>3. CASE SubmitVisible
  BY <1>2, <1>3 DEF SubmitVisible, Procs
<1>4. CASE CliDies
  BY <1>2, <1>4 DEF CliDies, Procs
<1>5. ASSUME NEW s \in Servers, LaunchTimeout(s) PROVE StaleWrites'
  BY <1>5 DEF LaunchTimeout, StaleWrites
<1>6. ASSUME NEW s \in Servers,
             SubmitAsync(s) \/ Boot(s) \/ RequeueInterrupted(s) \/ ListPending(s)
               \/ MarkOrphan(s) \/ ClaimRunLaunchJob(s) \/ RegisterLaunchCancel(s)
               \/ CompleteLaunchJob(s) \/ CheckLaunchable(s)
      PROVE  StaleWrites'
  <2>1. /\ \E l \in Ls : Goto(s, l) /\ UNCHANGED <<probe, stop>>
        /\ seen' = seen \/ Remember(s, "none")
    <3>1. CASE CheckLaunchable(s)
      BY <3>1 DEF CheckLaunchable, ClosePcs
    <3> QED
      BY <1>6, <3>1
      DEF SubmitAsync, Boot, RequeueInterrupted, ListPending, MarkOrphan,
          ClaimRunLaunchJob, RegisterLaunchCancel, CompleteLaunchJob
  <2> QED BY <1>2, <2>1 DEF Procs
<1>7. ASSUME NEW s \in Servers, ScanOrphan(s) PROVE StaleWrites'
  BY <1>7 DEF ScanOrphan, StaleWrites, Remember, Goto, TypeOK, Procs
<1>8. ASSUME NEW s \in Servers, Crash(s) PROVE StaleWrites'
  <2>1. \A p \in Procs : pc'[p] = "orphan" => pc[p] = "orphan" /\ seen'[p] = seen[p]
    BY <1>8 DEF Crash, Goto, Remember, TypeOK, Procs
  <2>2. /\ stop' = stop \/ stop' = NoStop
        /\ probe' = probe \/ probe' = [probe EXCEPT ![Stopper] = NoProbe]
    BY <1>8 DEF Crash
  <2>3. \A t \in Threads : probe'[t] = probe[t] \/ probe'[t] = NoProbe
    BY <2>2 DEF TypeOK
  <2> QED BY <2>1, <2>2, <2>3 DEF StaleWrites, NoStop, NoProbe
<1> QED BY <1>3, <1>4, <1>5, <1>6, <1>7, <1>8 DEF ResumeStep, JobStep

LEMMA ResourceStale ==
  ASSUME StaleWrites,
         \/ MachineDies \/ RemoteStep
         \/ \E p \in Procs : TmuxExecutes(p) \/ TmuxLost(p)
  PROVE  StaleWrites'
  BY DEF StaleWrites, MachineDies, RemoteStep, CommandEnds, WrapperWritesExit,
         SessionCloses, TmuxExecutes, TmuxLost, launch

LEMMA ProbeStale ==
  ASSUME TypeOK, StaleWrites, NEW t \in Threads, ProbeStep(t) \/ ProbeFails(t)
  PROVE  StaleWrites'
<1>1. UNCHANGED <<pc, seen>>
  BY DEF ProbeStep, ProbeRead, ProbeExitFile, ProbeSession, ProbeLogs, ProbePersist,
         ProbeFails, launch
<1>2. stop' = stop \/ stop'.at = "probed"
  BY DEF ProbeStep, ProbeRead, ProbeExitFile, ProbeSession, ProbeLogs, ProbePersist,
         ProbeFails, ProbeDone, TypeOK
<1>3. \A u \in Threads : u # t => probe'[u] = probe[u]
  BY DEF ProbeStep, ProbeRead, ProbeExitFile, ProbeSession, ProbeLogs, ProbePersist,
         ProbeFails, ProbeDone, TypeOK
<1>4. /\ probe'[t].at # "idle" => probe'[t].exp \in Refreshable
      /\ probe'[t].at = "persist" => probe'[t].sees \in Terminal
  <2>1. CASE ProbeRead(t)
    BY <2>1 DEF ProbeRead, ProbeDone, NoProbe, TypeOK
  <2>2. CASE ProbeExitFile(t)
    BY <2>2 DEF ProbeExitFile, Verdict, Terminal, TypeOK, StaleWrites
  <2>3. CASE ProbeSession(t)
    BY <2>3 DEF ProbeSession, ProbeDone, NoProbe, TypeOK, StaleWrites
  <2>4. CASE ProbeLogs(t)
    BY <2>4 DEF ProbeLogs, Verdict, Terminal, TypeOK, StaleWrites
  <2>5. CASE ProbePersist(t) \/ ProbeFails(t)
    BY <2>5 DEF ProbePersist, ProbeFails, ProbeDone, NoProbe, TypeOK
  <2> QED BY <2>1, <2>2, <2>3, <2>4, <2>5 DEF ProbeStep
<1> QED BY <1>1, <1>2, <1>3, <1>4 DEF StaleWrites

LEMMA StopStale ==
  ASSUME TypeOK, StaleWrites, StopStep \/ \E p \in Procs : StopRead(p)
  PROVE  StaleWrites'
<1>1. UNCHANGED <<pc, seen, probe>>
  BY DEF StopStep, StopDecide, StopLocalWrite, StopCloseJob, StopProbed, StopSignal,
         StopKill, StopWrite, StopRead, launch
<1>2. /\ stop'.at = "casLocal" => stop'.exp \in {"queued", "preflighting", "starting"}
      /\ stop'.at \in {"signal", "grace", "cas"} => stop'.exp \in Refreshable
  <2> USE DEF StopAt, NoStop, TypeOK
  <2>1. CASE StopDecide     BY <2>1 DEF StopDecide
  <2>2. CASE StopLocalWrite BY <2>2 DEF StopLocalWrite
  <2>3. CASE StopCloseJob   BY <2>3 DEF StopCloseJob
  <2>4. CASE StopProbed     BY <2>4 DEF StopProbed
  <2>5. CASE StopSignal     BY <2>5 DEF StopSignal, StaleWrites
  <2>6. CASE StopKill       BY <2>6 DEF StopKill, StaleWrites
  <2>7. CASE StopWrite      BY <2>7 DEF StopWrite
  <2>8. CASE \E p \in Procs : StopRead(p) BY <2>8 DEF StopRead
  <2> QED BY <2>1, <2>2, <2>3, <2>4, <2>5, <2>6, <2>7, <2>8 DEF StopStep
<1> QED BY <1>1, <1>2 DEF StaleWrites
LifecycleInv == LaunchInv /\ StaleWrites

LEMMA NextLifecycleInv ==
  ASSUME OneServer
  PROVE  LifecycleInv /\ [Next]_vars => LifecycleInv'
<1> SUFFICES ASSUME LifecycleInv, [Next]_vars PROVE LifecycleInv'
  OBVIOUS
<1>1. TypeOK /\ TypeOK'
  BY NextTypeOK DEF LifecycleInv, LaunchInv
<1>2. CASE UNCHANGED vars
  BY <1>2, <1>1, QuietLaunchInv
  DEF LifecycleInv, StaleWrites, vars, db, launch, machine
<1>3. ASSUME NEW p \in Procs, LaunchStep(p) PROVE LifecycleInv'
  BY <1>1, <1>3, LaunchStepInv, LaunchStepStale DEF LifecycleInv
<1>4. CASE \/ SubmitVisible \/ CliDies
           \/ \E s \in Servers : \/ SubmitAsync(s) \/ LaunchTimeout(s)
                                 \/ Boot(s) \/ Crash(s) \/ ResumeStep(s) \/ JobStep(s)
  BY <1>1, <1>4, ControlPlaneInv, ControlPlaneStale DEF LifecycleInv
<1>5. CASE \/ MachineDies \/ RemoteStep
           \/ \E p \in Procs : TmuxExecutes(p) \/ TmuxLost(p)
  BY <1>1, <1>5, ResourceInv, ResourceStale DEF LifecycleInv
<1>6. ASSUME NEW t \in Threads, ProbeStep(t) \/ ProbeFails(t) PROVE LifecycleInv'
  <2>1. UNCHANGED <<pc, wire, starts, job>> /\ status' \in {status} \cup Terminal
    BY <1>6, ProbeQuiet DEF LifecycleInv, StaleWrites
  <2> QED BY <1>1, <1>6, <2>1, QuietLaunchInv, ProbeStale DEF LifecycleInv
<1>7. CASE StopStep \/ \E p \in Procs : StopRead(p)
  <2>1. /\ UNCHANGED <<pc, wire, starts>> /\ status' \in {status} \cup Terminal
        /\ job = "none" <=> job' = "none"
    BY <1>7, StopQuiet
  <2> QED BY <1>1, <1>7, <2>1, QuietLaunchInv, StopStale DEF LifecycleInv
<1> QED BY <1>2, <1>3, <1>4, <1>5, <1>6, <1>7 DEF Next

\* With one control plane, and any number of CLI and MCP processes that probe
\* or cancel, no sequence of crashes, resumptions, timeouts and lost commands
\* executes the command of a run twice.
THEOREM ExecutedAtMostOnce ==
  ASSUME OneServer
  PROVE  Spec => []AtMostOneStart
<1>1. Init => LifecycleInv
  BY InitLaunchInv, InitStaleWrites DEF LifecycleInv
<1>2. LifecycleInv /\ [Next]_vars => LifecycleInv'
  BY NextLifecycleInv
<1>3. LifecycleInv => AtMostOneStart
  BY DEF LifecycleInv, LaunchInv, OneCommand, AtMostOneStart
<1> QED BY <1>1, <1>2, <1>3, PTL DEF Spec

\* No step writes a status over a terminal one once the command has started:
\* the launchers are past the writes that could, and whatever a probe, Cancel
\* or the resumption remembers is a status that is not terminal.
LEMMA VerdictIsKept ==
  ASSUME LifecycleInv, Next, starts > 0, status \in Terminal
  PROVE  status' = status
<1>1. Committed /\ \A p \in Procs : pc[p] \notin PreLaunch \cup BlkPcs
  BY DEF LifecycleInv, LaunchInv, CommittedIsPast, Committed
<1>2. status \notin {"none", "queued", "preflighting"} \cup Refreshable
  BY DEF Terminal, Refreshable
<1> USE DEF db
<1>3. ASSUME NEW p \in Procs, LaunchStep(p) PROVE status' = status
  <2>1. pc[p] \notin LaunchPcs \cup {"markBlk"}
    BY <1>1 DEF PreLaunch, BlkPcs
  <2>2. CASE LoadReserved(p) \/ ReservePreflight(p) \/ Preflight(p)
               \/ EnsureInputs(p) \/ SetupRemote(p) \/ MarkStarting(p)
    BY <2>1, <2>2 DEF LoadReserved, ReservePreflight, Preflight, EnsureInputs,
                      SetupRemote, MarkStarting, LaunchPcs
  <2>3. CASE SendTmux(p) \/ TmuxReturns(p) \/ TmuxFails(p) \/ MarkRunning(p)
               \/ RecordFailureRead(p)
    BY <1>2, <2>3 DEF SendTmux, TmuxReturns, TmuxFails, MarkRunning, RecordFailureRead,
                      CAS, Refreshable
  <2>4. CASE RecordFailureWrite(p)
    BY <2>1, <2>4 DEF RecordFailureWrite, CAS
  <2> QED BY <1>3, <2>2, <2>3, <2>4 DEF LaunchStep
<1>4. ASSUME NEW s \in Servers, SubmitAsync(s) \/ LaunchTimeout(s) \/ Boot(s) \/ Crash(s)
                                   \/ ResumeStep(s) \/ JobStep(s)
      PROVE status' = status
  <2>1. CASE MarkOrphan(s)
    BY <1>2, <2>1 DEF MarkOrphan, CAS, LifecycleInv, StaleWrites, Procs
  <2>2. CASE ~MarkOrphan(s)
    BY <1>2, <1>4, <2>2
    DEF SubmitAsync, LaunchTimeout, Boot, Crash, ResumeStep, RequeueInterrupted,
        ListPending, ScanOrphan, JobStep, ClaimRunLaunchJob, CheckLaunchable,
        RegisterLaunchCancel, CompleteLaunchJob
  <2> QED BY <2>1, <2>2
<1>5. CASE SubmitVisible \/ CliDies
  BY <1>2, <1>5 DEF SubmitVisible, CliDies
<1>6. CASE \/ MachineDies \/ RemoteStep
           \/ \E p \in Procs : TmuxExecutes(p) \/ TmuxLost(p)
  BY <1>6 DEF MachineDies, RemoteStep, CommandEnds, WrapperWritesExit, SessionCloses,
              TmuxExecutes, TmuxLost
<1>7. ASSUME NEW t \in Threads, ProbeStep(t) \/ ProbeFails(t) PROVE status' = status
  <2>1. CASE ProbePersist(t)
    BY <1>2, <2>1 DEF ProbePersist, CAS, LifecycleInv, StaleWrites
  <2> QED
    BY <1>7, <2>1
    DEF ProbeStep, ProbeRead, ProbeExitFile, ProbeSession, ProbeLogs, ProbeFails
<1>8. CASE StopStep \/ \E p \in Procs : StopRead(p)
  <2>1. CASE StopLocalWrite
    BY <1>2, <2>1 DEF StopLocalWrite, CAS, LifecycleInv, StaleWrites, Refreshable
  <2>2. CASE StopWrite
    BY <1>2, <2>2 DEF StopWrite, CAS, LifecycleInv, StaleWrites
  <2> QED
    BY <1>8, <2>1, <2>2
    DEF StopStep, StopDecide, StopCloseJob, StopProbed, StopSignal, StopKill, StopRead
<1> QED BY <1>3, <1>4, <1>5, <1>6, <1>7, <1>8 DEF Next

\* With one control plane, the verdict on a run whose command has started is
\* written once: every later write expects a status the run no longer has.
THEOREM VerdictWrittenOnce ==
  ASSUME OneServer
  PROVE  Spec => StartedVerdictIsFinal
<1>1. Init => LifecycleInv
  BY InitLaunchInv, InitStaleWrites DEF LifecycleInv
<1>2. LifecycleInv /\ [Next]_vars => LifecycleInv'
  BY NextLifecycleInv
<1>3. LifecycleInv /\ [Next]_vars
        => [starts > 0 /\ status \in Terminal => status' = status]_vars
  BY VerdictIsKept
<1> QED BY <1>1, <1>2, <1>3, PTL DEF Spec, StartedVerdictIsFinal
-----------------------------------------------------------------------------
(* What a verdict says of the execution.  The strengthening relates the      *)
(* files on the resource to the one execution, the answer of tmux to the     *)
(* session it created, and what a probe saw to the exit code.                *)

ResourceFacts ==
    /\ remote = "absent" <=> starts = 0
    /\ result = "none" <=> remote \in {"absent", "live", "killed"}

AnswerMeansStarted ==
    \A p \in Procs : pc[p] = "running" \/ (pc[p] = "sent" /\ p \notin wire) => starts > 0

SeenSuccess == \A t \in Threads : probe[t].sees = "succeeded" => result = "ok"

VerdictInv == ResourceFacts /\ AnswerMeansStarted /\ SeenSuccess /\ VerdictMatchesExit

LEMMA InitVerdictInv == Init => VerdictInv
  BY DEF Init, VerdictInv, ResourceFacts, AnswerMeansStarted, SeenSuccess, NoProbe,
         VerdictMatchesExit

\* The steps that leave the resource alone, with what each of the parts needs.
LEMMA OffResourceVerdict ==
  ASSUME VerdictInv, UNCHANGED <<remote, result, starts>>, AnswerMeansStarted',
         \A t \in Threads : probe'[t].sees = "succeeded" =>
             probe[t].sees = "succeeded" \/ result = "ok",
         status' = "running" => status = "running" \/ starts > 0,
         status' = "succeeded" => status = "succeeded" \/ (result = "ok" /\ starts > 0)
  PROVE  VerdictInv'
  BY DEF VerdictInv, ResourceFacts, SeenSuccess, VerdictMatchesExit

\* A launcher at a step other than the wait for tmux and the write of running.
LEMMA AnswerKept ==
  ASSUME TypeOK, AnswerMeansStarted, NEW p \in Procs, NEW l, Goto(p, l),
         l \notin {"sent", "running"}, UNCHANGED <<wire, starts>>
  PROVE  AnswerMeansStarted'
  BY DEF AnswerMeansStarted, Goto, TypeOK

LEMMA LaunchVerdict ==
  ASSUME LifecycleInv, VerdictInv, NEW p \in Procs, LaunchStep(p)
  PROVE  VerdictInv'
<1>1. UNCHANGED <<remote, result, starts, probe>>
  BY DEF LaunchStep, LoadReserved, ReservePreflight, Preflight, EnsureInputs, SetupRemote,
         MarkStarting, SendTmux, TmuxReturns, TmuxFails, MarkRunning, RecordFailureRead,
         RecordFailureWrite, machine
<1>2. TypeOK /\ AnswerMeansStarted
  BY DEF LifecycleInv, LaunchInv, VerdictInv
<1>3. AnswerMeansStarted'
  <2>1. CASE SendTmux(p)
    BY <1>2, <2>1 DEF SendTmux, machine, AnswerMeansStarted, Goto, TypeOK
  <2>2. CASE TmuxReturns(p)
    BY <1>2, <2>2 DEF TmuxReturns, machine, AnswerMeansStarted, Goto, TypeOK
  <2>3. CASE ~SendTmux(p) /\ ~TmuxReturns(p)
    <3>1. UNCHANGED <<wire, starts>>
      BY <2>3 DEF LaunchStep, LoadReserved, ReservePreflight, Preflight, EnsureInputs,
                  SetupRemote, MarkStarting, TmuxFails, MarkRunning, RecordFailureRead,
                  RecordFailureWrite, machine
    <3>2. \E l \in {"reserve", "readErr", "preflight", "inputs", "readBlk", "setup",
                     "starting", "send", "idle", "closeSucceeded", "closeBlocked",
                     "closeFailed", "markErr", "markBlk"} : Goto(p, l)
      <4>1. CASE RecordFailureWrite(p) BY <4>1 DEF RecordFailureWrite
      <4>2. CASE MarkRunning(p) BY <4>2 DEF MarkRunning, LaunchError
      <4>3. CASE ~RecordFailureWrite(p) /\ ~MarkRunning(p)
        BY <2>3, <4>3 DEF LaunchStep, LoadReserved, ReservePreflight, Preflight,
               EnsureInputs, SetupRemote, MarkStarting, TmuxFails, RecordFailureRead,
               LaunchError
      <4> QED BY <4>1, <4>2, <4>3
    <3> QED BY <1>2, <3>1, <3>2, AnswerKept
  <2> QED BY <2>1, <2>2, <2>3
<1>4. /\ status' = "running" => status = "running" \/ pc[p] = "running"
      /\ status' = "succeeded" => status = "succeeded"
  BY DEF LaunchStep, LoadReserved, ReservePreflight, Preflight, EnsureInputs, SetupRemote,
         MarkStarting, SendTmux, TmuxReturns, TmuxFails, MarkRunning, RecordFailureRead,
         RecordFailureWrite, CAS, db
<1>5. status' = "running" => status = "running" \/ starts > 0
  BY <1>4 DEF VerdictInv, AnswerMeansStarted
<1> QED BY <1>1, <1>3, <1>4, <1>5, OffResourceVerdict

LEMMA ControlPlaneVerdict ==
  ASSUME LifecycleInv, VerdictInv,
         \/ SubmitVisible \/ CliDies
         \/ \E s \in Servers : \/ SubmitAsync(s) \/ LaunchTimeout(s)
                               \/ Boot(s) \/ Crash(s) \/ ResumeStep(s) \/ JobStep(s)
  PROVE  VerdictInv'
<1>1. TypeOK /\ AnswerMeansStarted
  BY DEF LifecycleInv, LaunchInv, VerdictInv
<1>2. UNCHANGED <<remote, result, starts, wire>>
  BY DEF SubmitVisible, CliDies, SubmitAsync, LaunchTimeout, Boot, Crash, ResumeStep,
         RequeueInterrupted, ListPending, ScanOrphan, MarkOrphan, JobStep,
         ClaimRunLaunchJob, CheckLaunchable, RegisterLaunchCancel, CompleteLaunchJob, machine
<1>3. status' \in {status, "queued", "failed"}
  BY DEF SubmitVisible, CliDies, SubmitAsync, LaunchTimeout, Boot, Crash, ResumeStep,
         RequeueInterrupted, ListPending, ScanOrphan, MarkOrphan, JobStep, CAS,
         ClaimRunLaunchJob, CheckLaunchable, RegisterLaunchCancel, CompleteLaunchJob, db
<1>4. \A t \in Threads : probe'[t] = probe[t] \/ probe'[t].sees = "none"
  <2>1. probe' = probe \/ probe' = [probe EXCEPT ![Stopper] = NoProbe]
    BY DEF SubmitVisible, CliDies, SubmitAsync, LaunchTimeout, Boot, Crash, ResumeStep,
           RequeueInterrupted, ListPending, ScanOrphan, MarkOrphan, JobStep,
           ClaimRunLaunchJob, CheckLaunchable, RegisterLaunchCancel, CompleteLaunchJob
  <2> QED BY <1>1, <2>1 DEF TypeOK, NoProbe
<1>5. pc' = pc \/ \E p \in Procs, l \in {"claim", "load", "check", "idle", "register",
                     "requeue", "list", "scan", "orphan"} \cup ClosePcs : Goto(p, l)
  <2>1. ASSUME NEW s \in Servers, CheckLaunchable(s)
        PROVE  \E l \in {"register"} \cup ClosePcs : Goto(s, l)
    BY <2>1 DEF CheckLaunchable, ClosePcs
  <2> QED
    BY <2>1
    DEF SubmitVisible, CliDies, SubmitAsync, LaunchTimeout, Boot, Crash, ResumeStep,
        RequeueInterrupted, ListPending, ScanOrphan, MarkOrphan, JobStep,
        ClaimRunLaunchJob, RegisterLaunchCancel, CompleteLaunchJob, Procs
<1>6. AnswerMeansStarted'
  <2>1. CASE pc' = pc BY <1>1, <1>2, <2>1 DEF AnswerMeansStarted
  <2>2. CASE pc' # pc BY <1>1, <1>2, <1>5, <2>2, AnswerKept DEF ClosePcs
  <2> QED BY <2>1, <2>2
<1> QED BY <1>2, <1>3, <1>4, <1>6, OffResourceVerdict

LEMMA ResourceVerdict ==
  ASSUME LifecycleInv, VerdictInv,
         \/ MachineDies \/ RemoteStep
         \/ \E p \in Procs : TmuxExecutes(p) \/ TmuxLost(p)
  PROVE  VerdictInv'
<1> USE DEF db, launch, machine
<1>1. CASE MachineDies \/ RemoteStep
  BY <1>1
  DEF MachineDies, RemoteStep, CommandEnds, WrapperWritesExit, SessionCloses, Killed,
      SessionAlive, VerdictInv, ResourceFacts, AnswerMeansStarted, SeenSuccess,
      VerdictMatchesExit
<1>2. ASSUME NEW p \in Procs, TmuxExecutes(p) PROVE VerdictInv'
  <2>1. starts = 0 /\ remote = "absent" /\ result = "none"
    BY <1>2 DEF TmuxExecutes, LifecycleInv, LaunchInv, OneCommand, VerdictInv, ResourceFacts
  <2>2. /\ remote' = "live" /\ result' = "none" /\ starts' = 1
        /\ UNCHANGED <<status, pc, probe>>
    BY <1>2, <2>1 DEF TmuxExecutes, HasExitFile, SessionAlive
  <2> QED
    BY <2>1, <2>2
    DEF VerdictInv, ResourceFacts, AnswerMeansStarted, SeenSuccess, VerdictMatchesExit
<1>3. ASSUME NEW p \in Procs, TmuxLost(p) PROVE VerdictInv'
  BY <1>3
  DEF TmuxLost, VerdictInv, ResourceFacts, AnswerMeansStarted, SeenSuccess,
      VerdictMatchesExit
<1> QED BY <1>1, <1>2, <1>3

LEMMA ProbeVerdict ==
  ASSUME LifecycleInv, VerdictInv, NEW t \in Threads, ProbeStep(t) \/ ProbeFails(t)
  PROVE  VerdictInv'
<1>1. UNCHANGED <<remote, result, starts, wire, pc>> /\ TypeOK
  BY DEF ProbeStep, ProbeRead, ProbeExitFile, ProbeSession, ProbeLogs, ProbePersist,
         ProbeFails, launch, machine, LifecycleInv, LaunchInv
<1>2. AnswerMeansStarted'
  BY <1>1 DEF VerdictInv, AnswerMeansStarted
<1>3. \A u \in Threads : u # t => probe'[u] = probe[u]
  BY <1>1 DEF ProbeStep, ProbeRead, ProbeExitFile, ProbeSession, ProbeLogs, ProbePersist,
         ProbeFails, ProbeDone, TypeOK
<1>4. probe'[t].sees = "succeeded" => probe[t].sees = "succeeded" \/ result = "ok"
  <2> USE <1>1 DEF TypeOK
  <2>1. CASE ProbeRead(t)     BY <2>1 DEF ProbeRead, ProbeDone, NoProbe
  <2>2. CASE ProbeExitFile(t) BY <2>2 DEF ProbeExitFile, Verdict
  <2>3. CASE ProbeSession(t)  BY <2>3 DEF ProbeSession, ProbeDone, NoProbe
  <2>4. CASE ProbeLogs(t)     BY <2>4 DEF ProbeLogs, Verdict
  <2>5. CASE ProbePersist(t) \/ ProbeFails(t)
    BY <2>5 DEF ProbePersist, ProbeFails, ProbeDone, NoProbe
  <2> QED BY <2>1, <2>2, <2>3, <2>4, <2>5 DEF ProbeStep
<1>5. status' = status \/ (status' = probe[t].sees /\ probe[t].sees \in Terminal)
  <2>1. CASE ProbePersist(t)
    BY <2>1 DEF ProbePersist, CAS, LifecycleInv, StaleWrites
  <2> QED
    BY <2>1 DEF ProbeStep, ProbeRead, ProbeExitFile, ProbeSession, ProbeLogs, ProbeFails, db
<1>6. result = "ok" => starts > 0
  BY <1>1 DEF VerdictInv, ResourceFacts, TypeOK
<1>7. /\ status' = "running" => status = "running"
      /\ status' = "succeeded" => status = "succeeded" \/ (result = "ok" /\ starts > 0)
  BY <1>5, <1>6 DEF VerdictInv, SeenSuccess, Terminal
<1> QED BY <1>1, <1>2, <1>3, <1>4, <1>7, OffResourceVerdict

LEMMA StopVerdict ==
  ASSUME LifecycleInv, VerdictInv, StopStep \/ \E p \in Procs : StopRead(p)
  PROVE  VerdictInv'
<1> USE DEF db, launch, machine
<1>1. UNCHANGED <<pc, wire, starts, probe>> /\ status' \in {status, "cancelled"}
  BY DEF StopStep, StopDecide, StopLocalWrite, StopCloseJob, StopProbed, StopSignal,
         StopKill, StopWrite, StopRead, KillSession, CAS
<1>2. \/ UNCHANGED <<remote, result>>
      \/ remote = "live" /\ remote' = "logged" /\ result' \in {"ok", "bad"}
      \/ SessionAlive /\ remote' = Killed /\ result' = result
  BY DEF StopStep, StopDecide, StopLocalWrite, StopCloseJob, StopProbed, StopSignal,
         StopKill, StopWrite, StopRead, KillSession
<1>3. ResourceFacts' /\ (result = "ok" => result' = "ok")
  BY <1>1, <1>2 DEF VerdictInv, ResourceFacts, SessionAlive, Killed
<1> QED
  BY <1>1, <1>3 DEF VerdictInv, AnswerMeansStarted, SeenSuccess, VerdictMatchesExit

\* With one control plane, running is reported only of a run whose session was
\* created, and succeeded only of a command that ended with exit code 0.
THEOREM VerdictIsTrue ==
  ASSUME OneServer
  PROVE  Spec => []VerdictMatchesExit
<1>1. Init => LifecycleInv /\ VerdictInv
  BY InitLaunchInv, InitStaleWrites, InitVerdictInv DEF LifecycleInv
<1>2. LifecycleInv /\ VerdictInv /\ [Next]_vars => (LifecycleInv /\ VerdictInv)'
  <2> SUFFICES ASSUME LifecycleInv, VerdictInv, [Next]_vars
               PROVE  LifecycleInv' /\ VerdictInv'
    OBVIOUS
  <2>1. LifecycleInv'
    BY NextLifecycleInv
  <2>2. CASE UNCHANGED vars
    BY <2>1, <2>2 DEF vars, db, launch, machine, VerdictInv, ResourceFacts, AnswerMeansStarted,
                SeenSuccess, VerdictMatchesExit
  <2>3. CASE Next
    BY <2>1, <2>3, LaunchVerdict, ControlPlaneVerdict, ResourceVerdict, ProbeVerdict, StopVerdict
    DEF Next
  <2> QED BY <2>1, <2>2, <2>3
<1>3. VerdictInv => VerdictMatchesExit
  BY DEF VerdictInv
<1> QED BY <1>1, <1>2, <1>3, PTL DEF Spec
-----------------------------------------------------------------------------
(* What a succeeded launch job promises.  The strengthening speaks of the    *)
(* launcher that is about to report success, and of the one that may still   *)
(* write a local status: the job it works for is not a succeeded one.        *)

Observed == Refreshable \cup Terminal

HandOver ==
    /\ job = "succeeded" => status \in Observed
    /\ \A p \in Procs : pc[p] = "closeSucceeded" => status \in Observed
    /\ \A p \in Procs : pc[p] \in PreLaunch \cup {"check"} => job # "succeeded"

LEMMA InitHandOver == Init => HandOver
  BY DEF Init, HandOver, PreLaunch, LaunchPcs

\* Steps that move no process and take the run to its end, if anywhere.
LEMMA QuietHandOver ==
  ASSUME HandOver, pc' = pc, status' \in {status} \cup Terminal,
         job' = "succeeded" => job = "succeeded"
  PROVE  HandOver'
  BY DEF HandOver, Observed

\* One process goes to a point where it neither holds a launch that succeeded
\* nor has one before it.
LEMMA MoveHandOver ==
  ASSUME TypeOK, HandOver, NEW p \in Procs, NEW l, Goto(p, l),
         l \notin PreLaunch \cup {"check", "closeSucceeded"},
         status' \in {status} \cup Observed,
         job' = "succeeded" => job = "succeeded"
  PROVE  HandOver'
<1>1. \A q \in Procs : pc'[q] \in PreLaunch \cup {"check", "closeSucceeded"} => pc'[q] = pc[q]
  BY DEF Goto, TypeOK
<1> QED BY <1>1 DEF HandOver

\* The launcher up to the write of starting: nobody else is launching, and the
\* job is not a succeeded one.
LEMMA BeforeStartHandOver ==
  ASSUME OneServer, LaunchInv, HandOver, NEW p \in Procs, LaunchStep(p),
         pc[p] \in PreLaunch
  PROVE  HandOver'
<1>1. job' = job /\ job # "succeeded"
  BY DEF LaunchStep, LoadReserved, ReservePreflight, Preflight, EnsureInputs, SetupRemote,
         MarkStarting, SendTmux, TmuxReturns, TmuxFails, MarkRunning, RecordFailureRead,
         RecordFailureWrite, db, HandOver
<1>2. \E l \in PreLaunch \cup {"readErr", "readBlk", "send"} : Goto(p, l)
  <2>1. \/ LoadReserved(p) \/ ReservePreflight(p) \/ Preflight(p) \/ EnsureInputs(p)
        \/ SetupRemote(p) \/ MarkStarting(p)
    BY DEF LaunchStep, SendTmux, TmuxReturns, TmuxFails, MarkRunning, RecordFailureRead,
           RecordFailureWrite, PreLaunch, LaunchPcs
  <2> QED
    BY <2>1 DEF LoadReserved, ReservePreflight, Preflight, EnsureInputs, SetupRemote,
                MarkStarting, LaunchError, PreLaunch, LaunchPcs
<1>3. \A q \in Procs : q # p => pc[q] \in BootPcs \cup {"idle"}
  BY Exclusive DEF PreLaunch, LaunchPcs, BootPcs
<1>4. \A q \in Procs : pc'[q] # "closeSucceeded"
  BY <1>2, <1>3 DEF Goto, LaunchInv, TypeOK, PreLaunch, LaunchPcs, BootPcs
<1> QED BY <1>1, <1>4 DEF HandOver

LEMMA LaunchHandOver ==
  ASSUME OneServer, LaunchInv, HandOver, NEW p \in Procs, LaunchStep(p)
  PROVE  HandOver'
<1>1. TypeOK
  BY DEF LaunchInv
<1>2. CASE pc[p] \in PreLaunch
  BY <1>2, BeforeStartHandOver
<1>3. CASE MarkRunning(p)
  <2>1. pc[p] = "running" /\ job' = job
    BY <1>3 DEF MarkRunning
  <2>2. CASE status' = "running" /\ \E l \in {"idle", "closeSucceeded"} : Goto(p, l)
    <3>1. \A q \in Procs : pc'[q] \in PreLaunch \cup {"check"} => pc'[q] = pc[q]
      BY <1>1, <2>2 DEF Goto, TypeOK, PreLaunch, LaunchPcs
    <3> QED BY <2>1, <2>2, <3>1 DEF HandOver, Observed, Refreshable
  <2>3. CASE status' = status /\ Goto(p, "readErr")
    BY <1>1, <2>1, <2>3, MoveHandOver DEF PreLaunch, LaunchPcs
  <2> QED BY <1>3, <2>2, <2>3 DEF MarkRunning, LaunchError
<1>4. CASE SendTmux(p) \/ TmuxReturns(p) \/ TmuxFails(p) \/ RecordFailureRead(p)
             \/ RecordFailureWrite(p)
  <2>1. job' = job /\ status' \in {status} \cup Observed
    BY <1>4 DEF SendTmux, TmuxReturns, TmuxFails, RecordFailureRead, RecordFailureWrite, CAS,
                db, Observed, Terminal
  <2>2. \E l \in {"sent", "running", "readErr", "markErr", "markBlk", "idle",
                  "closeBlocked", "closeFailed"} : Goto(p, l)
    BY <1>4 DEF SendTmux, TmuxReturns, TmuxFails, RecordFailureRead, RecordFailureWrite,
                LaunchError
  <2> QED BY <1>1, <2>1, <2>2, MoveHandOver DEF PreLaunch, LaunchPcs
<1>5. \/ pc[p] \in PreLaunch \/ MarkRunning(p) \/ SendTmux(p) \/ TmuxReturns(p)
      \/ TmuxFails(p) \/ RecordFailureRead(p) \/ RecordFailureWrite(p)
  BY DEF LaunchStep, LoadReserved, ReservePreflight, Preflight, EnsureInputs, SetupRemote,
         MarkStarting, PreLaunch, LaunchPcs
<1> QED BY <1>2, <1>3, <1>4, <1>5

LEMMA ControlPlaneHandOver ==
  ASSUME OneServer, LaunchInv, HandOver,
         \/ SubmitVisible \/ CliDies
         \/ \E s \in Servers : \/ SubmitAsync(s) \/ LaunchTimeout(s)
                               \/ Boot(s) \/ Crash(s) \/ ResumeStep(s) \/ JobStep(s)
  PROVE  HandOver'
<1> USE DEF db
<1>1. TypeOK /\ "none" \notin Observed /\ "failed" \in Observed
  BY DEF LaunchInv, Observed, Refreshable, Terminal
<1>2. ASSUME NEW p \in Procs, NEW l, Goto(p, l), status = "none" \/ status' = status,
             l \notin {"closeSucceeded"}, job' # "succeeded"
      PROVE  HandOver'
  <2>1. \A q \in Procs : pc'[q] = "closeSucceeded" => pc[q] = "closeSucceeded"
    BY <1>1, <1>2 DEF Goto, TypeOK
  <2> QED BY <1>1, <1>2, <2>1 DEF HandOver
<1>3. CASE SubmitVisible
  <2>1. Cli \in Procs /\ Goto(Cli, "load") /\ status = "none" /\ job' = job
    BY <1>3 DEF SubmitVisible, Procs
  <2> QED BY <1>1, <1>2, <2>1 DEF HandOver
<1>4. CASE CliDies
  BY <1>1, <1>4, MoveHandOver DEF CliDies, Procs, PreLaunch, LaunchPcs
<1>5. ASSUME NEW s \in Servers, SubmitAsync(s) PROVE HandOver'
  BY <1>2, <1>5 DEF SubmitAsync, Procs
<1>6. ASSUME NEW s \in Servers, LaunchTimeout(s) PROVE HandOver'
  BY <1>6, QuietHandOver DEF LaunchTimeout
<1>7. ASSUME NEW s \in Servers, Boot(s) \/ Crash(s) \/ ResumeStep(s) PROVE HandOver'
  <2>1. /\ status' \in {status, "failed"} /\ (job' = "succeeded" => job = "succeeded")
        /\ \E l \in {"idle", "requeue", "list", "claim", "scan", "orphan"} : Goto(s, l)
    BY <1>7 DEF Boot, Crash, ResumeStep, RequeueInterrupted, ListPending, ScanOrphan,
                MarkOrphan, CAS
  <2> QED BY <1>1, <2>1, MoveHandOver DEF Procs, PreLaunch, LaunchPcs
<1>8. ASSUME NEW s \in Servers, ClaimRunLaunchJob(s) PROVE HandOver'
  <2>1. CASE job = "queued"
    BY <1>2, <1>8, <2>1 DEF ClaimRunLaunchJob, Procs
  <2>2. CASE job # "queued"
    BY <1>1, <1>8, <2>2, MoveHandOver DEF ClaimRunLaunchJob, Procs, PreLaunch, LaunchPcs
  <2> QED BY <2>1, <2>2
<1>9. ASSUME NEW s \in Servers, CheckLaunchable(s) \/ RegisterLaunchCancel(s) PROVE HandOver'
  <2>1. job' = job /\ job # "succeeded" /\ status' = status /\ s \in Procs
    BY <1>9 DEF CheckLaunchable, RegisterLaunchCancel, HandOver, PreLaunch, Procs
  <2>2. CASE \E l \in {"register", "load", "closeFailed"} : Goto(s, l)
    BY <1>2, <2>1, <2>2
  <2>3. CASE Goto(s, "closeSucceeded") /\ status \in Refreshable \cup {"succeeded"}
    BY <2>1, <2>3 DEF HandOver, Observed, Terminal
  <2> QED BY <1>9, <2>2, <2>3 DEF CheckLaunchable, RegisterLaunchCancel
<1>10. ASSUME NEW s \in Servers, CompleteLaunchJob(s) PROVE HandOver'
  <2>1. /\ s \in Procs /\ pc[s] \in ClosePcs /\ Goto(s, "idle") /\ status' = status
        /\ job' = "succeeded" => pc[s] = "closeSucceeded"
    BY <1>10 DEF CompleteLaunchJob, JobState, ClosePcs, Procs
  <2>2. \A q \in Procs : q # s => pc[q] \in BootPcs \cup {"idle"}
    BY <2>1, Exclusive DEF ClosePcs, BootPcs
  <2>3. \A q \in Procs : pc'[q] \in BootPcs \cup {"idle"}
    BY <1>1, <2>1, <2>2 DEF Goto, TypeOK
  <2> QED BY <2>1, <2>3 DEF HandOver, BootPcs, PreLaunch, LaunchPcs
<1> QED
  BY <1>3, <1>4, <1>5, <1>6, <1>7, <1>8, <1>9, <1>10 DEF JobStep

\* The probes and Cancel write nothing but ends, and Cancel closes the job as
\* failed; the resource writes neither.
LEMMA OthersHandOver ==
  ASSUME LifecycleInv, HandOver,
         \/ MachineDies \/ RemoteStep \/ StopStep
         \/ \E p \in Procs : TmuxExecutes(p) \/ TmuxLost(p) \/ StopRead(p)
         \/ \E t \in Threads : ProbeStep(t) \/ ProbeFails(t)
  PROVE  HandOver'
<1> USE DEF db, launch, machine
<1>1. CASE \/ MachineDies \/ RemoteStep
           \/ \E p \in Procs : TmuxExecutes(p) \/ TmuxLost(p)
  BY <1>1, QuietHandOver
  DEF MachineDies, RemoteStep, CommandEnds, WrapperWritesExit, SessionCloses, TmuxExecutes,
      TmuxLost
<1>2. CASE StopStep \/ \E p \in Procs : StopRead(p)
  <2>1. pc' = pc /\ status' \in {status} \cup Terminal
    BY <1>2, StopQuiet
  <2>2. job' = "succeeded" => job = "succeeded"
    BY <1>2 DEF StopStep, StopDecide, StopLocalWrite, StopCloseJob, StopProbed, StopSignal,
                StopKill, StopWrite, StopRead, KillSession
  <2> QED BY <2>1, <2>2, QuietHandOver
<1>3. CASE \E t \in Threads : ProbeStep(t) \/ ProbeFails(t)
  BY <1>3, ProbeQuiet, QuietHandOver DEF LifecycleInv, LaunchInv, StaleWrites
<1> QED BY <1>1, <1>2, <1>3

\* With one control plane, a launch job is reported succeeded only of a run
\* that has been started or is over, and such a run is never a local one again:
\* neither a retried launch nor a revived cancellation takes it back.
THEOREM SucceededIsHandedOver ==
  ASSUME OneServer
  PROVE  Spec => []LaunchedIsHandedOver
<1>1. Init => LifecycleInv /\ HandOver
  BY InitLaunchInv, InitStaleWrites, InitHandOver DEF LifecycleInv
<1>2. LifecycleInv /\ HandOver /\ [Next]_vars => (LifecycleInv /\ HandOver)'
  <2> SUFFICES ASSUME LifecycleInv, HandOver, [Next]_vars
               PROVE  LifecycleInv' /\ HandOver'
    OBVIOUS
  <2>1. LifecycleInv'
    BY NextLifecycleInv
  <2>2. CASE UNCHANGED vars
    BY <2>2, QuietHandOver, <2>1 DEF vars, db, launch
  <2>3. CASE Next
    BY <2>1, <2>3, LaunchHandOver, ControlPlaneHandOver, OthersHandOver DEF Next, LifecycleInv
  <2> QED BY <2>1, <2>2, <2>3
<1>3. HandOver => LaunchedIsHandedOver
  BY DEF HandOver, Observed, Refreshable, Terminal, LaunchedIsHandedOver
<1> QED BY <1>1, <1>2, <1>3, PTL DEF Spec
-----------------------------------------------------------------------------
(* The refinement: the row is an account of one execution.  What is missing  *)
(* is that nobody is before the write of starting once the run has been      *)
(* observable: also when the command was lost and nothing was executed.      *)

Past  == Refreshable \cup {"succeeded", "lost"}
Early == PreLaunch \cup BlkPcs

ObservedIsPast == status \in Past => \A p \in Procs : pc[p] \notin Early

\* A step that makes no run observable and brings no process before the launch.
LEMMA PastIsKept ==
  ASSUME ObservedIsPast, status' \in Past => status \in Past,
         \A p \in Procs : pc'[p] \in Early => pc[p] \in Early
  PROVE  ObservedIsPast'
  BY DEF ObservedIsPast

LEMMA MovePast ==
  ASSUME TypeOK, ObservedIsPast, NEW p \in Procs, NEW l, Goto(p, l),
         l \in Early => pc[p] \in Early, status' \in Past => status \in Past
  PROVE  ObservedIsPast'
<1>1. \A q \in Procs : pc'[q] \in Early => pc[q] \in Early
  BY DEF Goto, TypeOK
<1> QED BY <1>1, PastIsKept

LEMMA LaunchPast ==
  ASSUME OneServer, LaunchInv, ObservedIsPast, NEW p \in Procs, LaunchStep(p)
  PROVE  ObservedIsPast'
<1>1. TypeOK
  BY DEF LaunchInv
<1>2. CASE MarkStarting(p)
  <2>1. CASE Goto(p, "send")
    <3>1. pc[p] \notin BootPcs \cup {"idle"}
      BY <1>2 DEF MarkStarting, BootPcs
    <3>2. \A q \in Procs : q # p => pc[q] \in BootPcs \cup {"idle"}
      BY <3>1, Exclusive
    <3>3. \A q \in Procs : pc'[q] \notin Early
      BY <1>1, <2>1, <3>2 DEF Goto, TypeOK, Early, PreLaunch, LaunchPcs, BlkPcs, BootPcs
    <3> QED BY <3>3 DEF ObservedIsPast
  <2>2. CASE Goto(p, "readErr") /\ status' = status
    BY <1>1, <2>2, MovePast DEF Early, PreLaunch, LaunchPcs, BlkPcs
  <2> QED BY <1>2, <2>1, <2>2 DEF MarkStarting, LaunchError
<1>3. CASE LoadReserved(p) \/ ReservePreflight(p) \/ Preflight(p) \/ EnsureInputs(p)
             \/ SetupRemote(p)
  <2>1. pc[p] \in Early
    BY <1>3 DEF LoadReserved, ReservePreflight, Preflight, EnsureInputs, SetupRemote, Early,
                PreLaunch, LaunchPcs
  <2>2. \E l \in Pcs : Goto(p, l)
    BY <1>3 DEF LoadReserved, ReservePreflight, Preflight, EnsureInputs, SetupRemote,
                LaunchError, Pcs, LaunchPcs, FailPcs
  <2>3. status' \in {status, "preflighting", "failed"}
    BY <1>3 DEF LoadReserved, ReservePreflight, Preflight, EnsureInputs, SetupRemote, CAS, db
  <2> QED BY <1>1, <2>1, <2>2, <2>3, MovePast DEF Past, Refreshable
<1>4. CASE SendTmux(p) \/ TmuxReturns(p) \/ TmuxFails(p) \/ MarkRunning(p)
  <2>1. \E l \in {"sent", "running", "readErr", "idle", "closeSucceeded"} : Goto(p, l)
    BY <1>4 DEF SendTmux, TmuxReturns, TmuxFails, MarkRunning, LaunchError
  <2>2. status' \in {status, "failed"} \/ status = "starting"
    BY <1>4 DEF SendTmux, TmuxReturns, TmuxFails, MarkRunning, CAS, db
  <2> QED
    BY <1>1, <2>1, <2>2, MovePast DEF Past, Refreshable, Early, PreLaunch, LaunchPcs, BlkPcs
<1>5. CASE RecordFailureRead(p) \/ RecordFailureWrite(p)
  <2>1. \E l \in {"markErr", "markBlk", "idle", "closeBlocked", "closeFailed"} :
          Goto(p, l) /\ (l = "markBlk" => pc[p] = "readBlk")
    BY <1>5 DEF RecordFailureRead, RecordFailureWrite
  <2>2. status' \in {status, "failed"}
    BY <1>5 DEF RecordFailureRead, RecordFailureWrite, CAS, db
  <2> QED
    BY <1>1, <2>1, <2>2, MovePast DEF Past, Refreshable, Early, PreLaunch, LaunchPcs, BlkPcs
<1> QED BY <1>2, <1>3, <1>4, <1>5 DEF LaunchStep

LEMMA ControlPlanePast ==
  ASSUME LaunchInv, ObservedIsPast,
         \/ SubmitVisible \/ CliDies
         \/ \E s \in Servers : \/ SubmitAsync(s) \/ LaunchTimeout(s)
                               \/ Boot(s) \/ Crash(s) \/ ResumeStep(s) \/ JobStep(s)
  PROVE  ObservedIsPast'
<1> USE DEF db
<1>1. TypeOK
  BY DEF LaunchInv
<1>2. CASE status' \notin Past
  BY <1>2 DEF ObservedIsPast
<1>3. CASE SubmitVisible
  BY <1>2, <1>3 DEF SubmitVisible, Past, Refreshable
<1>4. CASE CliDies
  BY <1>1, <1>4, MovePast DEF CliDies, Procs, Early, PreLaunch, LaunchPcs, BlkPcs
<1>5. ASSUME NEW s \in Servers, SubmitAsync(s) PROVE ObservedIsPast'
  BY <1>2, <1>5 DEF SubmitAsync, Past, Refreshable
<1>6. ASSUME NEW s \in Servers, LaunchTimeout(s) PROVE ObservedIsPast'
  BY <1>6 DEF LaunchTimeout, ObservedIsPast
<1>7. ASSUME NEW s \in Servers, Boot(s) \/ Crash(s) \/ ResumeStep(s) PROVE ObservedIsPast'
  <2>1. /\ status' \in {status, "failed"}
        /\ \E l \in {"idle", "requeue", "list", "claim", "scan", "orphan"} : Goto(s, l)
    BY <1>7 DEF Boot, Crash, ResumeStep, RequeueInterrupted, ListPending, ScanOrphan,
                MarkOrphan, CAS
  <2> QED
    BY <1>1, <2>1, MovePast DEF Procs, Past, Refreshable, Early, PreLaunch, LaunchPcs, BlkPcs
<1>8. ASSUME NEW s \in Servers, JobStep(s) PROVE ObservedIsPast'
  <2>1. status' = status /\ s \in Procs
    BY <1>8 DEF JobStep, ClaimRunLaunchJob, CheckLaunchable, RegisterLaunchCancel,
                CompleteLaunchJob, Procs
  <2>2. CASE CheckLaunchable(s) /\ status \in {"queued", "preflighting"}
    BY <1>2, <2>1, <2>2 DEF Past, Refreshable
  <2>3. CASE ~(CheckLaunchable(s) /\ status \in {"queued", "preflighting"})
    <3>1. \E l \in {"check", "idle", "closeSucceeded", "closeFailed", "load"} :
            Goto(s, l) /\ (l = "load" => pc[s] = "register")
      BY <1>8, <2>3 DEF JobStep, ClaimRunLaunchJob, CheckLaunchable, RegisterLaunchCancel,
                        CompleteLaunchJob
    <3> QED
      BY <1>1, <2>1, <3>1, MovePast DEF Early, PreLaunch, LaunchPcs, BlkPcs
  <2> QED BY <2>2, <2>3
<1> QED BY <1>3, <1>4, <1>5, <1>6, <1>7, <1>8

\* The others move no process, and a run they report lost or succeeded was
\* observable when they looked.
LEMMA OthersPast ==
  ASSUME LifecycleInv, ObservedIsPast,
         \/ MachineDies \/ RemoteStep \/ StopStep
         \/ \E p \in Procs : TmuxExecutes(p) \/ TmuxLost(p) \/ StopRead(p)
         \/ \E t \in Threads : ProbeStep(t) \/ ProbeFails(t)
  PROVE  ObservedIsPast'
<1> USE DEF db, launch, machine
<1>1. pc' = pc
  BY DEF MachineDies, RemoteStep, CommandEnds, WrapperWritesExit, SessionCloses, TmuxExecutes,
         TmuxLost, StopStep, StopDecide, StopLocalWrite, StopCloseJob, StopProbed, StopSignal,
         StopKill, StopWrite, StopRead, ProbeStep, ProbeRead, ProbeExitFile, ProbeSession,
         ProbeLogs, ProbePersist, ProbeFails
<1>2. status' \in {status, "cancelled"} \/ status \in Refreshable
  <2>1. ASSUME NEW t \in Threads, ProbePersist(t) PROVE status' = status \/ status \in Refreshable
    BY <2>1 DEF ProbePersist, CAS, LifecycleInv, StaleWrites
  <2> QED
    BY <2>1 DEF MachineDies, RemoteStep, CommandEnds, WrapperWritesExit, SessionCloses,
         TmuxExecutes, TmuxLost, StopStep, StopDecide, StopLocalWrite, StopCloseJob, StopProbed,
         StopSignal, StopKill, StopWrite, StopRead, ProbeStep, ProbeRead, ProbeExitFile,
         ProbeSession, ProbeLogs, ProbeFails, CAS
<1> QED BY <1>1, <1>2, PastIsKept DEF Past, Refreshable

AccountInv == LifecycleInv /\ VerdictInv /\ ObservedIsPast

LEMMA InitAccountInv == Init => AccountInv
<1>1. Init => ObservedIsPast
  BY DEF Init, ObservedIsPast, Past, Refreshable
<1> QED
  BY <1>1, InitLaunchInv, InitStaleWrites, InitVerdictInv DEF AccountInv, LifecycleInv

LEMMA NextAccountInv ==
  ASSUME OneServer
  PROVE  AccountInv /\ [Next]_vars => AccountInv'
<1> SUFFICES ASSUME AccountInv, [Next]_vars PROVE AccountInv'
  OBVIOUS
<1>1. LifecycleInv /\ VerdictInv /\ ObservedIsPast /\ LaunchInv
  BY DEF AccountInv, LifecycleInv
<1>2. LifecycleInv'
  BY <1>1, NextLifecycleInv
<1>3. CASE UNCHANGED vars
  BY <1>1, <1>2, <1>3 DEF vars, db, launch, machine, VerdictInv, ResourceFacts,
       AnswerMeansStarted, SeenSuccess, VerdictMatchesExit, AccountInv, ObservedIsPast
<1>4. CASE Next
  <2>1. VerdictInv'
    BY <1>1, <1>2, <1>4, LaunchVerdict, ControlPlaneVerdict, ResourceVerdict, ProbeVerdict,
       StopVerdict DEF Next
  <2>2. ObservedIsPast'
    BY <1>1, <1>4, LaunchPast, ControlPlanePast, OthersPast DEF Next
  <2> QED BY <1>2, <2>1, <2>2 DEF AccountInv
<1> QED BY <1>3, <1>4

Accounted == Account!Next \/ UNCHANGED <<status, starts, result>>

\* The writes of an end that is not a success, by whomever.
LEMMA GivesUp ==
  ASSUME AccountInv, status # "none", UNCHANGED <<starts, result>>,
         status \in Terminal /\ status # "cancelled" => status' = status,
         starts > 0 /\ status \in Terminal => status' = status,
         status' \in {status, "failed", "cancelled"}
  PROVE  Accounted
<1>1. status \in Statuses /\ starts \in {0, 1}
  BY DEF AccountInv, LifecycleInv, LaunchInv, TypeOK, OneCommand
<1> QED
  BY <1>1 DEF Accounted, Account!Next, Account!GiveUp, Account!Becomes, Account!Local,
              Account!Observable, Statuses, Terminal, Refreshable

\* The launcher: it takes a row back only before anything was observable, and
\* starts and reports one execution.
LEMMA LaunchAccounted ==
  ASSUME OneServer, AccountInv, Next, NEW p \in Procs, LaunchStep(p)
  PROVE  Accounted
<1> USE DEF Account!Becomes
<1>1. /\ TypeOK /\ LaunchInv /\ LifecycleInv /\ ObservedIsPast /\ VerdictInv
      /\ starts \in {0, 1}
  BY DEF AccountInv, LifecycleInv, LaunchInv, OneCommand
<1>2. UNCHANGED <<starts, result>>
  BY DEF LaunchStep, LoadReserved, ReservePreflight, Preflight, EnsureInputs, SetupRemote,
         MarkStarting, SendTmux, TmuxReturns, TmuxFails, MarkRunning, RecordFailureRead,
         RecordFailureWrite, machine
<1>3. pc[p] \notin BootPcs \cup {"idle"}
  BY DEF LaunchStep, LoadReserved, ReservePreflight, Preflight, EnsureInputs, SetupRemote,
         MarkStarting, SendTmux, TmuxReturns, TmuxFails, MarkRunning, RecordFailureRead,
         RecordFailureWrite, BootPcs
<1>4. status \in Statuses \ {"none"}
  BY <1>1, <1>3 DEF TypeOK, LaunchInv, Unsubmitted
<1>5. pc[p] \in Early => starts = 0 /\ status \notin Past
  BY <1>1 DEF LaunchInv, CommittedIsPast, Committed, ObservedIsPast, Early
<1>6. CASE ReservePreflight(p)
  <2>1. pc[p] \in Early
    BY <1>6 DEF ReservePreflight, Early, PreLaunch, LaunchPcs
  <2>2. starts = 0 /\ status \in {"queued", "preflighting", "failed", "cancelled"}
    BY <1>4, <1>5, <2>1 DEF Statuses, Terminal, Refreshable, Past
  <2>3. status' \in {status, "preflighting"}
    BY <1>6 DEF ReservePreflight
  <2> QED
    BY <1>2, <2>2, <2>3 DEF Accounted, Account!Next, Account!Prepare, Account!Local
<1>7. CASE MarkStarting(p)
  <2>1. pc[p] \in Early
    BY <1>7 DEF MarkStarting, Early, PreLaunch, LaunchPcs
  <2>2. status' = status \/ (status = "preflighting" /\ status' = "starting")
    BY <1>7 DEF MarkStarting
  <2> QED
    BY <1>2, <1>5, <2>1, <2>2 DEF Accounted, Account!Next, Account!Begin
<1>8. CASE MarkRunning(p)
  <2>1. starts = 1
    BY <1>1, <1>8 DEF MarkRunning, VerdictInv, AnswerMeansStarted
  <2>2. status' = status \/ (status = "starting" /\ status' = "running")
    BY <1>8 DEF MarkRunning
  <2> QED
    BY <1>2, <2>1, <2>2 DEF Accounted, Account!Next, Account!Report
<1>9. CASE SetupRemote(p) \/ TmuxFails(p)
  <2>1. status' = status \/ (status \in {"preflighting", "starting"} /\ status' = "failed")
    BY <1>9 DEF SetupRemote, TmuxFails, CAS
  <2> QED
    BY <1>2, <1>4, <2>1, GivesUp DEF Terminal
<1>10. CASE RecordFailureWrite(p)
  <2>1. status' \in {status, "failed"}
    BY <1>10 DEF RecordFailureWrite, CAS
  <2>2. starts > 0 /\ status \in Terminal => status' = status
    BY <1>1, VerdictIsKept
  <2>3. status \in Terminal /\ status # "cancelled" => status' = status
    <3>1. CASE pc[p] = "markBlk"
      <4>1. status \notin Past
        BY <1>5, <3>1 DEF Early, BlkPcs
      <4> QED BY <2>1, <4>1 DEF Past, Terminal
    <3>2. CASE pc[p] # "markBlk"
      BY <1>10, <3>2 DEF RecordFailureWrite, CAS
    <3> QED BY <3>1, <3>2
  <2> QED
    BY <1>2, <1>4, <2>1, <2>2, <2>3, GivesUp
<1>11. CASE LoadReserved(p) \/ Preflight(p) \/ EnsureInputs(p) \/ SendTmux(p)
              \/ TmuxReturns(p) \/ RecordFailureRead(p)
  <2>1. status' = status
    BY <1>11 DEF LoadReserved, Preflight, EnsureInputs, SendTmux, TmuxReturns,
                 RecordFailureRead, db
  <2> QED BY <1>2, <2>1 DEF Accounted
<1> QED BY <1>6, <1>7, <1>8, <1>9, <1>10, <1>11 DEF LaunchStep

LEMMA ControlPlaneAccounted ==
  ASSUME AccountInv,
         \/ SubmitVisible \/ CliDies
         \/ \E s \in Servers : \/ SubmitAsync(s) \/ LaunchTimeout(s)
                               \/ Boot(s) \/ Crash(s) \/ ResumeStep(s) \/ JobStep(s)
  PROVE  Accounted
<1> USE DEF db, machine
<1>1. UNCHANGED <<starts, result>>
  BY DEF SubmitVisible, CliDies, SubmitAsync, LaunchTimeout, Boot, Crash, ResumeStep,
         RequeueInterrupted, ListPending, ScanOrphan, MarkOrphan, JobStep,
         ClaimRunLaunchJob, CheckLaunchable, RegisterLaunchCancel, CompleteLaunchJob
<1>2. \/ status' = status
      \/ status = "none" /\ status' = "queued"
      \/ status \in {"queued", "preflighting"} /\ status' = "failed"
  <2>1. ASSUME NEW s \in Servers, MarkOrphan(s)
        PROVE  status' = status \/ (status \in {"queued", "preflighting"} /\ status' = "failed")
    BY <2>1 DEF MarkOrphan, CAS, AccountInv, LifecycleInv, StaleWrites, Procs
  <2> QED
    BY <2>1 DEF SubmitVisible, CliDies, SubmitAsync, LaunchTimeout, Boot, Crash, ResumeStep,
         RequeueInterrupted, ListPending, ScanOrphan, JobStep,
         ClaimRunLaunchJob, CheckLaunchable, RegisterLaunchCancel, CompleteLaunchJob
<1> QED
  BY <1>1, <1>2 DEF Accounted, Account!Next, Account!Submit, Account!GiveUp, Account!Becomes,
                    Account!Local

LEMMA ResourceAccounted ==
  ASSUME AccountInv,
         \/ MachineDies \/ RemoteStep
         \/ \E p \in Procs : TmuxExecutes(p) \/ TmuxLost(p)
  PROVE  Accounted
<1> USE DEF db, machine
<1>1. CASE CommandEnds
  <2>1. starts = 1 /\ result = "none" /\ result' \in {"ok", "bad"} /\ UNCHANGED <<status, starts>>
    BY <1>1 DEF CommandEnds, AccountInv, VerdictInv, ResourceFacts, LifecycleInv, LaunchInv,
                OneCommand
  <2> QED BY <2>1 DEF Accounted, Account!Next, Account!Exit
<1>2. ASSUME NEW p \in Procs, TmuxExecutes(p) PROVE Accounted
  <2>1. starts = 0 /\ remote = "absent" /\ result = "none" /\ status \in Refreshable \cup Terminal
    BY <1>2 DEF TmuxExecutes, AccountInv, LifecycleInv, LaunchInv, OneCommand, VerdictInv,
                ResourceFacts, CommittedIsPast, Committed
  <2>2. starts' = 1 /\ result' = result /\ status' = status
    BY <1>2, <2>1 DEF TmuxExecutes, HasExitFile, SessionAlive
  <2> QED
    BY <2>1, <2>2 DEF Accounted, Account!Next, Account!Execute, Account!Observable,
                      Account!Ended, Refreshable, Terminal
<1>3. CASE \/ MachineDies \/ WrapperWritesExit \/ SessionCloses
           \/ \E p \in Procs : TmuxLost(p)
  BY <1>3 DEF MachineDies, WrapperWritesExit, SessionCloses, TmuxLost, Accounted
<1> QED BY <1>1, <1>2, <1>3 DEF RemoteStep

LEMMA ProbeAccounted ==
  ASSUME AccountInv, NEW t \in Threads, ProbeStep(t) \/ ProbeFails(t)
  PROVE  Accounted
<1> USE DEF db, machine
<1>1. UNCHANGED <<starts, result>>
  BY DEF ProbeStep, ProbeRead, ProbeExitFile, ProbeSession, ProbeLogs, ProbePersist, ProbeFails
<1>2. CASE ProbePersist(t) /\ status' # status
  <2>1. /\ status \in Refreshable /\ status' \in Terminal
        /\ status' = "succeeded" => result = "ok"
    BY <1>2 DEF ProbePersist, CAS, AccountInv, LifecycleInv, StaleWrites, VerdictInv, SeenSuccess
  <2> QED
    BY <1>1, <2>1 DEF Accounted, Account!Next, Account!Succeed, Account!Lose, Account!GiveUp,
                      Account!Becomes, Account!Observable, Refreshable, Terminal
<1>3. CASE ~ProbePersist(t)
  BY <1>1, <1>3 DEF ProbeStep, ProbeRead, ProbeExitFile, ProbeSession, ProbeLogs, ProbeFails,
                    Accounted
<1> QED BY <1>1, <1>2, <1>3 DEF Accounted

LEMMA StopAccounted ==
  ASSUME AccountInv, StopStep \/ \E p \in Procs : StopRead(p)
  PROVE  Accounted
<1> USE DEF db, machine
<1>1. CASE StopLocalWrite \/ StopWrite
  <2>1. /\ UNCHANGED <<starts, result>>
        /\ \/ status' = status
           \/ status \in {"queued", "preflighting"} \cup Refreshable /\ status' = "cancelled"
    BY <1>1 DEF StopLocalWrite, StopWrite, CAS, AccountInv, LifecycleInv, StaleWrites, Refreshable
  <2> QED
    BY <2>1 DEF Accounted, Account!Next, Account!GiveUp, Account!Becomes, Account!Local,
                Account!Observable, Refreshable
<1>2. CASE StopSignal \/ StopKill
  <2>1. UNCHANGED <<status, starts>>
    BY <1>2 DEF StopSignal, StopKill, KillSession
  <2>2. result' = result \/ (remote = "live" /\ result' \in {"ok", "bad"})
    BY <1>2 DEF StopSignal, StopKill, KillSession
  <2>3. remote = "live" => starts = 1 /\ result = "none"
    BY DEF AccountInv, VerdictInv, ResourceFacts, LifecycleInv, LaunchInv, OneCommand
  <2> QED BY <2>1, <2>2, <2>3 DEF Accounted, Account!Next, Account!Exit
<1>3. CASE StopDecide \/ StopCloseJob \/ StopProbed \/ \E p \in Procs : StopRead(p)
  BY <1>3 DEF StopDecide, StopCloseJob, StopProbed, StopRead, Accounted
<1> QED BY <1>1, <1>2, <1>3 DEF StopStep

\* With one control plane, the row of a run is an account of one execution: the
\* launches, resumptions, probes and cancellations that interleave with crashes
\* and lost commands implement RunAccount step by step.
THEOREM RowIsAccount ==
  ASSUME OneServer
  PROVE  Spec => RunIsAccounted
<1>1. Init => Account!Init
  BY DEF Init, Account!Init
<1>2. AccountInv /\ [Next]_vars => [Account!Next]_<<status, starts, result>>
  <2> SUFFICES ASSUME AccountInv, [Next]_vars PROVE Accounted
    BY DEF Accounted
  <2>1. CASE UNCHANGED vars
    BY <2>1 DEF vars, db, machine, Accounted
  <2>2. CASE Next
    BY <2>2, LaunchAccounted, ControlPlaneAccounted, ResourceAccounted, ProbeAccounted,
       StopAccounted DEF Next
  <2> QED BY <2>1, <2>2
<1>3. Account!vars = <<status, starts, result>>
  BY DEF Account!vars
<1> QED
  BY <1>1, <1>2, <1>3, InitAccountInv, NextAccountInv, PTL
  DEF Spec, RunIsAccounted, Account!Spec, Account!vars

\* launchPersistedSubmission never takes back a run that is observable: what the
\* comment says of it is true of one control plane, and only of one.
THEOREM ObservableStays ==
  ASSUME OneServer
  PROVE  Spec => ObservableIsNotRelaunched
<1>1. AccountInv /\ [Next]_vars
        => [(status \in Refreshable) => status' \notin {"queued", "preflighting"}]_vars
  <2> SUFFICES ASSUME AccountInv, Next, status \in Refreshable
               PROVE  status' \notin {"queued", "preflighting"}
    OBVIOUS
  <2>1. Accounted
    BY LaunchAccounted, ControlPlaneAccounted, ResourceAccounted, ProbeAccounted,
       StopAccounted DEF Next
  <2> QED
    BY <2>1 DEF Accounted, Account!Next, Account!Submit, Account!Prepare, Account!Begin,
                Account!Execute, Account!Exit, Account!Report, Account!Succeed, Account!Lose,
                Account!GiveUp, Account!Becomes, Account!Local, Refreshable
<1> QED
  BY <1>1, InitAccountInv, NextAccountInv, PTL DEF Spec, ObservableIsNotRelaunched
=============================================================================
