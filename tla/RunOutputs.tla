----------------------------- MODULE RunOutputs -----------------------------
(***************************************************************************)
(* What becomes of the outputs of one run once its process has ended: the  *)
(* discovery of its files on the compute node, their publication through   *)
(* transfer jobs, the verdict on the run's data and the final manifest.    *)
(*                                                                         *)
(* Two kinds of goroutine do this work.  Whoever ends the run starts       *)
(* finalizeRunEvidence, which discovers, publishes and writes the          *)
(* manifest, within 30 minutes, and a Cancel that comes too late starts it *)
(* again; the manager of every server publishes each succeeded run whose   *)
(* data is not settled, for ever.  A lock per run and per process is all   *)
(* that keeps them apart.  A run may be ended by a CLI command as well,    *)
(* whose executor cannot publish and whose process soon ends.              *)
(***************************************************************************)
EXTENDS Naturals

CONSTANTS
    MaxOutputs,   \* bound on the outputs that a run declares
    Declarations, \* how many of them it may declare
    Required,     \* those that are required, by their ordinals
    Revisions,    \* the contents of a file, told apart by their hash
    Absent,       \* no file
    Servers,      \* the processes with a manager: aexp serve
    Submitters,   \* the other processes that can publish: aexp run submit
    Clients,      \* the processes that cannot: aexp run list, status, refresh and cancel
    Evidences,    \* the goroutines of finalizeRunEvidence: a bound on those at work at once
    MaxEvents     \* bound on what may happen beside: changes of the files, copies that are
                  \* lost, requests, retries and late cancels of the user, time-outs, servers
                  \* that end, statements that the database refuses

ASSUME OutputAssumption ==
    /\ MaxOutputs \in Nat /\ Declarations \subseteq 0 .. MaxOutputs
    /\ Required \subseteq 1 .. MaxOutputs
    /\ Absent \notin Revisions
    /\ {"unknown", "missing"} \cap Revisions = {}
    /\ Servers # {} /\ Evidences # {}
    /\ Servers \cap (Submitters \cup Clients) = {} /\ Submitters \cap Clients = {}
    /\ Evidences \cap (Servers \cup Submitters \cup Clients) = {}
    /\ {"request", "free", "nobody"} \cap (Servers \cup Submitters \cup Clients \cup Evidences) = {}
    /\ MaxEvents \in Nat

VARIABLES
    outputs,    \* the number of the run's rows in run_output_bindings
    status,     \* runs.status
    data,       \* runs.data_finalization_state
    blame,      \* runs.data_finalization_error: the output it is about, 0 for none
    binding,    \* run_output_bindings
    artifacts,  \* the run's rows in artifacts: the revision found for each output
    collection, \* artifact_collections.state
    manifest,   \* run_manifests: a draft, or what the final one says
    remote,     \* the files in the run's directory
    dest,       \* path_placements of the destinations: observed state or revision
    job,        \* transfer_jobs, one for each plan
    pc, seen, plan, at, verdict, \* the goroutines
    expired,    \* the goroutines whose context is cancelled or has timed out
    host,       \* the process in which finalizeRunEvidence and the request run
    lock,       \* finalizationLocks, one for each process that can publish
    refused,    \* history: the outputs, and the run (0), of which a statement was refused
    events      \* how many of the bounded events have happened

rows    == <<outputs, status, data, blame, binding, artifacts, collection, manifest>>
world   == <<remote, dest, job>>
local   == <<seen, plan, at, verdict>>
threads == <<pc, local, expired, host, lock>>
vars    == <<rows, world, threads, refused, events>>

Processes  == Servers \cup Submitters \cup Clients
Publishers == Servers \cup Submitters       \* e.runIO is set
Outputs    == 1 .. MaxOutputs
Declared   == 1 .. outputs
Finalizers == Servers \cup Evidences        \* a server stands for its manager's goroutine
Collectors == Evidences \cup {"request"}
Threads    == Finalizers \cup Collectors
Process(t) == IF t \in Servers THEN t ELSE host[t]

Found    == Revisions \cup {Absent}
Observed == Revisions \cup {"unknown", "missing"}
Plans    == [output : Outputs, revision : Revisions, dest : Observed]
NoPlan   == [output |-> 0, revision |-> Absent, dest |-> "unknown"]

Settled  == {"completed", "skipped", "blocked", "failed"}
JobState == {"none", "queued", "completed", "failed"}   \* failed: or blocked, or cancelled
AllIn(state) == [o \in Outputs |-> [state |-> state, plan |-> NoPlan]]
Draft    == [data |-> "draft", binding |-> AllIn("pending"), by |-> "nobody"]

Event == events < MaxEvents /\ events' = events + 1

\* A statement of goroutine t fails: its context has ended, or the database refuses it.
Broken(t) == IF t \in expired THEN UNCHANGED events ELSE Event

\* What a goroutine remembers outside FinalizeOutputs and CollectArtifacts: nothing.
Blank == [o \in Outputs |-> Absent]
NoPlans == [o \in Outputs |-> NoPlan]
Home == CHOOSE s \in Servers : TRUE   \* the host of what does not run

Init ==
    /\ outputs \in Declarations
    /\ status = "running" /\ data = "pending" /\ blame = 0
    /\ binding = Draft.binding
    /\ artifacts = Blank /\ collection = "declared"
    /\ manifest = Draft
    /\ remote \in [Outputs -> Found] /\ \A o \in Outputs \ Declared : remote[o] = Absent
    /\ dest = [o \in Outputs |-> "unknown"]
    /\ job = [p \in Plans |-> "none"]
    /\ pc = [t \in Threads |-> "off"]
    /\ seen = [t \in Threads |-> Blank]
    /\ plan = [t \in Finalizers |-> NoPlans]
    /\ at = [t \in Finalizers |-> 0]
    /\ verdict = [t \in Finalizers |-> "pending"]
    /\ expired = {}
    /\ host = [t \in Collectors |-> Home]
    /\ lock = [p \in Publishers |-> "free"]
    /\ refused = {} /\ events = 0

Goto(t, place) == pc' = [pc EXCEPT ![t] = place]

-----------------------------------------------------------------------------
(* The process ends and the files are discovered: CollectArtifacts.        *)

\* The goroutines of finalizeRunEvidence are alike, so any one that is free will do.
StartEvidence(p) ==
    /\ \E e \in Evidences : pc[e] = "off"
    /\ LET e == CHOOSE e \in Evidences : pc[e] = "off"
       IN  Goto(e, "collect") /\ host' = [host EXCEPT ![e] = p]
    /\ UNCHANGED <<world, local, expired, lock, refused>>

\* A goroutine of a collector comes to its end.
Return(t) == Goto(t, "off") /\ host' = [host EXCEPT ![t] = Home] /\ expired' = expired \ {t}

\* A probe, Cancel or a failed launch of any process writes the last status of the run.
EndRun(p) ==
    /\ status = "running"
    /\ status' \in {"succeeded", "failed"}   \* failed: or cancelled, or lost
    /\ StartEvidence(p)
    /\ UNCHANGED <<outputs, data, blame, binding, artifacts, collection, manifest, events>>

\* A Cancel finds at its write that the run has ended meanwhile.
LateCancel(p) ==
    /\ status # "running" /\ Event
    /\ StartEvidence(p)
    /\ UNCHANGED rows

\* POST /runs/{id}/artifacts/collect: refused while a collection is noted as active.
RequestCollection(s) ==
    /\ pc["request"] = "off" /\ collection # "discovering" /\ Event
    /\ collection' = "discovering"
    /\ Goto("request", "collect") /\ host' = [host EXCEPT !["request"] = s]
    /\ UNCHANGED <<outputs, status, data, blame, binding, artifacts, manifest, world, local, expired, lock, refused>>

InCollection == <<outputs, status, data, blame, binding, manifest, world, plan, at, verdict, lock, refused>>

EndCollection(t) ==
    /\ IF t \in Evidences THEN Goto(t, "decide") /\ UNCHANGED <<host, expired>> ELSE Return(t)
    /\ seen' = [seen EXCEPT ![t] = Blank]

StartCollection(t) ==
    /\ pc[t] = "collect" /\ t \notin expired
    /\ \/ collection' = "discovering" /\ UNCHANGED events
       \/ UNCHANGED collection /\ Event   \* the write is refused, its error is dropped
    /\ Goto(t, "discover")
    /\ UNCHANGED <<InCollection, artifacts, seen, host, expired>>

\* The script on the compute node hashes the files that match a declared pattern; the error
\* of the read of the bindings, which declare them, is dropped.
Discover(t) ==
    /\ pc[t] = "discover" /\ t \notin expired
    /\ \/ seen' = [seen EXCEPT ![t] = remote] /\ UNCHANGED events
       \/ UNCHANGED seen /\ Event
    /\ Goto(t, "index")
    /\ UNCHANGED <<InCollection, artifacts, collection, host, expired>>

\* SaveArtifacts replaces the inventory in one transaction; its end is noted in another.
Index(t) ==
    /\ pc[t] = "index" /\ t \notin expired
    /\ artifacts' = seen[t]
    /\ Goto(t, "record")
    /\ UNCHANGED <<InCollection, collection, seen, events, host, expired>>

SaveArtifactCollection(t) ==
    /\ pc[t] = "record" /\ t \notin expired
    /\ collection' = "indexed"
    /\ EndCollection(t)
    /\ UNCHANGED <<InCollection, artifacts, events>>

\* SSH, the script or SaveArtifacts fails; that is noted with a context of its own, and
\* the error of this write is dropped.
DiscoveryFails(t) ==
    /\ \/ pc[t] = "discover" /\ collection' = "failed" /\ UNCHANGED events
       \/ pc[t] = "index" /\ collection' = "failed" /\ Broken(t)
       \/ pc[t] \in {"discover", "index"} /\ UNCHANGED collection /\ Event
    /\ EndCollection(t)
    /\ UNCHANGED <<InCollection, artifacts>>

\* The run is not read at the start, or the end is not noted.
CollectionStops(t) ==
    /\ pc[t] \in {"collect", "record"} /\ Broken(t)
    /\ EndCollection(t)
    /\ UNCHANGED <<InCollection, artifacts, collection>>

\* Mutant: a run whose publication the manager has begun is left to the manager.
Decide_LeftToManager(e) ==
    /\ pc[e] = "decide" /\ e \notin expired
    /\ IF status = "succeeded" /\ data = "pending" /\ host[e] \in Publishers
       THEN Goto(e, "enter") /\ UNCHANGED verdict
       ELSE Goto(e, "seal") /\ verdict' = [verdict EXCEPT ![e] = data]
    /\ UNCHANGED <<rows, world, seen, plan, at, expired, host, lock, refused, events>>

\* finalizeRunEvidence reads the run: a succeeded one has outputs to publish, and an executor
\* that was given a runIO publishes them.  Else the run is read no more.
Decide(e) ==
    /\ pc[e] = "decide" /\ e \notin expired
    /\ IF status = "succeeded" /\ host[e] \in Publishers
       THEN Goto(e, "enter") /\ UNCHANGED verdict
       ELSE Goto(e, "seal") /\ verdict' = [verdict EXCEPT ![e] = data]
    /\ UNCHANGED <<rows, world, seen, plan, at, expired, host, lock, refused, events>>

-----------------------------------------------------------------------------
(* The manager and FinalizeOutputs.                                        *)

\* Mutant: a publication that was begun is taken to be under way.
Reconcile_PendingOnly(s) ==
    /\ pc[s] = "off" /\ s \notin expired
    /\ status = "succeeded" /\ data = "pending"
    /\ Goto(s, "enter")
    /\ UNCHANGED <<rows, world, local, expired, host, lock, refused, events>>

\* reconcile and launch: one goroutine for each run that is not in m.active.
Reconcile(s) ==
    /\ pc[s] = "off" /\ s \notin expired
    /\ status = "succeeded" /\ data \in {"pending", "publishing"}
    /\ Goto(s, "enter")
    /\ UNCHANGED <<rows, world, local, expired, host, lock, refused, events>>

\* acquireFinalization: the lock does not look at the context.
Enter(t) ==
    /\ pc[t] = "enter" /\ lock[Process(t)] = "free"
    /\ lock' = [lock EXCEPT ![Process(t)] = t]
    /\ Goto(t, "read")
    /\ UNCHANGED <<rows, world, local, expired, host, refused, events>>

Release(t) ==
    /\ lock' = [lock EXCEPT ![Process(t)] = "free"]
    /\ Goto(t, IF t \in Evidences THEN "note" ELSE "off")
    /\ seen' = [seen EXCEPT ![t] = Blank] /\ plan' = [plan EXCEPT ![t] = NoPlans]
    /\ at' = [at EXCEPT ![t] = 0] /\ verdict' = [verdict EXCEPT ![t] = "pending"]

\* Mutant: the row of the caller is trusted, the run is not read again under the lock.
ReadRun_Trusting(t) ==
    /\ pc[t] = "read" /\ t \notin expired
    /\ plan' = [plan EXCEPT ![t] = [o \in Outputs |-> binding[o].plan]]
    /\ Goto(t, "begin")
    /\ UNCHANGED <<rows, world, seen, at, verdict, expired, host, lock, refused, events>>

\* The run and its bindings are read under the lock; what is settled is left alone.
ReadRun(t) ==
    /\ pc[t] = "read" /\ t \notin expired /\ data \notin Settled
    /\ plan' = [plan EXCEPT ![t] = [o \in Outputs |-> binding[o].plan]]
    /\ Goto(t, "begin")
    /\ UNCHANGED <<rows, world, seen, at, verdict, expired, host, lock, refused, events>>

Begin(t) ==
    /\ pc[t] = "begin" /\ t \notin expired
    /\ blame' = 0
    /\ IF outputs = 0
       THEN data' = "skipped" /\ Release(t)
       ELSE data' = "publishing" /\ Goto(t, "list") /\ UNCHANGED <<lock, local>>
    /\ UNCHANGED <<outputs, status, binding, artifacts, collection, manifest, world, expired, host, refused, events>>

\* The data is settled, or the run is not read, or its data state is not written.
ReturnEarly(t) ==
    /\ \/ pc[t] = "read" /\ data \in Settled /\ UNCHANGED <<refused, events>>
       \/ /\ pc[t] \in {"read", "begin", "finish"} /\ Broken(t)
          /\ refused' = IF t \in expired THEN refused ELSE refused \cup {0}
    /\ Release(t)
    /\ UNCHANGED <<rows, world, expired, host>>

\* The outputs are taken in the order of their ordinals.
NextOutput(t, o) ==
    IF o = outputs
    THEN /\ verdict' = [verdict EXCEPT ![t] = "completed"]
         /\ Goto(t, "finish") /\ UNCHANGED at
    ELSE /\ at' = [at EXCEPT ![t] = o + 1]
         /\ Goto(t, "output") /\ UNCHANGED verdict

\* Mutant: an optional output that is not published condemns the run as well.
GiveUp_Optional(t, state) ==
    /\ verdict' = [verdict EXCEPT ![t] = state]
    /\ Goto(t, "finish") /\ UNCHANGED at

\* Mutant: the run's data takes the state of the binding.
GiveUp_BindingState(t, state) ==
    IF at[t] \in Required
    THEN /\ verdict' = [verdict EXCEPT ![t] = binding'[at[t]].state]
         /\ Goto(t, "finish") /\ UNCHANGED at
    ELSE NextOutput(t, at[t])

\* A required output decides; an optional one is passed over.
GiveUp(t, state) ==
    IF at[t] \in Required
    THEN /\ verdict' = [verdict EXCEPT ![t] = state]
         /\ Goto(t, "finish") /\ UNCHANGED at
    ELSE NextOutput(t, at[t])

ListArtifacts(t) ==
    /\ pc[t] = "list" /\ t \notin expired
    /\ seen' = [seen EXCEPT ![t] = artifacts]
    /\ NextOutput(t, 0)
    /\ UNCHANGED <<rows, world, plan, expired, host, lock, refused, events>>

\* An inventory that cannot be read condemns the data before any output is looked at.
ListFails(t) ==
    /\ pc[t] = "list" /\ Broken(t)
    /\ verdict' = [verdict EXCEPT ![t] = "failed"]
    /\ Goto(t, "finish")
    /\ UNCHANGED <<rows, world, seen, plan, at, expired, host, lock, refused>>

\* Every write of a binding writes the copy the goroutine has of it.
WriteBinding(t, state) ==
    /\ binding' = [binding EXCEPT ![at[t]] = [state |-> state, plan |-> plan[t][at[t]]]]
    /\ UNCHANGED refused
InBinding == <<outputs, status, data, blame, artifacts, collection, manifest, world, seen, plan, expired, host, lock>>

\* The error of this write is dropped.
BindingRefused(t) ==
    /\ UNCHANGED binding /\ refused' = refused \cup {at[t]}

OutputMissing(t) ==
    /\ pc[t] = "output" /\ seen[t][at[t]] = Absent
    /\ \/ t \notin expired /\ WriteBinding(t, "missing") /\ UNCHANGED events
       \/ t \notin expired /\ BindingRefused(t) /\ Event
       \/ t \in expired /\ UNCHANGED <<binding, refused, events>>
    /\ GiveUp(t, "blocked")
    /\ UNCHANGED InBinding

-----------------------------------------------------------------------------
(* publishOutput: the plan, its job, the wait for the job.                 *)

PlanOf(t) == [output |-> at[t], revision |-> seen[t][at[t]], dest |-> dest[at[t]]]
Conflict(p) == p.dest \in Revisions /\ p.dest # p.revision

\* Create: a plan that exists keeps its job, except that a completed one is opened
\* again when its destination does not hold the revision any more.
Created(state, p) ==
    CASE state = "none" -> IF p.dest = p.revision THEN "completed" ELSE "queued"
      [] state = "completed" /\ p.dest # p.revision -> "queued"
      [] OTHER -> state

CreateTransfer(t) ==
    /\ pc[t] = "output" /\ seen[t][at[t]] # Absent /\ t \notin expired
    /\ ~Conflict(PlanOf(t))
    /\ job' = [job EXCEPT ![PlanOf(t)] = Created(@, PlanOf(t))]
    /\ plan' = [plan EXCEPT ![t][at[t]] = PlanOf(t)]
    /\ Goto(t, "bind")
    /\ UNCHANGED <<rows, remote, dest, seen, at, verdict, expired, host, lock, refused, events>>

BindTransfer(t) ==
    /\ pc[t] = "bind" /\ t \notin expired
    /\ WriteBinding(t, "publishing")
    /\ Goto(t, "wait")
    /\ UNCHANGED <<InBinding, at, verdict, events>>

\* The plan is blocked or fails, the transfer ends badly, or the context ends.
PublishFails(t) ==
    \/ pc[t] = "output" /\ seen[t][at[t]] # Absent
    \/ pc[t] = "wait" /\ job[plan[t][at[t]]] = "failed"
    \/ pc[t] \in {"bind", "wait"} /\ t \in expired

\* The binding is written with a context of its own, and the error of this write is dropped.
OutputFails(t) ==
    /\ \/ PublishFails(t) /\ WriteBinding(t, "failed") /\ UNCHANGED events
       \/ PublishFails(t) /\ BindingRefused(t) /\ Event
       \/ pc[t] \in {"bind", "wait"} /\ WriteBinding(t, "failed") /\ Event   \* a statement is refused
    /\ GiveUp(t, "failed")
    /\ UNCHANGED InBinding

\* Mutant: every end of the transfer is taken for its success.
Published_AnyEnd(t) ==
    /\ pc[t] = "wait" /\ t \notin expired /\ job[plan[t][at[t]]] \in {"completed", "failed"}
    /\ WriteBinding(t, "published")
    /\ NextOutput(t, at[t])
    /\ UNCHANGED <<InBinding, events>>

Published(t) ==
    /\ pc[t] = "wait" /\ t \notin expired /\ job[plan[t][at[t]]] = "completed"
    /\ WriteBinding(t, "published")
    /\ NextOutput(t, at[t])
    /\ UNCHANGED <<InBinding, events>>

FinishFinalization(t) ==
    /\ pc[t] = "finish" /\ t \notin expired
    /\ data' = verdict[t] /\ blame' = IF verdict[t] = "completed" THEN 0 ELSE at[t]
    /\ Release(t)
    /\ UNCHANGED <<outputs, status, binding, artifacts, collection, manifest, world, expired, host, refused, events>>

-----------------------------------------------------------------------------
(* The final manifest: the run is read, then its bindings, then it is      *)
(* written once and for all.                                               *)

\* After FinalizeOutputs, however it has ended, the run is read again.
ReadForManifest(e) ==
    /\ pc[e] = "note" /\ e \notin expired
    /\ Goto(e, "seal") /\ verdict' = [verdict EXCEPT ![e] = data]
    /\ UNCHANGED <<rows, world, seen, plan, at, expired, host, lock, refused, events>>

\* The error of the read of the bindings is dropped, and the manifest then has no outputs.
\* The read and the write are one step: a binding of settled data does not change.
SaveRunManifest(e) ==
    /\ pc[e] = "seal" /\ e \notin expired
    /\ \/ manifest # Draft /\ UNCHANGED <<manifest, events>>
       \/ /\ manifest = Draft /\ UNCHANGED events
          /\ manifest' = [data |-> verdict[e], binding |-> binding, by |-> host[e]]
       \/ /\ manifest = Draft /\ Event
          /\ manifest' = [data |-> verdict[e], binding |-> AllIn("unlisted"), by |-> host[e]]
    /\ verdict' = [verdict EXCEPT ![e] = "pending"]
    /\ Return(e)
    /\ UNCHANGED <<outputs, status, data, blame, binding, artifacts, collection, world, seen, plan, at, lock, refused>>

\* The run is not read, or the manifest is not written.
EvidenceStops(e) ==
    /\ pc[e] \in {"decide", "note", "seal"} /\ Broken(e)
    /\ verdict' = [verdict EXCEPT ![e] = "pending"]
    /\ Return(e)
    /\ UNCHANGED <<rows, world, seen, plan, at, lock, refused>>

-----------------------------------------------------------------------------
(* Transfers, the files, and the processes.                                *)

\* TransferJob: what is delivered is the planned revision, and only while the source has it.
TransferCompletes(p) ==
    /\ job[p] = "queued" /\ remote[p.output] = p.revision
    /\ dest[p.output] \notin Revisions \ {p.revision}
    /\ job' = [job EXCEPT ![p] = "completed"]
    /\ dest' = [dest EXCEPT ![p.output] = p.revision]
    /\ UNCHANGED <<rows, remote, threads, refused, events>>

\* It fails, is blocked or is cancelled; only the user has it tried again.
TransferFails(p) ==
    /\ job[p] = "queued"
    /\ job' = [job EXCEPT ![p] = "failed"]
    /\ UNCHANGED <<rows, remote, dest, threads, refused, events>>

RetryTransfer(p) ==
    /\ job[p] = "failed" /\ Event
    /\ job' = [job EXCEPT ![p] = "queued"]
    /\ UNCHANGED <<rows, remote, dest, threads, refused>>

\* The run, or somebody else on the compute node, changes or removes a file.
EditFile(o) ==
    /\ o \in Declared /\ Event
    /\ \E v \in Found \ {remote[o]} : remote' = [remote EXCEPT ![o] = v]
    /\ UNCHANGED <<rows, dest, job, threads, refused>>

\* PathPlacements: a copy is evicted or observed to be missing.
LoseCopy(o) ==
    /\ dest[o] \in Revisions /\ Event
    /\ dest' = [dest EXCEPT ![o] = "missing"]
    /\ UNCHANGED <<rows, remote, job, threads, refused>>

\* The 30 minutes of finalizeRunEvidence, the two of a request.
TimeOut(t) ==
    /\ pc[t] # "off" /\ t \notin expired /\ Event
    /\ expired' = expired \cup {t}
    /\ UNCHANGED <<rows, world, pc, local, host, lock, refused>>

\* A server that cannot listen on its port stops its manager, whose context ends.
Stop(s) ==
    /\ s \notin expired /\ Event
    /\ expired' = expired \cup {s}
    /\ UNCHANGED <<rows, world, pc, local, host, lock, refused>>

Die(p) ==
    /\ pc' = [t \in Threads |-> IF Process(t) = p THEN "off" ELSE pc[t]]
    /\ seen' = [t \in Threads |-> IF Process(t) = p THEN Blank ELSE seen[t]]
    /\ plan' = [t \in Finalizers |-> IF Process(t) = p THEN NoPlans ELSE plan[t]]
    /\ at' = [t \in Finalizers |-> IF Process(t) = p THEN 0 ELSE at[t]]
    /\ verdict' = [t \in Finalizers |-> IF Process(t) = p THEN "pending" ELSE verdict[t]]
    /\ lock' = [q \in Publishers |-> IF q = p THEN "free" ELSE lock[q]]
    /\ expired' = {t \in expired : Process(t) # p}
    /\ host' = [t \in Collectors |-> IF host[t] = p THEN Home ELSE host[t]]
    /\ UNCHANGED <<rows, world, refused>>

Crash(s) == Event /\ Die(s)
\* Stop waits for the manager's goroutine, then the process ends and is started again.
Exit(s) == s \in expired /\ pc[s] = "off" /\ Die(s) /\ UNCHANGED events
\* A command of the CLI ends and waits for no goroutine.
Leave(c) == (\E e \in Evidences : host[e] = c /\ pc[e] # "off") /\ Die(c) /\ UNCHANGED events

-----------------------------------------------------------------------------
Collect(t) ==
    StartCollection(t) \/ Discover(t) \/ Index(t) \/ SaveArtifactCollection(t) \/ DiscoveryFails(t) \/ CollectionStops(t)
Finalize(t) ==
    \/ Enter(t) \/ ReadRun(t) \/ Begin(t) \/ ReturnEarly(t) \/ ListArtifacts(t) \/ ListFails(t)
    \/ OutputMissing(t) \/ CreateTransfer(t) \/ BindTransfer(t) \/ OutputFails(t)
    \/ Published(t) \/ FinishFinalization(t)
Seal(e) == ReadForManifest(e) \/ SaveRunManifest(e) \/ EvidenceStops(e)
TransferEnds(p) == TransferCompletes(p) \/ TransferFails(p)

Next ==
    \/ \E p \in Processes : EndRun(p) \/ LateCancel(p)
    \/ \E s \in Servers : RequestCollection(s) \/ Reconcile(s) \/ Stop(s) \/ Crash(s) \/ Exit(s)
    \/ \E c \in Submitters \cup Clients : Leave(c)
    \/ \E t \in Collectors : Collect(t) \/ TimeOut(t)
    \/ \E t \in Finalizers : Finalize(t)
    \/ \E e \in Evidences : Decide(e) \/ Seal(e)
    \/ \E p \in Plans : TransferEnds(p) \/ RetryTransfer(p)
    \/ \E o \in Outputs : EditFile(o) \/ LoseCopy(o)

\* Nothing is assumed of the discovery and of the manifest, and no statement has to fail.
Fairness ==
    /\ \A s \in Servers : WF_vars(Reconcile(s) \/ Exit(s) \/ (UNCHANGED events /\ Finalize(s)))
    /\ WF_vars(UNCHANGED events /\ \E e \in Evidences : Finalize(e))
    /\ WF_vars(\E p \in Plans : TransferEnds(p))

Spec == Init /\ [][Next]_vars
FairSpec == Spec /\ Fairness

-----------------------------------------------------------------------------
(* Properties.                                                             *)

BindingState == {"pending", "publishing", "published", "missing", "failed"}
Bindings == [Outputs -> [state : BindingState, plan : Plans \cup {NoPlan}]]
Places   == {"off", "collect", "discover", "index", "record", "decide", "enter", "read", "begin", "list",
             "output", "bind", "wait", "finish", "note", "seal"}
DataState == {"pending", "publishing"} \cup Settled
Manifests == [data : DataState \cup {"draft"}, binding : Bindings \cup {AllIn("unlisted")},
              by : Processes \cup {"nobody"}]

\* The rows, the files, the jobs and the goroutines have the states the code knows.
TypeOK ==
    /\ outputs \in Declarations /\ status \in {"running", "succeeded", "failed"}
    /\ data \in DataState /\ blame \in Outputs \cup {0} /\ binding \in Bindings
    /\ artifacts \in [Outputs -> Found]
    /\ collection \in {"declared", "discovering", "indexed", "failed"}
    /\ manifest \in Manifests
    /\ remote \in [Outputs -> Found] /\ dest \in [Outputs -> Observed]
    /\ job \in [Plans -> JobState]
    /\ pc \in [Threads -> Places] /\ seen \in [Threads -> [Outputs -> Found]]
    /\ plan \in [Finalizers -> [Outputs -> Plans \cup {NoPlan}]]
    /\ at \in [Finalizers -> Outputs \cup {0}] /\ verdict \in [Finalizers -> DataState]
    /\ expired \subseteq Threads /\ host \in [Collectors -> Processes]
    /\ lock \in [Publishers -> Finalizers \cup {"free"}]
    /\ refused \subseteq Outputs \cup {0} /\ events \in 0 .. MaxEvents

\* Completed data means that a transfer has delivered every required output and that the
\* output's row names this transfer, whoever else worked on it, stopped or was killed
\* (FinalizeOutputs).
CompletedIsPublished ==
    data = "completed" =>
        \A o \in Declared \cap Required :
            binding[o].state = "published" /\ job[binding[o].plan] = "completed"

\* Data that is blocked or failed is so for a required output, the one its error is about,
\* and never for an optional one; the output's row tells the same, unless the database has
\* refused a write of it.  The one exception is an inventory that could not be read
\* (FinalizeOutputs).
OnlyRequiredCondemns ==
    data \in {"blocked", "failed"} =>
        \/ /\ blame \in Declared \cap Required
           /\ \/ binding[blame].state = (IF data = "blocked" THEN "missing" ELSE "failed")
              \/ blame \in refused
        \/ data = "failed" /\ blame = 0

\* The final manifest is written once, and what it says of settled data and its outputs is
\* what the rows say from then on, whoever has written it, although the run and the bindings
\* are read apart and others are at work.  It is not written before the data of a succeeded
\* run is settled, except by a process that cannot publish and when the database has refused
\* a statement about the run (finalizeRunEvidence, SaveRunManifest).
ManifestIsTrue ==
    /\ manifest.data \in Settled =>
         data = manifest.data /\ manifest.binding \in {binding, AllIn("unlisted")}
    /\ manifest # Draft /\ status = "succeeded" =>
         manifest.data \in Settled \/ manifest.by \in Clients \/ 0 \in refused

\* The verdict on the data is given once: neither another goroutine, nor a later pass of
\* the manager, nor a time-out writes the state or an output of a settled run
\* (FinalizeOutputs, acquireFinalization).
VerdictIsFinal == [][(data \in Settled) => UNCHANGED <<data, blame, binding>>]_vars

\* The data of every succeeded run is settled in the end, whatever crashes, times out or
\* fails to be transferred (runio/manager.go:12).
DataSettles == (status = "succeeded") ~> (data \in Settled)

\* A required output is only called missing when the discovery of the run's files has
\* ended (docs/prd-unified-file-space.md, FR-008).
MissingAfterDiscovery ==
    [][data # "blocked" /\ data' = "blocked" => collection \in {"indexed", "failed"}]_vars
=============================================================================
