# Verification of aexp in TLA+

aexp is a control plane for experiments: a local SQLite database, an `aexp serve` process (HTTP API,
web UI, background managers), short-lived CLI and MCP processes that open the same database, and
remote machines reached by SSH where commands run in tmux. Nothing but the database is shared between
the processes, and no row has an owner: what keeps the system correct is a compare-and-set on a
status here, a lease there, and the fact that a remote command can be repeated. That is what this
project models.

Seven components are modelled so far, the ones in which several processes, goroutines or requests meet on the
same rows: the life of a run, what becomes of its outputs, the transfer job, the copies of a path, the evidence
maps, the queue of receipts and the change feed that the web UI follows. Paths below are relative to `src/`.

## 1. Inventory

| Component | State it keeps | Operations | What is hard |
|---|---|---|---|
| Run lifecycle (`internal/executor`) | `runs.status`, `run_launch_jobs.state`; per process `launchCancels`; on the resource the tmux session, `exit_code` and the logs | SubmitAsync, SubmitVisible, launch, ResumePendingSubmissions, RefreshRuns and CheckRunStatus, Cancel | crashes between the row and the SSH command, SSH errors that hide an outcome, probes and Cancel that write what they read minutes before, a second process |
| Run reconciler (`internal/monitor`) | none | a ticker that probes every active run | the same row is probed by the API, the CLI and Cancel |
| Transfer jobs (`internal/transfer`, `store/filespace.go`) | `transfer_jobs` (state, bytes_done, heartbeat, retryable), attempts, placements; staging and final paths | Build, Create, Cancel, Retry, claim, reconcile, Resume, Copy with fallback, Verify, Promote | a lease without owner, an rsync that outlives its SSH session, promotion against cancellation, progress in the compare-and-set |
| Transfer planner | none | probes, order of the routes | the plan is stale when it is written |
| File space and placements (`internal/filespace`, `store/filespace.go`) | `path_placements` (desired and observed state, revision, `checked_at`); the payloads and the tombstones on the resources | resolve, Inspect, Hash, PlanEviction, Evict with RemoveVerified, the records of transfers and caches | no lock on any copy: an eviction rests on hashes taken earlier; a script that outlives its connection; observations dated by the process |
| Run inputs and outputs (`internal/runio`, `executor.go` finalizeRunEvidence) | `run_input_bindings`, `run_output_bindings`, `artifacts`, `artifact_collections`, `run_manifests`, `runs.data_finalization_state`; per process a lock for each run | EnsureInputs before a launch; CollectArtifacts, FinalizeOutputs, persistRunManifest after the end | two goroutines publish one run; a time-out or a crash between two writes; a verdict and a manifest that are written once |
| Datasets (`internal/dataset`) | dataset jobs | import, replicate on top of transfers | a job that waits for another job |
| Freeze (`internal/freeze`) | freeze records, frozen tree | copy, verify, publish | partial failure |
| Evidence graph (`store/evidence_*.go`) | `evidence_chains`, nodes and edges with their layout, immutable revisions, proposals, run cards | create, propose, plan, review, rebase, reroute, promote, save the layout, archive, purge | a proposal against a base that has moved; a review of three steps, of which only the last is a transaction |
| Journal and research context | versioned context, journal | append, compare-and-set of the version | lost updates |
| Releases (`internal/release`) | release, snapshot | reserve, build, finalise | a crash between reservation and finalisation |
| Projects, targets, run cards | targets, card revisions, readiness | prepare, revise, evaluate | stale readiness at submission |
| Change feed (`store/schema.sql`, `internal/api`, `web/src`) | `run_changes`; in the browser the lists with their cursor, the checkpoint, the cursor of the stream | triggers, list, page of changes, stream; poll, catch-up, apply, reconnect | three ways to the same rows that overtake each other; a checkpoint that is set back; triggers dropped at every start |
| Receipt printer (`internal/printer`, `store/printer.go`) | `printer_run_events`, `printer_settings`, `run_print_jobs` | triggers, ConfigurePrinter, SyncOnce, Retry, EnqueueTest | at most one copy over a device that gives no receipt, two workers |
| SSH pool | cached connections | get, replace, close | sharing a connection that breaks |
| Monitor, event cache, literature, portability, MCP, CLI, web UI | caches, none | polling, parsing, presentation | little that is concurrent |

How they meet: API, CLI and MCP call the executor and the transfer service directly; the executor calls
`runio.EnsureInputs`, which may execute a transfer job in the foreground of a launch; every change of a
run fires the triggers that feed the printer and the change feed; `aexp serve` starts its managers and
resumes what it finds *before* it tries to listen on its port. Because of that order a second `aexp
serve` started by mistake resumes launches and drives jobs until it fails to bind, and a CLI process
with `--wait` is a second worker as a matter of course. The models therefore take a set of processes.

What makes each modelled component correct:

* run: the command is executed at most once; what is reported about it is true; a started and finished
  run stays as it was reported; no launch job is forgotten.
* transfer: only verified content reaches the destination; completed means delivered; a cancellation or
  completion is not undone; progress never falls; every job settles.
* evidence: what a reviewer accepted is merged into the graph it was judged against; an accepted proposal
  undoes nothing that was accepted after its base; every graph is valid; the revisions tell the history.
* outputs: completed data was delivered; only a required output condemns a run; the verdict is given once and
  in the end; the final manifest agrees with it.
* placements: an eviction never destroys the last verified copy; what it took out of sight is not
  forgotten; an observation never replaces a newer one.
* receipts: no event of the present epoch is skipped; nothing is printed twice unless the user asks;
  spooled means accepted by CUPS; the queue drains.
* change feed: no cursor passes a change the browser was not told of; the page of runs is as new as anything
  that was received; the view converges to the rows.

## 2. Modules

| Module | What it is |
|---|---|
| `RunLifecycle` | one run, its launch job, its launchers, Cancel, the probes and the tmux session |
| `RunAccount` | the abstract specification: the row is an account of one execution |
| `MCRunLifecycle` | the instances of `RunLifecycle` for TLC |
| `RunLifecycleProofs` | theorems about it, the refinement of `RunAccount` among them |
| `TransferJob` | one transfer job, its workers, their remote commands, the paths, the user |
| `TransferAccount` | the abstract specification: stages in order, a destination written between the verification and the report |
| `MCTransferJob` | the instance of `TransferJob` for TLC |
| `TransferJobProofs` | theorems about it, the refinement of `TransferAccount` among them |
| `PrintQueue` | events of runs, the cursor, the receipts, the workers and the printer |
| `MCPrintQueue` | its instances for TLC |
| `PrintQueueProofs` | theorems about it |
| `EvidenceGraph` | the pure rules: validation, merge, three-way comparison, authoring |
| `EvidenceMaps` | the maps of a project, their proposals and cards, and the requests that work on them |
| `EvidenceLedger` | the abstract specification: a review is one step |
| `MCEvidenceMaps` | the instances of `EvidenceMaps` for TLC |
| `EvidenceProofs` | theorems about it, the refinement among them |
| `PathPlacements` | the copies of one path, their rows, the probes, the transfers and the evictions |
| `MCPathPlacements` | its instances for TLC |
| `PathPlacementsProofs` | theorems about it |
| `RunOutputs` | the outputs of one run after its end: discovery, publication, verdict, manifest |
| `MCRunOutputs` | its instances for TLC |
| `RunOutputsProofs` | theorems about it |
| `ChangeFeed` | the rows of the runs, `run_changes`, the lists, the catch-up, the stream and one browser |
| `MCChangeFeed` | its instance for TLC |
| `ChangeFeedProofs` | theorems about it |

### RunLifecycle

Each database access, each SSH command and each use of `launchCancels` is one step, and what a process
carries from one step to the next is a variable.

* `status`, `job` are the rows. `CAS` is `store.UpdateRunIfStatus`; every status write of the code goes
  through it and so does every one of the model.
* `pc[p]`, `seen[p]`, `aborted` are the goroutine or process `p` that launches: `claim`, `check` and
  `register` are `launchPersistedSubmission`; `load` to `running` are `SubmitWithOptions`; `readErr` to
  `markBlk` are `recordLaunchFailure`, with or without a `RunPreflightBlockedError`; `requeue` to
  `orphan` are `ResumePendingSubmissions`. `seen` is the status that was read and is expected by the
  next write; `aborted` is the cancelled context.
* `wire` holds the commands sent to tmux. A command in it is executed later (`TmuxExecutes`, with the
  guard of the code: neither an exit code nor a session exists) or never (`TmuxLost`), and the SSH
  error the launcher sees (`TmuxFails`) says nothing about which.
* `remote` goes through the points of the wrapper that a probe tells apart: live, the finish line
  logged, the exit code written, the session closed; `killed` and `cut` are what is left of a session
  that dies before or after the finish line.
* `probe[t]` is `CheckRunStatus`: read, exit file, session, logs, write; the batch of `RefreshRuns` asks for exit file
  and session in one command, which is these steps without a pause. Cancel makes such a probe itself,
  as the thread `Stopper`. `stop` is `Cancel`: it reads, decides, closes locally or probes, signals,
  waits, kills and writes with the status it had read.

`created` is never left by a code path that is modelled and is joined with `queued`; `ssh_unreachable`
is read by the code but no longer written, and is joined with `running`; `lost` stands for the three
statuses of a run whose end is not known. The inputs of a run are a verdict (`EnsureInputs`), other
runs are the verdict of the slot check (`Preflight`). Left out: evidence, metadata and observation
columns beside the status; archive and delete; leases of containers.

`RunAccount` is what one control plane promises without its launchers, probes and requests: the row, the number of
executions and the result of the command. `Execute` needs a row that has left the local states, `Report` a command that
has started, `Succeed` one that has ended with exit code 0, and no action leaves an end once the command has started.
What it admits besides is what the code does: a launch under way takes a cancelled or failed row back (`Prepare`), and
a command that was sent may start after its row was closed. `Account` is the instance; the three variables have the
same names.

### TransferJob

* `state`, `done`, `retryable`, `fresh` are the row. `Writable` is the guard of
  `UpdateTransferJobIfState`: the expected state *and* a progress that is not below the stored one.
  `fresh` is a heartbeat younger than the 30 s after which a manager resumes a job.
* `w[p]` is a worker: its place in `executeClaimed` and its snapshot. A worker gets there by claiming
  (`ClaimTransferJob`) or by resuming what it believes abandoned (`Reconcile`, `Resume`).
* `staging`, `final` are the content of the two paths: `good` has the planned revision, `wrong` is a
  promoted tree that has not. `source` may have grown since the plan was made.
* `lock[r]`, `late` are the rsync processes and the `flock` of each initiator: an rsync whose worker is
  gone may go on (`orphan`) or may still wait for the lock (`late`).
* `promo[p]` is the promotion command: it looks at both paths, later renames, and its answer may be lost.
* `stray` is history: a copy or a promotion command has been left behind.
* `user` is a request between its read and its write.

Bytes are 0, 1, `Planned` and `Grown`: what the guards compare. The table of attempts decides nothing and
is left out, as are placements (`RecordPlacement` is a step whose failure matters, without the row) and
the estimate of the speed. Each worker has one promotion command at a time. The block for a plan that
does not exist cannot be reached, since a job is created with its plan.

`TransferAccount` is what one worker at a time promises of the row and the destination (`state`, `done`, `final`, and the
history `stray`; `Account` is the instance, with the same names). `Move` is a write of the row, `Promote` the rename, which
needs a job that is promoting or, as Cancel may have won the row meanwhile, cancelling; `Complete` needs the planned
content. `Overwrite`, a destination written at any time, is admitted only once a command is astray. A
destination that others remove is outside this account.

### PrintQueue

* `events`, `missing`, `opening`: the rows that the triggers write, and the triggers that are dropped
  while some process executes `schema.sql` on opening the database.
* `settings`: `enabled`, the cursor and the epoch `enabled_from_event_seq`.
* `job`, `line`: `run_print_jobs` by state and in order. The id of a receipt is a hash of run and phase,
  so an insertion that is repeated changes nothing.
* `w[s]`: the worker of server `s` and its copy of the settings, which it does not read again between
  two pages. `Batch` is the size of a page, 200 in the code.
* `copies`, `retries`, `refused` are history.

The statuses of a run are joined as far as `eventPhases` joins them. `PrintReceipt` accepts, refuses, or
accepts and reports an error (the 15 s limit, an answer that cannot be parsed). Left out: runs that are
deleted, the revival of a cancelled run that RunLifecycle shows, runs of kind setup (no receipt) and the
state of the CUPS queue shown to the user.

### EvidenceGraph, EvidenceMaps, EvidenceLedger

`EvidenceGraph` has no state. A graph is a pair of partial functions from ids to contents, without
layout: equal graphs are those with equal canonical hashes. `ValidGraph` is `ValidateEvidenceChainGraph`
(types, directions, one polarity between two nodes, Kahn's algorithm), `Merge` is `mergeEvidenceGraph`,
`RebaseSafe` is `evidencePatchRebaseBlockers`, `Eligible` and `ThreadContract` are the authoring rules.

`EvidenceMaps` has the rows and the requests between their statements.

* `map`, `graph`, `layout`, `revisions` are `evidence_chains`, its nodes and edges, and
  `evidence_chain_revisions`. A node has a content in `graph` and a place in `layout`; the code writes
  both together and hashes the first.
* `item` is a proposal or the card of a run. What the code compares as a hash is map, base and patch.
* `reviewer[r]` walks through `ReviewEvidenceProposal`: the row is read, the plan reads row and revision
  again (`PlanRow`) and then the graph (`PlanGraph`), the graph is read and merged (`ReadAgain`), and one
  transaction (`Commit`) writes graph, revision and verdict if revision and hash are still those.
* `agent[a]` creates: `Propose` reads the map, `Insert` looks the hash up and writes; a rebase and a
  reroute go the same way with the patch of an old item and then expire it (`ExpireOld`).
* `saver[s]` saves a layout, `admin[d]` reads a map's row and writes it back.

`EvidenceLedger` is what the workspace promises: histories that only grow, one patch at a time, each
merged into the last graph in the step that closes its row. A card promises less (`AcceptCard`): see the
known limits.

Left out: whether cited runs and snapshots exist, belong to the project and are formal; the expiry of a
proposal after 14 days, which is an `expired` at any time; layout intents; a reorganisation and a branch,
which create proposals like any other. One node stands for what a promotion adds (a summary, the
reference and a neutral edge between them).

### PathPlacements

One logical path with a placement on each of `Resources`; those in `Authority` have the role authoritative.

* `disk[r]` and `tomb[r][v]` are the payload under the path and the tombstones beside it, one name for each
  expected revision; `Torn` is what a removal that fails half-way leaves.
* `row[r]` is the row; its write is `SavePathPlacement`, which keeps what was observed, or
  `UpdateObservation`, which compares `checked_at`. `clock` is the latest instant somebody took as now.
* `evictor[e]` is `Evict` with its plan: the source is hashed, then the candidate copies, then the script is
  sent. `scripts` are the `RemoveVerified` scripts on the remote hosts: rename to the tombstone, hash, remove or
  put back. A script may outlive the connection (its owner is then nobody) or die.
* `probe[p]` is `Inspect` or `Hash`, `copier[c]` a transfer, a dataset or a run's input that records a copy.
* `stranded` and `late` are history.

Left out: a resource or storage target that is unregistered in between, the other roles, the user's digest of the
plan (the second plan of `Evict` is the one that is modelled).

### RunOutputs

One run from the end of its process to the final manifest.

* Three kinds of process work on it: `Servers` (`aexp serve`: a manager and a runIO), `Submitters` (`aexp run
  submit`, which sets a runIO of its own with a lock of its own, main.go:6310 and 9260) and `Clients` (`run list`,
  `status`, `refresh`, `cancel`, whose executor has none, main.go:9494, 9520, 9606, 10812). Any of them may end the
  run (`EndRun`) or cancel it too late (`LateCancel`), and so start `finalizeRunEvidence`. A command of the CLI waits
  for none of its goroutines (`Leave`).
* `outputs`, `status`, `data`, `binding`, `artifacts`, `collection`, `manifest` are the rows; `blame` is
  `data_finalization_error`, reduced to the output it is about. An artifact is the revision found for a declared
  output; `Required` are the ordinals of the required ones. `manifest.by` tells which process wrote it.
* `pc[t]`: the threads in `Evidences` are goroutines of `finalizeRunEvidence` (`collect`, `discover`, `index`,
  `record`, `decide`, then FinalizeOutputs, then `note` and `seal`), `"request"` is the collection the API starts, and
  a server stands for the goroutine of its manager. `host[t]` is the process of a thread that is not a server.
  `Decide` has both conditions of executor.go:1764: without a succeeded run or without a runIO the goroutine goes on
  to the manifest with the row it has just read. `Evidences` bounds how many are at work at once; one that has ended
  may be started again.
* FinalizeOutputs is `enter` (waiting for the lock) to `finish`; `seen[t]`, `plan[t]`, `at[t]`, `verdict[t]` are its
  artifacts, its copies of the bindings, its place in the loop and its result. `ListFails` is the verdict `failed` that
  is given before the loop when the inventory cannot be read (service.go:182). `lock[p]` is `finalizationLocks` of
  process `p`. `ReadForManifest` (or `Decide`) and `SaveRunManifest` are the two reads and the one write of the manifest.
* Each statement of these goroutines may be refused by the database (`Broken`, the disjuncts with `Event`), at the
  places where the code drops the error as at those where it returns it. `refused` is history: the outputs, and the run
  (0), that the database refused a statement about.
* `job[p]` is the transfer job of plan `p`, which is told apart by output, revision and the destination it was
  planned against (`hashPlan`); `dest[o]` is the placement of the destination. A transfer delivers the planned
  revision or ends badly, which is what `TransferJob` shows of it; `LoseCopy` is what `PathPlacements` may do.
* `expired` are the contexts that have ended: the 30 minutes, the two minutes of a request, a manager that is
  stopped because its server could not listen.

Left out: the route of a plan; patterns with several matches, whose manifest is one revision; a collection that is
partial, which publishes as an indexed one; the read of the resource, whose error FinalizeOutputs does not look at
(executor.go:1763); a run that ends without a resource and starts no goroutine (executor.go:1526); a terminal status
that is taken back (RunLifecycle has it).

### ChangeFeed

The database, the server and one browser. A run is known by how often it was written and whether it is active.

* `row`, `log` are the runs and `run_changes`; `Write` is any write of a run by any process, which the trigger
  records unless a process that opens the database has dropped the triggers (`gap`).
* `cache` is the list the browser goes by, with its `change_cursor`, and `fetch` the request for it: the server
  reads the cursor first and the rows in another statement. `tab` is the page: the page of runs goes by its own
  list, every other page by the list of the active runs.
* `task` is a catch-up (`catchUpRunChanges`): pages of changes, each served with its run as it is by then
  (`Served`), applied together at the end, with the checkpoint of the catch-up. `Limit` and `MaxPages` are 200
  and 50 in the code.
* `stream` is `readRunChangeStream` and `handleRunChangeStream`: the cursor of the parser, what the server has
  sent, and what is on the way (`pipe`).
* `Render` is what follows a new `change_cursor`: the checkpoint is seeded, the catch-up is another query, and
  the effect of the stream starts again. `ApplyChanges` is `applyRunChange`: a change is put into the list, and
  the page of runs is asked for again. That an invalidation cancels the request under way and that a poll does
  not is what the code expects of its query library.
* `told` is history: the newest version of each run that was received.

Left out: the page the user goes to from another one, the active list beside the page of runs, filters and
pages of the list, `updated_since` (the model starts with one recorded change; without any, the cursor is 0 and
a catch-up goes by the time of the server), the delete operation (no code deletes a run), the queries of a run
that is opened. The retries of a request are one request that is answered or fails.

## 3. Runs

Passing runs:

| Run | Instance | What it shows |
|---|---|---|
| `RunLifecycle_one_server` | one control plane, a CLI that may submit, one prober, Cancel in either; two crashes | `AtMostOneStart`, `VerdictMatchesExit`, `LaunchedIsHandedOver`, `StartedVerdictIsFinal`, `RunIsAccounted` |
| `RunLifecycle_liveness` | one control plane, one prober, one crash | `LaunchJobCloses`, `AsyncRunSettles` |
| `TransferJob_one_worker` | one manager, two initiators, one interruption, a rival or a source that grows, a lease that may expire, the user | `OnlyVerifiedIsPromoted`, `CompletedIsDelivered`, `JobSettles`, `ProgressNeverFalls`, `EndIsKept`, `JobIsAccounted` |
| `EvidenceMaps_reviews` | a topic with one revision, two proposals (connect a new node, delete the old one), two reviewers, an agent, an admin | `GraphIsValid`, `NothingIsUndone`, `ReviewIsAtomic` |
| `EvidenceMaps_maps` | the primary map and a topic, a proposal, a card, a reviewer, an agent, a saver | `HistoryIsTrue` |
| `PathPlacements_one_evictor` | two authoritative copies and a cache, two contents, one eviction at a time, one probe, one transfer, four operations in all | `TombstonesAreAccounted`, `InspectIsNeverLate`, `EvictionLeavesACopy` |
| `RunOutputs_one_server` | none or two outputs, the second required, two contents of a file, one server with its manager, one CLI command, two goroutines of finalizeRunEvidence, one event of any kind (edit, loss of a copy, retry, request, late cancel, time-out, stop, crash, refused statement) | `CompletedIsPublished`, `OnlyRequiredCondemns`, `ManifestIsTrue`, `VerdictIsFinal`, `DataSettles` |
| `PrintQueue_two_workers` | two servers, a run and a test page, one trouble (a crash, a refused write or a process that opens the database) | `NoUnaskedCopy`, `SpooledIsAccepted`, `NoReceiptSkipped`, `QueueDrains`, `EndIsQueued` |
| `ChangeFeed_browser` | two runs, one of them new, two writes, pages of one change and catch-ups of two pages, either page of the UI, one trouble (a failed request, a broken or ended stream, a visit, a run that is opened, a process that opens the database) | `NoChangeSkipped`, `PageIsCurrent`, `ViewConverges` |

The run named first for RunLifecycle, those of TransferJob, PrintQueue, PathPlacements, RunOutputs and ChangeFeed and
`EvidenceMaps_maps` also check the type invariant of their module.

**Bounds and why they are enough.** RunLifecycle: one crash suffices to leave any step of a launch
undone, the second crash hits the resumption itself; a third repeats a state the second one reached, as
nothing is counted. One prober beside Cancel gives two concurrent probes; a third could only write a
verdict one of the two has read. `starts` saturates at 2, the first value that is wrong. TransferJob: two
initiators are the least with a fallback and with two rsync processes on one staging path; an
interruption can hit any step, and failed copies leave orphaned commands behind without one; a rival
appears once, since nothing removes it, and a source that has grown stays so (one that is put back is
a known limit below). One worker meets snapshots older than the row through the user, whose request lies between its
read and its write, and through a lease that expires; two workers at once are what the theorems
`ProgressIsMonotone` and `EndIsFinal` add, for any number. PrintQueue: a page of two
events with three events makes a full page and a rest; two requests are enough to switch on and then
ask for something; one trouble hits any step of a worker while the other server goes on. EvidenceMaps: two
reviewers give each pair of reviews, of one proposal or of two; the two patches conflict in an edge that
one adds and the other would delete with its node, the case a comparison of nodes alone misses; two
revisions after the first make a base that is old by two. A third map would only repeat what another map
can be. PathPlacements: two contents tell a changed copy from the planned one; an eviction, a transfer and two
more operations are the least in which a copy is replaced while another is looked at. `LateStart` is FALSE: a
script whose connection is lost before it starts is taken never to start, which SSH gives unless the request
is still in flight; the theorem has the same hypothesis. RunOutputs: an optional output before a required one gives each
way to pass an output over and each way to be condemned; a server and a CLI command are a process that publishes and
one that does not, and either may end the run or cancel it too late, which gives two goroutines in one process or in
two. One event hits any step: each single crash, time-out, late cancel, refused statement, edit, loss or request, at
each place, beside any order of the manager, the goroutines and the transfers and beside the end of the command, which
is not counted. What two events together can do is left to the theorems, all four safety properties being proved
without this bound. ChangeFeed: with a change before the page is loaded and two after it, a catch-up of two pages of one
change can end before the last change and one page can be full or not; a list, a catch-up and the stream can
each hold another version of a run at once. More writes only repeat an order that two versions have.
The theorems of section 4 need none of these bounds.

**Fairness.** RunLifecycle: a crashed server is started again (an operator's duty, without which nothing
is promised) and its goroutines run; the wrapper makes progress and the command ends; the reconciler's
ticker repeats a probe for ever. A single SSH probe may fail each time, so the two steps that need SSH
have strong fairness: a channel that is up again and again is used in the end. Nothing is assumed of
the CLI or of the user. TransferJob: a manager looks at the jobs again and again; a worker's step has an
end or a timeout; remote commands end; the lease of a job nobody drives expires. There is no fairness on
`ReportProgress`, on the user or on a lease that expires early. PrintQueue: the worker ticks for ever
and a server is started again. A retry is the user's, so the queue is drained when no receipt is queued
or submitting; `failed` and `uncertain` are ends.

RunOutputs: the manager's ticker never stops, what is in FinalizeOutputs goes on, a transfer ends in one way or
another, and a server that is stopped or dies is started again. No statement has to fail: the steps that are fair are
those that count no event. Nothing is assumed of the discovery, of the manifest, of the CLI, of requests, edits and
retries: the manager alone is what settles the data.

ChangeFeed: the timers of the page (30 s for a list and a catch-up, 1 s for the stream) run on, and a request
is answered or fails. Nothing is assumed of writes, of the user or of the process that has dropped the
triggers: `ViewConverges` holds with triggers that are dropped for good.

EvidenceMaps and PathPlacements state no fairness: every step is a request of somebody, and nothing has to
happen.

**Deadlock.** The runs of TransferJob, EvidenceMaps, PathPlacements and RunOutputs have `CHECK_DEADLOCK FALSE`: a
completed, failed or cancelled job with its edits used up has no step left, nor have maps with their revisions
used up and all proposals closed, nor a path with its operations used up, nor a run whose data is settled, and that is their end. RunLifecycle, PrintQueue and
ChangeFeed are checked for deadlock: there the probes, the ticks of the worker or the timers of the page never stop.

Runs whose violation is the result. Each states what a comment or a document of the repository says, and
TLC finds a behaviour of the code that does otherwise:

| Run | What is said | What the code does |
|---|---|---|
| `RunLifecycle_two_servers` | a run that is observable is never launched again | the resumption of a second server requeues the launch of the first, and its read at executor.go:577 takes a running run back to preflighting (sqlite.go:927). The guard of the tmux command prevents a second execution as long as a session or an exit code is there |
| `PathPlacements_two_evictors` | an eviction is refused when the source is the only verified copy | two evictions each hash the copy that the other is about to remove; nothing is checked again before the removal (eviction.go:76) |
| `RunOutputs_early` | required outputs are published after the discovery of the files (`docs/prd-unified-file-space.md:390`) | the manager takes up a run within two seconds of its end, finds no artifact and blocks its data for good (service.go:190) |

Known limits without a run of their own, all of them in the models:

* Cancellation and promotion: a manager that finishes a cancellation needs no stale lease and may write cancelled
  between the promotion and its report (worker.go:419), although the comment at worker.go:175 calls completed the only
  truthful end.
* The printer switched off and on between two pages: the worker's epoch is old, but its compare-and-set of the cursor
  accepts a cursor that was left where it was, and a receipt of the old epoch is queued (manager.go:160, against the
  comment at manager.go:122).
* A run that a CLI command finds ended has its final manifest sealed by that command, which publishes nothing
  (executor.go:1764): the manifest of a succeeded run then says `pending` or `publishing` for good, although
  `docs/prd-unified-file-space.md:391` and 708 have the revisions and transfers of the outputs in it, or it is never
  written, because the command has ended before. `ManifestIsTrue` names this exception (`manifest.by \in Clients`); what
  remains is that such a manifest claims nothing about the data that is not so.
* A refused read or write of the run's row has the same effect: FinalizeOutputs returns, its error is dropped, and
  the manifest is sealed while the manager starts over (executor.go:1765). A refused read of the bindings
  leaves the outputs out of the manifest (executor.go:1556).
* An inventory that cannot be read fails the data of a run, also of one with optional outputs only (service.go:184),
  and nothing retries it, although a missing optional output changes nothing (`docs/prd-unified-file-space.md:392`). It
  is the exception of `OnlyRequiredCondemns`, which can be told from the error of the row (`blame = 0`).
* `CompletedIsPublished`, `OnlyRequiredCondemns`, `ManifestIsTrue` and `VerdictIsFinal` are claimed for one process that
  can publish: the lock is one process's, and `UpdateRunDataFinalization` (sqlite.go:1069) compares nothing, so a second
  `aexp serve`, whose manager starts before it fails to bind, or a `run submit` that finds another run ended, writes
  over a verdict.
* A crash or a time-out of finalizeRunEvidence leaves no final manifest, because only the end of the run starts it,
  although AC-010 (`docs/prd-unified-file-space.md:708`) has one; a crash during discovery leaves the collection
  `discovering`, and every later request is refused as active (server.go:2044).
* An SSH error in the discovery leaves no artifacts; a required output then counts as missing and the data as blocked,
  for which there is no retry. The manager looks at the 200 newest succeeded runs only (manager.go:68).

* `OnlyVerifiedIsPromoted` and `CompletedIsDelivered` except the behaviours in which a command has outlived
  the worker that waited for it (`stray`). There an orphaned rsync that still reads a changed source may
  write staging between verification and promotion, and promotion renames whatever staging contains by
  then (worker.go:159).
* `StartedVerdictIsFinal` speaks of runs whose command has started. Before that, a run cancelled between
  `CheckLaunchable` and the next read of its row goes from cancelled to preflighting and on
  (executor.go:577), although RUN-01 of `docs/acceptance-integrity-convergence-2026-07-26.md` says that no
  old snapshot moves a terminal run back; a blocked launch writes failed over cancelled (executor.go:362).
* A Cancel probes before it signals and not after: a command that ends in between is reported cancelled
  (executor.go:2583), where RUN-02 of the same document promises already finished.
* `starting` is written before the session exists; a probe in between writes lost, and the command then
  runs (executor.go:1449).
* A source that grew and shrank again leaves a progress above the size the verification finds. Every later
  write asks for a progress that is not below the row's, is refused, and the job is verified again for ever
  (worker.go:147): `JobSettles` holds with one change of the source and fails with two, although
  `docs/prd-unified-file-space.md:310` has each job recovered or blocked.
* A review writes back the layout it read before its transaction, and saving a layout changes no revision: a
  node that is moved in between goes back (evidence_workspace.go:475).
* Hash and the records of transfers date an observation after the look at the files, Inspect before: an old
  hash may replace a newer `missing`, although the comment at store/filespace.go:240 excludes a late probe.
* `SavePathPlacement` with a copy that was read before an eviction sets the desired state back to present
  (store/filespace.go:152).
* A removal script that is killed between its rename and its end leaves the payload in a hidden tombstone; the
  next plan reports the source as missing (`stranded` in PathPlacements, remote.go:110).
* The active list is not asked for again when a change is applied to it: a catch-up or a list that was read
  earlier may put an older row over a newer one, for up to 30 seconds. `PageIsCurrent` speaks of the page of runs.
* On a database without any change the cursor stays 0 and a catch-up goes by `updated_since`, the time of the last
  answer, which the server takes after it has listed the changes (server.go:1407): the catch-ups pass over a change
  recorded in between, and only the stream or the next list shows it.
* The card of a run may be written over while it is reviewed, also to another map and back. The
  transaction compares the hash only, so such a card is accepted without a plan of its own
  (evidence_proposal.go:131 and 1047). `NothingIsUndone` and the promise of the ledger exclude cards.
* A map may be purged between the plan of a promotion that refers to it and the transaction; a stale
  read-modify-write of a map's row may undo an archival (api/server.go:4167).

## 4. Proofs

The proof modules hold for every set of processes, every number of routes and every bound, from the
ASSUME of each module only.

`RunLifecycleProofs`
* `TypeCorrect`: `Spec => []TypeOK`, for any number of servers and watchers.
* `ExecutedAtMostOnce`, `VerdictWrittenOnce`, `VerdictIsTrue`: `AtMostOneStart`, `StartedVerdictIsFinal` and
  `VerdictMatchesExit`, for any number of crashes, probers and for a CLI beside the server, under the
  hypothesis `OneServer` (all elements of `Servers` are equal). The hypothesis is needed: with two
  servers `RunLifecycle_two_servers` shows a launcher that works on a run already started.

  The argument. None of the three is inductive: that a command is not sent twice depends on what every
  launcher may still do. A launch is `Committed` once a process is past its write of `starting`, a command
  is on the wire or a session was created. `LaunchInv` says: a run that was not submitted has left no
  trace (`Unsubmitted`); the CLI launches only a run without a launch job and a server only one with it
  (`OneLauncher`, which with `OneServer` leaves one launcher); a committed run has a status that no launcher
  accepts again, and no process is before the write of `starting` or about to report a blocked launch
  (`CommittedIsPast`); and a command is sent, on the wire or executed once (`OneCommand`). `StaleWrites`
  bounds what a probe, Cancel and the resumption remember between their read and their write: none of them
  expects a terminal status, so none overwrites one. `LifecycleInv` is the conjunction of both.
  `VerdictInv` adds, on the side of the resource, that an answer of tmux means a session was created
  and that a probe holds `succeeded` only after an exit code of 0.
* `SucceededIsHandedOver` (`LaunchedIsHandedOver`), `RowIsAccount` (`RunIsAccounted`, that is, `RunLifecycle` implements
  `RunAccount`) and `ObservableStays` (`ObservableIsNotRelaunched`), all under `OneServer`. The last is the sentence
  of the code that `RunLifecycle_two_servers` violates: it is true of one control plane, whatever crashes and
  resumptions it goes through, and only of one.

  The arguments. `HandOver` says that neither a job that has succeeded nor the launcher about to report it belongs to
  a local run, and that a launcher before its write of `starting` works for a job that has not succeeded. For the
  refinement `CommittedIsPast` is too weak: a session that died, or a command that was lost, leaves a row that is
  observable and nothing executed. `ObservedIsPast` adds that no launcher is before the write of `starting` (`Early`)
  once the row is `starting`, `running`, `succeeded` or `lost` (`Past`), which is also what `ObservableStays`
  needs. With `AccountInv`, its conjunction with `LifecycleInv` and `VerdictInv`, each action is a step of the account or a
  stutter (`...Accounted`).

`TransferJobProofs`
* `TypeCorrect`, `ProgressIsMonotone` (`ProgressNeverFalls`), `EndIsFinal` (`EndIsKept`), for any number of
  workers, managers and initiators, with leases that may expire at any time.

  The argument cannot be about who drives the job, because the row does not say. It is about snapshots:
  `Inv == TypeOK /\ Snapshots /\ Requests /\ NoRow`. A worker beyond its claim has the snapshot of a job in
  the middle, one that finishes a cancellation that of a cancelling job, a request that of a state its
  operation admits; so every write is either refused or an `Advance`, and only `PersistPlan` is not. The
  invariant is proved from one lemma for each action (`...Good`: the step keeps the snapshots and does
  `Kept` or `Advance` to the row).
* `PromotedWasVerified` (`OnlyVerifiedIsPromoted`) under `OneWorker` (all elements of `Workers` are equal) and
  `CompletedWasDelivered` (`CompletedIsDelivered`) under `OneWorker` and `"removal" \notin Edits`. With two workers the
  first fails without any stray command: one verifies and promotes what the other's rsync, which it does not know
  of, has written in the meantime. With a destination that others remove, it may be gone between its promotion and the
  report.

  The argument. Here it is about who works. `ContentInv` says that the place of a worker fits the state in its
  snapshot (`StageFits`); that a lock is held only by the worker that is copying and, unless something is stray, a
  promotion command is under way only for the worker that waits for it (`Holders`, `Waited`); that nobody works from an
  older state while the job is promoting (`OneDriver`); and therefore that the staging path is `good` or renamed away
  from the end of `Verify` on (`StagingKept`). `Delivered` says that a worker about to record or report a completion,
  or whose command answered `ok`, has a destination that a promotion or a comparison has found. A
  cancellation changes the row alone, which is why it may race with any of these steps.
* `RowIsAccount` (`JobIsAccounted`, that is, `TransferJob` implements `TransferAccount`), under the hypotheses of
  `CompletedWasDelivered`. It says more than the properties before it: nothing writes the destination of a job that is
  over. The one fact that is missing is `Driven`: the row has the state its worker believes it to have, or is
  cancelling; so a command under way belongs to a job that is promoting or cancelling. Each action is then a step
  of the account (`...Accounted`).

`PrintQueueProofs`
* `TypeCorrect`, `NothingIsPrintedTwice` (`NoUnaskedCopy`), `SpooledIsTrue` (`SpooledIsAccepted`) and
  `NothingIsSkipped` (`NoReceiptSkipped`), for any finite number of runs and servers, any number of
  events, any size of a page and any number of crashes, refused writes, retries and restarts.

  The arguments. `TypeInv` adds to the types that a worker in a page has a rest of it (`Pages`) and that one
  that prints holds a receipt with a row (`Held`). For the copies, `Budget` counts: the copies of a
  receipt, the workers about to print it and one more if the queue may still offer it are together at most
  one plus the retries; a claim moves the unit from the queue to a worker, `lp` from the worker to the
  copies, and only a retry adds one. It needs no assumption on who else holds the receipt, so it covers the
  second server whose start marks a receipt uncertain while the first is printing it. For enrolment,
  `NoGap` is the property itself, `OldEpochs` says that no worker's epoch is ahead of the stored one (an older
  one enrols more, never less), and `Born` that a run has no event
  before its insert event.

`EvidenceProofs`
* `HistoryTold` (`HistoryIsTrue`), `NothingUndone` (`NothingIsUndone`) and `ReviewsAreAtomic`
  (`ReviewIsAtomic`, that is, EvidenceMaps implements EvidenceLedger under the mapping
  `history <- revisions, row <- item`), for any number of maps, items and requests, any patches and any
  seed.

  The arguments. `IInv == MapType /\ History /\ Rows /\ Agents /\ Savers /\ Reviewers`. The key fact
  (`Evolves`) is that the graph of a map changes only together with its revision number, or is forgotten with
  it when no proposal names the map; so a reviewer whose revision is still the present one (`Reviewers`)
  holds a merge of the present graph and a plan that is true of it, and the transaction's comparison of
  the number is a comparison of the graph. Without `History` the comparison would say nothing.
  `NothingUndone` then needs only that a merge after a safe comparison keeps what moved (`ReplayKeeps`);
  the refinement needs, for each action, the step of the ledger it is (`...Promised`, `...Accepts`).
* `GraphsAreValid` (`GraphIsValid`), under the hypotheses that the seeds are valid (`SeedsAreValid`) and that no run
  cards are reviewed (`Card = {}`). The second is the known limit of cards: one that is written over and back between the
  plan and the transaction is accepted without a plan of its own, and what it merges was then never validated.
* `TypesHold` (`TypeOK`): a layout has a place for each node of its graph and for no other.

  The arguments. A layout save changes no graph, and an accepted proposal writes the merge that its plan found valid
  (`Reviewers`): the comparison of the revision makes that the merge of the present graph. For the types,
  `TInv` follows places through the requests: a review that is about to write has laid the nodes it merges
  (`ToBeLaid`), over the layout it read.

`PathPlacementsProofs`
* `TypeCorrect`, `TombstonesSafe` (`TombstonesAreAccounted`) and `InspectSafe` (`InspectIsNeverLate`), for any
  number of resources, contents, evictions, probes and transfers; `EvictionSafe` (`EvictionLeavesACopy`) under
  the hypotheses that all elements of `Evictors` are equal and that `LateStart` is FALSE. Both are needed: the
  first by `PathPlacements_two_evictors`, the second because a script that starts late is a second eviction.

  The arguments. A tombstone is written by the script that renames and by no other step, and each end of the
  script clears it or adds it to `stranded`. `InspectInv` says that the instant an Inspect carries is not after
  the one at which it looked. `CopyInv` follows an eviction: what is planned is still what was hashed
  (`PlanHolds`), an eviction waits for the one script it sent (`OwnerHolds`), a script that has not yet renamed
  has its copy elsewhere (`SentHolds`), and one that has renamed has it under some authoritative path
  (`RenamedHolds`). The lemma `KeptPreserves` covers every step that takes no authoritative payload away; the
  rename is the only one that does.

`RunOutputsProofs`
* `TypeCorrect`, for any processes and outputs; `CompletedCorrect` (`CompletedIsPublished`), `CondemnedCorrect`
  (`OnlyRequiredCondemns`), `ManifestCorrect` (`ManifestIsTrue`) and `VerdictCorrect` (`VerdictIsFinal`) under
  the hypothesis `OnePublisher` (all elements of `Servers \cup Submitters` are equal; any number of `Clients`), without
  which they fail (known limits). They hold for any number of goroutines, crashes, refused statements and other
  events.

  The argument. What a finalizer knows while it works is true because nobody else works: `Locks` says that
  whoever is inside FinalizeOutputs holds the lock of its process, and runs in a process that can publish; with one
  such process that is one finalizer (`Alone`). `Working` ties its place to the state of the data, `Progress` says that
  the required outputs it has passed are `Done` and that its verdict is `Earned`: by `Done` outputs, by a required
  output whose row agrees or was refused, or by an inventory that was not read. `Results` says that this stays so
  once it is written. `Sealing` is about the goroutines with a manifest: one that comes out of FinalizeOutputs finds
  settled data, unless a statement was refused or its own context has ended (`Noted`), and one about to write holds a
  state that is settled and the row's, or is excused (`Ready`). Every step is one of three kinds, each with a lemma:
  beside the finalization (`QuietStep`), inside it (`InsideStep`) or out of it (`ReleaseStep`); `SealKept` is shared by
  them. A transfer that was completed for an output is not reopened by the finalizer that goes on to the next,
  because a plan names its output.

`ChangeFeedProofs`
* `TypeCorrect`, `SkippedCorrect` (`NoChangeSkipped`) and `PageCorrect` (`PageIsCurrent`), for any runs, sizes of a
  page and numbers of writes and troubles.

  The arguments. A cursor alone says nothing, because a change is served with the row as it is when it is served:
  `Genuine` says that what is on its way was read from the row after its change was recorded. `Covers` says of each cursor
  that the browser was told of every change up to it (`Covered`), of an answer to a list that its rows are as
  new as its cursor (true because the cursor is read first), and of a catch-up that what the browser was not
  told of is among its items, whose last change of a run is the newest (`TaskCovers`). A checkpoint that is set
  back is covered like any smaller cursor, which is why it does no harm. The pipe of the stream
  holds the changes after the cursor of the parser without a gap (`StreamOK`), so the parser never drops one.
  `PageInv` says that an answer to the page of runs is as new as anything that was received, since
  every change that is applied cancels the request under way. The steps are sorted by what they touch: the
  rows (`WriteStep`), a list (`FetchStep`), cursors only (`TaskMoves`, `StreamMoves`), and the two that apply
  changes (`CatchUpStep`, `ReceiveStep`), which share `ApplyStep`.

Only model-checked: the liveness properties (`LaunchJobCloses`, `AsyncRunSettles`, `JobSettles`, `QueueDrains`,
`EndIsQueued`, `DataSettles`, `ViewConverges`), since fairness and ENABLED are beyond the prover. Every other property of
the passing runs is a theorem. The pure rules of `EvidenceGraph` are proved about as far as the theorems need them;
that Kahn's algorithm finds every cycle would be an induction over data.

## 5. Plan

Next modules, the most consequential first:

1. `GpuSlot`: several submissions against `checkGPUSlotFree`; the check and the write that makes a run
   visible are minutes apart. Abstract specification: a slot is a mutex.
2. `StartupResume`: the resumption of several runs, where one lost race ends the loop (executor.go:250).
3. The inputs of a run: `EnsureInputs` in the foreground of a launch, on top of transfer jobs.
4. Dataset jobs, freeze, releases (reservation and finalisation).
5. The research context and the journal: compare-and-set on a version.
6. Pure functions: readiness of a run card, order of the transfer routes, against reference definitions.
7. SSH pool: sharing and replacement of connections.

## 6. Not modelled

Errors of the local database. RunOutputs has them at every statement, PrintQueue at the result of a print; elsewhere a
statement that is sent is executed unless the process dies before it, and what an error path of the code does with a
refused statement is not shown. The timers of a browser tab: ChangeFeed lets them run on while the page is hidden, where
the page holds its polls back (a visit is the refetch that follows).

Parsing and formatting of paths, manifests, receipts and event files; the text of evidence; metrics of
resources; offline export and import; the literature service; the web UI apart from its change feed. They
hold no state that two actors write, or their subject is text.
