----------------------------- MODULE PrintQueue -----------------------------
(***************************************************************************)
(* The receipts of the local printer: the events that triggers record when *)
(* a run changes, the durable cursor over them, the queue of receipts and  *)
(* the worker of each aexp serve that hands them to CUPS.                  *)
(*                                                                         *)
(* A serve process starts its workers before it finds its port in use, so  *)
(* a second worker on the same database is a state the program can be in.  *)
(***************************************************************************)
EXTENDS Naturals, Sequences, FiniteSets

CONSTANTS
    Runs,         \* runs of a kind that is printed
    Tests,        \* the test receipts the user may ask for
    Servers,      \* aexp serve processes on this database
    Batch,        \* events listed at once
    MaxRequests,  \* bound on what the user asks for: to switch the printer on or
                  \* off, to print a test, to retry a receipt
    MaxTroubles   \* bound on the crashes, the results that the database refuses
                  \* and the processes that open it, all together

ASSUME PrinterAssumption ==
    /\ IsFiniteSet(Runs) /\ IsFiniteSet(Tests) /\ IsFiniteSet(Servers)
    /\ Batch \in Nat \ {0}
    /\ MaxRequests \in Nat /\ MaxTroubles \in Nat

\* A receipt is a run and a phase; its id is a hash of both.
Phases   == {"start", "end"}
Receipts == (Runs \X Phases) \cup (Tests \X {"test"})

VARIABLES
    status,    \* each run, as far as receipts tell its states apart
    events,    \* printer_run_events, in the order of seq
    missing,   \* the triggers that are dropped at the moment
    opening,   \* how far a process that opens the database has come
    settings,  \* printer_settings: enabled, last_event_seq, epoch
    job,       \* run_print_jobs.state, "none" without a row
    line,      \* the receipts in the order of ordinal
    up,        \* the servers that are alive
    w,         \* each server's worker and its copy of the settings
    copies,    \* history: how often CUPS has accepted each receipt
    retries,   \* history: how often the user has retried each receipt
    refused,   \* history: the database has refused a result
    requests, troubles

source == <<status, events, missing, opening>>
queue  == <<job, line>>
bounds == <<refused, requests, troubles>>
vars   == <<source, settings, queue, up, w, copies, retries, bounds>>

NoReceipt == <<"none", "none">>
Idle == [at |-> "idle", cursor |-> 0, epoch |-> 0, till |-> 0, size |-> 0,
         receipt |-> NoReceipt]

Init ==
    /\ status = [r \in Runs |-> "none"]
    /\ events = <<>> /\ missing = {} /\ opening = "no"
    /\ settings = [enabled |-> FALSE, cursor |-> 0, epoch |-> 0]
    /\ job = [r \in Receipts |-> "none"] /\ line = <<>>
    /\ up = {} /\ w = [s \in Servers |-> Idle]
    /\ copies = [r \in Receipts |-> 0] /\ retries = [r \in Receipts |-> 0]
    /\ refused = FALSE /\ requests = 0 /\ troubles = 0

Request == requests < MaxRequests /\ requests' = requests + 1
Trouble == troubles < MaxTroubles /\ troubles' = troubles + 1

-----------------------------------------------------------------------------
(* Runs and their events *)

\* The trigger of this kind of change records the status of the moment.
Record(trigger, r, st) ==
    events' = IF trigger \in missing THEN events
              ELSE Append(events, [run |-> r, op |-> trigger, is |-> st])

\* "ended" is a terminal status with started_at, "dropped" one without. Left
\* out: runs that are deleted, and the revival of a cancelled run (RunLifecycle).
ChangeRun(r) ==
    /\ \E trigger \in {"insert", "update"}, st \in {"queued", "running", "ended", "dropped"} :
         /\ <<status[r], trigger, st>> \in
              {<<"none", "insert", "queued">>, <<"queued", "update", "running">>,
               <<"queued", "update", "dropped">>, <<"running", "update", "ended">>}
         /\ status' = [status EXCEPT ![r] = st]
         /\ Record(trigger, r, st)
    /\ UNCHANGED <<missing, opening, settings, queue, up, w, copies, retries, bounds>>

\* NewSQLite executes schema.sql statement by statement: every process that opens
\* the database drops the triggers and creates them again.
OpenDatabase ==
    /\ \/ /\ opening = "no" /\ Trouble
          /\ opening' = "dropping" /\ missing' = missing \cup {"insert"}
       \/ /\ opening = "dropping"
          /\ opening' = "creating" /\ missing' = missing \cup {"update"}
          /\ UNCHANGED troubles
       \/ /\ opening = "creating"
          /\ IF "insert" \in missing
               THEN missing' = missing \ {"insert"} /\ UNCHANGED opening
               ELSE missing' = {} /\ opening' = "no"
          /\ UNCHANGED troubles
    /\ UNCHANGED <<status, events, settings, queue, up, w, copies, retries,
                   refused, requests>>

-----------------------------------------------------------------------------
(* The user *)

\* Switching on moves the cursor to the last event and opens a new epoch.
ConfigurePrinter(on) ==
    /\ Request
    /\ settings' = IF on /\ ~settings.enabled
                     THEN [enabled |-> TRUE, cursor |-> Len(events), epoch |-> Len(events)]
                     ELSE [settings EXCEPT !.enabled = on]
    /\ UNCHANGED <<source, queue, up, w, copies, retries, refused, troubles>>

\* INSERT OR IGNORE of the receipts of one transaction, two at most, in this order.
AppendNew(l, r) == IF job[r] = "none" THEN Append(l, r) ELSE l

Insert(rs) ==
    /\ job' = [r \in Receipts |->
                 IF job[r] = "none" /\ \E i \in DOMAIN rs : rs[i] = r THEN "queued" ELSE job[r]]
    /\ line' = CASE Len(rs) = 0 -> line
                 [] Len(rs) = 1 -> AppendNew(line, rs[1])
                 [] OTHER       -> AppendNew(AppendNew(line, rs[1]), rs[2])

EnqueueTest(t) ==
    /\ job[<<t, "test">>] = "none" /\ Request
    /\ Insert(<< <<t, "test">> >>)
    /\ UNCHANGED <<source, settings, up, w, copies, retries, refused, troubles>>

RetryPrintJob(r) ==
    /\ job[r] \in {"failed", "uncertain"} /\ Request
    /\ job' = [job EXCEPT ![r] = "queued"]
    /\ retries' = [retries EXCEPT ![r] = @ + 1]
    /\ UNCHANGED <<source, settings, line, up, w, copies, refused, troubles>>

-----------------------------------------------------------------------------
(* The worker: SyncOnce *)

At(s, l) == s \in up /\ w[s].at = l

Goto(s, l) == w' = [w EXCEPT ![s].at = l]

\* Events or a receipt are left behind: what the worker remembers is dropped.
Return(s, l) == w' = [w EXCEPT ![s] = [Idle EXCEPT !.at = l]]

ReadSettings(s) ==
    /\ At(s, "idle")
    /\ IF settings.enabled
         THEN w' = [w EXCEPT ![s].at = "list", ![s].cursor = settings.cursor,
                             ![s].epoch = settings.epoch]
         ELSE Return(s, "claim")
    /\ UNCHANGED <<source, settings, queue, up, copies, retries, bounds>>

ListPrinterRunEvents(s) ==
    /\ At(s, "list")
    /\ LET found == Len(events) - w[s].cursor
           size  == IF found < Batch THEN found ELSE Batch
       IN  IF found = 0
             THEN Return(s, "claim")
             ELSE w' = [w EXCEPT ![s].at = "enqueue", ![s].size = size,
                                 ![s].till = w[s].cursor + size]
    /\ UNCHANGED <<source, settings, queue, up, copies, retries, bounds>>

\* Mutant: a run has a receipt of its end only if it was started.
EventPhases_Started(st) ==
    CASE st = "running" -> <<"start">>
      [] st = "ended"   -> <<"start", "end">>
      [] OTHER          -> <<>>

\* A terminal event brings the receipt of the start with it.
EventPhases(st) ==
    CASE st = "running" -> <<"start">>
      [] st = "ended"   -> <<"start", "end">>
      [] st = "dropped" -> <<"end">>
      [] OTHER          -> <<>>

\* The run was created after the printer was switched on.
PrinterRunEligible(r, epoch) ==
    \E i \in 1..Len(events) : i > epoch /\ events[i].run = r /\ events[i].op = "insert"

\* jobsForEvent: what it reads besides the epoch never changes afterwards.
JobsForEvent(e, epoch) ==
    LET ps == EventPhases(e.is)
    IN  IF PrinterRunEligible(e.run, epoch) THEN [i \in DOMAIN ps |-> <<e.run, ps[i]>>]
        ELSE <<>>

Advances(s) == settings.enabled /\ settings.cursor = w[s].cursor

\* Mutants: the cursor goes to the end of what was listed with its first event; it
\* advances by the size of the page.
NextCursor_Till(s) == w[s].till
NextCursor_Page(s) == w[s].cursor + Batch

NextCursor(s) == w[s].cursor + 1

\* The receipts of one event and the cursor behind it, in one transaction; if
\* somebody else has moved the cursor, SyncOnce returns.
EnqueuePrintJobsAndAdvanceCursor(s) ==
    /\ At(s, "enqueue")
    /\ IF Advances(s)
         THEN LET next == NextCursor(s)
              IN  /\ Insert(JobsForEvent(events[w[s].cursor + 1], w[s].epoch))
                  /\ settings' = [settings EXCEPT !.cursor = next]
                  /\ IF next >= w[s].till /\ w[s].size < Batch
                       THEN Return(s, "claim")
                       ELSE w' = [w EXCEPT ![s].cursor = next,
                                           ![s].at = IF next < w[s].till THEN @ ELSE "list"]
         ELSE Return(s, "idle") /\ UNCHANGED <<queue, settings>>
    /\ UNCHANGED <<source, up, copies, retries, bounds>>

Queued == {i \in 1..Len(line) : job[line[i]] = "queued"}

ClaimNextPrintJob(s) ==
    /\ At(s, "claim")
    /\ \/ /\ Queued = {}
          /\ Return(s, "idle") /\ UNCHANGED job
       \/ \E i \in Queued :
            /\ \A k \in Queued : i <= k
            /\ job' = [job EXCEPT ![line[i]] = "submitting"]
            /\ w' = [w EXCEPT ![s].at = "print", ![s].receipt = line[i]]
    /\ UNCHANGED <<source, settings, line, up, copies, retries, bounds>>

\* Mutant: an error of lp is not looked at.
PrintReceipt_Ignored(s) ==
    /\ At(s, "print")
    /\ \/ copies' = [copies EXCEPT ![w[s].receipt] = @ + 1]
       \/ UNCHANGED copies
    /\ Goto(s, "complete")
    /\ UNCHANGED <<source, settings, queue, up, retries, bounds>>

\* lp: accepted; accepted, but the answer is late or not understood; refused.
PrintReceipt(s) ==
    /\ At(s, "print")
    /\ \/ /\ copies' = [copies EXCEPT ![w[s].receipt] = @ + 1]
          /\ Goto(s, "complete") \/ Goto(s, "fail")
       \/ Goto(s, "fail") /\ UNCHANGED copies
    /\ UNCHANGED <<source, settings, queue, up, retries, bounds>>

Spooled(r) == IF job[r] = "submitting" THEN "spooled" ELSE job[r]

CompletePrintJob(s) ==
    /\ At(s, "complete")
    /\ \/ /\ job' = [job EXCEPT ![w[s].receipt] = Spooled(w[s].receipt)]
          /\ Return(s, "claim") /\ UNCHANGED <<refused, troubles>>
       \/ /\ Trouble /\ refused' = TRUE
          /\ Goto(s, "unsure") /\ UNCHANGED job
    /\ UNCHANGED <<source, settings, line, up, copies, retries, requests>>

\* FailPrintJob, whatever the state is by now; without the write SyncOnce returns.
FailPrintJob(s, from, to, next) ==
    /\ At(s, from)
    /\ \/ /\ job' = [job EXCEPT ![w[s].receipt] = to]
          /\ Return(s, next) /\ UNCHANGED <<refused, troubles>>
       \/ /\ Trouble /\ refused' = TRUE
          /\ Return(s, "idle") /\ UNCHANGED job
    /\ UNCHANGED <<source, settings, line, up, copies, retries, requests>>

PrintFailed(s)         == FailPrintJob(s, "fail", "failed", "claim")
PreserveUncertainty(s) == FailPrintJob(s, "unsure", "uncertain", "idle")

\* A read or a transaction fails, which changes nothing: SyncOnce returns.
SyncFails(s) ==
    /\ At(s, "list") \/ At(s, "enqueue") \/ At(s, "claim")
    /\ Trouble /\ Return(s, "idle")
    /\ UNCHANGED <<source, settings, queue, up, copies, retries, refused, requests>>

-----------------------------------------------------------------------------
(* Start and crash of a server *)

\* Mutants: the interrupted receipts are queued again; they are left as they are.
Recovered_Again(r) == IF job[r] = "submitting" THEN "queued" ELSE job[r]
Recovered_Not(r)   == job[r]

\* RecoverSubmittingPrintJobs
Recovered(r) == IF job[r] = "submitting" THEN "uncertain" ELSE job[r]

Start(s) ==
    /\ s \notin up
    /\ up' = up \cup {s}
    /\ job' = [r \in Receipts |-> Recovered(r)]
    /\ UNCHANGED <<source, settings, line, w, copies, retries, bounds>>

Crash(s) ==
    /\ s \in up /\ Trouble
    /\ up' = up \ {s} /\ w' = [w EXCEPT ![s] = Idle]
    /\ UNCHANGED <<source, settings, queue, copies, retries, refused, requests>>

-----------------------------------------------------------------------------

SyncOnce(s) ==
    \/ ReadSettings(s) \/ ListPrinterRunEvents(s) \/ EnqueuePrintJobsAndAdvanceCursor(s)
    \/ ClaimNextPrintJob(s) \/ PrintReceipt(s) \/ CompletePrintJob(s) \/ PrintFailed(s)
    \/ PreserveUncertainty(s)

Next ==
    \/ \E r \in Runs : ChangeRun(r)
    \/ OpenDatabase
    \/ \E on \in BOOLEAN : ConfigurePrinter(on)
    \/ \E t \in Tests : EnqueueTest(t)
    \/ \E r \in Receipts : RetryPrintJob(r)
    \/ \E s \in Servers : SyncOnce(s) \/ SyncFails(s) \/ Start(s) \/ Crash(s)

Spec == Init /\ [][Next]_vars

\* A server is started again after a crash, and its worker ticks for ever.
Fairness == \A s \in Servers : WF_vars(SyncOnce(s)) /\ WF_vars(Start(s))

FairSpec == Spec /\ Fairness

-----------------------------------------------------------------------------
(* Properties *)

Events == [run : Runs, op : {"insert", "update"},
           is : {"queued", "running", "ended", "dropped"}]

SourceOK ==
    /\ status \in [Runs -> {"none", "queued", "running", "ended", "dropped"}]
    /\ events \in Seq(Events)
    /\ missing \subseteq {"insert", "update"}
    /\ opening \in {"no", "dropping", "creating"}

SettingsOK ==
    settings \in [enabled : BOOLEAN, cursor : 0..Len(events), epoch : 0..Len(events)]

QueueOK ==
    /\ job \in [Receipts -> {"none", "queued", "submitting", "spooled", "failed", "uncertain"}]
    /\ line \in Seq(Receipts)

WorkersOK ==
    /\ up \subseteq Servers
    /\ w \in [Servers -> [at : {"idle", "list", "enqueue", "claim", "print", "complete",
                                "fail", "unsure"},
                          cursor : 0..Len(events), epoch : 0..Len(events),
                          till : 0..Len(events), size : 0..Batch,
                          receipt : Receipts \cup {NoReceipt}]]

HistoryOK ==
    /\ copies \in [Receipts -> Nat] /\ retries \in [Receipts -> Nat]
    /\ refused \in BOOLEAN /\ requests \in 0..MaxRequests /\ troubles \in 0..MaxTroubles

\* The types of the events, of the settings, of the queue, of the workers, whose
\* copies never run ahead of the events, and of the history.
TypeOK == SourceOK /\ SettingsOK /\ QueueOK /\ WorkersOK /\ HistoryOK

\* A receipt is printed a second time only on the user's request: replayed
\* events, restarts, crashes between CUPS and the database and a second worker
\* on the same queue print nothing twice.
NoUnaskedCopy == \A r \in Receipts : copies[r] <= 1 + retries[r]

\* Spooled means that CUPS has accepted the receipt (models.go, PrintJob).
SpooledIsAccepted == \A r \in Receipts : job[r] = "spooled" => copies[r] > 0

\* The cursor never passes an event of this epoch whose receipts are not queued,
\* whatever workers crash, race or hold an old copy of the settings.
NoReceiptSkipped ==
    \A i \in 1..settings.cursor :
      LET rs == JobsForEvent(events[i], settings.epoch)
      IN  \A k \in DOMAIN rs : job[rs[k]] # "none"

\* The queue drains: no receipt stays queued, or in the hands of a worker that has
\* crashed, unless the database has refused to take a result.
QueueDrains ==
    []<>(refused \/ \A r \in Receipts : job[r] \notin {"queued", "submitting"})

\* The recorded end of a run that was created while the printer is on is queued,
\* unless the printer is switched off before.
EndIsQueued ==
    \A r \in Runs :
      (/\ settings.enabled /\ PrinterRunEligible(r, settings.epoch)
       /\ \E i \in 1..Len(events) : events[i].run = r /\ events[i].is \in {"ended", "dropped"})
        ~> (job[<<r, "end">>] # "none" \/ ~settings.enabled)
=============================================================================
