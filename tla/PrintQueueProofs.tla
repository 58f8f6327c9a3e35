-------------------------- MODULE PrintQueueProofs --------------------------
(***************************************************************************)
(* What holds of the receipts for any number of runs, servers and events,  *)
(* any size of a page and any crashes.                                     *)
(***************************************************************************)
EXTENDS PrintQueue, FiniteSetTheorems, SequenceTheorems, TLAPS

Places == {"idle", "list", "enqueue", "claim", "print", "complete", "fail", "unsure"}

(***************************************************************************)
(* Beside the types: a worker that enqueues has a rest of its page, and    *)
(* one that prints has a receipt with a row.                               *)
(***************************************************************************)
Pages == \A s \in Servers : w[s].at = "enqueue" => w[s].cursor < w[s].till

Holding == {"print", "complete", "fail", "unsure"}

Held ==
    \A s \in Servers : w[s].at \in Holding
        => w[s].receipt \in Receipts /\ job[w[s].receipt] # "none"

TypeInv == TypeOK /\ Pages /\ Held

(***************************************************************************)
(* Each copy was allowed once, by the row's creation or by a retry.  What  *)
(* a receipt has left of that is what the queue still offers, and what is  *)
(* on its way to CUPS.                                                     *)
(***************************************************************************)
Printing(r) == {s \in Servers : w[s].at = "print" /\ w[s].receipt = r}

Offered(r) == IF job[r] \in {"none", "queued"} THEN 1 ELSE 0

Budget == \A r \in Receipts : copies[r] + Cardinality(Printing(r)) + Offered(r) <= 1 + retries[r]

Worker(n) ==
    [at : Places, cursor : 0..n, epoch : 0..n, till : 0..n, size : 0..Batch,
     receipt : Receipts \cup {NoReceipt}]

Workers(n) == [Servers -> Worker(n)]

\* A worker reports a receipt as printed only after CUPS has accepted it.
Accepted ==
    /\ \A r \in Receipts : job[r] = "spooled" => copies[r] > 0
    /\ \A s \in Servers : w[s].at = "complete" => copies[w[s].receipt] > 0

(***************************************************************************)
(* No event behind the cursor lacks a receipt: a worker's copy of the      *)
(* epoch is never ahead, so it finds a run eligible whenever the present   *)
(* epoch does, and a run cannot become eligible later, since its insert    *)
(* event is its first.                                                     *)
(***************************************************************************)
Enqueued(i) ==
    \A k \in DOMAIN EventPhases(events[i].is) :
      job[<<events[i].run, EventPhases(events[i].is)[k]>>] # "none"

NoGap ==
    \A i \in 1..settings.cursor :
      PrinterRunEligible(events[i].run, settings.epoch) => Enqueued(i)

OldEpochs == \A s \in Servers : w[s].epoch <= settings.epoch

Born == \A i \in 1..Len(events) : status[events[i].run] # "none"

Enrolment == NoGap /\ OldEpochs /\ Born

-----------------------------------------------------------------------------
(* Types *)

LEMMA Bounds == ASSUME TypeInv PROVE Len(events) \in Nat /\ Batch \in Nat \ {0}
BY PrinterAssumption DEF TypeInv, TypeOK, SourceOK

LEMMA ReturnType ==
    ASSUME NEW n \in Nat, Batch \in Nat, w \in Workers(n), NEW s \in Servers,
           NEW l \in Places, Return(s, l)
    PROVE  w' \in Workers(n)
<1>1. [Idle EXCEPT !.at = l] \in Worker(n)
  BY DEF Idle, Worker
<1> QED BY <1>1 DEF Workers, Return

\* A worker that takes a step: its place, its copy of the settings and its page.
LEMMA GotoType ==
    ASSUME NEW n \in Nat, w \in Workers(n), NEW s \in Servers, NEW l \in Places,
           w' = [w EXCEPT ![s].at = l]
    PROVE  w' \in Workers(n)
<1>1. w[s] \in Worker(n)
  BY DEF Workers
<1>2. [w[s] EXCEPT !.at = l] \in Worker(n)
  BY <1>1 DEF Worker
<1> QED BY <1>2 DEF Workers

LEMMA ReadType ==
    ASSUME NEW n \in Nat, w \in Workers(n), NEW s \in Servers, NEW l \in Places,
           NEW c \in 0..n, NEW e \in 0..n,
           w' = [w EXCEPT ![s].at = l, ![s].cursor = c, ![s].epoch = e]
    PROVE  w' \in Workers(n)
<1>1. w[s] \in Worker(n)
  BY DEF Workers
<1>2. [w[s] EXCEPT !.at = l, !.cursor = c, !.epoch = e] \in Worker(n)
  BY <1>1 DEF Worker
<1>3. w' = [w EXCEPT ![s] = [w[s] EXCEPT !.at = l, !.cursor = c, !.epoch = e]]
  BY <1>1 DEF Workers, Worker
<1> QED BY <1>2, <1>3 DEF Workers

LEMMA ListType ==
    ASSUME NEW n \in Nat, w \in Workers(n), NEW s \in Servers, NEW l \in Places,
           NEW k \in 0..Batch, NEW t \in 0..n,
           w' = [w EXCEPT ![s].at = l, ![s].size = k, ![s].till = t]
    PROVE  w' \in Workers(n)
<1>1. w[s] \in Worker(n)
  BY DEF Workers
<1>2. [w[s] EXCEPT !.at = l, !.size = k, !.till = t] \in Worker(n)
  BY <1>1 DEF Worker
<1>3. w' = [w EXCEPT ![s] = [w[s] EXCEPT !.at = l, !.size = k, !.till = t]]
  BY <1>1 DEF Workers, Worker
<1> QED BY <1>2, <1>3 DEF Workers

LEMMA AdvanceType ==
    ASSUME NEW n \in Nat, w \in Workers(n), NEW s \in Servers, NEW l \in Places,
           NEW c \in 0..n, w' = [w EXCEPT ![s].cursor = c, ![s].at = l]
    PROVE  w' \in Workers(n)
<1>1. w[s] \in Worker(n)
  BY DEF Workers
<1>2. [w[s] EXCEPT !.cursor = c, !.at = l] \in Worker(n)
  BY <1>1 DEF Worker
<1>3. w' = [w EXCEPT ![s] = [w[s] EXCEPT !.cursor = c, !.at = l]]
  BY <1>1 DEF Workers, Worker
<1> QED BY <1>2, <1>3 DEF Workers

LEMMA HoldType ==
    ASSUME NEW n \in Nat, w \in Workers(n), NEW s \in Servers, NEW l \in Places,
           NEW r \in Receipts, w' = [w EXCEPT ![s].at = l, ![s].receipt = r]
    PROVE  w' \in Workers(n)
<1>1. w[s] \in Worker(n)
  BY DEF Workers
<1>2. [w[s] EXCEPT !.at = l, !.receipt = r] \in Worker(n)
  BY <1>1 DEF Worker
<1>3. w' = [w EXCEPT ![s] = [w[s] EXCEPT !.at = l, !.receipt = r]]
  BY <1>1 DEF Workers, Worker
<1> QED BY <1>2, <1>3 DEF Workers

\* The workers are of their type at any number of events at least as great as theirs.
LEMMA WorkersType ==
    ASSUME TypeInv, UNCHANGED <<up, events>>
    PROVE  /\ w \in Workers(Len(events))
           /\ w' \in Workers(Len(events)) => WorkersOK'
BY Bounds DEF TypeInv, TypeOK, WorkersOK, Workers, Worker, Places

\* A worker that leaves its receipt or its page behind.
LEMMA ReturnGood ==
    ASSUME TypeInv, NEW s \in Servers, NEW l \in {"idle", "claim"}, Return(s, l),
           UNCHANGED <<up, events>>,
           \A r \in Receipts : job[r] # "none" => job'[r] # "none"
    PROVE  WorkersOK' /\ Pages' /\ Held'
<1>1. Len(events) \in Nat /\ Batch \in Nat
  BY Bounds
<1>2. l \in Places
  BY DEF Places
<1>3. WorkersOK'
  BY <1>1, <1>2, ReturnType, WorkersType
<1>4. Pages' /\ Held'
  BY DEF Return, Idle, TypeInv, TypeOK, WorkersOK, Pages, Held, Holding
<1> QED BY <1>3, <1>4

\* The database alone changes: its rows stay.
LEMMA WorkersStay ==
    ASSUME TypeInv, UNCHANGED <<up, w>>, Len(events') \in Nat, Len(events) <= Len(events'),
           \A r \in Receipts : job[r] # "none" => job'[r] # "none"
    PROVE  WorkersOK' /\ Pages' /\ Held'
<1>1. WorkersOK'
  BY Bounds DEF TypeInv, TypeOK, WorkersOK
<1>2. Pages' /\ Held'
  BY DEF TypeInv, Pages, Held
<1> QED BY <1>1, <1>2

LEMMA HistoryStays ==
    ASSUME HistoryOK, UNCHANGED <<copies, retries, bounds>>
    PROVE  HistoryOK'
BY DEF HistoryOK, bounds

LEMMA RequestGood ==
    ASSUME HistoryOK, Request, UNCHANGED <<copies, refused, troubles>>,
           retries' \in [Receipts -> Nat]
    PROVE  HistoryOK'
<1>1. refused' \in BOOLEAN
  BY Zenon DEF HistoryOK
<1>2. requests' \in 0..MaxRequests
  BY PrinterAssumption DEF Request, HistoryOK
<1> QED BY <1>1, <1>2 DEF HistoryOK

LEMMA TroubleGood ==
    ASSUME HistoryOK, Trouble, UNCHANGED <<copies, retries, requests>>,
           refused' = refused \/ refused' = TRUE
    PROVE  HistoryOK'
<1>1. refused' \in BOOLEAN
  BY Zenon DEF HistoryOK
<1>2. troubles' \in 0..MaxTroubles
  BY PrinterAssumption DEF Trouble, HistoryOK
<1> QED BY <1>1, <1>2 DEF HistoryOK

\* Events that grow take nothing away.
LEMMA SettingsStay ==
    ASSUME TypeInv, UNCHANGED settings, Len(events') \in Nat, Len(events) <= Len(events')
    PROVE  SettingsOK'
BY Bounds DEF TypeInv, TypeOK, SettingsOK

-----------------------------------------------------------------------------
(* Runs and the user *)

LEMMA ChangeRunType ==
    ASSUME TypeInv, NEW r \in Runs, ChangeRun(r)
    PROVE  TypeInv'
<1>1. UNCHANGED <<missing, opening, settings, queue, up, w, copies, retries, bounds>>
  BY DEF ChangeRun
<1>2. PICK trigger \in {"insert", "update"}, st \in {"queued", "running", "ended", "dropped"} :
        status' = [status EXCEPT ![r] = st] /\ Record(trigger, r, st)
  BY DEF ChangeRun
<1>3. events' \in Seq(Events) /\ Len(events) <= Len(events')
  <2>1. [run |-> r, op |-> trigger, is |-> st] \in Events
    BY DEF Events
  <2>2. events \in Seq(Events)
    BY DEF TypeInv, TypeOK, SourceOK
  <2> QED BY <1>2, <2>1, <2>2, Bounds DEF Record
<1>4. SourceOK'
  BY <1>1, <1>2, <1>3 DEF TypeInv, TypeOK, SourceOK
<1>5. QueueOK' /\ HistoryOK'
  BY <1>1, HistoryStays DEF TypeInv, TypeOK, QueueOK, queue
<1>6. Len(events') \in Nat
  BY <1>3
<1>7. SettingsOK' /\ WorkersOK' /\ Pages' /\ Held'
  BY <1>1, <1>3, <1>6, SettingsStay, WorkersStay DEF queue
<1> QED BY <1>4, <1>5, <1>7 DEF TypeInv, TypeOK

LEMMA OpenDatabaseType ==
    ASSUME TypeInv, OpenDatabase
    PROVE  TypeInv'
<1>1. UNCHANGED <<status, events, settings, queue, up, w, copies, retries, refused, requests>>
  BY DEF OpenDatabase
<1>2. SourceOK'
  BY DEF OpenDatabase, TypeInv, TypeOK, SourceOK
<1>3. HistoryOK'
  <2>1. CASE Trouble
    BY <1>1, <2>1, TroubleGood DEF TypeInv, TypeOK
  <2>2. CASE UNCHANGED troubles
    BY <1>1, <2>2, HistoryStays DEF TypeInv, TypeOK, bounds
  <2> QED BY <2>1, <2>2 DEF OpenDatabase
<1>4. QueueOK'
  BY <1>1 DEF TypeInv, TypeOK, QueueOK, queue
<1>5. SettingsOK' /\ WorkersOK' /\ Pages' /\ Held'
  BY <1>1, Bounds, SettingsStay, WorkersStay DEF queue
<1> QED BY <1>2, <1>3, <1>4, <1>5 DEF TypeInv, TypeOK

LEMMA ConfigurePrinterType ==
    ASSUME TypeInv, NEW on \in BOOLEAN, ConfigurePrinter(on)
    PROVE  TypeInv'
<1>1. UNCHANGED <<source, queue, up, w, copies, retries, refused, troubles>> /\ Request
  BY DEF ConfigurePrinter
<1>2. SettingsOK'
  <2>1. UNCHANGED events
    BY <1>1 DEF source
  <2>2. CASE on /\ ~settings.enabled
    BY <2>1, <2>2, Bounds DEF ConfigurePrinter, SettingsOK
  <2>3. CASE ~(on /\ ~settings.enabled)
    BY <2>1, <2>3, Bounds DEF ConfigurePrinter, SettingsOK, TypeInv, TypeOK
  <2> QED BY <2>2, <2>3
<1>3. SourceOK' /\ QueueOK'
  BY <1>1 DEF TypeInv, TypeOK, SourceOK, QueueOK, source, queue
<1>4. HistoryOK'
  BY <1>1, RequestGood DEF TypeInv, TypeOK, HistoryOK
<1>5. WorkersOK' /\ Pages' /\ Held'
  BY <1>1, Bounds, WorkersStay DEF source, queue
<1> QED BY <1>2, <1>3, <1>4, <1>5 DEF TypeInv, TypeOK

\* What Insert does to the rows: it creates some, queued, and touches no other.
LEMMA InsertRows ==
    ASSUME QueueOK, NEW rs \in Seq(Receipts), Len(rs) <= 2, Insert(rs)
    PROVE  /\ QueueOK'
           /\ \A r \in Receipts : job[r] # "none" => job'[r] = job[r]
           /\ \A r \in Receipts : job[r] = "none" => job'[r] \in {"none", "queued"}
           /\ \A i \in DOMAIN rs : job'[rs[i]] # "none"
<1>1. job' = [r \in Receipts |->
               IF job[r] = "none" /\ \E i \in DOMAIN rs : rs[i] = r THEN "queued" ELSE job[r]]
  BY DEF Insert
<1>2. job' \in [Receipts -> {"none", "queued", "submitting", "spooled", "failed", "uncertain"}]
  BY <1>1 DEF QueueOK
<1>3. \A i \in DOMAIN rs : rs[i] \in Receipts
  OBVIOUS
<1>4. line' \in Seq(Receipts)
  <2>1. line \in Seq(Receipts)
    BY DEF QueueOK
  <2>2. \A l \in Seq(Receipts), r \in Receipts : AppendNew(l, r) \in Seq(Receipts)
    BY DEF AppendNew
  <2>3. CASE Len(rs) = 0
    BY <2>1, <2>3 DEF Insert
  <2>4. CASE Len(rs) = 1
    <3>1. rs[1] \in Receipts
      BY <1>3, <2>4
    <3> QED BY <2>1, <2>2, <2>4, <3>1 DEF Insert
  <2>5. CASE Len(rs) = 2
    <3>1. rs[1] \in Receipts /\ rs[2] \in Receipts
      <4>1. 1 \in DOMAIN rs /\ 2 \in DOMAIN rs
        BY <2>5
      <4> QED BY <1>3, <4>1
    <3>2. AppendNew(line, rs[1]) \in Seq(Receipts)
      BY <2>1, <2>2, <3>1
    <3>3. AppendNew(AppendNew(line, rs[1]), rs[2]) \in Seq(Receipts)
      BY <2>2, <3>1, <3>2
    <3> QED BY <2>5, <3>3 DEF Insert
  <2>6. Len(rs) = 0 \/ Len(rs) = 1 \/ Len(rs) = 2
    <3>1. Len(rs) \in Nat
      BY LenProperties
    <3>2. \A n \in Nat : n <= 2 => n = 0 \/ n = 1 \/ n = 2
      OBVIOUS
    <3> QED BY <3>1, <3>2
  <2> QED BY <2>3, <2>4, <2>5, <2>6
<1> QED BY <1>1, <1>2, <1>3, <1>4 DEF QueueOK

LEMMA EnqueueTestType ==
    ASSUME TypeInv, NEW t \in Tests, EnqueueTest(t)
    PROVE  TypeInv'
<1>1. /\ UNCHANGED <<source, settings, up, w, copies, retries, refused, troubles>>
      /\ Request /\ Insert(<< <<t, "test">> >>)
  BY DEF EnqueueTest
<1>2. << <<t, "test">> >> \in Seq(Receipts) /\ Len(<< <<t, "test">> >>) <= 2
  BY DEF Receipts
<1>3. QueueOK' /\ \A r \in Receipts : job[r] # "none" => job'[r] = job[r]
  BY <1>1, <1>2, InsertRows DEF TypeInv, TypeOK
<1>4. HistoryOK'
  BY <1>1, RequestGood DEF TypeInv, TypeOK, HistoryOK
<1>5. SourceOK' /\ SettingsOK'
  BY <1>1 DEF TypeInv, TypeOK, SourceOK, SettingsOK, source
<1>6. WorkersOK' /\ Pages' /\ Held'
  BY <1>1, <1>3, Bounds, WorkersStay DEF source
<1> QED BY <1>3, <1>4, <1>5, <1>6 DEF TypeInv, TypeOK

LEMMA RetryPrintJobType ==
    ASSUME TypeInv, NEW r \in Receipts, RetryPrintJob(r)
    PROVE  TypeInv'
<1>1. /\ UNCHANGED <<source, settings, line, up, w, copies, refused, troubles>>
      /\ Request /\ job' = [job EXCEPT ![r] = "queued"]
      /\ retries' = [retries EXCEPT ![r] = @ + 1]
  BY DEF RetryPrintJob
<1>2. QueueOK' /\ \A q \in Receipts : job[q] # "none" => job'[q] # "none"
  BY <1>1 DEF TypeInv, TypeOK, QueueOK
<1>3. HistoryOK'
  <2>1. retries' \in [Receipts -> Nat]
    BY <1>1 DEF TypeInv, TypeOK, HistoryOK
  <2> QED BY <1>1, <2>1, RequestGood DEF TypeInv, TypeOK
<1>4. SourceOK' /\ SettingsOK'
  BY <1>1 DEF TypeInv, TypeOK, SourceOK, SettingsOK, source
<1>5. WorkersOK' /\ Pages' /\ Held'
  BY <1>1, <1>2, Bounds, WorkersStay DEF source
<1> QED BY <1>2, <1>3, <1>4, <1>5 DEF TypeInv, TypeOK

-----------------------------------------------------------------------------
(* The worker *)

LEMMA ReadSettingsType ==
    ASSUME TypeInv, NEW s \in Servers, ReadSettings(s)
    PROVE  TypeInv'
<1>1. UNCHANGED <<source, settings, queue, up, copies, retries, bounds>>
  BY DEF ReadSettings
<1>2. SourceOK' /\ SettingsOK' /\ QueueOK' /\ HistoryOK'
  BY <1>1, HistoryStays DEF TypeInv, TypeOK, SourceOK, SettingsOK, QueueOK, source, queue
<1>3. CASE settings.enabled
  <2>1. w' = [w EXCEPT ![s].at = "list", ![s].cursor = settings.cursor,
                       ![s].epoch = settings.epoch]
    BY <1>3 DEF ReadSettings
  <2>2. settings.cursor \in 0..Len(events) /\ settings.epoch \in 0..Len(events)
    BY DEF TypeInv, TypeOK, SettingsOK
  <2>3. WorkersOK'
    <3>1. w \in Workers(Len(events))
      BY <1>1, WorkersType DEF source
    <3>2. w' \in Workers(Len(events))
      BY <2>1, <2>2, <3>1, Bounds, ReadType DEF Places
    <3> QED BY <1>1, <3>2, WorkersType DEF source
  <2>4. Pages' /\ Held'
    BY <1>1, <2>1 DEF TypeInv, TypeOK, WorkersOK, Pages, Held, Holding, queue
  <2> QED BY <1>2, <2>3, <2>4 DEF TypeInv, TypeOK
<1>4. CASE ~settings.enabled
  <2>1. Return(s, "claim")
    BY <1>4 DEF ReadSettings
  <2> QED BY <1>1, <1>2, <2>1, ReturnGood DEF TypeInv, TypeOK, source, queue
<1> QED BY <1>3, <1>4

LEMMA ListPrinterRunEventsType ==
    ASSUME TypeInv, NEW s \in Servers, ListPrinterRunEvents(s)
    PROVE  TypeInv'
<1> DEFINE found == Len(events) - w[s].cursor
           size  == IF found < Batch THEN found ELSE Batch
<1>1. UNCHANGED <<source, settings, queue, up, copies, retries, bounds>>
  BY DEF ListPrinterRunEvents
<1>2. SourceOK' /\ SettingsOK' /\ QueueOK' /\ HistoryOK'
  BY <1>1, HistoryStays DEF TypeInv, TypeOK, SourceOK, SettingsOK, QueueOK, source, queue
<1>3. CASE found = 0
  <2>1. Return(s, "claim")
    BY <1>3 DEF ListPrinterRunEvents
  <2> QED BY <1>1, <1>2, <2>1, ReturnGood DEF TypeInv, TypeOK, source, queue
<1>4. CASE found # 0
  <2>1. w' = [w EXCEPT ![s].at = "enqueue", ![s].size = size, ![s].till = w[s].cursor + size]
    BY <1>4 DEF ListPrinterRunEvents
  <2>2. w[s].cursor \in 0..Len(events)
    BY DEF TypeInv, TypeOK, WorkersOK
  <2>3. size \in 1..Batch /\ w[s].cursor + size \in 0..Len(events)
    BY <1>4, <2>2, Bounds
  <2> HIDE DEF size
  <2>4. WorkersOK'
    <3>1. w \in Workers(Len(events))
      BY <1>1, WorkersType DEF source
    <3>2. size \in 0..Batch
      BY <2>3, Bounds
    <3>3. w' \in Workers(Len(events))
      BY <2>1, <2>3, <3>1, <3>2, Bounds, ListType DEF Places
    <3> QED BY <1>1, <3>3, WorkersType DEF source
  <2>5. Pages'
    BY <2>1, <2>2, <2>3, Bounds DEF TypeInv, TypeOK, WorkersOK, Pages
  <2>6. Held'
    BY <1>1, <2>1 DEF TypeInv, TypeOK, WorkersOK, Held, Holding, queue
  <2> QED BY <1>2, <2>4, <2>5, <2>6 DEF TypeInv, TypeOK
<1> QED BY <1>3, <1>4

\* The receipts of an event are two at most.
LEMMA JobsOfEvent ==
    ASSUME NEW e \in Events, NEW epoch
    PROVE  JobsForEvent(e, epoch) \in Seq(Receipts) /\ Len(JobsForEvent(e, epoch)) <= 2
<1>1. EventPhases(e.is) \in {<<"start">>, <<"start", "end">>, <<"end">>, <<>>}
  BY DEF EventPhases
<1>2. e.run \in Runs
  BY DEF Events
<1> DEFINE ps == EventPhases(e.is)
           rs == [i \in DOMAIN ps |-> <<e.run, ps[i]>>]
<1>3. rs \in Seq(Receipts) /\ Len(rs) <= 2
  <2>1. ps \in Seq(Phases) /\ Len(ps) <= 2 /\ Len(ps) \in Nat /\ DOMAIN ps = 1..Len(ps)
    <3>1. CASE ps = <<>>
      BY <3>1
    <3>2. CASE ps = <<"start">>
      BY <3>2 DEF Phases
    <3>3. CASE ps = <<"end">>
      BY <3>3 DEF Phases
    <3>4. CASE ps = <<"start", "end">>
      BY <3>4 DEF Phases
    <3> HIDE DEF ps
    <3> QED BY <1>1, <3>1, <3>2, <3>3, <3>4 DEF ps
  <2> HIDE DEF ps
  <2>2. \A i \in 1..Len(ps) : rs[i] \in Receipts
    BY <1>2, <2>1 DEF Receipts
  <2>3. rs \in Seq(Receipts) /\ Len(rs) = Len(ps)
    BY <2>1, <2>2
  <2> QED BY <2>1, <2>3
<1> QED BY <1>3 DEF JobsForEvent

LEMMA EnqueueType ==
    ASSUME TypeInv, NEW s \in Servers, EnqueuePrintJobsAndAdvanceCursor(s)
    PROVE  TypeInv'
<1> DEFINE next == w[s].cursor + 1
           rs   == JobsForEvent(events[next], w[s].epoch)
<1>1. At(s, "enqueue") /\ UNCHANGED <<source, up, copies, retries, bounds>>
  BY DEF EnqueuePrintJobsAndAdvanceCursor
<1>2. SourceOK' /\ HistoryOK'
  BY <1>1, HistoryStays DEF TypeInv, TypeOK, SourceOK, source
<1>3. CASE Advances(s)
  <2>1. /\ Insert(rs) /\ settings' = [settings EXCEPT !.cursor = next]
        /\ \/ Return(s, "claim")
           \/ w' = [w EXCEPT ![s].cursor = next,
                             ![s].at = IF next < w[s].till THEN @ ELSE "list"]
    BY <1>3 DEF EnqueuePrintJobsAndAdvanceCursor, NextCursor
  <2>2. /\ w[s].at = "enqueue" /\ w[s].cursor \in 0..Len(events)
        /\ w[s].till \in 0..Len(events)
    BY <1>1 DEF At, TypeInv, TypeOK, WorkersOK
  <2>3. next \in 1..Len(events) /\ next <= w[s].till
    BY <2>2, Bounds DEF TypeInv, Pages
  <2>4. rs \in Seq(Receipts) /\ Len(rs) <= 2
    <3>1. events[next] \in Events
      BY <2>3 DEF TypeInv, TypeOK, SourceOK
    <3> QED BY <3>1, JobsOfEvent
  <2> HIDE DEF rs
  <2>5. QueueOK' /\ \A r \in Receipts : job[r] # "none" => job'[r] # "none"
    BY <2>1, <2>4, InsertRows DEF TypeInv, TypeOK
  <2>6. SettingsOK'
    BY <1>1, <2>1, <2>3, Bounds DEF TypeInv, TypeOK, SettingsOK, source
  <2>7. CASE Return(s, "claim")
    BY <1>1, <1>2, <2>5, <2>6, <2>7, ReturnGood DEF TypeInv, TypeOK, source
  <2>8. CASE w' = [w EXCEPT ![s].cursor = next,
                            ![s].at = IF next < w[s].till THEN @ ELSE "list"]
    <3> DEFINE l == IF next < w[s].till THEN "enqueue" ELSE "list"
    <3>1. w' = [w EXCEPT ![s].cursor = next, ![s].at = l]
      BY <2>2, <2>8 DEF TypeInv, TypeOK, WorkersOK
    <3>2. l \in Places /\ next \in 0..Len(events)
      BY <2>3, Bounds DEF Places
    <3>3. WorkersOK'
      <4>1. w \in Workers(Len(events))
        BY <1>1, WorkersType DEF source
      <4> HIDE DEF next, l
      <4>2. w' \in Workers(Len(events))
        BY <3>1, <3>2, <4>1, Bounds, AdvanceType
      <4> QED BY <1>1, <4>2, WorkersType DEF source
    <3>4. Pages'
      BY <2>2, <2>3, <3>1, Bounds DEF TypeInv, TypeOK, WorkersOK, Pages
    <3>5. Held'
      BY <2>5, <3>1 DEF TypeInv, TypeOK, WorkersOK, Held, Holding
    <3> QED BY <1>2, <2>5, <2>6, <3>3, <3>4, <3>5 DEF TypeInv, TypeOK
  <2> QED BY <2>1, <2>7, <2>8
<1>4. CASE ~Advances(s)
  <2>1. Return(s, "idle") /\ UNCHANGED <<queue, settings>>
    BY <1>4 DEF EnqueuePrintJobsAndAdvanceCursor
  <2>2. SettingsOK' /\ QueueOK'
    BY <1>1, <2>1 DEF TypeInv, TypeOK, SettingsOK, QueueOK, source, queue
  <2> QED BY <1>1, <1>2, <2>1, <2>2, ReturnGood DEF TypeInv, TypeOK, source, queue
<1> QED BY <1>3, <1>4

LEMMA ClaimType ==
    ASSUME TypeInv, NEW s \in Servers, ClaimNextPrintJob(s)
    PROVE  TypeInv'
<1>1. UNCHANGED <<source, settings, line, up, copies, retries, bounds>>
  BY DEF ClaimNextPrintJob
<1>2. SourceOK' /\ SettingsOK' /\ HistoryOK'
  BY <1>1, HistoryStays DEF TypeInv, TypeOK, SourceOK, SettingsOK, source
<1>3. CASE Return(s, "idle") /\ UNCHANGED job
  BY <1>1, <1>2, <1>3, ReturnGood DEF TypeInv, TypeOK, QueueOK, source
<1>4. ASSUME NEW i \in Queued, job' = [job EXCEPT ![line[i]] = "submitting"],
             w' = [w EXCEPT ![s].at = "print", ![s].receipt = line[i]]
      PROVE  TypeInv'
  <2>1. line[i] \in Receipts
    BY <1>4 DEF Queued, TypeInv, TypeOK, QueueOK
  <2>2. QueueOK'
    BY <1>1, <1>4 DEF TypeInv, TypeOK, QueueOK
  <2>3. WorkersOK'
    <3>1. w \in Workers(Len(events))
      BY <1>1, WorkersType DEF source
    <3>2. w' \in Workers(Len(events))
      BY <1>4, <2>1, <3>1, Bounds, HoldType DEF Places
    <3> QED BY <1>1, <3>2, WorkersType DEF source
  <2>4. Pages' /\ Held'
    BY <1>4, <2>1 DEF TypeInv, TypeOK, WorkersOK, QueueOK, Pages, Held, Holding
  <2> QED BY <1>2, <2>2, <2>3, <2>4 DEF TypeInv, TypeOK
<1> QED BY <1>3, <1>4 DEF ClaimNextPrintJob

\* A worker that goes on with its receipt: the rows stay, and so does what it holds.
LEMMA GotoGood ==
    ASSUME TypeInv, NEW s \in Servers, w[s].at \in Holding, NEW l \in Holding, Goto(s, l),
           UNCHANGED <<source, settings, queue, up>>
    PROVE  SourceOK' /\ SettingsOK' /\ QueueOK' /\ WorkersOK' /\ Pages' /\ Held'
<1>1. SourceOK' /\ SettingsOK' /\ QueueOK'
  BY DEF TypeInv, TypeOK, SourceOK, SettingsOK, QueueOK, source, queue
<1>2. WorkersOK'
  <2>1. w \in Workers(Len(events))
    BY WorkersType DEF source
  <2>2. w' \in Workers(Len(events))
    BY <2>1, Bounds, GotoType DEF Places, Holding, Goto
  <2> QED BY <2>2, WorkersType DEF source
<1>3. Pages' /\ Held'
  BY DEF Goto, TypeInv, TypeOK, WorkersOK, Pages, Held, Holding, queue
<1> QED BY <1>1, <1>2, <1>3

\* A worker that writes the result of its receipt, or drops it, and leaves it.
LEMMA ResultGood ==
    ASSUME TypeInv, NEW s \in Servers, NEW l \in {"idle", "claim"}, Return(s, l),
           UNCHANGED <<source, settings, line, up>>, NEW r \in Receipts, job[r] # "none",
           NEW to \in {"submitting", "spooled", "queued", "failed", "uncertain"},
           job' = [job EXCEPT ![r] = to] \/ job' = job
    PROVE  SourceOK' /\ SettingsOK' /\ QueueOK' /\ WorkersOK' /\ Pages' /\ Held'
<1>1. SourceOK' /\ SettingsOK'
  BY DEF TypeInv, TypeOK, SourceOK, SettingsOK, source
<1>2. QueueOK' /\ \A q \in Receipts : job[q] # "none" => job'[q] # "none"
  BY DEF TypeInv, TypeOK, QueueOK
<1>3. WorkersOK' /\ Pages' /\ Held'
  BY <1>2, ReturnGood DEF source
<1> QED BY <1>1, <1>2, <1>3

LEMMA PrintReceiptType ==
    ASSUME TypeInv, NEW s \in Servers, PrintReceipt(s)
    PROVE  TypeInv'
<1>1. At(s, "print") /\ UNCHANGED <<source, settings, queue, up, retries, bounds>>
  BY DEF PrintReceipt
<1>2. w[s].at \in Holding
  BY <1>1 DEF At, Holding
<1>3. PICK l \in {"complete", "fail"} : Goto(s, l)
  BY DEF PrintReceipt
<1>4. l \in Holding
  BY DEF Holding
<1>5. SourceOK' /\ SettingsOK' /\ QueueOK' /\ WorkersOK' /\ Pages' /\ Held'
  BY <1>1, <1>2, <1>3, <1>4, GotoGood
<1>6. HistoryOK'
  <2>1. copies' \in [Receipts -> Nat]
    BY <1>2 DEF PrintReceipt, TypeInv, TypeOK, HistoryOK, Held
  <2> QED BY <1>1, <2>1 DEF TypeInv, TypeOK, HistoryOK, bounds
<1> QED BY <1>5, <1>6 DEF TypeInv, TypeOK

LEMMA CompleteType ==
    ASSUME TypeInv, NEW s \in Servers, CompletePrintJob(s)
    PROVE  TypeInv'
<1> DEFINE r == w[s].receipt
<1>1. At(s, "complete")
      /\ UNCHANGED <<source, settings, line, up, copies, retries, requests>>
  BY DEF CompletePrintJob
<1>2. r \in Receipts /\ job[r] # "none" /\ w[s].at \in Holding
  BY <1>1 DEF At, TypeInv, Held, Holding
<1>3. CASE /\ job' = [job EXCEPT ![r] = Spooled(r)]
           /\ Return(s, "claim") /\ UNCHANGED <<refused, troubles>>
  <2>1. Spooled(r) \in {"submitting", "spooled", "queued", "failed", "uncertain"}
    BY <1>2 DEF Spooled, TypeInv, TypeOK, QueueOK
  <2>2. SourceOK' /\ SettingsOK' /\ QueueOK' /\ WorkersOK' /\ Pages' /\ Held'
    BY <1>1, <1>2, <1>3, <2>1, ResultGood
  <2>3. HistoryOK'
    BY <1>1, <1>3, HistoryStays DEF TypeInv, TypeOK, bounds
  <2> QED BY <2>2, <2>3 DEF TypeInv, TypeOK
<1>4. CASE Trouble /\ refused' = TRUE /\ Goto(s, "unsure") /\ UNCHANGED job
  <2>1. SourceOK' /\ SettingsOK' /\ QueueOK' /\ WorkersOK' /\ Pages' /\ Held'
    BY <1>1, <1>2, <1>4, GotoGood DEF Holding, queue
  <2>2. HistoryOK'
    BY <1>1, <1>4, TroubleGood DEF TypeInv, TypeOK
  <2> QED BY <2>1, <2>2 DEF TypeInv, TypeOK
<1> QED BY <1>3, <1>4 DEF CompletePrintJob

LEMMA FailType ==
    ASSUME TypeInv, NEW s \in Servers, NEW from \in {"fail", "unsure"},
           NEW to \in {"failed", "uncertain"}, NEW next \in {"idle", "claim"},
           FailPrintJob(s, from, to, next)
    PROVE  TypeInv'
<1> DEFINE r == w[s].receipt
<1>1. At(s, from) /\ UNCHANGED <<source, settings, line, up, copies, retries, requests>>
  BY DEF FailPrintJob
<1>2. r \in Receipts /\ job[r] # "none"
  BY <1>1 DEF At, TypeInv, Held, Holding
<1>3. \/ /\ job' = [job EXCEPT ![r] = to] /\ Return(s, next)
         /\ UNCHANGED <<refused, troubles>>
      \/ /\ Trouble /\ refused' = TRUE
         /\ Return(s, "idle") /\ job' = job
  BY DEF FailPrintJob
<1>4. PICK l \in {"idle", "claim"} : Return(s, l)
  BY <1>3
<1>5. SourceOK' /\ SettingsOK' /\ QueueOK' /\ WorkersOK' /\ Pages' /\ Held'
  BY <1>1, <1>2, <1>3, <1>4, ResultGood
<1>6. HistoryOK'
  <2>1. CASE UNCHANGED <<refused, troubles>>
    BY <1>1, <2>1, HistoryStays DEF TypeInv, TypeOK, bounds
  <2>2. CASE Trouble /\ refused' = TRUE
    BY <1>1, <2>2, TroubleGood DEF TypeInv, TypeOK
  <2> QED BY <1>3, <2>1, <2>2
<1> QED BY <1>5, <1>6 DEF TypeInv, TypeOK

LEMMA SyncFailsType ==
    ASSUME TypeInv, NEW s \in Servers, SyncFails(s)
    PROVE  TypeInv'
<1>1. /\ Trouble /\ Return(s, "idle")
      /\ UNCHANGED <<source, settings, queue, up, copies, retries, refused, requests>>
  BY DEF SyncFails
<1>2. SourceOK' /\ SettingsOK' /\ QueueOK'
  BY <1>1 DEF TypeInv, TypeOK, SourceOK, SettingsOK, QueueOK, source, queue
<1>3. HistoryOK'
  BY <1>1, TroubleGood DEF TypeInv, TypeOK
<1>4. WorkersOK' /\ Pages' /\ Held'
  BY <1>1, ReturnGood DEF source, queue
<1> QED BY <1>2, <1>3, <1>4 DEF TypeInv, TypeOK

-----------------------------------------------------------------------------
(* Start and crash *)

LEMMA StartType ==
    ASSUME TypeInv, NEW s \in Servers, Start(s)
    PROVE  TypeInv'
<1>1. /\ up' = up \cup {s} /\ job' = [r \in Receipts |-> Recovered(r)]
      /\ UNCHANGED <<source, settings, line, w, copies, retries, bounds>>
  BY DEF Start
<1>2. QueueOK' /\ \A r \in Receipts : job[r] # "none" => job'[r] # "none"
  BY <1>1 DEF TypeInv, TypeOK, QueueOK, Recovered
<1>3. SourceOK' /\ SettingsOK' /\ HistoryOK'
  BY <1>1, HistoryStays DEF TypeInv, TypeOK, SourceOK, SettingsOK, source
<1>4. WorkersOK'
  BY <1>1 DEF TypeInv, TypeOK, WorkersOK, source
<1>5. Pages' /\ Held'
  BY <1>1, <1>2 DEF TypeInv, Pages, Held
<1> QED BY <1>2, <1>3, <1>4, <1>5 DEF TypeInv, TypeOK

LEMMA CrashType ==
    ASSUME TypeInv, NEW s \in Servers, Crash(s)
    PROVE  TypeInv'
<1>1. /\ Trouble /\ up' = up \ {s} /\ w' = [w EXCEPT ![s] = Idle]
      /\ UNCHANGED <<source, settings, queue, copies, retries, refused, requests>>
  BY DEF Crash
<1>2. SourceOK' /\ SettingsOK' /\ QueueOK'
  BY <1>1 DEF TypeInv, TypeOK, SourceOK, SettingsOK, QueueOK, source, queue
<1>3. HistoryOK'
  BY <1>1, TroubleGood DEF TypeInv, TypeOK
<1>4. WorkersOK'
  <2>1. Idle \in Worker(Len(events))
    BY Bounds DEF Idle, Worker, Places
  <2>2. w \in Workers(Len(events))
    BY DEF TypeInv, TypeOK, WorkersOK, Workers, Worker, Places
  <2>3. w' \in Workers(Len(events))
    BY <1>1, <2>1, <2>2 DEF Workers
  <2>4. UNCHANGED events /\ up' \subseteq Servers
    BY <1>1 DEF source, TypeInv, TypeOK, WorkersOK
  <2> QED BY <2>3, <2>4 DEF WorkersOK, Workers, Worker, Places
<1>5. Pages' /\ Held'
  BY <1>1 DEF Idle, TypeInv, TypeOK, WorkersOK, Pages, Held, Holding, queue
<1> QED BY <1>2, <1>3, <1>4, <1>5 DEF TypeInv, TypeOK

-----------------------------------------------------------------------------

LEMMA InitTypeInv == Init => TypeInv
<1> SUFFICES ASSUME Init PROVE TypeInv
  OBVIOUS
<1> USE DEF Init
<1>1. SourceOK /\ SettingsOK /\ QueueOK
  BY DEF SourceOK, SettingsOK, QueueOK
<1>2. WorkersOK
  BY PrinterAssumption DEF WorkersOK, Idle
<1>3. HistoryOK
  <2>1. refused \in BOOLEAN
    BY Zenon
  <2>2. requests \in 0..MaxRequests /\ troubles \in 0..MaxTroubles
    BY PrinterAssumption
  <2>3. copies \in [Receipts -> Nat] /\ retries \in [Receipts -> Nat]
    OBVIOUS
  <2> QED BY <2>1, <2>2, <2>3 DEF HistoryOK
<1>4. Pages /\ Held
  BY DEF Pages, Held, Holding, Idle
<1> QED BY <1>1, <1>2, <1>3, <1>4 DEF TypeInv, TypeOK

LEMMA NextTypeInv == TypeInv /\ [Next]_vars => TypeInv'
<1> SUFFICES ASSUME TypeInv, [Next]_vars PROVE TypeInv'
  OBVIOUS
<1>1. ASSUME NEW s \in Servers, SyncOnce(s) PROVE TypeInv'
  <2>1. CASE PrintFailed(s)
    BY <2>1, FailType DEF PrintFailed
  <2>2. CASE PreserveUncertainty(s)
    BY <2>2, FailType DEF PreserveUncertainty
  <2> QED BY <1>1, <2>1, <2>2, ReadSettingsType, ListPrinterRunEventsType, EnqueueType,
             ClaimType, PrintReceiptType, CompleteType DEF SyncOnce
<1>2. CASE UNCHANGED vars
  BY <1>2 DEF vars, source, queue, bounds, TypeInv, TypeOK, SourceOK, SettingsOK, QueueOK,
              WorkersOK, HistoryOK, Pages, Held
<1> QED BY <1>1, <1>2, ChangeRunType, OpenDatabaseType, ConfigurePrinterType, EnqueueTestType,
           RetryPrintJobType, SyncFailsType, StartType, CrashType DEF Next

LEMMA TypeInvHolds == Spec => []TypeInv
BY InitTypeInv, NextTypeInv, PTL DEF Spec

\* Everything the processes and the database remember is of its type, for any
\* number of runs, servers and events.
THEOREM TypeCorrect == Spec => []TypeOK
<1>1. TypeInv => TypeOK
  BY DEF TypeInv
<1> QED BY TypeInvHolds, <1>1, PTL

-----------------------------------------------------------------------------
(* Copies *)

LEMMA PrintingFinite ==
    ASSUME NEW r
    PROVE  IsFiniteSet(Printing(r)) /\ Cardinality(Printing(r)) \in Nat
<1>1. Printing(r) \subseteq Servers /\ IsFiniteSet(Servers)
  BY PrinterAssumption DEF Printing
<1> QED BY <1>1, FS_Subset, FS_CardinalityType

LEMMA PrintingFiniteNext ==
    ASSUME NEW r
    PROVE  IsFiniteSet(Printing(r)') /\ Cardinality(Printing(r)') \in Nat
<1>1. Printing(r)' \subseteq Servers /\ IsFiniteSet(Servers)
  BY PrinterAssumption DEF Printing
<1> QED BY <1>1, FS_Subset, FS_CardinalityType

\* Nothing is offered, taken or printed.
LEMMA BudgetStays ==
    ASSUME TypeInv, TypeInv', Budget, UNCHANGED <<copies, retries>>,
           \A t \in Servers : w'[t].at = "print"
              => w[t].at = "print" /\ w'[t].receipt = w[t].receipt,
           \A r \in Receipts : job'[r] \in {"none", "queued"} => job[r] \in {"none", "queued"}
    PROVE  Budget'
<1> SUFFICES ASSUME NEW r \in Receipts
             PROVE  copies'[r] + Cardinality(Printing(r)') + Offered(r)' <= 1 + retries'[r]
  BY DEF Budget
<1>1. Printing(r)' \subseteq Printing(r)
  BY DEF Printing
<1>2. Cardinality(Printing(r)') <= Cardinality(Printing(r))
  BY <1>1, PrintingFinite, FS_Subset
<1>3. Offered(r)' <= Offered(r) /\ Offered(r) \in Nat /\ Offered(r)' \in Nat
  BY DEF Offered
<1>4. copies[r] \in Nat /\ retries[r] \in Nat
  BY DEF TypeInv, TypeOK, HistoryOK
<1>5. copies[r] + Cardinality(Printing(r)) + Offered(r) <= 1 + retries[r]
  BY DEF Budget
<1> HIDE DEF Offered
<1>6. Cardinality(Printing(r)) \in Nat /\ Cardinality(Printing(r)') \in Nat
  BY PrintingFinite, PrintingFiniteNext
<1> QED BY <1>2, <1>3, <1>4, <1>5, <1>6

LEMMA RetryBudget ==
    ASSUME TypeInv, Budget, NEW q \in Receipts, RetryPrintJob(q)
    PROVE  Budget'
<1> SUFFICES ASSUME NEW r \in Receipts
             PROVE  copies'[r] + Cardinality(Printing(r)') + Offered(r)' <= 1 + retries'[r]
  BY DEF Budget
<1>1. /\ UNCHANGED <<w, copies>> /\ job[q] \in {"failed", "uncertain"}
      /\ job' = [job EXCEPT ![q] = "queued"] /\ retries' = [retries EXCEPT ![q] = @ + 1]
  BY DEF RetryPrintJob
<1>2. Printing(r)' = Printing(r)
  BY <1>1 DEF Printing
<1>3. copies[r] \in Nat /\ retries[r] \in Nat /\ Cardinality(Printing(r)) \in Nat
  BY PrintingFinite DEF TypeInv, TypeOK, HistoryOK
<1>4. copies[r] + Cardinality(Printing(r)) + Offered(r) <= 1 + retries[r]
  BY DEF Budget
<1>5. CASE r = q
  <2>1. Offered(r) = 0 /\ Offered(r)' = 1 /\ retries'[r] = retries[r] + 1
    BY <1>1, <1>5 DEF Offered, TypeInv, TypeOK, QueueOK, HistoryOK
  <2> QED BY <1>1, <1>2, <1>3, <1>4, <2>1
<1>6. CASE r # q
  <2>1. Offered(r)' = Offered(r) /\ retries'[r] = retries[r]
    BY <1>1, <1>6 DEF Offered, TypeInv, TypeOK, QueueOK, HistoryOK
  <2> QED BY <1>1, <1>2, <1>4, <2>1
<1> QED BY <1>5, <1>6

LEMMA ClaimBudget ==
    ASSUME TypeInv, TypeInv', Budget, NEW s \in Servers, ClaimNextPrintJob(s)
    PROVE  Budget'
<1>1. At(s, "claim") /\ UNCHANGED <<copies, retries>>
  BY DEF ClaimNextPrintJob
<1>2. CASE Return(s, "idle") /\ UNCHANGED job
  BY <1>1, <1>2, BudgetStays DEF Return, Idle, TypeInv, TypeOK, WorkersOK
<1>3. ASSUME NEW i \in Queued, job' = [job EXCEPT ![line[i]] = "submitting"],
             w' = [w EXCEPT ![s].at = "print", ![s].receipt = line[i]],
             NEW r \in Receipts
      PROVE  copies'[r] + Cardinality(Printing(r)') + Offered(r)' <= 1 + retries'[r]
  <2>1. line[i] \in Receipts /\ job[line[i]] = "queued"
    BY DEF Queued, TypeInv, TypeOK, QueueOK
  <2>2. copies[r] \in Nat /\ retries[r] \in Nat /\ Cardinality(Printing(r)) \in Nat
    BY PrintingFinite DEF TypeInv, TypeOK, HistoryOK
  <2>3. copies[r] + Cardinality(Printing(r)) + Offered(r) <= 1 + retries[r]
    BY DEF Budget
  <2>4. CASE r = line[i]
    <3>1. Offered(r) = 1 /\ Offered(r)' = 0
      BY <1>3, <2>1, <2>4 DEF Offered, TypeInv, TypeOK, QueueOK
    <3>2. s \notin Printing(r) /\ Printing(r)' = Printing(r) \cup {s}
      BY <1>1, <1>3, <2>4 DEF Printing, At, TypeInv, TypeOK, WorkersOK
    <3>3. Cardinality(Printing(r)') = Cardinality(Printing(r)) + 1
      BY <3>2, PrintingFinite, FS_AddElement
    <3> QED BY <1>1, <2>2, <2>3, <3>1, <3>3
  <2>5. CASE r # line[i]
    <3>1. Offered(r)' = Offered(r)
      BY <1>3, <2>1, <2>5 DEF Offered, TypeInv, TypeOK, QueueOK
    <3>2. Printing(r)' = Printing(r)
      BY <1>1, <1>3, <2>5 DEF Printing, At, TypeInv, TypeOK, WorkersOK
    <3> QED BY <1>1, <2>3, <3>1, <3>2
  <2> QED BY <2>4, <2>5
<1> QED BY <1>2, <1>3 DEF ClaimNextPrintJob, Budget

LEMMA PrintBudget ==
    ASSUME TypeInv, TypeInv', Budget, NEW s \in Servers, PrintReceipt(s)
    PROVE  Budget'
<1> DEFINE q == w[s].receipt
<1>1. At(s, "print") /\ UNCHANGED <<queue, retries>>
  BY DEF PrintReceipt
<1>2. PICK l \in {"complete", "fail"} : Goto(s, l)
  BY DEF PrintReceipt
<1>3. CASE UNCHANGED copies
  BY <1>1, <1>2, <1>3, BudgetStays DEF Goto, TypeInv, TypeOK, WorkersOK, queue
<1>4. ASSUME copies' = [copies EXCEPT ![q] = @ + 1], NEW r \in Receipts
      PROVE  copies'[r] + Cardinality(Printing(r)') + Offered(r)' <= 1 + retries'[r]
  <2>1. q \in Receipts
    BY <1>1 DEF At, TypeInv, Held, Holding
  <2>2. copies[r] \in Nat /\ retries[r] \in Nat /\ Cardinality(Printing(r)) \in Nat
    BY PrintingFinite DEF TypeInv, TypeOK, HistoryOK
  <2>3. copies[r] + Cardinality(Printing(r)) + Offered(r) <= 1 + retries[r]
    BY DEF Budget
  <2>4. Offered(r)' = Offered(r) /\ Offered(r) \in Nat
    BY <1>1 DEF Offered, queue
  <2>5. CASE r = q
    <3>1. s \in Printing(r) /\ Printing(r)' = Printing(r) \ {s}
      BY <1>1, <1>2, <2>5 DEF Goto, Printing, At, TypeInv, TypeOK, WorkersOK
    <3>2. Cardinality(Printing(r)') = Cardinality(Printing(r)) - 1
      BY <3>1, PrintingFinite, FS_RemoveElement
    <3>3. copies'[r] = copies[r] + 1
      BY <1>4, <2>1, <2>5 DEF TypeInv, TypeOK, HistoryOK
    <3> QED BY <1>1, <2>2, <2>3, <2>4, <3>2, <3>3
  <2>6. CASE r # q
    <3>1. Printing(r)' = Printing(r) /\ copies'[r] = copies[r]
      BY <1>1, <1>2, <1>4, <2>6 DEF Goto, Printing, At, TypeInv, TypeOK, WorkersOK, HistoryOK
    <3> QED BY <1>1, <2>3, <2>4, <3>1
  <2> QED BY <2>5, <2>6
<1> QED BY <1>3, <1>4 DEF PrintReceipt, Budget

LEMMA ResultBudget ==
    ASSUME TypeInv, TypeInv', Budget, NEW s \in Servers,
           CompletePrintJob(s) \/ PrintFailed(s) \/ PreserveUncertainty(s)
    PROVE  Budget'
<1> DEFINE r == w[s].receipt
<1>1. UNCHANGED <<copies, retries>> /\ w[s].at \in Holding
  BY DEF CompletePrintJob, PrintFailed, PreserveUncertainty, FailPrintJob, At, Holding
<1>2. r \in Receipts
  BY <1>1 DEF TypeInv, Held
<1>3. \/ job' = [job EXCEPT ![r] = Spooled(r)]
      \/ job' = [job EXCEPT ![r] = "failed"]
      \/ job' = [job EXCEPT ![r] = "uncertain"]
      \/ job' = job
  BY DEF CompletePrintJob, PrintFailed, PreserveUncertainty, FailPrintJob
<1>4. \A q \in Receipts : job'[q] \in {"none", "queued"} => job[q] \in {"none", "queued"}
  BY <1>2, <1>3 DEF Spooled, TypeInv, TypeOK, QueueOK
<1>5. PICK l \in {"idle", "claim", "unsure"} : Return(s, l) \/ Goto(s, l)
  BY DEF CompletePrintJob, PrintFailed, PreserveUncertainty, FailPrintJob
<1>6. \A t \in Servers : w'[t].at = "print"
        => w[t].at = "print" /\ w'[t].receipt = w[t].receipt
  <2>1. w'[s].at # "print" /\ \A t \in Servers \ {s} : w'[t] = w[t]
    BY <1>5 DEF Return, Goto, Idle, TypeInv, TypeOK, WorkersOK
  <2> QED BY <2>1
<1> QED BY <1>1, <1>4, <1>6, BudgetStays

\* A worker that enqueues holds no receipt afterwards, and no other worker moves.
LEMMA EnqueueMoves ==
    ASSUME TypeInv, NEW s \in Servers, EnqueuePrintJobsAndAdvanceCursor(s)
    PROVE  w'[s].at \notin Holding /\ \A t \in Servers \ {s} : w'[t] = w[t]
<1>1. w[s].at = "enqueue"
  BY DEF EnqueuePrintJobsAndAdvanceCursor, At
<1>2. ASSUME NEW l \in {"claim", "idle"}, Return(s, l)
      PROVE  w'[s].at \notin Holding /\ \A t \in Servers \ {s} : w'[t] = w[t]
  BY <1>2 DEF Return, Idle, Holding, TypeInv, TypeOK, WorkersOK
<1>3. ASSUME NEW next, w' = [w EXCEPT ![s].cursor = next,
                                      ![s].at = IF next < w[s].till THEN @ ELSE "list"]
      PROVE  w'[s].at \notin Holding /\ \A t \in Servers \ {s} : w'[t] = w[t]
  BY <1>1, <1>3 DEF Holding, TypeInv, TypeOK, WorkersOK
<1>4. \/ \E l \in {"claim", "idle"} : Return(s, l)
      \/ \E next : w' = [w EXCEPT ![s].cursor = next,
                                   ![s].at = IF next < w[s].till THEN @ ELSE "list"]
  BY DEF EnqueuePrintJobsAndAdvanceCursor
<1> QED BY <1>2, <1>3, <1>4

LEMMA EnqueueBudget ==
    ASSUME TypeInv, TypeInv', Budget, NEW s \in Servers, EnqueuePrintJobsAndAdvanceCursor(s)
    PROVE  Budget'
<1>1. UNCHANGED <<copies, retries>> /\ ((\E rs : Insert(rs)) \/ UNCHANGED job)
  BY DEF EnqueuePrintJobsAndAdvanceCursor, queue
<1>2. \A r \in Receipts : job'[r] \in {"none", "queued"} => job[r] \in {"none", "queued"}
  BY <1>1 DEF Insert
<1>3. w'[s].at # "print" /\ \A t \in Servers \ {s} : w'[t] = w[t]
  BY EnqueueMoves DEF Holding
<1> QED BY <1>1, <1>2, <1>3, BudgetStays

LEMMA NextBudget == TypeInv /\ TypeInv' /\ Budget /\ [Next]_vars => Budget'
<1> SUFFICES ASSUME TypeInv, TypeInv', Budget, [Next]_vars PROVE Budget'
  OBVIOUS
<1> USE DEF TypeInv, TypeOK, QueueOK, WorkersOK
<1>1. ASSUME NEW r \in Runs, ChangeRun(r) PROVE Budget'
  BY <1>1, BudgetStays DEF ChangeRun, queue
<1>2. CASE OpenDatabase
  BY <1>2, BudgetStays DEF OpenDatabase, queue
<1>3. ASSUME NEW on \in BOOLEAN, ConfigurePrinter(on) PROVE Budget'
  BY <1>3, BudgetStays DEF ConfigurePrinter, queue
<1>4. ASSUME NEW t \in Tests, EnqueueTest(t) PROVE Budget'
  BY <1>4, BudgetStays DEF EnqueueTest, Insert
<1>5. ASSUME NEW s \in Servers, ReadSettings(s) PROVE Budget'
  <2>1. w'[s].at # "print" /\ \A t \in Servers \ {s} : w'[t] = w[t]
    BY <1>5 DEF ReadSettings, Return, Idle
  <2> QED BY <1>5, <2>1, BudgetStays DEF ReadSettings, queue
<1>6. ASSUME NEW s \in Servers, ListPrinterRunEvents(s) PROVE Budget'
  <2>1. w'[s].at # "print" /\ \A t \in Servers \ {s} : w'[t] = w[t]
    BY <1>6 DEF ListPrinterRunEvents, Return, Idle
  <2> QED BY <1>6, <2>1, BudgetStays DEF ListPrinterRunEvents, queue
<1>7. ASSUME NEW s \in Servers, SyncFails(s) PROVE Budget'
  BY <1>7, BudgetStays DEF SyncFails, queue, Return, Idle
<1>8. ASSUME NEW s \in Servers, Start(s) PROVE Budget'
  BY <1>8, BudgetStays DEF Start, Recovered
<1>9. ASSUME NEW s \in Servers, Crash(s) PROVE Budget'
  BY <1>9, BudgetStays DEF Crash, queue, Idle
<1>10. CASE UNCHANGED vars
  BY <1>10, BudgetStays DEF vars, queue
<1> QED BY <1>1, <1>2, <1>3, <1>4, <1>5, <1>6, <1>7, <1>8, <1>9, <1>10, RetryBudget,
           EnqueueBudget, ClaimBudget, PrintBudget, ResultBudget DEF Next, SyncOnce

LEMMA InitBudget == Init => Budget
<1> SUFFICES ASSUME Init, NEW r \in Receipts
             PROVE  copies[r] + Cardinality(Printing(r)) + Offered(r) <= 1 + retries[r]
  BY DEF Budget
<1>1. Printing(r) = {}
  BY DEF Init, Printing, Idle
<1>2. Cardinality(Printing(r)) = 0
  BY <1>1, FS_EmptySet
<1> QED BY <1>2 DEF Init, Offered

\* CUPS accepts no second copy of a receipt that the user has not asked for,
\* whatever workers race for it and wherever they crash.
THEOREM NothingIsPrintedTwice == Spec => []NoUnaskedCopy
<1>1. TypeInv /\ Budget => NoUnaskedCopy
  <2> SUFFICES ASSUME TypeInv, Budget, NEW r \in Receipts PROVE copies[r] <= 1 + retries[r]
    BY DEF NoUnaskedCopy
  <2>1. Cardinality(Printing(r)) \in Nat /\ Offered(r) \in Nat
    BY PrintingFinite DEF Offered
  <2>2. copies[r] \in Nat /\ retries[r] \in Nat
    BY DEF TypeInv, TypeOK, HistoryOK
  <2>3. copies[r] + Cardinality(Printing(r)) + Offered(r) <= 1 + retries[r]
    BY DEF Budget
  <2> QED BY <2>1, <2>2, <2>3
<1> QED BY InitBudget, NextBudget, TypeInvHolds, <1>1, PTL DEF Spec

-----------------------------------------------------------------------------
(* Spooled receipts *)

LEMMA AcceptedStays ==
    ASSUME TypeInv, TypeInv', Accepted, UNCHANGED copies,
           \A t \in Servers : w'[t].at = "complete"
              => w[t].at = "complete" /\ w'[t].receipt = w[t].receipt,
           \A r \in Receipts : job'[r] = "spooled" => job[r] = "spooled"
    PROVE  Accepted'
BY DEF Accepted

LEMMA PrintAccepted ==
    ASSUME TypeInv, TypeInv', Accepted, NEW s \in Servers, PrintReceipt(s)
    PROVE  Accepted'
<1> DEFINE q == w[s].receipt
<1>1. At(s, "print") /\ UNCHANGED job
  BY DEF PrintReceipt, queue
<1>2. q \in Receipts
  BY <1>1 DEF At, TypeInv, Held, Holding
<1>3. CASE copies' = [copies EXCEPT ![q] = @ + 1] /\ (Goto(s, "complete") \/ Goto(s, "fail"))
  <2>1. /\ copies'[q] > 0 /\ \A r \in Receipts : copies[r] > 0 => copies'[r] > 0
    BY <1>2, <1>3 DEF TypeInv, TypeOK, HistoryOK
  <2>2. /\ w'[s].receipt = q
        /\ \A t \in Servers \ {s} : w'[t] = w[t]
    BY <1>3 DEF Goto, TypeInv, TypeOK, WorkersOK
  <2>3. \A t \in Servers : w'[t].at = "complete" => copies'[w'[t].receipt] > 0
    <3> SUFFICES ASSUME NEW t \in Servers, w'[t].at = "complete"
                 PROVE  copies'[w'[t].receipt] > 0
      OBVIOUS
    <3>1. CASE t = s
      BY <2>1, <2>2, <3>1
    <3>2. CASE t # s
      <4>1. w[t].at = "complete" /\ w'[t].receipt = w[t].receipt
        BY <2>2, <3>2
      <4>2. w[t].receipt \in Receipts
        BY <4>1 DEF TypeInv, Held, Holding
      <4> QED BY <2>1, <4>1, <4>2 DEF Accepted
    <3> QED BY <3>1, <3>2
  <2> QED BY <1>1, <2>1, <2>3 DEF Accepted
<1>4. CASE Goto(s, "fail") /\ UNCHANGED copies
  <2>1. w'[s].at # "complete" /\ \A t \in Servers \ {s} : w'[t] = w[t]
    BY <1>4 DEF Goto, TypeInv, TypeOK, WorkersOK
  <2> QED BY <1>1, <1>4, <2>1, AcceptedStays
<1> QED BY <1>3, <1>4 DEF PrintReceipt

LEMMA CompleteAccepted ==
    ASSUME TypeInv, TypeInv', Accepted, NEW s \in Servers, CompletePrintJob(s)
    PROVE  Accepted'
<1> DEFINE q == w[s].receipt
<1>1. w[s].at = "complete" /\ UNCHANGED copies
  BY DEF CompletePrintJob, At
<1>2. q \in Receipts /\ copies[q] > 0
  BY <1>1 DEF TypeInv, Held, Holding, Accepted
<1>3. job' = [job EXCEPT ![q] = Spooled(q)] \/ job' = job
  BY DEF CompletePrintJob
<1>4. \A r \in Receipts : job'[r] = "spooled" => copies'[r] > 0
  <2> SUFFICES ASSUME NEW r \in Receipts, job'[r] = "spooled" PROVE copies[r] > 0
    BY <1>1
  <2>1. CASE r = q
    BY <1>2, <2>1
  <2>2. CASE r # q
    BY <1>3, <2>2 DEF Accepted, TypeInv, TypeOK, QueueOK
  <2> QED BY <2>1, <2>2
<1>5. PICK l \in {"claim", "unsure"} : Return(s, l) \/ Goto(s, l)
  BY DEF CompletePrintJob
<1>6. \A t \in Servers : w'[t].at = "complete" => copies'[w'[t].receipt] > 0
  <2>1. w'[s].at # "complete" /\ \A t \in Servers \ {s} : w'[t] = w[t]
    BY <1>5 DEF Return, Goto, Idle, TypeInv, TypeOK, WorkersOK
  <2> QED BY <1>1, <2>1 DEF Accepted
<1> QED BY <1>4, <1>6 DEF Accepted

LEMMA NextAccepted == TypeInv /\ TypeInv' /\ Accepted /\ [Next]_vars => Accepted'
<1> SUFFICES ASSUME TypeInv, TypeInv', Accepted, [Next]_vars PROVE Accepted'
  OBVIOUS
<1> USE DEF TypeInv, TypeOK, QueueOK, WorkersOK
<1>1. ASSUME NEW r \in Runs, ChangeRun(r) PROVE Accepted'
  BY <1>1, AcceptedStays DEF ChangeRun, queue
<1>2. CASE OpenDatabase
  BY <1>2, AcceptedStays DEF OpenDatabase, queue
<1>3. ASSUME NEW on \in BOOLEAN, ConfigurePrinter(on) PROVE Accepted'
  BY <1>3, AcceptedStays DEF ConfigurePrinter, queue
<1>4. ASSUME NEW t \in Tests, EnqueueTest(t) PROVE Accepted'
  BY <1>4, AcceptedStays DEF EnqueueTest, Insert
<1>5. ASSUME NEW r \in Receipts, RetryPrintJob(r) PROVE Accepted'
  BY <1>5, AcceptedStays DEF RetryPrintJob
<1>6. ASSUME NEW s \in Servers, ReadSettings(s) PROVE Accepted'
  <2>1. w'[s].at # "complete" /\ \A t \in Servers \ {s} : w'[t] = w[t]
    BY <1>6 DEF ReadSettings, Return, Idle
  <2> QED BY <1>6, <2>1, AcceptedStays DEF ReadSettings, queue
<1>7. ASSUME NEW s \in Servers, ListPrinterRunEvents(s) PROVE Accepted'
  <2>1. w'[s].at # "complete" /\ \A t \in Servers \ {s} : w'[t] = w[t]
    BY <1>7 DEF ListPrinterRunEvents, Return, Idle
  <2> QED BY <1>7, <2>1, AcceptedStays DEF ListPrinterRunEvents, queue
<1>8. ASSUME NEW s \in Servers, EnqueuePrintJobsAndAdvanceCursor(s) PROVE Accepted'
  <2>1. w'[s].at # "complete" /\ \A t \in Servers \ {s} : w'[t] = w[t]
    BY <1>8, EnqueueMoves DEF Holding
  <2>2. \A r \in Receipts : job'[r] = "spooled" => job[r] = "spooled"
    BY <1>8 DEF EnqueuePrintJobsAndAdvanceCursor, Insert, queue
  <2> QED BY <1>8, <2>1, <2>2, AcceptedStays DEF EnqueuePrintJobsAndAdvanceCursor
<1>9. ASSUME NEW s \in Servers, ClaimNextPrintJob(s) PROVE Accepted'
  <2>1. w'[s].at # "complete" /\ \A t \in Servers \ {s} : w'[t] = w[t]
    BY <1>9 DEF ClaimNextPrintJob, Return, Idle
  <2>2. \A r \in Receipts : job'[r] = "spooled" => job[r] = "spooled"
    BY <1>9 DEF ClaimNextPrintJob
  <2> QED BY <1>9, <2>1, <2>2, AcceptedStays DEF ClaimNextPrintJob
<1>10. ASSUME NEW s \in Servers, PrintFailed(s) \/ PreserveUncertainty(s) PROVE Accepted'
  <2>1. \E l \in {"claim", "idle"} : Return(s, l)
    BY <1>10 DEF PrintFailed, PreserveUncertainty, FailPrintJob
  <2>3. w'[s].at # "complete" /\ \A t \in Servers \ {s} : w'[t] = w[t]
    BY <2>1 DEF Return, Idle
  <2>2. \A r \in Receipts : job'[r] = "spooled" => job[r] = "spooled"
    BY <1>10 DEF PrintFailed, PreserveUncertainty, FailPrintJob
  <2> QED BY <1>10, <2>2, <2>3, AcceptedStays DEF PrintFailed, PreserveUncertainty, FailPrintJob
<1>11. ASSUME NEW s \in Servers, SyncFails(s) PROVE Accepted'
  BY <1>11, AcceptedStays DEF SyncFails, queue, Return, Idle
<1>12. ASSUME NEW s \in Servers, Start(s) PROVE Accepted'
  BY <1>12, AcceptedStays DEF Start, Recovered
<1>13. ASSUME NEW s \in Servers, Crash(s) PROVE Accepted'
  BY <1>13, AcceptedStays DEF Crash, queue, Idle
<1>14. CASE UNCHANGED vars
  BY <1>14, AcceptedStays DEF vars, queue
<1> QED BY <1>1, <1>2, <1>3, <1>4, <1>5, <1>6, <1>7, <1>8, <1>9, <1>10, <1>11, <1>12, <1>13,
           <1>14, PrintAccepted, CompleteAccepted DEF Next, SyncOnce

\* A receipt that is shown as spooled has been accepted by CUPS.
THEOREM SpooledIsTrue == Spec => []SpooledIsAccepted
<1>1. Init => Accepted
  BY DEF Init, Accepted, Idle
<1>2. Accepted => SpooledIsAccepted
  BY DEF Accepted, SpooledIsAccepted
<1> QED BY <1>1, <1>2, NextAccepted, TypeInvHolds, PTL DEF Spec

-----------------------------------------------------------------------------
(* Enrolment *)

LEMMA PhasesOfEvent ==
    ASSUME NEW st PROVE \A k \in DOMAIN EventPhases(st) : EventPhases(st)[k] \in Phases
<1>1. EventPhases(st) \in {<<"start">>, <<"start", "end">>, <<"end">>, <<>>}
  BY DEF EventPhases
<1> QED BY <1>1 DEF Phases

\* The row of a receipt is never removed.
LEMMA EnqueuedStays ==
    ASSUME TypeInv, NEW i \in 1..Len(events), Enqueued(i), events'[i] = events[i],
           \A r \in Receipts : job[r] # "none" => job'[r] # "none"
    PROVE  Enqueued(i)'
<1>1. events[i].run \in Runs
  <2>1. events[i] \in Events
    BY DEF TypeInv, TypeOK, SourceOK
  <2> QED BY <2>1 DEF Events
<1>2. \A k \in DOMAIN EventPhases(events[i].is) :
        <<events[i].run, EventPhases(events[i].is)[k]>> \in Receipts
  BY <1>1, PhasesOfEvent DEF Receipts
<1> QED BY <1>2 DEF Enqueued

LEMMA EnrolmentStays ==
    ASSUME TypeInv, TypeInv', Enrolment, UNCHANGED <<source, settings>>,
           \A t \in Servers : w'[t].epoch = w[t].epoch \/ w'[t].epoch <= settings.epoch,
           \A r \in Receipts : job[r] # "none" => job'[r] # "none"
    PROVE  Enrolment'
<1>1. OldEpochs' /\ Born'
  BY DEF Enrolment, OldEpochs, Born, source
<1>2. NoGap'
  <2> SUFFICES ASSUME NEW i \in 1..settings.cursor,
                      PrinterRunEligible(events[i].run, settings.epoch)
               PROVE  Enqueued(i)'
    BY DEF NoGap, PrinterRunEligible, source
  <2>1. i \in 1..Len(events)
    BY Bounds DEF TypeInv, TypeOK, SettingsOK
  <2> QED BY <2>1, EnqueuedStays DEF Enrolment, NoGap, source
<1> QED BY <1>1, <1>2 DEF Enrolment

LEMMA ChangeRunEnrolment ==
    ASSUME TypeInv, TypeInv', Enrolment, NEW r \in Runs, ChangeRun(r)
    PROVE  Enrolment'
<1>1. UNCHANGED <<settings, job, w>>
  BY DEF ChangeRun, queue
<1>2. PICK trigger \in {"insert", "update"}, st \in {"queued", "running", "ended", "dropped"} :
        /\ trigger = "insert" => status[r] = "none"
        /\ status' = [status EXCEPT ![r] = st]
        /\ Record(trigger, r, st)
  BY DEF ChangeRun
<1> DEFINE e == [run |-> r, op |-> trigger, is |-> st]
<1>3. events \in Seq(Events) /\ e \in Events /\ Len(events) \in Nat
  BY Bounds DEF TypeInv, TypeOK, SourceOK, Events
<1>4. events' = events \/ events' = Append(events, e)
  BY <1>2 DEF Record
<1>5. /\ \A i \in 1..Len(events) : events'[i] = events[i]
      /\ \A i \in 1..Len(events') : i \in 1..Len(events) \/ events'[i] = e
  <2>1. CASE events' = events
    BY <2>1
  <2>2. CASE events' = Append(events, e)
    <3> HIDE DEF e
    <3> QED BY <1>3, <2>2, AppendProperties
  <2> QED BY <1>4, <2>1, <2>2
<1>6. Born'
  <2> SUFFICES ASSUME NEW i \in 1..Len(events') PROVE status'[events'[i].run] # "none"
    BY DEF Born
  <2>1. CASE events'[i] = e
    BY <1>2, <2>1 DEF TypeInv, TypeOK, SourceOK
  <2>2. CASE i \in 1..Len(events)
    BY <1>2, <1>5, <2>2 DEF Enrolment, Born, TypeInv, TypeOK, SourceOK, Events
  <2> QED BY <1>5, <2>1, <2>2
<1>7. NoGap'
  <2> SUFFICES ASSUME NEW i \in 1..settings.cursor,
                      PrinterRunEligible(events[i].run, settings.epoch)'
               PROVE  Enqueued(i)'
    BY <1>1 DEF NoGap
  <2>1. i \in 1..Len(events)
    BY <1>3 DEF TypeInv, TypeOK, SettingsOK
  <2>2. PICK j \in 1..Len(events') :
          j > settings.epoch /\ events'[j].run = events[i].run /\ events'[j].op = "insert"
    BY <1>1, <1>5, <2>1 DEF PrinterRunEligible
  <2>3. j \in 1..Len(events)
    <3> SUFFICES ASSUME events'[j] = e PROVE FALSE
      BY <1>5
    <3>1. events[i].run = r /\ trigger = "insert"
      BY <2>2
    <3> QED BY <1>2, <2>1, <3>1 DEF Enrolment, Born
  <2>4. PrinterRunEligible(events[i].run, settings.epoch)
    BY <1>5, <2>2, <2>3 DEF PrinterRunEligible
  <2>5. Enqueued(i)
    BY <2>4 DEF Enrolment, NoGap
  <2> QED BY <1>1, <1>5, <2>1, <2>5, EnqueuedStays
<1> QED BY <1>1, <1>6, <1>7 DEF Enrolment, OldEpochs

LEMMA ConfigureEnrolment ==
    ASSUME TypeInv, TypeInv', Enrolment, NEW on \in BOOLEAN, ConfigurePrinter(on)
    PROVE  Enrolment'
<1>1. UNCHANGED <<status, events, job, w>>
  BY DEF ConfigurePrinter, source, queue
<1>2. Born'
  BY <1>1 DEF Enrolment, Born
<1>3. CASE on /\ ~settings.enabled
  <2>1. settings' = [enabled |-> TRUE, cursor |-> Len(events), epoch |-> Len(events)]
    BY <1>3 DEF ConfigurePrinter
  <2>2. OldEpochs'
    BY <1>1, <2>1 DEF TypeInv, TypeOK, WorkersOK, OldEpochs
  <2>3. NoGap'
    BY <1>1, <2>1, Bounds DEF NoGap, PrinterRunEligible
  <2> QED BY <1>2, <2>2, <2>3 DEF Enrolment
<1>4. CASE ~(on /\ ~settings.enabled)
  <2>1. settings'.cursor = settings.cursor /\ settings'.epoch = settings.epoch
    BY <1>4 DEF ConfigurePrinter, TypeInv, TypeOK, SettingsOK
  <2> QED BY <1>1, <1>2, <2>1 DEF Enrolment, NoGap, OldEpochs, Enqueued, PrinterRunEligible
<1> QED BY <1>3, <1>4

LEMMA EnqueueEnrolment ==
    ASSUME TypeInv, TypeInv', Enrolment, NEW s \in Servers, EnqueuePrintJobsAndAdvanceCursor(s)
    PROVE  Enrolment'
<1> DEFINE next == w[s].cursor + 1
           rs   == JobsForEvent(events[next], w[s].epoch)
<1>1. w[s].at = "enqueue" /\ UNCHANGED source
  BY DEF EnqueuePrintJobsAndAdvanceCursor, At
<1>2. \A t \in Servers : w'[t].epoch = w[t].epoch \/ w'[t].epoch <= settings.epoch
  <2>1. ASSUME NEW l, Return(s, l) PROVE w'[s].epoch = 0
    BY <2>1 DEF Return, Idle, TypeInv, TypeOK, WorkersOK
  <2>2. ASSUME NEW n, w' = [w EXCEPT ![s].cursor = n,
                                     ![s].at = IF n < w[s].till THEN @ ELSE "list"]
        PROVE  w'[s].epoch = w[s].epoch
    BY <2>2 DEF TypeInv, TypeOK, WorkersOK
  <2>3. \/ \E l : Return(s, l)
        \/ \E n : w' = [w EXCEPT ![s].cursor = n,
                                  ![s].at = IF n < w[s].till THEN @ ELSE "list"]
    BY DEF EnqueuePrintJobsAndAdvanceCursor
  <2>4. settings.epoch >= 0
    BY Bounds DEF TypeInv, TypeOK, SettingsOK
  <2> QED BY <2>1, <2>2, <2>3, <2>4, EnqueueMoves
<1>3. CASE Advances(s)
  <2>1. /\ Insert(rs) /\ settings' = [settings EXCEPT !.cursor = next]
        /\ settings.cursor = w[s].cursor
    BY <1>3 DEF EnqueuePrintJobsAndAdvanceCursor, NextCursor, Advances
  <2>2. next \in 1..Len(events) /\ settings'.cursor = next /\ settings'.epoch = settings.epoch
    <3>1. w[s].cursor \in 0..Len(events) /\ w[s].till \in 0..Len(events)
      BY DEF TypeInv, TypeOK, WorkersOK
    <3>2. w[s].cursor < w[s].till
      BY <1>1 DEF TypeInv, Pages
    <3>3. next \in 1..Len(events)
      BY <3>1, <3>2, Bounds
    <3>4. settings'.cursor = next /\ settings'.epoch = settings.epoch
      BY <2>1 DEF TypeInv, TypeOK, SettingsOK
    <3> QED BY <3>3, <3>4
  <2>3. events[next] \in Events
    BY <2>2 DEF TypeInv, TypeOK, SourceOK
  <2>4. rs \in Seq(Receipts) /\ Len(rs) <= 2
    BY <2>3, JobsOfEvent
  <2>5. /\ \A r \in Receipts : job[r] # "none" => job'[r] # "none"
        /\ \A k \in DOMAIN rs : job'[rs[k]] # "none"
    <3> HIDE DEF rs
    <3> QED BY <2>1, <2>4, InsertRows DEF TypeInv, TypeOK
  <2>6. OldEpochs' /\ Born'
    BY <1>1, <1>2, <2>2 DEF Enrolment, OldEpochs, Born, source
  <2>7. NoGap'
    <3> SUFFICES ASSUME NEW i \in 1..next,
                        PrinterRunEligible(events[i].run, settings.epoch)
                 PROVE  Enqueued(i)'
      BY <1>1, <2>2 DEF NoGap, PrinterRunEligible, source
    <3>1. CASE i = next
      <4>1. PrinterRunEligible(events[next].run, w[s].epoch)
        <5>1. w[s].epoch <= settings.epoch
          BY DEF Enrolment, OldEpochs
        <5>2. w[s].epoch \in Nat /\ settings.epoch \in Nat /\ Len(events) \in Nat
          BY Bounds DEF TypeInv, TypeOK, WorkersOK, SettingsOK
        <5> QED BY <3>1, <5>1, <5>2 DEF PrinterRunEligible
      <4>2. rs = [k \in DOMAIN EventPhases(events[next].is) |->
                    <<events[next].run, EventPhases(events[next].is)[k]>>]
        BY <4>1 DEF JobsForEvent
      <4>3. \A k \in DOMAIN EventPhases(events[next].is) :
              job'[<<events[next].run, EventPhases(events[next].is)[k]>>] # "none"
        BY <2>5, <4>2
      <4> QED BY <1>1, <3>1, <4>3 DEF Enqueued, source
    <3>2. CASE i # next
      <4>1. i \in 1..settings.cursor /\ i \in 1..Len(events)
        BY <2>1, <2>2, <3>2, Bounds DEF TypeInv, TypeOK, SettingsOK
      <4>2. Enqueued(i)
        BY <4>1 DEF Enrolment, NoGap
      <4> QED BY <1>1, <2>5, <4>1, <4>2, EnqueuedStays DEF source
    <3> QED BY <3>1, <3>2
  <2> QED BY <2>6, <2>7 DEF Enrolment
<1>4. CASE ~Advances(s)
  <2>1. UNCHANGED <<job, settings>>
    BY <1>4 DEF EnqueuePrintJobsAndAdvanceCursor, queue
  <2> QED BY <1>1, <1>2, <2>1, EnrolmentStays
<1> QED BY <1>3, <1>4

\* The other steps of a worker create no row and remove none; the epoch they keep is
\* the one they had, the present one, or none.
LEMMA WorkerEnrolment ==
    ASSUME TypeInv, TypeInv', Enrolment, NEW s \in Servers,
           \/ ReadSettings(s) \/ ListPrinterRunEvents(s) \/ ClaimNextPrintJob(s)
           \/ PrintReceipt(s) \/ CompletePrintJob(s) \/ PrintFailed(s)
           \/ PreserveUncertainty(s) \/ SyncFails(s)
    PROVE  Enrolment'
<1> USE DEF TypeInv, TypeOK, WorkersOK, QueueOK
<1>1. UNCHANGED <<source, settings>>
  BY DEF ReadSettings, ListPrinterRunEvents, ClaimNextPrintJob, PrintReceipt, CompletePrintJob,
         PrintFailed, PreserveUncertainty, FailPrintJob, SyncFails
<1>2. settings.epoch >= 0
  BY Bounds DEF SettingsOK
<1>3. \A t \in Servers : w'[t].epoch = w[t].epoch \/ w'[t].epoch <= settings.epoch
  <2>1. ASSUME NEW l, Return(s, l)
        PROVE  \A t \in Servers : w'[t].epoch = w[t].epoch \/ w'[t].epoch <= settings.epoch
    BY <1>2, <2>1 DEF Return, Idle
  <2>2. ASSUME NEW l, Goto(s, l) PROVE \A t \in Servers : w'[t].epoch = w[t].epoch
    BY <2>2 DEF Goto
  <2>3. CASE ReadSettings(s)
    <3>1. CASE settings.enabled
      <4>1. \A t \in Servers : w'[t].epoch \in {w[t].epoch, settings.epoch}
        <5>1. ASSUME NEW c, NEW e,
                     w' = [w EXCEPT ![s].at = "list", ![s].cursor = c, ![s].epoch = e]
              PROVE  \A t \in Servers : w'[t].epoch \in {w[t].epoch, e}
          BY <5>1
        <5> QED BY <2>3, <3>1, <5>1 DEF ReadSettings
      <4>2. settings.epoch <= settings.epoch
        BY Bounds DEF SettingsOK
      <4> QED BY <4>1, <4>2
    <3>2. CASE ~settings.enabled
      BY <2>1, <2>3, <3>2 DEF ReadSettings
    <3> QED BY <3>1, <3>2
  <2>4. CASE ListPrinterRunEvents(s)
    <3>1. ASSUME NEW k, NEW n, w' = [w EXCEPT ![s].at = "enqueue", ![s].size = k, ![s].till = n]
          PROVE  \A t \in Servers : w'[t].epoch = w[t].epoch
      BY <3>1
    <3> QED BY <2>1, <2>4, <3>1 DEF ListPrinterRunEvents
  <2>5. CASE ClaimNextPrintJob(s)
    <3>1. ASSUME NEW r, w' = [w EXCEPT ![s].at = "print", ![s].receipt = r]
          PROVE  \A t \in Servers : w'[t].epoch = w[t].epoch
      BY <3>1
    <3> QED BY <2>1, <2>5, <3>1 DEF ClaimNextPrintJob
  <2>6. (\E l : Return(s, l)) \/ (\E l : Goto(s, l)) \/ ReadSettings(s)
        \/ ListPrinterRunEvents(s) \/ ClaimNextPrintJob(s)
    BY DEF PrintReceipt, CompletePrintJob, PrintFailed, PreserveUncertainty, FailPrintJob,
           SyncFails
  <2> QED BY <2>1, <2>2, <2>3, <2>4, <2>5, <2>6
<1>4. \A r \in Receipts : job[r] # "none" => job'[r] # "none"
  <2>1. \/ job' = job
        \/ \E r, st : st # "none" /\ job' = [job EXCEPT ![r] = st]
        \/ CompletePrintJob(s)
    BY DEF ReadSettings, ListPrinterRunEvents, ClaimNextPrintJob, PrintReceipt,
           PrintFailed, PreserveUncertainty, FailPrintJob, SyncFails, queue
  <2>2. CASE CompletePrintJob(s)
    BY <2>2 DEF CompletePrintJob, Spooled
  <2> QED BY <2>1, <2>2
<1> QED BY <1>1, <1>3, <1>4, EnrolmentStays

LEMMA NextEnrolment == TypeInv /\ TypeInv' /\ Enrolment /\ [Next]_vars => Enrolment'
<1> SUFFICES ASSUME TypeInv, TypeInv', Enrolment, [Next]_vars PROVE Enrolment'
  OBVIOUS
<1> USE DEF TypeInv, TypeOK, QueueOK, WorkersOK
<1>1. CASE OpenDatabase
  <2>1. UNCHANGED <<status, events, settings, job, w>>
    BY <1>1 DEF OpenDatabase, queue
  <2>2. NoGap'
    <3> SUFFICES ASSUME NEW i \in 1..settings.cursor,
                        PrinterRunEligible(events[i].run, settings.epoch)
                 PROVE  Enqueued(i)'
      BY <2>1 DEF NoGap, PrinterRunEligible
    <3>1. i \in 1..Len(events)
      BY Bounds DEF SettingsOK
    <3> QED BY <2>1, <3>1, EnqueuedStays DEF Enrolment, NoGap
  <2>3. OldEpochs' /\ Born'
    BY <2>1 DEF Enrolment, OldEpochs, Born
  <2> QED BY <2>2, <2>3 DEF Enrolment
<1>2. ASSUME NEW t \in Tests, EnqueueTest(t) PROVE Enrolment'
  BY <1>2, EnrolmentStays DEF EnqueueTest, Insert
<1>3. ASSUME NEW r \in Receipts, RetryPrintJob(r) PROVE Enrolment'
  BY <1>3, EnrolmentStays DEF RetryPrintJob
<1>4. ASSUME NEW s \in Servers, Start(s) PROVE Enrolment'
  BY <1>4, EnrolmentStays DEF Start, Recovered
<1>5. ASSUME NEW s \in Servers, Crash(s) PROVE Enrolment'
  <2>1. 0 <= settings.epoch
    BY Bounds DEF SettingsOK
  <2>2. \A t \in Servers : w'[t].epoch = w[t].epoch \/ w'[t].epoch = 0
    BY <1>5 DEF Crash, Idle
  <2>3. UNCHANGED <<source, settings, job>>
    BY <1>5 DEF Crash, queue
  <2> QED BY <2>1, <2>2, <2>3, EnrolmentStays
<1>6. CASE UNCHANGED vars
  BY <1>6, EnrolmentStays DEF vars, queue
<1> QED BY <1>1, <1>2, <1>3, <1>4, <1>5, <1>6, ChangeRunEnrolment, ConfigureEnrolment,
           EnqueueEnrolment, WorkerEnrolment DEF Next, SyncOnce

\* No event of this epoch is passed by whose receipts have no row, for any number of
\* workers with copies of the settings of any age.
THEOREM NothingIsSkipped == Spec => []NoReceiptSkipped
<1>1. Init => Enrolment
  BY DEF Init, Enrolment, NoGap, OldEpochs, Born, Idle
<1>2. TypeInv /\ Enrolment => NoReceiptSkipped
  <2> SUFFICES ASSUME Enrolment, NEW i \in 1..settings.cursor,
                      NEW k \in DOMAIN JobsForEvent(events[i], settings.epoch)
               PROVE  job[JobsForEvent(events[i], settings.epoch)[k]] # "none"
    BY DEF NoReceiptSkipped
  <2>1. PrinterRunEligible(events[i].run, settings.epoch)
    BY DEF JobsForEvent
  <2>2. Enqueued(i)
    BY <2>1 DEF Enrolment, NoGap
  <2> QED BY <2>1, <2>2 DEF JobsForEvent, Enqueued
<1> QED BY <1>1, <1>2, NextEnrolment, TypeInvHolds, PTL DEF Spec
=============================================================================
