----------------------------- MODULE ChangeFeed -----------------------------
(***************************************************************************)
(* The change feed of the runs and one browser that follows it: triggers   *)
(* record every write of a run in run_changes, the server serves the runs  *)
(* with a cursor into these changes, pages of changes and a stream of      *)
(* them, and the web UI keeps its list in step by all three at once.       *)
(***************************************************************************)
EXTENDS Naturals, Sequences

CONSTANTS
    Runs,         \* the runs, no more than the list has room for
    OldRun,       \* the run that was written before the page is loaded
    Limit,        \* changes in one answer to a catch-up (200 in the code)
    MaxPages,     \* answers that one catch-up asks for (50 in the code)
    MaxWrites,    \* bound on the writes to runs
    MaxTroubles   \* bound on the failed requests, broken streams, visits of the user
                  \* and processes that open the database, all together

ASSUME FeedAssumption ==
    /\ OldRun \in Runs
    /\ Limit \in Nat \ {0} /\ MaxPages \in Nat \ {0}
    /\ MaxWrites \in Nat /\ MaxTroubles \in Nat

VARIABLES
    row,         \* the runs in the database: how often each was written, 0 without
                 \* a row, and whether its status is an active one
    log,         \* run_changes, in the order of seq
    gap,         \* a process that opens the database has dropped the triggers
    tab,         \* the page that is open: the list of runs, or another one, which
                 \* goes by the list of the active runs
    cache,       \* what the browser shows in this list, and its change_cursor
    fetch,       \* the request for the list that is under way
    failed,      \* the last request for the list has failed
    checkpoint,  \* runChangeCheckpoint.current.cursor
    synced,      \* the change_cursor that the effects have last run with
    task,        \* the catch-up that is under way
    stream,      \* the stream of changes
    told,        \* history: the newest version of each run that was received
    writes, troubles

database == <<row, log, gap>>
list     == <<cache, fetch, failed>>
vars     == <<database, tab, list, checkpoint, synced, task, stream, told,
              writes, troubles>>

Larger(m, n) == IF m < n THEN n ELSE m

NoRow    == [v |-> 0, active |-> FALSE]
NoRows   == [r \in Runs |-> NoRow]
NoFetch  == [at |-> "idle", cursor |-> 0, rows |-> NoRows]
NoTask   == [at |-> "idle", cursor |-> 0, read |-> 0, next |-> 0, pages |-> 0, items |-> <<>>]
NoStream == [at |-> "off", cursor |-> 0, sent |-> 0, pipe |-> <<>>]

\* Without any change in the database there is no cursor, and a catch-up would go
\* by updated_since.
Init ==
    /\ row = [NoRows EXCEPT ![OldRun] = [v |-> 1, active |-> TRUE]]
    /\ log = <<[run |-> OldRun, v |-> 1]>>
    /\ gap = FALSE /\ tab \in {"runs", "other"}
    /\ cache = [cursor |-> 0, rows |-> [r \in Runs |-> 0]]
    /\ fetch = NoFetch /\ failed = FALSE
    /\ checkpoint = 0 /\ synced = 0 /\ task = NoTask /\ stream = NoStream
    /\ told = [r \in Runs |-> 0]
    /\ writes = 0 /\ troubles = 0

Trouble == troubles < MaxTroubles /\ troubles' = troubles + 1

-----------------------------------------------------------------------------
(* The database *)

\* Any process inserts a run, or writes it: it stays active, ends or is revived.
\* The trigger records the change in the same statement. No code deletes a run.
Write(r) ==
    /\ writes < MaxWrites /\ writes' = writes + 1
    /\ \E active \in BOOLEAN :
         /\ row[r].v = 0 => active
         /\ row' = [row EXCEPT ![r] = [v |-> @.v + 1, active |-> active]]
    /\ \/ log' = Append(log, [run |-> r, v |-> row[r].v + 1])
       \/ gap /\ UNCHANGED log
    /\ UNCHANGED <<gap, tab, list, checkpoint, synced, task, stream, told, troubles>>

\* Every process that opens the database drops the triggers and creates them
\* again, one after the other: in between some writes are recorded, some are not.
OpenDatabase ==
    /\ \/ ~gap /\ gap' = TRUE /\ Trouble
       \/ gap /\ gap' = FALSE /\ UNCHANGED troubles
    /\ UNCHANGED <<row, log, tab, list, checkpoint, synced, task, stream, told, writes>>

-----------------------------------------------------------------------------
(* The list *)

\* The version the list shows of a row, 0 if the row is not in it.
Shown(rw) == IF tab = "other" /\ ~rw.active THEN 0 ELSE rw.v

\* Mutant: the list is loaded once.
Refetch_Once ==
    /\ fetch.at = "idle" /\ cache.cursor = 0
    /\ fetch' = [NoFetch EXCEPT !.at = "cursor"]
    /\ UNCHANGED <<database, tab, cache, failed, checkpoint, synced, task, stream, told,
                   writes, troubles>>

\* Every 30 s, and when the window gets the focus.
Refetch ==
    /\ fetch.at = "idle"
    /\ fetch' = [NoFetch EXCEPT !.at = "cursor"]
    /\ UNCHANGED <<database, tab, cache, failed, checkpoint, synced, task, stream, told,
                   writes, troubles>>

\* The server reads the cursor first and the rows after it.
ReadCursor ==
    /\ fetch.at = "cursor"
    /\ fetch' = [fetch EXCEPT !.at = "rows", !.cursor = Len(log)]
    /\ UNCHANGED <<database, tab, cache, failed, checkpoint, synced, task, stream, told,
                   writes, troubles>>

ReadRows ==
    /\ fetch.at = "rows"
    /\ fetch' = [fetch EXCEPT !.at = "answered", !.rows = row]
    /\ UNCHANGED <<database, tab, cache, failed, checkpoint, synced, task, stream, told,
                   writes, troubles>>

Arrive ==
    /\ fetch.at = "answered"
    /\ cache' = [cursor |-> fetch.cursor, rows |-> [r \in Runs |-> Shown(fetch.rows[r])]]
    /\ told' = [r \in Runs |-> Larger(told[r], fetch.rows[r].v)]
    /\ fetch' = NoFetch /\ failed' = FALSE
    /\ UNCHANGED <<database, tab, checkpoint, synced, task, stream, writes, troubles>>

\* All attempts of the request have failed: the list keeps what it shows.
FailFetch ==
    /\ fetch.at # "idle" /\ Trouble
    /\ fetch' = NoFetch /\ failed' = TRUE
    /\ UNCHANGED <<database, tab, cache, checkpoint, synced, task, stream, told, writes>>

-----------------------------------------------------------------------------
(* Changes *)

\* Mutant: an invalidation leaves the request that is under way alone.
Invalidated_Joins == IF fetch.at = "idle" THEN [NoFetch EXCEPT !.at = "cursor"] ELSE fetch

\* An invalidation asks again and cancels the request that is under way.
Invalidated == [NoFetch EXCEPT !.at = "cursor"]

\* applyRunChange for each of these changes, to the list that is shown: an active
\* run is put into the active list and any other taken out; the page of runs has a
\* row it shows replaced, and is asked for again.
Of(items, r)   == {i \in DOMAIN items : items[i].run = r}
Last(items, r) == items[CHOOSE i \in Of(items, r) : \A j \in Of(items, r) : j <= i].row

ApplyChanges(items) ==
    /\ cache' = [cache EXCEPT !.rows = [r \in Runs |->
                   IF Of(items, r) = {} \/ (tab = "runs" /\ cache.rows[r] = 0)
                     THEN cache.rows[r] ELSE Shown(Last(items, r))]]
    /\ fetch' = IF items # <<>> /\ tab = "runs" THEN Invalidated ELSE fetch
    /\ told' = [r \in Runs |-> IF Of(items, r) = {} THEN told[r]
                                 ELSE Larger(told[r], Last(items, r).v)]
    /\ UNCHANGED failed

\* The change as it is served: its run as it is when it is served.
Served(i) == [seq |-> i, run |-> log[i].run, row |-> row[log[i].run]]

-----------------------------------------------------------------------------
(* Catch-up *)

Started(n) == [NoTask EXCEPT !.at = "list", !.cursor = n, !.read = n, !.next = n]

\* The effects and the query that depend on the change_cursor of the list: the
\* checkpoint is seeded, a new catch-up replaces the old one, the stream restarts.
Render ==
    /\ cache.cursor # 0 /\ cache.cursor # synced
    /\ synced' = cache.cursor
    /\ checkpoint' = IF checkpoint = 0 THEN cache.cursor ELSE checkpoint
    /\ task' = Started(checkpoint')
    /\ stream' = [NoStream EXCEPT !.cursor = Larger(cache.cursor, checkpoint')]
    /\ UNCHANGED <<database, tab, list, told, writes, troubles>>

\* Every 30 s, and when the window gets the focus.
StartCatchUp ==
    /\ synced # 0 /\ task.at = "idle"
    /\ task' = Started(checkpoint)
    /\ UNCHANGED <<database, tab, list, checkpoint, synced, stream, told, writes, troubles>>

\* ListRunChanges: the first changes after the cursor, up to next.
ListChanges ==
    /\ task.at = "list"
    /\ \E n \in task.cursor..Len(log) :
         /\ n <= task.cursor + Limit
         /\ n = task.cursor + Limit \/ n = Len(log)
         /\ task' = [task EXCEPT !.at = "read", !.next = n, !.pages = @ + 1]
    /\ UNCHANGED <<database, tab, list, checkpoint, synced, stream, told, writes, troubles>>

\* The server reads the run of each of them after it has listed them.
ReadChange ==
    /\ task.at = "read" /\ task.read < task.next
    /\ task' = [task EXCEPT !.read = @ + 1, !.items = Append(@, Served(task.read + 1))]
    /\ UNCHANGED <<database, tab, list, checkpoint, synced, stream, told, writes, troubles>>

\* Mutant: one page too many.
AnswerChanges_OneMore ==
    /\ task.at = "read" /\ task.read = task.next
    /\ task' = [task EXCEPT !.cursor = task.next,
                            !.at = IF task.next < task.cursor + Limit \/ task.pages > MaxPages
                                     THEN "caughtUp" ELSE "list"]
    /\ UNCHANGED <<database, tab, list, checkpoint, synced, stream, told, writes, troubles>>

\* The client goes on after a full page, up to its number of pages.
AnswerChanges ==
    /\ task.at = "read" /\ task.read = task.next
    /\ task' = [task EXCEPT !.cursor = task.next,
                            !.at = IF task.next < task.cursor + Limit \/ task.pages = MaxPages
                                     THEN "caughtUp" ELSE "list"]
    /\ UNCHANGED <<database, tab, list, checkpoint, synced, stream, told, writes, troubles>>

\* The effect on the result: the checkpoint is the one of the catch-up, even if
\* the stream has come further.
ApplyCatchUp ==
    /\ task.at = "caughtUp"
    /\ ApplyChanges(task.items)
    /\ checkpoint' = task.cursor
    /\ task' = NoTask
    /\ UNCHANGED <<database, tab, synced, stream, writes, troubles>>

FailCatchUp ==
    /\ task.at \in {"list", "read"} /\ Trouble
    /\ task' = NoTask
    /\ UNCHANGED <<database, tab, list, checkpoint, synced, stream, told, writes>>

-----------------------------------------------------------------------------
(* The stream *)

\* Mutant: the stream starts with what is new.
Connect_NoReplay ==
    /\ synced # 0 /\ stream.at = "off"
    /\ stream' = [stream EXCEPT !.at = "open", !.sent = Len(log), !.pipe = <<>>]
    /\ UNCHANGED <<database, tab, list, checkpoint, synced, task, told, writes, troubles>>

\* It replays what follows the cursor of the client.
Connect ==
    /\ synced # 0 /\ stream.at = "off"
    /\ stream' = [stream EXCEPT !.at = "open", !.sent = stream.cursor, !.pipe = <<>>]
    /\ UNCHANGED <<database, tab, list, checkpoint, synced, task, told, writes, troubles>>

\* writeChanges lists and sends the changes after the last one that was sent.
Send ==
    /\ stream.at = "open" /\ stream.sent < Len(log)
    /\ stream' = [stream EXCEPT !.sent = @ + 1, !.pipe = Append(@, Served(stream.sent + 1))]
    /\ UNCHANGED <<database, tab, list, checkpoint, synced, task, told, writes, troubles>>

\* The parser drops what is not after its cursor.
Receive ==
    LET item == Head(stream.pipe) IN
    /\ stream.at = "open" /\ stream.pipe # <<>>
    /\ IF item.seq <= stream.cursor
         THEN /\ stream' = [stream EXCEPT !.pipe = Tail(@)]
              /\ UNCHANGED <<list, told, checkpoint>>
         ELSE /\ stream' = [stream EXCEPT !.pipe = Tail(@), !.cursor = item.seq]
              /\ checkpoint' = Larger(checkpoint, item.seq)
              /\ ApplyChanges(<<item>>)
    /\ UNCHANGED <<database, tab, synced, task, writes, troubles>>

Closed == [NoStream EXCEPT !.cursor = stream.cursor]

\* The server ends the stream: the client has read everything and connects again.
EndStream ==
    /\ stream.at = "open" /\ stream.pipe = <<>> /\ Trouble
    /\ stream' = Closed
    /\ UNCHANGED <<database, tab, list, checkpoint, synced, task, told, writes>>

\* The connection breaks, or cannot be made: what was sent is lost and the list of
\* the active runs is asked for again.
BreakStream ==
    /\ synced # 0 /\ Trouble
    /\ stream' = Closed
    /\ fetch' = IF tab = "other" THEN Invalidated ELSE fetch
    /\ UNCHANGED <<database, tab, cache, failed, checkpoint, synced, task, told, writes>>

\* The user comes back to the page, or to the network: the lists are asked for
\* again and the stream is connected again.
Return ==
    /\ synced # 0 /\ Trouble
    /\ stream' = Closed
    /\ fetch' = Invalidated
    /\ UNCHANGED <<database, tab, cache, failed, checkpoint, synced, task, told, writes>>

\* The user opens a run or closes it: the effect of the stream starts anew.
OpenRun ==
    /\ synced # 0 /\ Trouble
    /\ stream' = [NoStream EXCEPT !.cursor = Larger(synced, checkpoint)]
    /\ UNCHANGED <<database, tab, list, checkpoint, synced, task, told, writes>>

-----------------------------------------------------------------------------

ListStep    == Refetch \/ ReadCursor \/ ReadRows \/ Arrive
TaskStep    == StartCatchUp \/ ListChanges \/ ReadChange \/ AnswerChanges \/ ApplyCatchUp
StreamStep  == Connect \/ Send \/ Receive

Next ==
    \/ \E r \in Runs : Write(r)
    \/ OpenDatabase
    \/ ListStep \/ FailFetch
    \/ Render
    \/ TaskStep \/ FailCatchUp
    \/ StreamStep \/ EndStream \/ BreakStream \/ Return \/ OpenRun

\* The timers of the page run, and what was asked for is answered or fails.
Fairness ==
    /\ WF_vars(ListStep) /\ WF_vars(Render) /\ WF_vars(TaskStep) /\ WF_vars(StreamStep)

Spec == Init /\ [][Next]_vars /\ Fairness

-----------------------------------------------------------------------------
(* Properties *)

Cursors  == 0..MaxWrites + 1
Rows     == [v : Cursors, active : BOOLEAN]
Items    == [seq : Cursors, run : Runs, row : Rows]

\* The types of the variables.
TypeOK ==
    /\ row \in [Runs -> Rows]
    /\ log \in Seq([run : Runs, v : Cursors]) /\ Len(log) \in Cursors
    /\ gap \in BOOLEAN /\ tab \in {"runs", "other"}
    /\ cache \in [cursor : Cursors, rows : [Runs -> Cursors]]
    /\ fetch \in [at : {"idle", "cursor", "rows", "answered"}, cursor : Cursors,
                  rows : [Runs -> Rows]]
    /\ failed \in BOOLEAN
    /\ checkpoint \in Cursors /\ synced \in Cursors
    /\ task \in [at : {"idle", "list", "read", "caughtUp"}, cursor : Cursors, read : Cursors,
                 next : Cursors, pages : 0..MaxPages, items : Seq(Items)]
    /\ stream \in [at : {"off", "open"}, cursor : Cursors, sent : Cursors, pipe : Seq(Items)]
    /\ told \in [Runs -> Cursors]
    /\ writes \in 0..MaxWrites /\ troubles \in 0..MaxTroubles

\* A cursor of the browser never passes a recorded change it was not told of, by
\* the list it goes by, a catch-up or the stream: whatever the order in which the
\* three arrive, break and set the cursor back, none of them skips a change
\* (handleListRunSummaries, catchUpRunChanges, readRunChangeStream).
NoChangeSkipped ==
    \A i \in DOMAIN log :
       i <= Larger(Larger(checkpoint, synced), stream.cursor) => told[log[i].run] >= log[i].v

\* While the page of runs is open and no request for it is under way or has
\* failed, it shows no run older than the browser was told of, though answers and
\* changes that were read earlier may arrive later (applyRunChange).
PageIsCurrent ==
    tab = "runs" /\ fetch.at = "idle" /\ ~failed
       => \A r \in Runs : cache.rows[r] >= told[r]

\* When the writes have stopped, the list comes to show the runs as they are, and
\* stays so: old answers and changes, lost streams and writes that no
\* trigger recorded are made up for (refetchInterval in App.tsx).
ViewConverges == <>[](\A r \in Runs : cache.rows[r] = Shown(row[r]))
=============================================================================
