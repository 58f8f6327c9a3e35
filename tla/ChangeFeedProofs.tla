-------------------------- MODULE ChangeFeedProofs --------------------------
(* Theorems about ChangeFeed for any runs, page sizes and bounds.           *)
EXTENDS ChangeFeed, TLAPS

USE FeedAssumption

-----------------------------------------------------------------------------
(* The last change of a run in a sequence of changes.                      *)

HasLast(items) ==
    \A r \in Runs : Of(items, r) # {} => \E i \in Of(items, r) : \A j \in Of(items, r) : j <= i

LEMMA LastIs ==
  ASSUME NEW items \in Seq(Items), NEW r \in Runs, NEW k \in Of(items, r),
         \A j \in Of(items, r) : j <= k
  PROVE  Last(items, r) = items[k].row
<1>1. Of(items, r) \subseteq Nat
  BY DEF Of
<1>2. \A i \in Of(items, r) : (\A j \in Of(items, r) : j <= i) => i = k
  BY <1>1
<1>3. (CHOOSE i \in Of(items, r) : \A j \in Of(items, r) : j <= i) = k
  BY <1>2
<1> QED BY <1>3 DEF Last

LEMMA LastType ==
  ASSUME NEW items \in Seq(Items), HasLast(items), NEW r \in Runs, Of(items, r) # {}
  PROVE  /\ Last(items, r) \in Rows
         /\ \E i \in DOMAIN items : items[i].run = r /\ Last(items, r) = items[i].row
<1>1. PICK k \in Of(items, r) : \A j \in Of(items, r) : j <= k
  BY DEF HasLast
<1>2. Last(items, r) = items[k].row
  BY <1>1, LastIs
<1>3. k \in DOMAIN items /\ items[k] \in Items /\ items[k].run = r
  BY DEF Of
<1> QED BY <1>2, <1>3 DEF Items

LEMMA NoneLast == HasLast(<<>>) /\ \A r \in Runs : Of(<<>>, r) = {}
BY DEF HasLast, Of

LEMMA AppendLast ==
  ASSUME NEW items \in Seq(Items), HasLast(items), NEW x \in Items
  PROVE  LET more == Append(items, x) IN
         /\ HasLast(more)
         /\ Of(more, x.run) # {} /\ Last(more, x.run) = x.row
         /\ \A r \in Runs \ {x.run} : /\ Of(more, r) = Of(items, r)
                                      /\ Of(items, r) # {} => Last(more, r) = Last(items, r)
<1> DEFINE more == Append(items, x)
<1>1. /\ more \in Seq(Items) /\ Len(more) = Len(items) + 1 /\ more[Len(items) + 1] = x
      /\ \A i \in 1 .. Len(items) : more[i] = items[i]
      /\ DOMAIN items = 1 .. Len(items) /\ DOMAIN more = 1 .. Len(items) + 1
      /\ Len(items) \in Nat
  OBVIOUS
<1>2. x.run \in Runs
  BY DEF Items
<1> HIDE DEF more
<1>3. Len(items) + 1 \in Of(more, x.run) /\ \A j \in Of(more, x.run) : j <= Len(items) + 1
  BY <1>1 DEF Of
<1>4. Last(more, x.run) = x.row
  BY <1>1, <1>2, <1>3, LastIs
<1>5. ASSUME NEW r \in Runs \ {x.run} PROVE Of(more, r) = Of(items, r)
  BY <1>1, <1>5 DEF Of
<1>6. ASSUME NEW r \in Runs \ {x.run}, Of(items, r) # {}
      PROVE  Last(more, r) = Last(items, r)
  <2>1. PICK k \in Of(items, r) : \A j \in Of(items, r) : j <= k
    BY <1>6 DEF HasLast
  <2>2. Last(items, r) = items[k].row
    BY <2>1, LastIs
  <2>3. Of(more, r) = Of(items, r)
    BY <1>5
  <2>4. Last(more, r) = more[k].row
    BY <1>1, <2>1, <2>3, LastIs
  <2> QED BY <1>1, <2>2, <2>4 DEF Of
<1>7. HasLast(more)
  <2> SUFFICES ASSUME NEW r \in Runs, Of(more, r) # {}
               PROVE  \E i \in Of(more, r) : \A j \in Of(more, r) : j <= i
    BY DEF HasLast
  <2>1. CASE r = x.run
    BY <1>3, <2>1
  <2>2. CASE r # x.run
    BY <1>5, <2>2 DEF HasLast
  <2> QED BY <2>1, <2>2
<1> QED BY <1>3, <1>4, <1>5, <1>6, <1>7 DEF more

LEMMA OneLast ==
  ASSUME NEW x \in Items
  PROVE  /\ HasLast(<<x>>) /\ Of(<<x>>, x.run) # {} /\ Last(<<x>>, x.run) = x.row
         /\ \A r \in Runs \ {x.run} : Of(<<x>>, r) = {}
<1> DEFINE none == <<>>
<1>1. none \in Seq(Items) /\ HasLast(none) /\ \A r \in Runs : Of(none, r) = {}
  BY NoneLast
<1>2. <<x>> = Append(none, x)
  OBVIOUS
<1> HIDE DEF none
<1>3. /\ HasLast(Append(none, x))
      /\ Of(Append(none, x), x.run) # {} /\ Last(Append(none, x), x.run) = x.row
      /\ \A r \in Runs \ {x.run} : Of(Append(none, x), r) = Of(none, r)
  BY <1>1, AppendLast
<1> QED BY <1>1, <1>2, <1>3

-----------------------------------------------------------------------------
(* The inductive invariant: where the cursors are, what the versions on    *)
(* their way stand for, and what the browser was told.                     *)

Placed ==
    /\ Len(log) <= writes + 1 /\ \A r \in Runs : row[r].v <= writes + 1
    /\ cache.cursor <= Len(log) /\ fetch.cursor <= Len(log)
    /\ synced <= Len(log) /\ checkpoint <= Len(log)
    /\ task.cursor <= task.read /\ task.read <= task.next /\ task.next <= Len(log)
    /\ task.at = "list" => task.next = task.cursor /\ task.pages < MaxPages
    /\ task.at = "caughtUp" => task.read = task.cursor
    /\ HasLast(task.items)
    /\ stream.cursor <= Len(log) /\ stream.sent <= Len(log)
    /\ stream.at = "off" => stream.pipe = <<>>
    /\ stream.at = "open" => stream.sent = stream.cursor + Len(stream.pipe)

TypeInv == TypeOK /\ Placed

\* What the trigger recorded was written; what is on its way was read from the row.
Genuine ==
    /\ \A i \in DOMAIN log : log[i].v <= row[log[i].run].v
    /\ \A r \in Runs : told[r] <= row[r].v /\ fetch.rows[r].v <= row[r].v
    /\ \A k \in DOMAIN task.items : task.items[k].row.v <= row[task.items[k].run].v
    /\ \A k \in DOMAIN stream.pipe :
         /\ stream.pipe[k].seq = stream.cursor + k
         /\ stream.pipe[k].run = log[stream.pipe[k].seq].run
         /\ log[stream.pipe[k].seq].v <= stream.pipe[k].row.v
         /\ stream.pipe[k].row.v <= row[stream.pipe[k].run].v

Covered(n) == \A i \in DOMAIN log : i <= n => told[log[i].run] >= log[i].v

\* The items of the catch-up make up for what it has passed since its start.
TaskCovers ==
    \A i \in DOMAIN log : i <= task.read =>
       \/ told[log[i].run] >= log[i].v
       \/ /\ Of(task.items, log[i].run) # {}
          /\ Last(task.items, log[i].run).v >= log[i].v

Covers ==
    /\ Covered(cache.cursor) /\ Covered(synced) /\ Covered(checkpoint) /\ Covered(stream.cursor)
    /\ fetch.at = "answered" =>
         \A i \in DOMAIN log : i <= fetch.cursor => fetch.rows[log[i].run].v >= log[i].v
    /\ TaskCovers

PageInv ==
    /\ PageIsCurrent
    /\ tab = "runs" /\ fetch.at = "answered" => \A r \in Runs : fetch.rows[r].v >= told[r]

IInv == Genuine /\ Covers /\ PageInv

LEMMA InitInv == Init => TypeInv /\ IInv
<1> SUFFICES ASSUME Init PROVE TypeInv /\ IInv
  OBVIOUS
<1>1. 0 \in Cursors /\ 1 \in Cursors /\ MaxWrites + 1 \in Nat
  BY DEF Cursors
<1>2. NoRow \in Rows /\ NoRows \in [Runs -> Rows] /\ [v |-> 1, active |-> TRUE] \in Rows
  BY <1>1 DEF NoRow, NoRows, Rows
<1>3. /\ log \in Seq([run : Runs, v : Cursors]) /\ Len(log) = 1 /\ DOMAIN log = {1}
      /\ log[1].run = OldRun /\ log[1].v = 1
  BY <1>1 DEF Init
<1>4. row \in [Runs -> Rows] /\ row[OldRun].v = 1 /\ \A r \in Runs \ {OldRun} : row[r].v = 0
  BY <1>2 DEF Init, NoRows, NoRow
<1>5. TypeOK
  <2>1. fetch \in [at : {"idle", "cursor", "rows", "answered"}, cursor : Cursors,
                   rows : [Runs -> Rows]]
    BY <1>1, <1>2 DEF Init, NoFetch
  <2>2. /\ task \in [at : {"idle", "list", "read", "caughtUp"}, cursor : Cursors, read : Cursors,
                     next : Cursors, pages : 0..MaxPages, items : Seq(Items)]
        /\ stream \in [at : {"off", "open"}, cursor : Cursors, sent : Cursors, pipe : Seq(Items)]
    BY <1>1 DEF Init, NoTask, NoStream
  <2>3. /\ cache \in [cursor : Cursors, rows : [Runs -> Cursors]] /\ failed \in BOOLEAN
        /\ told \in [Runs -> Cursors] /\ checkpoint \in Cursors /\ synced \in Cursors
    BY <1>1 DEF Init
  <2>4. writes \in 0..MaxWrites /\ troubles \in 0..MaxTroubles
    BY DEF Init
  <2>5. tab \in {"runs", "other"} /\ gap \in BOOLEAN
    BY DEF Init
  <2>6. Len(log) \in Cursors
    BY <1>1, <1>3
  <2> QED BY <1>3, <1>4, <2>1, <2>2, <2>3, <2>4, <2>5, <2>6 DEF TypeOK
<1>6. Placed
  BY <1>3, <1>4, NoneLast DEF Init, Placed, NoFetch, NoTask, NoStream
<1>7. IInv
  BY <1>3, <1>4 DEF Init, IInv, Genuine, Covers, Covered, TaskCovers, PageInv, PageIsCurrent, NoFetch,
                    NoTask, NoStream, NoRows, NoRow
<1> QED BY <1>5, <1>6, <1>7 DEF TypeInv
-----------------------------------------------------------------------------
(* What the helpers of the actions do.                                     *)

Fetches == [at : {"idle", "cursor", "rows", "answered"}, cursor : Cursors, rows : [Runs -> Rows]]
Tasks   == [at : {"idle", "list", "read", "caughtUp"}, cursor : Cursors, read : Cursors,
            next : Cursors, pages : 0..MaxPages, items : Seq(Items)]
Streams == [at : {"off", "open"}, cursor : Cursors, sent : Cursors, pipe : Seq(Items)]

LEMMA Types ==
  /\ 0 \in Cursors /\ Cursors \subseteq Nat
  /\ NoRow \in Rows /\ NoRows \in [Runs -> Rows] /\ \A r \in Runs : NoRows[r].v = 0
  /\ NoFetch \in Fetches /\ Invalidated \in Fetches
  /\ NoTask \in Tasks /\ \A n \in Cursors : Started(n) \in Tasks
  /\ NoStream \in Streams
<1>1. 0 \in Cursors /\ Cursors \subseteq Nat
  BY DEF Cursors
<1>2. NoRow \in Rows /\ NoRows \in [Runs -> Rows] /\ \A r \in Runs : NoRows[r].v = 0
  BY <1>1 DEF NoRow, NoRows, Rows
<1>3. NoFetch \in Fetches /\ Invalidated \in Fetches
  BY <1>1, <1>2 DEF NoFetch, Invalidated, Fetches
<1>4. NoTask \in Tasks /\ \A n \in Cursors : Started(n) \in Tasks
  <2>1. NoTask \in Tasks
    BY <1>1 DEF NoTask, Tasks
  <2> QED BY <2>1 DEF Started, Tasks
<1>5. NoStream \in Streams
  BY <1>1 DEF NoStream, Streams
<1> QED BY <1>1, <1>2, <1>3, <1>4, <1>5

LEMMA ShownType ==
  ASSUME NEW rw \in Rows
  PROVE  Shown(rw) \in Cursors /\ (tab = "runs" => Shown(rw) = rw.v)
BY Types DEF Shown, Rows

LEMMA ApplyEffect ==
  ASSUME TypeOK, NEW items \in Seq(Items), HasLast(items), ApplyChanges(items)
  PROVE  /\ cache' \in [cursor : Cursors, rows : [Runs -> Cursors]] /\ cache'.cursor = cache.cursor
         /\ fetch' \in Fetches
         /\ fetch' = fetch \/ fetch' = Invalidated
         /\ items # <<>> /\ tab = "runs" => fetch' = Invalidated
         /\ told' \in [Runs -> Cursors]
         /\ \A r \in Runs : /\ told'[r] >= told[r]
                            /\ Of(items, r) = {} => told'[r] = told[r]
                            /\ Of(items, r) # {} => /\ told'[r] >= Last(items, r).v
                                                    /\ \/ told'[r] = told[r]
                                                       \/ told'[r] = Last(items, r).v
         /\ items = <<>> => cache' = cache /\ fetch' = fetch /\ told' = told
         /\ failed' = failed
<1>1. \A r \in Runs : Of(items, r) # {} => Last(items, r) \in Rows
  BY LastType
<1>2. cache \in [cursor : Cursors, rows : [Runs -> Cursors]] /\ told \in [Runs -> Cursors]
      /\ fetch \in Fetches
  BY DEF TypeOK, Fetches
<1> DEFINE shown(r) == IF Of(items, r) = {} \/ (tab = "runs" /\ cache.rows[r] = 0)
                         THEN cache.rows[r] ELSE Shown(Last(items, r))
<1>3. \A r \in Runs : shown(r) \in Cursors
  BY <1>1, <1>2, ShownType
<1>4. cache' = [cache EXCEPT !.rows = [r \in Runs |-> shown(r)]]
  BY DEF ApplyChanges
<1>5. items = <<>> => \A r \in Runs : shown(r) = cache.rows[r]
  BY NoneLast
<1> HIDE DEF shown
<1>6. /\ cache' \in [cursor : Cursors, rows : [Runs -> Cursors]] /\ cache'.cursor = cache.cursor
      /\ items = <<>> => cache' = cache
  BY <1>2, <1>3, <1>4, <1>5
<1>7. /\ fetch' \in Fetches
      /\ fetch' = fetch \/ fetch' = Invalidated
      /\ items # <<>> /\ tab = "runs" => fetch' = Invalidated
      /\ items = <<>> => fetch' = fetch
  BY <1>2, Types DEF ApplyChanges
<1> DEFINE new(r) == IF Of(items, r) = {} THEN told[r] ELSE Larger(told[r], Last(items, r).v)
<1>8. \A r \in Runs : /\ new(r) \in Cursors /\ new(r) >= told[r]
                      /\ Of(items, r) = {} => new(r) = told[r]
                      /\ Of(items, r) # {} => /\ new(r) >= Last(items, r).v
                                              /\ new(r) = told[r] \/ new(r) = Last(items, r).v
  <2> SUFFICES ASSUME NEW r \in Runs
               PROVE  /\ new(r) \in Cursors /\ new(r) >= told[r]
                      /\ Of(items, r) = {} => new(r) = told[r]
                      /\ Of(items, r) # {} => /\ new(r) >= Last(items, r).v
                                              /\ new(r) = told[r] \/ new(r) = Last(items, r).v
    OBVIOUS
  <2>1. told[r] \in Cursors /\ told[r] \in Nat
    BY <1>2, Types
  <2>2. Of(items, r) # {} => Last(items, r).v \in Cursors /\ Last(items, r).v \in Nat
    BY <1>1, Types DEF Rows
  <2> QED BY <2>1, <2>2 DEF Larger
<1>9. told' = [r \in Runs |-> new(r)]
  BY DEF ApplyChanges
<1>10. items = <<>> => \A r \in Runs : new(r) = told[r]
  BY NoneLast
<1> HIDE DEF new
<1>11. items = <<>> => told' = told
  BY <1>2, <1>9, <1>10
<1>12. failed' = failed
  BY DEF ApplyChanges
<1> QED BY <1>6, <1>7, <1>8, <1>9, <1>11, <1>12

LEMMA Facts ==
  ASSUME TypeInv
  PROVE  /\ row \in [Runs -> Rows] /\ \A r \in Runs : row[r].v \in Nat
         /\ log \in Seq([run : Runs, v : Cursors]) /\ Len(log) \in Cursors
         /\ DOMAIN log = 1 .. Len(log) /\ Len(log) \in Nat
         /\ \A i \in DOMAIN log : log[i].run \in Runs /\ log[i].v \in Nat
         /\ cache \in [cursor : Cursors, rows : [Runs -> Cursors]]
         /\ fetch \in Fetches /\ \A r \in Runs : fetch.rows[r].v \in Nat
         /\ task \in Tasks /\ stream \in Streams
         /\ checkpoint \in Cursors /\ synced \in Cursors
         /\ told \in [Runs -> Cursors] /\ \A r \in Runs : told[r] \in Nat
         /\ \A k \in DOMAIN task.items : task.items[k] \in Items /\ task.items[k].row.v \in Nat
         /\ \A k \in DOMAIN stream.pipe : stream.pipe[k] \in Items /\ stream.pipe[k].row.v \in Nat
<1>1. TypeOK
  BY DEF TypeInv
<1>2. row \in [Runs -> Rows] /\ told \in [Runs -> Cursors]
      /\ cache \in [cursor : Cursors, rows : [Runs -> Cursors]]
      /\ checkpoint \in Cursors /\ synced \in Cursors
  BY <1>1 DEF TypeOK
<1>3. fetch \in Fetches /\ task \in Tasks /\ stream \in Streams
  BY <1>1 DEF TypeOK, Fetches, Tasks, Streams
<1>4. log \in Seq([run : Runs, v : Cursors]) /\ Len(log) \in Cursors
  BY <1>1 DEF TypeOK
<1>5. /\ DOMAIN log = 1 .. Len(log) /\ Len(log) \in Nat
      /\ \A i \in DOMAIN log : log[i].run \in Runs /\ log[i].v \in Nat
  <2>1. DOMAIN log = 1 .. Len(log) /\ Len(log) \in Nat
    BY <1>4
  <2>2. \A i \in DOMAIN log : log[i] \in [run : Runs, v : Cursors]
    <3> DEFINE S == [run : Runs, v : Cursors]
    <3>1. log \in Seq(S)
      BY <1>4
    <3> HIDE DEF S
    <3>2. \A i \in DOMAIN log : log[i] \in S
      BY <3>1
    <3> QED BY <3>2 DEF S
  <2> QED BY <2>1, <2>2, Types
<1>6. (\A r \in Runs : row[r].v \in Nat /\ told[r] \in Nat /\ fetch.rows[r].v \in Nat)
  BY <1>2, <1>3, Types DEF Rows, Fetches
<1>7. \A x \in Items : x.row.v \in Nat
  BY Types DEF Items, Rows
<1>8. /\ \A k \in DOMAIN task.items : task.items[k] \in Items
      /\ \A k \in DOMAIN stream.pipe : stream.pipe[k] \in Items
  <2>1. task.items \in Seq(Items) /\ stream.pipe \in Seq(Items)
    BY <1>3 DEF Tasks, Streams
  <2> QED BY <2>1
<1> QED BY <1>2, <1>3, <1>4, <1>5, <1>6, <1>7, <1>8

-----------------------------------------------------------------------------
(* The steps.                                                              *)

LEMMA WriteStep ==
  ASSUME TypeInv, IInv, NEW r \in Runs, Write(r)
  PROVE  (TypeInv /\ IInv)'
<1>0. TypeOK /\ Placed /\ Genuine /\ Covers /\ PageInv
  BY DEF TypeInv, IInv
<1>1. PICK active \in BOOLEAN : row' = [row EXCEPT ![r] = [v |-> @.v + 1, active |-> active]]
  BY DEF Write
<1>2. writes \in Nat /\ writes < MaxWrites /\ writes' = writes + 1
  BY <1>0 DEF Write, TypeOK
<1>3. UNCHANGED <<gap, tab, cache, fetch, failed, checkpoint, synced, task, stream, told, troubles>>
  BY DEF Write, list
<1> DEFINE new == [v |-> row[r].v + 1, active |-> active]
<1>4. row[r] \in Rows /\ row[r].v \in Nat /\ row[r].v <= writes + 1
  BY <1>0, Facts DEF Placed
<1>5. new \in Rows /\ new.v = row[r].v + 1
  BY <1>2, <1>4 DEF Rows, Cursors
<1>6. row' = [row EXCEPT ![r] = new]
  BY <1>1
<1> HIDE DEF new
<1>7. /\ row' \in [Runs -> Rows] /\ row'[r].v = row[r].v + 1
      /\ \A q \in Runs \ {r} : row'[q] = row[q]
  BY <1>5, <1>6, Facts
<1>8. \A q \in Runs : row[q].v <= row'[q].v /\ row'[q].v <= writes' + 1 /\ row'[q].v \in Nat
  <2> SUFFICES ASSUME NEW q \in Runs
               PROVE  row[q].v <= row'[q].v /\ row'[q].v <= writes' + 1 /\ row'[q].v \in Nat
    OBVIOUS
  <2>1. row[q].v \in Nat /\ row[q].v <= writes + 1
    BY <1>0, Facts DEF Placed
  <2> QED BY <1>2, <1>4, <1>7, <2>1
<1> DEFINE e == [run |-> r, v |-> row[r].v + 1]
<1>9. e \in [run : Runs, v : Cursors] /\ e.run = r /\ e.v = row[r].v + 1
  BY <1>2, <1>4 DEF Cursors
<1>10. log' = Append(log, e) \/ log' = log
  BY DEF Write
<1> HIDE DEF e
<1>11. Len(log) \in Nat /\ Len(log) <= writes + 1 /\ DOMAIN log = 1 .. Len(log)
       /\ log \in Seq([run : Runs, v : Cursors])
  BY <1>0, Facts DEF Placed
<1>12. /\ log' \in Seq([run : Runs, v : Cursors]) /\ DOMAIN (log') = 1 .. Len(log')
       /\ Len(log') \in Nat /\ Len(log) <= Len(log') /\ Len(log') <= Len(log) + 1
       /\ \A i \in 1 .. Len(log) : log'[i] = log[i]
       /\ \A i \in DOMAIN (log') : i > Len(log) => log'[i] = e
  <2>1. CASE log' = log
    BY <1>11, <2>1
  <2>2. CASE log' = Append(log, e)
    BY <1>9, <1>11, <2>2
  <2> QED BY <1>10, <2>1, <2>2
<1>13. TypeOK'
  <2>1. Len(log') \in Cursors /\ writes' \in 0..MaxWrites
    BY <1>2, <1>11, <1>12 DEF Cursors
  <2> QED BY <1>0, <1>3, <1>7, <1>12, <2>1 DEF TypeOK
<1>14. Placed'
  <2>1. /\ cache.cursor \in Nat /\ fetch.cursor \in Nat /\ synced \in Nat /\ checkpoint \in Nat
        /\ task.next \in Nat /\ stream.cursor \in Nat /\ stream.sent \in Nat
    BY Facts, Types DEF Fetches, Tasks, Streams
  <2>2. HasLast(task.items)'
    BY <1>0, <1>3 DEF Placed
  <2>3. Len(log') <= writes' + 1 /\ \A q \in Runs : row'[q].v <= writes' + 1
    BY <1>2, <1>8, <1>11, <1>12
  <2>4. \A n \in Nat : n <= Len(log) => n <= Len(log')
    BY <1>11, <1>12
  <2> QED BY <1>0, <1>3, <2>1, <2>2, <2>3, <2>4 DEF Placed
<1>15. \A i \in DOMAIN log : log'[i] = log[i] /\ i \in DOMAIN (log')
  BY <1>11, <1>12
<1>16. Genuine'
  <2>1. \A i \in DOMAIN (log') : log'[i].v <= row'[log'[i].run].v
    <3> SUFFICES ASSUME NEW i \in DOMAIN (log') PROVE log'[i].v <= row'[log'[i].run].v
      OBVIOUS
    <3>1. CASE i > Len(log)
      BY <1>4, <1>7, <1>9, <1>12, <3>1
    <3>2. CASE i <= Len(log)
      <4>1. i \in DOMAIN log /\ log'[i] = log[i]
        BY <1>11, <1>12, <3>2
      <4>2. log[i].run \in Runs /\ log[i].v \in Nat /\ log[i].v <= row[log[i].run].v
            /\ row[log[i].run].v \in Nat
        BY <1>0, <4>1, Facts DEF Genuine
      <4> QED BY <1>8, <4>1, <4>2
    <3> QED BY <1>11, <1>12, <3>1, <3>2
  <2>2. \A q \in Runs : told[q] <= row'[q].v /\ fetch.rows[q].v <= row'[q].v
    <3> SUFFICES ASSUME NEW q \in Runs PROVE told[q] <= row'[q].v /\ fetch.rows[q].v <= row'[q].v
      OBVIOUS
    <3>1. told[q] \in Nat /\ fetch.rows[q].v \in Nat /\ row[q].v \in Nat
          /\ told[q] <= row[q].v /\ fetch.rows[q].v <= row[q].v
      BY <1>0, Facts DEF Genuine
    <3> QED BY <1>8, <3>1
  <2>3. \A k \in DOMAIN task.items : task.items[k].row.v <= row'[task.items[k].run].v
    <3> SUFFICES ASSUME NEW k \in DOMAIN task.items
                 PROVE  task.items[k].row.v <= row'[task.items[k].run].v
      OBVIOUS
    <3>1. task.items[k].run \in Runs /\ task.items[k].row.v \in Nat
          /\ task.items[k].row.v <= row[task.items[k].run].v /\ row[task.items[k].run].v \in Nat
      BY <1>0, Facts DEF Genuine, Items
    <3> QED BY <1>8, <3>1
  <2>4. ASSUME NEW k \in DOMAIN stream.pipe
        PROVE  /\ stream.pipe[k].seq = stream.cursor + k
               /\ stream.pipe[k].run = log'[stream.pipe[k].seq].run
               /\ log'[stream.pipe[k].seq].v <= stream.pipe[k].row.v
               /\ stream.pipe[k].row.v <= row'[stream.pipe[k].run].v
    <3>1. /\ stream.pipe[k].seq = stream.cursor + k
          /\ stream.pipe[k].run = log[stream.pipe[k].seq].run
          /\ log[stream.pipe[k].seq].v <= stream.pipe[k].row.v
          /\ stream.pipe[k].row.v <= row[stream.pipe[k].run].v
      BY <1>0 DEF Genuine
    <3>2. stream.pipe[k].run \in Runs /\ stream.pipe[k].row.v \in Nat
      BY Facts DEF Items
    <3>3. stream.pipe[k].seq \in DOMAIN log
      <4>1. /\ stream.at \in {"off", "open"} /\ stream.cursor \in Nat /\ stream.sent \in Nat
            /\ stream.pipe \in Seq(Items)
        BY Facts, Types DEF Streams
      <4>2. stream.at = "open"
        BY <1>0, <4>1 DEF Placed
      <4>3. k \in 1 .. Len(stream.pipe) /\ Len(stream.pipe) \in Nat
        BY <4>1
      <4> QED BY <1>0, <1>11, <3>1, <4>1, <4>2, <4>3 DEF Placed
    <3>4. row[stream.pipe[k].run].v \in Nat
      BY <3>2, Facts
    <3> QED BY <1>8, <1>15, <3>1, <3>2, <3>3, <3>4
  <2> QED BY <1>3, <2>1, <2>2, <2>3, <2>4 DEF Genuine
<1>17. Covers'
  <2>1. \A n \in Nat : n <= Len(log) =>
          \A i \in DOMAIN (log') : i <= n => i \in DOMAIN log /\ log'[i] = log[i]
    BY <1>11, <1>12
  <2>2. /\ cache.cursor \in Nat /\ fetch.cursor \in Nat /\ synced \in Nat /\ checkpoint \in Nat
        /\ task.read \in Nat /\ task.next \in Nat /\ stream.cursor \in Nat
        /\ cache.cursor <= Len(log) /\ fetch.cursor <= Len(log) /\ synced <= Len(log)
        /\ checkpoint <= Len(log) /\ task.read <= Len(log) /\ stream.cursor <= Len(log)
    <3>1. /\ cache.cursor \in Nat /\ fetch.cursor \in Nat /\ synced \in Nat /\ checkpoint \in Nat
          /\ task.read \in Nat /\ task.next \in Nat /\ stream.cursor \in Nat
      BY Facts, Types DEF Fetches, Tasks, Streams
    <3> QED BY <1>0, <1>11, <3>1 DEF Placed
  <2>3. (Covered(cache.cursor) /\ Covered(synced) /\ Covered(checkpoint) /\ Covered(stream.cursor))'
    BY <1>0, <1>3, <2>1, <2>2 DEF Covers, Covered
  <2>4. fetch.at = "answered" =>
          \A i \in DOMAIN (log') : i <= fetch.cursor => fetch.rows[log'[i].run].v >= log'[i].v
    BY <1>0, <2>1, <2>2 DEF Covers
  <2>5. TaskCovers'
    <3> SUFFICES ASSUME NEW i \in DOMAIN (log'), i <= task.read
                 PROVE  \/ told[log'[i].run] >= log'[i].v
                        \/ /\ Of(task.items, log'[i].run) # {}
                           /\ Last(task.items, log'[i].run).v >= log'[i].v
      BY <1>3 DEF TaskCovers
    <3>1. i \in DOMAIN log /\ log'[i] = log[i]
      BY <2>1, <2>2
    <3> QED BY <1>0, <3>1 DEF Covers, TaskCovers
  <2> QED BY <1>3, <2>3, <2>4, <2>5 DEF Covers
<1>18. PageInv'
  BY <1>0, <1>3 DEF PageInv, PageIsCurrent
<1> QED BY <1>13, <1>14, <1>16, <1>17, <1>18 DEF TypeInv, IInv

\* The steps of the list: the rows and what else is on its way do not change.
LEMMA FetchStep ==
  ASSUME TypeInv, IInv, Refetch \/ ReadCursor \/ ReadRows \/ Arrive \/ FailFetch
  PROVE  (TypeInv /\ IInv)'
<1>0. TypeOK /\ Placed /\ Genuine /\ Covers /\ PageInv
  BY DEF TypeInv, IInv
<1>1. /\ UNCHANGED <<row, log, gap, tab, checkpoint, synced, task, stream, writes>>
      /\ troubles' \in 0..MaxTroubles
  BY <1>0 DEF Refetch, ReadCursor, ReadRows, Arrive, FailFetch, Trouble, database, TypeOK
<1> DEFINE Good == /\ fetch' \in Fetches /\ failed' \in BOOLEAN
                   /\ cache' \in [cursor : Cursors, rows : [Runs -> Cursors]]
                   /\ told' \in [Runs -> Cursors]
                   /\ cache'.cursor <= Len(log) /\ fetch'.cursor <= Len(log)
                   /\ \A r \in Runs : /\ told[r] <= told'[r] /\ told'[r] <= row[r].v
                                      /\ fetch'.rows[r].v <= row[r].v
                   /\ Covered(cache.cursor)'
                   /\ fetch'.at = "answered" =>
                        \A i \in DOMAIN log : i <= fetch'.cursor => fetch'.rows[log[i].run].v >= log[i].v
                   /\ PageInv'
<1>2. Good => (TypeInv /\ IInv)'
  <2> SUFFICES ASSUME Good PROVE (TypeInv /\ IInv)'
    OBVIOUS
  <2>1. TypeOK'
    BY <1>0, <1>1 DEF TypeOK, Fetches
  <2>2. Placed'
    <3>1. HasLast(task.items)'
      BY <1>0, <1>1 DEF Placed
    <3> QED BY <1>0, <1>1, <3>1 DEF Placed
  <2>3. Genuine'
    BY <1>0, <1>1 DEF Genuine
  <2>4. \A n \in Nat : Covered(n) => Covered(n)'
    <3> SUFFICES ASSUME NEW n \in Nat, Covered(n), NEW i \in DOMAIN log, i <= n
                 PROVE  told'[log[i].run] >= log[i].v
      BY <1>1 DEF Covered
    <3>1. told[log[i].run] >= log[i].v /\ log[i].run \in Runs /\ log[i].v \in Nat
          /\ told[log[i].run] \in Nat /\ told'[log[i].run] \in Nat
      BY Facts, Types DEF Covered
    <3> QED BY <3>1
  <2>5. TaskCovers'
    <3> SUFFICES ASSUME NEW i \in DOMAIN log, i <= task.read
                 PROVE  \/ told'[log[i].run] >= log[i].v
                        \/ /\ Of(task.items, log[i].run) # {}
                           /\ Last(task.items, log[i].run).v >= log[i].v
      BY <1>1 DEF TaskCovers
    <3>1. log[i].run \in Runs /\ log[i].v \in Nat
          /\ told[log[i].run] \in Nat /\ told'[log[i].run] \in Nat
      BY Facts, Types
    <3> QED BY <1>0, <3>1 DEF Covers, TaskCovers
  <2>6. synced \in Nat /\ checkpoint \in Nat /\ stream.cursor \in Nat
    BY Facts, Types DEF Streams
  <2>7. Covered(synced)' /\ Covered(checkpoint)' /\ Covered(stream.cursor)'
    BY <1>0, <1>1, <2>4, <2>6 DEF Covers, Covered
  <2> QED BY <1>1, <2>1, <2>2, <2>3, <2>5, <2>7 DEF TypeInv, IInv, Covers
<1>3. /\ cache.cursor <= Len(log) /\ fetch.cursor <= Len(log) /\ 0 <= Len(log)
      /\ \A r \in Runs : /\ told[r] <= row[r].v /\ fetch.rows[r].v <= row[r].v
                         /\ 0 <= row[r].v /\ told[r] <= told[r] /\ row[r].v <= row[r].v
  BY <1>0, Facts DEF Placed, Genuine
<1>4. ASSUME UNCHANGED <<cache, told>> PROVE Covered(cache.cursor)'
  BY <1>0, <1>1, <1>4 DEF Covers, Covered
<1>5. /\ Invalidated.at = "cursor" /\ Invalidated.cursor = 0 /\ NoFetch.at = "idle"
      /\ Invalidated.rows = NoRows /\ NoFetch.cursor = 0 /\ NoFetch.rows = NoRows
  BY DEF NoFetch, Invalidated
<1>6. ASSUME Refetch PROVE Good
  <2>1. fetch' = Invalidated /\ UNCHANGED <<cache, told, failed>>
    BY <1>6 DEF Refetch, Invalidated
  <2>2. PageInv'
    BY <1>0, <1>1, <1>5, <2>1 DEF PageInv, PageIsCurrent
  <2> QED BY <1>0, <1>3, <1>4, <1>5, <2>1, <2>2, Facts, Types DEF TypeOK
<1>7. ASSUME ReadCursor PROVE Good
  <2>1. /\ fetch' = [fetch EXCEPT !.at = "rows", !.cursor = Len(log)]
        /\ UNCHANGED <<cache, told, failed>>
    BY <1>7 DEF ReadCursor
  <2>2. fetch' \in Fetches /\ fetch'.at = "rows" /\ fetch'.cursor = Len(log) /\ fetch'.rows = fetch.rows
    BY <2>1, Facts DEF Fetches
  <2>3. PageInv'
    BY <1>0, <1>1, <2>1, <2>2 DEF PageInv, PageIsCurrent
  <2>4. Len(log) <= Len(log)
    BY Facts
  <2> QED BY <1>0, <1>3, <1>4, <2>1, <2>2, <2>3, <2>4, Facts DEF TypeOK
<1>8. ASSUME ReadRows PROVE Good
  <2>1. /\ fetch' = [fetch EXCEPT !.at = "answered", !.rows = row]
        /\ UNCHANGED <<cache, told, failed>>
    BY <1>8 DEF ReadRows
  <2>2. fetch' \in Fetches /\ fetch'.at = "answered" /\ fetch'.cursor = fetch.cursor /\ fetch'.rows = row
    BY <2>1, Facts DEF Fetches
  <2>3. PageInv'
    <3>1. \A r \in Runs : row[r].v >= told[r]
      BY <1>3, Facts
    <3> QED BY <1>0, <1>1, <2>1, <2>2, <3>1 DEF PageInv, PageIsCurrent
  <2>4. \A i \in DOMAIN log : row[log[i].run].v >= log[i].v
    <3>1. \A i \in DOMAIN log : log[i].run \in Runs /\ log[i].v \in Nat
                                /\ row[log[i].run].v \in Nat /\ log[i].v <= row[log[i].run].v
      BY <1>0, Facts DEF Genuine
    <3> QED BY <3>1
  <2> QED BY <1>0, <1>3, <1>4, <2>1, <2>2, <2>3, <2>4, Facts DEF TypeOK
<1>9. ASSUME Arrive PROVE Good
  <2>1. /\ fetch.at = "answered" /\ fetch' = NoFetch /\ failed' = FALSE
        /\ cache' = [cursor |-> fetch.cursor, rows |-> [r \in Runs |-> Shown(fetch.rows[r])]]
        /\ told' = [r \in Runs |-> Larger(told[r], fetch.rows[r].v)]
    BY <1>9 DEF Arrive
  <2>2. \A r \in Runs : fetch.rows[r] \in Rows /\ fetch.rows[r].v \in Cursors
    BY Facts DEF Fetches, Rows
  <2>3. \A r \in Runs : /\ told'[r] \in Cursors /\ told'[r] >= fetch.rows[r].v
                        /\ told[r] <= told'[r] /\ told'[r] <= row[r].v
                        /\ fetch.rows[r].v >= told[r] => told'[r] = fetch.rows[r].v
    <3> SUFFICES ASSUME NEW r \in Runs
                 PROVE  /\ told'[r] \in Cursors /\ told'[r] >= fetch.rows[r].v
                        /\ told[r] <= told'[r] /\ told'[r] <= row[r].v
                        /\ fetch.rows[r].v >= told[r] => told'[r] = fetch.rows[r].v
      OBVIOUS
    <3>1. told'[r] = Larger(told[r], fetch.rows[r].v)
      BY <2>1
    <3>2. /\ told[r] \in Cursors /\ told[r] \in Nat /\ fetch.rows[r].v \in Cursors
          /\ fetch.rows[r].v \in Nat /\ row[r].v \in Nat
      BY <2>2, Facts
    <3> QED BY <1>3, <3>1, <3>2 DEF Larger
  <2>4. \A r \in Runs : Shown(fetch.rows[r]) \in Cursors
                        /\ (tab = "runs" => Shown(fetch.rows[r]) = fetch.rows[r].v)
    BY <2>2, ShownType
  <2>5. cache' \in [cursor : Cursors, rows : [Runs -> Cursors]] /\ cache'.cursor = fetch.cursor
        /\ \A r \in Runs : cache'.rows[r] = Shown(fetch.rows[r])
    BY <2>1, <2>4, Facts DEF Fetches
  <2>6. Covered(cache.cursor)'
    <3> SUFFICES ASSUME NEW i \in DOMAIN log, i <= fetch.cursor PROVE told'[log[i].run] >= log[i].v
      BY <1>1, <2>5 DEF Covered
    <3>1. log[i].run \in Runs /\ log[i].v \in Nat /\ fetch.rows[log[i].run].v >= log[i].v
      BY <1>0, <2>1, Facts DEF Covers
    <3>2. told'[log[i].run] \in Nat /\ fetch.rows[log[i].run].v \in Nat
      BY <2>3, <3>1, Facts, Types
    <3> QED BY <2>3, <3>1, <3>2
  <2>7. PageInv'
    <3>1. ASSUME tab = "runs", NEW r \in Runs PROVE cache'.rows[r] >= told'[r]
      <4>1. cache'.rows[r] = fetch.rows[r].v /\ fetch.rows[r].v >= told[r]
        BY <1>0, <2>1, <2>4, <2>5, <3>1 DEF PageInv
      <4>2. fetch.rows[r].v \in Nat
        BY Facts
      <4> QED BY <2>3, <4>1, <4>2
    <3> QED BY <1>1, <1>5, <2>1, <3>1 DEF PageInv, PageIsCurrent
  <2>8. told' \in [Runs -> Cursors]
    BY <2>1, <2>3
  <2> QED BY <1>0, <1>3, <1>5, <2>1, <2>3, <2>5, <2>6, <2>7, <2>8, Facts, Types DEF TypeOK
<1>10. ASSUME FailFetch PROVE Good
  <2>1. fetch' = NoFetch /\ failed' = TRUE /\ UNCHANGED <<cache, told>>
    BY <1>10 DEF FailFetch
  <2>2. PageInv'
    BY <1>0, <1>1, <1>5, <2>1 DEF PageInv, PageIsCurrent
  <2> QED BY <1>0, <1>3, <1>4, <1>5, <2>1, <2>2, Facts, Types DEF TypeOK
<1> HIDE DEF Good
<1> QED BY <1>2, <1>6, <1>7, <1>8, <1>9, <1>10

\* A catch-up and a stream that are in order.
TaskOK(t) ==
    /\ t \in Tasks /\ HasLast(t.items)
    /\ t.cursor <= t.read /\ t.read <= t.next /\ t.next <= Len(log)
    /\ t.at = "list" => t.next = t.cursor /\ t.pages < MaxPages
    /\ t.at = "caughtUp" => t.read = t.cursor
    /\ \A k \in DOMAIN t.items : t.items[k].row.v <= row[t.items[k].run].v
    /\ \A i \in DOMAIN log : i <= t.read =>
         \/ told[log[i].run] >= log[i].v
         \/ Of(t.items, log[i].run) # {} /\ Last(t.items, log[i].run).v >= log[i].v

StreamOK(s) ==
    /\ s \in Streams /\ s.cursor <= Len(log) /\ s.sent <= Len(log)
    /\ s.at = "off" => s.pipe = <<>>
    /\ s.at = "open" => s.sent = s.cursor + Len(s.pipe)
    /\ \A k \in DOMAIN s.pipe :
         /\ s.pipe[k].seq = s.cursor + k
         /\ s.pipe[k].run = log[s.pipe[k].seq].run
         /\ log[s.pipe[k].seq].v <= s.pipe[k].row.v
         /\ s.pipe[k].row.v <= row[s.pipe[k].run].v
    /\ Covered(s.cursor)

LEMMA InOrder == ASSUME TypeInv, IInv PROVE TaskOK(task) /\ StreamOK(stream)
<1>1. TaskOK(task)
  BY Facts DEF TypeInv, IInv, Placed, Genuine, Covers, TaskCovers, TaskOK
<1>2. StreamOK(stream)
  BY Facts DEF TypeInv, IInv, Placed, Genuine, Covers, StreamOK
<1> QED BY <1>1, <1>2

\* A step that changes neither the rows nor what the browser shows and was told.
LEMMA MoveStep ==
  ASSUME TypeInv, IInv,
         UNCHANGED <<row, log, tab, cache, failed, told, writes>>,
         gap' \in BOOLEAN, troubles' \in 0..MaxTroubles,
         fetch' = fetch \/ fetch' = Invalidated,
         synced' \in Cursors, synced' <= Len(log), Covered(synced'),
         checkpoint' \in Cursors, checkpoint' <= Len(log), Covered(checkpoint'),
         TaskOK(task'), StreamOK(stream')
  PROVE  (TypeInv /\ IInv)'
<1>0. TypeOK /\ Placed /\ Genuine /\ Covers /\ PageInv
  BY DEF TypeInv, IInv
<1>1. /\ Invalidated.at = "cursor" /\ Invalidated.cursor = 0 /\ Invalidated.rows = NoRows
      /\ Invalidated \in Fetches /\ 0 <= Len(log)
      /\ \A r \in Runs : Invalidated.rows[r].v <= row[r].v
  BY Facts, Types DEF NoFetch, Invalidated
<1>2. fetch' \in Fetches /\ fetch'.cursor <= Len(log)
      /\ (\A r \in Runs : fetch'.rows[r].v <= row[r].v)
      /\ (fetch'.at \in {"idle", "answered"} => fetch' = fetch)
  BY <1>0, <1>1, Facts DEF Placed, Genuine
<1>3. TypeOK'
  BY <1>0, <1>2 DEF TypeOK, TaskOK, StreamOK, Fetches, Tasks, Streams
<1>4. Placed'
  <2>1. HasLast(task.items)'
    BY DEF TaskOK
  <2> QED BY <1>0, <1>2, <2>1 DEF Placed, TaskOK, StreamOK
<1>5. Genuine'
  BY <1>0, <1>2 DEF Genuine, TaskOK, StreamOK
<1>6. Covers'
  <2>1. TaskCovers'
    BY DEF TaskCovers, TaskOK
  <2>2. \A n : Covered(n) => \A i \in DOMAIN (log') : i <= n => told'[log'[i].run] >= log'[i].v
    BY DEF Covered
  <2>3. Covered(cache.cursor)' /\ Covered(synced)' /\ Covered(checkpoint)' /\ Covered(stream.cursor)'
    BY <1>0, <2>2 DEF Covers, Covered, StreamOK
  <2>4. fetch'.at = "answered" =>
          \A i \in DOMAIN log : i <= fetch'.cursor => fetch'.rows[log[i].run].v >= log[i].v
    BY <1>0, <1>2 DEF Covers
  <2> QED BY <2>1, <2>3, <2>4 DEF Covers
<1>7. PageInv'
  BY <1>0, <1>2 DEF PageInv, PageIsCurrent
<1> QED BY <1>3, <1>4, <1>5, <1>6, <1>7 DEF TypeInv, IInv

LEMMA NewTask ==
  ASSUME TypeInv, NEW n \in Cursors, n <= Len(log), Covered(n)
  PROVE  TaskOK(Started(n)) /\ TaskOK(NoTask)
<1>1. /\ Started(n).at = "list" /\ Started(n).cursor = n /\ Started(n).read = n
      /\ Started(n).next = n /\ Started(n).pages = 0 /\ Started(n).items = <<>>
      /\ NoTask.at = "idle" /\ NoTask.cursor = 0 /\ NoTask.read = 0
      /\ NoTask.next = 0 /\ NoTask.pages = 0 /\ NoTask.items = <<>>
  BY DEF Started, NoTask
<1>2. n \in Nat /\ n <= n /\ 0 <= 0 /\ 0 <= Len(log) /\ 0 < MaxPages
  BY Facts, Types
<1>3. TaskOK(Started(n))
  BY <1>1, <1>2, Types, NoneLast DEF TaskOK, Covered
<1>4. TaskOK(NoTask)
  <2>1. \A i \in DOMAIN log : ~(i <= 0)
    BY Facts
  <2> QED BY <1>1, <1>2, <2>1, Types, NoneLast DEF TaskOK
<1> QED BY <1>3, <1>4

LEMMA NewStream ==
  ASSUME TypeInv, NEW n \in Cursors, n <= Len(log), Covered(n)
  PROVE  StreamOK([NoStream EXCEPT !.cursor = n])
<1> DEFINE s == [NoStream EXCEPT !.cursor = n]
<1>1. s.at = "off" /\ s.cursor = n /\ s.sent = 0 /\ s.pipe = <<>> /\ s \in Streams
  BY Types DEF NoStream, Streams
<1>2. 0 <= Len(log)
  BY Facts
<1> HIDE DEF s
<1>3. StreamOK(s)
  BY <1>1, <1>2 DEF StreamOK
<1> QED BY <1>3 DEF s

LEMMA ServedIs ==
  ASSUME TypeInv, IInv, NEW i \in DOMAIN log
  PROVE  /\ Served(i) \in Items /\ Served(i).seq = i /\ Served(i).run = log[i].run
         /\ Served(i).row = row[log[i].run]
         /\ log[i].v <= Served(i).row.v /\ Served(i).row.v <= row[log[i].run].v
         /\ Served(i).row.v >= log[i].v
<1>1. /\ log[i].run \in Runs /\ log[i].v \in Nat /\ row[log[i].run] \in Rows
      /\ row[log[i].run].v \in Nat /\ log[i].v <= row[log[i].run].v
  BY Facts DEF IInv, Genuine
<1>2. i \in Cursors
  <2>1. i \in 1 .. Len(log) /\ Len(log) \in Cursors
    BY Facts
  <2> QED BY <2>1 DEF Cursors
<1> QED BY <1>1, <1>2 DEF Served, Items

LEMMA ReadOK ==
  ASSUME TypeInv, IInv, NEW t, TaskOK(t), t.at = "read", t.read < t.next
  PROVE  TaskOK([t EXCEPT !.read = @ + 1, !.items = Append(@, Served(t.read + 1))])
<1> DEFINE i == t.read + 1
           x == Served(i)
           u == [t EXCEPT !.read = i, !.items = Append(t.items, x)]
<1>1. /\ t \in Tasks /\ t.read \in Nat /\ t.next \in Nat /\ t.cursor \in Nat
      /\ t.items \in Seq(Items) /\ t.next <= Len(log) /\ HasLast(t.items)
  BY Types DEF TaskOK, Tasks
<1>2. i \in DOMAIN log /\ i \in Cursors /\ i <= t.next /\ t.cursor <= i /\ i > t.read
  <2>1. DOMAIN log = 1 .. Len(log) /\ Len(log) \in Cursors /\ t.cursor <= t.read
    BY Facts DEF TaskOK
  <2> QED BY <1>1, <2>1 DEF Cursors
<1>3. /\ x \in Items /\ x.run = log[i].run /\ x.row = row[log[i].run]
      /\ x.row.v >= log[i].v /\ x.row.v <= row[x.run].v
  BY <1>2, ServedIs
<1> HIDE DEF i, x
<1>4. /\ Append(t.items, x) \in Seq(Items) /\ Len(t.items) \in Nat
      /\ DOMAIN t.items = 1 .. Len(t.items)
      /\ DOMAIN Append(t.items, x) = 1 .. Len(t.items) + 1
      /\ Append(t.items, x)[Len(t.items) + 1] = x
      /\ \A k \in DOMAIN t.items : Append(t.items, x)[k] = t.items[k]
  BY <1>1, <1>3
<1>5. /\ u \in Tasks /\ u.at = "read" /\ u.cursor = t.cursor /\ u.next = t.next /\ u.read = i
      /\ u.items = Append(t.items, x)
  BY <1>1, <1>2, <1>4 DEF Tasks
<1> HIDE DEF u
<1>6. /\ HasLast(u.items) /\ Of(u.items, x.run) # {} /\ Last(u.items, x.run) = x.row
      /\ \A r \in Runs \ {x.run} :
           /\ Of(u.items, r) = Of(t.items, r)
           /\ Of(t.items, r) # {} => Last(u.items, r) = Last(t.items, r)
  BY <1>1, <1>3, <1>5, AppendLast
<1>7. ASSUME NEW k \in DOMAIN u.items PROVE u.items[k].row.v <= row[u.items[k].run].v
  <2>1. CASE k = Len(t.items) + 1
    BY <1>3, <1>4, <1>5, <2>1
  <2>2. CASE k # Len(t.items) + 1
    BY <1>4, <1>5, <2>2 DEF TaskOK
  <2> QED BY <2>1, <2>2
<1>8. ASSUME NEW j \in DOMAIN log, j <= i
      PROVE  \/ told[log[j].run] >= log[j].v
             \/ Of(u.items, log[j].run) # {} /\ Last(u.items, log[j].run).v >= log[j].v
  <2>1. log[j].run \in Runs /\ log[j].v \in Nat /\ log[j].v <= row[log[j].run].v
        /\ row[log[j].run].v \in Nat
    BY Facts DEF IInv, Genuine
  <2>2. CASE log[j].run = x.run
    BY <1>3, <1>6, <2>1, <2>2
  <2>3. CASE log[j].run # x.run
    <3>1. j # i
      BY <1>3, <2>3
    <3>2. j <= t.read
      BY <1>1, <1>8, <3>1, Facts DEF i
    <3>3. \/ told[log[j].run] >= log[j].v
          \/ Of(t.items, log[j].run) # {} /\ Last(t.items, log[j].run).v >= log[j].v
      BY <3>2 DEF TaskOK
    <3> QED BY <1>6, <2>1, <2>3, <3>3
  <2> QED BY <2>2, <2>3
<1>9. TaskOK(u)
  BY <1>1, <1>2, <1>5, <1>6, <1>7, <1>8 DEF TaskOK
<1>10. u = [t EXCEPT !.read = @ + 1, !.items = Append(@, Served(t.read + 1))]
  BY DEF u, x, i
<1> QED BY <1>9, <1>10

LEMMA TaskMoves ==
  ASSUME TypeInv, IInv,
         Render \/ StartCatchUp \/ ListChanges \/ ReadChange \/ AnswerChanges \/ FailCatchUp
  PROVE  (TypeInv /\ IInv)'
<1>0. /\ TypeOK /\ TaskOK(task) /\ StreamOK(stream)
      /\ synced \in Cursors /\ synced <= Len(log) /\ Covered(synced)
      /\ checkpoint \in Cursors /\ checkpoint <= Len(log) /\ Covered(checkpoint)
      /\ cache.cursor \in Cursors /\ cache.cursor <= Len(log) /\ Covered(cache.cursor)
  BY InOrder, Facts DEF TypeInv, IInv, Placed, Covers
<1>1. /\ UNCHANGED <<row, log, gap, tab, cache, fetch, failed, told, writes>>
      /\ gap' \in BOOLEAN /\ troubles' \in 0..MaxTroubles
  <2>1. UNCHANGED <<row, log, gap, tab, cache, fetch, failed, told, writes>>
    BY DEF Render, StartCatchUp, ListChanges, ReadChange, AnswerChanges, FailCatchUp, database, list
  <2>2. troubles' = troubles \/ Trouble
    BY DEF Render, StartCatchUp, ListChanges, ReadChange, AnswerChanges, FailCatchUp
  <2>3. gap \in BOOLEAN /\ troubles \in 0..MaxTroubles
    BY <1>0 DEF TypeOK
  <2>4. troubles' \in 0..MaxTroubles
    BY <2>2, <2>3 DEF Trouble
  <2> QED BY <2>1, <2>3, <2>4
<1>2. task \in Tasks /\ task.cursor \in Nat /\ task.read \in Nat /\ task.next \in Nat
      /\ task.pages \in 0..MaxPages /\ Len(log) \in Nat /\ Len(log) \in Cursors
  BY <1>0, Facts, Types DEF Tasks
<1>3. CASE Render
  <2>1. /\ synced' = cache.cursor /\ checkpoint' \in {cache.cursor, checkpoint}
        /\ task' = Started(checkpoint')
        /\ stream' = [NoStream EXCEPT !.cursor = Larger(cache.cursor, checkpoint')]
    BY <1>3 DEF Render
  <2>2. checkpoint' \in Cursors /\ checkpoint' <= Len(log) /\ Covered(checkpoint')
    BY <1>0, <2>1
  <2>3. Larger(cache.cursor, checkpoint') \in {cache.cursor, checkpoint'}
    BY DEF Larger
  <2>4. TaskOK(task') /\ StreamOK(stream')
    BY <1>0, <2>1, <2>2, <2>3, NewTask, NewStream
  <2> QED BY <1>0, <1>1, <2>1, <2>2, <2>4, MoveStep
<1>4. CASE StartCatchUp
  <2>1. task' = Started(checkpoint) /\ UNCHANGED <<checkpoint, synced, stream>>
    BY <1>4 DEF StartCatchUp
  <2>2. TaskOK(task')
    BY <1>0, <2>1, NewTask
  <2> QED BY <1>0, <1>1, <2>1, <2>2, MoveStep
<1>5. CASE ListChanges
  <2>1. PICK n \in task.cursor..Len(log) :
               task' = [task EXCEPT !.at = "read", !.next = n, !.pages = @ + 1]
    BY <1>5 DEF ListChanges
  <2>2. UNCHANGED <<checkpoint, synced, stream>> /\ task.at = "list"
    BY <1>5 DEF ListChanges
  <2>3. n \in Cursors /\ n <= Len(log) /\ task.read <= n /\ task.pages + 1 \in 0..MaxPages
    BY <1>0, <1>2, <2>2 DEF TaskOK, Cursors
  <2>4. /\ task' \in Tasks /\ task'.at = "read" /\ task'.next = n /\ task'.cursor = task.cursor
        /\ task'.read = task.read /\ task'.items = task.items
    BY <1>2, <2>1, <2>3 DEF Tasks
  <2>5. TaskOK(task')
    BY <1>0, <2>3, <2>4 DEF TaskOK
  <2> QED BY <1>0, <1>1, <2>2, <2>5, MoveStep
<1>6. CASE ReadChange
  <2>1. /\ task' = [task EXCEPT !.read = @ + 1, !.items = Append(@, Served(task.read + 1))]
        /\ task.at = "read" /\ task.read < task.next
        /\ UNCHANGED <<checkpoint, synced, stream>>
    BY <1>6 DEF ReadChange
  <2>2. TaskOK(task')
    BY <1>0, <2>1, ReadOK
  <2> QED BY <1>0, <1>1, <2>1, <2>2, MoveStep
<1>7. CASE AnswerChanges
  <2> DEFINE goes == IF task.next < task.cursor + Limit \/ task.pages = MaxPages
                       THEN "caughtUp" ELSE "list"
  <2>1. /\ task' = [task EXCEPT !.cursor = task.next, !.at = goes]
        /\ task.at = "read" /\ task.read = task.next
        /\ UNCHANGED <<checkpoint, synced, stream>>
    BY <1>7 DEF AnswerChanges
  <2>2. goes \in {"caughtUp", "list"} /\ (goes = "list" => task.pages < MaxPages)
    BY <1>2
  <2> HIDE DEF goes
  <2>3. /\ task' \in Tasks /\ task'.at = goes /\ task'.cursor = task.next /\ task'.read = task.next
        /\ task'.next = task.next /\ task'.items = task.items /\ task'.pages = task.pages
    BY <1>2, <2>1, <2>2 DEF Tasks
  <2>4. TaskOK(task')
    BY <1>0, <1>2, <2>1, <2>2, <2>3 DEF TaskOK
  <2> QED BY <1>0, <1>1, <2>1, <2>4, MoveStep
<1>8. CASE FailCatchUp
  <2>1. task' = NoTask /\ UNCHANGED <<checkpoint, synced, stream>>
    BY <1>8 DEF FailCatchUp
  <2>2. TaskOK(task')
    BY <1>0, <2>1, NewTask
  <2> QED BY <1>0, <1>1, <2>1, <2>2, MoveStep
<1> QED BY <1>3, <1>4, <1>5, <1>6, <1>7, <1>8


LEMMA SendOK ==
  ASSUME TypeInv, IInv, NEW s, StreamOK(s), s.at = "open", s.sent < Len(log)
  PROVE  StreamOK([s EXCEPT !.sent = @ + 1, !.pipe = Append(@, Served(s.sent + 1))])
<1> DEFINE i == s.sent + 1
           x == Served(i)
           u == [s EXCEPT !.sent = i, !.pipe = Append(s.pipe, x)]
<1>1. s \in Streams /\ s.sent \in Nat /\ s.cursor \in Nat /\ s.pipe \in Seq(Items)
  BY Types DEF StreamOK, Streams
<1>2. i \in DOMAIN log /\ i \in Cursors /\ i <= Len(log)
  <2>1. DOMAIN log = 1 .. Len(log) /\ Len(log) \in Cursors
    BY Facts
  <2> QED BY <1>1, <2>1 DEF Cursors
<1>3. /\ x \in Items /\ x.seq = i /\ x.run = log[i].run
      /\ log[i].v <= x.row.v /\ x.row.v <= row[x.run].v
  BY <1>2, ServedIs
<1>4. i = s.cursor + Len(s.pipe) + 1
  BY <1>1 DEF StreamOK
<1> HIDE DEF i, x
<1>5. /\ Append(s.pipe, x) \in Seq(Items) /\ Len(s.pipe) \in Nat
      /\ Len(Append(s.pipe, x)) = Len(s.pipe) + 1
      /\ DOMAIN s.pipe = 1 .. Len(s.pipe)
      /\ DOMAIN Append(s.pipe, x) = 1 .. Len(s.pipe) + 1
      /\ Append(s.pipe, x)[Len(s.pipe) + 1] = x
      /\ \A k \in DOMAIN s.pipe : Append(s.pipe, x)[k] = s.pipe[k]
  BY <1>1, <1>3
<1>6. /\ u \in Streams /\ u.at = "open" /\ u.cursor = s.cursor /\ u.sent = i
      /\ u.pipe = Append(s.pipe, x)
  BY <1>1, <1>2, <1>5 DEF Streams, StreamOK
<1> HIDE DEF u
<1>7. ASSUME NEW k \in DOMAIN u.pipe
      PROVE  /\ u.pipe[k].seq = u.cursor + k
             /\ u.pipe[k].run = log[u.pipe[k].seq].run
             /\ log[u.pipe[k].seq].v <= u.pipe[k].row.v
             /\ u.pipe[k].row.v <= row[u.pipe[k].run].v
  <2>1. CASE k = Len(s.pipe) + 1
    <3>1. u.pipe[k] = x
      BY <1>5, <1>6, <2>1
    <3>2. i = u.cursor + k
      BY <1>1, <1>4, <1>5, <1>6, <2>1
    <3> QED BY <1>3, <3>1, <3>2
  <2>2. CASE k # Len(s.pipe) + 1
    <3>1. k \in DOMAIN s.pipe /\ u.pipe[k] = s.pipe[k]
      BY <1>5, <1>6, <2>2
    <3> QED BY <1>6, <3>1 DEF StreamOK
  <2> QED BY <2>1, <2>2
<1>8. u.sent = u.cursor + Len(u.pipe)
  BY <1>1, <1>4, <1>5, <1>6
<1>9. StreamOK(u)
  BY <1>2, <1>6, <1>7, <1>8 DEF StreamOK
<1>10. u = [s EXCEPT !.sent = @ + 1, !.pipe = Append(@, Served(s.sent + 1))]
  BY DEF u, x, i
<1> QED BY <1>9, <1>10

LEMMA StreamMoves ==
  ASSUME TypeInv, IInv,
         Connect \/ Send \/ EndStream \/ BreakStream \/ Return \/ OpenRun \/ OpenDatabase
         \/ UNCHANGED vars
  PROVE  (TypeInv /\ IInv)'
<1>0. /\ TypeOK /\ TaskOK(task) /\ StreamOK(stream)
      /\ synced \in Cursors /\ synced <= Len(log) /\ Covered(synced)
      /\ checkpoint \in Cursors /\ checkpoint <= Len(log) /\ Covered(checkpoint)
  BY InOrder, Facts DEF TypeInv, IInv, Placed, Covers
<1>1. UNCHANGED <<row, log, tab, cache, failed, told, writes, checkpoint, synced, task>>
  BY DEF Connect, Send, EndStream, BreakStream, Return, OpenRun, OpenDatabase, database, list, vars
<1>2. gap' \in BOOLEAN /\ troubles' \in 0..MaxTroubles
  <2>1. gap \in BOOLEAN /\ troubles \in 0..MaxTroubles
    BY <1>0 DEF TypeOK
  <2>2. troubles' = troubles \/ Trouble
    BY DEF Connect, Send, EndStream, BreakStream, Return, OpenRun, OpenDatabase, vars
  <2>3. troubles' \in 0..MaxTroubles
    BY <2>1, <2>2 DEF Trouble
  <2>4. gap' = gap \/ gap' \in BOOLEAN
    BY DEF Connect, Send, EndStream, BreakStream, Return, OpenRun, OpenDatabase, database, vars
  <2> QED BY <2>1, <2>3, <2>4
<1>3. fetch' = fetch \/ fetch' = Invalidated
  BY DEF Connect, Send, EndStream, BreakStream, Return, OpenRun, OpenDatabase, list, vars
<1>4. /\ stream \in Streams /\ stream.cursor \in Cursors /\ stream.cursor <= Len(log)
      /\ Covered(stream.cursor) /\ stream.cursor \in Nat /\ stream.pipe \in Seq(Items)
  BY <1>0, Types DEF StreamOK, Streams
<1>5. StreamOK(stream')
  <2>1. CASE Connect
    <3>1. stream' = [stream EXCEPT !.at = "open", !.sent = stream.cursor, !.pipe = <<>>]
      BY <2>1 DEF Connect
    <3>2. /\ stream' \in Streams /\ stream'.at = "open" /\ stream'.cursor = stream.cursor
          /\ stream'.sent = stream.cursor /\ stream'.pipe = <<>>
      <4>1. <<>> \in Seq(Items)
        OBVIOUS
      <4> QED BY <1>4, <3>1, <4>1 DEF Streams
    <3>3. stream.cursor = stream.cursor + Len(<<>>)
      BY <1>4
    <3> QED BY <1>0, <1>4, <3>2, <3>3 DEF StreamOK
  <2>2. CASE Send
    BY <1>0, <2>2, SendOK DEF Send
  <2>3. CASE stream' = Closed
    BY <1>4, <2>3, NewStream DEF Closed
  <2>4. CASE OpenRun
    <3>1. stream' = [NoStream EXCEPT !.cursor = Larger(synced, checkpoint)]
      BY <2>4 DEF OpenRun
    <3>2. Larger(synced, checkpoint) \in {synced, checkpoint}
      BY DEF Larger
    <3> QED BY <1>0, <3>1, <3>2, NewStream
  <2>5. CASE UNCHANGED stream
    BY <1>0, <2>5
  <2> QED BY <2>1, <2>2, <2>3, <2>4, <2>5
          DEF EndStream, BreakStream, Return, OpenDatabase, vars
<1> QED
  BY <1>0, <1>1, <1>2, <1>3, <1>5, MoveStep


\* Changes that arrive: what their sender knows of the rows becomes known.
LEMMA ApplyStep ==
  ASSUME TypeInv, IInv,
         NEW items \in Seq(Items), HasLast(items), ApplyChanges(items),
         \A k \in DOMAIN items : items[k].row.v <= row[items[k].run].v,
         UNCHANGED <<row, log, gap, tab, synced, writes, troubles>>,
         checkpoint' \in Cursors, checkpoint' <= Len(log), Covered(checkpoint)',
         TaskOK(task'),
         stream' \in Streams, stream'.cursor <= Len(log), stream'.sent <= Len(log),
         stream'.at = "off" => stream'.pipe = <<>>,
         stream'.at = "open" => stream'.sent = stream'.cursor + Len(stream'.pipe),
         \A k \in DOMAIN stream'.pipe :
            /\ stream'.pipe[k].seq = stream'.cursor + k
            /\ stream'.pipe[k].run = log[stream'.pipe[k].seq].run
            /\ log[stream'.pipe[k].seq].v <= stream'.pipe[k].row.v
            /\ stream'.pipe[k].row.v <= row[stream'.pipe[k].run].v,
         Covered(stream.cursor)'
  PROVE  (TypeInv /\ IInv)'
<1>0. TypeOK /\ Placed /\ Genuine /\ Covers /\ PageInv
  BY DEF TypeInv, IInv
<1>1. /\ cache' \in [cursor : Cursors, rows : [Runs -> Cursors]] /\ cache'.cursor = cache.cursor
      /\ fetch' \in Fetches
      /\ fetch' = fetch \/ fetch' = Invalidated
      /\ items # <<>> /\ tab = "runs" => fetch' = Invalidated
      /\ told' \in [Runs -> Cursors]
      /\ items = <<>> => cache' = cache /\ fetch' = fetch /\ told' = told
      /\ failed' = failed
  BY <1>0, ApplyEffect
<1>2. ASSUME NEW r \in Runs PROVE told'[r] >= told[r] /\ told'[r] <= row[r].v /\ told'[r] \in Nat
  <2>1. /\ told'[r] >= told[r]
        /\ Of(items, r) = {} => told'[r] = told[r]
        /\ Of(items, r) # {} => told'[r] = told[r] \/ told'[r] = Last(items, r).v
    BY <1>0, ApplyEffect
  <2>2. told[r] <= row[r].v
    BY <1>0 DEF Genuine
  <2>3. Of(items, r) # {} => Last(items, r).v <= row[r].v
    BY LastType
  <2>4. told'[r] \in Nat
    BY <1>1, Types
  <2> QED BY <2>1, <2>2, <2>3, <2>4
<1>3. /\ Invalidated.at = "cursor" /\ Invalidated.cursor = 0 /\ Invalidated.rows = NoRows
      /\ 0 <= Len(log) /\ \A r \in Runs : Invalidated.rows[r].v <= row[r].v
  BY Facts, Types DEF NoFetch, Invalidated
<1>4. /\ fetch'.cursor <= Len(log) /\ (\A r \in Runs : fetch'.rows[r].v <= row[r].v)
      /\ (fetch'.at \in {"idle", "answered"} => fetch' = fetch)
  BY <1>0, <1>1, <1>3, Facts DEF Placed, Genuine
<1>5. TypeOK'
  BY <1>0, <1>1 DEF TypeOK, TaskOK, Fetches, Tasks, Streams
<1>6. Placed'
  <2>1. HasLast(task.items)'
    BY DEF TaskOK
  <2> QED BY <1>0, <1>1, <1>4, <2>1 DEF Placed, TaskOK
<1>7. Genuine'
  BY <1>0, <1>2, <1>4 DEF Genuine, TaskOK
<1>8. \A n : Covered(n) => \A i \in DOMAIN log : i <= n => told'[log[i].run] >= log[i].v
  <2> SUFFICES ASSUME NEW n, Covered(n), NEW i \in DOMAIN log, i <= n
               PROVE  told'[log[i].run] >= log[i].v
    OBVIOUS
  <2>1. /\ told[log[i].run] >= log[i].v /\ log[i].run \in Runs /\ log[i].v \in Nat
        /\ told[log[i].run] \in Nat
    BY Facts DEF Covered
  <2> QED BY <1>2, <2>1
<1>9. Covers'
  <2>1. TaskCovers'
    <3> SUFFICES ASSUME NEW i \in DOMAIN log, i <= task'.read
                 PROVE  \/ told'[log[i].run] >= log[i].v
                        \/ /\ Of(task'.items, log[i].run) # {}
                           /\ Last(task'.items, log[i].run).v >= log[i].v
      BY DEF TaskCovers
    <3>1. log[i].run \in Runs /\ log[i].v \in Nat /\ told[log[i].run] \in Nat
      BY Facts
    <3> QED BY <1>2, <3>1 DEF TaskOK
  <2>2. Covered(cache.cursor)' /\ Covered(synced)'
    BY <1>0, <1>1, <1>8 DEF Covers, Covered
  <2>3. fetch'.at = "answered" =>
          \A i \in DOMAIN log : i <= fetch'.cursor => fetch'.rows[log[i].run].v >= log[i].v
    BY <1>0, <1>4 DEF Covers
  <2> QED BY <2>1, <2>2, <2>3 DEF Covers
<1>10. PageInv'
  <2>1. CASE items = <<>>
    BY <1>0, <1>1, <2>1 DEF PageInv, PageIsCurrent
  <2>2. CASE items # <<>>
    BY <1>1, <1>3, <2>2 DEF PageInv, PageIsCurrent
  <2> QED BY <2>1, <2>2
<1> QED BY <1>5, <1>6, <1>7, <1>9, <1>10 DEF TypeInv, IInv

LEMMA CatchUpStep ==
  ASSUME TypeInv, IInv, ApplyCatchUp
  PROVE  (TypeInv /\ IInv)'
<1>1. TypeOK /\ TaskOK(task) /\ StreamOK(stream) /\ Covers
  BY InOrder DEF TypeInv, IInv
<1>2. /\ task.at = "caughtUp" /\ ApplyChanges(task.items)
      /\ checkpoint' = task.cursor /\ task' = NoTask
      /\ UNCHANGED <<row, log, gap, tab, synced, stream, writes, troubles>>
  BY DEF ApplyCatchUp, database
<1>3. task.items \in Seq(Items) /\ HasLast(task.items) /\ task.cursor \in Cursors
      /\ task.cursor <= Len(log) /\ task.read = task.cursor
      /\ \A k \in DOMAIN task.items : task.items[k].row.v <= row[task.items[k].run].v
  <2>1. task \in Tasks /\ task.read \in Nat /\ task.next \in Nat /\ task.cursor \in Nat
        /\ Len(log) \in Nat
    BY <1>1, Facts, Types DEF TaskOK, Tasks
  <2>2. task.items \in Seq(Items) /\ task.cursor \in Cursors
    BY <2>1 DEF Tasks
  <2>3. /\ HasLast(task.items) /\ task.read = task.cursor
        /\ task.read <= task.next /\ task.next <= Len(log)
    BY <1>1, <1>2 DEF TaskOK
  <2>4. \A k \in DOMAIN task.items : task.items[k].row.v <= row[task.items[k].run].v
    BY <1>1 DEF TaskOK
  <2>5. task.cursor <= Len(log)
    BY <2>1, <2>3
  <2> QED BY <2>2, <2>3, <2>4, <2>5
<1>4. ASSUME NEW r \in Runs
      PROVE  /\ told'[r] >= told[r] /\ told'[r] \in Nat /\ told[r] \in Nat
             /\ Of(task.items, r) # {} => /\ told'[r] >= Last(task.items, r).v
                                          /\ Last(task.items, r).v \in Nat
  <2>1. /\ told'[r] >= told[r] /\ told' \in [Runs -> Cursors]
        /\ Of(task.items, r) # {} => told'[r] >= Last(task.items, r).v
    BY <1>1, <1>2, <1>3, ApplyEffect
  <2>2. Of(task.items, r) # {} => Last(task.items, r) \in Rows
    BY <1>3, LastType
  <2> QED BY <2>1, <2>2, Facts, Types DEF Rows
<1>5. Covered(checkpoint)'
  <2> SUFFICES ASSUME NEW i \in DOMAIN log, i <= task.read PROVE told'[log[i].run] >= log[i].v
    BY <1>2, <1>3 DEF Covered
  <2>1. /\ log[i].run \in Runs /\ log[i].v \in Nat
        /\ \/ told[log[i].run] >= log[i].v
           \/ /\ Of(task.items, log[i].run) # {}
              /\ Last(task.items, log[i].run).v >= log[i].v
    BY <1>1, Facts DEF TaskOK
  <2> QED BY <1>4, <2>1
<1>6. Covered(stream.cursor)'
  <2> SUFFICES ASSUME NEW i \in DOMAIN log, i <= stream.cursor PROVE told'[log[i].run] >= log[i].v
    BY <1>2 DEF Covered
  <2>1. log[i].run \in Runs /\ log[i].v \in Nat /\ told[log[i].run] >= log[i].v
    BY <1>1, Facts DEF Covers, Covered
  <2> QED BY <1>4, <2>1
<1>7. TaskOK(task')
  <2>1. 0 \in Cursors /\ 0 <= Len(log) /\ Covered(0)
    BY Facts, Types DEF Covered
  <2> QED BY <1>2, <2>1, NewTask
<1> QED BY <1>1, <1>2, <1>3, <1>5, <1>6, <1>7, ApplyStep DEF StreamOK

\* What is left in the pipe when its first item is taken.
LEMMA TailOK ==
  ASSUME TypeInv, IInv, stream.at = "open", stream.pipe # <<>>
  PROVE  LET x == Head(stream.pipe)
             s == [stream EXCEPT !.pipe = Tail(@), !.cursor = x.seq] IN
         /\ x \in Items /\ x.seq = stream.cursor + 1 /\ x.seq \in Cursors /\ x.seq <= Len(log)
         /\ x.seq \in DOMAIN log /\ x.run = log[x.seq].run
         /\ log[x.seq].v <= x.row.v /\ x.row.v <= row[x.run].v /\ x.row.v \in Nat
         /\ s \in Streams /\ s.cursor = x.seq /\ s.sent = stream.sent /\ s.at = "open"
         /\ s.sent = s.cursor + Len(s.pipe)
         /\ \A k \in DOMAIN s.pipe :
              /\ s.pipe[k].seq = s.cursor + k
              /\ s.pipe[k].run = log[s.pipe[k].seq].run
              /\ log[s.pipe[k].seq].v <= s.pipe[k].row.v
              /\ s.pipe[k].row.v <= row[s.pipe[k].run].v
<1> DEFINE pipe == stream.pipe
           x    == Head(pipe)
           rest == Tail(pipe)
           s    == [stream EXCEPT !.pipe = rest, !.cursor = x.seq]
<1>1. StreamOK(stream) /\ stream \in Streams
  BY InOrder DEF StreamOK
<1>2. pipe \in Seq(Items) /\ pipe # <<>> /\ stream.cursor \in Nat /\ stream.sent \in Nat
  BY <1>1, Types DEF Streams
<1>3. DOMAIN log = 1 .. Len(log) /\ Len(log) \in Nat
  BY Facts
<1>4. /\ stream.sent <= Len(log) /\ stream.sent = stream.cursor + Len(pipe)
      /\ \A k \in DOMAIN pipe :
           /\ pipe[k].seq = stream.cursor + k
           /\ pipe[k].run = log[pipe[k].seq].run
           /\ log[pipe[k].seq].v <= pipe[k].row.v
           /\ pipe[k].row.v <= row[pipe[k].run].v
  BY <1>1 DEF StreamOK
<1> HIDE DEF pipe
<1>5. /\ DOMAIN pipe = 1 .. Len(pipe) /\ Len(pipe) \in Nat /\ Len(pipe) >= 1
      /\ x = pipe[1] /\ x \in Items
      /\ rest \in Seq(Items) /\ Len(rest) = Len(pipe) - 1
      /\ DOMAIN rest = 1 .. Len(pipe) - 1
      /\ \A k \in 1 .. Len(pipe) - 1 : rest[k] = pipe[k + 1]
  BY <1>2
<1> HIDE DEF x, rest
<1>6. /\ x.seq = stream.cursor + 1 /\ x.run = log[x.seq].run
      /\ log[x.seq].v <= x.row.v /\ x.row.v <= row[x.run].v
  <2>1. 1 \in DOMAIN pipe
    BY <1>5
  <2> QED BY <1>4, <1>5, <2>1
<1>7. x.seq \in Cursors /\ x.row.v \in Nat
  BY <1>5, Types DEF Items, Rows
<1>8. x.seq <= Len(log) /\ x.seq \in DOMAIN log
  BY <1>2, <1>3, <1>4, <1>5, <1>6
<1>9. /\ s \in Streams /\ s.cursor = x.seq /\ s.sent = stream.sent /\ s.at = "open"
      /\ s.pipe = rest
  BY <1>1, <1>5, <1>7 DEF Streams
<1>10. s = [stream EXCEPT !.pipe = Tail(@), !.cursor = x.seq]
  BY DEF rest, pipe
<1> HIDE DEF s
<1>11. s.sent = s.cursor + Len(s.pipe)
  <2>1. s.sent = stream.cursor + Len(pipe) /\ s.cursor = stream.cursor + 1
    BY <1>4, <1>6, <1>9
  <2>2. Len(s.pipe) = Len(pipe) - 1 /\ Len(pipe) \in Nat
    BY <1>5, <1>9
  <2> QED BY <1>2, <2>1, <2>2
<1>12. ASSUME NEW k \in DOMAIN s.pipe
       PROVE  /\ s.pipe[k].seq = s.cursor + k
              /\ s.pipe[k].run = log[s.pipe[k].seq].run
              /\ log[s.pipe[k].seq].v <= s.pipe[k].row.v
              /\ s.pipe[k].row.v <= row[s.pipe[k].run].v
  <2>1. k \in 1 .. Len(pipe) - 1 /\ s.pipe[k] = pipe[k + 1] /\ k + 1 \in DOMAIN pipe
    BY <1>5, <1>9
  <2>2. pipe[k + 1].seq = s.cursor + k
    <3>1. pipe[k + 1].seq = stream.cursor + (k + 1) /\ s.cursor = stream.cursor + 1
      BY <1>4, <1>6, <1>9, <2>1
    <3> QED BY <1>2, <2>1, <3>1
  <2> QED BY <1>4, <2>1, <2>2
<1> QED BY <1>5, <1>6, <1>7, <1>8, <1>9, <1>10, <1>11, <1>12 DEF x, pipe

LEMMA ReceiveStep ==
  ASSUME TypeInv, IInv, Receive
  PROVE  (TypeInv /\ IInv)'
<1> DEFINE x == Head(stream.pipe)
<1>1. TypeOK /\ TaskOK(task) /\ StreamOK(stream) /\ Covers
  BY InOrder DEF TypeInv, IInv
<1>2. stream.at = "open" /\ stream.pipe # <<>> /\ stream.cursor \in Nat /\ Len(log) \in Nat
  BY <1>1, Facts, Types DEF Receive, StreamOK, Streams
<1>3. /\ x \in Items /\ x.seq = stream.cursor + 1 /\ x.seq \in Cursors /\ x.seq <= Len(log)
      /\ x.seq \in DOMAIN log /\ x.run = log[x.seq].run /\ x.run \in Runs
      /\ log[x.seq].v <= x.row.v /\ x.row.v <= row[x.run].v /\ x.row.v \in Nat
  <2>1. /\ x \in Items /\ x.seq = stream.cursor + 1 /\ x.seq \in Cursors /\ x.seq <= Len(log)
        /\ x.seq \in DOMAIN log /\ x.run = log[x.seq].run
        /\ log[x.seq].v <= x.row.v /\ x.row.v <= row[x.run].v /\ x.row.v \in Nat
    BY <1>2, TailOK
  <2>2. x.run \in Runs
    BY <2>1 DEF Items
  <2> QED BY <2>1, <2>2
<1>4. /\ stream' = [stream EXCEPT !.pipe = Tail(@), !.cursor = x.seq]
      /\ checkpoint' = Larger(checkpoint, x.seq) /\ ApplyChanges(<<x>>)
      /\ UNCHANGED <<row, log, gap, tab, synced, task, writes, troubles>>
  <2>1. ~(x.seq <= stream.cursor)
    BY <1>2, <1>3
  <2> QED BY <2>1 DEF Receive, database
<1>5. /\ stream' \in Streams /\ stream'.cursor = x.seq /\ stream'.sent = stream.sent
      /\ stream'.at = "open" /\ stream'.sent = stream'.cursor + Len(stream'.pipe)
      /\ \A k \in DOMAIN stream'.pipe :
           /\ stream'.pipe[k].seq = stream'.cursor + k
           /\ stream'.pipe[k].run = log[stream'.pipe[k].seq].run
           /\ log[stream'.pipe[k].seq].v <= stream'.pipe[k].row.v
           /\ stream'.pipe[k].row.v <= row[stream'.pipe[k].run].v
  BY <1>2, <1>4, TailOK
<1> HIDE DEF x
<1>6. /\ <<x>> \in Seq(Items) /\ HasLast(<<x>>)
      /\ Of(<<x>>, x.run) # {} /\ Last(<<x>>, x.run) = x.row
  BY <1>3, OneLast
<1>7. ASSUME NEW r \in Runs PROVE told'[r] >= told[r] /\ told'[r] \in Nat /\ told[r] \in Nat
  <2>1. told'[r] >= told[r] /\ told' \in [Runs -> Cursors]
    BY <1>1, <1>4, <1>6, ApplyEffect
  <2> QED BY <2>1, Facts, Types
<1>8. told'[x.run] >= x.row.v
  <2>1. Of(<<x>>, x.run) # {} => told'[x.run] >= Last(<<x>>, x.run).v
    BY <1>1, <1>3, <1>4, <1>6, ApplyEffect
  <2> QED BY <1>6, <2>1
<1>9. ASSUME NEW n, Covered(n), NEW i \in DOMAIN log, i <= n
      PROVE  told'[log[i].run] >= log[i].v
  <2>1. log[i].run \in Runs /\ log[i].v \in Nat /\ told[log[i].run] >= log[i].v
    BY <1>9, Facts DEF Covered
  <2> QED BY <1>7, <2>1
<1>10. ASSUME NEW i \in DOMAIN log, i <= x.seq PROVE told'[log[i].run] >= log[i].v
  <2>1. i \in Nat /\ log[i].v \in Nat
    BY Facts
  <2>2. CASE i = x.seq
    <3>1. log[i].v <= x.row.v /\ log[i].run = x.run
      BY <1>3, <2>2
    <3> QED BY <1>3, <1>7, <1>8, <2>1, <3>1
  <2>3. CASE i # x.seq
    <3>1. i <= stream.cursor
      BY <1>2, <1>3, <1>10, <2>1, <2>3
    <3>2. Covered(stream.cursor)
      BY <1>1 DEF Covers
    <3> QED BY <1>9, <3>1, <3>2
  <2> QED BY <2>2, <2>3
<1>11. Covered(stream.cursor)'
  BY <1>4, <1>5, <1>10 DEF Covered
<1>12. checkpoint' \in Cursors /\ checkpoint' <= Len(log) /\ Covered(checkpoint)'
  <2>1. checkpoint' \in {checkpoint, x.seq}
    BY <1>4 DEF Larger
  <2>2. checkpoint \in Cursors /\ checkpoint <= Len(log)
    BY Facts DEF TypeInv, Placed
  <2>3. \A i \in DOMAIN log : i <= checkpoint => told'[log[i].run] >= log[i].v
    BY <1>1, <1>9 DEF Covers
  <2>4. \A i \in DOMAIN log : i <= checkpoint' => told'[log[i].run] >= log[i].v
    BY <1>10, <2>1, <2>3
  <2> QED BY <1>3, <1>4, <2>1, <2>2, <2>4 DEF Covered
<1>13. \A k \in DOMAIN <<x>> : <<x>>[k].row.v <= row[<<x>>[k].run].v
  BY <1>3
<1>14. TaskOK(task') /\ stream'.cursor <= Len(log) /\ stream'.sent <= Len(log)
  BY <1>1, <1>3, <1>4, <1>5 DEF StreamOK
<1> QED BY <1>4, <1>5, <1>6, <1>11, <1>12, <1>13, <1>14, ApplyStep

LEMMA InvStep == TypeInv /\ IInv /\ [Next]_vars => (TypeInv /\ IInv)'
<1> SUFFICES ASSUME TypeInv, IInv, [Next]_vars PROVE (TypeInv /\ IInv)'
  OBVIOUS
<1>1. CASE \E r \in Runs : Write(r)
  BY <1>1, WriteStep
<1>2. CASE ListStep \/ FailFetch
  BY <1>2, FetchStep DEF ListStep
<1>3. CASE Render \/ StartCatchUp \/ ListChanges \/ ReadChange \/ AnswerChanges \/ FailCatchUp
  BY <1>3, TaskMoves
<1>4. CASE ApplyCatchUp
  BY <1>4, CatchUpStep
<1>5. CASE Receive
  BY <1>5, ReceiveStep
<1>6. CASE \/ Connect \/ Send \/ EndStream \/ BreakStream \/ Return \/ OpenRun \/ OpenDatabase
           \/ UNCHANGED vars
  BY <1>6, StreamMoves
<1> QED BY <1>1, <1>2, <1>3, <1>4, <1>5, <1>6 DEF Next, TaskStep, StreamStep

-----------------------------------------------------------------------------

LEMMA InvCorrect == Spec => [](TypeInv /\ IInv)
BY InitInv, InvStep, PTL DEF Spec

\* The variables have their types, for any runs, page sizes and bounds.
THEOREM TypeCorrect == Spec => []TypeOK
<1>1. TypeInv /\ IInv => TypeOK
  BY DEF TypeInv
<1> QED BY <1>1, InvCorrect, PTL

\* No cursor of the browser passes a recorded change that it was not told of,
\* whatever the order in which lists, catch-ups and the stream arrive and break.
THEOREM SkippedCorrect == Spec => []NoChangeSkipped
<1>1. TypeInv /\ IInv => NoChangeSkipped
  <2> SUFFICES ASSUME TypeInv, IInv, NEW i \in DOMAIN log,
                      i <= Larger(Larger(checkpoint, synced), stream.cursor)
               PROVE  told[log[i].run] >= log[i].v
    BY DEF NoChangeSkipped
  <2>1. Larger(Larger(checkpoint, synced), stream.cursor)
          \in {checkpoint, synced, stream.cursor}
    BY DEF Larger
  <2> QED BY <2>1 DEF IInv, Covers, Covered
<1> QED BY <1>1, InvCorrect, PTL

\* With no request under way or failed, the page of runs shows no run older than
\* the browser was told of.
THEOREM PageCorrect == Spec => []PageIsCurrent
<1>1. TypeInv /\ IInv => PageIsCurrent
  BY DEF IInv, PageInv
<1> QED BY <1>1, InvCorrect, PTL
=============================================================================
