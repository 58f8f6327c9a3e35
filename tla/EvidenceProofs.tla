---------------------------- MODULE EvidenceProofs ----------------------------
(***************************************************************************)
(* Theorems about EvidenceMaps, for any maps, patches, reviewers, agents   *)
(* and requests.  The argument: the graph of a map changes only with its   *)
(* revision (Evolves), so that what a review or a layout save has found    *)
(* out about the graph is still true when the revision is the one it was   *)
(* found out at (Savers, Reviewers).  From it follow the history, the      *)
(* safety of a replay, the refinement of the ledger, that every graph is   *)
(* valid, and the types.                                                   *)
(***************************************************************************)
EXTENDS EvidenceMaps, FiniteSetTheorems, TLAPS

IsSeq(s) == Len(s) \in Nat /\ s = [k \in 1 .. Len(s) |-> s[k]]

Created(m) == map[m].status # "none"

Status == {"none", "active", "archived", "purged"}

MapRow == [status : Status, role : {"primary", "secondary", "archive"}, rev : 0 .. MaxRev]

MapType == map \in [Map -> MapRow]

History ==
  /\ DOMAIN graph = Map /\ DOMAIN revisions = Map
  /\ \A m \in Map : IsSeq(revisions[m]) /\ (~ Created(m) => map[m].rev = 0)
  /\ HistoryIsTrue

Rows ==
  /\ item \in [Item -> Row]
  /\ \A i \in Item : item[i].state \in {"pending", "accepted"} => item[i].map \in Map
  /\ \A i \in Proposal :
       /\ item[i].state = "none" => item[i] = NoItem
       /\ item[i].state # "none" => item[i].patch \in Patches
       /\ item[i].map # None => Exists(item[i].map) /\ item[i].base <= map[item[i].map].rev

(* What the requests hold, given the rows of the maps (mp), the graphs     *)
(* (gr), the revisions (rv) and the items (it).                            *)
Live(mp, m) == mp[m].status \in {"active", "archived"}

AgentHolds(v, mp) ==
  /\ v.at = "checked" =>
       /\ v.map \in Map \cup {None} /\ v.base \in 0 .. MaxRev /\ v.patch \in Patches
       /\ v.map # None => mp[v.map].status # "none" /\ (Live(mp, v.map) => v.base <= mp[v.map].rev)
  /\ v.at = "replay" => v.map \in Map /\ v.patch \in Patches
  /\ v.at = "submit" => /\ v.card \in Card /\ v.map \in Map
                        /\ v.base \in 0 .. MaxRev /\ v.patch \in Patches

Agents == DOMAIN agent = Agent /\ \A a \in Agent : AgentHolds(agent[a], map)

SaverHolds(v, mp, gr) ==
  v.at = "checked" =>
    /\ v.map \in Map /\ v.rev \in Nat /\ mp[v.map].status # "none"
    /\ Live(mp, v.map) => /\ v.rev <= mp[v.map].rev
                          /\ mp[v.map].rev = v.rev => v.graph = gr[v.map]

Savers == DOMAIN saver = Saver /\ \A s \in Saver : SaverHolds(saver[s], map, graph)

Tracks(x, y) == x.state # "none" /\ x.map = y.map /\ x.base = y.base /\ x.patch = y.patch

RowHeld(v, it) ==
  /\ v.item \in Item /\ v.row \in Row /\ v.row.map \in Map
  /\ v.item \in Proposal => Tracks(it[v.item], v.row)

PlanHeld(v, it, mp) ==
  /\ v.plan \in Row /\ v.plan.map \in Map /\ v.rev \in Nat
  /\ v.item \in Proposal => Tracks(it[v.item], v.plan) /\ v.rev <= mp[v.plan.map].rev

Base(rv, w) == IF w.base = 0 THEN EmptyGraph ELSE rv[w.map][w.base]

Safe(w, rev, now, base) ==
  /\ w.base # rev => RebaseSafe(base, now, w.patch)
  /\ ValidGraph(Merge(now, w.patch))
  /\ Eligible(now, Merge(now, w.patch), w.patch)
  /\ ThreadContract(now, Merge(now, w.patch), w.patch)

SafeHeld(v, mp, gr, rv) ==
  /\ v.rev \in Nat
  /\ v.item \in Proposal =>
       /\ v.rev <= mp[v.row.map].rev
       /\ mp[v.row.map].rev = v.rev => Safe(v.row, v.rev, gr[v.row.map], Base(rv, v.row))

MergeHeld(v, mp, gr) ==
  v.item \in Proposal /\ mp[v.row.map].rev = v.rev => v.graph = Merge(gr[v.row.map], v.row.patch)

ReviewerHolds(v, mp, gr, rv, it) ==
  /\ v.at \in {"read", "planning", "planned", "merged"} => RowHeld(v, it)
  /\ v.at = "planning" => PlanHeld(v, it, mp)
  /\ v.at \in {"planned", "merged"} => SafeHeld(v, mp, gr, rv)
  /\ v.at = "merged" => MergeHeld(v, mp, gr)

Reviewers ==
  /\ DOMAIN reviewer = Reviewer
  /\ \A r \in Reviewer : ReviewerHolds(reviewer[r], map, graph, revisions, item)

IInv == MapType /\ History /\ Rows /\ Agents /\ Savers /\ Reviewers

(* What a step may do to a map. *)
ExistsNext(m) == map'[m].status \in {"active", "archived"}

Evolves(m) ==
  /\ Created(m) => map'[m].status # "none"
  /\ ExistsNext(m) => Exists(m) \/ ~ Created(m)
  /\ \/ /\ map'[m].rev = map[m].rev /\ graph'[m] = graph[m] /\ revisions'[m] = revisions[m]
        /\ Exists(m) => ExistsNext(m)
     \/ /\ Exists(m) /\ ExistsNext(m) /\ map'[m].rev = map[m].rev + 1
        /\ revisions'[m] = Append(revisions[m], graph'[m])
     \/ /\ ~ ExistsNext(m) /\ Created(m) /\ \A i \in Proposal : item[i].map # m
        /\ map'[m].rev = 0 /\ graph'[m] = EmptyGraph /\ revisions'[m] = << >> /\ item' = item

MapsOK == MapType /\ DOMAIN graph = Map /\ DOMAIN revisions = Map

(* The proposals that exist keep their content, whatever happens to their  *)
(* state.                                                                  *)
RowsKept == \A i \in Proposal : item[i].state # "none" => Tracks(item'[i], item[i])

----------------------------------------------------------------------------
LEMMA SeqIsSeq == ASSUME NEW X, NEW s \in Seq(X) PROVE IsSeq(s)
BY DEF IsSeq

LEMMA AppendFacts ==
  ASSUME NEW s, NEW g, IsSeq(s)
  PROVE  /\ IsSeq(Append(s, g)) /\ Len(Append(s, g)) = Len(s) + 1
         /\ Append(s, g)[Len(s) + 1] = g
         /\ \A k \in 1 .. Len(s) : Append(s, g)[k] = s[k]
<1> DEFINE X == {s[k] : k \in 1 .. Len(s)} \cup {g}
<1>1. s \in Seq(X) /\ g \in X
  BY DEF IsSeq
<1>. HIDE DEF X
<1>2. IsSeq(Append(s, g))
  <2>1. Append(s, g) \in Seq(X)
    BY <1>1
  <2>. QED
    BY <2>1, SeqIsSeq
<1>3. Len(Append(s, g)) = Len(s) + 1 /\ Append(s, g)[Len(s) + 1] = g
  BY <1>1
<1>4. ASSUME NEW k \in 1 .. Len(s) PROVE Append(s, g)[k] = s[k]
  BY <1>1
<1>. QED
  BY <1>2, <1>3, <1>4

LEMMA EmptyIsSeq == IsSeq(<< >>)
BY DEF IsSeq

LEMMA UnchangedEvolves ==
  ASSUME MapsOK, UNCHANGED <<map, graph, revisions>>
  PROVE  MapsOK' /\ \A m \in Map : Evolves(m)
BY DEF MapsOK, MapType, MapRow, Evolves, ExistsNext, Exists, Created

LEMMA CountedRow ==
  ASSUME NEW w \in MapRow, w.rev < MaxRev
  PROVE  [w EXCEPT !.rev = @ + 1] \in MapRow
<1>1. w.rev + 1 \in 0 .. MaxRev
  BY MapsAssumption DEF MapRow
<1>. QED
  BY <1>1 DEF MapRow

LEMMA ReplaceEvolves ==
  ASSUME MapsOK, NEW m \in Map, NEW g, NEW places, Active(m), Replace(m, g, places)
  PROVE  MapsOK' /\ \A k \in Map : Evolves(k)
<1>1. CASE g = graph[m]
  BY <1>1 DEF MapsOK, MapType, MapRow, Evolves, ExistsNext, Exists, Created, Replace
<1>2. CASE g # graph[m]
  <2>1. /\ map[m].rev < MaxRev /\ map' = [map EXCEPT ![m].rev = @ + 1]
        /\ graph' = [graph EXCEPT ![m] = g] /\ revisions' = [revisions EXCEPT ![m] = Append(@, g)]
    BY <1>2 DEF Replace
  <2>2. map'[m] = [map[m] EXCEPT !.rev = @ + 1] /\ \A k \in Map \ {m} : map'[k] = map[k]
    BY <2>1 DEF MapsOK, MapType, MapRow
  <2>3. MapsOK'
    <3>1. map[m] \in MapRow
      BY DEF MapsOK, MapType
    <3>2. map' = [map EXCEPT ![m] = [map[m] EXCEPT !.rev = @ + 1]]
      BY <2>1
    <3>. QED
      BY <2>1, <3>1, <3>2, CountedRow DEF MapsOK, MapType
  <2>4. Evolves(m)
    BY <2>1, <2>2 DEF MapsOK, MapType, MapRow, Evolves, ExistsNext, Exists, Created, Active
  <2>5. ASSUME NEW k \in Map \ {m} PROVE Evolves(k)
    BY <2>1, <2>2 DEF MapsOK, MapType, MapRow, Evolves, ExistsNext, Exists, Created
  <2>. QED
    BY <2>3, <2>4, <2>5
<1>. QED
  BY <1>1, <1>2

(* Creating and administrating maps changes nothing but status and role.   *)
LEMMA UpdateEvolves ==
  ASSUME MapsOK, NEW m \in Map, NEW row \in MapRow,
         row.status \in {"active", "archived"}, map' = [map EXCEPT ![m] = row],
         Exists(m) \/ ~ Created(m), row.rev = map[m].rev, UNCHANGED <<graph, revisions>>
  PROVE  MapsOK' /\ \A k \in Map : Evolves(k)
BY DEF MapsOK, MapType, MapRow, Evolves, ExistsNext, Exists, Created, Status

LEMMA AdminEvolves ==
  ASSUME MapsOK, NEW m \in Map, Exists(m), NEW role \in {"primary", "secondary", "archive"},
         NEW st \in {"active", "archived"}, map' = [map EXCEPT ![m].role = role, ![m].status = st],
         UNCHANGED <<graph, revisions>>
  PROVE  MapsOK' /\ \A k \in Map : Evolves(k)
<1> DEFINE new == [map[m] EXCEPT !.role = role, !.status = st]
<1>1. map' = [map EXCEPT ![m] = new]
  BY DEF MapsOK, MapType, MapRow
<1>2. /\ new \in MapRow
      /\ new.status = st /\ new.rev = map[m].rev
  BY DEF MapsOK, MapType, MapRow, Status
<1>. HIDE DEF new
<1>. QED
  BY <1>1, <1>2, UpdateEvolves

LEMMA PurgeEvolves ==
  ASSUME MapsOK, NEW m \in Map, Purge(m)
  PROVE  MapsOK' /\ \A k \in Map : Evolves(k)
<1>1. [status |-> "purged", role |-> "secondary", rev |-> 0]
        \in MapRow
  BY MapsAssumption DEF Status, MapRow
<1>2. MapsOK'
  BY <1>1 DEF MapsOK, MapType, Purge
<1>3. Evolves(m)
  BY DEF MapsOK, MapType, MapRow, Evolves, ExistsNext, Exists, Created, Purge, Purgeable
<1>4. ASSUME NEW k \in Map \ {m} PROVE Evolves(k)
  BY DEF MapsOK, MapType, MapRow, Evolves, ExistsNext, Exists, Created, Purge
<1>. QED
  BY <1>2, <1>3, <1>4

LEMMA CreateEvolves ==
  ASSUME MapsOK, History, NEW m \in Map, NEW role \in {"primary", "secondary"}, CreateMap(m, role)
  PROVE  MapsOK' /\ \A k \in Map : Evolves(k)
<1>1. ~ Created(m) /\ map[m].rev = 0
  BY DEF CreateMap, Created, History
<1>2. [status |-> "active", role |-> role, rev |-> 0] \in MapRow
  BY MapsAssumption DEF Status, MapRow
<1>. QED
  BY <1>1, <1>2, UpdateEvolves DEF CreateMap

(* Every step is one of these. *)
LEMMA StepEvolves ==
  ASSUME IInv, [Next]_vars
  PROVE  MapsOK' /\ \A k \in Map : Evolves(k)
<1>0. MapsOK /\ History
  BY DEF IInv, History, MapsOK
<1>1. CASE UNCHANGED <<map, graph, revisions>>
  BY <1>0, <1>1, UnchangedEvolves
<1>2. ASSUME NEW m \in Map, MapStep(m) PROVE MapsOK' /\ \A k \in Map : Evolves(k)
  <2>1. CASE \E role \in {"primary", "secondary"} : CreateMap(m, role)
    BY <1>0, <2>1, CreateEvolves
  <2>2. CASE Purge(m)
    BY <1>0, <2>2, PurgeEvolves
  <2>3. CASE \E d \in Admin : AdminRead(d, m)
    BY <1>1, <2>3 DEF AdminRead
  <2>. QED
    BY <1>2, <2>1, <2>2, <2>3 DEF MapStep
<1>3. ASSUME NEW d \in Admin, AdminStep(d) PROVE MapsOK' /\ \A k \in Map : Evolves(k)
  <2> DEFINE m == admin[d].map
  <2>1. /\ UNCHANGED <<graph, revisions>>
        /\ \/ map' = map
           \/ /\ Exists(m)
              /\ \E role \in {"primary", "secondary", "archive"}, st \in {"active", "archived"} :
                   map' = [map EXCEPT ![m].role = role, ![m].status = st]
    BY <1>3 DEF AdminStep, AdminUpdate, AdminArchive
  <2>. HIDE DEF m
  <2>2. CASE m \in Map
    BY <1>0, <1>1, <2>1, <2>2, AdminEvolves
  <2>3. CASE m \notin Map
    <3>1. map' = map
      BY <1>0, <2>1, <2>3 DEF MapsOK, MapType, MapRow
    <3>. QED
      BY <1>1, <2>1, <3>1
  <2>. QED
    BY <2>2, <2>3
<1>4. ASSUME NEW s \in Saver, SaverStep(s) PROVE MapsOK' /\ \A k \in Map : Evolves(k)
  <2>1. CASE LayoutCommit(s)
    <3>1. saver[s].map \in Map /\ Active(saver[s].map)
      BY <2>1 DEF IInv, Savers, SaverHolds, LayoutCommit, Replaceable
    <3>. QED
      BY <1>0, <2>1, <3>1, ReplaceEvolves DEF LayoutCommit
  <2>2. CASE ~ LayoutCommit(s)
    BY <1>1, <1>4, <2>2 DEF SaverStep, LayoutCheck
  <2>. QED
    BY <2>1, <2>2
<1>5. ASSUME NEW a \in Agent, AgentStep(a) PROVE UNCHANGED <<map, graph, revisions>>
  BY <1>5 DEF AgentStep, Propose, AgentTo, Insert, RebasePlan, Reroute, ReplayCheck, ExpireOld,
              Promote, Submit, SubmitWrite, AgentEnds
<1>6. ASSUME NEW r \in Reviewer, ReviewStep(r) PROVE MapsOK' /\ \A k \in Map : Evolves(k)
  <2>1. CASE Commit(r)
    <3>1. reviewer[r].row.map \in Map /\ Active(reviewer[r].row.map)
      BY <2>1 DEF IInv, Reviewers, ReviewerHolds, RowHeld, Commit, Replaceable
    <3>. QED
      BY <1>0, <2>1, <3>1, ReplaceEvolves DEF Commit
  <2>2. CASE ~ Commit(r)
    BY <1>1, <1>6, <2>2 DEF ReviewStep, ReviewRead, PlanRow, PlanGraph, ReadAgain, ReviewEnds, Hold
  <2>. QED
    BY <2>1, <2>2
<1>7. ASSUME NEW i \in Item, NEW verdict \in {"rejected", "expired"}, Decide(i, verdict)
      PROVE  UNCHANGED <<map, graph, revisions>>
  BY <1>7 DEF Decide
<1>8. ASSUME NEW c \in Card, NoGraphImpact(c) PROVE UNCHANGED <<map, graph, revisions>>
  BY <1>8 DEF NoGraphImpact
<1>9. CASE UNCHANGED vars
  BY <1>1, <1>9 DEF vars
<1>. QED
  BY <1>1, <1>2, <1>3, <1>4, <1>5, <1>6, <1>7, <1>8, <1>9 DEF Next

----------------------------------------------------------------------------
LEMMA HistoryGoesOn ==
  ASSUME MapsOK, MapsOK', History, \A m \in Map : Evolves(m)
  PROVE  History'
<1>. SUFFICES ASSUME NEW m \in Map
              PROVE  /\ IsSeq(revisions[m])' /\ ((~ Created(m)) => map[m].rev = 0)'
                     /\ (map[m].rev = Len(revisions[m]) /\ graph[m] = Snapshot(m, map[m].rev))'
  BY DEF History, HistoryIsTrue, MapsOK
<1>0. /\ IsSeq(revisions[m]) /\ map[m].rev = Len(revisions[m])
      /\ graph[m] = Snapshot(m, map[m].rev) /\ (~ Created(m) => map[m].rev = 0)
  BY DEF History, HistoryIsTrue
<1>1. CASE map'[m].rev = map[m].rev /\ graph'[m] = graph[m] /\ revisions'[m] = revisions[m]
  BY <1>0, <1>1 DEF Snapshot, Evolves, Created
<1>2. CASE /\ Exists(m) /\ ExistsNext(m) /\ map'[m].rev = map[m].rev + 1
           /\ revisions'[m] = Append(revisions[m], graph'[m])
  <2>1. /\ IsSeq(revisions'[m]) /\ Len(revisions'[m]) = Len(revisions[m]) + 1
        /\ revisions'[m][Len(revisions[m]) + 1] = graph'[m]
    BY <1>0, <1>2, AppendFacts
  <2>2. map'[m].rev = Len(revisions'[m]) /\ map'[m].rev # 0
    BY <1>0, <1>2, <2>1 DEF IsSeq
  <2>3. Created(m)'
    BY <1>2 DEF Created, ExistsNext
  <2>. QED
    BY <1>0, <2>1, <2>2, <2>3 DEF Snapshot
<1>3. CASE map'[m].rev = 0 /\ graph'[m] = EmptyGraph /\ revisions'[m] = << >>
  BY <1>3, EmptyIsSeq DEF Snapshot
<1>. QED
  BY <1>1, <1>2, <1>3 DEF Evolves

(* What was in the history stays there while the map exists. *)
LEMMA SnapshotsStay ==
  ASSUME MapsOK, History, NEW m \in Map, Evolves(m), ExistsNext(m), Created(m),
         NEW k \in 0 .. map[m].rev
  PROVE  Snapshot(m, k)' = Snapshot(m, k) /\ k <= map'[m].rev
<1>0. IsSeq(revisions[m]) /\ map[m].rev = Len(revisions[m]) /\ map[m].rev \in Nat
  BY DEF History, HistoryIsTrue, IsSeq
<1>1. CASE map'[m].rev = map[m].rev /\ revisions'[m] = revisions[m]
  BY <1>0, <1>1 DEF Snapshot
<1>2. CASE map'[m].rev = map[m].rev + 1 /\ revisions'[m] = Append(revisions[m], graph'[m])
  <2>1. \A n \in 1 .. Len(revisions[m]) : revisions'[m][n] = revisions[m][n]
    BY <1>0, <1>2, AppendFacts
  <2>. QED
    BY <1>0, <1>2, <2>1 DEF Snapshot
<1>. QED
  BY <1>1, <1>2 DEF Evolves

----------------------------------------------------------------------------
(* A proposal whose row is not written keeps its map: a map that one names *)
(* is not purged.                                                          *)
LEMMA MapsOfRowsStay ==
  ASSUME MapsOK, MapType', History, Rows, \A k \in Map : Evolves(k),
         NEW i \in Proposal, NEW m, m = item[i].map, m # None
  PROVE  ExistsNext(m) /\ item[i].base <= map'[m].rev
<1>1. m \in Map /\ Exists(m) /\ item[i].base \in 0 .. map[m].rev
  BY DEF Rows, Row, Item
<1>2. Evolves(m) /\ Created(m)
  BY <1>1 DEF Exists, Created
<1>3. ExistsNext(m)
  BY <1>1, <1>2 DEF Evolves
<1>. QED
  BY <1>1, <1>2, <1>3, SnapshotsStay

LEMMA RowsGoOn ==
  ASSUME MapsOK, MapType', History, Rows, \A m \in Map : Evolves(m), item' \in [Item -> Row],
         \A i \in Item : item'[i].state \in {"pending", "accepted"} => item'[i].map \in Map,
         \A i \in Proposal :
           /\ item'[i].state = "none" => item'[i] = NoItem
           /\ item'[i].state # "none" => item'[i].patch \in Patches
           /\ \/ item'[i].map = item[i].map /\ item'[i].base = item[i].base
              \/ item'[i].map # None =>
                   ExistsNext(item'[i].map) /\ item'[i].base <= map'[item'[i].map].rev
  PROVE  Rows'
<1>1. ASSUME NEW i \in Proposal, item'[i].map # None
      PROVE  ExistsNext(item'[i].map) /\ item'[i].base <= map'[item'[i].map].rev
  BY <1>1, MapsOfRowsStay
<1>2. ASSUME NEW i \in Proposal, (item[i].map # None)'
      PROVE  (Exists(item[i].map) /\ item[i].base <= map[item[i].map].rev)'
  BY <1>1, <1>2 DEF Exists, ExistsNext
<1>. QED
  BY <1>2 DEF Rows

(* The compare-and-sets write the state only.                              *)
LEMMA StateWritten ==
  ASSUME Rows, NEW i \in Item, item[i].state # "none",
         NEW st \in {"accepted", "rejected", "expired"}, st = "accepted" => item[i].map \in Map,
         item' = [item EXCEPT ![i].state = st]
  PROVE  /\ item' \in [Item -> Row] /\ RowsKept
         /\ \A j \in Item : item'[j].state \in {"pending", "accepted"} => item'[j].map \in Map
         /\ \A j \in Proposal : item'[j].state = "none" => item'[j] = NoItem
         /\ \A j \in Proposal : item'[j].state # "none" => item'[j].patch \in Patches
         /\ \A j \in Proposal : item'[j].map = item[j].map /\ item'[j].base = item[j].base
<1>1. item \in [Item -> Row]
  BY DEF Rows
<1>2. /\ item' \in [Item -> Row] /\ \A j \in Item \ {i} : item'[j] = item[j]
      /\ item'[i].state = st /\ item'[i].map = item[i].map /\ item'[i].base = item[i].base
      /\ item'[i].patch = item[i].patch
  BY <1>1 DEF Row
<1>. QED
  BY <1>2 DEF Rows, RowsKept, Tracks, Item

(* An action that inserts a row or writes a card.                          *)
LEMMA RowWritten ==
  ASSUME Rows, NEW i \in Item, item[i].state = "none" \/ i \in Card, NEW row \in Row,
         row.state \in {"pending", "accepted"} => row.map \in Map,
         i \in Proposal => row.state # "none" /\ row.patch \in Patches, item' = [item EXCEPT ![i] = row]
  PROVE  /\ item' \in [Item -> Row] /\ RowsKept
         /\ \A j \in Item : item'[j].state \in {"pending", "accepted"} => item'[j].map \in Map
         /\ \A j \in Proposal : item'[j].state = "none" => item'[j] = NoItem
         /\ \A j \in Proposal : item'[j].state # "none" => item'[j].patch \in Patches
         /\ \A j \in Proposal \ {i} : item'[j].map = item[j].map /\ item'[j].base = item[j].base
         /\ item'[i] = row
<1>1. /\ item' \in [Item -> Row] /\ item'[i] = row
      /\ \A j \in Item \ {i} : item'[j] = item[j]
  BY DEF Rows
<1>2. i \in Proposal => item[i].state = "none"
  BY MapsAssumption
<1>. QED
  BY <1>1, <1>2 DEF Rows, RowsKept, Tracks, Item

LEMMA NoItemIsRow == NoItem \in Row
BY MapsAssumption DEF NoItem, Row

LEMMA StepKeepsRows ==
  ASSUME IInv, [Next]_vars, MapsOK', \A m \in Map : Evolves(m)
  PROVE  Rows' /\ RowsKept
<1>0. MapsOK /\ MapType' /\ History /\ Rows /\ Agents
  BY DEF IInv, MapsOK, History
<1> DEFINE Good == Rows' /\ RowsKept
<1>1. CASE item' = item
  <2>1. Rows'
    BY <1>0, <1>1, RowsGoOn DEF Rows
  <2>. QED
    BY <1>1, <2>1 DEF RowsKept, Tracks
<1>2. ASSUME NEW i \in Item, item[i].state # "none",
             NEW st \in {"accepted", "rejected", "expired"}, st = "accepted" => item[i].map \in Map,
             item' = [item EXCEPT ![i].state = st]
      PROVE  Good
  <2>1. /\ item' \in [Item -> Row] /\ RowsKept
        /\ \A j \in Item : item'[j].state \in {"pending", "accepted"} => item'[j].map \in Map
    BY <1>0, <1>2, StateWritten
  <2>2. /\ \A j \in Proposal : item'[j].state = "none" => item'[j] = NoItem
        /\ \A j \in Proposal : item'[j].state # "none" => item'[j].patch \in Patches
    BY <1>0, <1>2, StateWritten
  <2>4. \A j \in Proposal : item'[j].map = item[j].map /\ item'[j].base = item[j].base
    BY <1>0, <1>2, StateWritten
  <2>3. Rows'
    BY <1>0, <2>1, <2>2, <2>4, RowsGoOn
  <2>. QED
    BY <2>1, <2>3
<1>3. ASSUME NEW i \in Item, item[i].state = "none" \/ i \in Card, NEW row \in Row,
             row.state \in {"pending", "accepted"} => row.map \in Map,
             i \in Proposal => row.state # "none" /\ row.patch \in Patches, item' = [item EXCEPT ![i] = row],
             i \in Proposal /\ row.map # None => ExistsNext(row.map) /\ row.base <= map'[row.map].rev
      PROVE  Good
  <2>1. /\ item' \in [Item -> Row] /\ RowsKept
        /\ \A j \in Item : item'[j].state \in {"pending", "accepted"} => item'[j].map \in Map
    BY <1>0, <1>3, RowWritten
  <2>2. /\ \A j \in Proposal : item'[j].state = "none" => item'[j] = NoItem
        /\ \A j \in Proposal : item'[j].state # "none" => item'[j].patch \in Patches
    BY <1>0, <1>3, RowWritten
  <2>4. /\ item'[i] = row
        /\ \A j \in Proposal \ {i} : item'[j].map = item[j].map /\ item'[j].base = item[j].base
    BY <1>0, <1>3, RowWritten
  <2>5. \A j \in Proposal : \/ item'[j].map = item[j].map /\ item'[j].base = item[j].base
                            \/ item'[j].map # None =>
                                 ExistsNext(item'[j].map) /\ item'[j].base <= map'[item'[j].map].rev
    BY <1>3, <2>4
  <2>3. Rows'
    BY <1>0, <2>1, <2>2, <2>5, RowsGoOn
  <2>. QED
    BY <2>1, <2>3
<1>. HIDE DEF Good
<1>4. ASSUME NEW a \in Agent, NEW i \in Proposal, Insert(a, i) PROVE Good
  <2>1. CASE item' = item
    BY <1>1, <2>1 DEF Good
  <2>2. CASE item' # item
    <3> DEFINE c == agent[a]
    <3>1. c.at = "checked" /\ item[i].state = "none" /\ (c.map # None => Exists(c.map)) /\ map' = map
      BY <1>4, <2>2 DEF Insert
    <3>2. /\ c.map \in Map \cup {None} /\ c.base \in 0 .. MaxRev /\ c.patch \in Patches
          /\ c.map # None /\ Exists(c.map) => c.base <= map[c.map].rev
      BY <1>0, <3>1 DEF Agents, AgentHolds, Live, Exists
    <3>3. PICK b \in BOOLEAN : item' = [item EXCEPT ![i] =
                 [state |-> IF c.map = None THEN "draft" ELSE "pending", map |-> c.map,
                  base |-> c.base, patch |-> c.patch, retry |-> b]]
      BY <1>4, <2>2 DEF Insert
    <3>. HIDE DEF c
    <3> DEFINE new == [state |-> IF c.map = None THEN "draft" ELSE "pending", map |-> c.map,
                       base |-> c.base, patch |-> c.patch, retry |-> b]
    <3>7. new \in Row
      BY <3>2, <3>3 DEF Row
    <3>4. PICK row \in Row : /\ item' = [item EXCEPT ![i] = row] /\ row.map = c.map
                             /\ row.base = c.base /\ row.patch = c.patch
                             /\ row.state = IF c.map = None THEN "draft" ELSE "pending"
      BY <3>3, <3>7
    <3>5. i \in Item /\ row.patch \in Patches /\ row.state # "none" /\ (row.state \in {"pending", "accepted"} => row.map \in Map)
      BY <3>2, <3>4 DEF Item
    <3>6. row.map # None => ExistsNext(row.map) /\ row.base <= map'[row.map].rev
      BY <3>1, <3>2, <3>4 DEF Exists, ExistsNext
    <3>. QED
      BY <1>3, <3>1, <3>4, <3>5, <3>6
  <2>. QED
    BY <2>1, <2>2
<1>5. ASSUME NEW a \in Agent, ExpireOld(a) PROVE Good
  <2>1. CASE agent[a].old \in Item
    BY <1>2, <1>5, <2>1 DEF ExpireOld
  <2>2. CASE agent[a].old \notin Item
    <3>1. item' = item
      BY <1>0, <1>5, <2>2 DEF ExpireOld, Rows
    <3>. QED
      BY <1>1, <3>1 DEF Good
  <2>. QED
    BY <2>1, <2>2
<1>6. ASSUME NEW a \in Agent, SubmitWrite(a) PROVE Good
  <2> DEFINE c == agent[a]
  <2>1. /\ c.card \in Card /\ c.map \in Map /\ c.base \in 0 .. MaxRev /\ c.patch \in Patches
        /\ item' = [item EXCEPT ![c.card] = [state |-> "pending", map |-> c.map, base |-> c.base,
                                             patch |-> c.patch, retry |-> FALSE]]
    BY <1>0, <1>6 DEF SubmitWrite, Agents, AgentHolds
  <2>2. [state |-> "pending", map |-> c.map, base |-> c.base, patch |-> c.patch, retry |-> FALSE] \in Row
    BY <2>1 DEF Row
  <2>3. c.card \in Item /\ c.card \notin Proposal
    BY <2>1, MapsAssumption DEF Item
  <2>. QED
    BY <1>3, <2>1, <2>2, <2>3
<1>7. ASSUME NEW a \in Agent, AgentStep(a) PROVE Good
  <2>1. CASE item' = item
    BY <1>1, <2>1 DEF Good
  <2>2. CASE item' # item
    <3>1. (\E i \in Proposal : Insert(a, i)) \/ ExpireOld(a) \/ SubmitWrite(a)
      BY <1>7, <2>2 DEF AgentStep, Propose, AgentTo, RebasePlan, Reroute, ReplayCheck, Promote,
                        Submit, AgentEnds
    <3>. QED
      BY <3>1, <1>4, <1>5, <1>6
  <2>. QED
    BY <2>1, <2>2
<1>8. ASSUME NEW r \in Reviewer, ReviewStep(r) PROVE Good
  <2>1. CASE Commit(r)
    <3>1. reviewer[r].item \in Item /\ item[reviewer[r].item].map \in Map
      BY <1>0, <2>1 DEF IInv, Reviewers, ReviewerHolds, RowHeld, Commit, Rows
    <3>. QED
      BY <1>2, <2>1, <3>1 DEF Commit
  <2>2. CASE ~ Commit(r)
    <3>1. item' = item
      BY <1>8, <2>2 DEF ReviewStep, ReviewRead, PlanRow, PlanGraph, ReadAgain, ReviewEnds, Hold
    <3>. QED
      BY <1>1, <3>1 DEF Good
  <2>. QED
    BY <2>1, <2>2
<1>9. ASSUME NEW i \in Item, NEW verdict \in {"rejected", "expired"}, Decide(i, verdict) PROVE Good
  BY <1>2, <1>9 DEF Decide
<1>10. ASSUME NEW c \in Card, NoGraphImpact(c) PROVE Good
  <2>1. c \in Item /\ c \notin Proposal /\ NoItem.state = "none"
    BY MapsAssumption DEF Item, NoItem
  <2>. QED
    BY <1>3, <1>10, <2>1, NoItemIsRow DEF NoGraphImpact
<1>11. ASSUME NEW m \in Map, MapStep(m) PROVE item' = item
  BY <1>11 DEF MapStep, CreateMap, Purge, AdminRead
<1>12. ASSUME NEW d \in Admin, AdminStep(d) PROVE item' = item
  BY <1>12 DEF AdminStep, AdminUpdate, AdminArchive
<1>13. ASSUME NEW s \in Saver, SaverStep(s) PROVE item' = item
  BY <1>13 DEF SaverStep, LayoutCheck, LayoutCommit
<1>14. UNCHANGED vars => item' = item
  BY DEF vars
<1>15. item' = item => Good
  BY <1>1 DEF Good
<1>16. Good
  BY <1>7, <1>8, <1>9, <1>10, <1>11, <1>12, <1>13, <1>14, <1>15 DEF Next
<1>. QED
  BY <1>16 DEF Good

----------------------------------------------------------------------------
(* What a request holds stays true while it waits. *)

LEMMA AgentWaits ==
  ASSUME MapsOK, MapType', History, \A m \in Map : Evolves(m), NEW v, AgentHolds(v, map)
  PROVE  AgentHolds(v, map')
<1>. SUFFICES ASSUME v.at = "checked", v.map # None
              PROVE  /\ map'[v.map].status # "none"
                     /\ Live(map', v.map) => v.base <= map'[v.map].rev
  BY DEF AgentHolds
<1>1. /\ v.map \in Map /\ v.base \in 0 .. MaxRev /\ Created(v.map)
      /\ Exists(v.map) => v.base <= map[v.map].rev
  BY DEF AgentHolds, Live, Created, Exists
<1>2. Evolves(v.map)
  BY <1>1
<1>3. map'[v.map].status # "none" /\ (ExistsNext(v.map) => Exists(v.map))
  BY <1>1, <1>2 DEF Evolves
<1>4. ASSUME ExistsNext(v.map) PROVE v.base <= map'[v.map].rev
  <2>1. v.base \in 0 .. map[v.map].rev
    BY <1>1, <1>3, <1>4 DEF MapsOK, MapType, MapRow
  <2>. QED
    BY <1>1, <1>2, <1>4, <2>1, SnapshotsStay
<1>. QED
  BY <1>3, <1>4 DEF Live, ExistsNext

LEMMA SaverWaits ==
  ASSUME MapsOK, MapType', \A m \in Map : Evolves(m), NEW v, SaverHolds(v, map, graph)
  PROVE  SaverHolds(v, map', graph')
<1>. SUFFICES ASSUME v.at = "checked"
              PROVE  /\ map'[v.map].status # "none"
                     /\ Live(map', v.map) => /\ v.rev <= map'[v.map].rev
                                             /\ map'[v.map].rev = v.rev => v.graph = graph'[v.map]
  BY DEF SaverHolds
<1>1. /\ v.map \in Map /\ v.rev \in Nat /\ Created(v.map)
      /\ Exists(v.map) => v.rev <= map[v.map].rev /\ (map[v.map].rev = v.rev => v.graph = graph[v.map])
  BY DEF SaverHolds, Live, Created, Exists
<1>2. Evolves(v.map) /\ map[v.map].rev \in Nat
  BY <1>1 DEF MapsOK, MapType, MapRow
<1>. QED
  BY <1>1, <1>2 DEF Evolves, Live, ExistsNext

LEMMA ReviewerWaits ==
  ASSUME MapsOK, MapType', History, Rows, \A m \in Map : Evolves(m), RowsKept,
         NEW v, ReviewerHolds(v, map, graph, revisions, item)
  PROVE  ReviewerHolds(v, map', graph', revisions', item')
<1>1. CASE v.item \notin Proposal
  BY <1>1 DEF ReviewerHolds, RowHeld, PlanHeld, SafeHeld, MergeHeld
<1>2. CASE v.item \in Proposal /\ v.at \in {"read", "planning", "planned", "merged"}
  <2> DEFINE m == v.row.map
  <2>1. /\ v.item \in Item /\ v.row \in Row /\ m \in Map /\ item[v.item].state # "none"
        /\ item[v.item].map = m /\ item[v.item].base = v.row.base
        /\ item[v.item].patch = v.row.patch
    BY <1>2 DEF ReviewerHolds, RowHeld, Tracks
  <2>2. Tracks(item'[v.item], item[v.item])
    BY <1>2, <2>1 DEF RowsKept
  <2>3. RowHeld(v, item')
    BY <1>2, <2>1, <2>2 DEF RowHeld, Tracks
  <2>4. m # None
    BY <2>1, MapsAssumption
  <2>5. Exists(m) /\ v.row.base \in 0 .. map[m].rev /\ ExistsNext(m) /\ Evolves(m) /\ Created(m)
    BY <1>2, <2>1, <2>4, MapsOfRowsStay DEF Rows, Row, Exists, Created
  <2>6. /\ map[m].rev \in Nat
        /\ \/ map'[m].rev = map[m].rev /\ graph'[m] = graph[m] /\ revisions'[m] = revisions[m]
           \/ map'[m].rev = map[m].rev + 1
    BY <2>1, <2>5 DEF Evolves, MapsOK, MapType, MapRow
  <2>7. v.at = "planning" => PlanHeld(v, item', map')
    <3>1. SUFFICES ASSUME v.at = "planning" PROVE PlanHeld(v, item', map')
      OBVIOUS
    <3>2. PlanHeld(v, item, map) /\ v.plan.map = m
      BY <1>2, <2>1, <3>1 DEF ReviewerHolds, PlanHeld, Tracks
    <3>. HIDE DEF m
    <3>. QED
      BY <1>2, <2>1, <2>2, <2>6, <3>2 DEF PlanHeld, Tracks
  <2>8. v.at \in {"planned", "merged"} => SafeHeld(v, map', graph', revisions')
    BY <1>2, <2>1, <2>6 DEF ReviewerHolds, SafeHeld, Base
  <2>9. v.at = "merged" => MergeHeld(v, map', graph')
    BY <1>2, <2>1, <2>6 DEF ReviewerHolds, SafeHeld, MergeHeld
  <2>. QED
    BY <2>3, <2>7, <2>8, <2>9 DEF ReviewerHolds
<1>3. CASE v.at \notin {"read", "planning", "planned", "merged"}
  BY <1>3 DEF ReviewerHolds
<1>. QED
  BY <1>1, <1>2, <1>3

LEMMA AgentMoves ==
  ASSUME Agents, \A b \in Agent : AgentHolds(agent[b], map'),
         NEW a \in Agent, NEW next, agent' = [agent EXCEPT ![a] = next], AgentHolds(next, map')
  PROVE  Agents'
BY DEF Agents

LEMMA ProposeHolds ==
  ASSUME MapType, NEW m \in Map \cup {None}, NEW p \in Patches, NEW old, m # None => Active(m)
  PROVE  AgentHolds(Checked(m, p, old), map)
<1>1. CASE m = None
  BY <1>1, MapsAssumption DEF Checked, AgentHolds
<1>2. CASE m # None
  <2>1. m \in Map /\ map[m].status = "active" /\ map[m].rev \in 0 .. MaxRev
    BY <1>2 DEF MapType, MapRow, Active
  <2>. QED
    BY <1>2, <2>1 DEF Checked, AgentHolds, Live
<1>. QED
  BY <1>1, <1>2

LEMMA StepKeepsAgents ==
  ASSUME IInv, [Next]_vars, MapsOK', \A m \in Map : Evolves(m)
  PROVE  Agents'
<1>0. MapsOK /\ MapType /\ MapType' /\ History /\ Rows /\ Agents
  BY DEF IInv, MapsOK, History
<1>1. \A a \in Agent : AgentHolds(agent[a], map')
  BY <1>0, AgentWaits DEF Agents
<1>2. CASE agent' = agent
  BY <1>0, <1>1, <1>2 DEF Agents
<1>3. ASSUME NEW a \in Agent, NEW next, agent' = [agent EXCEPT ![a] = next], AgentHolds(next, map')
      PROVE  Agents'
  BY <1>0, <1>1, <1>3, AgentMoves
<1>4. AgentHolds(Idle, map') /\ \A old : AgentHolds([at |-> "expire", old |-> old], map')
  BY DEF AgentHolds, Idle
<1>5. ASSUME NEW m \in Map, NEW p \in Patches, NEW old PROVE AgentHolds(Replay(m, p, old), map')
  BY DEF AgentHolds, Replay
<1>6. ASSUME NEW a \in Agent, AgentStep(a) PROVE Agents'
  <2>1. ASSUME NEW m \in Map \cup {None}, NEW p \in Patch, Propose(a, m, p) PROVE Agents'
    <3>1. p \in Patches /\ map' = map /\ (m # None => Active(m))
          /\ agent' = [agent EXCEPT ![a] = Checked(m, p, None)]
      BY <2>1 DEF Propose, AgentTo, Patches
    <3>2. AgentHolds(Checked(m, p, None), map)
      BY <1>0, <3>1, ProposeHolds
    <3>. QED
      BY <1>3, <3>1, <3>2
  <2>2. ASSUME NEW i \in Proposal, Insert(a, i) PROVE Agents'
    <3>1. PICK next : /\ agent' = [agent EXCEPT ![a] = next]
                      /\ next = Idle \/ \E old : next = [at |-> "expire", old |-> old]
      BY <2>2 DEF Insert
    <3>. QED
      BY <1>3, <1>4, <3>1
  <2>3. ASSUME NEW i \in Proposal, RebasePlan(a, i) PROVE Agents'
    <3>1. /\ item[i].map \in Map /\ item[i].patch \in Patches
          /\ agent' = [agent EXCEPT ![a] = Replay(item[i].map, item[i].patch, i)]
      BY <1>0, <2>3 DEF RebasePlan, AgentTo, Rows, Item
    <3>. QED
      BY <1>3, <1>5, <3>1
  <2>4. ASSUME NEW i \in Proposal, NEW m \in Map, Reroute(a, i, m) PROVE Agents'
    <3>1. /\ item[i].patch \in Patches
          /\ agent' = [agent EXCEPT ![a] = Replay(m, item[i].patch, i)]
      BY <1>0, <2>4 DEF Reroute, AgentTo, Rows
    <3>. QED
      BY <1>3, <1>5, <3>1
  <2>5. ASSUME ReplayCheck(a) PROVE Agents'
    <3> DEFINE c == agent[a]
    <3>1. /\ c.at = "replay" /\ Active(c.map) /\ map' = map
          /\ agent' = [agent EXCEPT ![a] = Checked(c.map, c.patch, c.old)]
      BY <2>5 DEF ReplayCheck, AgentTo
    <3>2. c.map \in Map /\ c.patch \in Patches
      BY <1>0, <3>1 DEF Agents, AgentHolds
    <3>3. AgentHolds(Checked(c.map, c.patch, c.old), map)
      BY <1>0, <3>1, <3>2, ProposeHolds
    <3>. QED
      BY <1>3, <3>1, <3>3
  <2>6. ASSUME NEW t \in Map, NEW m \in Map, Promote(a, t, m) PROVE Agents'
    <3>1. map[t].rev \in 1 .. MaxRev /\ agent' = [agent EXCEPT ![a] = Replay(m, RefPatch(t, map[t].rev), None)]
      BY <1>0, <2>6 DEF Promote, AgentTo, MapType, MapRow
    <3>2. RefPatch(t, map[t].rev) \in Patches
      BY <3>1 DEF Patches
    <3>. QED
      BY <1>3, <1>5, <3>1, <3>2
  <2>7. ASSUME NEW c \in Card, NEW m \in Map, NEW p \in CardPatch, NEW base \in 0 .. MaxRev,
               Submit(a, c, m, p, base)
        PROVE  Agents'
    <3> DEFINE next == [at |-> "submit", card |-> c, map |-> m, patch |-> p, base |-> base]
    <3>1. agent' = [agent EXCEPT ![a] = next]
      BY <2>7 DEF Submit, AgentTo
    <3>2. p \in Patches
      BY DEF Patches
    <3>3. AgentHolds(next, map')
      BY <3>2 DEF AgentHolds
    <3>. QED
      BY <1>3, <3>1, <3>3
  <2>8. ASSUME ExpireOld(a) \/ SubmitWrite(a) \/ AgentEnds(a) PROVE Agents'
    <3>1. agent' = [agent EXCEPT ![a] = Idle]
      BY <2>8 DEF ExpireOld, SubmitWrite, AgentEnds, AgentTo
    <3>. QED
      BY <1>3, <1>4, <3>1
  <2>. QED
    BY <1>6, <2>1, <2>2, <2>3, <2>4, <2>5, <2>6, <2>7, <2>8 DEF AgentStep
<1>7. \A m \in Map : MapStep(m) => agent' = agent
  BY DEF MapStep, CreateMap, Purge, AdminRead
<1>8. \A d \in Admin : AdminStep(d) => agent' = agent
  BY DEF AdminStep, AdminUpdate, AdminArchive
<1>9. \A s \in Saver : SaverStep(s) => agent' = agent
  BY DEF SaverStep, LayoutCheck, LayoutCommit
<1>10. \A r \in Reviewer : ReviewStep(r) => agent' = agent
  BY DEF ReviewStep, ReviewRead, PlanRow, PlanGraph, ReadAgain, Commit, ReviewEnds, Hold
<1>11. /\ \A i \in Item, verdict \in {"rejected", "expired"} : Decide(i, verdict) => agent' = agent
       /\ \A c \in Card : NoGraphImpact(c) => agent' = agent
       /\ UNCHANGED vars => agent' = agent
  BY DEF Decide, NoGraphImpact, vars
<1>. QED
  BY <1>2, <1>6, <1>7, <1>8, <1>9, <1>10, <1>11 DEF Next

LEMMA StepKeepsSavers ==
  ASSUME IInv, [Next]_vars, MapsOK', \A m \in Map : Evolves(m)
  PROVE  Savers'
<1>0. MapsOK /\ MapType /\ MapType' /\ Savers
  BY DEF IInv, MapsOK, History
<1>1. \A s \in Saver : SaverHolds(saver[s], map', graph')
  BY <1>0, SaverWaits DEF Savers
<1>2. CASE saver' = saver
  BY <1>0, <1>1, <1>2 DEF Savers
<1>3. ASSUME NEW s \in Saver, NEW next, saver' = [saver EXCEPT ![s] = next],
             SaverHolds(next, map', graph')
      PROVE  Savers'
  BY <1>0, <1>1, <1>3 DEF Savers
<1>4. SaverHolds(Idle, map', graph')
  BY DEF SaverHolds, Idle
<1>5. ASSUME NEW s \in Saver, SaverStep(s) PROVE Savers'
  <2>1. ASSUME NEW m \in Map, NEW k \in 0 .. MaxRev, NEW n, NEW q \in Place, LayoutCheck(s, m, k, n, q)
        PROVE  Savers'
    <3> DEFINE next == [at |-> "checked", map |-> m, rev |-> k, graph |-> graph[m],
                        layout |-> [layout[m] EXCEPT ![n] = q]]
    <3>1. /\ saver' = [saver EXCEPT ![s] = next] /\ k \in 0 .. map[m].rev
          /\ map' = map /\ graph' = graph /\ Active(m)
      BY <2>1 DEF LayoutCheck
    <3>2. k \in Nat /\ k <= map[m].rev /\ map[m].status # "none"
      BY <1>0, <3>1, MapsAssumption DEF MapType, MapRow, Active
    <3>3. SaverHolds(next, map', graph')
      BY <3>1, <3>2 DEF SaverHolds
    <3>. QED
      BY <1>3, <3>1, <3>3
  <2>2. CASE LayoutCommit(s) \/ (saver[s] # Idle /\ saver' = [saver EXCEPT ![s] = Idle])
    <3>1. saver' = [saver EXCEPT ![s] = Idle]
      BY <2>2 DEF LayoutCommit
    <3>. QED
      BY <1>3, <1>4, <3>1
  <2>. QED
    BY <1>5, <2>1, <2>2 DEF SaverStep
<1>6. \A m \in Map : MapStep(m) => saver' = saver
  BY DEF MapStep, CreateMap, Purge, AdminRead
<1>7. \A d \in Admin : AdminStep(d) => saver' = saver
  BY DEF AdminStep, AdminUpdate, AdminArchive
<1>8. ASSUME NEW a \in Agent, AgentStep(a) PROVE saver' = saver
  BY <1>8 DEF AgentStep, Propose, AgentTo, Insert, RebasePlan, Reroute, ReplayCheck, ExpireOld,
         Promote, Submit, SubmitWrite, AgentEnds
<1>9. \A r \in Reviewer : ReviewStep(r) => saver' = saver
  BY DEF ReviewStep, ReviewRead, PlanRow, PlanGraph, ReadAgain, Commit, ReviewEnds, Hold
<1>10. /\ \A i \in Item, verdict \in {"rejected", "expired"} : Decide(i, verdict) => saver' = saver
       /\ \A c \in Card : NoGraphImpact(c) => saver' = saver
       /\ UNCHANGED vars => saver' = saver
  BY DEF Decide, NoGraphImpact, vars
<1>. QED
  BY <1>2, <1>5, <1>6, <1>7, <1>8, <1>9, <1>10 DEF Next

LEMMA StepKeepsReviewers ==
  ASSUME IInv, [Next]_vars, MapsOK', \A m \in Map : Evolves(m), RowsKept
  PROVE  Reviewers'
<1>0. MapsOK /\ MapType /\ MapType' /\ History /\ Rows /\ Reviewers
  BY DEF IInv, MapsOK, History
<1>1. \A r \in Reviewer : ReviewerHolds(reviewer[r], map', graph', revisions', item')
  BY <1>0, ReviewerWaits DEF Reviewers
<1>2. CASE reviewer' = reviewer
  BY <1>0, <1>1, <1>2 DEF Reviewers
<1>3. ASSUME NEW r \in Reviewer, NEW next, reviewer' = [reviewer EXCEPT ![r] = next],
             ReviewerHolds(next, map', graph', revisions', item')
      PROVE  Reviewers'
  BY <1>0, <1>1, <1>3 DEF Reviewers
<1>4. ReviewerHolds(Idle, map', graph', revisions', item')
  BY DEF ReviewerHolds, Idle
<1>5. ASSUME NEW r \in Reviewer, ReviewStep(r) PROVE Reviewers'
  <2> DEFINE v == reviewer[r]
  <2>0. ReviewerHolds(v, map, graph, revisions, item)
    BY <1>0 DEF Reviewers
  <2>1. ASSUME NEW i \in Item, ReviewRead(r, i) PROVE Reviewers'
    <3> DEFINE next == [at |-> "read", item |-> i, row |-> item[i]]
    <3>1. /\ item[i].state = "pending" /\ item' = item
          /\ reviewer' = [reviewer EXCEPT ![r] = next]
      BY <2>1 DEF ReviewRead, Hold
    <3>2. item[i] \in Row /\ item[i].map \in Map
      BY <1>0, <3>1 DEF Rows
    <3>3. ReviewerHolds(next, map', graph', revisions', item')
      BY <3>1, <3>2 DEF ReviewerHolds, RowHeld, Tracks
    <3>. QED
      BY <1>3, <3>1, <3>3
  <2>2. ASSUME PlanRow(r) PROVE Reviewers'
    <3> DEFINE i == v.item
               next == [at |-> "planning", item |-> v.item, row |-> v.row, plan |-> item[v.item],
                        rev |-> map[item[v.item].map].rev, role |-> map[item[v.item].map].role]
    <3>1. /\ v.at = "read" /\ item[i].state = "pending" /\ item' = item /\ map' = map
          /\ reviewer' = [reviewer EXCEPT ![r] = next]
      BY <2>2 DEF PlanRow, Hold
    <3>2. RowHeld(v, item)
      BY <2>0, <3>1 DEF ReviewerHolds
    <3>3. item[i] \in Row /\ item[i].map \in Map
      BY <1>0, <3>1, <3>2 DEF Rows, RowHeld
    <3>4. map[item[i].map].rev \in Nat
      BY <1>0, <3>3, MapsAssumption DEF MapType, MapRow
    <3>. HIDE DEF v
    <3>5. RowHeld(next, item') /\ PlanHeld(next, item', map')
      BY <3>1, <3>2, <3>3, <3>4 DEF RowHeld, PlanHeld, Tracks
    <3>6. ReviewerHolds(next, map', graph', revisions', item')
      BY <3>5 DEF ReviewerHolds
    <3>. QED
      BY <1>3, <3>1, <3>6
  <2>3. ASSUME PlanGraph(r) PROVE Reviewers'
    <3> DEFINE next == [at |-> "planned", item |-> v.item, row |-> v.row, rev |-> v.rev]
    <3>1. /\ v.at = "planning" /\ UNCHANGED <<map, graph, revisions, item>>
          /\ PlanAllows(v.plan.map, v.plan, v.rev, v.role, v.item \in Proposal)
          /\ reviewer' = [reviewer EXCEPT ![r] = next]
      BY <2>3 DEF PlanGraph, Hold
    <3>2. RowHeld(v, item) /\ PlanHeld(v, item, map)
      BY <2>0, <3>1 DEF ReviewerHolds
    <3>3. Safe(v.plan, v.rev, graph[v.plan.map], Base(revisions, v.plan))
      BY <3>1 DEF PlanAllows, Safe, Base, Snapshot
    <3>. HIDE DEF v
    <3>4. ASSUME v.item \in Proposal
          PROVE  /\ v.rev <= map[v.row.map].rev
                 /\ Safe(v.row, v.rev, graph[v.row.map], Base(revisions, v.row))
      <4>1. v.row.map = v.plan.map /\ v.row.base = v.plan.base /\ v.row.patch = v.plan.patch
        BY <3>2, <3>4 DEF RowHeld, PlanHeld, Tracks
      <4>. QED
        BY <3>2, <3>3, <3>4, <4>1 DEF PlanHeld, Safe, Base
    <3>5. RowHeld(next, item') /\ SafeHeld(next, map', graph', revisions')
      BY <3>1, <3>2, <3>4 DEF RowHeld, PlanHeld, SafeHeld
    <3>6. ReviewerHolds(next, map', graph', revisions', item')
      BY <3>5 DEF ReviewerHolds
    <3>. QED
      BY <1>3, <3>1, <3>6
  <2>4. ASSUME ReadAgain(r) PROVE Reviewers'
    <3>1. PICK places : reviewer' = [reviewer EXCEPT ![r] =
              [at |-> "merged", item |-> v.item, row |-> v.row, rev |-> v.rev,
               graph |-> Merge(graph[v.row.map], v.row.patch), layout |-> places]]
      BY <2>4 DEF ReadAgain, Hold
    <3> DEFINE next == [at |-> "merged", item |-> v.item, row |-> v.row, rev |-> v.rev,
                        graph |-> Merge(graph[v.row.map], v.row.patch), layout |-> places]
    <3>2. v.at = "planned" /\ UNCHANGED <<map, graph, revisions, item>>
      BY <2>4 DEF ReadAgain, Hold
    <3>3. RowHeld(v, item) /\ SafeHeld(v, map, graph, revisions)
      BY <2>0, <3>2 DEF ReviewerHolds
    <3>4. reviewer' = [reviewer EXCEPT ![r] = next]
      BY <3>1
    <3>. HIDE DEF v
    <3>5. RowHeld(next, item') /\ SafeHeld(next, map', graph', revisions') /\ MergeHeld(next, map', graph')
      BY <3>2, <3>3 DEF RowHeld, SafeHeld, MergeHeld
    <3>6. ReviewerHolds(next, map', graph', revisions', item')
      BY <3>5 DEF ReviewerHolds
    <3>. QED
      BY <1>3, <3>4, <3>6
  <2>5. ASSUME Commit(r) \/ ReviewEnds(r) PROVE Reviewers'
    <3>1. reviewer' = [reviewer EXCEPT ![r] = Idle]
      BY <2>5 DEF Commit, ReviewEnds, Hold
    <3>. QED
      BY <1>3, <1>4, <3>1
  <2>. QED
    BY <1>5, <2>1, <2>2, <2>3, <2>4, <2>5 DEF ReviewStep
<1>6. \A m \in Map : MapStep(m) => reviewer' = reviewer
  BY DEF MapStep, CreateMap, Purge, AdminRead
<1>7. \A d \in Admin : AdminStep(d) => reviewer' = reviewer
  BY DEF AdminStep, AdminUpdate, AdminArchive
<1>8. ASSUME NEW a \in Agent, AgentStep(a) PROVE reviewer' = reviewer
  BY <1>8 DEF AgentStep, Propose, AgentTo, Insert, RebasePlan, Reroute, ReplayCheck, ExpireOld,
         Promote, Submit, SubmitWrite, AgentEnds
<1>9. \A s \in Saver : SaverStep(s) => reviewer' = reviewer
  BY DEF SaverStep, LayoutCheck, LayoutCommit
<1>10. /\ \A i \in Item, verdict \in {"rejected", "expired"} : Decide(i, verdict) => reviewer' = reviewer
       /\ \A c \in Card : NoGraphImpact(c) => reviewer' = reviewer
       /\ UNCHANGED vars => reviewer' = reviewer
  BY DEF Decide, NoGraphImpact, vars
<1>. QED
  BY <1>2, <1>5, <1>6, <1>7, <1>8, <1>9, <1>10 DEF Next

----------------------------------------------------------------------------
(* The invariant holds. *)

LEMMA InitHolds == Init => IInv
<1>. SUFFICES ASSUME Init PROVE IInv
  OBVIOUS
<1>1. ASSUME NEW m \in Map PROVE IsSeq(Seed[m]) /\ Len(Seed[m]) \in 0 .. MaxRev
  <2>1. Seed[m] \in Seq(UNION {{Seed[k][r] : r \in DOMAIN Seed[k]} : k \in Map})
    BY MapsAssumption
  <2>2. IsSeq(Seed[m])
    BY <2>1, SeqIsSeq
  <2>. QED
    BY <2>2, MapsAssumption DEF IsSeq
<1>2. /\ map = [m \in Map |-> [status |-> IF Seed[m] = << >> THEN "none" ELSE "active",
                               role |-> "secondary", rev |-> Len(Seed[m])]]
      /\ revisions = Seed /\ graph = [m \in Map |-> Snapshot(m, Len(Seed[m]))]
  BY DEF Init
<1>3. MapType
  BY <1>1, <1>2 DEF MapType, MapRow, Status
<1>4. History
  <2>1. DOMAIN graph = Map /\ DOMAIN revisions = Map
    BY <1>2, MapsAssumption
  <2>2. ASSUME NEW m \in Map
        PROVE  /\ IsSeq(revisions[m]) /\ (~ Created(m) => map[m].rev = 0)
               /\ map[m].rev = Len(revisions[m]) /\ graph[m] = Snapshot(m, map[m].rev)
    BY <1>1, <1>2, <2>2 DEF Created
  <2>. QED
    BY <2>1, <2>2 DEF History, HistoryIsTrue
<1>5. Rows
  <2>1. item = [i \in Item |-> NoItem] /\ NoItem.state = "none" /\ NoItem.map = None
    BY DEF Init, NoItem
  <2>. QED
    BY <2>1, NoItemIsRow DEF Rows, Item
<1>6. Agents
  BY DEF Init, Agents, AgentHolds, Idle
<1>7. Savers
  BY DEF Init, Savers, SaverHolds, Idle
<1>8. Reviewers
  BY DEF Init, Reviewers, ReviewerHolds, Idle
<1>. QED
  BY <1>3, <1>4, <1>5, <1>6, <1>7, <1>8 DEF IInv

LEMMA StepHolds == IInv /\ [Next]_vars => IInv'
<1>. SUFFICES ASSUME IInv, [Next]_vars PROVE IInv'
  OBVIOUS
<1>1. MapsOK' /\ \A m \in Map : Evolves(m)
  BY StepEvolves
<1>2. MapsOK /\ History /\ MapType'
  BY <1>1 DEF IInv, MapsOK, History
<1>3. History'
  BY <1>1, <1>2, HistoryGoesOn
<1>4. Rows' /\ RowsKept
  BY <1>1, StepKeepsRows
<1>5. Agents' /\ Savers' /\ Reviewers'
  BY <1>1, <1>4, StepKeepsAgents, StepKeepsSavers, StepKeepsReviewers
<1>. QED
  BY <1>2, <1>3, <1>4, <1>5 DEF IInv

(* The accepted revisions of a map tell its whole history, whatever        *)
(* requests interleave: the number of the map is the last of them and its  *)
(* graph is what that one says.                                            *)
THEOREM HistoryTold == Spec => []HistoryIsTrue
<1>1. IInv => HistoryIsTrue
  BY DEF IInv, History
<1>. QED
  BY <1>1, InitHolds, StepHolds, PTL DEF Spec

----------------------------------------------------------------------------
(* What replaying a stale patch leaves alone. *)

IsRecord(f) == f = [x \in DOMAIN f |-> f[x]]

LEMMA NodeIsRecord ==
  ASSUME NEW ref, NEW node,
         node = [type |-> "map_ref", kind |-> "", disp |-> "", why |-> FALSE, src |-> None,
                 run |-> None, group |-> None, text |-> "", ref |-> ref]
  PROVE  IsRecord(node)
BY DEF IsRecord

LEMMA RefNodeIsRecord == ASSUME NEW t, NEW r PROVE IsRecord(RefNode(t, r))
BY NodeIsRecord DEF RefNode

LEMMA PatchesAreRecords ==
  ASSUME NEW p \in Patches, NEW n \in DOMAIN p.nodes PROVE IsRecord(p.nodes[n])
<1>1. CASE p \in Patch \cup CardPatch
  BY <1>1, MapsAssumption DEF IsRecord
<1>2. ASSUME NEW t \in Map, NEW r \in 1 .. MaxRev, p = RefPatch(t, r) PROVE IsRecord(p.nodes[n])
  <2>1. p.nodes[n] = RefNode(t, r)
    <3>1. p.nodes = [x \in {<<t, r>>} |-> RefNode(t, r)]
      BY <1>2 DEF RefPatch
    <3>. QED
      BY <3>1
  <2>. QED
    BY <2>1, RefNodeIsRecord
<1>. QED
  BY <1>1, <1>2 DEF Patches

LEMMA WrittenKeeps ==
  ASSUME NEW b, NEW f, NEW g, NEW next, NEW x \in DOMAIN b \cup DOMAIN f, x \in DOMAIN next,
         Writable(b, f, next), x \in DOMAIN g,
         x \in DOMAIN f /\ f[x] = next[x] => g[x] = f[x]
  PROVE  Same(b, f, x) \/ Same(f, g, x)
BY DEF Writable, Unmoved, Same

LEMMA ReplayKeeps ==
  ASSUME NEW base, NEW now, NEW p, RebaseSafe(base, now, p),
         \A n \in DOMAIN p.nodes : IsRecord(p.nodes[n])
  PROVE  Kept(base, now, Merge(now, p))
<1> DEFINE kept == Less(now.nodes, p.delNodes)
           gone == {e \in DOMAIN now.edges : e \in p.delEdges \/ Incident(now, e, p.delNodes)}
           next == Merge(now, p)
<1>1. /\ DOMAIN kept = DOMAIN now.nodes \ p.delNodes
      /\ \A n \in DOMAIN kept : kept[n] = now.nodes[n]
  BY DEF Less
<1>2. /\ DOMAIN next.nodes = DOMAIN kept \cup DOMAIN p.nodes
      /\ \A n \in DOMAIN p.nodes : next.nodes[n] = Update(kept, n, p.nodes[n])
      /\ \A n \in DOMAIN kept \ DOMAIN p.nodes : next.nodes[n] = kept[n]
  BY DEF Merge, Over
<1>3. /\ DOMAIN next.edges = (DOMAIN now.edges \ gone) \cup DOMAIN PatchEdges(p)
      /\ \A e \in DOMAIN PatchEdges(p) : next.edges[e] = PatchEdges(p)[e]
      /\ \A e \in (DOMAIN now.edges \ gone) \ DOMAIN PatchEdges(p) : next.edges[e] = now.edges[e]
  BY DEF Merge, Over, Less
<1>. HIDE DEF kept, next
<1>4. ASSUME NEW n \in DOMAIN base.nodes \cup DOMAIN now.nodes
      PROVE  Same(base.nodes, now.nodes, n) \/ Same(now.nodes, next.nodes, n)
  <2>1. CASE n \in DOMAIN p.nodes
    <3>1. ASSUME n \in DOMAIN now.nodes, now.nodes[n] = p.nodes[n] PROVE next.nodes[n] = now.nodes[n]
      <4>1. CASE n \in DOMAIN kept
        <5>1. p.nodes[n] = [p.nodes[n] EXCEPT !.src = p.nodes[n].src]
          BY <2>1 DEF IsRecord
        <5>. QED
          BY <1>1, <1>2, <2>1, <3>1, <4>1, <5>1 DEF Update
      <4>2. CASE n \notin DOMAIN kept
        BY <1>2, <2>1, <3>1, <4>2 DEF Update
      <4>. QED
        BY <4>1, <4>2
    <3>. QED
      BY <1>2, <2>1, <3>1, WrittenKeeps DEF RebaseSafe
  <2>2. CASE n \notin DOMAIN p.nodes
    BY <1>1, <1>2, <2>2 DEF RebaseSafe, Unmoved, Same
  <2>. QED
    BY <2>1, <2>2
<1>5. ASSUME NEW e \in DOMAIN base.edges \cup DOMAIN now.edges
      PROVE  Same(base.edges, now.edges, e) \/ Same(now.edges, next.edges, e)
  <2>1. CASE e \in DOMAIN PatchEdges(p)
    BY <1>3, <2>1, WrittenKeeps DEF RebaseSafe
  <2>2. CASE e \notin DOMAIN PatchEdges(p) /\ e \in gone
    BY <2>2 DEF RebaseSafe, Unmoved, Same
  <2>3. CASE e \notin DOMAIN PatchEdges(p) /\ e \notin gone
    BY <1>3, <2>3 DEF Same
  <2>. QED
    BY <2>1, <2>2, <2>3
<1>. QED
  BY <1>4, <1>5 DEF Kept, next

----------------------------------------------------------------------------
(* What a commit has in its hands. *)

LEMMA CommitFacts ==
  ASSUME IInv, NEW r \in Reviewer, Commit(r), NEW v, v = reviewer[r], v.item \in Proposal,
         NEW m, m = item[v.item].map
  PROVE  /\ m \in Map /\ v.row.map = m /\ v.row.base = item[v.item].base
         /\ v.row.patch = item[v.item].patch /\ v.row.patch \in Patches
         /\ map[m].rev = v.rev /\ v.rev = Len(revisions[m]) /\ graph[m] = Snapshot(m, v.rev)
         /\ v.graph = Merge(graph[m], v.row.patch)
         /\ Safe(v.row, v.rev, graph[m], Snapshot(m, v.row.base))
         /\ graph' = [graph EXCEPT ![m] = v.graph]
<1>1. ReviewerHolds(v, map, graph, revisions, item) /\ v.at = "merged" /\ Rows /\ History
  BY DEF IInv, Reviewers, Commit
<1>2. RowHeld(v, item) /\ SafeHeld(v, map, graph, revisions) /\ MergeHeld(v, map, graph)
  BY <1>1 DEF ReviewerHolds
<1>3. /\ v.row.map = m /\ m \in Map /\ v.row.base = item[v.item].base
      /\ v.row.patch = item[v.item].patch /\ item[v.item].state # "none"
  BY <1>2 DEF RowHeld, Tracks
<1>4. v.row.patch \in Patches
  BY <1>1, <1>3 DEF Rows
<1>5. map[m].rev = v.rev /\ Replace(m, v.graph, v.layout)
  BY <1>3 DEF Commit, Replaceable
<1>6. map[m].rev = Len(revisions[m]) /\ graph[m] = Snapshot(m, map[m].rev)
  BY <1>1, <1>3 DEF History, HistoryIsTrue
<1>7. v.graph = Merge(graph[m], v.row.patch)
  BY <1>2, <1>3, <1>5 DEF MergeHeld
<1>8. Safe(v.row, v.rev, graph[m], Snapshot(m, v.row.base))
  BY <1>2, <1>3, <1>5 DEF SafeHeld, Base, Snapshot
<1>9. graph' = [graph EXCEPT ![m] = v.graph]
  BY <1>5 DEF Replace
<1>. QED
  BY <1>3, <1>4, <1>5, <1>6, <1>7, <1>8, <1>9

LEMMA OnlyCommitAccepts ==
  ASSUME IInv, [Next]_vars, NEW i \in Proposal,
         item[i].state # "accepted", item'[i].state = "accepted"
  PROVE  \E r \in Reviewer : Commit(r) /\ reviewer[r].item = i
<1>0. item' # item /\ i \in Item /\ i \notin Card /\ item \in [Item -> Row] /\ Agents
  BY MapsAssumption DEF IInv, Rows, Item
<1>1. \A m \in Map : ~ MapStep(m)
  BY <1>0 DEF MapStep, CreateMap, Purge, AdminRead
<1>2. \A d \in Admin : ~ AdminStep(d)
  BY <1>0 DEF AdminStep, AdminUpdate, AdminArchive
<1>3. \A s \in Saver : ~ SaverStep(s)
  BY <1>0 DEF SaverStep, LayoutCheck, LayoutCommit
<1>4. ASSUME NEW a \in Agent, AgentStep(a) PROVE FALSE
  <2>1. (\E j \in Proposal : Insert(a, j)) \/ ExpireOld(a) \/ SubmitWrite(a)
    BY <1>0, <1>4 DEF AgentStep, Propose, AgentTo, RebasePlan, Reroute, ReplayCheck, Promote,
                      Submit, AgentEnds
  <2>2. ASSUME NEW j \in Proposal, Insert(a, j) PROVE FALSE
    <3>1. PICK new : item' = [item EXCEPT ![j] = new] /\ new.state \in {"draft", "pending"}
      BY <1>0, <2>2 DEF Insert
    <3>. QED
      BY <1>0, <3>1
  <2>3. ASSUME ExpireOld(a) PROVE FALSE
    <3>1. PICK j : item' = [item EXCEPT ![j].state = "expired"]
      BY <2>3 DEF ExpireOld
    <3>. QED
      BY <1>0, <3>1 DEF Row
  <2>4. ASSUME SubmitWrite(a) PROVE FALSE
    <3>1. PICK c, new : c \in Card /\ item' = [item EXCEPT ![c] = new]
      BY <1>0, <2>4 DEF SubmitWrite, Agents, AgentHolds
    <3>. QED
      BY <1>0, <3>1
  <2>. QED
    BY <2>1, <2>2, <2>3, <2>4
<1>5. ASSUME NEW j \in Item, NEW verdict \in {"rejected", "expired"}, Decide(j, verdict) PROVE FALSE
  <2>1. item' = [item EXCEPT ![j].state = verdict]
    BY <1>5 DEF Decide
  <2>. QED
    BY <1>0, <2>1 DEF Row
<1>6. ASSUME NEW c \in Card, NoGraphImpact(c) PROVE FALSE
  BY <1>0, <1>6 DEF NoGraphImpact
<1>7. ~ UNCHANGED vars
  BY <1>0 DEF vars
<1>8. PICK r \in Reviewer : ReviewStep(r)
  BY <1>1, <1>2, <1>3, <1>4, <1>5, <1>6, <1>7 DEF Next
<1>9. Commit(r)
  BY <1>0, <1>8 DEF ReviewStep, ReviewRead, PlanRow, PlanGraph, ReadAgain, ReviewEnds, Hold
<1>10. item' = [item EXCEPT ![reviewer[r].item].state = "accepted"]
  BY <1>9 DEF Commit
<1>. QED
  BY <1>0, <1>9, <1>10 DEF Row

LEMMA CommitKeeps ==
  ASSUME IInv, NEW i \in Proposal, NEW r \in Reviewer, Commit(r), reviewer[r].item = i
  PROVE  Kept(Snapshot(item[i].map, item[i].base), graph[item[i].map], graph'[item[i].map])
<1> DEFINE v == reviewer[r]
           m == item[i].map
           now == graph[m]
           base == Snapshot(m, v.row.base)
<1>1. /\ m \in Map /\ v.row.base = item[i].base /\ v.row.patch \in Patches
      /\ now = Snapshot(m, v.rev) /\ v.graph = Merge(now, v.row.patch)
      /\ Safe(v.row, v.rev, now, base) /\ graph' = [graph EXCEPT ![m] = v.graph]
  BY CommitFacts
<1>2. graph'[m] = Merge(now, v.row.patch)
  BY <1>1 DEF IInv, History
<1>3. Kept(base, now, Merge(now, v.row.patch))
  <2>1. CASE v.row.base = v.rev
    <3>1. base = now
      BY <1>1, <2>1
    <3>. QED
      BY <3>1 DEF Kept, Same
  <2>2. CASE v.row.base # v.rev
    <3>1. RebaseSafe(base, now, v.row.patch)
      BY <1>1, <2>2 DEF Safe
    <3>2. \A n \in DOMAIN v.row.patch.nodes : IsRecord(v.row.patch.nodes[n])
      BY <1>1, PatchesAreRecords
    <3>. HIDE DEF base, now, v
    <3>. QED
      BY <3>1, <3>2, ReplayKeeps
  <2>. QED
    BY <2>1, <2>2
<1>. QED
  BY <1>1, <1>2, <1>3

(* An accepted proposal leaves alone everything that was added, changed or *)
(* removed on its map after the revision it was written for, though its    *)
(* plan, its merge and its commit are separate statements.                 *)
THEOREM NothingUndone == Spec => NothingIsUndone
<1> DEFINE Step == \A i \in Proposal :
             item[i].state # "accepted" /\ item'[i].state = "accepted" =>
               Kept(Snapshot(item[i].map, item[i].base), graph[item[i].map], graph'[item[i].map])
<1>1. IInv /\ [Next]_vars => Step
  BY OnlyCommitAccepts, CommitKeeps
<1>2. IInv /\ [Next]_vars => [Step]_vars
  BY <1>1
<1>. QED
  BY <1>2, InitHolds, StepHolds, PTL DEF Spec, NothingIsUndone

----------------------------------------------------------------------------
(* The refinement.  The instance has copies of the operators of            *)
(* EvidenceGraph, which are the same.                                      *)

LEMMA SameMerge == ASSUME NEW g, NEW p PROVE Ledger!Merge(g, p) = Merge(g, p)
BY Zenon DEF Ledger!Merge, Merge, Ledger!Less, Less, Ledger!Over, Over, Ledger!Incident, Incident,
       Ledger!Update, Update, Ledger!PatchEdges, PatchEdges

LEMMA SameRebaseSafe ==
  ASSUME NEW b, NEW g, NEW p PROVE Ledger!RebaseSafe(b, g, p) <=> RebaseSafe(b, g, p)
BY Zenon DEF Ledger!RebaseSafe, RebaseSafe, Ledger!Writable, Writable, Ledger!Unmoved, Unmoved,
       Ledger!Incident, Incident, Ledger!PatchEdges, PatchEdges, Ledger!Over, Over

LEMMA SameRules ==
  ASSUME NEW n, NEW nodes, NEW e
  PROVE  /\ Ledger!Stage(n) = Stage(n) /\ Ledger!IsResult(n) = IsResult(n)
         /\ Ledger!OutcomeEdge(nodes, e) = OutcomeEdge(nodes, e)
         /\ Ledger!OutcomeBypass(nodes, e) = OutcomeBypass(nodes, e)
         /\ Ledger!BranchBypass(nodes, e) = BranchBypass(nodes, e)
         /\ Ledger!UntypedOutcome(nodes, e) = UntypedOutcome(nodes, e)
BY Zenon DEF Ledger!Stage, Stage, Ledger!IsResult, IsResult, Ledger!OutcomeEdge, OutcomeEdge,
       Ledger!OutcomeBypass, OutcomeBypass, Ledger!BranchBypass, BranchBypass,
       Ledger!UntypedOutcome, UntypedOutcome, Ledger!Polarity, Polarity, Ledger!Semantic, Semantic

LEMMA SameValidGraph == ASSUME NEW g PROVE Ledger!ValidGraph(g) <=> ValidGraph(g)
<1>1. Ledger!NodesValid(g) <=> NodesValid(g)
  BY Zenon DEF Ledger!NodesValid, NodesValid
<1>2. Ledger!EdgesValid(g) <=> EdgesValid(g)
  BY Zenon DEF Ledger!EdgesValid, EdgesValid, Ledger!AllowedDirection, AllowedDirection,
       Ledger!AllowedTypes, AllowedTypes, Ledger!Legacy, Legacy, Ledger!Semantic, Semantic,
       Ledger!Polarity, Polarity, Ledger!Stage, Stage, Ledger!IsResult, IsResult
<1>3. Ledger!Visited(g) = Visited(g)
  BY Zenon DEF Ledger!Visited, Visited, Ledger!Semantic, Semantic, Ledger!Cardinality, Cardinality
<1>. QED
  BY <1>1, <1>2, <1>3 DEF Ledger!ValidGraph, ValidGraph

LEMMA SameEligible ==
  ASSUME NEW cur, NEW merged, NEW p
  PROVE  Ledger!Eligible(cur, merged, p) <=> Eligible(cur, merged, p)
BY Zenon DEF Ledger!Eligible, Eligible, Ledger!Stage, Stage, Ledger!IsResult, IsResult,
       Ledger!OutcomeEdge, OutcomeEdge, Ledger!OutcomeBypass, OutcomeBypass,
       Ledger!BranchBypass, BranchBypass, Ledger!UntypedOutcome, UntypedOutcome,
       Ledger!Polarity, Polarity, Ledger!Semantic, Semantic,
       Ledger!PatchEdges, PatchEdges, Ledger!Over, Over, Ledger!Incident, Incident,
       Ledger!PatchedSources, PatchedSources, Ledger!Revalidated, Revalidated,
       Ledger!RevalidatedEdges, RevalidatedEdges, Ledger!EligibleResult, EligibleResult,
       Ledger!DispositionMatches, DispositionMatches, Ledger!Explained, Explained,
       Ledger!Outcomes, Outcomes

LEMMA SameStage ==
  ASSUME NEW n PROVE Ledger!Stage(n) = Stage(n)
BY Zenon DEF Ledger!Stage, Stage

LEMMA SameTouched ==
  ASSUME NEW cur, NEW p PROVE Ledger!Touched(cur, p) = Touched(cur, p)
BY Zenon DEF Ledger!Touched, Touched, Ledger!Semantic, Semantic, Ledger!PatchEdges, PatchEdges,
       Ledger!Over, Over

LEMMA SameComponent ==
  ASSUME NEW g, NEW n PROVE Ledger!Component(g, n) = Component(g, n)
BY Zenon DEF Ledger!Component, Component, Ledger!Semantic, Semantic, Ledger!Incident, Incident,
       Ledger!Cardinality, Cardinality

LEMMA SameRoots ==
  ASSUME NEW g, NEW C PROVE Ledger!Roots(g, C) = Roots(g, C)
BY SameStage DEF Ledger!Roots, Roots

LEMMA SameDesign ==
  ASSUME NEW g, NEW n PROVE Ledger!HasDesign(g, n) <=> HasDesign(g, n)
BY SameStage DEF Ledger!HasDesign, HasDesign

LEMMA SameThreadContract ==
  ASSUME NEW cur, NEW merged, NEW p
  PROVE  Ledger!ThreadContract(cur, merged, p) <=> ThreadContract(cur, merged, p)
BY SameTouched, SameComponent, SameRoots, SameDesign
   DEF Ledger!ThreadContract, ThreadContract, Ledger!IsResult, IsResult

----------------------------------------------------------------------------
(* Each action maps to one of the ledger or leaves it alone. *)

Promised == [Ledger!Next]_<<revisions, item>>

LEMMA GraphsOfLedger ==
  ASSUME NEW m, NEW k PROVE Ledger!Graph(m, k) = Snapshot(m, k)
BY DEF Ledger!Graph, Snapshot, Ledger!EmptyGraph, EmptyGraph

LEMMA RowOpened ==
  ASSUME Rows, History, NEW i \in Item, i \in Card \/ item[i].state = "none", NEW new,
         item' = [item EXCEPT ![i] = new],
         new.state \in {"none", "draft", "pending"}, i \in Proposal => new.state # "none",
         i \in Proposal /\ new.map # None =>
           new.map \in Map /\ new.base \in Nat /\ new.base <= map[new.map].rev,
         UNCHANGED revisions
  PROVE  Promised
<1>1. item'[i] = new /\ (i \in Card \/ item[i] = NoItem) /\ (i \in Proposal => i \notin Card)
  BY MapsAssumption DEF Rows, Item
<1>2. ASSUME i \in Proposal, new.map # None PROVE new.base \in 0 .. Len(revisions[new.map])
  BY <1>2 DEF History, HistoryIsTrue, IsSeq
<1>3. new.state # "none" \/ i \in Card
  BY <1>1 DEF Item
<1>4. Ledger!Open(i, item'[i])
  BY <1>1, <1>2, <1>3 DEF Ledger!Open, Ledger!NoItem, NoItem
<1>. QED
  BY <1>4 DEF Promised, Ledger!Next, Item

LEMMA RowClosed ==
  ASSUME NEW i \in Item, NEW verdict \in {"rejected", "expired"},
         item[i].state \in {"draft", "pending"}, item' = [item EXCEPT ![i].state = verdict],
         UNCHANGED revisions
  PROVE  Promised
<1>1. Ledger!Close(i, verdict)
  BY DEF Ledger!Close
<1>. QED
  BY <1>1 DEF Promised, Ledger!Next, Item

LEMMA CommitAccepts ==
  ASSUME IInv, NEW r \in Reviewer, Commit(r), reviewer[r].item \in Proposal
  PROVE  Promised
<1> DEFINE v == reviewer[r]
           i == v.item
           m == item[i].map
           merged == Merge(graph[m], item[i].patch)
<1>1. /\ m \in Map /\ v.row.map = m /\ v.row.base = item[i].base /\ v.row.patch = item[i].patch
      /\ v.rev = Len(revisions[m]) /\ graph[m] = Snapshot(m, v.rev) /\ v.graph = merged
      /\ Safe(v.row, v.rev, graph[m], Snapshot(m, v.row.base))
  BY CommitFacts
<1>2. /\ item[i].state = "pending" /\ Replace(m, merged, v.layout)
      /\ item' = [item EXCEPT ![i].state = "accepted"]
  BY <1>1 DEF Commit
<1>3. Ledger!Last(m) = graph[m] /\ Ledger!Graph(m, item[i].base) = Snapshot(m, item[i].base)
  BY <1>1, GraphsOfLedger DEF Ledger!Last
<1>4. revisions' = IF merged = graph[m] THEN revisions ELSE [revisions EXCEPT ![m] = Append(@, merged)]
  BY <1>2 DEF Replace
<1>. HIDE DEF m, i, v
<1>5. /\ item[i].base # Len(revisions[m]) =>
           Ledger!RebaseSafe(Snapshot(m, item[i].base), graph[m], item[i].patch)
      /\ Ledger!ValidGraph(merged) /\ Ledger!Eligible(graph[m], merged, item[i].patch)
      /\ Ledger!ThreadContract(graph[m], merged, item[i].patch)
  BY <1>1, SameRebaseSafe, SameValidGraph, SameEligible, SameThreadContract DEF Safe
<1>6. Ledger!Merge(graph[m], item[i].patch) = merged
  BY SameMerge
<1>. HIDE DEF merged
<1>7. Ledger!Allowed(i)
  BY <1>3, <1>5, <1>6 DEF Ledger!Allowed, m
<1>8. Ledger!Accept(i)
  BY <1>2, <1>3, <1>4, <1>6, <1>7 DEF Ledger!Accept, m
<1>. QED
  BY <1>8 DEF Promised, Ledger!Next, i, v

LEMMA CardCommitAccepts ==
  ASSUME IInv, NEW r \in Reviewer, Commit(r), reviewer[r].item \in Card
  PROVE  Promised
<1> DEFINE v == reviewer[r]
           c == v.item
           m == v.row.map
<1>1. m \in Map /\ History
  BY DEF IInv, Reviewers, ReviewerHolds, RowHeld, Commit
<1>2. /\ item[c].state = "pending" /\ item' = [item EXCEPT ![c].state = "accepted"]
      /\ Replace(m, v.graph, v.layout)
  BY DEF Commit
<1>3. ASSUME revisions' # revisions
      PROVE  /\ revisions'[m] # << >>
             /\ revisions' = [revisions EXCEPT ![m] = Append(@, revisions'[m][Len(revisions'[m])])]
  <2>1. revisions' = [revisions EXCEPT ![m] = Append(@, v.graph)]
    BY <1>2, <1>3 DEF Replace
  <2>2. IsSeq(revisions[m]) /\ revisions'[m] = Append(revisions[m], v.graph)
    BY <1>1, <2>1 DEF History
  <2>. HIDE DEF v, m
  <2>3. /\ Len(revisions'[m]) = Len(revisions[m]) + 1 /\ Len(revisions[m]) \in Nat
        /\ revisions'[m][Len(revisions'[m])] = v.graph
    BY <2>2, AppendFacts DEF IsSeq
  <2>4. revisions'[m] # << >>
    BY <2>3
  <2>. QED
    BY <2>1, <2>3, <2>4
<1>4. Ledger!AcceptCard(c)
  BY <1>1, <1>2, <1>3 DEF Ledger!AcceptCard
<1>. QED
  BY <1>4 DEF Promised, Ledger!Next

LEMMA AgentPromised ==
  ASSUME IInv, NEW a \in Agent, AgentStep(a) PROVE Promised
<1>0. Rows /\ History /\ Agents /\ MapType /\ UNCHANGED revisions
  BY DEF IInv, AgentStep, Propose, AgentTo, Insert, RebasePlan, Reroute, ReplayCheck, ExpireOld,
         Promote, Submit, SubmitWrite, AgentEnds
<1>1. CASE item' = item
  BY <1>0, <1>1 DEF Promised
<1>2. ASSUME NEW i \in Proposal, Insert(a, i), item' # item PROVE Promised
  <2> DEFINE c == agent[a]
  <2>1. PICK new : /\ item' = [item EXCEPT ![i] = new] /\ new.state \in {"draft", "pending"}
                   /\ new.map = c.map /\ new.base = c.base
    BY <1>2 DEF Insert
  <2>2. /\ item[i].state = "none" /\ c.at = "checked" /\ (c.map # None => Exists(c.map))
    BY <1>2 DEF Insert
  <2>3. c.map # None => c.map \in Map /\ c.base \in Nat /\ c.base <= map[c.map].rev
    BY <1>0, <2>2, MapsAssumption DEF Agents, AgentHolds, Live, Exists
  <2>. QED
    BY <1>0, <2>1, <2>2, <2>3, RowOpened DEF Item
<1>3. ASSUME ExpireOld(a), item' # item PROVE Promised
  <2>1. agent[a].old \in Item
    BY <1>0, <1>3 DEF ExpireOld, Rows
  <2>. QED
    BY <1>0, <1>3, <2>1, RowClosed DEF ExpireOld
<1>4. ASSUME SubmitWrite(a) PROVE Promised
  <2> DEFINE c == agent[a].card
             new == [state |-> "pending", map |-> agent[a].map, base |-> agent[a].base,
                     patch |-> agent[a].patch, retry |-> FALSE]
  <2>1. c \in Card /\ item' = [item EXCEPT ![c] = new]
    BY <1>0, <1>4 DEF SubmitWrite, Agents, AgentHolds
  <2>2. c \in Item /\ c \notin Proposal /\ new.state = "pending"
    BY <2>1, MapsAssumption DEF Item
  <2>. HIDE DEF c, new
  <2>. QED
    BY <1>0, <2>1, <2>2, RowOpened
<1>5. item' = item \/ (\E i \in Proposal : Insert(a, i)) \/ ExpireOld(a) \/ SubmitWrite(a)
  BY DEF AgentStep, Propose, AgentTo, RebasePlan, Reroute, ReplayCheck, Promote, Submit, AgentEnds
<1>. QED
  BY <1>1, <1>2, <1>3, <1>4, <1>5

LEMMA StepPromised == ASSUME IInv, [Next]_vars PROVE Promised
<1>0. Rows /\ History
  BY DEF IInv
<1>1. ASSUME UNCHANGED <<revisions, item>> PROVE Promised
  BY <1>1 DEF Promised
<1>2. ASSUME NEW m \in Map, MapStep(m) PROVE Promised
  <2>1. CASE Purge(m)
    <3>1. Ledger!Forget(m)
      BY <2>1 DEF Purge, Purgeable, Ledger!Forget
    <3>. QED
      BY <3>1 DEF Promised, Ledger!Next
  <2>2. CASE ~ Purge(m)
    BY <1>1, <1>2, <2>2 DEF MapStep, CreateMap, AdminRead
  <2>. QED
    BY <2>1, <2>2
<1>3. ASSUME NEW d \in Admin, AdminStep(d) PROVE Promised
  BY <1>1, <1>3 DEF AdminStep, AdminUpdate, AdminArchive
<1>4. ASSUME NEW s \in Saver, SaverStep(s) PROVE Promised
  <2>1. CASE LayoutCommit(s)
    <3> DEFINE v == saver[s]
    <3>1. /\ v.at = "checked" /\ Replaceable(v.map, v.graph, v.rev)
          /\ Replace(v.map, v.graph, v.layout) /\ SaverHolds(v, map, graph) /\ item' = item
      BY <2>1 DEF LayoutCommit, IInv, Savers
    <3>2. v.graph = graph[v.map]
      BY <3>1 DEF SaverHolds, Replaceable, Live, Active
    <3>. QED
      BY <1>1, <3>1, <3>2 DEF Replace
  <2>2. CASE ~ LayoutCommit(s)
    BY <1>1, <1>4, <2>2 DEF SaverStep, LayoutCheck
  <2>. QED
    BY <2>1, <2>2
<1>5. ASSUME NEW r \in Reviewer, ReviewStep(r) PROVE Promised
  <2>1. CASE Commit(r)
    <3>1. reviewer[r].item \in Proposal \cup Card
      BY <2>1 DEF IInv, Reviewers, ReviewerHolds, RowHeld, Commit, Item
    <3>. QED
      BY <2>1, <3>1, CommitAccepts, CardCommitAccepts
  <2>2. CASE ~ Commit(r)
    BY <1>1, <1>5, <2>2 DEF ReviewStep, ReviewRead, PlanRow, PlanGraph, ReadAgain, ReviewEnds, Hold
  <2>. QED
    BY <2>1, <2>2
<1>6. ASSUME NEW i \in Item, NEW verdict \in {"rejected", "expired"}, Decide(i, verdict)
      PROVE  Promised
  BY <1>6, RowClosed DEF Decide
<1>7. ASSUME NEW c \in Card, NoGraphImpact(c) PROVE Promised
  <2>1. c \in Item /\ c \notin Proposal /\ NoItem.state = "none"
    BY MapsAssumption DEF Item, NoItem
  <2>. QED
    BY <1>0, <1>7, <2>1, RowOpened DEF NoGraphImpact
<1>8. UNCHANGED vars => UNCHANGED <<revisions, item>>
  BY DEF vars
<1>. QED
  BY <1>1, <1>2, <1>3, <1>4, <1>5, <1>6, <1>7, <1>8, AgentPromised DEF Next

(* Reviews, rebases, submissions, layout saves and purges that interleave  *)
(* statement by statement behave, row by row and revision by revision, as  *)
(* the ledger of one decision at a time.                                   *)
THEOREM ReviewsAreAtomic == Spec => ReviewIsAtomic
<1>1. Init => Ledger!Init
  BY DEF Init, Ledger!Init, Ledger!NoItem, NoItem, Item
<1>2. IInv /\ [Next]_vars => [Ledger!Next]_<<revisions, item>>
  BY StepPromised DEF Promised
<1>3. Ledger!vars = <<revisions, item>>
  BY DEF Ledger!vars
<1>. QED
  BY <1>1, <1>2, <1>3, InitHolds, StepHolds, PTL DEF Spec, ReviewIsAtomic, Ledger!Spec, Ledger!vars

----------------------------------------------------------------------------
(* The graphs are valid.  The transaction that writes a graph does not     *)
(* validate it: the plan did, and the invariant says that what the plan    *)
(* found out about the graph of a proposal is still true at the commit.    *)
(* The cards are excluded: one may be written over and back between its    *)
(* plan and its commit.  Patches start from maps whose history is valid.   *)

SeedsAreValid == \A m \in Map : \A r \in DOMAIN Seed[m] : ValidGraph(Seed[m][r])

(* The search for cycles in a graph without nodes takes no round.          *)
LEMMA NothingToVisit == Visited(EmptyGraph) = {}
<1> DEFINE sem == {e \in DOMAIN EmptyGraph.edges : Semantic(EmptyGraph.edges[e].type)}
           ready(done) == {n \in DOMAIN EmptyGraph.nodes :
                             \A e \in sem : EmptyGraph.edges[e].dst = n => EmptyGraph.edges[e].src \in done}
           round[i \in 0 .. Cardinality(DOMAIN EmptyGraph.nodes)] ==
             IF i = 0 THEN {} ELSE round[i - 1] \cup ready(round[i - 1])
<1>1. Cardinality(DOMAIN EmptyGraph.nodes) = 0
  BY FS_EmptySet DEF EmptyGraph
<1>2. Visited(EmptyGraph) = round[0]
  BY <1>1 DEF Visited
<1>3. round = CHOOSE f : f = [i \in 0 .. 0 |-> IF i = 0 THEN {} ELSE f[i - 1] \cup ready(f[i - 1])]
  BY <1>1
<1>4. \A f : f = [i \in 0 .. 0 |-> {}] <=>
            f = [i \in 0 .. 0 |-> IF i = 0 THEN {} ELSE f[i - 1] \cup ready(f[i - 1])]
  OBVIOUS
<1>. HIDE DEF ready, round
<1>5. round = [i \in 0 .. 0 |-> IF i = 0 THEN {} ELSE round[i - 1] \cup ready(round[i - 1])]
  BY <1>3, <1>4, Zenon
<1>6. round[0] = {}
  BY <1>5
<1>. QED
  BY <1>2, <1>6

LEMMA EmptyIsValid == ValidGraph(EmptyGraph)
BY NothingToVisit DEF ValidGraph, NodesValid, EdgesValid, EmptyGraph

(* A layout save writes the graph it has loaded only while that is still   *)
(* the graph of the map.                                                   *)
LEMMA LayoutChangesNoGraph ==
  ASSUME IInv, NEW s \in Saver, LayoutCommit(s), NEW m \in Map
  PROVE  graph'[m] = graph[m]
<1> DEFINE v == saver[s]
<1>1. /\ v.at = "checked" /\ map[v.map].rev = v.rev /\ map[v.map].status = "active"
      /\ graph' = [graph EXCEPT ![v.map] = v.graph]
  BY DEF LayoutCommit, Replaceable, Replace, Active
<1>2. v.map \in Map /\ v.graph = graph[v.map]
  BY <1>1 DEF IInv, Savers, SaverHolds, Live
<1>3. DOMAIN graph = Map
  BY DEF IInv, History
<1>. QED
  BY <1>1, <1>2, <1>3

(* What the commit of a proposal writes has been validated. *)
LEMMA CommitIsValid ==
  ASSUME IInv, GraphIsValid, NEW r \in Reviewer, Commit(r), reviewer[r].item \in Proposal
  PROVE  GraphIsValid'
<1> DEFINE v == reviewer[r]
           m == item[v.item].map
<1>1. /\ v.graph = Merge(graph[m], v.row.patch) /\ graph' = [graph EXCEPT ![m] = v.graph]
      /\ Safe(v.row, v.rev, graph[m], Snapshot(m, v.row.base))
  BY CommitFacts
<1>2. ValidGraph(v.graph)
  BY <1>1 DEF Safe
<1>3. DOMAIN graph = Map
  BY DEF IInv, History
<1>. HIDE DEF v, m
<1>4. ASSUME NEW k \in Map PROVE graph'[k] = graph[k] \/ graph'[k] = v.graph
  BY <1>1, <1>3
<1>5. ASSUME NEW k \in Map PROVE ValidGraph(graph'[k])
  BY <1>2, <1>4 DEF GraphIsValid
<1>. QED
  BY <1>5 DEF GraphIsValid, ValidGraph

LEMMA StepKeepsValid ==
  ASSUME IInv, GraphIsValid, Card = {}, [Next]_vars
  PROVE  GraphIsValid'
<1>1. CASE \A m \in Map : graph'[m] = graph[m]
  <2>1. ASSUME NEW m \in Map PROVE ValidGraph(graph'[m])
    BY <1>1 DEF GraphIsValid
  <2>. QED
    BY <2>1 DEF GraphIsValid, ValidGraph
<1>2. ASSUME NEW m \in Map, MapStep(m) PROVE GraphIsValid'
  <2>1. CASE graph' = graph
    BY <1>1, <2>1
  <2>2. CASE graph' = [graph EXCEPT ![m] = EmptyGraph]
    <3>1. ASSUME NEW k \in Map PROVE ValidGraph(graph'[k])
      <4>1. graph'[k] = graph[k] \/ graph'[k] = EmptyGraph
        BY <2>2 DEF IInv, History
      <4>. QED
        BY <4>1, EmptyIsValid DEF GraphIsValid
    <3>. QED
      BY <3>1 DEF GraphIsValid, ValidGraph
  <2>. QED
    BY <1>2, <2>1, <2>2 DEF MapStep, CreateMap, Purge, AdminRead
<1>3. ASSUME NEW s \in Saver, SaverStep(s) PROVE GraphIsValid'
  <2>1. graph' = graph \/ LayoutCommit(s)
    BY <1>3 DEF SaverStep, LayoutCheck
  <2>. QED
    BY <1>1, <2>1, LayoutChangesNoGraph
<1>4. ASSUME NEW r \in Reviewer, ReviewStep(r) PROVE GraphIsValid'
  <2>1. CASE Commit(r)
    <3>1. reviewer[r].item \in Item
      BY <2>1 DEF IInv, Reviewers, ReviewerHolds, RowHeld, Commit
    <3>. QED
      BY <2>1, <3>1, CommitIsValid DEF Item
  <2>2. CASE ~ Commit(r)
    BY <1>1, <1>4, <2>2 DEF ReviewStep, ReviewRead, PlanRow, PlanGraph, ReadAgain, ReviewEnds, Hold
  <2>. QED
    BY <2>1, <2>2
<1>5. ASSUME NEW a \in Agent, AgentStep(a) PROVE graph' = graph
  BY <1>5 DEF AgentStep, Propose, AgentTo, Insert, RebasePlan, Reroute, ReplayCheck, ExpireOld,
         Promote, Submit, SubmitWrite, AgentEnds
<1>6. ASSUME NEW d \in Admin, AdminStep(d) PROVE graph' = graph
  BY <1>6 DEF AdminStep, AdminUpdate, AdminArchive
<1>7. /\ \A i \in Item, verdict \in {"rejected", "expired"} : Decide(i, verdict) => graph' = graph
      /\ \A c \in Card : NoGraphImpact(c) => graph' = graph
      /\ UNCHANGED vars => graph' = graph
  BY DEF Decide, NoGraphImpact, vars
<1>. QED
  BY <1>1, <1>2, <1>3, <1>4, <1>5, <1>6, <1>7 DEF Next

LEMMA InitIsValid == ASSUME Init, SeedsAreValid PROVE GraphIsValid
<1>. SUFFICES ASSUME NEW m \in Map PROVE ValidGraph(graph[m])
  BY DEF GraphIsValid
<1>1. graph[m] = IF Len(Seed[m]) = 0 THEN EmptyGraph ELSE Seed[m][Len(Seed[m])]
  BY DEF Init, Snapshot
<1>2. IsSeq(Seed[m])
  BY MapsAssumption, SeqIsSeq
<1>3. Len(Seed[m]) # 0 => Len(Seed[m]) \in DOMAIN Seed[m]
  BY <1>2 DEF IsSeq
<1>. QED
  BY <1>1, <1>3, EmptyIsValid DEF SeedsAreValid

(* While only proposals change the maps, every graph in the database is    *)
(* one that the validation accepts, though reviews, layout saves, purges   *)
(* and archivals interleave and no transaction validates what it writes.   *)
THEOREM GraphsAreValid == ASSUME SeedsAreValid, Card = {} PROVE Spec => []GraphIsValid
<1>1. IInv /\ GraphIsValid /\ [Next]_vars => GraphIsValid'
  BY StepKeepsValid
<1>2. Init => GraphIsValid
  BY InitIsValid
<1>. QED
  BY <1>1, <1>2, InitHolds, StepHolds, PTL DEF Spec

----------------------------------------------------------------------------
(* The types, of which IInv lacks the layouts: every node of a map has its *)
(* place, and so has every node of a graph that a request is about to      *)
(* write.                                                                  *)

PlacesOf(g) == [DOMAIN g.nodes -> Place]

Laid ==
  /\ DOMAIN layout = Map
  /\ \A m \in Map : layout[m] \in PlacesOf(graph[m])
  /\ \A m \in Map : map[m].status = "purged" => map[m].rev = 0

ToBeLaid ==
  /\ \A s \in Saver : saver[s].at = "checked" => saver[s].layout \in PlacesOf(saver[s].graph)
  /\ \A r \in Reviewer : reviewer[r].at = "merged" => reviewer[r].layout \in PlacesOf(reviewer[r].graph)

Busy ==
  /\ DOMAIN admin = Admin /\ \A d \in Admin : admin[d] # Idle => admin[d].map \in Map
  /\ \A r \in Reviewer : reviewer[r] = Idle \/ reviewer[r].at \in {"read", "planning", "planned", "merged"}

TInv == Laid /\ ToBeLaid /\ Busy

LEMMA TypesFollow == ASSUME IInv, TInv PROVE TypeOK
<1>1. MapType /\ Rows /\ History /\ Reviewers
  BY DEF IInv
<1>2. ASSUME NEW m \in Map
      PROVE  /\ DOMAIN layout[m] = DOMAIN graph[m].nodes
             /\ \A n \in DOMAIN layout[m] : layout[m][n] \in Place
             /\ map[m].status \in {"none", "purged"} => graph[m] = EmptyGraph
  <2>1. layout[m] \in PlacesOf(graph[m])
    BY DEF TInv, Laid
  <2>2. map[m].status \in {"none", "purged"} => map[m].rev = 0
    BY <1>1 DEF TInv, Laid, History, Created
  <2>3. graph[m] = Snapshot(m, map[m].rev)
    BY <1>1 DEF History, HistoryIsTrue
  <2>. QED
    BY <2>1, <2>2, <2>3 DEF PlacesOf, Snapshot
<1>3. ASSUME NEW r \in Reviewer, reviewer[r] # Idle
      PROVE  reviewer[r].row \in Row /\ reviewer[r].item \in Item
  BY <1>1, <1>3 DEF TInv, Busy, Reviewers, ReviewerHolds, RowHeld
<1>. QED
  BY <1>1, <1>2, <1>3 DEF TypeOK, MapType, MapRow, Status, Rows, TInv, Busy

LEMMA InitIsLaid == ASSUME Init PROVE TInv
<1>1. Laid
  BY MapsAssumption DEF Init, Laid, PlacesOf
<1>2. ToBeLaid /\ Busy
  BY DEF Init, ToBeLaid, Busy, Idle
<1>. QED
  BY <1>1, <1>2 DEF TInv

(* The write of a graph, whose places are those that the request holds.    *)
LEMMA ReplaceIsLaid ==
  ASSUME IInv, TInv, NEW m \in Map, NEW g, NEW places \in PlacesOf(g), Active(m), Replace(m, g, places)
  PROVE  Laid'
<1>1. DOMAIN layout = Map /\ DOMAIN graph = Map /\ map \in [Map -> MapRow]
  BY DEF TInv, Laid, IInv, History, MapType
<1>2. /\ graph' = [graph EXCEPT ![m] = g] /\ layout' = [layout EXCEPT ![m] = places]
      /\ map' = map \/ map' = [map EXCEPT ![m].rev = @ + 1]
  BY DEF Replace
<1>3. DOMAIN layout' = Map /\ layout'[m] = places /\ graph'[m] = g
  BY <1>1, <1>2
<1>4. map'[m].status = "active"
  BY <1>1, <1>2 DEF Active, MapRow
<1>5. ASSUME NEW k \in Map \ {m}
      PROVE  layout'[k] = layout[k] /\ graph'[k] = graph[k] /\ map'[k] = map[k]
  BY <1>1, <1>2
<1>. QED
  BY <1>3, <1>4, <1>5 DEF TInv, Laid, PlacesOf

LEMMA MapStepIsLaid == ASSUME IInv, TInv, NEW m \in Map, MapStep(m) PROVE TInv'
<1>1. DOMAIN layout = Map /\ DOMAIN graph = Map /\ map \in [Map -> MapRow] /\ DOMAIN admin = Admin
  BY DEF TInv, Laid, Busy, IInv, History, MapType
<1>2. ASSUME NEW role, CreateMap(m, role) PROVE Laid' /\ admin' = admin
  BY <1>1, <1>2 DEF CreateMap, TInv, Laid, PlacesOf
<1>3. CASE Purge(m)
  <2>1. Laid'
    <3>1. layout'[m] \in PlacesOf(graph'[m]) /\ map'[m].rev = 0 /\ DOMAIN layout' = Map
      BY <1>1, <1>3 DEF Purge, PlacesOf, EmptyGraph
    <3>2. ASSUME NEW k \in Map \ {m}
          PROVE  layout'[k] = layout[k] /\ graph'[k] = graph[k] /\ map'[k] = map[k]
      BY <1>1, <1>3 DEF Purge
    <3>. QED
      BY <3>1, <3>2 DEF TInv, Laid, PlacesOf
  <2>. QED
    BY <1>3, <2>1 DEF TInv, ToBeLaid, Busy, PlacesOf, Purge
<1>4. ASSUME NEW d \in Admin, AdminRead(d, m) PROVE TInv'
  <2>1. Busy'
    BY <1>1, <1>4 DEF AdminRead, TInv, Busy
  <2>. QED
    BY <1>4, <2>1 DEF AdminRead, TInv, Laid, ToBeLaid, PlacesOf
<1>. QED
  BY <1>2, <1>3, <1>4 DEF MapStep, CreateMap, TInv, ToBeLaid, Busy, PlacesOf

LEMMA AdminStepIsLaid == ASSUME IInv, TInv, NEW d \in Admin, AdminStep(d) PROVE TInv'
<1>1. map \in [Map -> MapRow] /\ DOMAIN admin = Admin
  BY DEF TInv, Busy, IInv, MapType
<1>2. /\ UNCHANGED <<graph, layout, revisions, item, reviewer, agent, saver>>
      /\ admin' = [admin EXCEPT ![d] = Idle] /\ admin[d].at = "read"
  BY DEF AdminStep, AdminUpdate, AdminArchive, AdminDone
<1> DEFINE k == admin[d].map
           Written(role, status) == [map EXCEPT ![k].role = role, ![k].status = status]
<1>3. \/ map' = map
      \/ \E role \in {"primary", "secondary", "archive"}, status \in {"active", "archived"} :
           map' = Written(role, status)
  BY DEF AdminStep, AdminUpdate, AdminArchive
<1>4. ASSUME NEW m \in Map PROVE map'[m].status = "purged" => map'[m].rev = 0
  <2>1. map[m].status = "purged" => map[m].rev = 0
    BY DEF TInv, Laid
  <2>2. ASSUME NEW role, NEW status \in {"active", "archived"}, map' = Written(role, status)
        PROVE  map'[m] = map[m] \/ map'[m].status = status
    BY <1>1, <2>2 DEF MapRow
  <2>. QED
    BY <1>3, <2>1, <2>2
<1>5. Laid' /\ ToBeLaid'
  BY <1>2, <1>4 DEF TInv, Laid, ToBeLaid, PlacesOf
<1>6. Busy'
  BY <1>1, <1>2 DEF TInv, Busy
<1>. QED
  BY <1>5, <1>6 DEF TInv

LEMMA SaverStepIsLaid == ASSUME IInv, TInv, NEW s \in Saver, SaverStep(s) PROVE TInv'
<1>1. DOMAIN saver = Saver
  BY DEF IInv, Savers
<1>2. ASSUME NEW m \in Map, NEW k \in 0 .. MaxRev, NEW n \in DOMAIN graph[m].nodes, NEW q \in Place,
             LayoutCheck(s, m, k, n, q)
      PROVE  TInv'
  <2>1. layout[m] \in PlacesOf(graph[m])
    BY DEF TInv, Laid
  <2>2. [layout[m] EXCEPT ![n] = q] \in PlacesOf(graph[m])
    BY <2>1 DEF PlacesOf
  <2>3. ToBeLaid'
    BY <1>1, <1>2, <2>2 DEF LayoutCheck, TInv, ToBeLaid, PlacesOf
  <2>. QED
    BY <1>2, <2>3 DEF LayoutCheck, TInv, Laid, Busy, PlacesOf
<1>3. CASE LayoutCommit(s)
  <2> DEFINE v == saver[s]
  <2>1. /\ v.at = "checked" /\ Active(v.map) /\ Replace(v.map, v.graph, v.layout)
        /\ saver' = [saver EXCEPT ![s] = Idle] /\ UNCHANGED <<reviewer, admin>>
    BY <1>3 DEF LayoutCommit, Replaceable
  <2>2. v.map \in Map /\ v.layout \in PlacesOf(v.graph)
    BY <2>1 DEF IInv, Savers, SaverHolds, TInv, ToBeLaid
  <2>3. Laid'
    BY <2>1, <2>2, ReplaceIsLaid
  <2>. QED
    BY <1>1, <2>1, <2>3 DEF TInv, ToBeLaid, Busy, Idle, PlacesOf
<1>4. CASE saver' = [saver EXCEPT ![s] = Idle]
           /\ UNCHANGED <<map, graph, layout, revisions, item, reviewer, agent, admin>>
  BY <1>1, <1>4 DEF TInv, Laid, ToBeLaid, Busy, Idle, PlacesOf
<1>. QED
  BY <1>2, <1>3, <1>4 DEF SaverStep

LEMMA ReviewStepIsLaid == ASSUME IInv, TInv, NEW r \in Reviewer, ReviewStep(r) PROVE TInv'
<1> DEFINE v == reviewer[r]
<1>1. DOMAIN reviewer = Reviewer /\ DOMAIN layout = Map
  BY DEF IInv, Reviewers, TInv, Laid
<1>2. ASSUME NEW next, Hold(r, next), next = Idle \/ next.at \in {"read", "planning", "planned", "merged"},
             next.at = "merged" => next.layout \in PlacesOf(next.graph)
      PROVE  TInv'
  <2>1. /\ reviewer' = [reviewer EXCEPT ![r] = next]
        /\ UNCHANGED <<map, graph, layout, saver, admin>>
    BY <1>2 DEF Hold
  <2>. QED
    BY <1>1, <1>2, <2>1 DEF TInv, Laid, ToBeLaid, Busy, PlacesOf
<1>3. CASE (\E i \in Item : ReviewRead(r, i)) \/ PlanRow(r) \/ PlanGraph(r) \/ ReviewEnds(r)
  <2> DEFINE Early(next) == next = Idle \/ next.at \in {"read", "planning", "planned"}
             planning == [at |-> "planning", item |-> v.item, row |-> v.row, plan |-> item[v.item],
                          rev |-> map[item[v.item].map].rev, role |-> map[item[v.item].map].role]
             planned == [at |-> "planned", item |-> v.item, row |-> v.row, rev |-> v.rev]
  <2>3. ASSUME NEW i \in Item, ReviewRead(r, i) PROVE \E next : Hold(r, next) /\ Early(next)
    BY <2>3 DEF ReviewRead
  <2>4. PlanRow(r) => Hold(r, planning) /\ Early(planning)
    BY DEF PlanRow
  <2>5. PlanGraph(r) => Hold(r, planned) /\ Early(planned)
    BY DEF PlanGraph
  <2>6. ReviewEnds(r) => Hold(r, Idle) /\ Early(Idle)
    BY DEF ReviewEnds
  <2>. HIDE DEF planning, planned
  <2>1. PICK next : Hold(r, next) /\ Early(next)
    BY <1>3, <2>3, <2>4, <2>5, <2>6
  <2>2. next.at # "merged"
    BY <2>1 DEF Idle
  <2>. QED
    BY <1>2, <2>1, <2>2
<1>4. CASE ReadAgain(r)
  <2> DEFINE m == v.row.map
             merged == Merge(graph[m], v.row.patch)
             places == Places(m, merged, v.row.patch.delNodes)
             next == [at |-> "merged", item |-> v.item, row |-> v.row, rev |-> v.rev,
                      graph |-> merged, layout |-> places]
  <2>1. v.at = "planned" /\ Hold(r, next)
    BY <1>4 DEF ReadAgain
  <2>2. m \in Map
    BY <2>1 DEF IInv, Reviewers, ReviewerHolds, RowHeld
  <2>3. \A n \in DOMAIN layout[m] : layout[m][n] \in Place
    BY <2>2 DEF TInv, Laid, PlacesOf
  <2>. HIDE DEF merged, m
  <2>4. places \in PlacesOf(merged)
    BY <2>3, MapsAssumption DEF Places, PlacesOf
  <2>5. next.at = "merged" /\ next.layout = places /\ next.graph = merged
    OBVIOUS
  <2>. HIDE DEF next, places
  <2>. QED
    BY <1>2, <2>1, <2>4, <2>5
<1>5. CASE Commit(r)
  <2>1. /\ v.at = "merged" /\ Active(v.row.map) /\ Replace(v.row.map, v.graph, v.layout)
        /\ reviewer' = [reviewer EXCEPT ![r] = Idle] /\ UNCHANGED <<saver, admin>>
    BY <1>5 DEF Commit, Replaceable
  <2>2. v.row.map \in Map /\ v.layout \in PlacesOf(v.graph)
    BY <2>1 DEF IInv, Reviewers, ReviewerHolds, RowHeld, TInv, ToBeLaid
  <2>3. Laid'
    BY <2>1, <2>2, ReplaceIsLaid
  <2>. QED
    BY <1>1, <2>1, <2>3 DEF TInv, ToBeLaid, Busy, Idle, PlacesOf
<1>. QED
  BY <1>3, <1>4, <1>5 DEF ReviewStep

LEMMA StepIsLaid == ASSUME IInv, TInv, [Next]_vars PROVE TInv'
<1>1. CASE UNCHANGED <<map, graph, layout, saver, reviewer, admin>>
  BY <1>1 DEF TInv, Laid, ToBeLaid, Busy, PlacesOf
<1>2. ASSUME NEW a \in Agent, AgentStep(a) PROVE UNCHANGED <<map, graph, layout, saver, reviewer, admin>>
  BY <1>2 DEF AgentStep, Propose, AgentTo, Insert, RebasePlan, Reroute, ReplayCheck, ExpireOld,
         Promote, Submit, SubmitWrite, AgentEnds
<1>3. \/ \E i \in Item, verdict \in {"rejected", "expired"} : Decide(i, verdict)
      \/ \E c \in Card : NoGraphImpact(c)
      \/ UNCHANGED vars
      => UNCHANGED <<map, graph, layout, saver, reviewer, admin>>
  BY DEF Decide, NoGraphImpact, vars
<1>. QED
  BY <1>1, <1>2, <1>3, MapStepIsLaid, AdminStepIsLaid, SaverStepIsLaid, ReviewStepIsLaid DEF Next

(* The rows of the database and what every request holds have their types, *)
(* for any requests: a map that is gone has no graph, every node that is   *)
(* there has one place, and a review holds a row of an item that exists.   *)
THEOREM TypesHold == Spec => []TypeOK
<1>1. IInv /\ TInv /\ [Next]_vars => TInv'
  BY StepIsLaid
<1>2. Init => TInv
  BY InitIsLaid
<1>3. IInv /\ TInv => TypeOK
  BY TypesFollow
<1>. QED
  BY <1>1, <1>2, <1>3, InitHolds, StepHolds, PTL DEF Spec
=============================================================================
