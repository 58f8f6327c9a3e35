---------------------------- MODULE EvidenceMaps ----------------------------
(***************************************************************************)
(* The evidence maps of a project, the proposals and run cards that change *)
(* them, and the processes that work on them: aexp serve, the CLI and MCP  *)
(* open the same SQLite file, so that a review, a rebase, a layout save    *)
(* and an archival interleave between any two statements that are not in   *)
(* one transaction (internal/store/evidence_workspace.go,                  *)
(* evidence_proposal.go, evidence_reorganization.go, evidence_promotion.go *)
(* and sqlite.go).                                                         *)
(*                                                                         *)
(* An item is a row that carries a patch: a proposal of the workspace or   *)
(* the card of a run.  Its hash is modelled by what is hashed: map, base   *)
(* and patch.                                                              *)
(***************************************************************************)
EXTENDS EvidenceGraph, Sequences

CONSTANTS
  Map,          \* the evidence maps of one project
  Proposal,     \* rows of evidence_proposals
  Card,         \* rows of project_run_cards
  Reviewer,     \* requests that accept an item
  Agent,        \* requests and commands that create, reroute or rebase items
  Saver,        \* requests that save a layout
  Admin,        \* requests that update or archive a map
  Patch,        \* the patches agents write into proposals
  CardPatch,    \* and into cards
  Seed,         \* the history a map has when the model starts
  Place,        \* places of a node on the canvas
  MaxRev        \* bound: accepted revisions of a map

Home == 0       \* where the canvas puts a new node

ASSUME MapsAssumption ==
  /\ MaxRev \in Nat /\ Home \in Place
  /\ None \notin Map \cup Proposal \cup Card
  /\ Proposal \cap Card = {}
  /\ Seed \in [Map -> Seq(UNION {{Seed[m][r] : r \in DOMAIN Seed[m]} : m \in Map})]
  /\ \A m \in Map : Len(Seed[m]) <= MaxRev
  /\ \A p \in Patch \cup CardPatch : \A n \in DOMAIN p.nodes :
       p.nodes[n] = [field \in DOMAIN p.nodes[n] |-> p.nodes[n][field]]

VARIABLES
  map,          \* row of evidence_chains: status, role, rev
  graph,        \* rows of evidence_chain_nodes and _edges, without layout
  layout,       \* the places of the nodes of a map
  revisions,    \* rows of evidence_chain_revisions
  item,         \* the proposals and the cards
  reviewer, agent, saver, admin

vars == <<map, graph, layout, revisions, item, reviewer, agent, saver, admin>>

Item == Proposal \cup Card

NoItem == [state |-> "none", map |-> None, base |-> 0, patch |-> None, retry |-> FALSE]

Idle == [at |-> "idle"]

Snapshot(m, r) == IF r = 0 THEN EmptyGraph ELSE revisions[m][r]

Init ==
  /\ map = [m \in Map |-> [status |-> IF Seed[m] = << >> THEN "none" ELSE "active",
                           role |-> "secondary", rev |-> Len(Seed[m])]]
  /\ revisions = Seed
  /\ graph = [m \in Map |-> Snapshot(m, Len(Seed[m]))]
  /\ layout = [m \in Map |-> [n \in DOMAIN graph[m].nodes |-> Home]]
  /\ item = [i \in Item |-> NoItem]
  /\ reviewer = [r \in Reviewer |-> Idle]
  /\ agent = [a \in Agent |-> Idle]
  /\ saver = [s \in Saver |-> Idle]
  /\ admin = [d \in Admin |-> Idle]

Active(m) == map[m].status = "active"

Exists(m) == map[m].status \in {"active", "archived"}

IsPrimary(m) == map[m].role = "primary" /\ Active(m)

----------------------------------------------------------------------------
(* The maps themselves *)

(* EnsureProjectPrimaryEvidenceChain and CreateEvidenceChain.  The partial *)
(* unique index admits one active primary map of a project.                *)
CreateMap(m, role) ==
  /\ map[m].status = "none"
  /\ role = "primary" => ~ \E k \in Map : IsPrimary(k)
  /\ map' = [map EXCEPT ![m] = [status |-> "active", role |-> role, rev |-> 0]]
  /\ UNCHANGED <<graph, layout, revisions, item, reviewer, agent, saver, admin>>

(* handleUpdateEvidenceChain and handleDeleteEvidenceChain read the row    *)
(* and write it back whole; the row may have changed in between.           *)
AdminRead(d, m) ==
  /\ admin[d] = Idle /\ Exists(m)
  /\ admin' = [admin EXCEPT ![d] = [at |-> "read", map |-> m, status |-> map[m].status,
                                    role |-> map[m].role]]
  /\ UNCHANGED <<map, graph, layout, revisions, item, reviewer, agent, saver>>

AdminDone(d) == admin' = [admin EXCEPT ![d] = Idle]

AdminUpdate(d, role, status) ==
  /\ admin[d].at = "read"
  /\ admin[d].role = "primary" => role = "primary" /\ status = "active"
  /\ LET m == admin[d].map IN
       /\ role = "primary" /\ status = "active" => ~ \E k \in Map \ {m} : IsPrimary(k)
       /\ map' = IF ~ Exists(m) THEN map
                 ELSE [map EXCEPT ![m].role = role, ![m].status = status]
  /\ AdminDone(d)
  /\ UNCHANGED <<graph, layout, revisions, item, reviewer, agent, saver>>

AdminArchive(d) ==
  /\ admin[d].at = "read" /\ admin[d].role # "primary"
  /\ LET m == admin[d].map IN
       map' = IF ~ Exists(m) THEN map
              ELSE [map EXCEPT ![m].role = "archive", ![m].status = "archived"]
  /\ AdminDone(d)
  /\ UNCHANGED <<graph, layout, revisions, item, reviewer, agent, saver>>

References(g) == {g.nodes[n].ref : n \in {x \in DOMAIN g.nodes : g.nodes[x].type = "map_ref"}}

(* PurgeEvidenceChain, one transaction.  Its revisions go with the map.    *)
Purgeable(m) ==
  /\ Exists(m) /\ map[m].role # "primary"
  /\ \A i \in Proposal : item[i].map # m
  /\ map[m].status = "archived" \/ (map[m].rev = 0 /\ DOMAIN graph[m].nodes = {})
  /\ \A k \in Map : \A ref \in References(graph[k]) : ref.map # m

Purge(m) ==
  /\ Purgeable(m)
  /\ map' = [map EXCEPT ![m] = [status |-> "purged", role |-> "secondary", rev |-> 0]]
  /\ graph' = [graph EXCEPT ![m] = EmptyGraph]
  /\ layout' = [layout EXCEPT ![m] = [n \in {} |-> Home]]
  /\ revisions' = [revisions EXCEPT ![m] = << >>]
  /\ UNCHANGED <<item, reviewer, agent, saver, admin>>

----------------------------------------------------------------------------
(* Writing a graph: replaceEvidenceGraphTx.  Node and edge ids are primary *)
(* keys of tables that all maps share.                                     *)

\* Mutant: any revision will do.
Replaceable_Any(m, g, expected) ==
  /\ Active(m)
  /\ \A k \in Map \ {m} : /\ DOMAIN graph[k].nodes \cap DOMAIN g.nodes = {}
                          /\ DOMAIN graph[k].edges \cap DOMAIN g.edges = {}

Replaceable(m, g, expected) ==
  /\ Active(m) /\ map[m].rev = expected
  /\ \A k \in Map \ {m} : /\ DOMAIN graph[k].nodes \cap DOMAIN g.nodes = {}
                          /\ DOMAIN graph[k].edges \cap DOMAIN g.edges = {}

\* Mutant: saving a layout is a revision too, of which no snapshot is taken.
Replace_Counted(m, g, places) ==
  /\ graph' = [graph EXCEPT ![m] = g]
  /\ layout' = [layout EXCEPT ![m] = places]
  /\ map[m].rev < MaxRev
  /\ map' = [map EXCEPT ![m].rev = @ + 1]
  /\ revisions' = IF g = graph[m] THEN revisions ELSE [revisions EXCEPT ![m] = Append(@, g)]

Replace(m, g, places) ==
  /\ graph' = [graph EXCEPT ![m] = g]
  /\ layout' = [layout EXCEPT ![m] = places]
  /\ IF g = graph[m] THEN UNCHANGED <<map, revisions>>
     ELSE /\ map[m].rev < MaxRev
          /\ map' = [map EXCEPT ![m].rev = @ + 1]
          /\ revisions' = [revisions EXCEPT ![m] = Append(@, g)]

(* ValidateEvidenceMapReferences. *)
ReferencesValid(m, role, g) ==
  \A ref \in References(g) :
    /\ role = "primary" /\ ref.map # m
    /\ Exists(ref.map) /\ map[ref.map].role # "primary"
    /\ ref.rev \in 1 .. Len(revisions[ref.map])

(* SaveEvidenceChainGraphCAS for the canvas: the graph that the client     *)
(* loaded at some revision, with a node moved.                             *)
LayoutCheck(s, m, expected, n, place) ==
  /\ saver[s] = Idle /\ Active(m)
  /\ expected \in 0 .. map[m].rev /\ Snapshot(m, expected) = graph[m]
  /\ n \in DOMAIN graph[m].nodes
  /\ ReferencesValid(m, map[m].role, graph[m])
  /\ saver' = [saver EXCEPT ![s] = [at |-> "checked", map |-> m, rev |-> expected,
                                    graph |-> graph[m],
                                    layout |-> [layout[m] EXCEPT ![n] = place]]]
  /\ UNCHANGED <<map, graph, layout, revisions, item, reviewer, agent, admin>>

LayoutCommit(s) ==
  /\ saver[s].at = "checked"
  /\ Replaceable(saver[s].map, saver[s].graph, saver[s].rev)
  /\ Replace(saver[s].map, saver[s].graph, saver[s].layout)
  /\ saver' = [saver EXCEPT ![s] = Idle]
  /\ UNCHANGED <<item, reviewer, agent, admin>>

----------------------------------------------------------------------------
(* Creating items *)

SameHash(x, y) == x.map = y.map /\ x.base = y.base /\ x.patch = y.patch

AgentTo(a, next) ==
  /\ agent' = [agent EXCEPT ![a] = next]
  /\ UNCHANGED <<map, graph, layout, revisions, item, reviewer, saver, admin>>

Checked(m, p, old) ==
  [at |-> "checked", map |-> m, base |-> IF m = None THEN 0 ELSE map[m].rev, patch |-> p,
   old |-> old]

(* CreateEvidenceProposal up to its lookup by hash: the map is read, and   *)
(* its revision becomes the base.  Without a map the proposal is a draft.  *)
Propose(a, m, p) ==
  /\ agent[a] = Idle /\ (m # None => Active(m))
  /\ AgentTo(a, Checked(m, p, None))

\* Mutant: a proposal without a map is not a draft.
Insert_Pending(a, i) ==
  /\ agent[a].at = "checked" /\ item[i].state = "none"
  /\ item' = [item EXCEPT ![i] = [state |-> "pending", map |-> agent[a].map, base |-> agent[a].base,
                                  patch |-> agent[a].patch, retry |-> FALSE]]
  /\ agent' = [agent EXCEPT ![a] = Idle]
  /\ UNCHANGED <<map, graph, layout, revisions, reviewer, saver, admin>>

(* The rest of it.  A row with the same hash that is open is returned; one *)
(* that was rejected or expired is tried again under another hash.         *)
Insert(a, i) ==
  LET c == agent[a]
      same == {j \in Proposal : item[j].state # "none" /\ ~ item[j].retry
                                 /\ SameHash(item[j], c)}
      next(j) == IF c.old = None \/ c.old = j THEN Idle
                 ELSE [at |-> "expire", old |-> c.old]
  IN  /\ c.at = "checked"
      /\ \/ /\ i \in same /\ item[i].state \in {"draft", "pending"}
            /\ item' = item
         \/ /\ item[i].state = "none"
            /\ \A j \in same : item[j].state \in {"rejected", "expired"}
            /\ c.map # None => Exists(c.map)
            /\ item' = [item EXCEPT ![i] =
                 [state |-> IF c.map = None THEN "draft" ELSE "pending", map |-> c.map,
                  base |-> c.base, patch |-> c.patch, retry |-> same # {}]]
      /\ agent' = [agent EXCEPT ![a] = next(i)]
      /\ UNCHANGED <<map, graph, layout, revisions, reviewer, saver, admin>>

Replay(m, p, old) == [at |-> "replay", map |-> m, patch |-> p, old |-> old]

ReplayCheck(a) ==
  /\ agent[a].at = "replay" /\ Active(agent[a].map)
  /\ AgentTo(a, Checked(agent[a].map, agent[a].patch, agent[a].old))

(* RebaseEvidenceProposal: the plan, a replacement, and then the end of    *)
(* the old proposal.                                                       *)
RebasePlan(a, i) ==
  /\ agent[a] = Idle /\ i \in Proposal /\ item[i].state = "pending" /\ Exists(item[i].map)
  /\ map[item[i].map].rev # item[i].base
  /\ RebaseSafe(Snapshot(item[i].map, item[i].base), graph[item[i].map], item[i].patch)
  /\ AgentTo(a, Replay(item[i].map, item[i].patch, i))

(* RerouteEvidenceProposal. *)
Reroute(a, i, m) ==
  /\ agent[a] = Idle /\ item[i].state \in {"draft", "pending"}
  /\ AgentTo(a, Replay(m, item[i].patch, i))

ExpireOld(a) ==
  /\ agent[a].at = "expire"
  /\ item[agent[a].old].state \in {"draft", "pending"}
  /\ item' = [item EXCEPT ![agent[a].old].state = "expired"]
  /\ agent' = [agent EXCEPT ![a] = Idle]
  /\ UNCHANGED <<map, graph, layout, revisions, reviewer, saver, admin>>

(* CreateEvidencePromotion: the plan of the request is computed again and  *)
(* must be the one the user saw.  The ids are derived from the plan.  One  *)
(* node stands for the summary, the reference and their neutral edge.      *)
RefNode(t, r) ==
  [type |-> "map_ref", kind |-> "", disp |-> "", why |-> FALSE, src |-> None, run |-> None,
   group |-> None, text |-> "", ref |-> [map |-> t, rev |-> r]]

RefPatch(t, r) ==
  [nodes |-> [n \in {<<t, r>>} |-> RefNode(t, r)], edges |-> EmptyGraph.edges,
   upEdges |-> EmptyGraph.edges, delNodes |-> {}, delEdges |-> {}]

Promote(a, t, m) ==
  LET p == RefPatch(t, map[t].rev)
      merged == Merge(graph[m], p)
  IN  /\ agent[a] = Idle /\ IsPrimary(m)
      /\ Exists(t) /\ map[t].role # "primary" /\ map[t].rev > 0
      /\ ValidGraph(merged) /\ ReferencesValid(m, "primary", merged)
      /\ AgentTo(a, Replay(m, p, None))

(* SubmitEvidenceGraphProposal: the card is looked at first and written    *)
(* over at the end.  The client may name the base it has seen.             *)
Submit(a, c, m, p, base) ==
  /\ agent[a] = Idle /\ item[c].state # "accepted" /\ Active(m)
  /\ base \in 0 .. map[m].rev
  /\ ~ (item[c].state # "none" /\ SameHash(item[c], [map |-> m, base |-> base, patch |-> p]))
  /\ AgentTo(a, [at |-> "submit", card |-> c, map |-> m, patch |-> p, base |-> base])

SubmitWrite(a) ==
  LET c == agent[a] IN
  /\ c.at = "submit"
  /\ item' = [item EXCEPT ![c.card] = [state |-> "pending", map |-> c.map, base |-> c.base,
                                       patch |-> c.patch, retry |-> FALSE]]
  /\ agent' = [agent EXCEPT ![a] = Idle]
  /\ UNCHANGED <<map, graph, layout, revisions, reviewer, saver, admin>>

NoGraphImpact(c) ==
  /\ item[c] # NoItem
  /\ item' = [item EXCEPT ![c] = NoItem]
  /\ UNCHANGED <<map, graph, layout, revisions, reviewer, agent, saver, admin>>

(* The process dies, or the request fails where it stands.                 *)
AgentEnds(a) == agent[a] # Idle /\ AgentTo(a, Idle)

----------------------------------------------------------------------------
(* Reviewing: ReviewEvidenceProposal and ReviewEvidenceGraphProposal *)

Hold(r, next) ==
  /\ reviewer' = [reviewer EXCEPT ![r] = next]
  /\ UNCHANGED <<map, graph, layout, revisions, item, agent, saver, admin>>

(* Reject and expire are one compare-and-set.                              *)
Decide(i, verdict) ==
  /\ item[i].state = "pending" /\ verdict \in {"rejected", "expired"}
  /\ item' = [item EXCEPT ![i].state = verdict]
  /\ UNCHANGED <<map, graph, layout, revisions, reviewer, agent, saver, admin>>

(* Accept: the row is read,                                                *)
ReviewRead(r, i) ==
  /\ reviewer[r] = Idle /\ item[i].state = "pending"
  /\ Hold(r, [at |-> "read", item |-> i, row |-> item[i]])

(* the plan reads it again, with the revision of its map,                  *)
PlanRow(r) ==
  LET v == reviewer[r] IN
  /\ v.at = "read" /\ item[v.item].state = "pending" /\ Active(item[v.item].map)
  /\ Hold(r, [at |-> "planning", item |-> v.item, row |-> v.row, plan |-> item[v.item],
              rev |-> map[item[v.item].map].rev, role |-> map[item[v.item].map].role])

(* and then the graph: a stale patch must be safe to replay, and the       *)
(* merged graph valid and eligible.                                        *)
PlanAllows(m, plan, rev, role, strict) ==
  LET merged == Merge(graph[m], plan.patch) IN
  /\ plan.base # rev => RebaseSafe(Snapshot(m, plan.base), graph[m], plan.patch)
  /\ ValidGraph(merged)
  /\ Eligible(graph[m], merged, plan.patch)
  /\ ThreadContract(graph[m], merged, plan.patch)
  /\ strict => ReferencesValid(m, role, merged)

PlanGraph(r) ==
  LET v == reviewer[r] IN
  /\ v.at = "planning" /\ Exists(v.plan.map)
  /\ PlanAllows(v.plan.map, v.plan, v.rev, v.role, v.item \in Proposal)
  /\ Hold(r, [at |-> "planned", item |-> v.item, row |-> v.row, rev |-> v.rev])

(* The graph is read once more and merged; a node that stays keeps the     *)
(* place it has in this reading.                                           *)
Places(m, g, gone) ==
  [n \in DOMAIN g.nodes |-> IF n \in DOMAIN layout[m] \ gone THEN layout[m][n] ELSE Home]

ReadAgain(r) ==
  LET v == reviewer[r]
      m == v.row.map
      merged == Merge(graph[m], v.row.patch)
  IN  /\ v.at = "planned" /\ Exists(m)
      /\ Hold(r, [at |-> "merged", item |-> v.item, row |-> v.row, rev |-> v.rev,
                  graph |-> merged, layout |-> Places(m, merged, v.row.patch.delNodes)])

(* One transaction writes the graph, if the map still has the revision of  *)
(* the plan, and the item, if it is pending and has the hash of the row.   *)
\* Mutant: the state of the item is not looked at again.
Commit_Blind(r) ==
  LET v == reviewer[r] IN
  /\ v.at = "merged"
  /\ Replaceable(v.row.map, v.graph, v.rev)
  /\ Replace(v.row.map, v.graph, v.layout)
  /\ item' = [item EXCEPT ![v.item].state = "accepted"]
  /\ reviewer' = [reviewer EXCEPT ![r] = Idle]
  /\ UNCHANGED <<agent, saver, admin>>

Commit(r) ==
  LET v == reviewer[r] IN
  /\ v.at = "merged"
  /\ Replaceable(v.row.map, v.graph, v.rev)
  /\ item[v.item].state = "pending" /\ SameHash(item[v.item], v.row)
  /\ Replace(v.row.map, v.graph, v.layout)
  /\ item' = [item EXCEPT ![v.item].state = "accepted"]
  /\ reviewer' = [reviewer EXCEPT ![r] = Idle]
  /\ UNCHANGED <<agent, saver, admin>>

ReviewEnds(r) == reviewer[r] # Idle /\ Hold(r, Idle)

----------------------------------------------------------------------------
MapStep(m) ==
  \/ \E role \in {"primary", "secondary"} : CreateMap(m, role)
  \/ Purge(m)
  \/ \E d \in Admin : AdminRead(d, m)

AdminStep(d) ==
  \/ \E role \in {"primary", "secondary", "archive"}, status \in {"active", "archived"} :
       AdminUpdate(d, role, status)
  \/ AdminArchive(d)

SaverStep(s) ==
  \/ \E m \in Map, r \in 0 .. MaxRev : \E n \in DOMAIN graph[m].nodes, q \in Place :
       LayoutCheck(s, m, r, n, q)
  \/ LayoutCommit(s)
  \/ saver[s] # Idle /\ saver' = [saver EXCEPT ![s] = Idle]
       /\ UNCHANGED <<map, graph, layout, revisions, item, reviewer, agent, admin>>

AgentStep(a) ==
  \/ \E m \in Map \cup {None}, p \in Patch : Propose(a, m, p)
  \/ \E i \in Proposal : Insert(a, i) \/ RebasePlan(a, i)
                          \/ \E m \in Map : Reroute(a, i, m)
  \/ ReplayCheck(a)
  \/ ExpireOld(a)
  \/ \E t, m \in Map : Promote(a, t, m)
  \/ \E c \in Card, m \in Map, p \in CardPatch, r \in 0 .. MaxRev : Submit(a, c, m, p, r)
  \/ SubmitWrite(a)
  \/ AgentEnds(a)

ReviewStep(r) ==
  \/ \E i \in Item : ReviewRead(r, i)
  \/ PlanRow(r) \/ PlanGraph(r) \/ ReadAgain(r) \/ Commit(r) \/ ReviewEnds(r)

Next ==
  \/ \E m \in Map : MapStep(m)
  \/ \E d \in Admin : AdminStep(d)
  \/ \E s \in Saver : SaverStep(s)
  \/ \E a \in Agent : AgentStep(a)
  \/ \E r \in Reviewer : ReviewStep(r)
  \/ \E i \in Item, verdict \in {"rejected", "expired"} : Decide(i, verdict)
  \/ \E c \in Card : NoGraphImpact(c)

Spec == Init /\ [][Next]_vars

----------------------------------------------------------------------------
(* Properties *)

Patches == Patch \cup CardPatch \cup {RefPatch(t, r) : t \in Map, r \in 1 .. MaxRev}

Row == [state : {"none", "draft", "pending", "accepted", "rejected", "expired"},
        map : Map \cup {None}, base : 0 .. MaxRev, patch : Patches \cup {None}, retry : BOOLEAN]

(* The rows of the database and what each request holds.                   *)
TypeOK ==
  /\ map \in [Map -> [status : {"none", "active", "archived", "purged"},
                      role : {"primary", "secondary", "archive"}, rev : 0 .. MaxRev]]
  /\ item \in [Item -> Row]
  /\ \A i \in Item : item[i].state \in {"pending", "accepted"} => item[i].map \in Map
  /\ \A m \in Map : /\ DOMAIN layout[m] = DOMAIN graph[m].nodes
                    /\ \A n \in DOMAIN layout[m] : layout[m][n] \in Place
                    /\ map[m].status \in {"none", "purged"} => graph[m] = EmptyGraph
  /\ \A r \in Reviewer : reviewer[r] # Idle => reviewer[r].row \in Row /\ reviewer[r].item \in Item
  /\ \A d \in Admin : admin[d] # Idle => admin[d].map \in Map

(* The immutable revisions tell the whole history of a map: its number is  *)
(* the last of them and its graph is what that one says.  The three-way    *)
(* comparison of a stale patch is made against them.                       *)
HistoryIsTrue ==
  \A m \in Map : map[m].rev = Len(revisions[m]) /\ graph[m] = Snapshot(m, map[m].rev)

(* Every graph in the database is one that the validation accepts, though  *)
(* the transaction that writes it does not validate.                       *)
GraphIsValid == \A m \in Map : ValidGraph(graph[m])

(* A proposal that is accepted leaves alone everything that was added,     *)
(* changed or removed on its map after the revision it was written for.    *)
Same(f, g, x) == (x \in DOMAIN f <=> x \in DOMAIN g) /\ (x \in DOMAIN f => f[x] = g[x])

Kept(base, now, next) ==
  /\ \A n \in DOMAIN base.nodes \cup DOMAIN now.nodes :
       Same(base.nodes, now.nodes, n) \/ Same(now.nodes, next.nodes, n)
  /\ \A e \in DOMAIN base.edges \cup DOMAIN now.edges :
       Same(base.edges, now.edges, e) \/ Same(now.edges, next.edges, e)

NothingIsUndone ==
  [][\A i \in Proposal :
       item[i].state # "accepted" /\ item'[i].state = "accepted" =>
         Kept(Snapshot(item[i].map, item[i].base), graph[item[i].map], graph'[item[i].map])]_vars

(* Reviews that plan and write in separate statements behave as if each    *)
(* were decided at once, against the graph it changes.                     *)
Ledger == INSTANCE EvidenceLedger WITH history <- revisions, row <- item

ReviewIsAtomic == Ledger!Spec
=============================================================================
