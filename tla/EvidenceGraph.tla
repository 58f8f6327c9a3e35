--------------------------- MODULE EvidenceGraph ---------------------------
(***************************************************************************)
(* The pure part of the evidence workspace: what a graph is, which graphs  *)
(* the validation accepts, how a patch is merged into a graph, when a      *)
(* stale patch may be replayed, and which patches the authoring rules let  *)
(* through (internal/store/evidence_graph.go, evidence_proposal.go,        *)
(* evidence_authoring.go).                                                 *)
(*                                                                         *)
(* A graph is two partial functions: nodes from ids to contents and edges  *)
(* from ids to contents.  The content is the canonical one, from which     *)
(* CanonicalEvidenceGraph drops every coordinate: two graphs are equal     *)
(* exactly when their hashes are.                                          *)
(*   node: type, kind (claimKind), disp (resultDisposition), why (whether  *)
(*         dispositionReason is given), src (the provenance of a result,   *)
(*         None when the field is absent), run, group, ref and text, which *)
(*         stands for title, body and the rest of the data.                *)
(*   edge: type, src, dst and why (whether it has a rationale).            *)
(***************************************************************************)
EXTENDS Naturals, FiniteSets

CONSTANT None       \* an absent run, group, provenance or reference

EmptyGraph == [nodes |-> [n \in {} |-> None], edges |-> [e \in {} |-> None]]

----------------------------------------------------------------------------
(* Validation *)

Polarity == {"supports", "weakens", "does_not_prove"}

Semantic(k) == k \notin {"custom", "related_to"}

Legacy(t) == t \in {"hypothesis", "experiment", "conclusion", "note"}

Stage(n) ==
  CASE n.type = "hypothesis" -> "hypothesis"
    [] n.type = "claim" -> IF n.kind = "hypothesis" THEN "hypothesis" ELSE "result"
    [] n.type \in {"plan", "protocol", "experiment"} -> "design"
    [] n.type = "conclusion" -> "conclusion"
    [] n.type = "issue" -> "issue"
    [] OTHER -> ""

IsResult(n) == n.type = "claim" /\ n.kind = "result"

AllowedTypes(s, t, k) ==
  IF Legacy(s) \/ Legacy(t)
  THEN k \in {"supports", "does_not_prove", "next_step"}
  ELSE \/ k = "uses" /\ s \in {"dataset", "protocol"} /\ t = "run"
       \/ k \in Polarity /\ s = "run" /\ t = "claim"
       \/ k = "reveals_issue" /\ s \in {"run", "claim"} /\ t = "issue"
       \/ k = "supersedes" /\ s = t /\ s \in {"dataset", "protocol", "claim", "plan"}
       \/ k = "next_step" /\ s \in {"claim", "issue"} /\ t = "plan"

AllowedDirection(s, t, k) ==
  IF IsResult(s) /\ t.type = "conclusion"
  THEN k \in Polarity
  ELSE \/ k = "next_step" /\ Stage(s) = "design" /\ Stage(t) = "result"
       \/ /\ k = "next_step" /\ s.type \in {"issue", "conclusion"}
          /\ t.type = "claim" /\ t.kind = "hypothesis"
       \/ AllowedTypes(s.type, t.type, k)

(* A run has one node; the members of a group are in a group node of the   *)
(* same graph, and groups do not nest.                                     *)
NodesValid(g) ==
  LET N == DOMAIN g.nodes IN
    /\ \A n \in N : /\ g.nodes[n].type = "run" => g.nodes[n].run # None
                    /\ g.nodes[n].type = "group" => g.nodes[n].run = None
    /\ \A n, m \in N :
         g.nodes[n].type = "run" /\ g.nodes[m].type = "run" /\ n # m
           => g.nodes[n].run # g.nodes[m].run
    /\ \A n \in N : g.nodes[n].group # None =>
         /\ g.nodes[n].type \in {"dataset", "run", "plan", "experiment"}
         /\ g.nodes[n].group \in N
         /\ g.nodes[g.nodes[n].group].type = "group"

EdgesValid(g) ==
  LET E == DOMAIN g.edges IN
    /\ \A e \in E : /\ {g.edges[e].src, g.edges[e].dst} \subseteq DOMAIN g.nodes
                    /\ g.nodes[g.edges[e].src].type # "group"
                    /\ g.nodes[g.edges[e].dst].type # "group"
    /\ \A e \in E : Semantic(g.edges[e].type) =>
         /\ g.edges[e].src # g.edges[e].dst
         /\ AllowedDirection(g.nodes[g.edges[e].src], g.nodes[g.edges[e].dst],
                             g.edges[e].type)
    /\ \A e, f \in E :
         /\ e # f
         /\ g.edges[e].src = g.edges[f].src /\ g.edges[e].dst = g.edges[f].dst
         /\ Semantic(g.edges[e].type) /\ Semantic(g.edges[f].type)
         => /\ g.edges[e].type # g.edges[f].type
            /\ ~ {g.edges[e].type, g.edges[f].type} \subseteq Polarity

(* Kahn's algorithm, in rounds: a node is visited once every semantic edge *)
(* into it comes from a visited node; the graph is accepted when all are.  *)
Visited(g) ==
  LET sem == {e \in DOMAIN g.edges : Semantic(g.edges[e].type)}
      ready(done) == {n \in DOMAIN g.nodes :
                        \A e \in sem : g.edges[e].dst = n => g.edges[e].src \in done}
      round[i \in 0 .. Cardinality(DOMAIN g.nodes)] ==
        IF i = 0 THEN {} ELSE round[i - 1] \cup ready(round[i - 1])
  IN  round[Cardinality(DOMAIN g.nodes)]

ValidGraph(g) == NodesValid(g) /\ EdgesValid(g) /\ Visited(g) = DOMAIN g.nodes

(* What the visit decides: no set of nodes in which each has a semantic    *)
(* edge coming from the set.                                               *)
HasCycle(g) ==
  \E S \in (SUBSET DOMAIN g.nodes) \ {{}} :
    \A n \in S : \E e \in DOMAIN g.edges :
      Semantic(g.edges[e].type) /\ g.edges[e].dst = n /\ g.edges[e].src \in S

----------------------------------------------------------------------------
(* Patches.  "edges" are the additive ones and "upEdges" the upserts; the  *)
(* merge treats them alike.  Nodes and upserted nodes are never told       *)
(* apart, so a patch has one function for both.                            *)

Over(f, g) == [x \in DOMAIN f \cup DOMAIN g |-> IF x \in DOMAIN g THEN g[x] ELSE f[x]]

Less(f, S) == [x \in DOMAIN f \ S |-> f[x]]

PatchEdges(p) == Over(p.edges, p.upEdges)

(* An updated node keeps the provenance it has when the patch gives none.  *)
Update(f, n, new) ==
  IF n \in DOMAIN f /\ new.src = None THEN [new EXCEPT !.src = f[n].src] ELSE new

Incident(g, e, S) == g.edges[e].src \in S \/ g.edges[e].dst \in S

Merge(g, p) ==
  LET kept == Less(g.nodes, p.delNodes)
      gone == {e \in DOMAIN g.edges : e \in p.delEdges \/ Incident(g, e, p.delNodes)}
  IN  [nodes |-> Over(kept, [n \in DOMAIN p.nodes |-> Update(kept, n, p.nodes[n])]),
       edges |-> Over(Less(g.edges, gone), PatchEdges(p))]

(* The three-way comparison of a stale patch: every object it writes is    *)
(* new, is already what the patch makes it, or is what it was in the base; *)
(* every object it deletes, or deletes with a node, is what it was.        *)
Unmoved(b, f, x) == x \in DOMAIN f => x \in DOMAIN b /\ b[x] = f[x]

Writable(b, f, next) ==
  \A x \in DOMAIN next :
    \/ x \notin DOMAIN f /\ x \notin DOMAIN b
    \/ x \in DOMAIN f /\ (f[x] = next[x] \/ Unmoved(b, f, x))

\* Mutant: the edges that would go with a deleted node are not compared.
RebaseSafe_NodesOnly(base, now, p) ==
  /\ Writable(base.nodes, now.nodes, p.nodes)
  /\ Writable(base.edges, now.edges, PatchEdges(p))
  /\ \A n \in p.delNodes : Unmoved(base.nodes, now.nodes, n)
  /\ \A e \in p.delEdges : Unmoved(base.edges, now.edges, e)

RebaseSafe(base, now, p) ==
  /\ Writable(base.nodes, now.nodes, p.nodes)
  /\ Writable(base.edges, now.edges, PatchEdges(p))
  /\ \A n \in p.delNodes : Unmoved(base.nodes, now.nodes, n)
  /\ \A e \in DOMAIN now.edges :
       e \in p.delEdges \/ Incident(now, e, p.delNodes)
         => Unmoved(base.edges, now.edges, e)

----------------------------------------------------------------------------
(* The authoring rules a patch is held to. *)

OutcomeEdge(nodes, e) ==
  /\ Stage(nodes[e.src]) = "result"
  /\ \/ nodes[e.dst].type = "conclusion" /\ e.type \in Polarity
     \/ nodes[e.dst].type = "issue" /\ e.type = "reveals_issue"

OutcomeBypass(nodes, e) ==
  Stage(nodes[e.src]) = "result" /\ Semantic(e.type) /\ ~ OutcomeEdge(nodes, e)

BranchBypass(nodes, e) ==
  /\ e.type = "next_step" /\ nodes[e.src].type \in {"issue", "conclusion"}
  /\ ~ (nodes[e.dst].type = "claim" /\ nodes[e.dst].kind = "hypothesis")

UntypedOutcome(nodes, e) ==
  nodes[e.src].type = "claim" /\ nodes[e.src].kind = "" /\ OutcomeEdge(nodes, e)

Outcomes(g, n) == {e \in DOMAIN g.edges : g.edges[e].src = n /\ OutcomeEdge(g.nodes, g.edges[e])}

(* The declared disposition of a result agrees with its outcome edges.     *)
DispositionMatches(g, n) ==
  LET to(t) == {e \in Outcomes(g, n) : g.nodes[g.edges[e].dst].type = t} IN
  CASE g.nodes[n].disp = "conclusion" -> to("conclusion") # {} /\ to("issue") = {}
    [] g.nodes[n].disp = "issue" -> to("issue") # {} /\ to("conclusion") = {}
    [] g.nodes[n].disp = "mixed" -> to("conclusion") # {} /\ to("issue") # {}
    [] g.nodes[n].disp = "pending" -> to("conclusion") = {} /\ to("issue") = {}
    [] OTHER -> FALSE

Explained(g, n) ==
  CASE g.nodes[n].disp = "pending" -> g.nodes[n].why
    [] g.nodes[n].disp \in {"issue", "mixed"} ->
         g.nodes[n].why \/ \E e \in Outcomes(g, n) :
           g.edges[e].type = "reveals_issue" /\ g.edges[e].why
    [] OTHER -> TRUE

PatchedSources(merged, p) ==
  DOMAIN p.nodes \cup
  {PatchEdges(p)[e].src : e \in {x \in DOMAIN PatchEdges(p) : OutcomeEdge(merged.nodes, PatchEdges(p)[x])}}

(* The nodes whose dispositions are looked at again: those of the patch,   *)
(* the sources of its outcome edges, and the sources of the accepted       *)
(* outcome edges it deletes, loses with a node, or upserts.                *)
RevalidatedEdges(cur, p) ==
  {e \in DOMAIN cur.edges : \/ e \in p.delEdges \/ cur.edges[e].dst \in p.delNodes
                            \/ e \in DOMAIN p.upEdges}

Revalidated(cur, merged, p) ==
  PatchedSources(merged, p) \cup
  ({cur.edges[e].src : e \in {x \in RevalidatedEdges(cur, p) : OutcomeEdge(cur.nodes, cur.edges[x])}}
     \ p.delNodes)

EligibleResult(g, n) ==
  g.nodes[n].src \notin {None, {}} /\ DispositionMatches(g, n) /\ Explained(g, n)

Eligible(cur, merged, p) ==
  /\ \A x \in DOMAIN PatchEdges(p) :
       LET e == PatchEdges(p)[x] IN
         ~ BranchBypass(merged.nodes, e) /\ ~ UntypedOutcome(merged.nodes, e)
         /\ ~ OutcomeBypass(merged.nodes, e)
  /\ \A x \in DOMAIN merged.edges \ p.delEdges :
       Incident(merged, x, PatchedSources(merged, p)) => ~ BranchBypass(merged.nodes, merged.edges[x])
  /\ \A n \in Revalidated(cur, merged, p) \cap DOMAIN merged.nodes :
       IsResult(merged.nodes[n]) => EligibleResult(merged, n)

(* The research threads of a graph grow from its hypotheses: semantic      *)
(* edges, taken in either direction, join the nodes of a component, and a  *)
(* node of a component belongs to one of the hypotheses in it.             *)
Component(g, n) ==
  LET sem == {e \in DOMAIN g.edges : Semantic(g.edges[e].type)}
      ends(S) == UNION {{g.edges[e].src, g.edges[e].dst} : e \in {x \in sem : Incident(g, x, S)}}
      reach[i \in 0 .. Cardinality(DOMAIN g.nodes)] ==
        IF i = 0 THEN {n} ELSE reach[i - 1] \cup ends(reach[i - 1])
  IN  reach[Cardinality(DOMAIN g.nodes)]

Roots(g, C) == {n \in C : Stage(g.nodes[n]) = "hypothesis"}

(* The thread contract: a touched result has a design that leads to it and *)
(* a thread that owns it.                                                  *)
Touched(cur, p) ==
  LET ends(f, E) == UNION {{f[e].src, f[e].dst} : e \in E} IN
  DOMAIN p.nodes
    \cup ends(PatchEdges(p), {e \in DOMAIN PatchEdges(p) : Semantic(PatchEdges(p)[e].type)})
    \cup ends(cur.edges, DOMAIN cur.edges \cap p.delEdges)

HasDesign(g, n) ==
  \E e \in DOMAIN g.edges :
    /\ g.edges[e].type = "next_step" /\ g.edges[e].dst = n
    /\ Stage(g.nodes[g.edges[e].src]) = "design"

ThreadContract(cur, merged, p) ==
  \A n \in Touched(cur, p) \cap DOMAIN merged.nodes :
    IsResult(merged.nodes[n]) =>
      HasDesign(merged, n) /\ Roots(merged, Component(merged, n)) # {}
=============================================================================
