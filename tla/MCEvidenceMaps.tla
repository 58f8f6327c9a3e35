---------------------------- MODULE MCEvidenceMaps ----------------------------
(* The instances of EvidenceMaps that TLC checks: two notes, two edges     *)
(* between them and the patches that add, rewrite, connect and delete.     *)
EXTENDS EvidenceMaps, TLC

CONSTANTS n1, n2, e1, topic

Note(text) == [type |-> "note", kind |-> "", disp |-> "", why |-> FALSE, src |-> None,
               run |-> None, group |-> None, ref |-> None, text |-> text]

Link(s, t) == [type |-> "supports", src |-> s, dst |-> t, why |-> FALSE]

Nothing == [nodes |-> EmptyGraph.nodes, edges |-> EmptyGraph.edges,
            upEdges |-> EmptyGraph.edges, delNodes |-> {}, delEdges |-> {}]

Write   == [Nothing EXCEPT !.nodes = n1 :> Note("a")]
Rewrite == [Nothing EXCEPT !.nodes = n1 :> Note("b")]
Connect == [Nothing EXCEPT !.nodes = n2 :> Note("a"), !.edges = e1 :> Link(n1, n2)]
Remove  == [Nothing EXCEPT !.delNodes = {n1}]

Of(patch) == Merge(EmptyGraph, patch)

MCSeed == [m \in Map |-> IF m = topic THEN <<Of(Write)>> ELSE << >>]
MCOnePatch == {Rewrite}
MCReviewed == {Connect, Remove}
MCCardPatch == {Connect}

MCSymmetry == Permutations(Proposal) \cup Permutations(Reviewer)
=============================================================================
