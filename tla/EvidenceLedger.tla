---------------------------- MODULE EvidenceLedger ----------------------------
(***************************************************************************)
(* What the evidence workspace promises, without the requests that keep    *)
(* it: every map has a history of graphs that only grows, each one the     *)
(* last one with the patch of one row that was pending; the row is decided *)
(* in the same step, at most once; and a patch whose base is older than    *)
(* the last graph is merged only if it undoes nothing that was accepted in *)
(* between.  EvidenceMaps shows that reviews which read, plan and write in *)
(* separate statements keep this promise.                                  *)
(***************************************************************************)
EXTENDS EvidenceGraph, Sequences

CONSTANTS Map, Proposal, Card, Seed

VARIABLES
  history,      \* of a map: its accepted graphs
  row           \* the proposals and cards

vars == <<history, row>>

NoItem == [state |-> "none", map |-> None, base |-> 0, patch |-> None, retry |-> FALSE]

Graph(m, r) == IF r = 0 THEN EmptyGraph ELSE history[m][r]

Last(m) == Graph(m, Len(history[m]))

Init == history = Seed /\ row = [i \in Proposal \cup Card |-> NoItem]

(* A proposal is written once; a card may be written over.                 *)
Open(i, next) ==
  /\ i \in Card \/ row[i] = NoItem
  /\ next.state \in {"none", "draft", "pending"} /\ (next.state # "none" \/ i \in Card)
  /\ i \in Proposal /\ next.map # None => next.base \in 0 .. Len(history[next.map])
  /\ row' = [row EXCEPT ![i] = next]
  /\ UNCHANGED history

Close(i, verdict) ==
  /\ row[i].state \in {"draft", "pending"}
  /\ row' = [row EXCEPT ![i].state = verdict]
  /\ UNCHANGED history

Allowed(i) ==
  LET m == row[i].map
      merged == Merge(Last(m), row[i].patch)
  IN  /\ row[i].base # Len(history[m]) => RebaseSafe(Graph(m, row[i].base), Last(m), row[i].patch)
      /\ ValidGraph(merged)
      /\ Eligible(Last(m), merged, row[i].patch)
      /\ ThreadContract(Last(m), merged, row[i].patch)

Accept(i) ==
  LET m == row[i].map
      merged == Merge(Last(m), row[i].patch)
  IN  /\ row[i].state = "pending" /\ Allowed(i)
      /\ row' = [row EXCEPT ![i].state = "accepted"]
      /\ history' = IF merged = Last(m) THEN history
                    ELSE [history EXCEPT ![m] = Append(@, merged)]

(* A card promises less: it may be written over while it is reviewed, so   *)
(* that what is accepted is not what was planned.                          *)
AcceptCard(c) ==
  /\ row[c].state = "pending"
  /\ row' = [row EXCEPT ![c].state = "accepted"]
  /\ \/ UNCHANGED history
     \/ \E m \in Map : /\ history'[m] # << >>
                       /\ history' = [history EXCEPT ![m] = Append(@, history'[m][Len(history'[m])])]

(* A map is forgotten only when no proposal was ever made for it.          *)
Forget(m) ==
  /\ \A i \in Proposal : row[i].map # m
  /\ history' = [history EXCEPT ![m] = << >>]
  /\ UNCHANGED row

Next ==
  \/ \E i \in Proposal \cup Card : \/ Open(i, row'[i])
                                   \/ \E verdict \in {"rejected", "expired"} : Close(i, verdict)
  \/ \E i \in Proposal : Accept(i)
  \/ \E c \in Card : AcceptCard(c)
  \/ \E m \in Map : Forget(m)

Spec == Init /\ [][Next]_vars
=============================================================================
