--------------------------- MODULE PathPlacements ---------------------------
(***************************************************************************)
(* The physical copies of one logical path: the files on the resources,    *)
(* the rows of path_placements that describe them, the probes that observe *)
(* them, the transfers that publish them and the eviction that removes one *)
(* of them with a script on the remote host.                               *)
(*                                                                         *)
(* The resources are written in several places at once: by transfers, by   *)
(* the scripts and, in the caches on compute nodes, by runs.  Nothing      *)
(* takes a lock; an eviction rests on what it hashes and on a tombstone.   *)
(***************************************************************************)
EXTENDS Naturals, FiniteSets

CONSTANTS
    Resources,    \* the resources on which the path may have a copy
    Authority,    \* those that hold an authoritative copy, the others a cache
    Default,      \* the resource of the path's logical root
    Revisions,    \* the contents, told apart by their hash
    Torn,         \* what a removal that fails half-way leaves behind
    Gone,         \* no payload
    Evictors, Probes, Copiers,   \* processes that evict, probe, publish
    LateStart,    \* may a script start after its connection has been lost?
    MaxOperations \* bound on the evictions, probes, publications and run writes

ASSUME PlacementAssumption ==
    /\ Authority \subseteq Resources /\ Default \in Authority
    /\ Torn \notin Revisions /\ Gone \notin Revisions \cup {Torn}
    /\ "nobody" \notin Evictors
    /\ LateStart \in BOOLEAN /\ MaxOperations \in Nat

VARIABLES
    disk,      \* the payload under the path on each resource
    tomb,      \* the tombstones beside it, one for each expected revision
    row,       \* path_placements
    clock,     \* the latest instant a process took as "now"
    evictor,   \* each eviction under way
    scripts,   \* the removal scripts that run on the remote hosts
    probe,     \* each Inspect or Hash under way
    copier,    \* each transfer between promotion and its record
    stranded,  \* history: the tombstones that no script will clear any more
    late,      \* history: the sources of observations that were made before the
               \* date of the one they replaced
    begun      \* the operations that have begun

remote == <<disk, tomb, scripts, stranded>>
rows   == <<row, clock, late>>
vars   == <<remote, rows, evictor, probe, copier, begun>>

Payloads == Revisions \cup {Torn}
NoRevision == Gone
Nobody == "nobody"

NoRow == [stored |-> FALSE, desired |-> "present", observed |-> "unknown",
          revision |-> NoRevision, checked |-> 0]
Known(r) == row[r].stored \/ r = Default

\* SavePathPlacement: a row that exists keeps what was observed and takes the
\* policy of the writer's copy; else the copy is stored as it is.
SavePathPlacement(r, copy) ==
    row' = [row EXCEPT ![r] = IF @.stored THEN [@ EXCEPT !.desired = copy.desired]
                                          ELSE [copy EXCEPT !.stored = TRUE]]

\* UpdatePathPlacementObservation: checked_at decides whether it is applied.
Observation(state, revision, now) ==
    [observed |-> state, revision |-> revision, checked |-> now]
Supersedes(r, now) == row[r].checked < now
UpdateObservation_Absent(r, o, source, read) ==
    IF Supersedes(r, o.checked)
    THEN /\ row' = [row EXCEPT ![r].observed = IF row[r].desired = "absent" THEN "absent" ELSE o.observed,
                               ![r].revision = o.revision, ![r].checked = o.checked]
         /\ late' = IF read < row[r].checked THEN late \cup {source} ELSE late
    ELSE UNCHANGED <<row, late>>
UpdateObservation(r, o, source, read) ==
    IF Supersedes(r, o.checked)
    THEN /\ row' = [row EXCEPT ![r].observed = o.observed, ![r].revision = o.revision,
                               ![r].checked = o.checked]
         /\ late' = IF read < row[r].checked THEN late \cup {source} ELSE late
    ELSE UNCHANGED <<row, late>>

Tick  == clock' = clock + 1
Begin == begun < MaxOperations /\ begun' = begun + 1

IdleEvictor == [at |-> "idle", on |-> Default, revision |-> Torn,
                cands |-> {}]
IdleProbe == [at |-> "idle", on |-> Default, kind |-> "inspect",
              desired |-> "present", now |-> 0, read |-> 0, found |-> Gone]
IdleCopier == [at |-> "idle", on |-> Default, revision |-> NoRevision]

Init ==
    /\ disk \in [Resources -> Revisions \cup {Gone}] /\ disk[Default] # Gone
    /\ tomb = [r \in Resources |-> [v \in Payloads |-> Gone]]
    /\ \/ row = [r \in Resources |-> NoRow]
       \/ row = [r \in Resources |-> IF disk[r] = Gone THEN NoRow ELSE
                   [NoRow EXCEPT !.stored = TRUE, !.observed = "present", !.revision = disk[r]]]
    /\ clock = 0 /\ late = {}
    /\ evictor = [e \in Evictors |-> IdleEvictor] /\ scripts = {}
    /\ probe = [p \in Probes |-> IdleProbe]
    /\ copier = [c \in Copiers |-> IdleCopier]
    /\ stranded = {} /\ begun = 0
-----------------------------------------------------------------------------
(* PlanEviction: the placements are read, the source is hashed, and another *)
(* authoritative placement is looked for whose row and whose payload show  *)
(* the same revision.  A torn payload has a hash like no other.             *)

Alternates(r, v) ==
    {s \in Authority \ {r} : /\ row[s].stored /\ row[s].observed = "present"
                             /\ row[s].revision = v /\ v \in Revisions}

PlanSource(e, r) ==
    /\ evictor[e].at = "idle" /\ Known(r) /\ disk[r] # Gone
    /\ evictor' = [evictor EXCEPT ![e] =
           [IdleEvictor EXCEPT !.at = "planning", !.on = r, !.revision = disk[r],
                               !.cands = Alternates(r, disk[r])]]
    /\ Begin /\ UNCHANGED <<remote, rows, probe, copier>>

Live_Registry(s, v) == row[s].revision = v
Live(s, v) == disk[s] = v

PlanAlternate(e) ==
    /\ evictor[e].at = "planning"
    /\ \/ \E s \in evictor[e].cands :
            /\ Live(s, evictor[e].revision)
            /\ evictor' = [evictor EXCEPT ![e].at = "planned"]
       \/ /\ \A s \in evictor[e].cands : ~Live(s, evictor[e].revision)
          /\ evictor' = [evictor EXCEPT ![e] = IdleEvictor]
    /\ UNCHANGED <<remote, rows, probe, copier, begun>>

(* Evict goes on with the row as it is then stored, and sends the script.   *)

Evict(e) ==
    LET x == evictor[e] IN
    /\ x.at = "planned"
    /\ IF row[x.on].stored
       THEN /\ evictor' = [evictor EXCEPT ![e].at = "removing"]
            /\ scripts' = scripts \cup {[owner |-> e, on |-> x.on, revision |-> x.revision,
                                         at |-> "sent"]}
       ELSE /\ evictor' = [evictor EXCEPT ![e] = IdleEvictor] /\ UNCHANGED scripts
    /\ UNCHANGED <<disk, tomb, stranded, rows, probe, copier, begun>>
-----------------------------------------------------------------------------
(* RemoveVerified, on the remote host: rename to the tombstone, hash the    *)
(* tombstone, then remove it or put it back.                                *)

Return(x, ok) ==
    /\ scripts' = scripts \ {x}
    /\ evictor' = [e \in Evictors |->
           IF e # x.owner THEN evictor[e]
           ELSE IF ok THEN [evictor[e] EXCEPT !.at = "removed"] ELSE IdleEvictor]

Rename(x) ==
    /\ x.at = "sent"
    /\ CASE disk[x.on] = Gone -> Return(x, TRUE) /\ UNCHANGED <<disk, tomb>>
         [] disk[x.on] # Gone /\ tomb[x.on][x.revision] # Gone ->
              Return(x, FALSE) /\ UNCHANGED <<disk, tomb>>
         [] OTHER ->
              /\ tomb' = [tomb EXCEPT ![x.on][x.revision] = disk[x.on]]
              /\ disk' = [disk EXCEPT ![x.on] = Gone]
              /\ scripts' = (scripts \ {x}) \cup {[x EXCEPT !.at = "renamed"]}
              /\ UNCHANGED evictor
    /\ UNCHANGED <<stranded, rows, probe, copier, begun>>

Verified(x) == tomb[x.on][x.revision] = x.revision

Remove(x) ==
    /\ x.at = "renamed" /\ Verified(x)
    /\ tomb' = [tomb EXCEPT ![x.on][x.revision] = Gone]
    /\ Return(x, TRUE)
    /\ UNCHANGED <<disk, stranded, rows, probe, copier, begun>>

PutBack_Left(x, payload) ==
    tomb' = [tomb EXCEPT ![x.on][x.revision] = payload] /\ UNCHANGED <<disk, stranded>>

\* The exception handler: back under the path, unless something is there.
PutBack(x, payload) ==
    IF disk[x.on] = Gone
    THEN /\ disk' = [disk EXCEPT ![x.on] = payload]
         /\ tomb' = [tomb EXCEPT ![x.on][x.revision] = Gone]
         /\ UNCHANGED stranded
    ELSE /\ tomb' = [tomb EXCEPT ![x.on][x.revision] = payload]
         /\ stranded' = stranded \cup {<<x.on, x.revision>>}
         /\ UNCHANGED disk

Refuse(x) ==
    /\ x.at = "renamed" /\ ~Verified(x)
    /\ PutBack(x, tomb[x.on][x.revision]) /\ Return(x, FALSE)
    /\ UNCHANGED <<rows, probe, copier, begun>>

RemoveFails(x) ==
    /\ x.at = "renamed" /\ Verified(x)
    /\ \E left \in {Torn, x.revision} : PutBack(x, left)
    /\ Return(x, FALSE)
    /\ UNCHANGED <<rows, probe, copier, begun>>

\* The host goes down, or the script is killed.
ScriptDies(x) ==
    /\ stranded' = IF x.at = "renamed" THEN stranded \cup {<<x.on, x.revision>>} ELSE stranded
    /\ Return(x, FALSE)
    /\ UNCHANGED <<disk, tomb, rows, probe, copier, begun>>

\* The connection is lost: Evict returns an error, the script goes on.
LoseConnection(x) ==
    /\ x.owner # Nobody /\ (x.at = "sent" => LateStart)
    /\ scripts' = (scripts \ {x}) \cup {[x EXCEPT !.owner = Nobody]}
    /\ evictor' = [evictor EXCEPT ![x.owner] = IdleEvictor]
    /\ UNCHANGED <<disk, tomb, stranded, rows, probe, copier, begun>>
-----------------------------------------------------------------------------
(* What Evict writes once the script has returned.                          *)

RecordDesired(e) ==
    /\ evictor[e].at = "removed"
    /\ SavePathPlacement(evictor[e].on, [NoRow EXCEPT !.desired = "absent"])
    /\ evictor' = [evictor EXCEPT ![e].at = "desired"]
    /\ UNCHANGED <<remote, clock, late, probe, copier, begun>>

RecordMissing(e) ==
    /\ evictor[e].at = "desired" /\ Tick
    /\ UpdateObservation(evictor[e].on, Observation("missing", NoRevision, clock'),
                         "managed_evict", clock)
    /\ evictor' = [evictor EXCEPT ![e] = IdleEvictor]
    /\ UNCHANGED <<remote, probe, copier, begun>>
-----------------------------------------------------------------------------
(* Inspect takes the instant before it looks, Hash after it has looked.     *)

SelectPlacement(p, r, kind) ==
    /\ probe[p].at = "idle" /\ Known(r)
    /\ probe' = [probe EXCEPT ![p] = [IdleProbe EXCEPT !.at = "selected", !.on = r,
                                        !.kind = kind, !.desired = row[r].desired]]
    /\ Begin /\ UNCHANGED <<remote, rows, evictor, copier>>

InspectBegins(p) ==
    /\ probe[p].at = "selected" /\ probe[p].kind = "inspect" /\ Tick
    /\ SavePathPlacement(probe[p].on, [NoRow EXCEPT !.desired = probe[p].desired])
    /\ probe' = [probe EXCEPT ![p].at = "saved", ![p].now = clock']
    /\ UNCHANGED <<remote, late, evictor, copier, begun>>

HashBegins(p) ==
    /\ probe[p].at = "selected" /\ probe[p].kind = "hash"
    /\ SavePathPlacement(probe[p].on, [NoRow EXCEPT !.desired = probe[p].desired])
    /\ probe' = [probe EXCEPT ![p].at = "saved"]
    /\ UNCHANGED <<remote, clock, late, evictor, copier, begun>>

\* found is the payload, or why there is none to report.
Look(p) ==
    /\ probe[p].at = "saved"
    /\ \E found \in {disk[probe[p].on], "unreachable", "unknown"} :
         probe' = [probe EXCEPT ![p].at = "looked", ![p].read = clock, ![p].found = found]
    /\ UNCHANGED <<remote, rows, evictor, copier, begun>>

InspectEnds_Dated(p) ==
    LET x == probe[p] IN
    /\ x.at = "looked" /\ x.kind = "inspect" /\ Tick
    /\ UpdateObservation(x.on, Observation(IF x.found = Gone THEN "missing" ELSE "present",
                                           NoRevision, clock'), "remote_stat", x.read)
    /\ probe' = [probe EXCEPT ![p] = IdleProbe]
    /\ UNCHANGED <<remote, evictor, copier, begun>>

InspectEnds(p) ==
    LET x == probe[p] IN
    /\ x.at = "looked" /\ x.kind = "inspect"
    /\ UpdateObservation(x.on,
         Observation(CASE x.found \in {"unreachable", "unknown"} -> x.found
                       [] x.found = Gone -> "missing"
                       [] OTHER -> "present", NoRevision, x.now), "remote_stat", x.read)
    /\ probe' = [probe EXCEPT ![p] = IdleProbe]
    /\ UNCHANGED <<remote, clock, evictor, copier, begun>>

\* Hashing a path that is gone is a failed command: the state is unknown.
HashEnds(p) ==
    LET x == probe[p] IN
    /\ x.at = "looked" /\ x.kind = "hash" /\ Tick
    /\ UpdateObservation(x.on,
         CASE x.found \in Payloads -> Observation("present", x.found, clock')
           [] x.found = Gone -> Observation("unknown", NoRevision, clock')
           [] OTHER -> Observation(x.found, NoRevision, clock'), "remote_hash", x.read)
    /\ probe' = [probe EXCEPT ![p] = IdleProbe]
    /\ UNCHANGED <<remote, evictor, copier, begun>>
-----------------------------------------------------------------------------
(* A transfer promotes a verified copy, never over a payload, and records   *)
(* it (the job itself is TransferJob's).  A dataset or the input of a run   *)
(* records a cache that it finds with the right hash, the former like a     *)
(* transfer, the latter in the row it inserts.  A run may change a cache.   *)

Promote(c, r) ==
    /\ copier[c].at = "idle" /\ disk[r] = Gone
    /\ \E s \in Resources : /\ disk[s] \in Revisions
                            /\ disk' = [disk EXCEPT ![r] = disk[s]]
                            /\ copier' = [copier EXCEPT ![c] =
                                   [at |-> "promoted", on |-> r, revision |-> disk[s]]]
    /\ Begin /\ UNCHANGED <<tomb, scripts, stranded, rows, evictor, probe>>

SaveDestination(c) ==
    /\ copier[c].at = "promoted"
    /\ SavePathPlacement(copier[c].on, NoRow)
    /\ copier' = [copier EXCEPT ![c].at = "saved"]
    /\ UNCHANGED <<remote, clock, late, evictor, probe, begun>>

ObserveDestination(c) ==
    /\ copier[c].at = "saved" /\ Tick
    /\ UpdateObservation(copier[c].on, Observation("present", copier[c].revision, clock'),
                         "transfer_verify", clock)
    /\ copier' = [copier EXCEPT ![c] = IdleCopier]
    /\ UNCHANGED <<remote, evictor, probe, begun>>

VerifyCache(c, r) ==
    /\ copier[c].at = "idle" /\ r \notin Authority /\ disk[r] \in Revisions
    /\ \E at \in {"promoted", "cached"} :
         copier' = [copier EXCEPT ![c] = [at |-> at, on |-> r, revision |-> disk[r]]]
    /\ Begin /\ UNCHANGED <<remote, rows, evictor, probe>>

RegisterCache(c) ==
    LET x == copier[c] IN
    /\ x.at = "cached" /\ Tick
    /\ SavePathPlacement(x.on, [NoRow EXCEPT !.observed = "present",
                                !.revision = x.revision, !.checked = clock'])
    /\ copier' = [copier EXCEPT ![c] = IdleCopier]
    /\ UNCHANGED <<remote, late, evictor, probe, begun>>

RunWrites(r) ==
    /\ r \notin Authority
    /\ \E v \in Revisions \cup {Gone} : v # disk[r] /\ disk' = [disk EXCEPT ![r] = v]
    /\ Begin /\ UNCHANGED <<tomb, scripts, stranded, rows, evictor, probe, copier>>

Next ==
    \/ \E e \in Evictors : \/ \E r \in Resources : PlanSource(e, r)
                           \/ PlanAlternate(e) \/ Evict(e)
                           \/ RecordDesired(e) \/ RecordMissing(e)
    \/ \E x \in scripts : \/ Rename(x) \/ Remove(x) \/ Refuse(x) \/ RemoveFails(x)
                          \/ ScriptDies(x) \/ LoseConnection(x)
    \/ \E p \in Probes : \/ \E r \in Resources, k \in {"inspect", "hash"} :
                              SelectPlacement(p, r, k)
                         \/ InspectBegins(p) \/ HashBegins(p) \/ Look(p)
                         \/ InspectEnds(p) \/ HashEnds(p)
    \/ \E c \in Copiers : \/ \E r \in Resources : Promote(c, r)
                          \/ \E r \in Resources : VerifyCache(c, r)
                          \/ SaveDestination(c) \/ ObserveDestination(c)
                          \/ RegisterCache(c)
    \/ \E r \in Resources : RunWrites(r)

Spec == Init /\ [][Next]_vars
-----------------------------------------------------------------------------
(* Every row, process and script is of the kind the code gives it.          *)
Readings == Payloads \cup {Gone, "unreachable", "unknown"}
Rows == [stored : BOOLEAN, desired : {"present", "absent"},
         observed : {"present", "missing", "unreachable", "unknown"},
         revision : Payloads \cup {NoRevision}, checked : Nat]
Sources == {"remote_stat", "remote_hash", "managed_evict", "transfer_verify"}
TypeOK ==
    /\ disk \in [Resources -> Payloads \cup {Gone}]
    /\ tomb \in [Resources -> [Payloads -> Payloads \cup {Gone}]]
    /\ row \in [Resources -> Rows] /\ clock \in Nat
    /\ evictor \in [Evictors ->
          [at : {"idle", "planning", "planned", "removing", "removed", "desired"},
           on : Resources, revision : Payloads,
           cands : SUBSET Authority]]
    /\ scripts \subseteq [owner : Evictors \cup {Nobody}, on : Resources,
                          revision : Payloads, at : {"sent", "renamed"}]
    /\ probe \in [Probes -> [at : {"idle", "selected", "saved", "looked"}, on : Resources,
                             kind : {"inspect", "hash"}, desired : {"present", "absent"}, now : Nat,
                             read : Nat, found : Readings]]
    /\ copier \in [Copiers -> [at : {"idle", "promoted", "saved", "cached"},
                               on : Resources, revision : Payloads \cup {NoRevision}]]
    /\ stranded \subseteq Resources \X Payloads /\ late \subseteq Sources /\ begun \in Nat

\* An eviction destroys only bytes of which an authoritative placement still holds a
\* copy: neither the sole verified copy goes, nor a payload that was changed after the
\* plan.  The copy may be under another authoritative path than the one cited.
EvictionLeavesACopy ==
    [][\A r \in Resources, v \in Payloads :
         LET bytes == tomb[r][v] IN
         (bytes \in Revisions /\ bytes \notin {tomb'[r][v], disk'[r]})
           => \E s \in Authority : disk'[s] = bytes]_vars

\* What an eviction takes out of sight comes back, is removed, or is known to be
\* stranded: no outcome of the script forgets a tombstone.
TombstonesAreAccounted ==
    \A r \in Resources, v \in Payloads : tomb[r][v] # Gone =>
        \/ <<r, v>> \in stranded
        \/ \E x \in scripts : x.on = r /\ x.revision = v /\ x.at = "renamed"

\* What Inspect stores it saw after the date of the observation it replaces.
InspectIsNeverLate == "remote_stat" \notin late
=============================================================================
