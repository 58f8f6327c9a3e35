------------------------ MODULE PathPlacementsProofs ------------------------
(* Theorems about PathPlacements for every set of resources and processes.  *)
EXTENDS PathPlacements, TLAPS

-----------------------------------------------------------------------------
(* Type correctness *)

USE PlacementAssumption
USE DEF NoRevision

LEMMA InitTypeOK == Init => TypeOK
<1> SUFFICES ASSUME Init PROVE TypeOK
  OBVIOUS
<1> USE DEF Init, Payloads, NoRevision, Rows, NoRow, Sources, Readings
<1>1. Default \in Resources
  OBVIOUS
<1>2. row \in [Resources -> Rows]
  <2>1. CASE row = [r \in Resources |-> NoRow]
    BY <2>1
  <2>2. CASE row = [r \in Resources |-> IF disk[r] = Gone THEN NoRow ELSE
                   [NoRow EXCEPT !.stored = TRUE, !.observed = "present", !.revision = disk[r]]]
    <3>1. \A r \in Resources : disk[r] # Gone =>
            [NoRow EXCEPT !.stored = TRUE, !.observed = "present", !.revision = disk[r]] \in Rows
      OBVIOUS
    <3>2. NoRow \in Rows
      OBVIOUS
    <3> HIDE DEF NoRow, Rows
    <3> QED BY <2>2, <3>1, <3>2
  <2> QED BY <2>1, <2>2
<1>3. evictor \in [Evictors ->
          [at : {"idle", "planning", "planned", "removing", "removed", "desired"},
           on : Resources, revision : Payloads,
           cands : SUBSET Authority]]
  BY <1>1 DEF IdleEvictor
<1>4. probe \in [Probes -> [at : {"idle", "selected", "saved", "looked"}, on : Resources,
                             kind : {"inspect", "hash"}, desired : {"present", "absent"}, now : Nat,
                             read : Nat, found : Readings]]
  BY <1>1 DEF IdleProbe
<1>5. copier \in [Copiers -> [at : {"idle", "promoted", "saved", "cached"},
                               on : Resources, revision : Payloads \cup {NoRevision}]]
  BY <1>1 DEF IdleCopier
<1> QED
  BY <1>2, <1>3, <1>4, <1>5 DEF TypeOK

EvictorPcs   == {"idle", "planning", "planned", "removing", "removed", "desired"}
EvictorTypes == [at : EvictorPcs, on : Resources, revision : Payloads,
                 cands : SUBSET Authority]
ProbeTypes   == [at : {"idle", "selected", "saved", "looked"}, on : Resources,
                 kind : {"inspect", "hash"}, desired : {"present", "absent"}, now : Nat,
                 read : Nat, found : Readings]
CopierTypes  == [at : {"idle", "promoted", "saved", "cached"}, on : Resources,
                 revision : Payloads \cup {Gone}]

LEMMA IdleTypes ==
  IdleEvictor \in EvictorTypes /\ IdleProbe \in ProbeTypes /\ IdleCopier \in CopierTypes
<1>1. Default \in Resources
  OBVIOUS
<1> QED
  BY <1>1 DEF IdleEvictor, EvictorTypes, EvictorPcs, Payloads, IdleProbe, ProbeTypes, IdleCopier,
              CopierTypes, Readings

LEMMA EvictorTyped ==
  /\ TypeOK => evictor \in [Evictors -> EvictorTypes]
  /\ \A y \in EvictorTypes, at \in EvictorPcs : [y EXCEPT !.at = at] \in EvictorTypes
BY DEF TypeOK, EvictorTypes, EvictorPcs

\* A script returns to its own eviction, if that still waits for it.
LEMMA ReturnType ==
  ASSUME TypeOK, NEW x \in scripts, NEW ok \in BOOLEAN, Return(x, ok)
  PROVE  /\ scripts' \subseteq scripts
         /\ evictor' \in [Evictors -> EvictorTypes]
<1>1. \A e \in Evictors : [evictor[e] EXCEPT !.at = "removed"] \in EvictorTypes
  BY EvictorTyped DEF EvictorPcs
<1>2. \A e \in Evictors : evictor[e] \in EvictorTypes
  BY EvictorTyped
<1> QED
  BY <1>1, <1>2, IdleTypes DEF Return

LEMMA PlanType ==
  ASSUME TypeOK, NEW e \in Evictors, NEW r \in Resources,
         PlanSource(e, r) \/ PlanAlternate(e) \/ Evict(e)
  PROVE  TypeOK'
<1> USE DEF TypeOK, remote, rows, Begin
<1>a. evictor \in [Evictors -> EvictorTypes]
  BY EvictorTyped
<1>b. ASSUME evictor' \in [Evictors -> EvictorTypes],
             scripts' \subseteq scripts \cup [owner : Evictors, on : Resources,
                                            revision : Payloads, at : {"sent"}],
             UNCHANGED <<disk, tomb, stranded, rows, probe, copier>>, begun' \in Nat
      PROVE  TypeOK'
  BY <1>b DEF EvictorTypes, EvictorPcs
<1>1. CASE PlanSource(e, r)
  <2>1. [IdleEvictor EXCEPT !.at = "planning", !.on = r, !.revision = disk[r],
                            !.cands = Alternates(r, disk[r])] \in EvictorTypes
    BY <1>1, IdleTypes DEF PlanSource, EvictorTypes, EvictorPcs, Alternates
  <2>2. evictor' \in [Evictors -> EvictorTypes]
    BY <1>1, <1>a, <2>1 DEF PlanSource
  <2> QED BY <1>1, <1>b, <2>2 DEF PlanSource
<1>2. CASE PlanAlternate(e)
  <2>0. [evictor[e] EXCEPT !.at = "planned"] \in EvictorTypes
    BY <1>a, EvictorTyped DEF EvictorPcs
  <2>1. evictor' \in [Evictors -> EvictorTypes]
    BY <1>2, <1>a, <2>0, IdleTypes DEF PlanAlternate
  <2> QED BY <1>2, <1>b, <2>1 DEF PlanAlternate
<1>3. CASE Evict(e)
  <2>0. [evictor[e] EXCEPT !.at = "removing"] \in EvictorTypes
    BY <1>a, EvictorTyped DEF EvictorPcs
  <2>1. evictor' \in [Evictors -> EvictorTypes]
    BY <1>3, <1>a, <2>0, IdleTypes DEF Evict
  <2>2. evictor[e].on \in Resources /\ evictor[e].at = "planned"
    BY <1>3, <1>a DEF Evict, EvictorTypes
  <2>3. evictor[e].revision \in Payloads
    BY <1>a DEF EvictorTypes
  <2> QED BY <1>3, <1>b, <2>1, <2>2, <2>3 DEF Evict
<1> QED BY <1>1, <1>2, <1>3

LEMMA PutBackType ==
  ASSUME TypeOK, NEW x \in scripts, NEW payload \in Payloads, PutBack(x, payload)
  PROVE  /\ disk' \in [Resources -> Payloads \cup {Gone}]
         /\ tomb' \in [Resources -> [Payloads -> Payloads \cup {Gone}]]
         /\ stranded' \subseteq Resources \X Payloads
<1>1. x.on \in Resources /\ x.revision \in Payloads
  BY DEF TypeOK
<1>2. /\ disk \in [Resources -> Payloads \cup {Gone}]
      /\ tomb \in [Resources -> [Payloads -> Payloads \cup {Gone}]]
      /\ stranded \subseteq Resources \X Payloads
  BY DEF TypeOK
<1>3. CASE disk[x.on] = Gone
  BY <1>1, <1>2, <1>3 DEF PutBack
<1>4. CASE disk[x.on] # Gone
  <2>1. /\ tomb' = [tomb EXCEPT ![x.on][x.revision] = payload]
        /\ stranded' = stranded \cup {<<x.on, x.revision>>} /\ UNCHANGED disk
    BY <1>4 DEF PutBack
  <2>2. tomb' \in [Resources -> [Payloads -> Payloads \cup {Gone}]]
    BY <1>1, <1>2, <2>1
  <2> QED BY <1>1, <1>2, <2>1, <2>2
<1> QED BY <1>3, <1>4

LEMMA ScriptType ==
  ASSUME TypeOK, NEW x \in scripts,
         Rename(x) \/ Remove(x) \/ Refuse(x) \/ RemoveFails(x) \/ ScriptDies(x)
           \/ LoseConnection(x)
  PROVE  TypeOK'
<1>a. /\ x.on \in Resources /\ x.revision \in Payloads
      /\ x \in [owner : Evictors \cup {Nobody}, on : Resources, revision : Payloads,
                at : {"sent", "renamed"}]
      /\ evictor \in [Evictors -> EvictorTypes]
  BY EvictorTyped DEF TypeOK
<1>b. ASSUME disk' \in [Resources -> Payloads \cup {Gone}],
             tomb' \in [Resources -> [Payloads -> Payloads \cup {Gone}]],
             stranded' \subseteq Resources \X Payloads,
             evictor' \in [Evictors -> EvictorTypes],
             scripts' \subseteq [owner : Evictors \cup {Nobody}, on : Resources,
                                revision : Payloads, at : {"sent", "renamed"}],
             UNCHANGED <<rows, probe, copier, begun>>
      PROVE  TypeOK'
  BY <1>b DEF TypeOK, EvictorTypes, EvictorPcs, rows
<1>c. /\ disk \in [Resources -> Payloads \cup {Gone}]
      /\ tomb \in [Resources -> [Payloads -> Payloads \cup {Gone}]]
      /\ stranded \subseteq Resources \X Payloads
      /\ scripts \subseteq [owner : Evictors \cup {Nobody}, on : Resources,
                           revision : Payloads, at : {"sent", "renamed"}]
  BY DEF TypeOK
<1>1. CASE Rename(x)
  <2>1. CASE Return(x, TRUE) /\ UNCHANGED <<disk, tomb>>
    BY <1>1, <1>b, <1>c, <2>1, ReturnType DEF Rename
  <2>2. CASE Return(x, FALSE) /\ UNCHANGED <<disk, tomb>>
    BY <1>1, <1>b, <1>c, <2>2, ReturnType DEF Rename
  <2>3. CASE /\ tomb' = [tomb EXCEPT ![x.on][x.revision] = disk[x.on]]
             /\ disk' = [disk EXCEPT ![x.on] = Gone]
             /\ scripts' = (scripts \ {x}) \cup {[x EXCEPT !.at = "renamed"]}
             /\ UNCHANGED evictor
    <3>1. disk' \in [Resources -> Payloads \cup {Gone}]
          /\ tomb' \in [Resources -> [Payloads -> Payloads \cup {Gone}]]
      BY <1>a, <1>c, <2>3
    <3>2. scripts' \subseteq [owner : Evictors \cup {Nobody}, on : Resources,
                             revision : Payloads, at : {"sent", "renamed"}]
      BY <1>a, <1>c, <2>3
    <3> QED BY <1>1, <1>a, <1>b, <1>c, <2>3, <3>1, <3>2 DEF Rename
  <2> QED BY <1>1, <2>1, <2>2, <2>3 DEF Rename
<1>2. CASE Remove(x)
  <2>1. tomb' \in [Resources -> [Payloads -> Payloads \cup {Gone}]]
    BY <1>2, <1>a, <1>c DEF Remove
  <2> QED BY <1>2, <1>b, <1>c, <2>1, ReturnType DEF Remove
<1>3. CASE Refuse(x)
  <2>1. tomb[x.on][x.revision] \in Payloads \cup {Gone}
    BY <1>a, <1>c
  <2>2. CASE tomb[x.on][x.revision] \in Payloads
    BY <1>3, <1>b, <1>c, <2>2, ReturnType, PutBackType DEF Refuse
  <2>3. CASE tomb[x.on][x.revision] = Gone
    <3>1. /\ disk' \in [Resources -> Payloads \cup {Gone}]
          /\ tomb' \in [Resources -> [Payloads -> Payloads \cup {Gone}]]
          /\ stranded' \subseteq Resources \X Payloads
      BY <1>3, <1>a, <1>c, <2>3 DEF Refuse, PutBack
    <3> QED BY <1>3, <1>b, <1>c, <3>1, ReturnType DEF Refuse
  <2> QED BY <2>1, <2>2, <2>3
<1>4. CASE RemoveFails(x)
  <2>1. PICK left \in {Torn, x.revision} : PutBack(x, left)
    BY <1>4 DEF RemoveFails
  <2>2. left \in Payloads
    BY <1>a, <2>1 DEF Payloads
  <2> QED BY <1>4, <1>b, <1>c, <2>1, <2>2, ReturnType, PutBackType DEF RemoveFails
<1>5. CASE ScriptDies(x)
  <2>1. stranded' \subseteq Resources \X Payloads
    BY <1>5, <1>a, <1>c DEF ScriptDies
  <2> QED BY <1>5, <1>b, <1>c, <2>1, ReturnType DEF ScriptDies
<1>6. CASE LoseConnection(x)
  <2>1. [x EXCEPT !.owner = Nobody] \in [owner : Evictors \cup {Nobody}, on : Resources,
                                        revision : Payloads, at : {"sent", "renamed"}]
    BY <1>a
  <2>2. evictor' \in [Evictors -> EvictorTypes]
    BY <1>6, <1>a, IdleTypes DEF LoseConnection
  <2> QED BY <1>6, <1>b, <1>c, <2>1, <2>2 DEF LoseConnection
<1> QED BY <1>1, <1>2, <1>3, <1>4, <1>5, <1>6

\* Both ways of writing a row keep it a row.
LEMMA SaveType ==
  ASSUME TypeOK, NEW r \in Resources, NEW copy \in Rows, SavePathPlacement(r, copy)
  PROVE  row' \in [Resources -> Rows]
<1>1. row \in [Resources -> Rows]
  BY DEF TypeOK
<1>2. \A old \in Rows : [old EXCEPT !.desired = copy.desired] \in Rows
                      /\ [copy EXCEPT !.stored = TRUE] \in Rows
  BY DEF Rows
<1> QED BY <1>1, <1>2 DEF SavePathPlacement

States == {"present", "missing", "unreachable", "unknown"}

LEMMA ObserveType ==
  ASSUME TypeOK, NEW r \in Resources, NEW state \in States,
         NEW revision \in Payloads \cup {Gone}, NEW now \in Nat, NEW source \in Sources,
         NEW read,
         UpdateObservation(r, Observation(state, revision, now), source, read)
  PROVE  row' \in [Resources -> Rows] /\ late' \subseteq Sources
<1>1. row \in [Resources -> Rows] /\ late \subseteq Sources
  BY DEF TypeOK
<1>2. CASE Supersedes(r, now)
  <2>1. row' = [row EXCEPT ![r].observed = state, ![r].revision = revision, ![r].checked = now]
    BY <1>2 DEF UpdateObservation, Observation
  <2>2. row' \in [Resources -> Rows]
    <3>1. \A old \in Rows : [old EXCEPT !.observed = state, !.revision = revision,
                                      !.checked = now] \in Rows
      BY DEF Rows, States
    <3>2. row' = [row EXCEPT ![r] = [@ EXCEPT !.observed = state, !.revision = revision,
                                            !.checked = now]]
      BY <1>1, <2>1 DEF Rows
    <3> QED BY <1>1, <3>1, <3>2
  <2>3. late' \subseteq Sources
    BY <1>1, <1>2 DEF UpdateObservation, Observation
  <2> QED BY <2>2, <2>3
<1>3. CASE ~Supersedes(r, now)
  BY <1>1, <1>3 DEF UpdateObservation, Observation
<1> QED BY <1>2, <1>3

LEMMA CopyTypes ==
  /\ NoRow \in Rows
  /\ \A d \in {"present", "absent"} : [NoRow EXCEPT !.desired = d] \in Rows
  /\ \A v \in Payloads \cup {NoRevision}, now \in Nat :
       [NoRow EXCEPT !.observed = "present", !.revision = v, !.checked = now] \in Rows
BY DEF NoRow, Rows

\* A step that only writes rows and moves one process keeps the rest as it is.
LEMMA RowStep ==
  ASSUME TypeOK, UNCHANGED remote, row' \in [Resources -> Rows], late' \subseteq Sources,
         clock' \in Nat, begun' \in Nat, evictor' \in [Evictors -> EvictorTypes],
         probe' \in [Probes -> ProbeTypes], copier' \in [Copiers -> CopierTypes]
  PROVE  TypeOK'
BY DEF TypeOK, remote, EvictorTypes, EvictorPcs, ProbeTypes, CopierTypes

LEMMA Typed ==
  TypeOK => /\ row \in [Resources -> Rows] /\ late \subseteq Sources
            /\ clock \in Nat /\ begun \in Nat
            /\ evictor \in [Evictors -> EvictorTypes]
            /\ probe \in [Probes -> ProbeTypes] /\ copier \in [Copiers -> CopierTypes]
            /\ disk \in [Resources -> Payloads \cup {Gone}]
BY DEF TypeOK, EvictorTypes, EvictorPcs, ProbeTypes, CopierTypes

LEMMA RecordType ==
  ASSUME TypeOK, NEW e \in Evictors, RecordDesired(e) \/ RecordMissing(e)
  PROVE  TypeOK'
<1>a. evictor[e].on \in Resources
  BY Typed DEF EvictorTypes
<1>1. CASE RecordDesired(e)
  <2>1. row' \in [Resources -> Rows]
    BY <1>1, <1>a, SaveType, CopyTypes DEF RecordDesired
  <2>2. evictor' \in [Evictors -> EvictorTypes]
    BY <1>1, Typed, EvictorTyped DEF RecordDesired, EvictorPcs
  <2> QED BY <1>1, <2>1, <2>2, RowStep, Typed DEF RecordDesired
<1>2. CASE RecordMissing(e)
  <2>1. clock' \in Nat
    BY <1>2, Typed DEF RecordMissing, Tick
  <2>2. row' \in [Resources -> Rows] /\ late' \subseteq Sources
    BY <1>2, <1>a, <2>1, ObserveType DEF RecordMissing, Sources, States
  <2>3. evictor' \in [Evictors -> EvictorTypes]
    BY <1>2, Typed, IdleTypes DEF RecordMissing
  <2> QED BY <1>2, <2>1, <2>2, <2>3, RowStep, Typed DEF RecordMissing
<1> QED BY <1>1, <1>2

LEMMA ProbeTyped ==
  ASSUME TypeOK, NEW p \in Probes
  PROVE  /\ probe[p] \in ProbeTypes /\ probe[p].on \in Resources
         /\ probe[p].desired \in {"present", "absent"} /\ probe[p].now \in Nat
         /\ probe[p].found \in Readings
BY Typed DEF ProbeTypes

LEMMA ProbeType ==
  ASSUME TypeOK, NEW p \in Probes, NEW r \in Resources, NEW kind \in {"inspect", "hash"},
         \/ SelectPlacement(p, r, kind) \/ InspectBegins(p) \/ HashBegins(p)
         \/ Look(p) \/ InspectEnds(p) \/ HashEnds(p)
  PROVE  TypeOK'
<1>1. CASE SelectPlacement(p, r, kind)
  <2>1. row[r].desired \in {"present", "absent"}
    BY Typed DEF Rows
  <2>2. [IdleProbe EXCEPT !.at = "selected", !.on = r, !.kind = kind,
                          !.desired = row[r].desired] \in ProbeTypes
    BY <2>1, IdleTypes DEF ProbeTypes
  <2>3. probe' \in [Probes -> ProbeTypes] /\ begun' \in Nat
    BY <1>1, <2>2, Typed DEF SelectPlacement, Begin
  <2> QED BY <1>1, <2>3, RowStep, Typed DEF SelectPlacement, rows
<1>2. CASE InspectBegins(p)
  <2>1. clock' \in Nat
    BY <1>2, Typed DEF InspectBegins, Tick
  <2>2. row' \in [Resources -> Rows]
    BY <1>2, ProbeTyped, SaveType, CopyTypes DEF InspectBegins
  <2>3. [probe[p] EXCEPT !.at = "saved", !.now = clock'] \in ProbeTypes
    BY <2>1, ProbeTyped DEF ProbeTypes
  <2>4. probe' = [probe EXCEPT ![p] = [probe[p] EXCEPT !.at = "saved", !.now = clock']]
    BY <1>2, Typed, ProbeTyped DEF InspectBegins, ProbeTypes
  <2>5. probe' \in [Probes -> ProbeTypes]
    BY <2>3, <2>4, Typed
  <2> QED BY <1>2, <2>1, <2>2, <2>5, RowStep, Typed DEF InspectBegins
<1>3. CASE HashBegins(p)
  <2>1. row' \in [Resources -> Rows]
    BY <1>3, ProbeTyped, SaveType, CopyTypes DEF HashBegins
  <2>2. [probe[p] EXCEPT !.at = "saved"] \in ProbeTypes
    BY ProbeTyped DEF ProbeTypes
  <2>3. probe' \in [Probes -> ProbeTypes]
    BY <1>3, <2>2, Typed DEF HashBegins
  <2> QED BY <1>3, <2>1, <2>3, RowStep, Typed DEF HashBegins
<1>4. CASE Look(p)
  <2>1. PICK found \in {disk[probe[p].on], "unreachable", "unknown"} :
          probe' = [probe EXCEPT ![p].at = "looked", ![p].read = clock, ![p].found = found]
    BY <1>4 DEF Look
  <2>2. found \in Readings /\ clock \in Nat
    BY <2>1, ProbeTyped, Typed DEF Readings
  <2>3. [probe[p] EXCEPT !.at = "looked", !.read = clock, !.found = found] \in ProbeTypes
    BY <2>2, ProbeTyped DEF ProbeTypes
  <2>4. probe' = [probe EXCEPT ![p] = [probe[p] EXCEPT !.at = "looked", !.read = clock,
                                                       !.found = found]]
    BY <2>1, Typed, ProbeTyped DEF ProbeTypes
  <2>5. probe' \in [Probes -> ProbeTypes]
    BY <2>3, <2>4, Typed
  <2> QED BY <1>4, <2>5, RowStep, Typed DEF Look, rows
<1>5. CASE InspectEnds(p)
  <2> DEFINE x == probe[p]
             state == CASE x.found \in {"unreachable", "unknown"} -> x.found
                        [] x.found = Gone -> "missing"
                        [] OTHER -> "present"
  <2>1. state \in States
    BY DEF States
  <2>2. UpdateObservation(x.on, Observation(state, NoRevision, x.now), "remote_stat", x.read)
    BY <1>5 DEF InspectEnds
  <2> HIDE DEF state
  <2>3. row' \in [Resources -> Rows] /\ late' \subseteq Sources
    BY <2>1, <2>2, ProbeTyped, ObserveType DEF Sources
  <2>4. probe' \in [Probes -> ProbeTypes]
    BY <1>5, Typed, IdleTypes DEF InspectEnds
  <2> QED BY <1>5, <2>3, <2>4, RowStep, Typed DEF InspectEnds
<1>6. CASE HashEnds(p)
  <2>1. clock' \in Nat
    BY <1>6, Typed DEF HashEnds, Tick
  <2>2. row' \in [Resources -> Rows] /\ late' \subseteq Sources
    <3>1. CASE probe[p].found \in Payloads
      BY <1>6, <2>1, <3>1, ProbeTyped, ObserveType DEF HashEnds, Sources, States
    <3>2. CASE probe[p].found = Gone
      BY <1>6, <2>1, <3>2, ProbeTyped, ObserveType DEF HashEnds, Sources, States, Payloads
    <3>3. CASE probe[p].found \notin Payloads \cup {Gone}
      <4>1. probe[p].found \in States
        BY <3>3, ProbeTyped DEF Readings, States
      <4> QED BY <1>6, <2>1, <3>3, <4>1, ProbeTyped, ObserveType DEF HashEnds, Sources
    <3> QED BY <3>1, <3>2, <3>3
  <2>3. probe' \in [Probes -> ProbeTypes]
    BY <1>6, Typed, IdleTypes DEF HashEnds
  <2> QED BY <1>6, <2>1, <2>2, <2>3, RowStep, Typed DEF HashEnds
<1> QED BY <1>1, <1>2, <1>3, <1>4, <1>5, <1>6

LEMMA CopierTyped ==
  ASSUME TypeOK, NEW c \in Copiers
  PROVE  /\ copier[c] \in CopierTypes /\ copier[c].on \in Resources
         /\ copier[c].revision \in Payloads \cup {Gone}
BY Typed DEF CopierTypes

LEMMA CopierType ==
  ASSUME TypeOK, NEW c \in Copiers, NEW r \in Resources,
         \/ Promote(c, r) \/ VerifyCache(c, r) \/ SaveDestination(c)
         \/ ObserveDestination(c) \/ RegisterCache(c)
  PROVE  TypeOK'
<1>a. \A at \in {"promoted", "cached"}, v \in Payloads :
        [at |-> at, on |-> r, revision |-> v] \in CopierTypes
  BY DEF CopierTypes
<1>1. CASE Promote(c, r)
  <2>1. PICK s \in Resources : /\ disk[s] \in Revisions
                               /\ disk' = [disk EXCEPT ![r] = disk[s]]
                               /\ copier' = [copier EXCEPT ![c] =
                                     [at |-> "promoted", on |-> r, revision |-> disk[s]]]
    BY <1>1 DEF Promote
  <2>2. copier' \in [Copiers -> CopierTypes] /\ disk' \in [Resources -> Payloads \cup {Gone}]
    BY <1>a, <2>1, Typed DEF Payloads
  <2> QED BY <1>1, <2>2 DEF Promote, TypeOK, rows, Begin, CopierTypes
<1>2. CASE VerifyCache(c, r)
  <2>1. copier' \in [Copiers -> CopierTypes] /\ begun' \in Nat
    BY <1>2, <1>a, Typed DEF VerifyCache, Payloads, Begin
  <2> QED BY <1>2, <2>1, RowStep, Typed DEF VerifyCache, rows
<1>3. CASE SaveDestination(c)
  <2>1. row' \in [Resources -> Rows]
    BY <1>3, CopierTyped, SaveType, CopyTypes DEF SaveDestination
  <2>2. [copier[c] EXCEPT !.at = "saved"] \in CopierTypes
    BY CopierTyped DEF CopierTypes
  <2>3. copier' \in [Copiers -> CopierTypes]
    BY <1>3, <2>2, Typed DEF SaveDestination
  <2> QED BY <1>3, <2>1, <2>3, RowStep, Typed DEF SaveDestination
<1>4. CASE ObserveDestination(c)
  <2>1. clock' \in Nat
    BY <1>4, Typed DEF ObserveDestination, Tick
  <2>2. row' \in [Resources -> Rows] /\ late' \subseteq Sources
    BY <1>4, <2>1, CopierTyped, ObserveType DEF ObserveDestination, Sources, States
  <2>3. copier' \in [Copiers -> CopierTypes]
    BY <1>4, Typed, IdleTypes DEF ObserveDestination
  <2> QED BY <1>4, <2>1, <2>2, <2>3, RowStep, Typed DEF ObserveDestination
<1>5. CASE RegisterCache(c)
  <2>1. clock' \in Nat
    BY <1>5, Typed DEF RegisterCache, Tick
  <2>2. row' \in [Resources -> Rows]
    BY <1>5, <2>1, CopierTyped, SaveType, CopyTypes DEF RegisterCache
  <2>3. copier' \in [Copiers -> CopierTypes]
    BY <1>5, Typed, IdleTypes DEF RegisterCache
  <2> QED BY <1>5, <2>1, <2>2, <2>3, RowStep, Typed DEF RegisterCache
<1> QED BY <1>1, <1>2, <1>3, <1>4, <1>5

LEMMA RunWritesType ==
  ASSUME TypeOK, NEW r \in Resources, RunWrites(r)
  PROVE  TypeOK'
<1>1. disk' \in [Resources -> Payloads \cup {Gone}]
  BY Typed DEF RunWrites, Payloads
<1> QED BY <1>1 DEF RunWrites, TypeOK, rows, Begin

LEMMA NextTypeOK == TypeOK /\ [Next]_vars => TypeOK'
<1> SUFFICES ASSUME TypeOK, [Next]_vars PROVE TypeOK'
  OBVIOUS
<1>1. CASE UNCHANGED vars
  BY <1>1 DEF TypeOK, vars, remote, rows
<1>2. CASE Next
  BY <1>2, PlanType, ScriptType, RecordType, ProbeType, CopierType, RunWritesType DEF Next
<1> QED BY <1>1, <1>2

\* Every row, process and script is of the kind the code gives it (TypeOK).
THEOREM TypeCorrect == Spec => []TypeOK
<1>1. Init => TypeOK
  BY InitTypeOK
<1>2. TypeOK /\ [Next]_vars => TypeOK'
  BY NextTypeOK
<1> QED BY <1>1, <1>2, PTL DEF Spec

-----------------------------------------------------------------------------
(* No tombstone is forgotten *)

\* What the handler of the exception leaves of a tombstone is stranded.
LEMMA PutBackAccounts ==
  ASSUME TypeOK, NEW x \in scripts, NEW payload, PutBack(x, payload),
         NEW r \in Resources, NEW v \in Payloads, tomb'[r][v] # Gone
  PROVE  /\ stranded \subseteq stranded'
         /\ \/ <<r, v>> \in stranded'
            \/ tomb[r][v] # Gone /\ <<r, v>> # <<x.on, x.revision>>
<1>1. x.on \in Resources /\ x.revision \in Payloads
  BY DEF TypeOK
<1>2. tomb \in [Resources -> [Payloads -> Payloads \cup {Gone}]]
  BY DEF TypeOK
<1>3. CASE disk[x.on] = Gone
  BY <1>1, <1>2, <1>3 DEF PutBack
<1>4. CASE disk[x.on] # Gone
  BY <1>1, <1>2, <1>4 DEF PutBack
<1> QED BY <1>3, <1>4

LEMMA TombstoneStep ==
  TypeOK /\ TombstonesAreAccounted /\ [Next]_vars => TombstonesAreAccounted'
<1> SUFFICES ASSUME TypeOK, TombstonesAreAccounted, [Next]_vars,
                    NEW r \in Resources, NEW v \in Payloads, tomb'[r][v] # Gone
             PROVE  \/ <<r, v>> \in stranded'
                    \/ \E y \in scripts' : y.on = r /\ y.revision = v /\ y.at = "renamed"
  BY DEF TombstonesAreAccounted
<1> DEFINE Held == \E y \in scripts : y.on = r /\ y.revision = v /\ y.at = "renamed"
<1>a. tomb[r][v] # Gone => <<r, v>> \in stranded \/ Held
  BY DEF TombstonesAreAccounted
<1>b. tomb \in [Resources -> [Payloads -> Payloads \cup {Gone}]]
  BY DEF TypeOK
<1>c. scripts \subseteq [owner : Evictors \cup {Nobody}, on : Resources,
                       revision : Payloads, at : {"sent", "renamed"}]
  BY DEF TypeOK
<1>0. CASE UNCHANGED <<tomb, stranded>> /\ \A y \in scripts : y.at = "renamed" => y \in scripts'
  BY <1>a, <1>0
<1>1. CASE UNCHANGED vars
  BY <1>1, <1>0 DEF vars, remote
<1>2. ASSUME NEW e \in Evictors, NEW s \in Resources,
             \/ PlanSource(e, s) \/ PlanAlternate(e) \/ Evict(e)
             \/ RecordDesired(e) \/ RecordMissing(e)
      PROVE  UNCHANGED <<tomb, stranded>> /\ \A y \in scripts : y \in scripts'
  BY <1>2 DEF PlanSource, PlanAlternate, Evict, RecordDesired, RecordMissing, remote
<1>3. ASSUME NEW p \in Probes, NEW s \in Resources, NEW k \in {"inspect", "hash"},
             \/ SelectPlacement(p, s, k) \/ InspectBegins(p) \/ HashBegins(p)
             \/ Look(p) \/ InspectEnds(p) \/ HashEnds(p)
      PROVE  UNCHANGED <<tomb, stranded, scripts>>
  BY <1>3 DEF SelectPlacement, InspectBegins, HashBegins, Look, InspectEnds, HashEnds, remote
<1>4. ASSUME NEW c \in Copiers, NEW s \in Resources,
             \/ Promote(c, s) \/ VerifyCache(c, s) \/ SaveDestination(c)
             \/ ObserveDestination(c) \/ RegisterCache(c)
      PROVE  UNCHANGED <<tomb, stranded, scripts>>
  BY <1>4 DEF Promote, VerifyCache, SaveDestination, ObserveDestination, RegisterCache, remote
<1>5. ASSUME NEW s \in Resources, RunWrites(s)
      PROVE  UNCHANGED <<tomb, stranded, scripts>>
  BY <1>5 DEF RunWrites
<1>6. ASSUME NEW x \in scripts, Rename(x)
      PROVE  \/ <<r, v>> \in stranded'
             \/ \E y \in scripts' : y.on = r /\ y.revision = v /\ y.at = "renamed"
  <2>1. CASE UNCHANGED tomb /\ scripts' = scripts \ {x}
    BY <1>a, <1>6, <2>1 DEF Rename
  <2>2. CASE /\ tomb' = [tomb EXCEPT ![x.on][x.revision] = disk[x.on]]
             /\ scripts' = (scripts \ {x}) \cup {[x EXCEPT !.at = "renamed"]}
    <3>1. CASE r = x.on /\ v = x.revision
      <4>1. [x EXCEPT !.at = "renamed"] \in scripts'
        BY <2>2
      <4>2. /\ [x EXCEPT !.at = "renamed"].on = r /\ [x EXCEPT !.at = "renamed"].revision = v
            /\ [x EXCEPT !.at = "renamed"].at = "renamed"
        BY <1>c, <3>1
      <4> QED BY <4>1, <4>2
    <3>2. CASE ~(r = x.on /\ v = x.revision)
      <4>1. tomb'[r][v] = tomb[r][v]
        BY <1>b, <1>c, <2>2, <3>2
      <4> QED BY <1>a, <1>6, <2>2, <4>1 DEF Rename
    <3> QED BY <3>1, <3>2
  <2> QED BY <1>6, <2>1, <2>2 DEF Rename, Return
<1>7. ASSUME NEW x \in scripts, Remove(x)
      PROVE  \/ <<r, v>> \in stranded'
             \/ \E y \in scripts' : y.on = r /\ y.revision = v /\ y.at = "renamed"
  <2>1. tomb[r][v] # Gone /\ ~(r = x.on /\ v = x.revision)
    BY <1>7, <1>b, <1>c DEF Remove
  <2> QED BY <1>7, <1>a, <2>1 DEF Remove, Return
<1>8. ASSUME NEW x \in scripts, NEW payload, PutBack(x, payload), scripts' = scripts \ {x}
      PROVE  \/ <<r, v>> \in stranded'
             \/ \E y \in scripts' : y.on = r /\ y.revision = v /\ y.at = "renamed"
  <2>1. /\ stranded \subseteq stranded'
        /\ \/ <<r, v>> \in stranded'
           \/ tomb[r][v] # Gone /\ <<r, v>> # <<x.on, x.revision>>
    BY <1>8, PutBackAccounts
  <2> QED BY <1>a, <1>8, <2>1
<1>9. ASSUME NEW x \in scripts, Refuse(x) \/ RemoveFails(x)
      PROVE  \/ <<r, v>> \in stranded'
             \/ \E y \in scripts' : y.on = r /\ y.revision = v /\ y.at = "renamed"
  BY <1>8, <1>9 DEF Refuse, RemoveFails, Return
<1>10. ASSUME NEW x \in scripts, ScriptDies(x)
      PROVE  \/ <<r, v>> \in stranded'
             \/ \E y \in scripts' : y.on = r /\ y.revision = v /\ y.at = "renamed"
  BY <1>a, <1>10 DEF ScriptDies, Return
<1>11. ASSUME NEW x \in scripts, LoseConnection(x)
      PROVE  \/ <<r, v>> \in stranded'
             \/ \E y \in scripts' : y.on = r /\ y.revision = v /\ y.at = "renamed"
  <2>1. [x EXCEPT !.owner = Nobody] \in scripts'
    BY <1>11 DEF LoseConnection
  <2>2. /\ [x EXCEPT !.owner = Nobody].on = x.on /\ [x EXCEPT !.owner = Nobody].at = x.at
        /\ [x EXCEPT !.owner = Nobody].revision = x.revision
    BY <1>c
  <2> QED BY <1>a, <1>11, <2>1, <2>2 DEF LoseConnection
<1> QED
  BY <1>0, <1>1, <1>2, <1>3, <1>4, <1>5, <1>6, <1>7, <1>9, <1>10, <1>11 DEF Next

\* No outcome of a removal script forgets a tombstone (TombstonesAreAccounted).
THEOREM TombstonesSafe == Spec => []TombstonesAreAccounted
<1>1. Init => TombstonesAreAccounted
  <2> SUFFICES ASSUME Init, NEW r \in Resources, NEW v \in Payloads PROVE tomb[r][v] = Gone
    BY DEF TombstonesAreAccounted
  <2>1. tomb = [q \in Resources |-> [u \in Payloads |-> Gone]]
    BY DEF Init
  <2> QED BY <2>1
<1>2. TypeOK /\ TombstonesAreAccounted /\ [Next]_vars => TombstonesAreAccounted'
  BY TombstoneStep
<1> QED BY <1>1, <1>2, TypeCorrect, PTL DEF Spec

-----------------------------------------------------------------------------
(* Inspect is never late: the instant it is dated precedes what it sees. *)

InspectInv ==
  \A p \in Probes : probe[p].kind = "inspect" =>
      /\ probe[p].at = "saved" => probe[p].now <= clock
      /\ probe[p].at = "looked" => probe[p].now <= probe[p].read

LateInv == InspectInv /\ InspectIsNeverLate

LEMMA LateStep == TypeOK /\ LateInv /\ [Next]_vars => LateInv'
<1> SUFFICES ASSUME TypeOK, LateInv, [Next]_vars PROVE LateInv'
  OBVIOUS
<1> USE DEF LateInv
<1>a. probe \in [Probes -> ProbeTypes] /\ clock \in Nat
  BY Typed
<1>0. ASSUME clock <= clock', clock' \in Nat, UNCHANGED probe PROVE InspectInv'
  <2> SUFFICES ASSUME NEW q \in Probes, probe[q].kind = "inspect"
               PROVE  /\ probe[q].at = "saved" => probe[q].now <= clock'
                      /\ probe[q].at = "looked" => probe[q].now <= probe[q].read
    BY <1>0 DEF InspectInv
  <2>1. probe[q].now \in Nat
    BY <1>a DEF ProbeTypes
  <2> QED BY <1>0, <1>a, <2>1 DEF InspectInv
<1>1. CASE UNCHANGED vars
  BY <1>1, <1>0, <1>a DEF vars, rows, InspectIsNeverLate
<1>2. ASSUME NEW e \in Evictors, NEW s \in Resources,
             PlanSource(e, s) \/ PlanAlternate(e) \/ Evict(e) \/ RecordDesired(e)
      PROVE  LateInv'
  BY <1>0, <1>a, <1>2 DEF PlanSource, PlanAlternate, Evict, RecordDesired, rows,
     InspectIsNeverLate
<1>3. ASSUME NEW x \in scripts,
             Rename(x) \/ Remove(x) \/ Refuse(x) \/ RemoveFails(x) \/ ScriptDies(x)
               \/ LoseConnection(x)
      PROVE  LateInv'
  <2>1. UNCHANGED <<clock, late, probe>>
    BY <1>3 DEF Rename, Remove, Refuse, RemoveFails, ScriptDies, LoseConnection, rows
  <2> QED BY <1>0, <1>a, <2>1 DEF InspectIsNeverLate
<1>4. ASSUME NEW e \in Evictors, RecordMissing(e)
      PROVE  LateInv'
  BY <1>0, <1>a, <1>4 DEF RecordMissing, Tick, UpdateObservation, InspectIsNeverLate
<1>5. ASSUME NEW c \in Copiers, NEW s \in Resources,
             \/ Promote(c, s) \/ VerifyCache(c, s) \/ SaveDestination(c)
             \/ ObserveDestination(c) \/ RegisterCache(c)
      PROVE  LateInv'
  BY <1>0, <1>a, <1>5 DEF Promote, VerifyCache, SaveDestination, ObserveDestination,
     RegisterCache, rows, Tick, UpdateObservation, InspectIsNeverLate
<1>6. ASSUME NEW s \in Resources, RunWrites(s)
      PROVE  LateInv'
  BY <1>0, <1>a, <1>6 DEF RunWrites, rows, InspectIsNeverLate
<1>7. ASSUME NEW p \in Probes, NEW s \in Resources, NEW k \in {"inspect", "hash"},
             \/ SelectPlacement(p, s, k) \/ InspectBegins(p) \/ HashBegins(p)
             \/ Look(p) \/ InspectEnds(p) \/ HashEnds(p)
      PROVE  LateInv'
  <2>a. ASSUME \A q \in Probes \ {p} : probe'[q] = probe[q],
               clock' \in Nat, clock <= clock',
               probe'[p].kind = "inspect" =>
                   /\ probe'[p].at = "saved" => probe'[p].now <= clock'
                   /\ probe'[p].at = "looked" => probe'[p].now <= probe'[p].read
        PROVE  InspectInv'
    <3> SUFFICES ASSUME NEW q \in Probes, probe'[q].kind = "inspect"
                 PROVE  /\ probe'[q].at = "saved" => probe'[q].now <= clock'
                        /\ probe'[q].at = "looked" => probe'[q].now <= probe'[q].read
      BY DEF InspectInv
    <3>1. CASE q = p
      BY <1>a, <2>a, <3>1
    <3>2. CASE q # p
      <4>1. probe'[q] = probe[q] /\ probe[q].now \in Nat
        BY <1>a, <2>a, <3>2 DEF ProbeTypes
      <4> QED BY <1>a, <2>a, <4>1 DEF InspectInv
    <3> QED BY <3>1, <3>2
  <2>b. probe[p] \in ProbeTypes
    BY <1>a
  <2>c. IdleProbe.at = "idle"
    BY DEF IdleProbe
  <2>1. CASE SelectPlacement(p, s, k)
    <3> DEFINE y == [IdleProbe EXCEPT !.at = "selected", !.on = s, !.kind = k,
                                      !.desired = row[s].desired]
    <3>1. row[s].desired \in {"present", "absent"}
      BY Typed DEF Rows
    <3>2. y \in ProbeTypes /\ y.at = "selected"
      BY <3>1, IdleTypes DEF ProbeTypes
    <3>3. probe' = [probe EXCEPT ![p] = y] /\ UNCHANGED <<clock, late>>
      BY <2>1 DEF SelectPlacement, rows
    <3> HIDE DEF y
    <3>8. probe'[p] = y /\ \A q \in Probes \ {p} : probe'[q] = probe[q]
      BY <1>a, <3>3
    <3>9. InspectInv'
      BY <1>a, <2>a, <3>8, <3>2, <3>3
    <3> QED BY <3>2, <3>3, <3>9 DEF InspectIsNeverLate
  <2>2. CASE InspectBegins(p)
    <3> DEFINE y == [probe[p] EXCEPT !.at = "saved", !.now = clock']
    <3>1. clock' = clock + 1 /\ UNCHANGED late
      BY <2>2 DEF InspectBegins, Tick
    <3>2. y \in ProbeTypes /\ y.at = "saved" /\ y.now = clock'
      <4>1. clock' \in Nat
        BY <1>a, <3>1
      <4> QED BY <2>b, <4>1 DEF ProbeTypes
    <3>3. probe' = [probe EXCEPT ![p] = y]
      BY <1>a, <2>2 DEF InspectBegins, ProbeTypes
    <3> HIDE DEF y
    <3>8. probe'[p] = y /\ \A q \in Probes \ {p} : probe'[q] = probe[q]
      BY <1>a, <3>3
    <3>9. InspectInv'
      BY <1>a, <2>a, <3>8, <3>1, <3>2, <3>3
    <3> QED BY <3>1, <3>2, <3>3, <3>9 DEF InspectIsNeverLate
  <2>3. CASE HashBegins(p)
    <3> DEFINE y == [probe[p] EXCEPT !.at = "saved"]
    <3>1. y \in ProbeTypes /\ y.kind = "hash"
      BY <2>b, <2>3 DEF ProbeTypes, HashBegins
    <3>2. probe' = [probe EXCEPT ![p] = y] /\ UNCHANGED <<clock, late>>
      BY <1>a, <2>3 DEF HashBegins
    <3> HIDE DEF y
    <3>8. probe'[p] = y /\ \A q \in Probes \ {p} : probe'[q] = probe[q]
      BY <1>a, <3>2
    <3>9. InspectInv'
      BY <1>a, <2>a, <3>8, <3>1, <3>2
    <3> QED BY <3>1, <3>2, <3>9 DEF InspectIsNeverLate
  <2>4. CASE Look(p)
    <3>1. PICK found \in {disk[probe[p].on], "unreachable", "unknown"} :
            probe' = [probe EXCEPT ![p].at = "looked", ![p].read = clock, ![p].found = found]
      BY <2>4 DEF Look
    <3> DEFINE y == [probe[p] EXCEPT !.at = "looked", !.read = clock, !.found = found]
    <3>2. found \in Readings
      BY <3>1, ProbeTyped, Typed DEF Readings
    <3>3. /\ y \in ProbeTypes /\ y.at = "looked" /\ y.read = clock
          /\ y.now = probe[p].now /\ y.kind = probe[p].kind
      BY <1>a, <2>b, <3>2 DEF ProbeTypes
    <3>4. probe' = [probe EXCEPT ![p] = y] /\ UNCHANGED <<clock, late>>
      BY <1>a, <2>4, <3>1 DEF Look, ProbeTypes, rows
    <3>5. y.kind = "inspect" => y.now <= y.read
      BY <2>4, <3>3 DEF Look, InspectInv
    <3> HIDE DEF y
    <3>8. probe'[p] = y /\ \A q \in Probes \ {p} : probe'[q] = probe[q]
      BY <1>a, <3>4
    <3>9. InspectInv'
      BY <1>a, <2>a, <3>8, <3>3, <3>4, <3>5
    <3> QED BY <3>3, <3>4, <3>5, <3>9 DEF InspectIsNeverLate
  <2>5. CASE InspectEnds(p)
    <3>1. probe' = [probe EXCEPT ![p] = IdleProbe] /\ UNCHANGED clock
      BY <2>5 DEF InspectEnds
    <3>2. InspectInv'
      <4>1. probe'[p].at = "idle" /\ \A q \in Probes \ {p} : probe'[q] = probe[q]
        BY <1>a, <2>c, <3>1
      <4>2. clock \in Nat /\ clock' \in Nat /\ clock <= clock'
        BY <1>a, <3>1
      <4> QED BY <2>a, <4>1, <4>2
    <3>3. /\ probe[p].now \in Nat /\ probe[p].read \in Nat
          /\ row[probe[p].on].checked \in Nat /\ probe[p].now <= probe[p].read
      BY <2>5, <2>b, Typed DEF ProbeTypes, Rows, InspectEnds, InspectInv
    <3>4. \/ UNCHANGED late
          \/ /\ row[probe[p].on].checked < probe[p].now
             /\ late' = IF probe[p].read < row[probe[p].on].checked
                        THEN late \cup {"remote_stat"} ELSE late
      BY <2>5 DEF InspectEnds, UpdateObservation, Observation, Supersedes
    <3>5. UNCHANGED late
      BY <3>3, <3>4
    <3> QED BY <3>2, <3>5 DEF InspectIsNeverLate
  <2>6. CASE HashEnds(p)
    <3>1. probe' = [probe EXCEPT ![p] = IdleProbe] /\ clock' = clock + 1
      BY <2>6 DEF HashEnds, Tick
    <3>2. InspectInv'
      <4>1. probe'[p].at = "idle" /\ \A q \in Probes \ {p} : probe'[q] = probe[q]
        BY <1>a, <2>c, <3>1
      <4>2. clock \in Nat /\ clock' \in Nat /\ clock <= clock'
        BY <1>a, <3>1
      <4> QED BY <2>a, <4>1, <4>2
    <3>3. late' = late \/ late' = late \cup {"remote_hash"}
      BY <2>6 DEF HashEnds, UpdateObservation
    <3> QED BY <3>2, <3>3 DEF InspectIsNeverLate
  <2> QED BY <1>7, <2>1, <2>2, <2>3, <2>4, <2>5, <2>6
<1> QED
  BY <1>1, <1>2, <1>3, <1>4, <1>5, <1>6, <1>7 DEF Next

\* What Inspect stores it saw after the date it replaces (InspectIsNeverLate).
THEOREM InspectSafe == Spec => []InspectIsNeverLate
<1>1. Init => LateInv
  <2> SUFFICES ASSUME Init PROVE LateInv
    OBVIOUS
  <2>1. \A p \in Probes : probe[p].at = "idle"
    BY DEF Init, IdleProbe
  <2>2. late = {}
    BY DEF Init
  <2> QED BY <2>1, <2>2 DEF LateInv, InspectInv, InspectIsNeverLate
<1>2. TypeOK /\ LateInv /\ [Next]_vars => LateInv'
  BY LateStep
<1>3. LateInv => InspectIsNeverLate
  BY DEF LateInv
<1> QED BY <1>1, <1>2, <1>3, TypeCorrect, PTL DEF Spec

-----------------------------------------------------------------------------
(* One eviction at a time leaves a copy, if no script starts late.           *)
(*                                                                         *)
(* What is planned to go is still what was hashed (PlanHolds); an eviction *)
(* waits for the one script it has sent (OwnerHolds); when a script is     *)
(* sent its source is untouched and another authoritative path holds the   *)
(* same bytes (SentHolds); a script that has renamed leaves the bytes      *)
(* under some authoritative path (RenamedHolds).                           *)

Elsewhere(r, v) == \E s \in Authority \ {r} : disk[s] = v

PlanHolds ==
  \A e \in Evictors :
    LET x == evictor[e] IN
    /\ x.at \in {"planning", "planned"} /\ x.on \in Authority => disk[x.on] = x.revision
    /\ x.at = "planning" => x.on \notin x.cands
    /\ x.at = "planned" => Elsewhere(x.on, x.revision)

OwnerHolds ==
  \A x \in scripts : x.owner # Nobody =>
    /\ evictor[x.owner].at = "removing"
    /\ \A y \in scripts : y.owner = x.owner => y = x

SentHolds ==
  \A x \in scripts : x.at = "sent" =>
    /\ x.owner # Nobody
    /\ x.on \in Authority => disk[x.on] = x.revision
    /\ Elsewhere(x.on, x.revision)

RenamedHolds ==
  \A x \in scripts : x.at = "renamed" => \E s \in Authority : disk[s] = x.revision

CopyInv == PlanHolds /\ OwnerHolds /\ SentHolds /\ RenamedHolds

ScriptTypes == [owner : Evictors \cup {Nobody}, on : Resources,
                revision : Payloads, at : {"sent", "renamed"}]

LEMMA CopyTyped ==
  TypeOK => /\ disk \in [Resources -> Payloads \cup {Gone}]
            /\ evictor \in [Evictors -> EvictorTypes]
            /\ scripts \subseteq ScriptTypes
            /\ Gone \notin Payloads /\ Nobody \notin Evictors
BY Typed DEF TypeOK, Payloads, ScriptTypes, Nobody

\* What no step but a rename may do to an authoritative path: take its payload.
AuthorityKept == \A s \in Authority : disk[s] # Gone => disk'[s] = disk[s]

LEMMA PutBackKeeps ==
  ASSUME TypeOK, NEW x \in scripts, NEW payload, PutBack(x, payload)
  PROVE  AuthorityKept
<1>1. x.on \in Resources /\ disk \in [Resources -> Payloads \cup {Gone}]
  BY DEF TypeOK
<1> QED BY <1>1 DEF PutBack, AuthorityKept

\* If no payload goes and no eviction gets further, the invariant stays.
LEMMA KeptPreserves ==
  ASSUME TypeOK, CopyInv, AuthorityKept, scripts' \subseteq scripts,
         \A e \in Evictors : \/ evictor'[e] = evictor[e]
                             \/ /\ evictor'[e].at \notin {"planning", "planned"}
                                /\ \A x \in scripts' : x.owner # e
  PROVE  CopyInv'
<1>a. /\ disk \in [Resources -> Payloads \cup {Gone}]
      /\ evictor \in [Evictors -> EvictorTypes]
      /\ scripts \subseteq ScriptTypes /\ Gone \notin Payloads
  BY CopyTyped
<1>c. \A v \in Payloads, s \in Authority : disk[s] = v => disk'[s] = v
  BY <1>a DEF AuthorityKept
<1>d. \A r \in Resources, v \in Payloads : Elsewhere(r, v) => Elsewhere(r, v)'
  BY <1>c DEF Elsewhere
<1>1. PlanHolds'
  <2> SUFFICES ASSUME NEW e \in Evictors, evictor'[e].at \in {"planning", "planned"}
               PROVE  /\ evictor'[e].on \in Authority
                           => disk'[evictor'[e].on] = evictor'[e].revision
                      /\ evictor'[e].at = "planning"
                           => evictor'[e].on \notin evictor'[e].cands
                      /\ evictor'[e].at = "planned"
                           => \E s \in Authority \ {evictor'[e].on} :
                                disk'[s] = evictor'[e].revision
    BY DEF PlanHolds, Elsewhere
  <2>1. evictor'[e] = evictor[e]
    OBVIOUS
  <2>2. evictor[e].revision \in Payloads /\ evictor[e].on \in Resources
    BY <1>a DEF EvictorTypes
  <2> QED BY <1>c, <1>d, <2>1, <2>2 DEF CopyInv, PlanHolds, Elsewhere
<1>2. SentHolds'
  <2> SUFFICES ASSUME NEW x \in scripts', x.at = "sent"
               PROVE  /\ x.owner # Nobody
                      /\ x.on \in Authority => disk'[x.on] = x.revision
                      /\ Elsewhere(x.on, x.revision)'
    BY DEF SentHolds
  <2>1. x \in scripts /\ x.on \in Resources /\ x.revision \in Payloads
    BY <1>a DEF ScriptTypes
  <2> QED BY <1>c, <1>d, <2>1 DEF CopyInv, SentHolds
<1>3. RenamedHolds'
  BY <1>a, <1>c DEF CopyInv, RenamedHolds, ScriptTypes
<1>4. OwnerHolds'
  <2> SUFFICES ASSUME NEW x \in scripts', x.owner # Nobody
               PROVE  /\ evictor'[x.owner].at = "removing"
                      /\ \A y \in scripts' : y.owner = x.owner => y = x
    BY DEF OwnerHolds
  <2>1. x \in scripts /\ x.owner \in Evictors
    BY <1>a DEF ScriptTypes
  <2>2. evictor'[x.owner] = evictor[x.owner]
    BY <2>1
  <2> QED BY <2>1, <2>2 DEF CopyInv, OwnerHolds
<1> QED BY <1>1, <1>2, <1>3, <1>4 DEF CopyInv

\* A script that ends without taking a payload keeps the invariant.
LEMMA ReturnPreserves ==
  ASSUME TypeOK, CopyInv, AuthorityKept, NEW x \in scripts, NEW ok \in BOOLEAN, Return(x, ok)
  PROVE  CopyInv'
<1>a. evictor \in [Evictors -> EvictorTypes] /\ Nobody \notin Evictors
  BY CopyTyped
<1>1. scripts' \subseteq scripts /\ x \notin scripts'
  BY DEF Return
<1>2. \A e \in Evictors : e # x.owner => evictor'[e] = evictor[e]
  BY DEF Return
<1>3. ASSUME NEW e \in Evictors, e = x.owner
      PROVE  /\ evictor'[e].at \notin {"planning", "planned"}
             /\ \A y \in scripts' : y.owner # e
  <2>1. evictor'[e].at \in {"removed", "idle"}
    BY <1>a, <1>3 DEF Return, IdleEvictor, EvictorTypes
  <2>2. \A y \in scripts : y.owner = e => y = x
    BY <1>a, <1>3 DEF CopyInv, OwnerHolds
  <2> QED BY <1>1, <2>1, <2>2
<1> QED BY <1>1, <1>2, <1>3, KeptPreserves

\* The rename takes the payload that one eviction was planned for, of which another
\* authoritative path has a copy.
LEMMA RenamePreserves ==
  ASSUME \A e, f \in Evictors : e = f, TypeOK, CopyInv, NEW x \in scripts, x.at = "sent",
         disk' = [disk EXCEPT ![x.on] = Gone],
         scripts' = (scripts \ {x}) \cup {[x EXCEPT !.at = "renamed"]}, UNCHANGED evictor
  PROVE  CopyInv'
<1>a. /\ disk \in [Resources -> Payloads \cup {Gone}]
      /\ evictor \in [Evictors -> EvictorTypes]
      /\ scripts \subseteq ScriptTypes /\ Gone \notin Payloads /\ Nobody \notin Evictors
  BY CopyTyped
<1>b. /\ x.owner \in Evictors /\ x.on \in Resources /\ x.revision \in Payloads
      /\ evictor[x.owner].at = "removing" /\ Elsewhere(x.on, x.revision)
      /\ x.on \in Authority => disk[x.on] = x.revision
  BY <1>a DEF ScriptTypes, CopyInv, OwnerHolds, SentHolds
<1>c. \A y \in scripts : y.owner # Nobody => y = x
  BY <1>a, <1>b DEF ScriptTypes, CopyInv, OwnerHolds
<1> DEFINE y == [x EXCEPT !.at = "renamed"]
<1>d. y.owner = x.owner /\ y.on = x.on /\ y.revision = x.revision /\ y.at = "renamed"
  BY <1>a DEF ScriptTypes
<1>e. scripts' = (scripts \ {x}) \cup {y}
  OBVIOUS
<1> HIDE DEF y
<1>1. PlanHolds'
  BY <1>b DEF PlanHolds
<1>2. SentHolds'
  BY <1>c, <1>d, <1>e DEF CopyInv, SentHolds
<1>3. OwnerHolds'
  BY <1>b, <1>c, <1>d, <1>e DEF OwnerHolds
<1>4. \E s \in Authority : disk'[s] = x.revision
  <2>1. PICK s \in Authority \ {x.on} : disk[s] = x.revision
    BY <1>b DEF Elsewhere
  <2>2. disk'[s] = disk[s]
    BY <1>a, <1>b, <2>1
  <2> QED BY <2>1, <2>2
<1>5. RenamedHolds'
  <2> SUFFICES ASSUME NEW z \in scripts \ {x}, z.at = "renamed"
               PROVE  \E s \in Authority : disk'[s] = z.revision
    BY <1>4, <1>d, <1>e DEF RenamedHolds
  <2>1. PICK s \in Authority : disk[s] = z.revision
    BY DEF CopyInv, RenamedHolds
  <2>2. CASE s = x.on
    BY <1>b, <1>4, <2>1, <2>2
  <2>3. CASE s # x.on
    <3>1. disk'[s] = disk[s]
      BY <1>a, <1>b, <2>1, <2>3
    <3> QED BY <2>1, <3>1
  <2> QED BY <2>2, <2>3
<1> QED BY <1>1, <1>2, <1>3, <1>5 DEF CopyInv

\* A plan that gets further while the disk stays needs only its own facts.
LEMMA PlanPreserves ==
  ASSUME TypeOK, CopyInv, NEW e \in Evictors, UNCHANGED <<disk, scripts>>,
         evictor[e].at # "removing", \A f \in Evictors \ {e} : evictor'[f] = evictor[f],
         evictor'[e].at \in {"planning", "planned"} /\ evictor'[e].on \in Authority
             => disk[evictor'[e].on] = evictor'[e].revision,
         evictor'[e].at = "planning" => evictor'[e].on \notin evictor'[e].cands,
         evictor'[e].at = "planned" => Elsewhere(evictor'[e].on, evictor'[e].revision)
  PROVE  CopyInv'
<1>1. SentHolds' /\ RenamedHolds'
  BY DEF CopyInv, SentHolds, RenamedHolds, Elsewhere
<1>2. OwnerHolds'
  <2>1. \A x \in scripts : x.owner # Nobody => x.owner \in Evictors /\ x.owner # e
    BY CopyTyped DEF ScriptTypes, CopyInv, OwnerHolds
  <2> QED BY <2>1 DEF CopyInv, OwnerHolds
<1>3. PlanHolds'
  <2> SUFFICES ASSUME NEW f \in Evictors, evictor'[f].at \in {"planning", "planned"}
               PROVE  /\ evictor'[f].on \in Authority
                           => disk[evictor'[f].on] = evictor'[f].revision
                      /\ evictor'[f].at = "planning"
                           => evictor'[f].on \notin evictor'[f].cands
                      /\ evictor'[f].at = "planned"
                           => Elsewhere(evictor'[f].on, evictor'[f].revision)
    BY DEF PlanHolds, Elsewhere
  <2>1. CASE f = e
    BY <2>1
  <2>2. CASE f # e
    BY <2>2 DEF CopyInv, PlanHolds
  <2> QED BY <2>1, <2>2
<1> QED BY <1>1, <1>2, <1>3 DEF CopyInv

LEMMA EvictorStep ==
  ASSUME TypeOK, CopyInv, NEW e \in Evictors, NEW r \in Resources,
         \/ PlanSource(e, r) \/ PlanAlternate(e) \/ Evict(e)
         \/ RecordDesired(e) \/ RecordMissing(e)
  PROVE  CopyInv'
<1>a. /\ evictor \in [Evictors -> EvictorTypes] /\ evictor[e] \in EvictorTypes
      /\ scripts \subseteq ScriptTypes /\ Gone \notin Payloads /\ Nobody \notin Evictors
      /\ disk \in [Resources -> Payloads \cup {Gone}]
  BY CopyTyped
<1>b. IdleEvictor.at = "idle"
  BY DEF IdleEvictor
<1>1. CASE PlanSource(e, r)
  <2> DEFINE y == [IdleEvictor EXCEPT !.at = "planning", !.on = r, !.revision = disk[r],
                                      !.cands = Alternates(r, disk[r])]
  <2>1. y.at = "planning" /\ y.on = r /\ y.revision = disk[r] /\ r \notin y.cands
    BY DEF IdleEvictor, Alternates
  <2>2. evictor' = [evictor EXCEPT ![e] = y] /\ UNCHANGED <<disk, scripts>>
    BY <1>1 DEF PlanSource, remote
  <2> HIDE DEF y
  <2>3. evictor'[e] = y /\ \A f \in Evictors \ {e} : evictor'[f] = evictor[f]
    BY <1>a, <2>2
  <2> QED BY <1>1, <2>1, <2>2, <2>3, PlanPreserves DEF PlanSource
<1>2. CASE PlanAlternate(e)
  <2>1. CASE evictor' = [evictor EXCEPT ![e] = IdleEvictor]
    <3>1. evictor'[e].at = "idle" /\ \A f \in Evictors \ {e} : evictor'[f] = evictor[f]
      BY <1>a, <1>b, <2>1
    <3> QED BY <1>2, <3>1, PlanPreserves DEF PlanAlternate, remote
  <2>2. CASE \E s \in evictor[e].cands : /\ Live(s, evictor[e].revision)
                                         /\ evictor' = [evictor EXCEPT ![e].at = "planned"]
    <3>1. PICK s \in evictor[e].cands : /\ disk[s] = evictor[e].revision
                                        /\ evictor' = [evictor EXCEPT ![e].at = "planned"]
      BY <2>2 DEF Live
    <3> DEFINE y == [evictor[e] EXCEPT !.at = "planned"]
    <3>2. /\ y.at = "planned" /\ y.on = evictor[e].on /\ y.revision = evictor[e].revision
          /\ evictor[e].at = "planning" /\ evictor[e].cands \subseteq Authority
      BY <1>2, <1>a DEF EvictorTypes, PlanAlternate
    <3>3. evictor' = [evictor EXCEPT ![e] = y] /\ UNCHANGED <<disk, scripts>>
      BY <1>2, <1>a, <3>1 DEF PlanAlternate, remote, EvictorTypes
    <3> HIDE DEF y
    <3>4. evictor'[e] = y /\ \A f \in Evictors \ {e} : evictor'[f] = evictor[f]
      BY <1>a, <3>3
    <3>5. /\ evictor[e].on \in Authority => disk[evictor[e].on] = evictor[e].revision
          /\ evictor[e].on \notin evictor[e].cands
      BY <3>2 DEF CopyInv, PlanHolds
    <3>6. Elsewhere(evictor[e].on, evictor[e].revision)
      BY <3>1, <3>2, <3>5 DEF Elsewhere
    <3> QED BY <3>2, <3>3, <3>4, <3>5, <3>6, PlanPreserves
  <2> QED BY <1>2, <2>1, <2>2 DEF PlanAlternate
<1>3. CASE Evict(e)
  <2>1. CASE UNCHANGED scripts /\ evictor' = [evictor EXCEPT ![e] = IdleEvictor]
    <3>1. evictor'[e].at = "idle" /\ \A f \in Evictors \ {e} : evictor'[f] = evictor[f]
      BY <1>a, <1>b, <2>1
    <3> QED BY <1>3, <2>1, <3>1, PlanPreserves DEF Evict
  <2>2. CASE row[evictor[e].on].stored
    <3> DEFINE z == [owner |-> e, on |-> evictor[e].on, revision |-> evictor[e].revision,
                     at |-> "sent"]
               y == [evictor[e] EXCEPT !.at = "removing"]
    <3>1. /\ evictor' = [evictor EXCEPT ![e] = y] /\ scripts' = scripts \cup {z}
          /\ UNCHANGED disk /\ evictor[e].at = "planned"
      BY <1>3, <1>a, <2>2 DEF Evict, EvictorTypes
    <3>2. /\ z.owner = e /\ z.on = evictor[e].on /\ z.revision = evictor[e].revision
          /\ z.at = "sent" /\ y.at = "removing"
      BY <1>a DEF EvictorTypes
    <3> HIDE DEF y, z
    <3>3. evictor'[e] = y /\ \A f \in Evictors \ {e} : evictor'[f] = evictor[f]
      BY <1>a, <3>1
    <3>4. \A x \in scripts : x.owner # Nobody => x.owner \in Evictors /\ x.owner # e
      BY <1>a, <3>1 DEF ScriptTypes, CopyInv, OwnerHolds
    <3>5. /\ z.on \in Authority => disk[z.on] = z.revision
          /\ Elsewhere(z.on, z.revision)
      BY <3>1, <3>2 DEF CopyInv, PlanHolds
    <3>6. PlanHolds'
      BY <3>1, <3>2, <3>3 DEF CopyInv, PlanHolds, Elsewhere
    <3>7. SentHolds' /\ RenamedHolds'
      BY <1>a, <3>1, <3>2, <3>5 DEF CopyInv, SentHolds, RenamedHolds, Elsewhere
    <3>8. OwnerHolds'
      BY <1>a, <3>1, <3>2, <3>3, <3>4 DEF CopyInv, OwnerHolds
    <3> QED BY <3>6, <3>7, <3>8 DEF CopyInv
  <2> QED BY <1>3, <2>1, <2>2 DEF Evict
<1>4. CASE RecordDesired(e) \/ RecordMissing(e)
  <2>1. /\ evictor'[e].at \in {"idle", "desired"} /\ evictor[e].at \in {"removed", "desired"}
        /\ \A f \in Evictors \ {e} : evictor'[f] = evictor[f]
    BY <1>4, <1>a, <1>b DEF RecordDesired, RecordMissing, EvictorTypes
  <2> QED BY <1>4, <2>1, PlanPreserves DEF RecordDesired, RecordMissing, remote
<1> QED BY <1>1, <1>2, <1>3, <1>4

LEMMA CopyStep ==
  ASSUME \A e, f \in Evictors : e = f, LateStart = FALSE, TypeOK, CopyInv, [Next]_vars
  PROVE  CopyInv'
<1>a. /\ disk \in [Resources -> Payloads \cup {Gone}]
      /\ evictor \in [Evictors -> EvictorTypes]
      /\ scripts \subseteq ScriptTypes /\ Gone \notin Payloads /\ Nobody \notin Evictors
  BY CopyTyped
<1>0. ASSUME UNCHANGED <<disk, scripts, evictor>> PROVE CopyInv'
  BY <1>0 DEF CopyInv, PlanHolds, OwnerHolds, SentHolds, RenamedHolds, Elsewhere
<1>1. CASE UNCHANGED vars
  BY <1>0, <1>1 DEF vars, remote
<1>2. ASSUME NEW p \in Probes, NEW s \in Resources, NEW k \in {"inspect", "hash"},
             \/ SelectPlacement(p, s, k) \/ InspectBegins(p) \/ HashBegins(p)
             \/ Look(p) \/ InspectEnds(p) \/ HashEnds(p)
      PROVE  CopyInv'
  BY <1>0, <1>2 DEF SelectPlacement, InspectBegins, HashBegins, Look, InspectEnds, HashEnds, remote
<1>3. ASSUME NEW c \in Copiers, NEW s \in Resources,
             \/ Promote(c, s) \/ VerifyCache(c, s) \/ SaveDestination(c)
             \/ ObserveDestination(c) \/ RegisterCache(c)
      PROVE  CopyInv'
  <2>1. CASE Promote(c, s)
    <3>1. AuthorityKept /\ UNCHANGED <<scripts, evictor>>
      BY <1>a, <2>1 DEF Promote, AuthorityKept
    <3> QED BY <3>1, KeptPreserves
  <2>2. CASE VerifyCache(c, s) \/ SaveDestination(c) \/ ObserveDestination(c) \/ RegisterCache(c)
    BY <1>0, <2>2 DEF VerifyCache, SaveDestination, ObserveDestination, RegisterCache, remote
  <2> QED BY <1>3, <2>1, <2>2
<1>4. ASSUME NEW s \in Resources, RunWrites(s)
      PROVE  CopyInv'
  <2>1. AuthorityKept /\ UNCHANGED <<scripts, evictor>>
    BY <1>a, <1>4 DEF RunWrites, AuthorityKept
  <2> QED BY <2>1, KeptPreserves
<1>5. ASSUME NEW x \in scripts, Remove(x) \/ Refuse(x) \/ RemoveFails(x) \/ ScriptDies(x)
      PROVE  CopyInv'
  <2>1. AuthorityKept
    BY <1>5, PutBackKeeps DEF Remove, Refuse, RemoveFails, ScriptDies, AuthorityKept
  <2>2. \E ok \in BOOLEAN : Return(x, ok)
    BY <1>5 DEF Remove, Refuse, RemoveFails, ScriptDies
  <2> QED BY <2>1, <2>2, ReturnPreserves
<1>6. ASSUME NEW x \in scripts, LoseConnection(x)
      PROVE  CopyInv'
  <2> DEFINE y == [x EXCEPT !.owner = Nobody]
  <2>1. /\ x.owner \in Evictors /\ x.at = "renamed" /\ UNCHANGED disk
        /\ scripts' = (scripts \ {x}) \cup {y} /\ evictor' = [evictor EXCEPT ![x.owner] = IdleEvictor]
    BY <1>a, <1>6 DEF LoseConnection, ScriptTypes
  <2>2. y.owner = Nobody /\ y.at = "renamed" /\ y.revision = x.revision
    BY <1>a, <2>1 DEF ScriptTypes
  <2> HIDE DEF y
  <2>3. /\ evictor'[x.owner].at = "idle"
        /\ \A f \in Evictors \ {x.owner} : evictor'[f] = evictor[f]
    BY <1>a, <2>1 DEF IdleEvictor
  <2>4. \A z \in scripts : z.owner = x.owner => z = x
    BY <1>a, <2>1 DEF CopyInv, OwnerHolds
  <2>5. PlanHolds'
    <3>1. \A f \in Evictors : \/ evictor'[f] = evictor[f]
                              \/ evictor'[f].at = "idle"
      BY <2>3
    <3> QED BY <2>1, <3>1 DEF CopyInv, PlanHolds, Elsewhere
  <2>6. SentHolds' /\ RenamedHolds'
    BY <2>1, <2>2 DEF CopyInv, SentHolds, RenamedHolds, Elsewhere
  <2>7. OwnerHolds'
    <3>1. \A z \in scripts \ {x} : z.owner # Nobody => z.owner \in Evictors \ {x.owner}
      BY <1>a, <2>4 DEF ScriptTypes
    <3> QED BY <2>1, <2>2, <2>3, <3>1 DEF CopyInv, OwnerHolds
  <2> QED BY <2>5, <2>6, <2>7 DEF CopyInv
<1>7. ASSUME NEW x \in scripts, Rename(x)
      PROVE  CopyInv'
  <2>1. CASE (\E ok \in BOOLEAN : Return(x, ok)) /\ UNCHANGED disk
    BY <2>1, ReturnPreserves DEF AuthorityKept
  <2>2. CASE /\ disk' = [disk EXCEPT ![x.on] = Gone]
             /\ scripts' = (scripts \ {x}) \cup {[x EXCEPT !.at = "renamed"]}
             /\ UNCHANGED evictor
    BY <1>7, <2>2, RenamePreserves DEF Rename
  <2> QED BY <1>7, <2>1, <2>2 DEF Rename
<1>8. ASSUME NEW e \in Evictors, NEW r \in Resources,
             \/ PlanSource(e, r) \/ PlanAlternate(e) \/ Evict(e)
             \/ RecordDesired(e) \/ RecordMissing(e)
      PROVE  CopyInv'
  BY <1>8, EvictorStep
<1>9. \E r \in Resources : TRUE
  OBVIOUS
<1> QED
  <2>1. CASE \E e \in Evictors : \/ \E r \in Resources : PlanSource(e, r)
                                 \/ PlanAlternate(e) \/ Evict(e)
                                 \/ RecordDesired(e) \/ RecordMissing(e)
    BY <1>8, <1>9, <2>1
  <2>2. CASE \E x \in scripts : \/ Rename(x) \/ Remove(x) \/ Refuse(x) \/ RemoveFails(x)
                                \/ ScriptDies(x) \/ LoseConnection(x)
    BY <1>5, <1>6, <1>7, <2>2
  <2>3. CASE \E p \in Probes : \/ \E r \in Resources, k \in {"inspect", "hash"} :
                                   SelectPlacement(p, r, k)
                               \/ InspectBegins(p) \/ HashBegins(p) \/ Look(p)
                               \/ InspectEnds(p) \/ HashEnds(p)
    BY <1>2, <1>9, <2>3
  <2>4. CASE \E c \in Copiers : \/ \E r \in Resources : Promote(c, r)
                                \/ \E r \in Resources : VerifyCache(c, r)
                                \/ SaveDestination(c) \/ ObserveDestination(c)
                                \/ RegisterCache(c)
    BY <1>3, <1>9, <2>4
  <2> QED BY <1>1, <1>4, <2>1, <2>2, <2>3, <2>4 DEF Next

\* A step that destroys bytes of a tombstone is the removal by a script that has
\* verified them, and these bytes are under an authoritative path.
LEMMA DestroyStep ==
  ASSUME TypeOK, CopyInv, [Next]_vars, NEW r \in Resources, NEW v \in Payloads,
         tomb[r][v] \in Revisions, tomb[r][v] \notin {tomb'[r][v], disk'[r]}
  PROVE  \E s \in Authority : disk'[s] = tomb[r][v]
<1>a. /\ disk \in [Resources -> Payloads \cup {Gone}]
      /\ tomb \in [Resources -> [Payloads -> Payloads \cup {Gone}]]
      /\ scripts \subseteq ScriptTypes /\ Gone \notin Payloads
  BY CopyTyped DEF TypeOK
<1>1. PICK x \in scripts : Rename(x) \/ Remove(x) \/ Refuse(x) \/ RemoveFails(x)
  <2>1. tomb' # tomb
    OBVIOUS
  <2> QED BY <2>1 DEF Next, vars, remote, PlanSource, PlanAlternate, Evict, ScriptDies,
        LoseConnection, RecordDesired, RecordMissing, SelectPlacement, InspectBegins, HashBegins,
        Look, InspectEnds, HashEnds, Promote, VerifyCache, SaveDestination, ObserveDestination,
        RegisterCache, RunWrites
<1>2. x.on \in Resources /\ x.revision \in Payloads
  BY <1>a DEF ScriptTypes
<1>3. CASE Remove(x)
  <2>1. x.on = r /\ x.revision = v /\ UNCHANGED disk
    BY <1>3, <1>a, <1>2 DEF Remove
  <2>2. tomb[r][v] = x.revision /\ x.at = "renamed"
    BY <1>3, <2>1 DEF Remove, Verified
  <2> QED BY <2>1, <2>2 DEF CopyInv, RenamedHolds
<1>4. CASE Rename(x)
  <2>1. \/ UNCHANGED tomb
        \/ /\ tomb' = [tomb EXCEPT ![x.on][x.revision] = disk[x.on]]
           /\ tomb[x.on][x.revision] = Gone
    BY <1>4 DEF Rename
  <2>2. tomb[x.on][x.revision] = Gone => x.on # r \/ x.revision # v
    BY <1>a DEF Payloads
  <2> QED BY <1>a, <1>2, <2>1, <2>2
<1>5. CASE Refuse(x) \/ RemoveFails(x)
  <2>1. PICK payload : /\ PutBack(x, payload) /\ x.at = "renamed"
                       /\ payload \in {Torn, x.revision, tomb[x.on][x.revision]}
                       /\ Verified(x) \/ payload = tomb[x.on][x.revision]
    BY <1>5 DEF Refuse, RemoveFails
  <2>2. x.on = r /\ x.revision = v
    BY <1>a, <1>2, <2>1 DEF PutBack
  <2>3. payload = tomb[r][v] => FALSE
    BY <1>a, <1>2, <2>1, <2>2 DEF PutBack
  <2>4. tomb[r][v] = x.revision
    BY <2>1, <2>2, <2>3 DEF Verified
  <2>5. PICK s \in Authority : disk[s] = x.revision
    BY <2>1 DEF CopyInv, RenamedHolds
  <2>6. disk'[s] = disk[s]
    BY <1>a, <2>1, <2>4, <2>5, PutBackKeeps DEF AuthorityKept, Payloads
  <2> QED BY <2>4, <2>5, <2>6
<1> QED BY <1>1, <1>3, <1>4, <1>5

\* If evictions run one at a time and no script starts after its connection has been
\* lost, an eviction destroys only bytes of which an authoritative path holds a copy.
THEOREM EvictionSafe ==
  ASSUME \A e, f \in Evictors : e = f, LateStart = FALSE
  PROVE  Spec => EvictionLeavesACopy
<1>1. Init => CopyInv
  <2> SUFFICES ASSUME Init PROVE CopyInv
    OBVIOUS
  <2>1. \A e \in Evictors : evictor[e].at = "idle"
    BY DEF Init, IdleEvictor
  <2>2. scripts = {}
    BY DEF Init
  <2> QED BY <2>1, <2>2 DEF CopyInv, PlanHolds, OwnerHolds, SentHolds, RenamedHolds
<1>2. TypeOK /\ CopyInv /\ [Next]_vars => CopyInv'
  BY CopyStep
<1>3. TypeOK /\ CopyInv /\ [Next]_vars =>
        [\A r \in Resources, v \in Payloads :
           LET bytes == tomb[r][v] IN
           (bytes \in Revisions /\ bytes \notin {tomb'[r][v], disk'[r]})
             => \E s \in Authority : disk'[s] = bytes]_vars
  BY DestroyStep
<1> QED BY <1>1, <1>2, <1>3, TypeCorrect, PTL DEF Spec, EvictionLeavesACopy
=============================================================================
