-------------------------- MODULE RunOutputsProofs --------------------------
(* Theorems about RunOutputs for every set of processes and any outputs.    *)
EXTENDS RunOutputs, TLAPS

USE OutputAssumption

Inside     == {"read", "begin", "list", "output", "bind", "wait", "finish"}
Publishing == {"list", "output", "bind", "wait", "finish"}
AtOutput   == {"output", "bind", "wait"}

LEMMA Kinds ==
  /\ Threads = Servers \cup Evidences \cup {"request"} /\ Finalizers \subseteq Threads
  /\ Evidences \subseteq Finalizers /\ Servers \subseteq Finalizers
  /\ Evidences \subseteq Collectors /\ Servers \cap Collectors = {}
  /\ "request" \in Collectors /\ "request" \notin Finalizers
  /\ Servers \subseteq Publishers /\ Publishers \subseteq Processes
  /\ Processes \ Publishers = Clients /\ Home \in Servers
BY DEF Threads, Finalizers, Collectors, Processes, Publishers, Home

-----------------------------------------------------------------------------
(* What the helpers of the actions do, component by component.             *)

LEMMA GotoEffect ==
  ASSUME TypeOK, NEW t \in Threads, NEW place \in Places, Goto(t, place)
  PROVE  /\ pc' \in [Threads -> Places] /\ pc'[t] = place
         /\ \A u \in Threads \ {t} : pc'[u] = pc[u]
BY DEF TypeOK, Goto

LEMMA StartEffect ==
  ASSUME TypeOK, NEW p \in Processes, StartEvidence(p)
  PROVE  \E e \in Evidences :
           /\ pc[e] = "off" /\ pc'[e] = "collect" /\ pc' \in [Threads -> Places]
           /\ \A u \in Threads \ {e} : pc'[u] = pc[u]
           /\ host' \in [Collectors -> Processes] /\ \A u \in Collectors \ {e} : host'[u] = host[u]
           /\ UNCHANGED <<world, local, expired, lock, refused>>
<1> DEFINE e == CHOOSE e \in Evidences : pc[e] = "off"
<1>1. e \in Evidences /\ pc[e] = "off"
  BY DEF StartEvidence
<1>2. /\ Goto(e, "collect") /\ host' = [host EXCEPT ![e] = p]
      /\ UNCHANGED <<world, local, expired, lock, refused>>
  BY DEF StartEvidence
<1> HIDE DEF e
<1>3. e \in Threads /\ e \in Collectors /\ "collect" \in Places
  BY <1>1, Kinds DEF Places
<1>4. /\ pc' \in [Threads -> Places] /\ pc'[e] = "collect"
      /\ \A u \in Threads \ {e} : pc'[u] = pc[u]
  BY <1>2, <1>3, GotoEffect
<1>5. host' \in [Collectors -> Processes] /\ \A u \in Collectors \ {e} : host'[u] = host[u]
  BY <1>2, <1>3 DEF TypeOK
<1> QED BY <1>1, <1>2, <1>4, <1>5

LEMMA ReturnEffect ==
  ASSUME TypeOK, NEW t \in Collectors, Return(t)
  PROVE  /\ pc' \in [Threads -> Places] /\ pc'[t] = "off"
         /\ \A u \in Threads \ {t} : pc'[u] = pc[u]
         /\ host' \in [Collectors -> Processes] /\ \A u \in Collectors \ {t} : host'[u] = host[u]
         /\ expired' = expired \ {t}
<1>1. t \in Threads /\ "off" \in Places /\ Home \in Processes
  BY Kinds DEF Places, Threads
<1>2. Goto(t, "off") /\ host' = [host EXCEPT ![t] = Home] /\ expired' = expired \ {t}
  BY DEF Return
<1> HIDE DEF Home
<1> QED BY <1>1, <1>2, GotoEffect DEF TypeOK

LEMMA NextEffect ==
  ASSUME TypeOK, NEW t \in Finalizers, NEW o \in 0 .. outputs, NextOutput(t, o)
  PROVE  /\ pc' \in [Threads -> Places] /\ \A u \in Threads \ {t} : pc'[u] = pc[u]
         /\ at' \in [Finalizers -> Outputs \cup {0}] /\ verdict' \in [Finalizers -> DataState]
         /\ \A u \in Finalizers \ {t} : at'[u] = at[u] /\ verdict'[u] = verdict[u]
         /\ \/ o = outputs /\ pc'[t] = "finish" /\ verdict'[t] = "completed"
            \/ o < outputs /\ pc'[t] = "output" /\ at'[t] = o + 1 /\ at'[t] \in Declared
<1>1. t \in Threads /\ outputs \in 0 .. MaxOutputs
  BY DEF TypeOK, Threads
<1>2. CASE o = outputs
  <2>1. Goto(t, "finish") /\ verdict' = [verdict EXCEPT ![t] = "completed"] /\ at' = at
    BY <1>2 DEF NextOutput
  <2> QED BY <1>1, <1>2, <2>1, GotoEffect DEF TypeOK, Places, DataState, Settled
<1>3. CASE o # outputs
  <2>1. Goto(t, "output") /\ at' = [at EXCEPT ![t] = o + 1] /\ verdict' = verdict
    BY <1>3 DEF NextOutput
  <2>2. o < outputs /\ o + 1 \in Declared /\ o + 1 \in Outputs
    BY <1>1, <1>3 DEF Declared, Outputs
  <2> QED BY <1>1, <2>1, <2>2, GotoEffect DEF TypeOK, Places
<1> QED BY <1>2, <1>3

LEMMA GiveUpEffect ==
  ASSUME TypeOK, NEW t \in Finalizers, NEW state \in {"blocked", "failed"},
         at[t] \in Declared, GiveUp(t, state)
  PROVE  /\ pc' \in [Threads -> Places] /\ \A u \in Threads \ {t} : pc'[u] = pc[u]
         /\ at' \in [Finalizers -> Outputs \cup {0}] /\ verdict' \in [Finalizers -> DataState]
         /\ \A u \in Finalizers \ {t} : at'[u] = at[u] /\ verdict'[u] = verdict[u]
         /\ \/ at[t] \in Required /\ pc'[t] = "finish" /\ verdict'[t] = state /\ at'[t] = at[t]
            \/ at[t] \notin Required /\ at[t] = outputs /\ pc'[t] = "finish" /\ verdict'[t] = "completed"
            \/ /\ at[t] \notin Required /\ at[t] < outputs
               /\ pc'[t] = "output" /\ at'[t] = at[t] + 1 /\ at'[t] \in Declared
<1>1. CASE at[t] \in Required
  <2>1. Goto(t, "finish") /\ verdict' = [verdict EXCEPT ![t] = state] /\ at' = at
    BY <1>1 DEF GiveUp
  <2> QED BY <1>1, <2>1, GotoEffect DEF TypeOK, Places, DataState, Settled, Threads
<1>2. CASE at[t] \notin Required
  <2>1. at[t] \in 0 .. outputs
    BY DEF Declared, TypeOK
  <2> QED BY <1>2, <2>1, NextEffect DEF GiveUp
<1> QED BY <1>1, <1>2

LEMMA ReleaseEffect ==
  ASSUME TypeOK, NEW t \in Finalizers, Release(t)
  PROVE  /\ pc' \in [Threads -> Places] /\ \A u \in Threads \ {t} : pc'[u] = pc[u]
         /\ pc'[t] \in {"note", "off"} /\ (pc'[t] = "note" => t \in Evidences)
         /\ lock' = [lock EXCEPT ![Process(t)] = "free"]
         /\ lock' \in [Publishers -> Finalizers \cup {"free"}]
         /\ seen' \in [Threads -> [Outputs -> Found]]
         /\ plan' \in [Finalizers -> [Outputs -> Plans \cup {NoPlan}]]
         /\ at' \in [Finalizers -> Outputs \cup {0}] /\ at'[t] = 0
         /\ verdict' \in [Finalizers -> DataState]
         /\ \A u \in Finalizers \ {t} : /\ at'[u] = at[u] /\ verdict'[u] = verdict[u]
                                        /\ plan'[u] = plan[u]
<1>1. Blank \in [Outputs -> Found] /\ NoPlans \in [Outputs -> Plans \cup {NoPlan}]
  BY DEF Blank, NoPlans, Found
<1>2. /\ Goto(t, IF t \in Evidences THEN "note" ELSE "off") /\ t \in Threads
      /\ lock' = [lock EXCEPT ![Process(t)] = "free"]
      /\ seen' = [seen EXCEPT ![t] = Blank] /\ plan' = [plan EXCEPT ![t] = NoPlans]
      /\ at' = [at EXCEPT ![t] = 0] /\ verdict' = [verdict EXCEPT ![t] = "pending"]
  BY DEF Release, Threads
<1>3. "pending" \in DataState /\ (IF t \in Evidences THEN "note" ELSE "off") \in Places
  BY DEF DataState, Places
<1>4. /\ pc' \in [Threads -> Places] /\ \A u \in Threads \ {t} : pc'[u] = pc[u]
      /\ pc'[t] = IF t \in Evidences THEN "note" ELSE "off"
  BY <1>2, <1>3, GotoEffect
<1> HIDE DEF Blank, NoPlans
<1>5. lock' \in [Publishers -> Finalizers \cup {"free"}]
  BY <1>2 DEF TypeOK
<1> QED
  BY <1>1, <1>2, <1>3, <1>4, <1>5 DEF TypeOK

LEMMA WriteEffect ==
  ASSUME TypeOK, NEW t \in Finalizers, at[t] \in Declared, NEW state \in BindingState,
         WriteBinding(t, state)
  PROVE  /\ binding' \in Bindings /\ refused' = refused
         /\ binding'[at[t]] = [state |-> state, plan |-> plan[t][at[t]]]
         /\ \A o \in Outputs \ {at[t]} : binding'[o] = binding[o]
<1>1. at[t] \in Outputs /\ plan[t][at[t]] \in Plans \cup {NoPlan}
  BY DEF TypeOK, Declared, Outputs
<1> DEFINE b == [state |-> state, plan |-> plan[t][at[t]]]
<1>2. b \in [state : BindingState, plan : Plans \cup {NoPlan}]
  BY <1>1
<1>3. binding' = [binding EXCEPT ![at[t]] = b] /\ refused' = refused
  BY DEF WriteBinding
<1>4. binding \in [Outputs -> [state : BindingState, plan : Plans \cup {NoPlan}]]
  BY DEF TypeOK, Bindings
<1>5. binding' \in Bindings
  <2> HIDE DEF b
  <2> QED BY <1>1, <1>2, <1>3, <1>4 DEF Bindings
<1>6. binding'[at[t]] = b /\ \A o \in Outputs \ {at[t]} : binding'[o] = binding[o]
  <2> HIDE DEF b
  <2> QED BY <1>1, <1>2, <1>3, <1>4
<1> QED BY <1>3, <1>5, <1>6

\* A row that is written, or not because the database refuses it or the context has ended.
Row(t, state) == WriteBinding(t, state) \/ BindingRefused(t) \/ (t \in expired /\ UNCHANGED <<binding, refused>>)

LEMMA RowEffect ==
  ASSUME TypeOK, NEW t \in Finalizers, at[t] \in Declared, NEW state \in BindingState, Row(t, state)
  PROVE  /\ binding' \in Bindings /\ refused' \subseteq Outputs \cup {0} /\ refused \subseteq refused'
         /\ \A o \in Outputs \ {at[t]} : binding'[o] = binding[o]
         /\ binding'[at[t]].state = state \/ at[t] \in refused' \/ t \in expired
<1>1. at[t] \in Outputs
  BY DEF TypeOK, Declared, Outputs
<1>2. CASE WriteBinding(t, state)
  <2>1. binding'[at[t]] = [state |-> state, plan |-> plan[t][at[t]]]
    BY <1>2, WriteEffect
  <2>2. binding'[at[t]].state = state
    BY <2>1
  <2>3. /\ binding' \in Bindings /\ refused' = refused
        /\ \A o \in Outputs \ {at[t]} : binding'[o] = binding[o]
    BY <1>2, WriteEffect
  <2> QED BY <2>2, <2>3 DEF TypeOK
<1>3. CASE BindingRefused(t)
  BY <1>1, <1>3 DEF BindingRefused, TypeOK
<1>4. CASE t \in expired /\ UNCHANGED <<binding, refused>>
  BY <1>4 DEF TypeOK
<1> QED BY <1>2, <1>3, <1>4 DEF Row

LEMMA MissingRow ==
  ASSUME NEW t, OutputMissing(t) PROVE Row(t, "missing") /\ pc[t] = "output"
BY DEF OutputMissing, Row

LEMMA FailedRow ==
  ASSUME NEW t, OutputFails(t) PROVE Row(t, "failed") /\ pc[t] \in AtOutput
BY DEF OutputFails, PublishFails, Row, AtOutput
-----------------------------------------------------------------------------
(* Type correctness.                                                       *)

Counted  == AtOutput \cup {"finish"}
Ordinals == \A t \in Finalizers : /\ pc[t] \in AtOutput => at[t] \in Declared
                                  /\ pc[t] \notin Counted => at[t] = 0
TypeInv  == TypeOK /\ Ordinals

LEMMA DraftType == Draft \in Manifests /\ Draft.binding \in Bindings
<1>1. AllIn("pending") \in Bindings
  BY DEF AllIn, Bindings, BindingState
<1> QED BY <1>1 DEF Draft, Manifests

LEMMA InitType == Init => TypeInv
<1> SUFFICES ASSUME Init PROVE TypeInv
  OBVIOUS
<1>1. Blank \in [Outputs -> Found] /\ NoPlans \in [Outputs -> Plans \cup {NoPlan}]
  BY DEF Blank, NoPlans, Found
<1>2. seen \in [Threads -> [Outputs -> Found]] /\ plan \in [Finalizers -> [Outputs -> Plans \cup {NoPlan}]]
  <2> HIDE DEF Blank, NoPlans
  <2> QED BY <1>1 DEF Init
<1>3. binding \in Bindings /\ manifest \in Manifests
  <2> HIDE DEF Draft
  <2> QED BY DraftType DEF Init
<1>4. artifacts \in [Outputs -> Found]
  BY <1>1 DEF Init
<1>5. host \in [Collectors -> Processes]
  <2> HIDE DEF Home
  <2> QED BY Kinds DEF Init
<1> HIDE DEF Draft, Home, Blank, NoPlans
<1>6. /\ outputs \in Declarations /\ status \in {"running", "succeeded", "failed"}
      /\ data \in DataState /\ blame \in Outputs \cup {0}
      /\ collection \in {"declared", "discovering", "indexed", "failed"}
      /\ remote \in [Outputs -> Found] /\ dest \in [Outputs -> Observed] /\ job \in [Plans -> JobState]
  BY DEF Init, DataState, JobState, Observed
<1>7. /\ pc \in [Threads -> Places] /\ at \in [Finalizers -> Outputs \cup {0}]
      /\ verdict \in [Finalizers -> DataState] /\ expired \subseteq Threads
      /\ lock \in [Publishers -> Finalizers \cup {"free"}]
      /\ refused \subseteq Outputs \cup {0} /\ events \in 0 .. MaxEvents
  BY DEF Init, DataState, Places
<1>8. TypeOK
  BY <1>2, <1>3, <1>4, <1>5, <1>6, <1>7 DEF TypeOK
<1>9. Ordinals
  BY Kinds DEF Init, Ordinals, AtOutput
<1> QED BY <1>8, <1>9 DEF TypeInv

LEMMA CollectType ==
  ASSUME TypeInv, NEW t \in Collectors, Collect(t)
  PROVE  /\ TypeInv'
         /\ \A u \in Threads \ {t} : pc'[u] = pc[u] /\ (u \in expired => u \in expired')
         /\ \A u \in Collectors \ {t} : host'[u] = host[u]
         /\ pc[t] # "off" /\ pc'[t] \in {"decide", "off", "discover", "index", "record"}
<1> USE DEF TypeInv
<1>0. t \in Threads /\ Blank \in [Outputs -> Found]
  BY DEF Threads, Blank, Found
<1> HIDE DEF Blank
<1> DEFINE Moved == /\ pc' \in [Threads -> Places] /\ \A u \in Threads \ {t} : pc'[u] = pc[u]
                    /\ pc'[t] \in {"decide", "off", "discover", "index", "record"}
                    /\ expired' \subseteq Threads /\ \A u \in Threads \ {t} : u \in expired => u \in expired'
                    /\ host' \in [Collectors -> Processes] /\ \A u \in Collectors \ {t} : host'[u] = host[u]
<1>a. ASSUME EndCollection(t) PROVE Moved /\ seen' \in [Threads -> [Outputs -> Found]]
  <2>1. seen' = [seen EXCEPT ![t] = Blank]
    BY <1>a DEF EndCollection
  <2>2. seen' \in [Threads -> [Outputs -> Found]]
    BY <1>0, <2>1 DEF TypeOK
  <2>3. CASE t \in Evidences
    <3>1. Goto(t, "decide") /\ UNCHANGED <<host, expired>>
      BY <1>a, <2>3 DEF EndCollection
    <3> QED BY <1>0, <2>2, <3>1, GotoEffect DEF TypeOK, Places
  <2>4. CASE t \notin Evidences
    <3>1. Return(t)
      BY <1>a, <2>4 DEF EndCollection
    <3> QED BY <1>0, <2>2, <3>1, ReturnEffect DEF TypeOK
  <2> QED BY <2>3, <2>4
<1>b. ASSUME NEW place \in {"discover", "index", "record"}, Goto(t, place), UNCHANGED <<host, expired>>
      PROVE  Moved
  BY <1>0, <1>b, GotoEffect DEF TypeOK, Places
<1>1. /\ Moved /\ seen' \in [Threads -> [Outputs -> Found]] /\ pc[t] # "off"
      /\ UNCHANGED InCollection
  <2> HIDE DEF Moved
  <2>1. CASE StartCollection(t)
    BY <1>b, <2>1 DEF StartCollection, TypeOK
  <2>2. CASE Discover(t)
    <3>1. Goto(t, "index") /\ UNCHANGED <<host, expired>> /\ pc[t] # "off" /\ UNCHANGED InCollection
      BY <2>2 DEF Discover
    <3>2. seen' \in {seen, [seen EXCEPT ![t] = remote]}
      BY <2>2 DEF Discover
    <3>3. seen' \in [Threads -> [Outputs -> Found]]
      BY <3>2 DEF TypeOK
    <3> QED BY <1>b, <3>1, <3>3
  <2>3. CASE Index(t)
    BY <1>b, <2>3 DEF Index, TypeOK
  <2>4. CASE SaveArtifactCollection(t)
    BY <1>a, <2>4 DEF SaveArtifactCollection
  <2>5. CASE DiscoveryFails(t)
    BY <1>a, <2>5 DEF DiscoveryFails
  <2>6. CASE CollectionStops(t)
    BY <1>a, <2>6 DEF CollectionStops
  <2> QED BY <2>1, <2>2, <2>3, <2>4, <2>5, <2>6 DEF Collect
<1>2. artifacts' \in [Outputs -> Found]
  BY <1>0 DEF Collect, StartCollection, Discover, Index, SaveArtifactCollection, DiscoveryFails, CollectionStops, TypeOK
<1>3. collection' \in {"declared", "discovering", "indexed", "failed"}
  BY DEF Collect, StartCollection, Discover, Index, SaveArtifactCollection, DiscoveryFails, CollectionStops, TypeOK
<1>4. events' \in 0 .. MaxEvents
  BY DEF Collect, StartCollection, Discover, Index, SaveArtifactCollection, DiscoveryFails, CollectionStops, Broken,
         Event, TypeOK
<1>5. TypeOK'
  BY <1>1, <1>2, <1>3, <1>4 DEF TypeOK, InCollection, world
<1>6. Ordinals'
  <2> SUFFICES ASSUME NEW u \in Finalizers
               PROVE  (pc'[u] \in AtOutput => at'[u] \in Declared') /\ (pc'[u] \notin Counted => at'[u] = 0)
    BY DEF Ordinals
  <2>1. at' = at /\ Declared' = Declared /\ u \in Threads
    BY <1>1, Kinds DEF InCollection, Declared
  <2>2. CASE u # t
    BY <1>1, <2>1, <2>2 DEF Ordinals
  <2>3. CASE u = t
    <3>1. pc[t] \in {"collect", "discover", "index", "record"}
      BY DEF Collect, StartCollection, Discover, Index, SaveArtifactCollection, DiscoveryFails, CollectionStops
    <3> QED BY <1>1, <2>1, <2>3, <3>1 DEF Ordinals, AtOutput, Counted
  <2> QED BY <2>2, <2>3
<1> QED BY <1>1, <1>5, <1>6

\* A step of a finalizer touches its own place and its own memory, and at most one output,
\* the data, a job, and the lock of its process besides.
Frame(t) ==
  /\ UNCHANGED <<outputs, status, artifacts, collection, manifest, remote, dest, expired, host>>
  /\ refused \subseteq refused'
  /\ \A u \in Threads \ {t} : pc'[u] = pc[u]
  /\ \A u \in Finalizers \ {t} : at'[u] = at[u] /\ verdict'[u] = verdict[u] /\ plan'[u] = plan[u]

LEMMA FinalizeType ==
  ASSUME TypeInv, NEW t \in Finalizers, Finalize(t)
  PROVE  TypeInv' /\ Frame(t)
<1> USE DEF TypeInv
<1>0. t \in Threads /\ outputs \in 0 .. MaxOutputs
  BY DEF Threads, TypeOK
<1>a. /\ pc[t] \in AtOutput => at[t] \in Declared /\ at[t] \in Outputs
      /\ pc[t] \notin Counted => at[t] = 0
  BY DEF Ordinals, TypeOK, Declared, Outputs
<1>e. events' \in 0 .. MaxEvents
  BY DEF Finalize, Enter, ReadRun, Begin, ReturnEarly, ListArtifacts, ListFails, OutputMissing, CreateTransfer,
         BindTransfer, OutputFails, Published, FinishFinalization, Broken, Event, TypeOK
<1>s. /\ refused \subseteq Outputs \cup {0} /\ 0 \in Outputs \cup {0}
      /\ blame \in Outputs \cup {0} /\ at[t] \in Outputs \cup {0}
  BY DEF TypeOK
<1>1. ASSUME /\ pc' \in [Threads -> Places] /\ \A u \in Threads \ {t} : pc'[u] = pc[u]
             /\ at' \in [Finalizers -> Outputs \cup {0}] /\ verdict' \in [Finalizers -> DataState]
             /\ \A u \in Finalizers \ {t} : at'[u] = at[u] /\ verdict'[u] = verdict[u]
             /\ pc'[t] \in AtOutput => at'[t] \in Declared
             /\ pc'[t] \notin Counted => at'[t] = 0
             /\ UNCHANGED <<outputs, status, artifacts, collection, manifest, remote, dest, expired, host>>
             /\ data' \in DataState /\ blame' \in Outputs \cup {0} /\ binding' \in Bindings
             /\ job' \in [Plans -> JobState]
             /\ refused' \subseteq Outputs \cup {0} /\ refused \subseteq refused'
             /\ seen' \in [Threads -> [Outputs -> Found]]
             /\ plan' \in [Finalizers -> [Outputs -> Plans \cup {NoPlan}]]
             /\ \A u \in Finalizers \ {t} : plan'[u] = plan[u]
             /\ lock' \in [Publishers -> Finalizers \cup {"free"}]
      PROVE  TypeInv' /\ Frame(t)
  <2>1. TypeOK'
    BY <1>1, <1>e DEF TypeOK
  <2>2. Ordinals'
    BY <1>1, <1>0, Kinds DEF Ordinals, Declared
  <2> QED BY <1>1, <2>1, <2>2 DEF Frame
<1>2. CASE Enter(t)
  <2>1. Goto(t, "read") /\ lock' = [lock EXCEPT ![Process(t)] = t] /\ pc[t] = "enter"
    BY <1>2 DEF Enter
  <2>2. pc' \in [Threads -> Places] /\ pc'[t] = "read" /\ \A u \in Threads \ {t} : pc'[u] = pc[u]
    BY <1>0, <2>1, GotoEffect DEF Places
  <2>3. lock' \in [Publishers -> Finalizers \cup {"free"}]
    BY <2>1 DEF TypeOK
  <2> QED BY <1>1, <1>2, <1>a, <2>1, <2>2, <2>3 DEF Enter, TypeOK, rows, world, local, AtOutput, Counted
<1>3. CASE ReadRun(t)
  <2> DEFINE mine == [o \in Outputs |-> binding[o].plan]
  <2>1. Goto(t, "begin") /\ plan' = [plan EXCEPT ![t] = mine] /\ pc[t] = "read"
    BY <1>3 DEF ReadRun
  <2>2. pc' \in [Threads -> Places] /\ pc'[t] = "begin" /\ \A u \in Threads \ {t} : pc'[u] = pc[u]
    BY <1>0, <2>1, GotoEffect DEF Places
  <2>3. mine \in [Outputs -> Plans \cup {NoPlan}]
    BY DEF TypeOK, Bindings
  <2>4. /\ plan' \in [Finalizers -> [Outputs -> Plans \cup {NoPlan}]]
        /\ \A u \in Finalizers \ {t} : plan'[u] = plan[u]
    <3> HIDE DEF mine
    <3> QED BY <2>1, <2>3 DEF TypeOK
  <2> HIDE DEF mine
  <2> QED BY <1>1, <1>3, <1>a, <2>1, <2>2, <2>4 DEF ReadRun, TypeOK, rows, world, AtOutput, Counted
<1>4. CASE Begin(t)
  <2>0. UNCHANGED <<outputs, status, artifacts, collection, manifest, remote, dest, expired, host, binding, job,
                    refused>> /\ blame' = 0 /\ pc[t] = "begin"
    BY <1>4 DEF Begin, world
  <2>1. CASE outputs = 0
    <3>1. Release(t) /\ data' = "skipped"
      BY <1>4, <2>1 DEF Begin
    <3>2. data' \in DataState
      BY <3>1 DEF DataState, Settled
    <3> QED BY <1>1, <1>s, <2>0, <3>1, <3>2, ReleaseEffect DEF TypeOK, AtOutput
  <2>2. CASE outputs # 0
    <3>1. Goto(t, "list") /\ data' = "publishing" /\ UNCHANGED <<lock, local>>
      BY <1>4, <2>2 DEF Begin
    <3>2. pc' \in [Threads -> Places] /\ pc'[t] = "list" /\ \A u \in Threads \ {t} : pc'[u] = pc[u]
      BY <1>0, <3>1, GotoEffect DEF Places
    <3>3. data' \in DataState
      BY <3>1 DEF DataState
    <3>4. at'[t] = 0
      BY <1>a, <2>0, <3>1 DEF local, Counted, AtOutput
    <3> QED BY <1>1, <1>s, <2>0, <3>1, <3>2, <3>3, <3>4 DEF TypeOK, local, AtOutput
  <2> QED BY <2>1, <2>2
<1>5. CASE ReturnEarly(t)
  <2>1. Release(t) /\ refused' \in {refused, refused \cup {0}} /\ UNCHANGED <<rows, world, expired, host>>
    BY <1>5 DEF ReturnEarly
  <2> QED BY <1>1, <1>s, <2>1, ReleaseEffect DEF TypeOK, rows, world, AtOutput
<1>6. CASE ListArtifacts(t)
  <2>1. NextOutput(t, 0) /\ seen' = [seen EXCEPT ![t] = artifacts] /\ 0 \in 0 .. outputs
    BY <1>0, <1>6 DEF ListArtifacts
  <2>2. seen' \in [Threads -> [Outputs -> Found]]
    BY <1>0, <2>1 DEF TypeOK
  <2> QED BY <1>1, <1>6, <2>1, <2>2, NextEffect DEF ListArtifacts, TypeOK, rows, world, AtOutput, Counted
<1>7. CASE ListFails(t)
  <2>1. /\ Goto(t, "finish") /\ verdict' = [verdict EXCEPT ![t] = "failed"]
        /\ UNCHANGED <<rows, world, seen, plan, at, expired, host, lock, refused>>
    BY <1>7 DEF ListFails
  <2>2. pc' \in [Threads -> Places] /\ pc'[t] = "finish" /\ \A u \in Threads \ {t} : pc'[u] = pc[u]
    BY <1>0, <2>1, GotoEffect DEF Places
  <2>3. verdict' \in [Finalizers -> DataState] /\ \A u \in Finalizers \ {t} : verdict'[u] = verdict[u]
    BY <2>1 DEF TypeOK, DataState, Settled
  <2> QED BY <1>1, <2>1, <2>2, <2>3 DEF TypeOK, rows, world, AtOutput, Counted
<1>8. CASE CreateTransfer(t)
  <2> DEFINE p == PlanOf(t)
  <2>1. /\ job' = [job EXCEPT ![p] = Created(@, p)] /\ plan' = [plan EXCEPT ![t][at[t]] = p]
        /\ Goto(t, "bind") /\ pc[t] = "output" /\ seen[t][at[t]] # Absent
    BY <1>8 DEF CreateTransfer
  <2>2. at[t] \in Outputs /\ at[t] \in Declared
    BY <1>a, <2>1 DEF AtOutput
  <2>3. p \in Plans
    BY <1>0, <2>1, <2>2 DEF PlanOf, Plans, TypeOK, Found
  <2> HIDE DEF p
  <2>4. job' \in [Plans -> JobState]
    BY <2>1, <2>3 DEF TypeOK, Created, JobState
  <2>5. /\ plan' \in [Finalizers -> [Outputs -> Plans \cup {NoPlan}]]
        /\ \A u \in Finalizers \ {t} : plan'[u] = plan[u]
    BY <2>1, <2>2, <2>3 DEF TypeOK
  <2>6. pc' \in [Threads -> Places] /\ pc'[t] = "bind" /\ \A u \in Threads \ {t} : pc'[u] = pc[u]
    BY <1>0, <2>1, GotoEffect DEF Places
  <2> QED BY <1>1, <1>8, <2>2, <2>4, <2>5, <2>6 DEF CreateTransfer, TypeOK, rows, Counted, AtOutput
<1>9. CASE BindTransfer(t)
  <2>1. /\ Goto(t, "wait") /\ WriteBinding(t, "publishing") /\ pc[t] = "bind"
        /\ UNCHANGED <<InBinding, at, verdict>>
    BY <1>9 DEF BindTransfer
  <2>2. at[t] \in Declared
    BY <1>a, <2>1 DEF AtOutput
  <2>3. binding' \in Bindings /\ refused' = refused
    BY <2>1, <2>2, WriteEffect DEF BindingState
  <2>4. pc' \in [Threads -> Places] /\ pc'[t] = "wait" /\ \A u \in Threads \ {t} : pc'[u] = pc[u]
    BY <1>0, <2>1, GotoEffect DEF Places
  <2> QED BY <1>1, <2>1, <2>2, <2>3, <2>4 DEF InBinding, TypeOK, world, Counted, AtOutput
<1>10. ASSUME NEW state \in {"missing", "failed"}, NEW v \in {"blocked", "failed"}, Row(t, state),
              pc[t] \in AtOutput, GiveUp(t, v), UNCHANGED InBinding
       PROVE  TypeInv' /\ Frame(t)
  <2>1. at[t] \in Declared /\ state \in BindingState
    BY <1>10, <1>a DEF BindingState
  <2>2. binding' \in Bindings /\ refused' \subseteq Outputs \cup {0} /\ refused \subseteq refused'
    BY <1>10, <2>1, RowEffect
  <2> HIDE DEF GiveUp, Row
  <2> QED BY <1>1, <1>10, <2>1, <2>2, GiveUpEffect DEF InBinding, TypeOK, world, AtOutput, Counted
<1>11. CASE OutputMissing(t)
  BY <1>10, <1>11, MissingRow DEF OutputMissing, AtOutput
<1>12. CASE OutputFails(t)
  BY <1>10, <1>12, FailedRow DEF OutputFails
<1>13. CASE Published(t)
  <2>1. NextOutput(t, at[t]) /\ UNCHANGED InBinding /\ WriteBinding(t, "published")
    BY <1>13 DEF Published
  <2>2. at[t] \in Declared /\ at[t] \in 0 .. outputs
    BY <1>13, <1>a, <1>0 DEF Published, AtOutput, Declared
  <2>3. binding' \in Bindings /\ refused' = refused
    BY <2>1, <2>2, WriteEffect DEF BindingState
  <2> QED BY <1>1, <2>1, <2>2, <2>3, NextEffect DEF InBinding, TypeOK, world, AtOutput, Counted
<1>14. CASE FinishFinalization(t)
  <2>1. /\ Release(t) /\ data' = verdict[t] /\ blame' \in {0, at[t]}
        /\ UNCHANGED <<outputs, status, binding, artifacts, collection, manifest, world, expired, host, refused>>
    BY <1>14 DEF FinishFinalization
  <2>2. data' \in DataState /\ blame' \in Outputs \cup {0}
    BY <1>s, <2>1 DEF TypeOK
  <2> QED BY <1>1, <2>1, <2>2, ReleaseEffect DEF TypeOK, world, AtOutput
<1> QED
  BY <1>2, <1>3, <1>4, <1>5, <1>6, <1>7, <1>8, <1>9, <1>11, <1>12, <1>13, <1>14 DEF Finalize

LEMMA DieType ==
  ASSUME TypeInv, NEW p \in Processes, Die(p), events' \in 0 .. MaxEvents
  PROVE  TypeInv'
<1> USE DEF TypeInv
<1>0. /\ Blank \in [Outputs -> Found] /\ NoPlans \in [Outputs -> Plans \cup {NoPlan}]
      /\ "off" \in Places /\ "pending" \in DataState /\ Home \in Processes
  BY Kinds DEF Blank, NoPlans, Found, Places, DataState
<1> HIDE DEF Blank, NoPlans, Home
<1>1. pc' = [t \in Threads |-> IF Process(t) = p THEN "off" ELSE pc[t]] /\ pc' \in [Threads -> Places]
  BY <1>0 DEF Die, TypeOK
<1>2. seen' \in [Threads -> [Outputs -> Found]]
  BY <1>0 DEF Die, TypeOK
<1>3. plan' \in [Finalizers -> [Outputs -> Plans \cup {NoPlan}]]
  BY <1>0 DEF Die, TypeOK
<1>4. at' = [t \in Finalizers |-> IF Process(t) = p THEN 0 ELSE at[t]] /\ at' \in [Finalizers -> Outputs \cup {0}]
  BY DEF Die, TypeOK
<1>5. verdict' \in [Finalizers -> DataState]
  BY <1>0 DEF Die, TypeOK
<1>6. lock' \in [Publishers -> Finalizers \cup {"free"}] /\ host' \in [Collectors -> Processes]
  BY <1>0 DEF Die, TypeOK
<1>7. expired' \subseteq Threads /\ UNCHANGED <<rows, world, refused>>
  BY DEF Die, TypeOK
<1>8. TypeOK'
  BY <1>1, <1>2, <1>3, <1>4, <1>5, <1>6, <1>7 DEF TypeOK, rows, world
<1>9. Ordinals'
  BY <1>1, <1>4, <1>7, Kinds DEF Ordinals, AtOutput, Declared, rows
<1> QED BY <1>8, <1>9

LEMMA TypeStep == TypeInv /\ [Next]_vars => TypeInv'
<1> SUFFICES ASSUME TypeInv, [Next]_vars PROVE TypeInv'
  OBVIOUS
<1> USE DEF TypeInv
<1>e. Event => events' \in 0 .. MaxEvents
  BY DEF Event, TypeOK
<1>o. ASSUME NEW t \in Threads, pc[t] \notin Counted, pc'[t] \notin Counted, UNCHANGED <<outputs, at>>,
             \A u \in Threads \ {t} : pc'[u] = pc[u]
      PROVE  Ordinals'
  BY <1>o, Kinds DEF Ordinals, Declared, Counted
<1>1. ASSUME NEW p \in Processes, EndRun(p) \/ LateCancel(p) PROVE TypeInv'
  <2>1. /\ StartEvidence(p) /\ status' \in {"running", "succeeded", "failed"} /\ events' \in 0 .. MaxEvents
        /\ UNCHANGED <<outputs, data, blame, binding, artifacts, collection, manifest>>
    BY <1>1, <1>e DEF EndRun, LateCancel, rows, TypeOK
  <2>2. PICK e \in Evidences :
           /\ pc[e] = "off" /\ pc'[e] = "collect" /\ pc' \in [Threads -> Places]
           /\ \A u \in Threads \ {e} : pc'[u] = pc[u]
           /\ host' \in [Collectors -> Processes] /\ \A u \in Collectors \ {e} : host'[u] = host[u]
           /\ UNCHANGED <<world, local, expired, lock, refused>>
    BY <2>1, StartEffect
  <2>3. Ordinals'
    BY <1>o, <2>1, <2>2, Kinds DEF Counted, AtOutput, local
  <2> QED BY <2>1, <2>2, <2>3 DEF TypeOK, world, local
<1>2. ASSUME NEW s \in Servers, RequestCollection(s) PROVE TypeInv'
  <2>1. /\ Goto("request", "collect") /\ host' = [host EXCEPT !["request"] = s] /\ pc["request"] = "off"
        /\ collection' = "discovering" /\ Event
        /\ UNCHANGED <<outputs, status, data, blame, binding, artifacts, manifest, world, local, expired, lock,
                       refused>>
    BY <1>2 DEF RequestCollection
  <2>2. host' \in [Collectors -> Processes]
    BY <2>1, Kinds DEF TypeOK
  <2>3. /\ pc' \in [Threads -> Places] /\ pc'["request"] = "collect"
        /\ \A u \in Threads \ {"request"} : pc'[u] = pc[u]
    BY <2>1, GotoEffect, Kinds DEF Places
  <2>4. Ordinals'
    BY <1>o, <2>1, <2>3, Kinds DEF Counted, AtOutput, local
  <2> QED BY <1>e, <2>1, <2>2, <2>3, <2>4 DEF TypeOK, world, local
<1>3. ASSUME NEW s \in Servers, Reconcile(s) PROVE TypeInv'
  <2>1. Goto(s, "enter") /\ pc[s] = "off" /\ UNCHANGED <<rows, world, local, expired, host, lock, refused, events>>
    BY <1>3 DEF Reconcile
  <2>2. pc' \in [Threads -> Places] /\ pc'[s] = "enter" /\ \A u \in Threads \ {s} : pc'[u] = pc[u]
    BY <2>1, GotoEffect, Kinds DEF Places
  <2>3. Ordinals'
    BY <1>o, <2>1, <2>2, Kinds DEF Counted, AtOutput, local, rows
  <2> QED BY <2>1, <2>2, <2>3 DEF TypeOK, rows, world, local
<1>4. ASSUME NEW t \in Threads, Stop(t) \/ TimeOut(t) PROVE TypeInv'
  <2>1. Ordinals'
    BY <1>4 DEF Stop, TimeOut, Ordinals, rows, local, Declared
  <2> QED BY <1>4, <1>e, <2>1 DEF Stop, TimeOut, TypeOK, rows, world, local
<1>5. ASSUME NEW p \in Processes, Crash(p) \/ Exit(p) \/ Leave(p) PROVE TypeInv'
  <2>1. events' \in 0 .. MaxEvents /\ Die(p)
    BY <1>5, <1>e DEF Crash, Exit, Leave, TypeOK
  <2> QED BY <2>1, DieType
<1>6. ASSUME NEW e \in Evidences, Decide(e) PROVE TypeInv'
  <2>1. PICK place \in {"enter", "seal"} : Goto(e, place)
    BY <1>6 DEF Decide
  <2>2. pc' \in [Threads -> Places] /\ pc'[e] = place /\ \A u \in Threads \ {e} : pc'[u] = pc[u]
    <3>1. place \in Places /\ e \in Threads
      BY Kinds DEF Places
    <3> QED BY <2>1, <3>1, GotoEffect
  <2>3. pc[e] = "decide" /\ UNCHANGED <<rows, world, seen, plan, at, expired, host, lock, refused, events>>
    BY <1>6 DEF Decide
  <2>4. verdict' \in [Finalizers -> DataState]
    BY <1>6 DEF Decide, TypeOK
  <2>5. Ordinals'
    BY <1>o, <2>2, <2>3, Kinds DEF Counted, AtOutput, rows
  <2> QED BY <2>2, <2>3, <2>4, <2>5 DEF TypeOK, rows, world
<1>7. ASSUME NEW e \in Evidences, ReadForManifest(e) PROVE TypeInv'
  <2>1. Goto(e, "seal") /\ pc[e] = "note" /\ UNCHANGED <<rows, world, seen, plan, at, expired, host, lock, refused, events>>
    BY <1>7 DEF ReadForManifest
  <2>2. pc' \in [Threads -> Places] /\ pc'[e] = "seal" /\ \A u \in Threads \ {e} : pc'[u] = pc[u]
    BY <2>1, GotoEffect, Kinds DEF Places
  <2>4. verdict' \in [Finalizers -> DataState]
    BY <1>7 DEF ReadForManifest, TypeOK
  <2>5. Ordinals'
    BY <1>o, <2>1, <2>2, Kinds DEF Counted, AtOutput, rows
  <2> QED BY <2>1, <2>2, <2>4, <2>5 DEF TypeOK, rows, world
<1>8. ASSUME NEW e \in Evidences, SaveRunManifest(e) \/ EvidenceStops(e) PROVE TypeInv'
  <2>1. /\ Return(e) /\ pc[e] \in {"decide", "note", "seal"} /\ verdict' = [verdict EXCEPT ![e] = "pending"]
        /\ UNCHANGED <<outputs, status, data, blame, binding, artifacts, collection, world, seen, plan, at, lock,
                       refused>>
    BY <1>8 DEF SaveRunManifest, EvidenceStops, rows
  <2>2. e \in Collectors /\ e \in Finalizers /\ e \in Threads
    BY Kinds
  <2>3. /\ pc' \in [Threads -> Places] /\ pc'[e] = "off" /\ \A u \in Threads \ {e} : pc'[u] = pc[u]
        /\ host' \in [Collectors -> Processes] /\ expired' = expired \ {e}
    BY <2>1, <2>2, ReturnEffect
  <2>4. verdict' \in [Finalizers -> DataState]
    BY <2>1 DEF TypeOK, DataState
  <2>5. Ordinals'
    BY <1>o, <2>1, <2>2, <2>3 DEF Counted, AtOutput
  <2>6. manifest' \in Manifests /\ events' \in 0 .. MaxEvents
    <3>1. verdict[e] \in DataState /\ host[e] \in Processes /\ binding \in Bindings /\ manifest \in Manifests
      BY <2>2 DEF TypeOK
    <3>2. \/ manifest' = manifest
          \/ manifest' = [data |-> verdict[e], binding |-> binding, by |-> host[e]]
          \/ manifest' = [data |-> verdict[e], binding |-> AllIn("unlisted"), by |-> host[e]]
      BY <1>8 DEF SaveRunManifest, EvidenceStops, rows
    <3>3. manifest' \in Manifests
      <4> HIDE DEF AllIn
      <4> QED BY <3>1, <3>2 DEF Manifests
    <3>4. events' \in 0 .. MaxEvents
      BY <1>8, <1>e DEF SaveRunManifest, EvidenceStops, Broken, TypeOK
    <3> QED BY <3>3, <3>4
  <2> QED BY <2>1, <2>3, <2>4, <2>5, <2>6 DEF TypeOK, world
<1>9. ASSUME NEW p \in Plans, TransferEnds(p) \/ RetryTransfer(p) PROVE TypeInv'
  <2>1. p.output \in Outputs /\ p.revision \in Revisions
    BY DEF Plans
  <2>2. job' \in [Plans -> JobState] /\ dest' \in [Outputs -> Observed]
    BY <1>9, <2>1 DEF TransferEnds, TransferCompletes, TransferFails, RetryTransfer, TypeOK, JobState,
                      Observed
  <2>3. events' \in 0 .. MaxEvents /\ UNCHANGED <<rows, remote, threads, refused>>
    BY <1>9, <1>e DEF TransferEnds, TransferCompletes, TransferFails, RetryTransfer, TypeOK
  <2>4. Ordinals'
    BY <2>3 DEF Ordinals, rows, threads, local, Declared
  <2> QED BY <2>2, <2>3, <2>4 DEF TypeOK, rows, threads, local
<1>10. ASSUME NEW o \in Outputs, EditFile(o) \/ LoseCopy(o) PROVE TypeInv'
  <2>0. remote \in [Outputs -> Found] /\ dest \in [Outputs -> Observed] /\ "missing" \in Observed
    BY DEF TypeOK, Observed
  <2>1. remote' \in [Outputs -> Found] /\ dest' \in [Outputs -> Observed]
    <3>1. CASE EditFile(o)
      BY <2>0, <3>1 DEF EditFile
    <3>2. CASE LoseCopy(o)
      BY <2>0, <3>2 DEF LoseCopy
    <3> QED BY <1>10, <3>1, <3>2
  <2>2. events' \in 0 .. MaxEvents /\ UNCHANGED <<rows, job, threads, refused>>
    BY <1>10, <1>e DEF EditFile, LoseCopy
  <2>3. Ordinals'
    BY <2>2 DEF Ordinals, rows, threads, local, Declared
  <2> QED BY <2>1, <2>2, <2>3 DEF TypeOK, rows, threads, local
<1>11. CASE UNCHANGED vars
  <2>1. Ordinals'
    BY <1>11 DEF vars, Ordinals, rows, threads, local, Declared
  <2> QED BY <1>11, <2>1 DEF vars, TypeOK, rows, world, threads, local
<1>12. CASE \E p \in Processes : EndRun(p) \/ LateCancel(p)
  BY <1>1, <1>12
<1>13. CASE \E s \in Servers : RequestCollection(s) \/ Reconcile(s) \/ Stop(s) \/ Crash(s) \/ Exit(s)
  BY <1>2, <1>3, <1>4, <1>5, <1>13, Kinds
<1>14. CASE \E c \in Submitters \cup Clients : Leave(c)
  BY <1>5, <1>14 DEF Processes
<1>15. CASE \E t \in Collectors : Collect(t) \/ TimeOut(t)
  BY <1>4, <1>15, CollectType DEF Threads
<1>16. CASE \E t \in Finalizers : Finalize(t)
  BY <1>16, FinalizeType
<1>17. CASE \E e \in Evidences : Decide(e) \/ Seal(e)
  BY <1>6, <1>7, <1>8, <1>17 DEF Seal
<1>18. CASE \E p \in Plans : TransferEnds(p) \/ RetryTransfer(p)
  BY <1>9, <1>18
<1>19. CASE \E o \in Outputs : EditFile(o) \/ LoseCopy(o)
  BY <1>10, <1>19
<1> QED
  BY <1>11, <1>12, <1>13, <1>14, <1>15, <1>16, <1>17, <1>18, <1>19 DEF Next

\* The rows, jobs and goroutines of any number of processes stay within their types.
THEOREM TypeCorrect == Spec => []TypeOK
<1>1. TypeInv => TypeOK
  BY DEF TypeInv
<1> QED BY <1>1, InitType, TypeStep, PTL DEF Spec
-----------------------------------------------------------------------------
(* One process that can publish: the lock admits one finalizer at a time,  *)
(* and what it knows of the outputs it has passed stays true until it      *)
(* gives its verdict.                                                      *)

OnePublisher == \A s, u \in Publishers : s = u

Needed  == Declared \cap Required
Done(o) ==
    /\ binding[o].state = "published" /\ binding[o].plan \in Plans
    /\ binding[o].plan.output = o /\ job[binding[o].plan] = "completed"

\* A verdict that the rows bear out: o is the output it condemns the data for.
Earned(v, o) ==
    \/ v = "completed" /\ \A n \in Needed : Done(n)
    \/ /\ v \in {"blocked", "failed"} /\ o \in Needed
       /\ binding[o].state = (IF v = "blocked" THEN "missing" ELSE "failed") \/ o \in refused
    \/ v = "failed" /\ o = 0

Locks   == \A t \in Finalizers :
    /\ pc[t] \in Inside \cup {"enter"} => Process(t) \in Publishers
    /\ pc[t] \in Inside => lock[Process(t)] = t
Unended == status = "running" =>
    data = "pending" /\ manifest = Draft /\ \A t \in Finalizers : pc[t] = "off"
Working == \A t \in Finalizers :
    /\ pc[t] = "begin" => data \notin Settled
    /\ pc[t] \in Publishing => data = "publishing"

\* The required outputs before the one a finalizer is at are done.
Passed(t)   == \A o \in Needed : o < at[t] => Done(o)
Advance(t)  ==
    /\ pc[t] \in AtOutput => Passed(t)
    /\ pc[t] \in {"bind", "wait"} => plan[t][at[t]] \in Plans /\ plan[t][at[t]].output = at[t]
    /\ pc[t] = "finish" => t \in expired \/ Earned(verdict[t], at[t])
Progress == \A t \in Finalizers : Advance(t)
Results  == data \in Settled => data = "skipped" \/ Earned(data, blame)

\* What finalizeRunEvidence knows of the data before and after it reads the run again.
Noted(e) == status = "succeeded" => e \in expired \/ data \in Settled \/ 0 \in refused
Ready(e) ==
    /\ verdict[e] \in Settled => data = verdict[e]
    /\ status = "succeeded" => verdict[e] \in Settled \/ host[e] \in Clients \/ 0 \in refused
Sealing  == \A e \in Evidences :
    /\ pc[e] = "note" => Noted(e)
    /\ pc[e] = "seal" => Ready(e)

IInv == Locks /\ Unended /\ Working /\ Progress /\ Results /\ Sealing /\ ManifestIsTrue

\* What a step may do to settled data.
Final == data \in Settled => UNCHANGED <<data, blame, binding>>

LEMMA InitInv == Init => IInv
<1> SUFFICES ASSUME Init PROVE IInv
  OBVIOUS
<1> HIDE DEF Draft
<1>1. \A t \in Finalizers : pc[t] = "off"
  BY Kinds DEF Init
<1>2. data = "pending" /\ manifest = Draft /\ status = "running"
  BY DEF Init
<1>3. Locks /\ Working /\ Progress
  BY <1>1 DEF Locks, Working, Progress, Advance, Inside, Publishing, AtOutput
<1>4. ManifestIsTrue
  BY <1>2 DEF ManifestIsTrue, Draft, Settled
<1>5. Sealing
  BY <1>1, Kinds DEF Sealing
<1> QED
  BY <1>1, <1>2, <1>3, <1>4, <1>5 DEF IInv, Unended, Results, Settled

\* The lock of the one process: two finalizers are never inside together.
LEMMA Alone ==
  ASSUME OnePublisher, TypeOK, Locks, NEW t \in Finalizers, NEW u \in Finalizers,
         pc[t] \in Inside, pc[u] \in Inside
  PROVE  t = u
BY DEF OnePublisher, Locks

\* Who runs a finalizer.
LEMMA Hosts ==
  ASSUME NEW t \in Finalizers
  PROVE  Process(t) = IF t \in Servers THEN t ELSE host[t]
BY DEF Process

\* What is kept by a step that does not write the manifest and leaves settled data alone.
LEMMA SealKept ==
  ASSUME TypeOK, IInv, Final, refused \subseteq refused', status' = status
  PROVE  /\ UNCHANGED manifest => ManifestIsTrue'
         /\ \A e \in Evidences : Noted(e) /\ (e \in expired => e \in expired') => Noted(e)'
         /\ \A e \in Evidences : Ready(e) /\ UNCHANGED <<verdict[e], host[e]>> => Ready(e)'
<1>1. UNCHANGED manifest => ManifestIsTrue'
  <2> HIDE DEF Draft, AllIn
  <2>1. Draft' = Draft /\ AllIn("unlisted")' = AllIn("unlisted")
    BY DEF Draft, AllIn
  <2> QED BY <2>1 DEF IInv, ManifestIsTrue, Final
<1>2. \A e \in Evidences : Noted(e) /\ (e \in expired => e \in expired') => Noted(e)'
  BY DEF Noted, Final
<1>3. \A e \in Evidences : Ready(e) /\ UNCHANGED <<verdict[e], host[e]>> => Ready(e)'
  BY DEF Ready, Final
<1> QED BY <1>1, <1>2, <1>3

\* What becomes of a finalizer in a step that is not its own work under the lock.
Quiet(t) ==
  \/ /\ pc'[t] = pc[t] /\ plan'[t] = plan[t] /\ at'[t] = at[t] /\ verdict'[t] = verdict[t]
     /\ Process(t)' = Process(t) /\ (pc[t] \in Inside => lock'[Process(t)] = lock[Process(t)])
     /\ t \in expired => t \in expired'
  \/ pc'[t] = "off"
  \/ /\ status # "running" /\ pc'[t] \notin Inside \cup {"note"}
     /\ pc'[t] = "enter" => Process(t)' \in Publishers
     /\ pc'[t] = "seal" => Ready(t)'

\* A step beside the finalization: no finalizer is let in, no verdict or output is
\* written, and a transfer that is completed stays so.
LEMMA QuietStep ==
  ASSUME TypeOK, IInv,
         UNCHANGED <<outputs, status, data, blame, binding>>, refused \subseteq refused',
         \/ UNCHANGED manifest
         \/ ManifestIsTrue' /\ status # "running",
         \A p \in Plans : job[p] = "completed" => job'[p] = "completed",
         \A t \in Finalizers : Quiet(t)
  PROVE  IInv' /\ Final
<1> USE DEF IInv
<1>f. Final
  BY DEF Final
<1>d. /\ Declared' = Declared /\ Needed' = Needed
      /\ \A o \in Needed : Done(o) => Done(o)'
      /\ \A v, o : Earned(v, o) => Earned(v, o)'
  <2>1. Declared' = Declared /\ Needed' = Needed
    BY DEF Declared, Needed
  <2>2. \A o \in Needed : Done(o) => Done(o)'
    BY DEF Done
  <2> QED BY <2>1, <2>2 DEF Earned
<1>1. Locks'
  BY DEF Locks, Quiet, Inside
<1>2. Unended'
  <2> HIDE DEF Draft
  <2>1. Draft' = Draft
    BY DEF Draft, AllIn
  <2> QED BY <2>1 DEF Unended, Quiet
<1>3. Working'
  BY DEF Working, Quiet, Inside, Publishing
<1>4. Progress'
  <2> SUFFICES ASSUME NEW t \in Finalizers PROVE Advance(t)'
    BY DEF Progress
  <2>1. CASE pc'[t] \notin Inside
    BY <2>1 DEF Advance, Inside, AtOutput
  <2>2. CASE pc'[t] \in Inside
    <3>1. /\ pc'[t] = pc[t] /\ plan'[t] = plan[t] /\ at'[t] = at[t] /\ verdict'[t] = verdict[t]
          /\ t \in expired => t \in expired'
      BY <2>2 DEF Quiet, Inside
    <3>2. Advance(t) /\ (Passed(t) => Passed(t)')
      BY <1>d, <3>1 DEF Passed, Progress
    <3> QED BY <1>d, <3>1, <3>2 DEF Advance
  <2> QED BY <2>1, <2>2
<1>5. Results'
  BY <1>d DEF Results
<1>6. Sealing'
  <2> SUFFICES ASSUME NEW e \in Evidences
               PROVE  (pc'[e] = "note" => Noted(e)') /\ (pc'[e] = "seal" => Ready(e)')
    BY DEF Sealing
  <2>1. e \in Finalizers /\ e \in Collectors /\ e \notin Servers
    BY Kinds
  <2>2. CASE pc'[e] = pc[e] /\ verdict'[e] = verdict[e] /\ Process(e)' = Process(e)
             /\ (e \in expired => e \in expired')
    <3>1. host'[e] = host[e]
      BY <2>1, <2>2, Hosts DEF Process
    <3> QED BY <1>f, <2>2, <3>1, SealKept DEF Sealing
  <2>3. CASE ~(pc'[e] = pc[e] /\ verdict'[e] = verdict[e] /\ Process(e)' = Process(e)
               /\ (e \in expired => e \in expired'))
    BY <2>1, <2>3 DEF Quiet
  <2> QED BY <2>2, <2>3
<1>7. ManifestIsTrue'
  BY <1>f, SealKept
<1> QED BY <1>f, <1>1, <1>2, <1>3, <1>4, <1>5, <1>6, <1>7

\* A step of the finalizer that holds the lock: only what it knows itself has to be shown.
LEMMA InsideStep ==
  ASSUME OnePublisher, TypeOK, IInv, NEW t \in Finalizers, Frame(t),
         pc[t] \in Inside, pc'[t] \in Inside, lock' = lock,
         data \notin Settled, data' \notin Settled,
         pc'[t] \in Publishing => data' = "publishing", Advance(t)'
  PROVE  IInv' /\ Final
<1> USE DEF IInv
<1>f. Final
  BY DEF Final
<1>1. \A u \in Finalizers : Process(u)' = Process(u)
  BY DEF Frame, Process
<1>2. \A u \in Finalizers \ {t} : pc'[u] = pc[u] /\ pc[u] \notin Inside
  BY Alone, Kinds DEF Frame
<1>3. status # "running" /\ UNCHANGED <<outputs, status, manifest, expired, host>> /\ refused \subseteq refused'
  BY DEF Unended, Frame, Inside
<1>4. Locks'
  BY <1>1, <1>2 DEF Locks
<1>5. Unended'
  BY <1>3 DEF Unended
<1>6. Working'
  BY <1>2 DEF Working, Inside, Publishing
<1>7. Progress'
  BY <1>2 DEF Progress, Advance, Inside, AtOutput
<1>8. Results'
  BY DEF Results
<1>9. Sealing'
  <2> SUFFICES ASSUME NEW e \in Evidences
               PROVE  (pc'[e] = "note" => Noted(e)') /\ (pc'[e] = "seal" => Ready(e)')
    BY DEF Sealing
  <2>1. CASE e = t
    BY <2>1 DEF Inside
  <2>2. CASE e # t
    <3>1. pc'[e] = pc[e] /\ verdict'[e] = verdict[e]
      BY <1>2, <2>2, Kinds DEF Frame
    <3> QED BY <1>f, <1>3, <3>1, SealKept DEF Sealing
  <2> QED BY <2>1, <2>2
<1>10. ManifestIsTrue'
  BY <1>f, <1>3, SealKept
<1> QED BY <1>f, <1>4, <1>5, <1>6, <1>7, <1>8, <1>9, <1>10

\* A finalizer that lets go of the lock leaves data that is settled, unless its context has
\* ended or the database has refused a statement about the run.
LEMMA ReleaseStep ==
  ASSUME OnePublisher, TypeOK, IInv, NEW t \in Finalizers, Frame(t), Release(t),
         pc[t] \in Inside, UNCHANGED <<binding, job>>,
         \/ UNCHANGED <<data, blame>>
         \/ data \notin Settled /\ (data' = "skipped" \/ Earned(data, blame)'),
         t \in expired \/ data' \in Settled \/ 0 \in refused'
  PROVE  IInv' /\ Final
<1> USE DEF IInv
<1>f. Final
  BY DEF Final
<1>0. /\ pc'[t] \in {"note", "off"} /\ (pc'[t] = "note" => t \in Evidences)
      /\ lock' = [lock EXCEPT ![Process(t)] = "free"]
  BY ReleaseEffect
<1>1. \A u \in Finalizers : Process(u)' = Process(u)
  BY DEF Frame, Process
<1>2. \A u \in Finalizers \ {t} : pc'[u] = pc[u] /\ pc[u] \notin Inside
  BY Alone, Kinds DEF Frame
<1>3. status # "running" /\ UNCHANGED <<outputs, status, manifest, expired, host>> /\ refused \subseteq refused'
  BY DEF Unended, Frame, Inside
<1>4. \A u \in Finalizers : pc'[u] \notin Inside
  BY <1>0, <1>2 DEF Inside
<1>5. Locks'
  BY <1>0, <1>1, <1>2, <1>4 DEF Locks
<1>6. Working' /\ Progress'
  BY <1>4 DEF Working, Progress, Advance, Inside, Publishing, AtOutput
<1>7. Unended'
  BY <1>3 DEF Unended
<1>8. Results'
  <2>1. CASE UNCHANGED <<data, blame>>
    <3>1. Earned(data, blame) => Earned(data, blame)'
      BY <1>3, <2>1 DEF Earned, Needed, Declared, Done
    <3> QED BY <2>1, <3>1 DEF Results
  <2>2. CASE data' = "skipped" \/ Earned(data, blame)'
    BY <2>2 DEF Results
  <2> QED BY <2>1, <2>2
<1>9. Sealing'
  <2> SUFFICES ASSUME NEW e \in Evidences
               PROVE  (pc'[e] = "note" => Noted(e)') /\ (pc'[e] = "seal" => Ready(e)')
    BY DEF Sealing
  <2>1. CASE e = t
    BY <1>0, <1>3, <2>1 DEF Noted
  <2>2. CASE e # t
    <3>1. pc'[e] = pc[e] /\ verdict'[e] = verdict[e]
      BY <1>2, <2>2, Kinds DEF Frame
    <3> QED BY <1>f, <1>3, <3>1, SealKept DEF Sealing
  <2> QED BY <2>1, <2>2
<1>10. ManifestIsTrue'
  BY <1>f, <1>3, SealKept
<1> QED BY <1>f, <1>5, <1>6, <1>7, <1>8, <1>9, <1>10

\* From one output to the next: the outputs up to it are done.
LEMMA NextStep ==
  ASSUME TypeOK, NEW t \in Finalizers, NEW o \in 0 .. outputs, NextOutput(t, o),
         outputs' = outputs, \A n \in Needed : n <= o => Done(n)'
  PROVE  pc'[t] \in {"output", "finish"} /\ Advance(t)'
<1>1. outputs \in Nat /\ Needed' = Needed /\ \A n \in Needed : n \in Nat /\ n <= outputs
  BY DEF TypeOK, Needed, Declared
<1>2. CASE o = outputs /\ pc'[t] = "finish" /\ verdict'[t] = "completed"
  BY <1>1, <1>2 DEF Advance, Earned, AtOutput
<1>3. CASE o < outputs /\ pc'[t] = "output" /\ at'[t] = o + 1
  <2>1. \A n \in Needed : n < o + 1 => Done(n)'
    BY <1>1
  <2> QED BY <1>1, <1>3, <2>1 DEF Advance, Passed, AtOutput
<1> QED BY <1>2, <1>3, NextEffect

\* What the finalizer writes of the output it is at leaves the others as they were.
LEMMA PassedStep ==
  ASSUME TypeOK, NEW t \in Finalizers, at[t] \in Declared, UNCHANGED <<outputs, job>>, Passed(t),
         \A o \in Outputs \ {at[t]} : binding'[o] = binding[o]
  PROVE  /\ \A o \in Needed : o < at[t] => Done(o)'
         /\ \A n : n = at[t] /\ Done(n)' => \A o \in Needed : o <= n => Done(o)'
<1>1. outputs \in Declarations
  BY DEF TypeOK
<1>0. outputs \in Nat /\ outputs <= MaxOutputs
  BY <1>1
<1>2. /\ at[t] \in Outputs /\ Needed \subseteq Outputs /\ \A o \in Outputs : ~(o < o)
      /\ \A o \in Needed : o <= at[t] => o < at[t] \/ o = at[t]
  BY <1>0 DEF Needed, Declared, Outputs
<1>3. \A o \in Needed : o < at[t] => Done(o)'
  BY <1>2 DEF Passed, Done
<1>4. ASSUME NEW n, n = at[t], Done(n)', NEW o \in Needed, o <= n PROVE Done(o)'
  <2>1. CASE o = n
    BY <1>4, <2>1
  <2>2. CASE o < at[t]
    BY <1>3, <2>2
  <2> QED BY <1>2, <1>4, <2>1, <2>2
<1> QED BY <1>3, <1>4

\* An output that is given up: a required one bears the verdict out, an optional one is
\* passed over.
LEMMA GiveUpStep ==
  ASSUME TypeOK, NEW t \in Finalizers, at[t] \in Declared, NEW state \in {"blocked", "failed"},
         GiveUp(t, state), outputs' = outputs, expired' = expired,
         \A o \in Needed : o < at[t] => Done(o)',
         \/ binding'[at[t]].state = IF state = "blocked" THEN "missing" ELSE "failed"
         \/ at[t] \in refused' \/ t \in expired
  PROVE  pc'[t] \in {"output", "finish"} /\ Advance(t)'
<1>1. CASE at[t] \in Required
  <2>1. pc'[t] = "finish" /\ verdict'[t] = state /\ at'[t] = at[t]
    BY <1>1, GiveUpEffect
  <2>2. at[t] \in Needed /\ Needed' = Needed
    BY <1>1 DEF Needed, Declared
  <2>3. t \in expired \/ Earned(verdict[t], at[t])'
    BY <2>1, <2>2 DEF Earned
  <2> QED BY <2>1, <2>3 DEF Advance, AtOutput
<1>2. CASE at[t] \notin Required
  <2>1. NextOutput(t, at[t])
    BY <1>2 DEF GiveUp
  <2>0. outputs \in 0 .. MaxOutputs
    BY DEF TypeOK
  <2>3. outputs \in Nat
    BY <2>0
  <2>2. at[t] \in 0 .. outputs /\ \A n \in Needed : n <= at[t] => n < at[t]
    BY <1>2, <2>0 DEF Needed, Declared
  <2> QED BY <2>1, <2>2, NextStep
<1> QED BY <1>1, <1>2

LEMMA EnterStep ==
  ASSUME OnePublisher, TypeInv, IInv, NEW t \in Finalizers, Enter(t)
  PROVE  IInv' /\ Final
<1> USE DEF TypeInv, IInv
<1>0. t \in Threads /\ Frame(t)
  BY Kinds, FinalizeType DEF Finalize
<1>1. /\ pc[t] = "enter" /\ Goto(t, "read") /\ lock[Process(t)] = "free"
      /\ lock' = [lock EXCEPT ![Process(t)] = t]
      /\ UNCHANGED <<rows, world, local, expired, host, refused>>
  BY DEF Enter
<1>2. pc'[t] = "read" /\ Process(t) \in Publishers
  BY <1>0, <1>1, GotoEffect DEF Places, Locks
<1>3. \A u \in Finalizers : Process(u)' = Process(u)
  BY <1>1 DEF Process
<1>4. \A u \in Finalizers \ {t} : pc'[u] = pc[u] /\ pc[u] \notin Inside
  <2> SUFFICES ASSUME NEW u \in Finalizers \ {t}, pc[u] \in Inside PROVE FALSE
    BY <1>0, Kinds DEF Frame
  <2>1. lock[Process(u)] = u /\ Process(u) = Process(t)
    BY <1>2 DEF Locks, OnePublisher
  <2>2. u # "free"
    BY DEF Finalizers
  <2> QED BY <1>1, <2>1, <2>2
<1>5. Locks'
  BY <1>1, <1>2, <1>3, <1>4 DEF Locks, TypeOK
<1>6. status # "running"
  BY <1>1 DEF Unended
<1>7. Unended'
  BY <1>1, <1>6 DEF Unended, rows
<1>8. Working' /\ Progress'
  BY <1>2, <1>4 DEF Working, Progress, Advance, Inside, Publishing, AtOutput
<1>f. Final
  BY <1>1 DEF Final, rows
<1>9. Results'
  BY <1>1 DEF Results, Earned, Done, Needed, Declared, rows, world
<1>10. Sealing'
  <2> SUFFICES ASSUME NEW e \in Evidences
               PROVE  (pc'[e] = "note" => Noted(e)') /\ (pc'[e] = "seal" => Ready(e)')
    BY DEF Sealing
  <2>1. CASE e = t
    BY <1>2, <2>1
  <2>2. CASE e # t
    <3>1. pc'[e] = pc[e] /\ UNCHANGED <<status, verdict, host, expired, refused>>
      BY <1>1, <1>4, <2>2, Kinds DEF local, rows
    <3> QED BY <1>f, <3>1, SealKept DEF Sealing
  <2> QED BY <2>1, <2>2
<1>11. ManifestIsTrue'
  BY <1>1, <1>f, SealKept DEF rows
<1> QED BY <1>f, <1>5, <1>7, <1>8, <1>9, <1>10, <1>11

LEMMA FinalizeStep ==
  ASSUME OnePublisher, TypeInv, IInv, NEW t \in Finalizers, Finalize(t)
  PROVE  IInv' /\ Final
<1> USE DEF TypeInv
<1>f. Frame(t) /\ UNCHANGED <<outputs, expired>>
  BY FinalizeType DEF Frame
<1>0. t \in Threads /\ outputs \in 0 .. MaxOutputs
  BY DEF Threads, TypeOK
<1>a. pc[t] \in AtOutput =>
        /\ at[t] \in Declared /\ Passed(t) /\ data = "publishing" /\ pc[t] \in Inside
        /\ (pc[t] \in {"bind", "wait"} => plan[t][at[t]] \in Plans /\ plan[t][at[t]].output = at[t])
  BY DEF Ordinals, IInv, Progress, Advance, Working, AtOutput, Publishing, Inside
<1>i. ASSUME pc[t] \in Inside, pc'[t] \in Publishing, lock' = lock, data \notin Settled,
             data' = "publishing", Advance(t)'
      PROVE  IInv' /\ Final
  BY <1>f, <1>i, InsideStep DEF Publishing, Inside, Settled
<1>g. ASSUME NEW place \in Places, Goto(t, place) PROVE pc'[t] = place
  BY <1>0, <1>g, GotoEffect
<1>2. CASE Enter(t)
  BY <1>2, EnterStep
<1>3. CASE ReadRun(t)
  <2>1. pc[t] = "read" /\ pc'[t] = "begin" /\ data \notin Settled /\ data' = data /\ lock' = lock
    BY <1>3, <1>g DEF ReadRun, Places, rows
  <2>2. Advance(t)'
    BY <2>1 DEF Advance, AtOutput
  <2> QED BY <1>f, <2>1, <2>2, InsideStep DEF Inside, Publishing
<1>4. CASE Begin(t)
  <2>1. pc[t] \in Inside /\ data \notin Settled
    BY <1>4 DEF Begin, Inside, IInv, Working
  <2>2. CASE outputs = 0
    <3>1. Release(t) /\ data' = "skipped" /\ UNCHANGED <<binding, job>>
      BY <1>4, <2>2 DEF Begin, world
    <3>2. data' = "skipped" /\ data' \in Settled
      BY <3>1 DEF Settled
    <3> QED BY <1>f, <2>1, <3>1, <3>2, ReleaseStep
  <2>3. CASE outputs # 0
    <3>1. pc'[t] = "list" /\ data' = "publishing" /\ lock' = lock
      BY <1>4, <1>g, <2>3 DEF Begin, Places
    <3>2. Advance(t)'
      BY <3>1 DEF Advance, AtOutput
    <3> QED BY <1>i, <2>1, <3>1, <3>2 DEF Publishing
  <2> QED BY <2>2, <2>3
<1>5. CASE ReturnEarly(t)
  <2>1. /\ Release(t) /\ UNCHANGED <<data, blame, binding, job>> /\ pc[t] \in Inside
        /\ t \in expired \/ data' \in Settled \/ 0 \in refused'
    BY <1>5 DEF ReturnEarly, Inside, rows, world
  <2> QED BY <1>f, <2>1, ReleaseStep
<1>6. CASE ListArtifacts(t)
  <2>1. NextOutput(t, 0) /\ UNCHANGED <<data, lock>> /\ pc[t] \in Inside /\ data = "publishing"
    BY <1>6 DEF ListArtifacts, rows, IInv, Working, Publishing, Inside
  <2>2. \A n \in Needed : ~(n <= 0)
    BY <1>0 DEF Needed, Declared
  <2>3. pc'[t] \in {"output", "finish"} /\ Advance(t)'
    BY <1>f, <1>0, <2>1, <2>2, NextStep
  <2> QED BY <1>i, <2>1, <2>3 DEF Publishing, Settled
<1>7. CASE ListFails(t)
  <2>1. /\ pc[t] = "list" /\ pc'[t] = "finish" /\ UNCHANGED <<data, lock, at>>
        /\ verdict' = [verdict EXCEPT ![t] = "failed"]
    BY <1>7, <1>g DEF ListFails, rows, Places
  <2>2. pc[t] \in Inside /\ data = "publishing" /\ at[t] = 0
    BY <2>1 DEF IInv, Working, Publishing, Inside, Ordinals, Counted, AtOutput
  <2>3. verdict'[t] = "failed" /\ at'[t] = 0
    BY <2>1, <2>2 DEF TypeOK
  <2>4. Advance(t)'
    BY <2>1, <2>3 DEF Advance, Earned, AtOutput
  <2> QED BY <1>i, <2>1, <2>2, <2>4 DEF Publishing, Settled
<1>8. CASE CreateTransfer(t)
  <2> DEFINE p == PlanOf(t)
  <2>1. /\ job' = [job EXCEPT ![p] = Created(@, p)] /\ plan' = [plan EXCEPT ![t][at[t]] = p]
        /\ pc[t] = "output" /\ pc'[t] = "bind" /\ seen[t][at[t]] # Absent
        /\ UNCHANGED <<rows, at, verdict, lock>>
    BY <1>8, <1>g DEF CreateTransfer, Places
  <2>2. at[t] \in Outputs /\ at[t] \in Declared /\ at[t] \in Nat
    BY <1>a, <1>0, <2>1 DEF AtOutput, Declared, Outputs
  <2>3. p \in Plans /\ p.output = at[t]
    BY <1>0, <2>1, <2>2 DEF PlanOf, Plans, TypeOK, Found
  <2> HIDE DEF p
  <2>4. ASSUME NEW o \in Needed, o < at[t] PROVE Done(o)'
    <3>1. Done(o) /\ binding' = binding
      BY <1>a, <2>1, <2>4 DEF Passed, rows, AtOutput
    <3>2. binding[o].plan # p
      BY <2>2, <2>3, <2>4, <3>1 DEF Done, Needed, Declared
    <3>3. job'[binding[o].plan] = job[binding[o].plan]
      BY <2>1, <2>3, <3>1, <3>2 DEF Done, TypeOK
    <3> QED BY <3>1, <3>3 DEF Done
  <2>5. plan'[t][at[t]] = p
    BY <2>1, <2>2 DEF TypeOK
  <2>6. Advance(t)'
    BY <1>f, <2>1, <2>3, <2>4, <2>5 DEF Advance, Passed, AtOutput, Needed, Declared
  <2> QED BY <1>a, <1>i, <2>1, <2>6 DEF Publishing, Settled, AtOutput, rows
<1>9. CASE BindTransfer(t)
  <2>1. pc[t] = "bind" /\ pc'[t] = "wait" /\ WriteBinding(t, "publishing") /\ UNCHANGED <<InBinding, at>>
    BY <1>9, <1>g DEF BindTransfer, Places
  <2>2. \A o \in Needed : o < at[t] => Done(o)'
    BY <1>a, <1>f, <2>1, PassedStep, WriteEffect DEF InBinding, world, AtOutput, BindingState
  <2>3. Needed' = Needed /\ plan' = plan /\ at' = at
    BY <1>f, <2>1 DEF Needed, Declared, InBinding
  <2>4. Advance(t)'
    BY <1>a, <2>1, <2>2, <2>3 DEF Advance, Passed, AtOutput
  <2> QED BY <1>a, <1>i, <2>1, <2>4 DEF InBinding, Publishing, Settled, AtOutput
<1>10. ASSUME NEW v \in {"blocked", "failed"}, GiveUp(t, v), UNCHANGED InBinding, pc[t] \in AtOutput,
              Row(t, IF v = "blocked" THEN "missing" ELSE "failed")
       PROVE  IInv' /\ Final
  <2> DEFINE state == IF v = "blocked" THEN "missing" ELSE "failed"
  <2>1. state \in BindingState /\ at[t] \in Declared
    BY <1>a, <1>10 DEF BindingState
  <2>2. /\ \A o \in Outputs \ {at[t]} : binding'[o] = binding[o]
        /\ binding'[at[t]].state = state \/ at[t] \in refused' \/ t \in expired
    <3> HIDE DEF state
    <3>1. Row(t, state)
      BY <1>10 DEF state
    <3> QED BY <2>1, <3>1, RowEffect
  <2>3. \A o \in Needed : o < at[t] => Done(o)'
    BY <1>a, <1>10, <2>1, <2>2, PassedStep DEF InBinding, world
  <2>4. pc'[t] \in {"output", "finish"} /\ Advance(t)'
    BY <1>f, <1>10, <2>1, <2>2, <2>3, GiveUpStep
  <2> QED BY <1>a, <1>i, <1>10, <2>4 DEF InBinding, Publishing, Settled
<1>11. CASE OutputMissing(t)
  <2>1. Row(t, "missing") /\ pc[t] \in AtOutput /\ GiveUp(t, "blocked") /\ UNCHANGED InBinding
    BY <1>11, MissingRow DEF OutputMissing, AtOutput
  <2> HIDE DEF GiveUp, Row, InBinding
  <2> QED BY <1>10, <2>1
<1>12. CASE OutputFails(t)
  <2>1. Row(t, "failed") /\ pc[t] \in AtOutput /\ GiveUp(t, "failed") /\ UNCHANGED InBinding
    BY <1>12, FailedRow DEF OutputFails
  <2> HIDE DEF GiveUp, Row, InBinding
  <2> QED BY <1>10, <2>1
<1>13. CASE Published(t)
  <2>1. /\ NextOutput(t, at[t]) /\ UNCHANGED InBinding /\ WriteBinding(t, "published")
        /\ pc[t] = "wait" /\ job[plan[t][at[t]]] = "completed"
    BY <1>13 DEF Published
  <2>2. /\ binding'[at[t]] = [state |-> "published", plan |-> plan[t][at[t]]]
        /\ \A o \in Outputs \ {at[t]} : binding'[o] = binding[o]
    BY <1>a, <2>1, WriteEffect DEF AtOutput, BindingState
  <2>3. UNCHANGED <<outputs, job>>
    BY <2>1 DEF InBinding, world
  <2>4. ASSUME NEW n, n = at[t] PROVE Done(n)'
    <3>1. binding'[at[t]].state = "published" /\ binding'[at[t]].plan = plan[t][at[t]]
      BY <2>2
    <3>2. plan[t][at[t]] \in Plans /\ plan[t][at[t]].output = at[t]
      BY <1>a, <2>1 DEF AtOutput
    <3> QED BY <2>1, <2>3, <2>4, <3>1, <3>2 DEF Done
  <2>5. \A o \in Needed : o <= at[t] => Done(o)'
    BY <1>a, <2>1, <2>2, <2>3, <2>4, PassedStep DEF AtOutput
  <2>6. at[t] \in 0 .. outputs
    BY <1>a, <1>0, <2>1 DEF AtOutput, Declared
  <2>7. pc'[t] \in {"output", "finish"} /\ Advance(t)'
    BY <1>f, <2>1, <2>5, <2>6, NextStep
  <2> QED BY <1>a, <1>i, <2>1, <2>7 DEF InBinding, Publishing, Settled, AtOutput
<1>14. CASE FinishFinalization(t)
  <2>1. /\ Release(t) /\ pc[t] = "finish" /\ t \notin expired /\ UNCHANGED <<binding, job, refused>>
        /\ data' = verdict[t] /\ blame' = IF verdict[t] = "completed" THEN 0 ELSE at[t]
    BY <1>14 DEF FinishFinalization, world
  <2>2. data = "publishing" /\ Earned(verdict[t], at[t])
    BY <2>1 DEF IInv, Working, Progress, Advance, Publishing
  <2>3. Earned(data, blame)'
    BY <1>f, <2>1, <2>2 DEF Earned, Needed, Declared, Done
  <2>4. data' \in Settled
    BY <2>1, <2>2 DEF Earned, Settled
  <2> QED BY <1>f, <2>1, <2>2, <2>3, <2>4, ReleaseStep DEF Settled, Inside
<1> QED
  BY <1>2, <1>3, <1>4, <1>5, <1>6, <1>7, <1>8, <1>9, <1>11, <1>12, <1>13, <1>14 DEF Finalize
-----------------------------------------------------------------------------
(* The other steps.                                                        *)

LEMMA CollectStep ==
  ASSUME TypeInv, IInv, NEW t \in Collectors, Collect(t)
  PROVE  IInv' /\ Final
<1> USE DEF TypeInv
<1>1. /\ \A u \in Threads \ {t} : pc'[u] = pc[u] /\ (u \in expired => u \in expired')
      /\ \A u \in Collectors \ {t} : host'[u] = host[u]
      /\ pc[t] # "off" /\ pc'[t] \in {"decide", "off", "discover", "index", "record"}
  BY CollectType
<1>2. UNCHANGED <<outputs, status, data, blame, binding, manifest, job, plan, at, verdict, lock, refused>>
  BY DEF Collect, StartCollection, Discover, Index, SaveArtifactCollection, DiscoveryFails, CollectionStops,
         InCollection, world
<1>3. ASSUME NEW u \in Finalizers PROVE Quiet(u)
  <2>1. CASE u = t
    <3>1. status # "running"
      BY <1>1, <2>1 DEF IInv, Unended
    <3> QED BY <1>1, <2>1, <3>1 DEF Quiet, Inside
  <2>2. CASE u # t
    <3>1. u \in Threads /\ (u \notin Servers => u \in Collectors)
      BY Kinds DEF Finalizers
    <3>2. Process(u)' = Process(u)
      BY <1>1, <2>2, <3>1 DEF Process
    <3> QED BY <1>1, <1>2, <2>2, <3>1, <3>2 DEF Quiet
  <2> QED BY <2>1, <2>2
<1> QED BY <1>2, <1>3, QuietStep

LEMMA EndRunStep ==
  ASSUME TypeInv, IInv, NEW p \in Processes, EndRun(p)
  PROVE  IInv' /\ Final
<1> USE DEF TypeInv
<1>1. /\ status = "running" /\ StartEvidence(p) /\ status' \in {"succeeded", "failed"}
      /\ UNCHANGED <<outputs, data, blame, binding, manifest>>
  BY DEF EndRun
<1>2. data = "pending" /\ manifest = Draft /\ \A u \in Finalizers : pc[u] = "off"
  BY <1>1 DEF IInv, Unended
<1>3. PICK e \in Evidences : pc'[e] = "collect" /\ \A u \in Threads \ {e} : pc'[u] = pc[u]
  BY <1>1, StartEffect
<1>4. \A u \in Finalizers : pc'[u] \in {"off", "collect"}
  BY <1>2, <1>3, Kinds
<1>5. Locks' /\ Working' /\ Progress'
  BY <1>4 DEF Locks, Working, Progress, Advance, Inside, Publishing, AtOutput
<1>6. Sealing'
  BY <1>4, Kinds DEF Sealing
<1>7. ManifestIsTrue'
  <2>1. manifest'.data = "draft"
    BY <1>1, <1>2 DEF Draft
  <2>2. Draft' = Draft
    BY DEF Draft, AllIn
  <2> HIDE DEF Draft
  <2> QED BY <1>1, <1>2, <2>1, <2>2 DEF ManifestIsTrue, Settled
<1> QED BY <1>1, <1>2, <1>5, <1>6, <1>7 DEF IInv, Unended, Results, Settled, Final

\* The rows outlive the process, and the goroutines of the others are not touched.
LEMMA DieStep ==
  ASSUME TypeInv, IInv, NEW p \in Processes, Die(p)
  PROVE  IInv' /\ Final
<1> USE DEF TypeInv
<1>1. UNCHANGED <<outputs, status, data, blame, binding, manifest, job, refused>>
  BY DEF Die, rows, world
<1>2. ASSUME NEW u \in Finalizers PROVE Quiet(u)
  <2>0. u \in Threads
    BY Kinds
  <2>1. CASE Process(u) = p
    BY <2>0, <2>1 DEF Die, Quiet
  <2>2. CASE Process(u) # p
    <3>1. /\ pc'[u] = pc[u] /\ plan'[u] = plan[u] /\ at'[u] = at[u] /\ verdict'[u] = verdict[u]
          /\ u \in expired => u \in expired'
      BY <2>0, <2>2 DEF Die
    <3>2. Process(u)' = Process(u)
      <4>1. CASE u \in Servers
        BY <4>1 DEF Process
      <4>2. CASE u \notin Servers
        <5>1. u \in Collectors /\ host[u] # p
          BY <2>2, <4>2, Kinds DEF Process, Finalizers
        <5>2. host' = [c \in Collectors |-> IF host[c] = p THEN Home ELSE host[c]]
          BY DEF Die
        <5> HIDE DEF Home
        <5>3. host'[u] = host[u]
          BY <5>1, <5>2
        <5> QED BY <4>2, <5>3 DEF Process
      <4> QED BY <4>1, <4>2
    <3>3. pc[u] \in Inside => lock'[Process(u)] = lock[Process(u)]
      BY <2>2 DEF Die, IInv, Locks
    <3> QED BY <3>1, <3>2, <3>3 DEF Quiet
  <2> QED BY <2>1, <2>2
<1> QED BY <1>1, <1>2, QuietStep

LEMMA DecideStep ==
  ASSUME TypeInv, IInv, NEW e \in Evidences, Decide(e)
  PROVE  IInv' /\ Final
<1> USE DEF TypeInv
<1>0. e \in Threads /\ e \in Finalizers /\ e \in Collectors /\ e \notin Servers
  BY Kinds
<1>1. pc[e] = "decide" /\ UNCHANGED <<rows, world, seen, plan, at, expired, host, lock, refused>>
  BY DEF Decide
<1>2. \/ status = "succeeded" /\ host[e] \in Publishers /\ Goto(e, "enter") /\ UNCHANGED verdict
      \/ /\ ~(status = "succeeded" /\ host[e] \in Publishers)
         /\ Goto(e, "seal") /\ verdict' = [verdict EXCEPT ![e] = data]
  BY DEF Decide
<1>3. status # "running"
  BY <1>0, <1>1 DEF IInv, Unended
<1>4. /\ \A u \in Finalizers \ {e} : pc'[u] = pc[u] /\ verdict'[u] = verdict[u]
      /\ \A u \in Finalizers : Process(u)' = Process(u)
  BY <1>0, <1>1, <1>2 DEF Goto, Process, TypeOK, Finalizers, Threads
<1>5. Quiet(e)
  <2>1. CASE status = "succeeded" /\ host[e] \in Publishers
    <3>1. pc'[e] = "enter"
      BY <1>0, <1>2, <2>1, GotoEffect DEF Places
    <3> QED BY <1>0, <1>3, <1>4, <2>1, <3>1, Hosts DEF Quiet, Inside
  <2>2. CASE ~(status = "succeeded" /\ host[e] \in Publishers)
    <3>1. pc'[e] = "seal"
      BY <1>0, <1>2, <2>2, GotoEffect DEF Places
    <3>2. verdict'[e] = data /\ data' = data /\ status' = status /\ host' = host
      BY <1>0, <1>1, <1>2, <2>2 DEF TypeOK, rows
    <3>3. status = "succeeded" => host[e] \in Clients
      BY <1>0, <2>2, Kinds DEF TypeOK
    <3> QED BY <1>3, <3>1, <3>2, <3>3 DEF Quiet, Ready, Inside
  <2> QED BY <2>1, <2>2
<1>6. \A u \in Finalizers : Quiet(u)
  BY <1>1, <1>4, <1>5 DEF Quiet
<1> QED BY <1>1, <1>6, QuietStep DEF rows, world

LEMMA ReadForManifestStep ==
  ASSUME TypeInv, IInv, NEW e \in Evidences, ReadForManifest(e)
  PROVE  IInv' /\ Final
<1> USE DEF TypeInv
<1>0. e \in Threads /\ e \in Finalizers
  BY Kinds
<1>1. /\ pc[e] = "note" /\ e \notin expired /\ Goto(e, "seal") /\ verdict' = [verdict EXCEPT ![e] = data]
      /\ UNCHANGED <<rows, world, seen, plan, at, expired, host, lock, refused>>
  BY DEF ReadForManifest
<1>2. status # "running"
  BY <1>0, <1>1 DEF IInv, Unended
<1>3. pc'[e] = "seal" /\ \A u \in Finalizers \ {e} : pc'[u] = pc[u]
  BY <1>0, <1>1, GotoEffect, Kinds DEF Places
<1>4. verdict'[e] = data /\ \A u \in Finalizers \ {e} : verdict'[u] = verdict[u]
  BY <1>0, <1>1 DEF TypeOK
<1>5. Quiet(e)
  <2>1. data' = data /\ status' = status /\ refused' = refused
    BY <1>1 DEF rows
  <2>2. Noted(e)
    BY <1>1 DEF IInv, Sealing
  <2> QED BY <1>1, <1>2, <1>3, <1>4, <2>1, <2>2 DEF Quiet, Ready, Noted, Inside
<1>6. \A u \in Finalizers : Quiet(u)
  BY <1>1, <1>3, <1>4, <1>5 DEF Quiet, Process
<1> QED BY <1>1, <1>6, QuietStep DEF rows, world

\* The goroutine of finalizeRunEvidence ends, with the manifest written or without.
LEMMA SaveRunManifestStep ==
  ASSUME TypeInv, IInv, NEW e \in Evidences, SaveRunManifest(e) \/ EvidenceStops(e)
  PROVE  IInv' /\ Final
<1> USE DEF TypeInv
<1>0. e \in Threads /\ e \in Finalizers /\ e \in Collectors
  BY Kinds
<1>1. /\ pc[e] \in {"decide", "note", "seal"} /\ Return(e) /\ verdict' = [verdict EXCEPT ![e] = "pending"]
      /\ UNCHANGED <<outputs, status, data, blame, binding, world, plan, at, lock, refused>>
  BY DEF SaveRunManifest, EvidenceStops, rows
<1>2. status # "running"
  BY <1>0, <1>1 DEF IInv, Unended
<1>3. /\ pc'[e] = "off" /\ \A u \in Finalizers \ {e} : pc'[u] = pc[u]
      /\ \A u \in Collectors \ {e} : host'[u] = host[u]
      /\ expired' = expired \ {e}
  BY <1>0, <1>1, ReturnEffect, Kinds
<1>4. \A u \in Finalizers \ {e} : verdict'[u] = verdict[u]
  BY <1>0, <1>1 DEF TypeOK
<1>5. \A u \in Finalizers \ {e} : Process(u)' = Process(u)
  BY <1>3 DEF Process, Finalizers, Collectors
<1>6. \A u \in Finalizers : Quiet(u)
  BY <1>1, <1>3, <1>4, <1>5 DEF Quiet
<1>7. UNCHANGED manifest \/ ManifestIsTrue'
  <2>1. CASE UNCHANGED manifest
    BY <2>1
  <2>2. CASE ~UNCHANGED manifest
    <3>1. /\ pc[e] = "seal"
          /\ \/ manifest' = [data |-> verdict[e], binding |-> binding, by |-> host[e]]
             \/ manifest' = [data |-> verdict[e], binding |-> AllIn("unlisted"), by |-> host[e]]
      BY <2>2 DEF SaveRunManifest, EvidenceStops, rows
    <3>2. Ready(e)
      BY <3>1 DEF IInv, Sealing
    <3>3. AllIn("unlisted")' = AllIn("unlisted")
      BY DEF AllIn
    <3> HIDE DEF AllIn
    <3>4. manifest'.data = verdict[e] /\ manifest'.by = host[e]
          /\ manifest'.binding \in {binding, AllIn("unlisted")}
      BY <3>1
    <3> QED BY <1>1, <3>2, <3>3, <3>4 DEF Ready, ManifestIsTrue
  <2> QED BY <2>1, <2>2
<1> QED BY <1>1, <1>2, <1>6, <1>7, QuietStep DEF world

LEMMA InvStep ==
  ASSUME OnePublisher, TypeInv, IInv, [Next]_vars
  PROVE  IInv' /\ Final
<1> USE DEF TypeInv
<1> DEFINE Good == IInv' /\ Final
<1> SUFFICES Good
  OBVIOUS
<1>1. ASSUME NEW p \in Processes, LateCancel(p) PROVE Good
  <2>1. status # "running" /\ UNCHANGED rows /\ StartEvidence(p)
    BY <1>1 DEF LateCancel
  <2>2. PICK e \in Evidences :
           /\ pc'[e] = "collect" /\ \A u \in Threads \ {e} : pc'[u] = pc[u]
           /\ \A u \in Collectors \ {e} : host'[u] = host[u]
           /\ UNCHANGED <<world, local, expired, lock, refused>>
    BY <2>1, StartEffect
  <2>3. ASSUME NEW u \in Finalizers PROVE Quiet(u)
    <3>1. CASE u = e
      BY <2>1, <2>2, <3>1 DEF Quiet, Inside
    <3>2. CASE u # e
      <4>1. pc'[u] = pc[u] /\ Process(u)' = Process(u)
        BY <2>2, <3>2, Kinds DEF Process, Finalizers
      <4> QED BY <2>2, <4>1 DEF Quiet, local
    <3> QED BY <3>1, <3>2
  <2> QED BY <2>1, <2>2, <2>3, QuietStep DEF rows, world
<1>2. ASSUME NEW s \in Servers, RequestCollection(s) PROVE Good
  <2>1. /\ Goto("request", "collect") /\ host' = [host EXCEPT !["request"] = s]
        /\ UNCHANGED <<outputs, status, data, blame, binding, manifest, world, local, expired, lock, refused>>
    BY <1>2 DEF RequestCollection
  <2>2. \A u \in Finalizers : pc'[u] = pc[u] /\ Process(u)' = Process(u)
    BY <2>1, Kinds DEF Goto, Process, TypeOK, Finalizers
  <2> QED BY <2>1, <2>2, QuietStep DEF Quiet, world, local
<1>3. ASSUME NEW s \in Servers, Reconcile(s) PROVE Good
  <2>1. Goto(s, "enter") /\ UNCHANGED <<rows, world, local, expired, host, lock, refused>> /\ status = "succeeded"
    BY <1>3 DEF Reconcile
  <2>2. /\ pc'[s] = "enter" /\ \A u \in Finalizers \ {s} : pc'[u] = pc[u]
        /\ \A u \in Finalizers : Process(u)' = Process(u)
    BY <2>1, GotoEffect, Kinds DEF Places, Process
  <2>3. Process(s)' \in Publishers
    BY Kinds DEF Process
  <2>4. \A u \in Finalizers : Quiet(u)
    BY <2>1, <2>2, <2>3 DEF Quiet, Inside, local
  <2> QED BY <2>1, <2>4, QuietStep DEF rows, world
<1>4. ASSUME NEW t \in Threads, Stop(t) \/ TimeOut(t) PROVE Good
  <2>1. UNCHANGED <<rows, world, pc, local, host, lock, refused>> /\ expired' = expired \cup {t}
    BY <1>4 DEF Stop, TimeOut
  <2> QED BY <2>1, QuietStep DEF rows, world, local, Process, Quiet
<1>5. ASSUME NEW p \in Plans, TransferEnds(p) \/ RetryTransfer(p) PROVE Good
  <2>1. /\ \A q \in Plans : job[q] = "completed" => job'[q] = "completed"
        /\ UNCHANGED <<rows, pc, local, expired, host, lock, refused>>
    BY <1>5 DEF TransferEnds, TransferCompletes, TransferFails, RetryTransfer, threads, TypeOK
  <2> QED BY <2>1, QuietStep DEF rows, local, Process, Quiet
<1>6. ASSUME NEW o \in Outputs, EditFile(o) \/ LoseCopy(o) PROVE Good
  <2>1. UNCHANGED <<rows, job, threads, refused>>
    BY <1>6 DEF EditFile, LoseCopy
  <2> QED BY <2>1, QuietStep DEF rows, threads, local, Process, Quiet
<1>7. CASE UNCHANGED vars
  BY <1>7, QuietStep DEF vars, rows, world, threads, local, Process, Quiet
<1>8. ASSUME NEW p \in Processes, Crash(p) \/ Exit(p) \/ Leave(p) PROVE Good
  BY <1>8, DieStep DEF Crash, Exit, Leave
<1>9. CASE \E p \in Processes : EndRun(p) \/ LateCancel(p)
  BY <1>1, <1>9, EndRunStep
<1>10. CASE \E s \in Servers : RequestCollection(s) \/ Reconcile(s) \/ Stop(s) \/ Crash(s) \/ Exit(s)
  BY <1>2, <1>3, <1>4, <1>8, <1>10, Kinds
<1>11. CASE \E c \in Submitters \cup Clients : Leave(c)
  BY <1>8, <1>11 DEF Processes
<1>12. CASE \E t \in Collectors : Collect(t) \/ TimeOut(t)
  BY <1>4, <1>12, CollectStep DEF Threads
<1>13. CASE \E t \in Finalizers : Finalize(t)
  BY <1>13, FinalizeStep
<1>14. CASE \E e \in Evidences : Decide(e) \/ Seal(e)
  BY <1>14, DecideStep, ReadForManifestStep, SaveRunManifestStep DEF Seal
<1>15. CASE \E p \in Plans : TransferEnds(p) \/ RetryTransfer(p)
  BY <1>5, <1>15
<1>16. CASE \E o \in Outputs : EditFile(o) \/ LoseCopy(o)
  BY <1>6, <1>16
<1> HIDE DEF Good
<1> QED
  BY <1>7, <1>9, <1>10, <1>11, <1>12, <1>13, <1>14, <1>15, <1>16 DEF Next

LEMMA InvCorrect == ASSUME OnePublisher PROVE Spec => [](TypeInv /\ IInv)
<1>1. Init => TypeInv /\ IInv
  BY InitType, InitInv
<1>2. TypeInv /\ IInv /\ [Next]_vars => (TypeInv /\ IInv)'
  BY TypeStep, InvStep
<1> QED BY <1>1, <1>2, PTL DEF Spec

-----------------------------------------------------------------------------
(* The theorems.                                                           *)

\* While one process can publish, completed data means that every required output was
\* delivered, whatever crashes, is stopped, times out or is refused in between.
THEOREM CompletedCorrect == ASSUME OnePublisher PROVE Spec => []CompletedIsPublished
<1>1. IInv => CompletedIsPublished
  BY DEF IInv, Results, Earned, Done, Needed, Settled, CompletedIsPublished
<1> QED BY <1>1, InvCorrect, PTL

\* While one process can publish, the data of a run is condemned for a required output that
\* its row says is missing or failed, or because the inventory could not be read.
THEOREM CondemnedCorrect == ASSUME OnePublisher PROVE Spec => []OnlyRequiredCondemns
<1>1. IInv => OnlyRequiredCondemns
  BY DEF IInv, Results, Earned, Needed, Settled, OnlyRequiredCondemns
<1> QED BY <1>1, InvCorrect, PTL

\* While one process can publish, what the final manifest says of settled data is true for
\* ever, and only a process that cannot publish, or one that was refused a statement, seals it
\* before the data of a succeeded run is settled.
THEOREM ManifestCorrect == ASSUME OnePublisher PROVE Spec => []ManifestIsTrue
<1>1. IInv => ManifestIsTrue
  BY DEF IInv
<1> QED BY <1>1, InvCorrect, PTL

\* While one process can publish, the verdict on the data of a run is given once.
THEOREM VerdictCorrect == ASSUME OnePublisher PROVE Spec => VerdictIsFinal
<1>1. TypeInv /\ IInv /\ [Next]_vars => [(data \in Settled) => UNCHANGED <<data, blame, binding>>]_vars
  BY InvStep DEF Final
<1> QED BY <1>1, InvCorrect, PTL DEF Spec, VerdictIsFinal
=============================================================================
