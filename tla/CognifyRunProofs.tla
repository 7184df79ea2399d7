-------------------------- MODULE CognifyRunProofs --------------------------
(***************************************************************************)
(* Proofs about CognifyRun for every value of its constants: its types and *)
(* the exclusive-run claim.                                                *)
(***************************************************************************)
EXTENDS CognifyRun, TLAPS

\* A call that has begun, left a row in the trail or waits to be swept has its
\* arguments.
Configured ==
  \A c \in Calls : pc[c] # "idle" \/ runRow[c] # "none" \/ c \in queue => cfg[c] \in Configs

\* Calls and startup each have their own steps.
Placed ==
  /\ pc[Startup] \in {"up"} \union Recovering \union Sweeping
  /\ \A c \in Calls : pc[c] \in {"idle"} \union Active \union Finished

TypeInv == TypeOK /\ Configured /\ Placed

-----------------------------------------------------------------------------
(* Operators. *)

LEMMA StepsDisjoint ==
  /\ "idle" \notin Active \union Finished \union Recovering
  /\ "up" \notin Active \union Finished \union Recovering
  /\ (Running \union Sweeping) \cap Finished = {}
  /\ Active \cap Recovering = {}
  BY DEF Active, Finished, Recovering, Entering, Running, Sweeping

LEMMA AttributedType ==
  ASSUME NEW i \in Items, NEW s \in Slugs
  PROVE  Attributed(i, s) \in Entries
  BY DEF Attributed, Entries, Owners

LEMMA EntriesOfType ==
  ASSUME NEW kept \in SUBSET Items, NEW f, \A i \in kept : f[i] \subseteq Slugs
  PROVE  EntriesOf(kept, f) \subseteq Entries
  BY AttributedType DEF EntriesOf

LEMMA SlugsOfType ==
  ASSUME NEW E \in SUBSET Entries
  PROVE  SlugsOf(E) \subseteq Slugs
  BY DEF SlugsOf, Entries

LEMMA UpsertType ==
  ASSUME NEW rows \in SUBSET Row, NEW d \in Datasets, NEW E \in SUBSET Entries, NEW r \in Calls
  PROVE  Upsert(rows, d, E, r) \subseteq Row
  BY DEF Upsert, Row, Entries

LEMMA ConfigFields ==
  ASSUME NEW c \in Calls, cfg[c] \in Configs
  PROVE  /\ cfg[c].dataset \in Datasets
         /\ cfg[c].pipeline \in Pipelines
         /\ cfg[c].items \subseteq Items
         /\ PairOf(c) \in Pairs
  BY CallAssumption DEF ConfigType, PairOf, Pairs

LEMMA SweepOfType ==
  ASSUME NEW c \in Calls, cfg[c] \in Configs, NEW items \in SUBSET Owners
  PROVE  SweepOf(c, items) \in SweepType
  BY ConfigFields DEF SweepOf, SweepType, NoSweep

LEMMA SweepOverType ==
  ASSUME NEW s \in SweepType, NEW f \in BOOLEAN
  PROVE  SweepOver(s, f) \in SweepType
  BY DEF SweepOver, SweepType, NoSweep

LEMMA SpentType ==
  ASSUME NEW p \in PlanType
  PROVE  Spent(p) \in PlanType
  BY DEF Spent, PlanType

LEMMA RowOfType ==
  ASSUME NEW c \in Calls, NEW s \in Statuses, NEW o \in BOOLEAN
  PROVE  RowOf(c, s, o) \in RowType
  BY DEF RowOf, RowType

LEMMA LogRowType ==
  ASSUME TypeOK, NEW c \in Calls, NEW s \in Statuses, NEW o \in BOOLEAN, LogRow(c, s, o)
  PROVE  /\ runRow' \in [Calls -> Statuses]
         /\ latest' \in [Pairs -> RowType]
         /\ \A d \in Calls : d # c => runRow'[d] = runRow[d]
  BY RowOfType DEF TypeOK, LogRow

-----------------------------------------------------------------------------
(* Types. *)

LEMMA TypeInit == Init => TypeInv
  BY CallAssumption
  DEF Init, TypeInv, TypeOK, Configured, Placed, Actors, Active, Finished, PlanType, SweepType,
      NoPlan, NoSweep, NoRow, RowType, Statuses, Endings

LEMMA PlanUpdateType ==
  ASSUME NEW p \in PlanType, NEW S \in SUBSET Items, NEW T \in SUBSET Items
  PROVE  /\ [p EXCEPT !.todo = S] \in PlanType
         /\ [p EXCEPT !.failed = S, !.unreached = T] \in PlanType
  BY DEF PlanType

\* A call that moves between its own steps stays placed and configured.
LEMMA MoveCall ==
  ASSUME TypeInv, NEW c \in Calls, cfg[c] \in Configs,
         NEW s \in Active \union Finished, Goto(c, s),
         UNCHANGED <<cfg, queue>>, \A d \in Calls : d # c => runRow'[d] = runRow[d]
  PROVE  /\ pc' \in [Actors -> {"idle", "up"} \union Active \union Recovering \union Finished]
         /\ Configured' /\ Placed'
  BY CallAssumption DEF TypeInv, TypeOK, Configured, Placed, Goto, Actors

LEMMA TypeEntry ==
  ASSUME TypeInv, NEW c \in Calls,
         (\E k \in Configs : Begin(c, k)) \/ Qualify(c) \/ Claim(c) \/ Filter(c)
  PROVE  TypeInv'
<1> USE DEF local, stores, trail
<1>1. CASE \E k \in Configs : Begin(c, k)
  BY <1>1, CallAssumption, StepsDisjoint
  DEF Begin, TypeInv, TypeOK, Configured, Placed, Goto, Actors, Active, Entering
<1>2. CASE Qualify(c) \/ Claim(c) \/ Filter(c)
  <2>1. cfg[c] \in Configs
    BY <1>2 DEF TypeInv, Configured, Qualify, Claim, Filter
  <2>2. /\ \E s \in Active \union Finished : Goto(c, s)
        /\ UNCHANGED <<cfg, queue, runRow>>
    BY <1>2 DEF Qualify, Claim, Filter, EndIn, Active, Entering, Running, Finished
  <2>3. /\ pc' \in [Actors -> {"idle", "up"} \union Active \union Recovering \union Finished]
        /\ Configured' /\ Placed'
    BY <2>1, <2>2, MoveCall
  <2>4. ending' \in [Calls -> Endings]
    BY <1>2 DEF Qualify, Claim, Filter, EndIn, TypeInv, TypeOK, Endings
  <2>5. claims' \in [Pairs -> Calls \union {None}]
    BY <1>2 DEF Qualify, Claim, Filter, TypeInv, TypeOK
  <2>6. plan' \in [Calls -> PlanType]
    <3>1. Remaining(c) \subseteq Items
      BY <2>1, ConfigFields DEF Remaining
    <3>2. [plan[c] EXCEPT !.todo = Remaining(c)] \in PlanType
      BY <3>1, PlanUpdateType DEF TypeInv, TypeOK
    <3> QED
      BY <1>2, <3>2 DEF Qualify, Claim, Filter, TypeInv, TypeOK
  <2> QED
    BY <1>2, <2>3, <2>4, <2>5, <2>6 DEF Qualify, Claim, Filter, TypeInv, TypeOK
<1> QED
  BY <1>1, <1>2
\* What a step of a call leaves in its type, apart from the step itself.
LEMMA TypeOfCallStep ==
  ASSUME TypeInv, NEW c \in Calls, cfg[c] \in Configs,
         NEW s \in Active \union Finished, Goto(c, s),
         UNCHANGED <<cfg, queue, crashes>>,
         \A d \in Calls : d # c => runRow'[d] = runRow[d],
         plan' \in [Calls -> PlanType], ending' \in [Calls -> Endings],
         sw' \in [Actors -> SweepType], ledger' \subseteq Row, graph' \subseteq Slugs,
         vectors' \subseteq Slugs \union Texts, markers' \subseteq Datasets \X Items,
         runRow' \in [Calls -> Statuses],
         latest' \in [Pairs -> RowType],
         claims' \in [Pairs -> Calls \union {None}]
  PROVE  TypeInv'
  BY MoveCall DEF TypeInv, TypeOK

LEMMA ExtractType ==
  ASSUME TypeInv, NEW c \in Calls, cfg[c] \in Configs, Extract(c)
  PROVE  plan' \in [Calls -> PlanType]
<1>1. plan[c].todo \subseteq Items
  BY DEF TypeInv, TypeOK, PlanType
<1>2. \A i \in Items : /\ Points[cfg[c].pipeline][i] \subseteq Slugs
                       /\ Yields[cfg[c].pipeline][i] \subseteq SUBSET Slugs
                       /\ DltRows[i] \subseteq Slugs
  BY ConfigFields, WorkAssumption
<1>3. PICK l \in Losses(c) :
        \E y, some :
          /\ some \in SUBSET EntriesOf(Kept(c, l) \cap FailedBy(l), Points[cfg[c].pipeline])
          /\ \A i \in Kept(c, l) : y[i] \in Yields[cfg[c].pipeline][i]
          /\ plan' = [plan EXCEPT ![c] = PlanOf(c, l, y, some)]
  BY DEF Extract
<1>4. PICK y, some :
        /\ some \in SUBSET EntriesOf(Kept(c, l) \cap FailedBy(l), Points[cfg[c].pipeline])
        /\ \A i \in Kept(c, l) : y[i] \in Yields[cfg[c].pipeline][i]
        /\ plan' = [plan EXCEPT ![c] = PlanOf(c, l, y, some)]
  BY <1>3
<1>5. /\ Kept(c, l) \subseteq Items
      /\ FailedBy(l) \subseteq Items
      /\ UnreachedBy(c, l) \subseteq Items
  BY <1>1 DEF Kept, FailedBy, UnreachedBy, Losses
<1>6. /\ EntriesOf(Kept(c, l), y) \subseteq Entries
      /\ EntriesOf(Kept(c, l) \ FailedBy(l), Points[cfg[c].pipeline]) \subseteq Entries
      /\ EntriesOf(Kept(c, l) \cap FailedBy(l), Points[cfg[c].pipeline]) \subseteq Entries
      /\ EntriesOf(Kept(c, l), DltRows) \subseteq Entries
  <2>1. \A i \in Kept(c, l) : y[i] \subseteq Slugs
    BY <1>2, <1>4, <1>5
  <2> QED
    BY <2>1, <1>2, <1>5, EntriesOfType
<1>7. Resolved(EntriesOf(Kept(c, l), y)) \subseteq Entries
  BY <1>6 DEF Resolved
<1>8. PlanOf(c, l, y, some) \in PlanType
  BY <1>1, <1>4, <1>5, <1>6, <1>7 DEF PlanOf, PlanType
<1> QED
  BY <1>4, <1>8 DEF TypeInv, TypeOK
LEMMA ToIndexType ==
  ASSUME TypeInv, NEW c \in Calls
  PROVE  /\ SlugsOf(plan[c].ex) \subseteq Slugs
         /\ SlugsOf(plan[c].pts) \subseteq Slugs
         /\ SlugsOf(plan[c].dlt) \subseteq Slugs
         /\ Fresh(c) \subseteq Slugs
         /\ ToIndex(c) \subseteq Slugs \union Texts
<1>1. /\ SlugsOf(plan[c].ex) \subseteq Slugs
      /\ SlugsOf(plan[c].pts) \subseteq Slugs
      /\ SlugsOf(plan[c].dlt) \subseteq Slugs
  BY SlugsOfType DEF TypeInv, TypeOK, PlanType
<1>2. Fresh(c) \subseteq Slugs
  BY <1>1 DEF Fresh
<1> QED
  BY <1>1, <1>2, StoreAssumption DEF ToIndex, Slugs

LEMMA TypeExecute ==
  ASSUME TypeInv, NEW c \in Calls, Execute(c)
  PROVE  TypeInv'
<1> USE DEF local, stores, trail
<1>0. cfg[c] \in Configs
  BY DEF TypeInv, Configured, Execute, LogInitiated, LogStarted, Extract, StageAbort, OwnExtracted,
         WriteExtracted, OwnPoints, WritePoints, Index, LogCompleted, LogErrored, Fail, Own, WriteGraph
<1>1. CASE LogInitiated(c) \/ LogStarted(c) \/ LogCompleted(c)
  <2>1. \E s \in Active : Goto(c, s)
    BY <1>1 DEF LogInitiated, LogStarted, LogCompleted, Active, Running
  <2>2. /\ runRow' \in [Calls -> Statuses]
        /\ latest' \in [Pairs -> RowType]
        /\ \A d \in Calls : d # c => runRow'[d] = runRow[d]
    BY <1>1, LogRowType DEF LogInitiated, LogStarted, LogCompleted, TypeInv, Statuses
  <2> QED
    BY <1>0, <1>1, <2>1, <2>2, TypeOfCallStep
    DEF LogInitiated, LogStarted, LogCompleted, TypeInv, TypeOK
<1>2. CASE Extract(c)
  <2>1. \E s \in Active : Goto(c, s)
    BY <1>2 DEF Extract, Active, Running
  <2> QED
    BY <1>0, <1>2, <2>1, ExtractType, TypeOfCallStep DEF Extract, TypeInv, TypeOK
<1>3. CASE StageAbort(c)
  <2>1. \E s \in Active : Goto(c, s)
    BY <1>3 DEF StageAbort, Active, Running
  <2>2. PICK l \in Losses(c) :
          plan' = [plan EXCEPT ![c].failed = FailedBy(l), ![c].unreached = UnreachedBy(c, l)]
    BY <1>3 DEF StageAbort
  <2>3. FailedBy(l) \subseteq Items /\ UnreachedBy(c, l) \subseteq Items
    BY DEF Losses, FailedBy, UnreachedBy, TypeInv, TypeOK, PlanType
  <2>4. [plan[c] EXCEPT !.failed = FailedBy(l), !.unreached = UnreachedBy(c, l)] \in PlanType
    BY <2>3, PlanUpdateType DEF TypeInv, TypeOK
  <2>5. plan' \in [Calls -> PlanType]
    BY <2>2, <2>4 DEF TypeInv, TypeOK
  <2> QED
    BY <1>0, <1>3, <2>1, <2>5, TypeOfCallStep DEF StageAbort, TypeInv, TypeOK
<1>4. CASE OwnExtracted(c) \/ OwnPoints(c)
  <2>1. \E s \in Active : Goto(c, s)
    BY <1>4 DEF OwnExtracted, OwnPoints, Own, Active, Running
  <2>2. ledger' \subseteq Row
    BY <1>0, <1>4, ConfigFields, UpsertType DEF OwnExtracted, OwnPoints, Own, TypeInv, TypeOK, PlanType
  <2> QED
    BY <1>0, <1>4, <2>1, <2>2, TypeOfCallStep DEF OwnExtracted, OwnPoints, Own, TypeInv, TypeOK
<1>5. CASE WriteExtracted(c) \/ WritePoints(c)
  <2>1. \E s \in Active : Goto(c, s)
    BY <1>5 DEF WriteExtracted, WritePoints, WriteGraph, Active, Running
  <2>2. graph' \subseteq Slugs
    BY <1>5, ToIndexType DEF WriteExtracted, WritePoints, WriteGraph, TypeInv, TypeOK
  <2> QED
    BY <1>0, <1>5, <2>1, <2>2, TypeOfCallStep DEF WriteExtracted, WritePoints, WriteGraph, TypeInv, TypeOK
<1>6. CASE Index(c) \/ Fail(c)
  <2>1. \E s \in Active : Goto(c, s)
    BY <1>6 DEF Index, Fail, Active, Running
  <2>2. graph' \subseteq Slugs /\ vectors' \subseteq Slugs \union Texts
    BY <1>6, ToIndexType DEF Index, Fail, TypeInv, TypeOK
  <2> QED
    BY <1>0, <1>6, <2>1, <2>2, TypeOfCallStep DEF Index, Fail, TypeInv, TypeOK
<1>7. CASE LogErrored(c)
  <2>1. \E s \in Active : Goto(c, s)
    BY <1>7 DEF LogErrored, Settle, EndIn, Active, Running, Sweeping
  <2>2. /\ runRow' \in [Calls -> Statuses]
        /\ latest' \in [Pairs -> RowType]
        /\ \A d \in Calls : d # c => runRow'[d] = runRow[d]
    BY <1>7, LogRowType DEF LogErrored, TypeInv, Statuses
  <2>3. ending' \in [Calls -> Endings] /\ sw' \in [Actors -> SweepType]
    BY <1>0, <1>7, SweepOfType DEF LogErrored, Settle, EndIn, TypeInv, TypeOK, Endings
  <2> QED
    BY <1>0, <1>7, <2>1, <2>2, <2>3, TypeOfCallStep DEF LogErrored, TypeInv, TypeOK
<1> QED
  BY <1>1, <1>2, <1>3, <1>4, <1>5, <1>6, <1>7 DEF Execute
LEMMA SettleType ==
  ASSUME TypeInv, NEW c \in Calls, cfg[c] \in Configs,
         \/ SettleCompleted(c)
         \/ Settle(c, "teardown", "append")
  PROVE  /\ \E s \in Active : Goto(c, s)
         /\ ending' \in [Calls -> Endings]
         /\ sw' \in [Actors -> SweepType]
<1>1. Outstanding(c) \subseteq Owners
  BY DEF Outstanding, TypeInv, TypeOK, PlanType, Owners
<1>2. \E s \in Active : Goto(c, s)
  BY DEF SettleCompleted, Settle, EndIn, Active, Running, Sweeping
<1>3. ending' \in [Calls -> Endings] /\ sw' \in [Actors -> SweepType]
  BY <1>1, SweepOfType DEF SettleCompleted, Settle, EndIn, TypeInv, TypeOK, Endings
<1> QED
  BY <1>2, <1>3

LEMMA TypeFinish ==
  ASSUME TypeInv, NEW c \in Calls, Finish(c)
  PROVE  TypeInv'
<1> USE DEF local, stores, trail
<1>0. cfg[c] \in Configs
  BY DEF TypeInv, Configured, Finish, Teardown, WriteDlt, TeardownFail, Mark, Append, Release
<1>1. CASE Teardown(c)
  <2>1. CASE plan[c].dlt # {}
    <3>1. \E s \in Active : Goto(c, s)
      BY <1>1, <2>1 DEF Teardown, Active, Running
    <3>2. ledger' \subseteq Row
      BY <1>0, <1>1, <2>1, ConfigFields, UpsertType DEF Teardown, TypeInv, TypeOK, PlanType
    <3> QED
      BY <1>0, <1>1, <2>1, <3>1, <3>2, TypeOfCallStep DEF Teardown, TypeInv, TypeOK
  <2>2. CASE plan[c].dlt = {}
    BY <1>0, <1>1, <2>2, SettleType, TypeOfCallStep DEF Teardown, TypeInv, TypeOK
  <2> QED
    BY <2>1, <2>2
<1>2. CASE WriteDlt(c) \/ TeardownFail(c)
  <2>1. graph' \subseteq Slugs
    BY <1>2, ToIndexType DEF WriteDlt, TeardownFail, TypeInv, TypeOK
  <2> QED
    BY <1>0, <1>2, <2>1, SettleType, TypeOfCallStep DEF WriteDlt, TeardownFail, TypeInv, TypeOK
<1>3. CASE Mark(c)
  <2>1. \E s \in Active : Goto(c, s)
    BY <1>3 DEF Mark, Active, Running
  <2>2. {cfg[c].dataset} \X Survivors(c) \subseteq Datasets \X Items
    BY <1>0, ConfigFields DEF Survivors, TypeInv, TypeOK, PlanType
  <2>3. markers' \subseteq Datasets \X Items
    BY <1>3, <2>2 DEF Mark, TypeInv, TypeOK
  <2> QED
    BY <1>0, <1>3, <2>1, <2>3, TypeOfCallStep DEF Mark, TypeInv, TypeOK
<1>4. CASE Append(c)
  <2>1. \E s \in Active : Goto(c, s)
    BY <1>4 DEF Append, Active, Running
  <2>2. /\ runRow' \in [Calls -> Statuses]
        /\ latest' \in [Pairs -> RowType]
        /\ \A d \in Calls : d # c => runRow'[d] = runRow[d]
    BY <1>4, LogRowType DEF Append, TypeInv, Statuses
  <2> QED
    BY <1>0, <1>4, <2>1, <2>2, TypeOfCallStep DEF Append, TypeInv, TypeOK
<1>5. CASE Release(c)
  <2>1. \E s \in Finished : Goto(c, s)
    BY <1>5 DEF Release, Finished
  <2>2. claims' \in [Pairs -> Calls \union {None}]
    BY <1>5 DEF Release, TypeInv, TypeOK
  <2>3. plan' \in [Calls -> PlanType]
    BY <1>5, SpentType DEF Release, TypeInv, TypeOK
  <2> QED
    BY <1>0, <1>5, <2>1, <2>2, <2>3, TypeOfCallStep DEF Release, TypeInv, TypeOK
<1> QED
  BY <1>1, <1>2, <1>3, <1>4, <1>5 DEF Finish

LEMMA SweepUpdateType ==
  ASSUME NEW s \in SweepType, NEW A \in SUBSET Owners, NEW N \in SUBSET Nodes,
         NEW E \in SUBSET Edges, NEW T \in SUBSET Texts
  PROVE  /\ [s EXCEPT !.affected = A] \in SweepType
         /\ [s EXCEPT !.nodes = N] \in SweepType
         /\ [s EXCEPT !.edges = E] \in SweepType
         /\ [s EXCEPT !.texts = T] \in SweepType
  BY DEF SweepType

\* A sweep's step, whoever runs it, goes to a step of its own kind.
LEMMA SweepMove ==
  ASSUME TypeInv, NEW a \in Actors, Sweep(a)
  PROVE  /\ \E s \in Sweeping \union {AfterSweep(a)} : Goto(a, s)
         /\ pc' \in [Actors -> {"idle", "up"} \union Active \union Recovering \union Finished]
         /\ Configured' /\ Placed'
<1> USE DEF local, stores, trail
<1>1. /\ pc[a] \in Sweeping
      /\ UNCHANGED <<cfg, plan, ending, queue, runRow, latest, claims, crashes>>
  BY DEF Sweep, SweepAffected, SweepNodes, SweepEdges, SweepTexts, SweepGraph, SweepVectors, SweepEdgeRows,
         SweepNodeRows, SweepRows, SweepMarkers, SweepFail, Sweeping
<1>2. PICK s \in Sweeping \union {AfterSweep(a)} : Goto(a, s)
  BY DEF Sweep, SweepAffected, SweepNodes, SweepEdges, SweepTexts, SweepGraph, SweepVectors, SweepEdgeRows,
         SweepNodeRows, SweepRows, SweepMarkers, SweepFail, Sweeping
<1>3. CASE a = Startup
  <2>1. s \in Recovering \union Sweeping
    BY <1>2, <1>3 DEF AfterSweep, Recovering
  <2> QED
    BY <1>1, <1>2, <1>3, <2>1, CallAssumption DEF Goto, TypeInv, TypeOK, Configured, Placed, Actors, Active
<1>4. CASE a # Startup
  <2>1. a \in Calls /\ s \in Active
    BY <1>2, <1>4 DEF Actors, AfterSweep, Active, Running
  <2>2. pc[a] # "idle"
    BY <1>1 DEF Sweeping
  <2>3. cfg[a] \in Configs
    BY <2>1, <2>2 DEF TypeInv, Configured
  <2> QED
    BY <1>1, <1>2, <2>1, <2>3, MoveCall
<1> QED
  BY <1>3, <1>4

LEMMA TypeSweep ==
  ASSUME TypeInv, NEW a \in Actors, Sweep(a)
  PROVE  TypeInv'
<1> USE DEF local, stores, trail
<1>0. sw[a] \in SweepType
  BY DEF TypeInv, TypeOK
<1>1. CASE SweepAffected(a) \/ SweepNodes(a) \/ SweepEdges(a) \/ SweepTexts(a)
  <2>1. {q.item : q \in Selection(sw[a])} \subseteq Owners
    BY DEF Selection, TypeInv, TypeOK, Row
  <2>2. {TextOf[e] : e \in sw[a].edges} \ TextsClaimedOutside(sw[a]) \subseteq Texts
    BY <1>0, StoreAssumption DEF SweepType
  <2>3. sw' \in [Actors -> SweepType]
    <3>1. CASE SweepAffected(a)
      <4>1. [sw[a] EXCEPT !.affected = {q.item : q \in Selection(sw[a])}] \in SweepType
        BY <1>0, <2>1, SweepUpdateType
      <4> QED
        BY <3>1, <4>1 DEF SweepAffected, TypeInv, TypeOK
    <3>2. CASE SweepNodes(a)
      <4>1. [sw[a] EXCEPT !.nodes = Unique(sw[a]) \cap Nodes] \in SweepType
        BY <1>0, SweepUpdateType
      <4> QED
        BY <3>2, <4>1 DEF SweepNodes, TypeInv, TypeOK
    <3>3. CASE SweepEdges(a)
      <4>1. [sw[a] EXCEPT !.edges = Unique(sw[a]) \cap Edges] \in SweepType
        BY <1>0, SweepUpdateType
      <4> QED
        BY <3>3, <4>1 DEF SweepEdges, TypeInv, TypeOK
    <3>4. CASE SweepTexts(a)
      <4>1. [sw[a] EXCEPT !.texts = {TextOf[e] : e \in sw[a].edges} \ TextsClaimedOutside(sw[a])]
              \in SweepType
        BY <1>0, <2>2, SweepUpdateType
      <4> QED
        BY <3>4, <4>1 DEF SweepTexts, TypeInv, TypeOK
    <3> QED
      BY <1>1, <3>1, <3>2, <3>3, <3>4
  <2> QED
    BY <1>1, <2>3, SweepMove DEF SweepAffected, SweepNodes, SweepEdges, SweepTexts, TypeInv, TypeOK
<1>2. CASE SweepGraph(a) \/ SweepVectors(a) \/ SweepEdgeRows(a) \/ SweepNodeRows(a)
  BY <1>2, SweepMove
  DEF SweepGraph, SweepVectors, SweepEdgeRows, SweepNodeRows, SweepRows, TypeInv, TypeOK
<1>3. CASE SweepMarkers(a) \/ SweepFail(a)
  <2>1. SweepOver(sw[a], TRUE) \in SweepType /\ SweepOver(sw[a], FALSE) \in SweepType
    BY <1>0, SweepOverType
  <2>2. sw' \in [Actors -> SweepType]
    BY <1>3, <2>1 DEF SweepMarkers, SweepFail, TypeInv, TypeOK
  <2>3. ledger' \subseteq Row /\ graph' \subseteq Slugs /\ vectors' \subseteq Slugs \union Texts
        /\ markers' \subseteq Datasets \X Items
    BY <1>3 DEF SweepMarkers, SweepFail, TypeInv, TypeOK
  <2> QED
    BY <1>3, <2>2, <2>3, SweepMove DEF SweepMarkers, SweepFail, TypeInv, TypeOK
<1> QED
  BY <1>1, <1>2, <1>3 DEF Sweep
LEMMA TypeStartup ==
  ASSUME TypeInv, ListOrphans \/ NextOrphan \/ ResetOrphans \/ ReleaseAll
  PROVE  TypeInv'
<1> USE DEF local, stores, trail
<1>1. /\ \E s \in Recovering \union Sweeping \union {"up"} : Goto(Startup, s)
      /\ UNCHANGED <<cfg, plan, ending, ledger, graph, vectors, markers, crashes>>
  BY DEF ListOrphans, NextOrphan, ResetOrphans, ReleaseAll, Recovering, Sweeping
<1>2. /\ pc' \in [Actors -> {"idle", "up"} \union Active \union Recovering \union Finished]
      /\ Placed'
      /\ \A c \in Calls : pc'[c] = pc[c]
  BY <1>1, CallAssumption DEF Goto, TypeInv, TypeOK, Placed, Actors, Active
<1>3. CASE ListOrphans
  <2>1. queue' \subseteq Calls /\ Configured'
    BY <1>2, <1>3 DEF ListOrphans, Orphans, TypeInv, TypeOK, Configured
  <2> QED
    BY <1>1, <1>2, <1>3, <2>1 DEF ListOrphans, TypeInv, TypeOK
<1>4. CASE NextOrphan
  <2>1. queue' \subseteq queue /\ Configured'
    BY <1>2, <1>4 DEF NextOrphan, TypeInv, TypeOK, Configured
  <2>2. sw' \in [Actors -> SweepType]
    <3>1. \A c \in queue : SweepOf(c, Owners) \in SweepType
      BY SweepOfType DEF TypeInv, TypeOK, Configured
    <3> QED
      BY <1>4, <3>1 DEF NextOrphan, TypeInv, TypeOK
  <2> QED
    BY <1>1, <1>2, <1>4, <2>1, <2>2 DEF NextOrphan, TypeInv, TypeOK
<1>5. CASE ResetOrphans
  <2>1. CASE UNCHANGED <<runRow, latest>>
    <3>1. Configured'
      BY <1>2, <1>5, <2>1 DEF ResetOrphans, TypeInv, Configured
    <3> QED
      BY <1>1, <1>2, <1>5, <2>1, <3>1 DEF ResetOrphans, TypeInv, TypeOK
  <2>2. ASSUME NEW c \in Orphans, runRow' = [runRow EXCEPT ![c] = "errored"],
               latest' = [latest EXCEPT ![PairOf(c)] = RowOf(c, "errored", FALSE)]
        PROVE  TypeInv'
    <3>1. c \in Calls /\ runRow[c] # "none"
      BY DEF Orphans
    <3>2. runRow' \in [Calls -> Statuses]
      BY <2>2 DEF TypeInv, TypeOK, Statuses
    <3>3. latest' \in [Pairs -> RowType]
      BY <2>2, <3>1, RowOfType DEF TypeInv, TypeOK, Statuses
    <3>4. \A d \in Calls : runRow[d] = "none" => runRow'[d] = "none"
      BY <2>2, <3>1 DEF TypeInv, TypeOK
    <3>5. Configured'
      BY <1>2, <1>5, <3>4 DEF ResetOrphans, TypeInv, Configured
    <3> QED
      BY <1>1, <1>2, <1>5, <3>2, <3>3, <3>5 DEF ResetOrphans, TypeInv, TypeOK
  <2> QED
    BY <1>5, <2>1, <2>2 DEF ResetOrphans
<1>6. CASE ReleaseAll
  <2>1. Configured'
    BY <1>2, <1>6 DEF ReleaseAll, TypeInv, Configured
  <2> QED
    BY <1>1, <1>2, <1>6, <2>1 DEF ReleaseAll, TypeInv, TypeOK
<1> QED
  BY <1>3, <1>4, <1>5, <1>6

LEMMA NoSweepType == NoSweep \in SweepType
  BY DEF NoSweep, SweepType

LEMMA TypeEnvironment ==
  ASSUME TypeInv, (\E c \in Calls : Drop(c)) \/ Crash \/ (\E p \in Pairs : Unblock(p)) \/ Quiescent
  PROVE  TypeInv'
<1> USE DEF local, stores, trail
<1>1. CASE \E c \in Calls : Drop(c)
  <2>1. PICK c \in Calls : Drop(c)
    BY <1>1
  <2>2. cfg[c] \in Configs
    BY <2>1, StepsDisjoint DEF Drop, TypeInv, Configured
  <2>3. Goto(c, "dead") /\ "dead" \in Finished
    BY <2>1 DEF Drop, Finished
  <2>4. plan' \in [Calls -> PlanType] /\ sw' \in [Actors -> SweepType]
    BY <2>1, SpentType, NoSweepType DEF Drop, TypeInv, TypeOK
  <2> QED
    BY <2>1, <2>2, <2>3, <2>4, TypeOfCallStep DEF Drop, TypeInv, TypeOK
<1>2. CASE Crash
  <2>1. plan' \in [Calls -> PlanType] /\ sw' \in [Actors -> SweepType]
    BY <1>2, SpentType, NoSweepType DEF Crash, TypeInv, TypeOK
  <2>2. /\ pc' \in [Actors -> {"idle", "up"} \union Active \union Recovering \union Finished]
        /\ Placed'
        /\ \A c \in Calls : pc[c] = "idle" => pc'[c] = "idle"
    BY <1>2, CallAssumption, StepsDisjoint DEF Crash, TypeInv, TypeOK, Placed, Actors, Recovering, Finished
  <2>3. Configured'
    BY <1>2, <2>2 DEF Crash, TypeInv, Configured
  <2>4. crashes' \in Nat
    BY <1>2 DEF Crash, TypeInv, TypeOK
  <2> QED
    BY <1>2, <2>1, <2>2, <2>3, <2>4 DEF Crash, TypeInv, TypeOK
<1>3. CASE \E p \in Pairs : Unblock(p)
  <2>1. PICK p \in Pairs : Unblock(p)
    BY <1>3
  <2>2. runRow' \in [Calls -> Statuses] /\ claims' \in [Pairs -> Calls \union {None}]
    BY <2>1 DEF Unblock, TypeInv, TypeOK, Statuses
  <2>3. latest' \in [Pairs -> RowType]
    <3>1. RowOf(latest[p].run, "errored", FALSE) \in RowType
      BY DEF RowOf, RowType, TypeInv, TypeOK, Statuses
    <3> QED
      BY <2>1, <3>1 DEF Unblock, TypeInv, TypeOK
  <2>4. Configured' /\ Placed'
    BY <2>1 DEF Unblock, StuckRow, TypeInv, TypeOK, Configured, Placed, Finished
  <2> QED
    BY <2>1, <2>2, <2>3, <2>4 DEF Unblock, TypeInv, TypeOK
<1>4. CASE Quiescent
  BY <1>4 DEF Quiescent, vars, TypeInv, TypeOK, Configured, Placed
<1> QED
  BY <1>1, <1>2, <1>3, <1>4

LEMMA TypeNext == TypeInv /\ [Next]_vars => TypeInv'
<1> SUFFICES ASSUME TypeInv, [Next]_vars
             PROVE  TypeInv'
  OBVIOUS
<1>1. CASE UNCHANGED vars
  BY <1>1 DEF vars, local, stores, trail, TypeInv, TypeOK, Configured, Placed
<1>2. ASSUME NEW c \in Calls, (\E k \in Configs : Begin(c, k)) \/ CallStep(c)
      PROVE  TypeInv'
  <2>1. c \in Actors
    BY DEF Actors
  <2> QED
    BY <1>2, <2>1, TypeEntry, TypeExecute, TypeFinish, TypeSweep DEF CallStep
<1>3. CASE StartupStep
  <2>1. Startup \in Actors
    BY DEF Actors
  <2> QED
    BY <1>3, <2>1, TypeStartup, TypeSweep DEF StartupStep
<1>4. CASE (\E c \in Calls : Drop(c)) \/ Crash \/ (\E p \in Pairs : Unblock(p)) \/ Quiescent
  BY <1>4, TypeEnvironment
<1> QED
  BY <1>1, <1>2, <1>3, <1>4 DEF Next

\* Every variable of a run, its stores and its trail keeps its type, whatever
\* fails, is dropped or crashes.
THEOREM TypeCorrect == Spec => []TypeOK
<1>1. Spec => []TypeInv
  BY TypeInit, TypeNext, PTL DEF Spec
<1> QED
  BY <1>1, PTL DEF TypeInv
-----------------------------------------------------------------------------
(* The exclusive-run claim. *)

\* A call that runs or sweeps holds the claim of its pair, and no call is
\* active while startup recovers.
Exclusive ==
  /\ \A c \in Calls : pc[c] \in Running \union Sweeping => claims[PairOf(c)] = c
  /\ pc[Startup] # "up" => \A c \in Calls : pc[c] \notin Active

ExclusiveInv == TypeInv /\ Exclusive

LEMMA ExclusiveInit == Init => ExclusiveInv
  BY TypeInit, CallAssumption, StepsDisjoint
  DEF Init, ExclusiveInv, Exclusive, Actors, Running, Sweeping, Active, Entering

\* A call that goes from one step under its claim to another, or ends.
LEMMA ExclusiveMove ==
  ASSUME ExclusiveInv, NEW c \in Calls, pc[c] \in Running \union Sweeping,
         NEW s \in Running \union Sweeping \union Finished, Goto(c, s), UNCHANGED <<cfg, claims>>
  PROVE  Exclusive'
<1>1. pc[Startup] = "up" /\ pc'[Startup] = "up"
  BY CallAssumption DEF ExclusiveInv, Exclusive, Active, Goto, TypeInv, TypeOK, Actors
<1>2. \A d \in Calls : d # c => pc'[d] = pc[d]
  BY DEF ExclusiveInv, TypeInv, TypeOK, Goto, Actors
<1>3. claims[PairOf(c)] = c /\ \A d \in Calls : PairOf(d)' = PairOf(d)
  BY DEF ExclusiveInv, Exclusive, PairOf
<1> QED
  BY <1>1, <1>2, <1>3, StepsDisjoint DEF ExclusiveInv, Exclusive

LEMMA ExclusiveNext == ExclusiveInv /\ [Next]_vars => ExclusiveInv'
<1> SUFFICES ASSUME ExclusiveInv, [Next]_vars
             PROVE  Exclusive'
  BY TypeNext DEF ExclusiveInv
<1> USE DEF local, stores, trail
<1>0. /\ TypeInv /\ Exclusive /\ pc \in [Actors -> {"idle", "up"} \union Active \union Recovering \union Finished]
      /\ Startup \in Actors /\ Startup \notin Calls /\ Calls \subseteq Actors
      /\ claims \in [Pairs -> Calls \union {None}] /\ None \notin Calls
      /\ cfg \in [Calls -> Configs \union {None}]
  BY CallAssumption DEF ExclusiveInv, TypeInv, TypeOK, Actors
<1>1. CASE UNCHANGED vars
  BY <1>0, <1>1 DEF vars, Exclusive, PairOf
<1>2. ASSUME NEW c \in Calls, NEW k \in Configs, Begin(c, k)
      PROVE  Exclusive'
  <2>1. pc'[Startup] = "up" /\ pc'[c] \notin Running \union Sweeping
    BY <1>0, <1>2 DEF Begin, Goto, Running, Sweeping
  <2>2. \A d \in Calls : d # c => pc'[d] = pc[d] /\ PairOf(d)' = PairOf(d)
    BY <1>0, <1>2 DEF Begin, Goto, PairOf
  <2> QED
    BY <1>0, <1>2, <2>1, <2>2 DEF Begin, Exclusive
<1>3. ASSUME NEW c \in Calls, Qualify(c)
      PROVE  Exclusive'
  <2>1. pc[c] \in Active /\ pc'[c] \notin Running \union Sweeping
    BY <1>0, <1>3 DEF Qualify, EndIn, Goto, Active, Entering, Running, Sweeping
  <2>2. \A a \in Actors : a # c => pc'[a] = pc[a]
    BY <1>0, <1>3 DEF Qualify, EndIn, Goto
  <2> QED
    BY <1>0, <1>3, <2>1, <2>2 DEF Qualify, Exclusive, PairOf
<1>4. ASSUME NEW c \in Calls, Claim(c)
      PROVE  Exclusive'
  <2>1. pc[c] \in Active /\ pc[c] # "idle"
    BY <1>4 DEF Claim, Active, Entering
  <2>2. /\ \A a \in Actors : a # c => pc'[a] = pc[a]
        /\ \A d \in Calls : PairOf(d)' = PairOf(d)
        /\ PairOf(c) \in Pairs
    <3>1. cfg[c] \in Configs
      BY <1>0, <2>1 DEF TypeInv, Configured
    <3> QED
      BY <1>0, <1>4, <3>1, ConfigFields DEF Claim, EndIn, Goto, PairOf
  <2>3. CASE Claimable(PairOf(c)) /\ claims' = [claims EXCEPT ![PairOf(c)] = c]
    <3>1. \A d \in Calls : pc[d] \in Running \union Sweeping => PairOf(d) # PairOf(c)
      BY <1>0, <2>3, StepsDisjoint DEF Exclusive, Claimable
    <3>2. claims'[PairOf(c)] = c /\ \A p : p # PairOf(c) => claims'[p] = claims[p]
      BY <1>0, <2>2, <2>3
    <3> QED
      BY <1>0, <2>1, <2>2, <3>1, <3>2 DEF Exclusive
  <2>4. CASE Goto(c, "done") /\ UNCHANGED claims
    <3>1. pc'[c] \notin Running \union Sweeping
      BY <1>0, <2>4 DEF Goto, Running, Sweeping
    <3> QED
      BY <1>0, <2>1, <2>2, <2>4, <3>1 DEF Exclusive
  <2> QED
    BY <1>4, <2>3, <2>4 DEF Claim, EndIn
<1>5. ASSUME NEW c \in Calls, Filter(c) \/ Execute(c) \/ Finish(c) \/ Sweep(c), ~ Release(c)
      PROVE  Exclusive'
  <2>1. pc[c] \in Running \union Sweeping /\ UNCHANGED <<cfg, claims>>
    <3>1. CASE Filter(c) \/ Execute(c)
      BY <3>1 DEF Filter, Execute, LogInitiated, LogStarted, Extract, StageAbort, OwnExtracted, WriteExtracted,
        OwnPoints, WritePoints, Own, WriteGraph, Index, LogCompleted, LogErrored, Fail, Running
    <3>2. CASE Finish(c)
      BY <1>5, <3>2 DEF Finish, Teardown, WriteDlt, TeardownFail, Mark, Append, Running
    <3>3. CASE Sweep(c)
      BY <3>3 DEF Sweep, SweepAffected, SweepNodes, SweepEdges, SweepTexts, SweepGraph, SweepVectors, SweepEdgeRows,
        SweepNodeRows, SweepRows, SweepMarkers, SweepFail, Sweeping
    <3> QED
      BY <1>5, <3>1, <3>2, <3>3
  <2>2. \E s \in Running \union Sweeping : Goto(c, s)
    <3>1. CASE Filter(c) \/ Execute(c)
      BY <3>1 DEF Filter, Execute, LogInitiated, LogStarted, Extract, StageAbort, OwnExtracted, WriteExtracted,
        OwnPoints, WritePoints, Own, WriteGraph, Index, LogCompleted, LogErrored, Settle, EndIn, Fail, Running, Sweeping
    <3>2. CASE Finish(c)
      BY <1>5, <3>2 DEF Finish, Teardown, WriteDlt, TeardownFail, Settle, SettleCompleted, EndIn, Mark, Append,
        Running, Sweeping
    <3>3. CASE Sweep(c)
      <4>1. AfterSweep(c) \in Running
        BY <1>0 DEF AfterSweep, Running
      <4> QED
        BY <1>0, <3>3, <4>1, SweepMove
    <3> QED
      BY <1>5, <3>1, <3>2, <3>3
  <2> QED
    BY <2>1, <2>2, ExclusiveMove
<1>6. ASSUME NEW c \in Calls, Release(c)
      PROVE  Exclusive'
  <2>1. pc[c] \in Active /\ pc'[c] \notin Running \union Sweeping
    BY <1>0, <1>6 DEF Release, Goto, Active, Running, Sweeping
  <2>2. \A a \in Actors : a # c => pc'[a] = pc[a]
    BY <1>0, <1>6 DEF Release, Goto
  <2>3. \A p \in Pairs : claims[p] # c => claims'[p] = claims[p]
    BY <1>0, <1>6 DEF Release
  <2>4. \A d \in Calls : pc[d] \in Running \union Sweeping /\ d # c =>
          claims'[PairOf(d)] = d
    <3>1. \A d \in Calls : pc[d] \in Running \union Sweeping => PairOf(d) \in Pairs
      BY <1>0, StepsDisjoint, ConfigFields DEF TypeInv, Configured, Active
    <3> QED
      BY <1>0, <2>3, <3>1 DEF Exclusive
  <2> QED
    BY <1>0, <1>6, <2>1, <2>2, <2>4 DEF Release, Exclusive, PairOf
<1>7. CASE StartupStep
  <2>1. pc[Startup] # "up"
    BY <1>7 DEF StartupStep, ListOrphans, NextOrphan, ResetOrphans, ReleaseAll, Sweep, SweepAffected,
      SweepNodes, SweepEdges, SweepTexts, SweepGraph, SweepVectors, SweepEdgeRows, SweepNodeRows, SweepRows,
      SweepMarkers, SweepFail, Sweeping
  <2>2. \A c \in Calls : pc'[c] = pc[c]
    <3>1. \E s : Goto(Startup, s)
      BY <1>0, <1>7, SweepMove DEF StartupStep, ListOrphans, NextOrphan, ResetOrphans, ReleaseAll
    <3> QED
      BY <1>0, <3>1 DEF Goto
  <2> QED
    BY <1>0, <2>1, <2>2 DEF Exclusive, Active
<1>8. ASSUME NEW c \in Calls, Drop(c)
      PROVE  Exclusive'
  <2>1. pc'[c] \notin Active /\ \A a \in Actors : a # c => pc'[a] = pc[a]
    BY <1>0, <1>8 DEF Drop, Goto, Active, Entering, Running, Sweeping
  <2> QED
    BY <1>0, <1>8, <2>1 DEF Drop, Exclusive, PairOf, Active
<1>9. CASE Crash
  <2>1. \A c \in Calls : pc'[c] \notin Active
    BY <1>0, <1>9 DEF Crash, Active, Entering, Running, Sweeping
  <2> QED
    BY <2>1 DEF Exclusive, Active
<1>10. ASSUME NEW p \in Pairs, Unblock(p)
       PROVE  Exclusive'
  <2>1. \A c \in Calls : pc[c] \in Running \union Sweeping => claims'[PairOf(c)] = claims[PairOf(c)]
    BY <1>0, <1>10, StepsDisjoint DEF Unblock, StuckClaim, Exclusive
  <2> QED
    BY <1>0, <1>10, <2>1 DEF Unblock, Exclusive, PairOf
<1>11. CASE Quiescent
  BY <1>0, <1>11 DEF Quiescent, vars, Exclusive, PairOf
<1> QED
  BY <1>1, <1>2, <1>3, <1>4, <1>5, <1>6, <1>7, <1>8, <1>9, <1>10, <1>11 DEF Next, CallStep

LEMMA ExclusiveSerial == ExclusiveInv => Serial
<1> SUFFICES ASSUME ExclusiveInv, NEW a \in Actors, NEW b \in Actors, Busy(a), Busy(b), a # b
             PROVE  a \in Calls /\ b \in Calls /\ PairOf(a) # PairOf(b)
  BY DEF Serial
<1>1. \A c \in Calls : Busy(c) => pc[c] \in Running \union Sweeping /\ pc[c] \in Active
  BY StepsDisjoint DEF ExclusiveInv, TypeInv, Placed, Busy, Active, Finished, Recovering
<1>2. Busy(Startup) => pc[Startup] # "up"
  BY DEF Busy, Running, Sweeping, Recovering
<1>3. a \in Calls /\ b \in Calls
  BY <1>1, <1>2 DEF Actors, ExclusiveInv, Exclusive
<1> QED
  BY <1>1, <1>3 DEF ExclusiveInv, Exclusive

\* At most one call runs for a dataset and a pipeline, from its claim to its
\* release, and none beside startup recovery: try_claim, its staleness rule,
\* pipeline-unblock and release_all together keep runs of a pair apart.
THEOREM RunsAreSerial == Spec => []Serial
<1>1. Spec => []ExclusiveInv
  BY ExclusiveInit, ExclusiveNext, PTL DEF Spec
<1> QED
  BY <1>1, ExclusiveSerial, PTL
=============================================================================
