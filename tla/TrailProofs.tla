----------------------------- MODULE TrailProofs -----------------------------
(***************************************************************************)
(* The run trail of CognifyRun for every value of its constants: what the  *)
(* rows of pipeline_runs say of a run that failed in its teardown, and     *)
(* what startup recovery leaves of the runs a crash cut short.             *)
(***************************************************************************)
EXTENDS CognifyRunProofs

-----------------------------------------------------------------------------
(* Frames: what a step of one actor leaves alone. *)

\* A step of a call leaves the local state of everybody else alone.
LEMMA CallFrame ==
  ASSUME TypeInv, NEW c \in Calls, (\E k \in Configs : Begin(c, k)) \/ CallStep(c) \/ Drop(c)
  PROVE  /\ \A a \in Actors : a # c => pc'[a] = pc[a] /\ sw'[a] = sw[a]
         /\ \A d \in Calls : d # c =>
              cfg'[d] = cfg[d] /\ plan'[d] = plan[d] /\ ending'[d] = ending[d] /\ runRow'[d] = runRow[d]
         /\ UNCHANGED <<queue, crashes>>
<1> USE DEF local, stores, trail
<1>0. /\ pc \in [Actors -> {"idle", "up"} \union Active \union Recovering \union Finished]
      /\ sw \in [Actors -> SweepType]
      /\ cfg \in [Calls -> Configs \union {None}] /\ plan \in [Calls -> PlanType]
      /\ ending \in [Calls -> Endings] /\ runRow \in [Calls -> Statuses]
  BY DEF TypeInv, TypeOK
<1>1. CASE \E k \in Configs : Begin(c, k)
  BY <1>0, <1>1 DEF Begin, Goto
<1>2. CASE Qualify(c) \/ Claim(c) \/ Filter(c)
  BY <1>0, <1>2 DEF Qualify, Claim, Filter, EndIn, Goto
<1>3. CASE LogInitiated(c) \/ LogStarted(c) \/ LogCompleted(c) \/ LogErrored(c) \/ Append(c)
  BY <1>0, <1>3 DEF LogInitiated, LogStarted, LogCompleted, LogErrored, Append, LogRow, Settle, EndIn, Goto
<1>4. CASE Extract(c) \/ StageAbort(c)
  BY <1>0, <1>4 DEF Extract, StageAbort, Goto
<1>5. CASE OwnExtracted(c) \/ WriteExtracted(c) \/ OwnPoints(c) \/ WritePoints(c) \/ Index(c) \/ Fail(c)
  BY <1>0, <1>5 DEF OwnExtracted, WriteExtracted, OwnPoints, WritePoints, Own, WriteGraph, Index, Fail, Goto
<1>6. CASE Teardown(c) \/ WriteDlt(c) \/ TeardownFail(c)
  BY <1>0, <1>6 DEF Teardown, WriteDlt, TeardownFail, Settle, SettleCompleted, EndIn, Goto
<1>7. CASE Mark(c) \/ Release(c) \/ Drop(c)
  BY <1>0, <1>7 DEF Mark, Release, Drop, Goto
<1>8. CASE Sweep(c)
  BY <1>0, <1>8 DEF Sweep, SweepAffected, SweepNodes, SweepEdges, SweepTexts, SweepGraph, SweepVectors,
     SweepEdgeRows, SweepNodeRows, SweepRows, SweepMarkers, SweepFail, Goto
<1> QED
  BY <1>1, <1>2, <1>3, <1>4, <1>5, <1>6, <1>7, <1>8 DEF CallStep, Execute, Finish

\* A call acts only while startup is up.
LEMMA ActsWhenUp ==
  ASSUME ExclusiveInv, NEW c \in Calls, (\E k \in Configs : Begin(c, k)) \/ CallStep(c) \/ Drop(c)
  PROVE  pc[Startup] = "up" /\ pc'[Startup] = "up"
<1>1. pc[c] \in Active \/ pc[Startup] = "up"
  BY DEF Begin, Drop, CallStep, Execute, Finish, Qualify, Claim, Filter, LogInitiated, LogStarted,
     Extract, StageAbort, OwnExtracted, WriteExtracted, OwnPoints, WritePoints, Own, WriteGraph, Index,
     LogCompleted, LogErrored, Fail, Teardown, WriteDlt, TeardownFail, Mark, Append, Release, Sweep,
     SweepAffected, SweepNodes, SweepEdges, SweepTexts, SweepGraph, SweepVectors, SweepEdgeRows,
     SweepNodeRows, SweepRows, SweepMarkers, SweepFail, Active, Entering, Running, Sweeping
<1>2. pc[Startup] = "up"
  BY <1>1 DEF ExclusiveInv, Exclusive
<1>3. TypeInv /\ Startup \in Actors /\ Startup # c
  BY CallAssumption DEF ExclusiveInv, Actors
<1> QED
  BY <1>2, <1>3, CallFrame

\* A step of startup recovery leaves the calls alone; only reset_orphans writes
\* to the trail.
LEMMA StartupFrame ==
  ASSUME TypeInv, StartupStep
  PROVE  /\ \A c \in Calls : pc'[c] = pc[c] /\ sw'[c] = sw[c]
         /\ UNCHANGED <<cfg, plan, ending, crashes>>
         /\ ResetOrphans \/ UNCHANGED <<runRow, latest>>
         /\ pc[Startup] # "up"
<1> USE DEF local, stores, trail
<1>0. /\ pc \in [Actors -> {"idle", "up"} \union Active \union Recovering \union Finished]
      /\ sw \in [Actors -> SweepType] /\ \A c \in Calls : c \in Actors /\ c # Startup
  BY CallAssumption DEF TypeInv, TypeOK, Actors
<1>1. CASE ListOrphans \/ NextOrphan \/ ResetOrphans \/ ReleaseAll
  BY <1>0, <1>1 DEF ListOrphans, NextOrphan, ResetOrphans, ReleaseAll, Goto
<1>2. CASE Sweep(Startup)
  BY <1>0, <1>2 DEF Sweep, SweepAffected, SweepNodes, SweepEdges, SweepTexts, SweepGraph, SweepVectors,
     SweepEdgeRows, SweepNodeRows, SweepRows, SweepMarkers, SweepFail, Goto, Sweeping
<1> QED
  BY <1>1, <1>2 DEF StartupStep

\* A call that has begun never goes back, and keeps its arguments.
LEMMA Begun ==
  ASSUME TypeInv, [Next]_vars, NEW c \in Calls, pc[c] # "idle"
  PROVE  pc'[c] # "idle" /\ cfg'[c] = cfg[c]
<1> USE DEF local, stores, trail
<1>0. /\ pc \in [Actors -> {"idle", "up"} \union Active \union Recovering \union Finished]
      /\ \A d \in Calls : d \in Actors /\ d # Startup
      /\ "idle" \notin Active \union Finished
  BY CallAssumption, StepsDisjoint DEF TypeInv, TypeOK, Actors
<1>1. CASE UNCHANGED vars \/ Quiescent
  BY <1>1 DEF Quiescent, vars
<1>2. ASSUME NEW d \in Calls, (\E k \in Configs : Begin(d, k)) \/ CallStep(d) \/ Drop(d)
      PROVE  pc'[c] # "idle" /\ cfg'[c] = cfg[c]
  <2>1. CASE d # c
    BY <1>0, <1>2, <2>1, CallFrame
  <2>2. CASE d = c
    <3>1. ~ \E k \in Configs : Begin(c, k)
      BY DEF Begin
    <3>2. CASE Drop(c)
      BY <1>0, <3>2 DEF Drop, Goto
    <3>3. CASE CallStep(c)
      <4>1. cfg' = cfg
        BY <3>3 DEF CallStep, Execute, Finish, Qualify, Claim, Filter, LogInitiated, LogStarted, Extract, StageAbort,
           OwnExtracted, WriteExtracted, OwnPoints, WritePoints, Own, WriteGraph, Index, LogCompleted, LogErrored,
           Fail, Teardown, WriteDlt, TeardownFail, Mark, Append, Release, Sweep, SweepAffected, SweepNodes,
           SweepEdges, SweepTexts, SweepGraph, SweepVectors, SweepEdgeRows, SweepNodeRows, SweepRows,
           SweepMarkers, SweepFail
      <4>2. pc'[c] \in Active \union Finished
        <5>1. CASE Sweep(c)
          <6>1. AfterSweep(c) \in Active
            BY <1>0 DEF AfterSweep, Active, Running
          <6> QED
            BY <1>0, <5>1, <6>1, SweepMove DEF Goto, Active
        <5>2. CASE Finish(c)
          BY <1>0, <5>2 DEF Finish, Teardown, WriteDlt, TeardownFail, Settle, SettleCompleted, EndIn, Mark, Append,
             Release, Goto, Active, Running, Sweeping, Finished
        <5>3. CASE Qualify(c) \/ Claim(c) \/ Filter(c) \/ Execute(c)
          BY <1>0, <5>3 DEF Qualify, Claim, Filter, Execute, LogInitiated, LogStarted, Extract, StageAbort,
             OwnExtracted, WriteExtracted, OwnPoints, WritePoints, Own, WriteGraph, Index, LogCompleted, LogErrored,
             Settle, EndIn, Fail, Goto, Active, Entering, Running, Sweeping, Finished
        <5> QED
          BY <3>3, <5>1, <5>2, <5>3 DEF CallStep
      <4> QED
        BY <1>0, <4>1, <4>2
    <3> QED
      BY <1>2, <2>2, <3>1, <3>2, <3>3
  <2> QED
    BY <2>1, <2>2
<1>3. CASE StartupStep
  BY <1>3, StartupFrame
<1>4. CASE Crash
  BY <1>0, <1>4 DEF Crash
<1>5. CASE \E p \in Pairs : Unblock(p)
  BY <1>5 DEF Unblock
<1> QED
  BY <1>1, <1>2, <1>3, <1>4, <1>5 DEF Next

-----------------------------------------------------------------------------
(* The latest row of a pair is a row of a run of that pair, and agrees with *)
(* the latest row of the run.                                               *)

LinkedAt(p) ==
  \/ latest[p] = NoRow
  \/ /\ latest[p].run \in Calls
     /\ PairOf(latest[p].run) = p
     /\ pc[latest[p].run] # "idle"
     /\ latest[p].status = runRow[latest[p].run]

Linked ==
  /\ \A p \in Pairs : LinkedAt(p)
  /\ \A c \in Calls : pc[c] = "idle" => runRow[c] = "none"

\* A call writes to the trail for its own run, or not at all.
LEMMA CallTrail ==
  ASSUME NEW c \in Calls, (\E k \in Configs : Begin(c, k)) \/ CallStep(c) \/ Drop(c)
  PROVE  \/ UNCHANGED <<runRow, latest>>
         \/ pc[c] # "idle" /\ \E s \in Statuses, o \in BOOLEAN : LogRow(c, s, o)
<1> USE DEF local, stores, trail
<1>1. CASE LogInitiated(c) \/ LogStarted(c) \/ LogCompleted(c) \/ LogErrored(c) \/ Append(c)
  BY <1>1 DEF LogInitiated, LogStarted, LogCompleted, LogErrored, Append, Statuses
<1>2. CASE \/ (\E k \in Configs : Begin(c, k)) \/ Drop(c) \/ Qualify(c) \/ Claim(c) \/ Filter(c) \/ Extract(c)
           \/ StageAbort(c) \/ OwnExtracted(c) \/ WriteExtracted(c) \/ OwnPoints(c) \/ WritePoints(c)
           \/ Index(c) \/ Fail(c) \/ Teardown(c) \/ WriteDlt(c) \/ TeardownFail(c) \/ Mark(c) \/ Release(c)
           \/ Sweep(c)
  BY <1>2 DEF Begin, Drop, Qualify, Claim, Filter, Extract, StageAbort, OwnExtracted, WriteExtracted, OwnPoints,
     WritePoints, Own, WriteGraph, Index, Fail, Teardown, WriteDlt, TeardownFail, Mark, Release, Sweep,
     SweepAffected, SweepNodes, SweepEdges, SweepTexts, SweepGraph, SweepVectors, SweepEdgeRows,
     SweepNodeRows, SweepRows, SweepMarkers, SweepFail
<1> QED
  BY <1>1, <1>2 DEF CallStep, Execute, Finish

\* One more row of run c, whoever writes it.
LEMMA LinkedRow ==
  ASSUME TypeInv, Linked, NEW c \in Calls, pc[c] # "idle",
         NEW s \in Statuses, NEW o \in BOOLEAN,
         runRow' = [runRow EXCEPT ![c] = s],
         latest' = [latest EXCEPT ![PairOf(c)] = RowOf(c, s, o)],
         \A d \in Calls : pc[d] # "idle" => pc'[d] # "idle" /\ cfg'[d] = cfg[d]
  PROVE  Linked'
<1>1. cfg[c] \in Configs /\ PairOf(c) \in Pairs /\ PairOf(c)' = PairOf(c)
  BY ConfigFields DEF TypeInv, Configured, PairOf
<1>2. /\ latest'[PairOf(c)] = RowOf(c, s, o)
      /\ runRow'[c] = s
      /\ \A p \in Pairs : p # PairOf(c) => latest'[p] = latest[p]
      /\ \A d \in Calls : d # c => runRow'[d] = runRow[d]
  BY <1>1 DEF TypeInv, TypeOK
<1>3. ASSUME NEW p \in Pairs, p = PairOf(c)
      PROVE  LinkedAt(p)'
  BY <1>1, <1>2, <1>3 DEF LinkedAt, RowOf
<1>4. ASSUME NEW p \in Pairs, p # PairOf(c)
      PROVE  LinkedAt(p)'
  <2>1. latest'[p] = latest[p] /\ LinkedAt(p)
    BY <1>2, <1>4 DEF Linked
  <2>2. latest[p].run \in Calls /\ PairOf(latest[p].run) = p /\ pc[latest[p].run] # "idle"
        => latest[p].run # c /\ PairOf(latest[p].run)' = p /\ pc'[latest[p].run] # "idle"
    BY <1>4 DEF PairOf
  <2> QED
    BY <1>2, <2>1, <2>2 DEF LinkedAt
<1> QED
  BY <1>2, <1>3, <1>4 DEF Linked

LEMMA LinkedFrame ==
  ASSUME Linked, UNCHANGED <<runRow, latest>>,
         \A d \in Calls : pc[d] # "idle" => pc'[d] # "idle" /\ cfg'[d] = cfg[d]
  PROVE  Linked'
  BY DEF Linked, LinkedAt, PairOf

LinkInv == ExclusiveInv /\ Linked

LEMMA LinkInit == Init => LinkInv
  BY ExclusiveInit DEF Init, LinkInv, Linked, LinkedAt, NoRow

LEMMA LinkNext == LinkInv /\ [Next]_vars => LinkInv'
<1> SUFFICES ASSUME LinkInv, [Next]_vars
             PROVE  Linked'
  BY ExclusiveNext DEF LinkInv
<1> USE DEF local, stores, trail
<1>0. /\ TypeInv /\ Linked
      /\ \A d \in Calls : pc[d] # "idle" => pc'[d] # "idle" /\ cfg'[d] = cfg[d]
  BY Begun DEF LinkInv, ExclusiveInv
<1>1. ASSUME NEW c \in Calls, (\E k \in Configs : Begin(c, k)) \/ CallStep(c) \/ Drop(c)
      PROVE  Linked'
  BY <1>0, <1>1, CallTrail, LinkedRow, LinkedFrame DEF LogRow
<1>2. CASE StartupStep
  <2>1. CASE UNCHANGED <<runRow, latest>>
    BY <1>0, <2>1, LinkedFrame
  <2>2. ASSUME NEW c \in Orphans, ResetOrphans,
               runRow' = [runRow EXCEPT ![c] = "errored"],
               latest' = [latest EXCEPT ![PairOf(c)] = RowOf(c, "errored", FALSE)]
        PROVE  Linked'
    <3>1. c \in Calls /\ pc[c] # "idle" /\ "errored" \in Statuses
      BY <1>0 DEF Orphans, Statuses, Linked
    <3> QED
      BY <1>0, <2>2, <3>1, LinkedRow
  <2> QED
    BY <1>0, <1>2, <2>1, <2>2, StartupFrame DEF ResetOrphans
<1>3. CASE Crash \/ Quiescent \/ UNCHANGED vars
  BY <1>0, <1>3, LinkedFrame DEF Crash, Quiescent, vars
<1>4. ASSUME NEW p \in Pairs, Unblock(p)
      PROVE  Linked'
  <2>1. CASE UNCHANGED <<runRow, latest>>
    BY <1>0, <2>1, LinkedFrame
  <2>2. CASE StuckRow(p)
    <3>1. latest[p].status = "started" /\ latest[p].run \in Calls /\ PairOf(latest[p].run) = p
          /\ pc[latest[p].run] # "idle"
      BY <1>0, <2>2 DEF StuckRow, Linked, LinkedAt, NoRow
    <3> QED
      BY <1>0, <1>4, <2>2, <3>1, LinkedRow DEF Unblock, Statuses
  <2> QED
    BY <1>4, <2>1, <2>2 DEF Unblock
<1> QED
  BY <1>1, <1>2, <1>3, <1>4 DEF Next

-----------------------------------------------------------------------------
(* What the trail says of a call, by the step the call is at, when no write *)
(* to the trail is lost.                                                    *)

NoLostRows == "rows" \notin Faults

Unlogged == {"idle"} \union Entering \union {"filter", "initiate"}
Logged == Sweeping \union {"teardown", "graph3", "mark", "append", "release", "done"}

RecordedAt(c) ==
  /\ pc[c] \in Unlogged => runRow[c] = "none"
  /\ pc[c] \in Logged => c \notin Orphans
  /\ ending[c] = "teardown" =>
       /\ pc[c] \in Sweeping \union {"append", "release"} \union Finished
       /\ pc[c] \in {"release", "done"} => runRow[c] = "errored"

Recorded == \A c \in Calls : RecordedAt(c)
RecordedInv == LinkInv /\ Recorded

LEMMA OwnRow ==
  ASSUME NoLostRows, TypeInv, NEW c \in Calls, NEW s, NEW o, LogRow(c, s, o)
  PROVE  runRow'[c] = s
  BY DEF NoLostRows, LogRow, TypeInv, TypeOK

\* Every step of a call keeps its record true.
LEMMA RecordedCall ==
  ASSUME NoLostRows, RecordedInv, NEW c \in Calls,
         (\E k \in Configs : Begin(c, k)) \/ CallStep(c) \/ Drop(c)
  PROVE  RecordedAt(c)'
<1> USE DEF local, stores, trail
<1>0. /\ TypeInv /\ RecordedAt(c) /\ c \in Actors
      /\ pc \in [Actors -> {"idle", "up"} \union Active \union Recovering \union Finished]
      /\ ending \in [Calls -> Endings]
  BY DEF RecordedInv, Recorded, LinkInv, ExclusiveInv, TypeInv, TypeOK, Actors
<1>1. CASE (\E k \in Configs : Begin(c, k)) \/ Qualify(c) \/ Claim(c) \/ Filter(c)
  <2>1. runRow' = runRow /\ pc[c] \in Unlogged /\ ending[c] # "teardown"
    BY <1>0, <1>1 DEF Begin, Qualify, Claim, Filter, Unlogged, Entering, RecordedAt, Sweeping, Finished
  <2>2. /\ pc'[c] \in Unlogged \union Logged
        /\ ending'[c] # "teardown"
    BY <1>0, <1>1, <2>1 DEF Begin, Qualify, Claim, Filter, EndIn, Goto, Unlogged, Entering, Logged
  <2>3. runRow'[c] = "none" /\ c \notin Orphans'
    BY <1>0, <2>1 DEF RecordedAt, Orphans
  <2> QED
    BY <2>2, <2>3 DEF RecordedAt
<1>2. CASE LogInitiated(c) \/ LogStarted(c) \/ LogCompleted(c)
  <2>1. pc[c] \in {"initiate", "start", "rowOk"} /\ ending' = ending /\ ending[c] # "teardown"
    BY <1>0, <1>2 DEF LogInitiated, LogStarted, LogCompleted, RecordedAt, Sweeping, Finished
  <2>2. /\ pc'[c] \in {"start", "extract", "teardown"}
        /\ pc'[c] = "teardown" => runRow'[c] = "completed"
    BY <1>0, <1>2, OwnRow DEF LogInitiated, LogStarted, LogCompleted, Goto
  <2> QED
    BY <2>1, <2>2 DEF RecordedAt, Unlogged, Entering, Logged, Sweeping, Orphans
<1>3. CASE LogErrored(c) \/ Append(c)
  <2>1. /\ ending'[c] = "teardown" => pc[c] = "append" /\ ending[c] = "teardown"
        /\ pc'[c] \in {"release", "swAffected"}
        /\ pc[c] = "append" => pc'[c] = "release"
    BY <1>0, <1>3 DEF LogErrored, Append, Settle, EndIn, Goto
  <2>2. /\ runRow'[c] \in {"errored", "completed"}
        /\ ending'[c] = "teardown" => runRow'[c] = "errored"
    BY <1>0, <1>3, <2>1, OwnRow DEF LogErrored, Append
  <2> QED
    BY <2>1, <2>2 DEF RecordedAt, Unlogged, Entering, Sweeping, Orphans
<1>4. CASE \/ Extract(c) \/ StageAbort(c) \/ OwnExtracted(c) \/ WriteExtracted(c) \/ OwnPoints(c)
           \/ WritePoints(c) \/ Index(c) \/ Fail(c)
  <2>1. UNCHANGED <<ending, runRow>>
        /\ pc'[c] \in {"own1", "own2", "graph1", "graph2", "index", "rowOk", "rowErr"}
    BY <1>0, <1>4 DEF Extract, StageAbort, OwnExtracted, WriteExtracted, OwnPoints, WritePoints, Own, WriteGraph,
       Index, Fail, Goto
  <2>2. ending[c] # "teardown"
    BY <1>0, <1>4 DEF Extract, StageAbort, OwnExtracted, WriteExtracted, OwnPoints, WritePoints, Own, WriteGraph,
       Index, Fail, RecordedAt, Sweeping, Finished
  <2> QED
    BY <2>1, <2>2 DEF RecordedAt, Unlogged, Entering, Logged, Sweeping
<1>5. CASE Teardown(c) \/ WriteDlt(c) \/ TeardownFail(c) \/ Mark(c)
  <2>1. runRow' = runRow /\ pc[c] \in {"teardown", "graph3", "mark"} /\ ending[c] # "teardown"
    BY <1>0, <1>5 DEF Teardown, WriteDlt, TeardownFail, Mark, RecordedAt, Sweeping, Finished
  <2>2. pc'[c] \in {"graph3", "swAffected", "mark", "append", "release"}
        /\ (ending'[c] = "teardown" => pc'[c] \in {"append", "swAffected"})
    BY <1>0, <1>5, <2>1 DEF Teardown, WriteDlt, TeardownFail, Mark, Settle, SettleCompleted, EndIn, Goto
  <2>3. c \notin Orphans'
    BY <1>0, <2>1 DEF RecordedAt, Logged, Orphans
  <2> QED
    BY <2>2, <2>3 DEF RecordedAt, Unlogged, Entering, Sweeping
<1>6. CASE Release(c) \/ Drop(c)
  <2>1. UNCHANGED <<runRow, ending>> /\ pc'[c] \in Finished /\ (pc'[c] = "done" => pc[c] = "release")
    BY <1>0, <1>6 DEF Release, Drop, Goto, Finished
  <2> QED
    BY <1>0, <2>1 DEF RecordedAt, Unlogged, Entering, Logged, Sweeping, Orphans, Finished
<1>7. CASE Sweep(c)
  <2>1. UNCHANGED <<runRow, ending>> /\ pc[c] \in Sweeping
    BY <1>7 DEF Sweep, SweepAffected, SweepNodes, SweepEdges, SweepTexts, SweepGraph, SweepVectors,
       SweepEdgeRows, SweepNodeRows, SweepRows, SweepMarkers, SweepFail, Sweeping
  <2>2. /\ pc'[c] \in Sweeping \union {"mark", "append", "release"}
        /\ ending[c] = "teardown" => pc'[c] \in Sweeping \union {"append"}
    BY <1>0, <1>7, SweepMove, CallAssumption DEF AfterSweep, Goto
  <2>3. c \notin Orphans'
    BY <1>0, <2>1 DEF RecordedAt, Logged, Orphans
  <2> QED
    BY <2>1, <2>2, <2>3 DEF RecordedAt, Unlogged, Entering, Sweeping
<1> QED
  BY <1>1, <1>2, <1>3, <1>4, <1>5, <1>6, <1>7 DEF CallStep, Execute, Finish

LEMMA RecordedNext == ASSUME NoLostRows PROVE RecordedInv /\ [Next]_vars => RecordedInv'
<1> SUFFICES ASSUME RecordedInv, [Next]_vars
             PROVE  Recorded'
  BY LinkNext DEF RecordedInv
<1> USE DEF local, stores, trail
<1>0. /\ TypeInv /\ Linked /\ Recorded
      /\ pc \in [Actors -> {"idle", "up"} \union Active \union Recovering \union Finished]
      /\ Calls \subseteq Actors /\ Startup \notin Calls
      /\ runRow \in [Calls -> Statuses]
  BY CallAssumption DEF RecordedInv, LinkInv, ExclusiveInv, TypeInv, TypeOK, Actors
<1>1. ASSUME NEW c \in Calls, (\E k \in Configs : Begin(c, k)) \/ CallStep(c) \/ Drop(c)
      PROVE  Recorded'
  <2>1. RecordedAt(c)'
    BY <1>1, RecordedCall
  <2>2. \A d \in Calls : d # c => RecordedAt(d)'
    BY <1>0, <1>1, CallFrame DEF Recorded, RecordedAt, Orphans
  <2> QED
    BY <2>1, <2>2 DEF Recorded
\* An orphan retired by startup or by pipeline-unblock.
<1>2. ASSUME NEW c \in Orphans, runRow' = [runRow EXCEPT ![c] = "errored"], UNCHANGED ending,
             \A d \in Calls : pc'[d] = pc[d]
      PROVE  Recorded'
  <2>1. c \in Calls /\ runRow[c] # "none" /\ runRow'[c] = "errored"
    BY <1>0, <1>2 DEF Orphans
  <2>2. \A d \in Calls : d # c => runRow'[d] = runRow[d]
    BY <1>0, <1>2
  <2> QED
    BY <1>0, <1>2, <2>1, <2>2 DEF Recorded, RecordedAt, Orphans
<1>3. CASE StartupStep
  <2>1. CASE UNCHANGED runRow
    BY <1>0, <1>3, <2>1, StartupFrame DEF Recorded, RecordedAt, Orphans
  <2> QED
    BY <1>0, <1>2, <1>3, <2>1, StartupFrame DEF ResetOrphans
<1>4. CASE Crash
  <2>1. \A c \in Calls : pc'[c] = pc[c] \/ pc'[c] = "dead"
    BY <1>0, <1>4 DEF Crash
  <2> QED
    BY <1>0, <1>4, <2>1 DEF Crash, Recorded, RecordedAt, Orphans, Unlogged, Entering, Logged, Sweeping, Finished
<1>5. ASSUME NEW p \in Pairs, Unblock(p)
      PROVE  Recorded'
  <2>1. CASE StuckRow(p)
    <3>1. latest[p].run \in Orphans
      BY <1>0, <2>1 DEF StuckRow, Linked, LinkedAt, NoRow, Orphans
    <3> QED
      BY <1>2, <1>5, <2>1, <3>1 DEF Unblock
  <2>2. CASE ~ StuckRow(p)
    BY <1>0, <1>5, <2>2 DEF Unblock, Recorded, RecordedAt, Orphans
  <2> QED
    BY <2>1, <2>2
<1>6. CASE Quiescent \/ UNCHANGED vars
  BY <1>0, <1>6 DEF Quiescent, vars, Recorded, RecordedAt, Orphans
<1> QED
  BY <1>1, <1>3, <1>4, <1>5, <1>6 DEF Next

LEMMA RecordedInit == Init => RecordedInv
  BY LinkInit, CallAssumption DEF Init, RecordedInv, Recorded, RecordedAt, Orphans, Actors, Logged, Sweeping

\* A call that returns after its teardown failed has its run on record as
\* ERRORED, and no pair's latest row takes it for a completed run, as long as no
\* insert into pipeline_runs is lost: whatever sweeps, crashes, startup and
\* pipeline-unblock do.
THEOREM TeardownFailuresRecorded == ASSUME NoLostRows PROVE Spec => []FailedTeardownRecorded
<1>1. Spec => []RecordedInv
  BY RecordedInit, RecordedNext, PTL DEF Spec
<1>2. RecordedInv => FailedTeardownRecorded
  <2> SUFFICES ASSUME RecordedInv, NEW c \in Calls, pc[c] = "done", ending[c] = "teardown"
               PROVE  runRow[c] = "errored" /\ \A p \in Pairs : latest[p] # RowOf(c, "completed", FALSE)
    BY DEF FailedTeardownRecorded
  <2>1. runRow[c] = "errored"
    BY DEF RecordedInv, Recorded, RecordedAt
  <2>2. ASSUME NEW p \in Pairs, latest[p] = RowOf(c, "completed", FALSE)
        PROVE  FALSE
    <3>1. latest[p].run = c /\ latest[p].status = "completed" /\ c # None
      BY <2>2, CallAssumption DEF RowOf
    <3> QED
      BY <2>1, <3>1 DEF RecordedInv, LinkInv, Linked, LinkedAt, NoRow
  <2> QED
    BY <2>1, <2>2
<1> QED
  BY <1>1, <1>2, PTL

-----------------------------------------------------------------------------
(* Startup recovery. *)

\* reset_orphans ends when no run is in flight, nothing begins one before the
\* recovery is over, and only a process that owns its stores recovers at all.
ResetDone ==
  /\ pc[Startup] = "releaseAll" => Orphans = {}
  /\ ~ SingleProcess => pc[Startup] = "up"
RecoveryInv == LinkInv /\ ResetDone

LEMMA RecoveryNext == ASSUME NoLostRows PROVE RecoveryInv /\ [Next]_vars => RecoveryInv'
<1> SUFFICES ASSUME RecoveryInv, [Next]_vars
             PROVE  ResetDone'
  BY LinkNext DEF RecoveryInv
<1> USE DEF local, stores, trail
<1>0. /\ TypeInv /\ Exclusive /\ ResetDone
      /\ pc \in [Actors -> {"idle", "up"} \union Active \union Recovering \union Finished]
      /\ Startup \in Actors /\ Startup \notin Calls
  BY CallAssumption DEF RecoveryInv, LinkInv, ExclusiveInv, TypeInv, TypeOK, Actors
<1>1. ASSUME NEW c \in Calls, (\E k \in Configs : Begin(c, k)) \/ CallStep(c) \/ Drop(c)
      PROVE  ResetDone'
  <2>1. pc[Startup] = "up" /\ pc'[Startup] = "up"
    BY <1>1, ActsWhenUp DEF RecoveryInv, LinkInv
  <2> QED
    BY <2>1 DEF ResetDone
<1>2. CASE StartupStep
  <2>0. SingleProcess
    BY <1>0, <1>2, StartupFrame DEF ResetDone
  <2>1. CASE ResetOrphans
    BY <1>0, <2>0, <2>1 DEF ResetOrphans, ResetDone, Goto, NoLostRows, Orphans
  <2>2. CASE ListOrphans \/ NextOrphan \/ ReleaseAll
    BY <1>0, <2>0, <2>2 DEF ListOrphans, NextOrphan, ReleaseAll, ResetDone, Goto
  <2>3. CASE Sweep(Startup)
    BY <1>0, <2>0, <2>3, SweepMove DEF AfterSweep, ResetDone, Goto, Sweeping
  <2> QED
    BY <1>2, <2>1, <2>2, <2>3 DEF StartupStep
<1>3. CASE Crash
  BY <1>0, <1>3 DEF Crash, ResetDone
<1>4. CASE (\E p \in Pairs : Unblock(p)) \/ Quiescent \/ UNCHANGED vars
  BY <1>0, <1>4 DEF Unblock, Quiescent, vars, ResetDone, Orphans
<1> QED
  BY <1>1, <1>2, <1>3, <1>4 DEF Next

LEMMA RecoveryInit == Init => RecoveryInv
  BY LinkInit DEF Init, RecoveryInv, ResetDone, Actors

\* When startup recovery is over every dataset is runnable: no claim is held and
\* the latest row of no pair is STARTED, whatever the crash interrupted, as long
\* as the recovery's own writes to pipeline_runs and to the claims succeed.
THEOREM RecoveryLeavesRunnable ==
  ASSUME NoLostRows, "claims" \notin Faults
  PROVE  Spec => RecoveryUnblocks
<1>1. Spec => []RecoveryInv
  BY RecoveryInit, RecoveryNext, PTL DEF Spec
<1>2. RecoveryInv /\ [Next]_vars =>
        [pc[Startup] = "releaseAll" /\ pc'[Startup] = "up" =>
           \A p \in Pairs : latest'[p].status # "started" /\ claims'[p] = None]_vars
  <2> SUFFICES ASSUME RecoveryInv, [Next]_vars, pc[Startup] = "releaseAll", pc'[Startup] = "up",
                      NEW p \in Pairs
               PROVE  latest'[p].status # "started" /\ claims'[p] = None
    OBVIOUS
  <2> USE DEF local, stores, trail
  <2>0. /\ TypeInv /\ Linked /\ Orphans = {} /\ SingleProcess /\ pc'[Startup] # pc[Startup]
        /\ Startup \in Actors /\ Startup \notin Calls
        /\ pc \in [Actors -> {"idle", "up"} \union Active \union Recovering \union Finished]
    BY CallAssumption DEF RecoveryInv, ResetDone, LinkInv, ExclusiveInv, TypeInv, TypeOK, Actors
  <2>1. ReleaseAll
    <3>1. ~ \E c \in Calls : (\E k \in Configs : Begin(c, k)) \/ CallStep(c) \/ Drop(c)
      BY <2>0, CallFrame
    <3>2. ~ (ListOrphans \/ NextOrphan \/ ResetOrphans \/ Sweep(Startup))
      BY <2>0 DEF ListOrphans, NextOrphan, ResetOrphans, Sweep, SweepAffected, SweepNodes, SweepEdges, SweepTexts,
         SweepGraph, SweepVectors, SweepEdgeRows, SweepNodeRows, SweepRows, SweepMarkers, SweepFail, Sweeping
    <3>3. ~ Crash
      BY <2>0 DEF Crash
    <3> QED
      BY <2>0, <3>1, <3>2, <3>3 DEF Next, StartupStep, Unblock, Quiescent, vars
  <2>2. latest' = latest /\ claims'[p] = None
    BY <2>1 DEF ReleaseAll
  <2>3. latest[p].status # "started"
    BY <2>0 DEF Linked, LinkedAt, NoRow, Orphans
  <2> QED
    BY <2>2, <2>3
<1> QED
  BY <1>1, <1>2, PTL DEF Spec, RecoveryUnblocks

-----------------------------------------------------------------------------
(* Who may still be swept by startup: the runs on record as in flight.  When *)
(* no call is dropped either, those are the runs that are still active,      *)
(* except while startup recovers.                                            *)

NoDrops == "drop" \notin Faults

QueueOrphans ==
  /\ queue # {} => pc[Startup] \in {"next"} \union Sweeping
  /\ queue \subseteq Orphans
  /\ pc[Startup] \in Sweeping => sw[Startup].run \in Orphans

UpClean ==
  SingleProcess /\ pc[Startup] = "up" => \A c \in Calls : pc[c] \in Finished => c \notin Orphans

OrphanInv == RecordedInv /\ ResetDone /\ QueueOrphans /\ UpClean

LEMMA OrphanInit == Init => OrphanInv
  BY RecordedInit, RecoveryInit, CallAssumption
  DEF Init, OrphanInv, RecoveryInv, QueueOrphans, UpClean, Orphans, Actors, Sweeping

\* A sweep keeps the run it is for, until it is over.
LEMMA SweepRun ==
  ASSUME TypeInv, NEW a \in Actors, Sweep(a)
  PROVE  sw'[a].run = sw[a].run
<1>1. sw[a] \in SweepType /\ sw \in [Actors -> SweepType]
  BY DEF TypeInv, TypeOK
<1>2. \/ sw'[a] = sw[a]
      \/ \E X : sw'[a] = [sw[a] EXCEPT !.affected = X]
      \/ \E X : sw'[a] = [sw[a] EXCEPT !.nodes = X]
      \/ \E X : sw'[a] = [sw[a] EXCEPT !.edges = X]
      \/ \E X : sw'[a] = [sw[a] EXCEPT !.texts = X]
      \/ \E f \in BOOLEAN : sw'[a] = SweepOver(sw[a], f)
  BY <1>1 DEF Sweep, SweepAffected, SweepNodes, SweepEdges, SweepTexts, SweepGraph, SweepVectors, SweepEdgeRows,
     SweepNodeRows, SweepRows, SweepMarkers, SweepFail
<1> QED
  BY <1>1, <1>2 DEF SweepType, SweepOver, NoSweep

LEMMA OrphanNext == ASSUME NoLostRows, NoDrops PROVE OrphanInv /\ [Next]_vars => OrphanInv'
<1> SUFFICES ASSUME OrphanInv, [Next]_vars
             PROVE  QueueOrphans' /\ UpClean'
  BY RecordedNext, RecoveryNext DEF OrphanInv, RecordedInv, RecoveryInv
<1> USE DEF local, stores, trail
<1>0. /\ ExclusiveInv /\ TypeInv /\ RecordedInv' /\ RecordedInv /\ ResetDone /\ QueueOrphans /\ UpClean
      /\ pc \in [Actors -> {"idle", "up"} \union Active \union Recovering \union Finished]
      /\ sw \in [Actors -> SweepType] /\ runRow \in [Calls -> Statuses]
      /\ Calls \subseteq Actors /\ Startup \in Actors /\ Startup \notin Calls
  BY RecordedNext, CallAssumption DEF OrphanInv, RecordedInv, LinkInv, ExclusiveInv, TypeInv, TypeOK, Actors
<1>1. ASSUME NEW c \in Calls, (\E k \in Configs : Begin(c, k)) \/ CallStep(c) \/ Drop(c)
      PROVE  QueueOrphans' /\ UpClean'
  <2>1. pc[Startup] = "up" /\ pc'[Startup] = "up"
    BY <1>0, <1>1, ActsWhenUp
  <2>2. queue' = {}
    BY <1>0, <1>1, <2>1, CallFrame DEF QueueOrphans, Sweeping
  <2>3. \A d \in Calls : d # c => pc'[d] = pc[d] /\ runRow'[d] = runRow[d]
    BY <1>0, <1>1, CallFrame
  <2>4. pc'[c] \in Finished => c \notin Orphans'
    <3>1. pc'[c] # "dead"
      <4>1. CASE Sweep(c)
        BY <1>0, <4>1, SweepMove DEF AfterSweep, Goto, Sweeping
      <4>2. CASE Finish(c) \/ Execute(c)
        BY <1>0, <4>2 DEF Finish, Execute, LogInitiated, LogStarted, Extract, StageAbort, OwnExtracted,
           WriteExtracted, OwnPoints, WritePoints, Own, WriteGraph, Index, LogCompleted, LogErrored, Fail,
           Teardown, WriteDlt, TeardownFail, Settle, SettleCompleted, EndIn, Mark, Append, Release, Goto
      <4>3. CASE (\E k \in Configs : Begin(c, k)) \/ Qualify(c) \/ Claim(c) \/ Filter(c)
        BY <1>0, <4>3 DEF Begin, Qualify, Claim, Filter, EndIn, Goto
      <4>4. ~ Drop(c)
        BY DEF Drop, NoDrops
      <4> QED
        BY <1>1, <4>1, <4>2, <4>3, <4>4 DEF CallStep
    <3>2. pc'[c] = "done" => c \notin Orphans'
      BY <1>0 DEF RecordedInv, Recorded, RecordedAt, Logged
    <3> QED
      BY <3>1, <3>2 DEF Finished
  <2> QED
    BY <1>0, <2>1, <2>2, <2>3, <2>4 DEF QueueOrphans, UpClean, Orphans, Sweeping
<1>2. CASE ListOrphans
  BY <1>0, <1>2 DEF ListOrphans, Goto, QueueOrphans, UpClean, Orphans, Sweeping
<1>3. CASE NextOrphan
  <2>1. ASSUME NEW c \in queue, sw' = [sw EXCEPT ![Startup] = SweepOf(c, Owners)]
        PROVE  sw'[Startup].run = c
    BY <1>0, <2>1 DEF SweepOf, NoSweep
  <2> QED
    BY <1>0, <1>3, <2>1 DEF NextOrphan, Goto, QueueOrphans, UpClean, Orphans, Sweeping
<1>4. CASE ResetOrphans
  <2>1. pc'[Startup] \in {"reset", "releaseAll"} /\ queue' = {}
    BY <1>0, <1>4 DEF ResetOrphans, Goto, QueueOrphans, Sweeping
  <2> QED
    BY <2>1 DEF QueueOrphans, UpClean, Sweeping
<1>5. CASE ReleaseAll
  BY <1>0, <1>5 DEF ReleaseAll, Goto, QueueOrphans, UpClean, ResetDone, Orphans, Sweeping
<1>6. CASE Sweep(Startup)
  <2>1. /\ pc[Startup] \in Sweeping
        /\ UNCHANGED <<runRow, queue>>
    BY <1>6 DEF Sweep, SweepAffected, SweepNodes, SweepEdges, SweepTexts, SweepGraph, SweepVectors,
       SweepEdgeRows, SweepNodeRows, SweepRows, SweepMarkers, SweepFail, Sweeping
  <2>2. pc'[Startup] \in {"next"} \union Sweeping
    BY <1>0, <1>6, SweepMove DEF AfterSweep, Goto
  <2>3. sw'[Startup].run = sw[Startup].run
    BY <1>0, <1>6, SweepRun
  <2> QED
    BY <1>0, <2>1, <2>2, <2>3 DEF QueueOrphans, UpClean, Orphans, Sweeping
<1>7. CASE Crash
  <2>1. queue' = {} /\ pc'[Startup] = IF SingleProcess THEN "list" ELSE "up"
    BY <1>0, <1>7 DEF Crash
  <2> QED
    BY <2>1 DEF QueueOrphans, UpClean, Sweeping
<1>8. ASSUME NEW p \in Pairs, Unblock(p)
      PROVE  QueueOrphans' /\ UpClean'
  <2>1. pc' = pc /\ pc[Startup] = "up" /\ queue' = {}
    BY <1>0, <1>8 DEF Unblock, QueueOrphans, Sweeping
  <2>2. Orphans' \subseteq Orphans
    BY <1>0, <1>8 DEF Unblock, Orphans
  <2> QED
    BY <1>0, <2>1, <2>2 DEF QueueOrphans, UpClean, Sweeping
<1>9. CASE Quiescent \/ UNCHANGED vars
  BY <1>0, <1>9 DEF Quiescent, vars, QueueOrphans, UpClean, Orphans
<1> QED
  BY <1>1, <1>2, <1>3, <1>4, <1>5, <1>6, <1>7, <1>8, <1>9 DEF Next, StartupStep
=============================================================================
