----------------------------- MODULE SweepProofs -----------------------------
(***************************************************************************)
(* What a sweep takes and what it leaves, for every value of CognifyRun's  *)
(* constants: a failed run owns nothing once it is rolled back, a sweep    *)
(* spares what a row outside its scope claims, and a marked item keeps     *)
(* everything that incremental loading will not write again.               *)
(***************************************************************************)
EXTENDS OwnershipProofs, TrailProofs

-----------------------------------------------------------------------------
(* The rows of a run. *)

NotRunning == {"idle"} \union Entering

\* A call under way goes on, or ends.
LEMMA Onward ==
  ASSUME TypeInv, NEW c \in Calls, CallStep(c) \/ Drop(c)
  PROVE  /\ pc[c] \in Active
         /\ pc[c] \notin Entering => pc'[c] \in Running \union Sweeping \union Finished
<1> USE DEF local, stores, trail
<1>0. /\ pc \in [Actors -> {"idle", "up"} \union Active \union Recovering \union Finished]
      /\ c \in Actors /\ c # Startup
  BY CallAssumption DEF TypeInv, TypeOK, Actors
<1>1. CASE Qualify(c) \/ Claim(c)
  BY <1>1 DEF Qualify, Claim, Active, Entering
<1>2. CASE Filter(c) \/ Execute(c)
  BY <1>0, <1>2 DEF Filter, Execute, LogInitiated, LogStarted, Extract, StageAbort, OwnExtracted, WriteExtracted,
     OwnPoints, WritePoints, Own, WriteGraph, Index, LogCompleted, LogErrored, Settle, EndIn, Fail, Goto,
     Active, Running, Sweeping
<1>3. CASE Finish(c)
  BY <1>0, <1>3 DEF Finish, Teardown, WriteDlt, TeardownFail, Settle, SettleCompleted, EndIn, Mark, Append,
     Release, Goto, Active, Running, Sweeping, Finished
<1>4. CASE Sweep(c)
  <2>1. pc[c] \in Sweeping
    BY <1>4 DEF Sweep, SweepAffected, SweepNodes, SweepEdges, SweepTexts, SweepGraph, SweepVectors,
       SweepEdgeRows, SweepNodeRows, SweepRows, SweepMarkers, SweepFail, Sweeping
  <2>2. AfterSweep(c) \in Running
    BY <1>0 DEF AfterSweep, Running
  <2> QED
    BY <1>0, <1>4, <2>1, <2>2, SweepMove DEF Goto, Active
<1>5. CASE Drop(c)
  BY <1>0, <1>5 DEF Drop, Goto, Finished
<1> QED
  BY <1>1, <1>2, <1>3, <1>4, <1>5 DEF CallStep

\* A call adds rows of its own run only, when it is about to write what they
\* own; nothing else makes the ledger grow.
Owns(c) ==
  /\ pc[c] \in {"own1", "own2", "teardown"} /\ pc'[c] \in {"graph1", "graph2", "graph3"}
  /\ \E E \in SUBSET Entries : ledger' = Upsert(ledger, cfg[c].dataset, E, c)
  /\ UNCHANGED <<sw, ending, cfg, plan>>

LEMMA CallLedger ==
  ASSUME TypeInv, NEW c \in Calls, (\E k \in Configs : Begin(c, k)) \/ CallStep(c) \/ Drop(c)
  PROVE  ledger' \subseteq ledger \/ Owns(c)
<1> USE DEF local, stores, trail
<1>0. /\ pc \in [Actors -> {"idle", "up"} \union Active \union Recovering \union Finished] /\ c \in Actors
      /\ plan[c].ex \subseteq Entries /\ plan[c].pts \subseteq Entries /\ plan[c].dlt \subseteq Entries
  BY DEF TypeInv, TypeOK, Actors, PlanType
<1>1. CASE OwnExtracted(c) \/ OwnPoints(c)
  BY <1>0, <1>1 DEF OwnExtracted, OwnPoints, Own, Goto, Owns
<1>2. CASE Teardown(c)
  BY <1>0, <1>2 DEF Teardown, Goto, Owns
<1>3. CASE Sweep(c)
  BY <1>3 DEF Sweep, SweepAffected, SweepNodes, SweepEdges, SweepTexts, SweepGraph, SweepVectors, SweepEdgeRows,
     SweepNodeRows, SweepRows, SweepMarkers, SweepFail
<1>4. CASE \/ (\E k \in Configs : Begin(c, k)) \/ Drop(c) \/ Qualify(c) \/ Claim(c) \/ Filter(c) \/ Extract(c)
           \/ StageAbort(c) \/ WriteExtracted(c) \/ WritePoints(c) \/ Index(c) \/ Fail(c)
           \/ LogInitiated(c) \/ LogStarted(c) \/ LogCompleted(c) \/ LogErrored(c)
           \/ WriteDlt(c) \/ TeardownFail(c) \/ Mark(c) \/ Append(c) \/ Release(c)
  BY <1>4 DEF Begin, Drop, Qualify, Claim, Filter, Extract, StageAbort, WriteExtracted, WritePoints, WriteGraph,
     Index, Fail, LogInitiated, LogStarted, LogCompleted, LogErrored, WriteDlt, TeardownFail, Mark, Append, Release
<1> QED
  BY <1>1, <1>2, <1>3, <1>4 DEF CallStep, Execute, Finish

LEMMA OtherLedger ==
  ASSUME StartupStep \/ Crash \/ (\E p \in Pairs : Unblock(p)) \/ Quiescent \/ UNCHANGED vars
  PROVE  ledger' \subseteq ledger
  BY DEF StartupStep, ListOrphans, NextOrphan, ResetOrphans, ReleaseAll, Sweep, SweepAffected, SweepNodes,
     SweepEdges, SweepTexts, SweepGraph, SweepVectors, SweepEdgeRows, SweepNodeRows, SweepRows, SweepMarkers,
     SweepFail, Crash, Unblock, Quiescent, vars, stores

LEMMA UpsertRun ==
  ASSUME NEW rows, NEW d, NEW E, NEW r, NEW q \in Upsert(rows, d, E, r)
  PROVE  q \in rows \/ (q.run = r /\ q.dataset = d)
  BY DEF Upsert

\* Rows of a run are rows of its dataset, and only a run that has claimed its
\* pair has any.
RowsAt(c) == \A q \in ledger : q.run = c => q.dataset = cfg[c].dataset /\ pc[c] \notin NotRunning

RowsInv == TypeInv /\ \A c \in Calls : RowsAt(c)

LEMMA RowsInit == Init => RowsInv
  BY TypeInit DEF Init, RowsInv, RowsAt

\* A step that is not c's own leaves c its rows, or takes some away.
LEMMA OthersRows ==
  ASSUME TypeInv, [Next]_vars, NEW c \in Calls,
         ~ ((\E k \in Configs : Begin(c, k)) \/ CallStep(c) \/ Drop(c))
  PROVE  \A q \in ledger' : q.run = c => q \in ledger
  BY CallLedger, OtherLedger, UpsertRun DEF Next, Owns

LEMMA RowsNext == RowsInv /\ [Next]_vars => RowsInv'
<1> SUFFICES ASSUME RowsInv, [Next]_vars, NEW c \in Calls, NEW q \in ledger', q.run = c
             PROVE  q.dataset = cfg'[c].dataset /\ pc'[c] \notin NotRunning
  BY TypeNext DEF RowsInv, RowsAt
<1>0. TypeInv /\ RowsAt(c) /\ (pc[c] # "idle" => cfg'[c] = cfg[c])
  BY Begun DEF RowsInv
<1>1. (Running \union Sweeping \union Finished) \cap NotRunning = {} /\ "idle" \in NotRunning
  BY DEF Running, Sweeping, Finished, NotRunning, Entering
<1>2. CASE CallStep(c) \/ Drop(c)
  <2>1. pc[c] \notin NotRunning /\ q.dataset = cfg[c].dataset
    <3>1. CASE q \in ledger
      BY <1>0, <3>1 DEF RowsAt
    <3>2. CASE q \notin ledger
      BY <1>0, <1>2, <3>2, CallLedger, UpsertRun DEF Owns, NotRunning, Entering
    <3> QED
      BY <3>1, <3>2
  <2> QED
    BY <1>0, <1>1, <1>2, <2>1, Onward DEF NotRunning
<1>3. CASE \E k \in Configs : Begin(c, k)
  <2>1. q \in ledger /\ pc[c] = "idle"
    BY <1>3 DEF Begin, stores
  <2> QED
    BY <1>0, <1>1, <2>1 DEF RowsAt
<1>4. CASE ~ ((\E k \in Configs : Begin(c, k)) \/ CallStep(c) \/ Drop(c))
  <2>1. q \in ledger
    BY <1>0, <1>4, OthersRows
  <2>2. pc[c] \notin NotRunning /\ q.dataset = cfg[c].dataset
    BY <1>0, <2>1 DEF RowsAt
  <2>3. pc'[c] = pc[c] \/ pc'[c] = "dead"
    <3>1. c \in Actors /\ c # Startup /\ pc \in [Actors -> {"idle", "up"} \union Active \union Recovering \union Finished]
      BY <1>0, CallAssumption DEF TypeInv, TypeOK, Actors
    <3>2. ASSUME NEW d \in Calls, (\E k \in Configs : Begin(d, k)) \/ CallStep(d) \/ Drop(d)
          PROVE  pc'[c] = pc[c]
      BY <1>0, <1>4, <3>1, <3>2, CallFrame
    <3> QED
      BY <1>0, <3>1, <3>2, StartupFrame DEF Next, Crash, Unblock, Quiescent, vars
  <2> QED
    BY <1>0, <1>1, <2>2, <2>3 DEF NotRunning, Entering
<1> QED
  BY <1>2, <1>3, <1>4

-----------------------------------------------------------------------------
(* The rollback of a run. *)

\* decide_sweep: what the sweep of a run covers.
Scope(c) == IF ending[c] = "completed" THEN Outstanding(c) ELSE Owners

\* What RolledBack says of one call.
Cleared(c) ==
  /\ ending[c] \in {"errored", "teardown"} /\ cfg[c].scope # "Nothing"
       => \A q \in ledger : q.run # c
  /\ ending[c] = "completed" /\ cfg[c].scope = "FailedItems"
       => \A q \in ledger : q.run = c => q.item \notin Outstanding(c)

Settled == {"mark", "append", "release", "done"}

\* The sweep of a call is for its own run and scope, deletes edge rows, then
\* node rows, and is over when its selection is empty, or reports its failure.
SweptAt(c) ==
  /\ pc[c] \in Sweeping =>
       /\ sw[c].run = c /\ sw[c].dataset = cfg[c].dataset /\ sw[c].items = Scope(c)
       /\ ending[c] \in {"completed", "errored", "teardown"}
  /\ pc[c] = "swNodeRows" => \A q \in Selection(sw[c]) : q.slug \notin Edges
  /\ pc[c] = "swMarkers" => Selection(sw[c]) = {}
  /\ pc[c] \in Settled /\ ~ sw[c].failed => Cleared(c)

SweptInv == RowsInv /\ \A c \in Calls : SweptAt(c)

LEMMA SweptInit == Init => SweptInv
<1> SUFFICES ASSUME Init, NEW c \in Calls
             PROVE  SweptAt(c)
  BY RowsInit DEF SweptInv
<1>1. pc[c] = "idle"
  BY CallAssumption DEF Init, Actors
<1> QED
  BY <1>1 DEF SweptAt, Sweeping, Settled

\* Steps that are not the call's own.
LEMMA SweptOthers ==
  ASSUME SweptInv, [Next]_vars, NEW c \in Calls,
         ~ ((\E k \in Configs : Begin(c, k)) \/ CallStep(c) \/ Drop(c))
  PROVE  SweptAt(c)'
<1> USE DEF local, stores, trail
<1>0. TypeInv /\ SweptAt(c) /\ c \in Actors /\ c # Startup
      /\ pc \in [Actors -> {"idle", "up"} \union Active \union Recovering \union Finished]
  BY CallAssumption DEF SweptInv, RowsInv, TypeInv, TypeOK, Actors
<1>1. \A q \in ledger' : q.run = c => q \in ledger
  BY <1>0, OthersRows
<1>2. \/ pc'[c] = "dead"
      \/ UNCHANGED <<pc[c], sw[c], cfg[c], ending[c], plan[c]>>
  <2>1. ASSUME NEW d \in Calls, (\E k \in Configs : Begin(d, k)) \/ CallStep(d) \/ Drop(d)
        PROVE  UNCHANGED <<pc[c], sw[c], cfg[c], ending[c], plan[c]>>
    BY <1>0, <2>1, CallFrame
  <2>2. CASE StartupStep
    BY <1>0, <2>2, StartupFrame
  <2>3. CASE Crash
    BY <1>0, <2>3 DEF Crash
  <2> QED
    BY <2>1, <2>2, <2>3 DEF Next, Unblock, Quiescent, vars
<1>3. CASE pc'[c] = "dead"
  BY <1>3 DEF SweptAt, Sweeping, Settled
<1>4. CASE UNCHANGED <<pc[c], sw[c], cfg[c], ending[c], plan[c]>>
  <2>1. Scope(c)' = Scope(c) /\ Outstanding(c)' = Outstanding(c)
    BY <1>4 DEF Scope, Outstanding
  <2>2. pc[c] \in Sweeping => Selection(sw[c])' \subseteq Selection(sw[c])
    BY <1>0, <1>1, <1>4 DEF SweptAt, Selection
  <2>3. Cleared(c) => Cleared(c)'
    BY <1>1, <1>4, <2>1 DEF Cleared
  <2> QED
    BY <1>0, <1>4, <2>1, <2>2, <2>3 DEF SweptAt, Sweeping
<1> QED
  BY <1>2, <1>3, <1>4

\* The call decides what to sweep, or that there is nothing to.
LEMMA SweptSettle ==
  ASSUME TypeInv, NEW c \in Calls, UNCHANGED <<cfg, plan>>,
         \/ SettleCompleted(c)
         \/ \E e \in {"errored", "teardown"}, s \in {"append", "release"} : Settle(c, e, s)
  PROVE  SweptAt(c)'
<1>0. /\ pc \in [Actors -> {"idle", "up"} \union Active \union Recovering \union Finished]
      /\ sw \in [Actors -> SweepType] /\ ending \in [Calls -> Endings] /\ c \in Actors
  BY DEF TypeInv, TypeOK, Actors
<1>1. CASE ending'[c] \in {"completed", "errored", "teardown"} /\ pc'[c] = "swAffected"
           /\ sw'[c] = SweepOf(c, Scope(c)')
  <2>1. sw'[c].run = c /\ sw'[c].dataset = cfg'[c].dataset /\ sw'[c].items = Scope(c)'
    BY <1>1 DEF SweepOf, NoSweep
  <2> QED
    BY <1>1, <2>1 DEF SweptAt, Sweeping, Settled
<1>2. CASE pc'[c] \in {"mark", "append", "release"} /\ Cleared(c)'
  BY <1>2 DEF SweptAt, Sweeping
<1>3. CASE SettleCompleted(c)
  <2>1. ending'[c] = "completed" /\ Outstanding(c)' = Outstanding(c)
    BY <1>0, <1>3 DEF SettleCompleted, EndIn, Outstanding
  <2>2. CASE cfg[c].scope = "FailedItems" /\ Outstanding(c) # {}
    BY <1>0, <1>1, <1>3, <2>1, <2>2 DEF SettleCompleted, EndIn, Goto, Scope
  <2>3. CASE ~ (cfg[c].scope = "FailedItems" /\ Outstanding(c) # {})
    BY <1>0, <1>2, <1>3, <2>1, <2>3 DEF SettleCompleted, EndIn, Goto, Cleared
  <2> QED
    BY <2>2, <2>3
<1>4. ASSUME NEW e \in {"errored", "teardown"}, NEW s \in {"append", "release"}, Settle(c, e, s)
      PROVE  SweptAt(c)'
  <2>1. CASE cfg[c].scope = "Nothing"
    BY <1>0, <1>2, <1>4, <2>1 DEF Settle, EndIn, Goto, Cleared
  <2>2. CASE cfg[c].scope # "Nothing"
    BY <1>0, <1>1, <1>4, <2>2 DEF Settle, EndIn, Goto, Scope
  <2> QED
    BY <2>1, <2>2
<1> QED
  BY <1>3, <1>4

\* The steps of the sweep.
LEMMA SweptSweep ==
  ASSUME SweptInv, NEW c \in Calls, Sweep(c)
  PROVE  SweptAt(c)'
<1> USE DEF local, stores, trail
<1>0. /\ TypeInv /\ RowsAt(c) /\ SweptAt(c) /\ ledger \subseteq Row /\ sw[c] \in SweepType
      /\ pc \in [Actors -> {"idle", "up"} \union Active \union Recovering \union Finished]
      /\ sw \in [Actors -> SweepType] /\ c \in Actors /\ c # Startup
  BY CallAssumption DEF SweptInv, RowsInv, TypeInv, TypeOK, Actors
<1>1. UNCHANGED <<cfg, ending, plan>> /\ pc[c] \in Sweeping
  BY DEF Sweep, SweepAffected, SweepNodes, SweepEdges, SweepTexts, SweepGraph, SweepVectors,
     SweepEdgeRows, SweepNodeRows, SweepRows, SweepMarkers, SweepFail, Sweeping
<1>2. /\ sw[c].run = c /\ sw[c].dataset = cfg[c].dataset /\ sw[c].items = Scope(c)
      /\ ending[c] \in {"completed", "errored", "teardown"}
      /\ Scope(c)' = Scope(c) /\ Outstanding(c)' = Outstanding(c)
  BY <1>0, <1>1 DEF SweptAt, Scope, Outstanding
<1>3. CASE SweepAffected(c) \/ SweepNodes(c) \/ SweepEdges(c) \/ SweepTexts(c) \/ SweepGraph(c) \/ SweepVectors(c)
  <2>1. pc'[c] \in Sweeping \ {"swNodeRows", "swMarkers"}
    BY <1>0, <1>3 DEF SweepAffected, SweepNodes, SweepEdges, SweepTexts, SweepGraph, SweepVectors, Goto, Sweeping
  <2>2. sw'[c].run = sw[c].run /\ sw'[c].dataset = sw[c].dataset /\ sw'[c].items = sw[c].items
    <3>1. \/ sw'[c] = sw[c]
          \/ \E X : sw'[c] = [sw[c] EXCEPT !.affected = X]
          \/ \E X : sw'[c] = [sw[c] EXCEPT !.nodes = X]
          \/ \E X : sw'[c] = [sw[c] EXCEPT !.edges = X]
          \/ \E X : sw'[c] = [sw[c] EXCEPT !.texts = X]
      BY <1>0, <1>3 DEF SweepAffected, SweepNodes, SweepEdges, SweepTexts, SweepGraph, SweepVectors
    <3> QED
      BY <1>0, <3>1 DEF SweepType
  <2> QED
    BY <1>1, <1>2, <2>1, <2>2 DEF SweptAt, Sweeping, Settled
<1>4. CASE SweepEdgeRows(c)
  <2>1. /\ pc'[c] = "swNodeRows" /\ sw' = sw
        /\ ledger' = ledger \ {q \in Selection(sw[c]) : q.slug \in Edges}
    BY <1>0, <1>4 DEF SweepEdgeRows, SweepRows, Goto
  <2>2. \A q \in Selection(sw[c])' : q.slug \notin Edges
    BY <2>1 DEF Selection
  <2> QED
    BY <1>1, <1>2, <2>1, <2>2 DEF SweptAt, Settled
<1>5. CASE SweepNodeRows(c)
  <2>1. /\ pc[c] = "swNodeRows" /\ pc'[c] = "swMarkers" /\ sw' = sw
        /\ ledger' = ledger \ {q \in Selection(sw[c]) : q.slug \in Nodes}
    BY <1>0, <1>5 DEF SweepNodeRows, SweepRows, Goto
  <2>2. \A q \in Selection(sw[c]) : q.slug \in Nodes
    BY <1>0, <2>1 DEF SweptAt, Selection, Row, Slugs
  <2>3. Selection(sw[c])' = {}
    BY <2>1, <2>2 DEF Selection
  <2> QED
    BY <1>1, <1>2, <2>1, <2>3 DEF SweptAt, Settled
<1>6. CASE SweepMarkers(c)
  <2>1. pc[c] = "swMarkers" /\ ledger' = ledger /\ pc'[c] \in {"mark", "append", "release"}
    BY <1>0, <1>6 DEF SweepMarkers, AfterSweep, Goto
  <2>2. \A q \in ledger : q.run = c => q.item \notin Scope(c)
    BY <1>0, <1>2, <2>1 DEF SweptAt, RowsAt, Selection
  <2>3. \A q \in ledger : q.item \in Owners
    BY <1>0 DEF Row
  <2>4. Cleared(c)'
    BY <1>1, <1>2, <2>1, <2>2, <2>3 DEF Cleared, Scope
  <2> QED
    BY <2>1, <2>4 DEF SweptAt, Sweeping
<1>7. CASE SweepFail(c)
  <2>1. pc'[c] \in {"mark", "append", "release"} /\ sw'[c] = SweepOver(sw[c], TRUE)
    BY <1>0, <1>7 DEF SweepFail, AfterSweep, Goto
  <2>2. sw'[c].failed
    BY <2>1 DEF SweepOver, NoSweep
  <2> QED
    BY <2>1, <2>2 DEF SweptAt, Sweeping
<1> QED
  BY <1>3, <1>4, <1>5, <1>6, <1>7 DEF Sweep

\* The other steps of the call: before the run is settled nothing is said of
\* it, and afterwards only its markers, its row and its claim change.
LEMMA SweptCall ==
  ASSUME SweptInv, NEW c \in Calls, (\E k \in Configs : Begin(c, k)) \/ CallStep(c) \/ Drop(c)
  PROVE  SweptAt(c)'
<1> USE DEF local, stores, trail
<1>0. /\ TypeInv /\ SweptAt(c)
      /\ pc \in [Actors -> {"idle", "up"} \union Active \union Recovering \union Finished]
      /\ ending \in [Calls -> Endings] /\ plan \in [Calls -> PlanType] /\ c \in Actors
  BY DEF SweptInv, RowsInv, TypeInv, TypeOK, Actors
<1> DEFINE early == {"qualify", "claim", "filter", "initiate", "start", "extract", "own1", "graph1", "own2",
                      "graph2", "index", "rowOk", "teardown", "graph3", "rowErr", "dead"}
<1>1. CASE pc'[c] \in early
  BY <1>1 DEF SweptAt, Sweeping, Settled
<1>2. CASE ending'[c] \in {"cached", "running", "refused", "noop"} /\ pc'[c] \in {"release", "done"}
  BY <1>2 DEF SweptAt, Sweeping, Cleared
<1>3. CASE (\E k \in Configs : Begin(c, k)) \/ Qualify(c) \/ Claim(c) \/ Filter(c) \/ Drop(c)
  BY <1>0, <1>1, <1>2, <1>3 DEF Begin, Qualify, Claim, Filter, EndIn, Drop, Goto
<1>4. CASE Execute(c) /\ ~ LogErrored(c)
  <2>1. pc'[c] \in early
    BY <1>0, <1>4 DEF Execute, LogInitiated, LogStarted, Extract, StageAbort, OwnExtracted, WriteExtracted,
       OwnPoints, WritePoints, Own, WriteGraph, Index, LogCompleted, Fail, Goto
  <2> QED
    BY <1>1, <2>1
<1>5. CASE LogErrored(c) \/ WriteDlt(c) \/ TeardownFail(c)
  BY <1>0, <1>5, SweptSettle DEF LogErrored, WriteDlt, TeardownFail
<1>6. CASE Teardown(c)
  <2>1. CASE plan[c].dlt # {}
    BY <1>0, <1>1, <1>6, <2>1 DEF Teardown, Goto
  <2>2. CASE plan[c].dlt = {}
    BY <1>0, <1>6, <2>2, SweptSettle DEF Teardown
  <2> QED
    BY <2>1, <2>2
<1>7. CASE Mark(c) \/ Append(c) \/ Release(c)
  <2>1. /\ pc[c] \in Settled /\ pc'[c] \in Settled
        /\ UNCHANGED <<sw, ending, cfg, ledger>>
    BY <1>0, <1>7 DEF Mark, Append, Release, Goto, Settled
  <2>2. plan'[c] = plan[c] \/ plan'[c] = Spent(plan[c])
    BY <1>0, <1>7 DEF Mark, Append, Release
  <2>3. Outstanding(c)' = Outstanding(c)
    BY <1>0, <2>2 DEF Outstanding, Spent, PlanType
  <2> QED
    BY <1>0, <2>1, <2>3 DEF SweptAt, Cleared, Settled, Sweeping
<1>8. CASE Sweep(c)
  BY <1>8, SweptSweep
<1> QED
  BY <1>3, <1>4, <1>5, <1>6, <1>7, <1>8 DEF CallStep, Finish

LEMMA SweptNext == SweptInv /\ [Next]_vars => SweptInv'
<1> SUFFICES ASSUME SweptInv, [Next]_vars, NEW c \in Calls
             PROVE  SweptAt(c)'
  BY RowsNext DEF SweptInv
<1> QED
  BY SweptCall, SweptOthers

\* Once a call has returned and its sweep met no failure, a failed run has no
\* ownership row left, and a tolerant run none for the files it left
\* outstanding, in any interleaving with other calls, crashes and startup: its
\* rows are its own, no later upsert takes or gives it any, and the sweep ends
\* only when its selection is empty.
THEOREM FailedRunsRolledBack == Spec => []RolledBack
<1>1. Spec => []SweptInv
  BY SweptInit, SweptNext, PTL DEF Spec
<1>2. SweptInv => RolledBack
  <2> SUFFICES ASSUME SweptInv, NEW c \in Calls, pc[c] = "done", ~ sw[c].failed
               PROVE  Cleared(c)
    BY DEF RolledBack, Cleared
  <2> QED
    BY DEF SweptInv, SweptAt, Settled
<1> QED
  BY <1>1, <1>2, PTL

-----------------------------------------------------------------------------
(* What a sweep spares. *)

Outside(a) == Accounted(ledger \ Selection(sw[a]))

\* What a sweep is about to delete no row outside its scope accounts for.
SparesAt(a) ==
  /\ pc[a] \in {"swEdges", "swTexts", "swGraph", "swVector"} => sw[a].nodes \cap Outside(a) = {}
  /\ pc[a] \in {"swTexts", "swGraph", "swVector"} => sw[a].edges \cap Outside(a) = {}
  /\ pc[a] \in {"swGraph", "swVector"} => sw[a].texts \cap Outside(a) = {}

SparesInv == ExclusiveInv /\ \A a \in Actors : SparesAt(a)

Deciding == {"swEdges", "swTexts", "swGraph", "swVector"}

LEMMA SparesInit == Init => SparesInv
<1> SUFFICES ASSUME Init, NEW a \in Actors
             PROVE  SparesAt(a)
  BY ExclusiveInit DEF SparesInv
<1>1. pc[a] \in {"idle", "up"}
  BY DEF Init
<1> QED
  BY <1>1 DEF SparesAt

\* Whoever is not at a deciding step, or keeps its step and the ledger, is fine.
LEMMA SparesFrame ==
  ASSUME NEW a \in Actors, SparesAt(a),
         \/ pc'[a] \notin Deciding
         \/ UNCHANGED <<pc[a], sw[a], ledger>>
  PROVE  SparesAt(a)'
  BY DEF SparesAt, Deciding, Outside, Selection

\* Unique slugs, and the texts of unique edges that no other edge carries.
LEMMA UniqueSpared ==
  ASSUME TypeInv, NEW a \in Actors
  PROVE  /\ Unique(sw[a]) \cap Outside(a) = {}
         /\ \A T \in SUBSET Texts : T \cap TextsClaimedOutside(sw[a]) = {} => T \cap Outside(a) = {}
<1>1. \A q \in ledger : q.slug \in Slugs
  BY DEF TypeInv, TypeOK, Row
<1>2. Outside(a) = ClaimedOutside(sw[a]) \union TextsClaimedOutside(sw[a])
  BY DEF Outside, Accounted, ClaimedOutside, TextsClaimedOutside
<1>3. TextsClaimedOutside(sw[a]) \subseteq Texts /\ ClaimedOutside(sw[a]) \subseteq Slugs
  BY <1>1, StoreAssumption DEF TextsClaimedOutside, ClaimedOutside
<1>4. Unique(sw[a]) \subseteq Slugs /\ Unique(sw[a]) \cap ClaimedOutside(sw[a]) = {}
  BY <1>1 DEF Unique, Selection
<1> QED
  BY <1>2, <1>3, <1>4, StoreAssumption

LEMMA SparesSweep ==
  ASSUME SparesInv, NEW a \in Actors, Sweep(a)
  PROVE  SparesAt(a)'
<1> USE DEF local, stores, trail
<1>0. /\ TypeInv /\ SparesAt(a) /\ sw[a] \in SweepType
      /\ pc \in [Actors -> {"idle", "up"} \union Active \union Recovering \union Finished]
      /\ sw \in [Actors -> SweepType]
  BY DEF SparesInv, ExclusiveInv, TypeInv, TypeOK
<1>1. CASE SweepNodes(a) \/ SweepEdges(a) \/ SweepTexts(a)
  <2>1. ledger' = ledger
    BY <1>1 DEF SweepNodes, SweepEdges, SweepTexts
  <2>2. \/ pc[a] = "swNodes" /\ pc'[a] = "swEdges" /\ sw'[a] = [sw[a] EXCEPT !.nodes = Unique(sw[a]) \cap Nodes]
        \/ pc[a] = "swEdges" /\ pc'[a] = "swTexts" /\ sw'[a] = [sw[a] EXCEPT !.edges = Unique(sw[a]) \cap Edges]
        \/ pc[a] = "swTexts" /\ pc'[a] = "swGraph"
           /\ sw'[a] = [sw[a] EXCEPT !.texts = {TextOf[e] : e \in sw[a].edges} \ TextsClaimedOutside(sw[a])]
    BY <1>0, <1>1 DEF SweepNodes, SweepEdges, SweepTexts, Goto
  <2>3. sw'[a].run = sw[a].run /\ sw'[a].dataset = sw[a].dataset /\ sw'[a].items = sw[a].items
    BY <1>0, <2>2 DEF SweepType
  <2>4. Outside(a)' = Outside(a)
    BY <2>1, <2>3 DEF Outside, Accounted, Selection
  <2>5. {TextOf[e] : e \in sw[a].edges} \subseteq Texts
    BY <1>0, StoreAssumption DEF SweepType
  <2>6. /\ (Unique(sw[a]) \cap Nodes) \cap Outside(a) = {}
        /\ (Unique(sw[a]) \cap Edges) \cap Outside(a) = {}
        /\ ({TextOf[e] : e \in sw[a].edges} \ TextsClaimedOutside(sw[a])) \cap Outside(a) = {}
    BY <1>0, <2>5, UniqueSpared
  <2>7. CASE pc[a] = "swNodes"
    BY <1>0, <2>2, <2>4, <2>6, <2>7 DEF SparesAt, SweepType
  <2>8. CASE pc[a] = "swEdges"
    BY <1>0, <2>2, <2>4, <2>6, <2>8 DEF SparesAt, SweepType
  <2>9. CASE pc[a] = "swTexts"
    BY <1>0, <2>2, <2>4, <2>6, <2>9 DEF SparesAt, SweepType
  <2> QED
    BY <2>2, <2>7, <2>8, <2>9
<1>2. CASE SweepGraph(a)
  <2>1. pc[a] = "swGraph" /\ pc'[a] = "swVector" /\ UNCHANGED <<sw, ledger>>
    BY <1>0, <1>2 DEF SweepGraph, Goto
  <2> QED
    BY <1>0, <2>1 DEF SparesAt, Outside, Selection
<1>3. CASE SweepAffected(a) \/ SweepVectors(a) \/ SweepEdgeRows(a) \/ SweepNodeRows(a) \/ SweepMarkers(a)
           \/ SweepFail(a)
  <2>1. pc'[a] \notin Deciding
    BY <1>0, <1>3 DEF SweepAffected, SweepVectors, SweepEdgeRows, SweepNodeRows, SweepRows, SweepMarkers,
       SweepFail, AfterSweep, Goto, Deciding
  <2> QED
    BY <1>0, <2>1, SparesFrame
<1> QED
  BY <1>1, <1>2, <1>3 DEF Sweep

\* A call that does not sweep does not come to a deciding step.
LEMMA NotDeciding ==
  ASSUME TypeInv, NEW c \in Calls, (\E k \in Configs : Begin(c, k)) \/ CallStep(c) \/ Drop(c), ~ Sweep(c)
  PROVE  pc'[c] \notin Deciding
<1>0. pc \in [Actors -> {"idle", "up"} \union Active \union Recovering \union Finished] /\ c \in Actors
  BY DEF TypeInv, TypeOK, Actors
<1>1. CASE (\E k \in Configs : Begin(c, k)) \/ Qualify(c) \/ Claim(c) \/ Filter(c) \/ Drop(c)
  BY <1>0, <1>1 DEF Begin, Qualify, Claim, Filter, EndIn, Drop, Goto, Deciding
<1>2. CASE Execute(c)
  BY <1>0, <1>2 DEF Execute, LogInitiated, LogStarted, Extract, StageAbort, OwnExtracted, WriteExtracted,
     OwnPoints, WritePoints, Own, WriteGraph, Index, LogCompleted, LogErrored, Settle, EndIn, Fail, Goto, Deciding
<1>3. CASE Finish(c)
  BY <1>0, <1>3 DEF Finish, Teardown, WriteDlt, TeardownFail, Settle, SettleCompleted, EndIn, Mark, Append,
     Release, Goto, Deciding
<1> QED
  BY <1>1, <1>2, <1>3 DEF CallStep

\* A call that is not busy touches no store.
LEMMA IdleKeeps ==
  ASSUME NEW c \in Calls, (\E k \in Configs : Begin(c, k)) \/ CallStep(c) \/ Drop(c), ~ Busy(c)
  PROVE  UNCHANGED stores
<1> USE DEF local, stores, trail
<1>1. CASE (\E k \in Configs : Begin(c, k)) \/ Qualify(c) \/ Claim(c) \/ Filter(c) \/ Drop(c)
  BY <1>1 DEF Begin, Qualify, Claim, Filter, Drop
<1>2. ~ Execute(c) /\ ~ Finish(c) /\ ~ Sweep(c)
  BY DEF Busy, Running, Sweeping, Execute, Finish, Sweep, LogInitiated, LogStarted, Extract, StageAbort,
     OwnExtracted, WriteExtracted, OwnPoints, WritePoints, Own, WriteGraph, Index, LogCompleted, LogErrored,
     Fail, Teardown, WriteDlt, TeardownFail, Mark, Append, Release, SweepAffected, SweepNodes, SweepEdges,
     SweepTexts, SweepGraph, SweepVectors, SweepEdgeRows, SweepNodeRows, SweepRows, SweepMarkers, SweepFail
<1> QED
  BY <1>1, <1>2 DEF CallStep

LEMMA SparesNext == ASSUME OnePair PROVE SparesInv /\ [Next]_vars => SparesInv'
<1> SUFFICES ASSUME SparesInv, [Next]_vars, NEW a \in Actors
             PROVE  SparesAt(a)'
  BY ExclusiveNext DEF SparesInv
<1> USE DEF local, stores, trail
<1>0. /\ ExclusiveInv /\ TypeInv /\ SparesAt(a)
      /\ pc \in [Actors -> {"idle", "up"} \union Active \union Recovering \union Finished]
      /\ Startup \in Actors /\ Calls \subseteq Actors
      /\ pc[a] \in Deciding => Busy(a)
  BY DEF SparesInv, ExclusiveInv, TypeInv, TypeOK, Actors, Deciding, Busy, Sweeping
<1>1. ASSUME NEW c \in Calls, (\E k \in Configs : Begin(c, k)) \/ CallStep(c) \/ Drop(c)
      PROVE  SparesAt(a)'
  <2>1. CASE a = c
    <3>1. CASE Sweep(c)
      BY <2>1, <3>1, SparesSweep
    <3>2. CASE ~ Sweep(c)
      BY <1>0, <1>1, <2>1, <3>2, NotDeciding, SparesFrame
    <3> QED
      BY <3>1, <3>2
  <2>2. CASE a # c
    <3>1. pc'[a] = pc[a] /\ sw'[a] = sw[a]
      BY <1>0, <1>1, <2>2, CallFrame
    <3>2. CASE Busy(c)
      BY <1>0, <2>2, <3>1, <3>2, Alone, SparesFrame
    <3>3. CASE ~ Busy(c)
      BY <1>0, <1>1, <3>1, <3>3, IdleKeeps, SparesFrame
    <3> QED
      BY <3>2, <3>3
  <2> QED
    BY <2>1, <2>2
<1>2. CASE StartupStep
  <2>1. CASE a = Startup
    <3>1. CASE Sweep(Startup)
      BY <2>1, <3>1, SparesSweep
    <3>2. CASE ListOrphans \/ NextOrphan \/ ResetOrphans \/ ReleaseAll
      <4>1. pc'[Startup] \notin Deciding
        BY <1>0, <3>2 DEF ListOrphans, NextOrphan, ResetOrphans, ReleaseAll, Goto, Deciding
      <4> QED
        BY <1>0, <2>1, <4>1, SparesFrame
    <3> QED
      BY <1>2, <3>1, <3>2 DEF StartupStep
  <2>2. CASE a \in Calls
    <3>1. pc'[a] = pc[a] /\ pc[a] \notin Active
      BY <1>0, <1>2, <2>2, StartupFrame DEF ExclusiveInv, Exclusive
    <3> QED
      BY <1>0, <3>1, SparesFrame DEF Deciding, Active, Sweeping
  <2> QED
    BY <2>1, <2>2 DEF Actors
<1>3. CASE Crash
  <2>1. pc'[a] \notin Deciding
    BY <1>0, <1>3 DEF Crash, Active, Sweeping, Deciding
  <2> QED
    BY <1>0, <2>1, SparesFrame
<1>4. CASE (\E p \in Pairs : Unblock(p)) \/ Quiescent \/ UNCHANGED vars
  BY <1>0, <1>4, SparesFrame DEF Unblock, Quiescent, vars
<1> QED
  BY <1>1, <1>2, <1>3, <1>4 DEF Next

\* The only steps that shrink a store are those of a sweep that has decided.
LEMMA Deletions ==
  ASSUME TypeInv, [Next]_vars, ~ \E a \in Actors : SweepGraph(a) \/ SweepVectors(a) \/ SweepFail(a)
  PROVE  graph \subseteq graph' /\ vectors \subseteq vectors'
<1> USE DEF local, stores, trail
<1>1. ASSUME NEW a \in Actors, Sweep(a)
      PROVE  UNCHANGED <<graph, vectors>>
  BY <1>1 DEF Sweep, SweepAffected, SweepNodes, SweepEdges, SweepTexts, SweepEdgeRows, SweepNodeRows, SweepRows,
     SweepMarkers
<1>2. ASSUME NEW c \in Calls, (\E k \in Configs : Begin(c, k)) \/ Drop(c) \/ Qualify(c) \/ Claim(c) \/ Filter(c)
                              \/ Execute(c) \/ Finish(c)
      PROVE  graph \subseteq graph' /\ vectors \subseteq vectors'
  BY <1>2 DEF Begin, Drop, Qualify, Claim, Filter, Execute, Finish, LogInitiated, LogStarted, Extract, StageAbort,
     OwnExtracted, WriteExtracted, OwnPoints, WritePoints, Own, WriteGraph, Index, LogCompleted, LogErrored,
     Fail, Teardown, WriteDlt, TeardownFail, Mark, Append, Release
<1>3. CASE ListOrphans \/ NextOrphan \/ ResetOrphans \/ ReleaseAll \/ Crash \/ (\E p \in Pairs : Unblock(p))
           \/ Quiescent \/ UNCHANGED vars
  BY <1>3 DEF ListOrphans, NextOrphan, ResetOrphans, ReleaseAll, Crash, Unblock, Quiescent, vars
<1> QED
  BY <1>1, <1>2, <1>3 DEF Next, CallStep, StartupStep, Actors

\* What a deciding sweep deletes: artifacts it decided on, and edges at them.
LEMMA DeletedByPlan ==
  ASSUME TypeInv, NEW a \in Actors, SweepGraph(a) \/ SweepVectors(a) \/ SweepFail(a)
  PROVE  /\ pc[a] \in Sweeping
         /\ graph \ graph' \subseteq Cascade(sw[a].nodes)
         /\ vectors \ vectors' \subseteq Doomed(a)
         /\ graph' # graph => pc[a] = "swGraph"
         /\ vectors' # vectors => pc[a] = "swVector"
  BY DEF SweepGraph, SweepVectors, SweepFail, Cascade, Sweeping

\* A sweep, of a call or of startup, deletes a node or a vector point only if no
\* ownership row outside its scope claims it at that moment, also when it is cut
\* short: what was found exclusive in the queries of RunSweeper is still
\* exclusive when the stores are emptied, for calls on one pair.
THEOREM SweepsSpareClaimed == ASSUME OnePair PROVE Spec => SweepSparesClaimed
<1>1. Spec => []SparesInv
  BY SparesInit, SparesNext, PTL DEF Spec
<1>2. SparesInv /\ [Next]_vars =>
        [\A s \in ((graph \ graph') \cap Nodes) \union (vectors \ vectors') :
           \E a \in Actors : pc[a] \in Sweeping /\ s \notin Accounted(ledger \ Selection(sw[a]))]_vars
  <2> SUFFICES ASSUME SparesInv, [Next]_vars, NEW s \in ((graph \ graph') \cap Nodes) \union (vectors \ vectors')
               PROVE  \E a \in Actors : pc[a] \in Sweeping /\ s \notin Accounted(ledger \ Selection(sw[a]))
    OBVIOUS
  <2>0. TypeInv
    BY DEF SparesInv, ExclusiveInv
  <2>1. PICK a \in Actors : SweepGraph(a) \/ SweepVectors(a) \/ SweepFail(a)
    BY <2>0, Deletions
  <2>2. SparesAt(a) /\ sw[a].nodes \subseteq Nodes
    BY DEF SparesInv, ExclusiveInv, TypeInv, TypeOK, SweepType
  <2>3. CASE s \in (graph \ graph') \cap Nodes
    <3>1. pc[a] = "swGraph" /\ s \in sw[a].nodes
      BY <2>0, <2>1, <2>3, DeletedByPlan, StoreAssumption DEF Cascade
    <3> QED
      BY <2>2, <3>1 DEF SparesAt, Outside, Sweeping
  <2>4. CASE s \in vectors \ vectors'
    <3>1. pc[a] = "swVector" /\ s \in Doomed(a)
      BY <2>0, <2>1, <2>4, DeletedByPlan
    <3> QED
      BY <2>2, <3>1 DEF SparesAt, Outside, Doomed, Sweeping
  <2> QED
    BY <2>3, <2>4
<1> QED
  BY <1>1, <1>2, PTL DEF Spec, SweepSparesClaimed

-----------------------------------------------------------------------------
(* Completion markers. *)

\* The edges a pipeline always writes for an item join nodes it always writes
\* for it, and the temporal pipeline indexes only nodes.
PointsClosed ==
  \A p \in Pipelines, i \in Items :
    /\ \A e \in Points[p][i] \cap Edges : Ends[e] \subseteq Points[p][i]
    /\ p = "temporal-cognify" => Points[p][i] \cap Indexed \subseteq Nodes

\* A set of artifacts that is closed, and owned outside the scope of a sweep,
\* survives the sweep, rows and all.
LEMMA Protected ==
  ASSUME TypeInv, NEW a \in Actors, SparesAt(a), Sweep(a), NEW S,
         \A e \in S \cap Edges : Ends[e] \subseteq S,
         \A s \in S : \E q \in ledger \ Selection(sw[a]) : q.slug = s
  PROVE  /\ graph \cap S \subseteq graph'
         /\ vectors \cap S \subseteq vectors'
         /\ ledger \ Selection(sw[a]) \subseteq ledger'
<1> USE DEF local, stores, trail
<1>1. ledger \ Selection(sw[a]) \subseteq ledger'
  BY DEF Sweep, SweepAffected, SweepNodes, SweepEdges, SweepTexts, SweepGraph, SweepVectors, SweepEdgeRows,
     SweepNodeRows, SweepRows, SweepMarkers, SweepFail
<1>2. S \subseteq Outside(a)
  BY DEF Outside, Accounted
<1>3. CASE SweepGraph(a) \/ SweepVectors(a) \/ SweepFail(a)
  <2>1. ASSUME NEW s \in S, s \in graph, s \notin graph'
        PROVE  FALSE
    <3>1. pc[a] = "swGraph" /\ s \in Cascade(sw[a].nodes)
      BY <1>3, <2>1, DeletedByPlan
    <3>2. sw[a].nodes \cap S = {}
      BY <1>2, <3>1 DEF SparesAt
    <3> QED
      BY <2>1, <3>1, <3>2 DEF Cascade
  <2>2. ASSUME NEW s \in S, s \in vectors, s \notin vectors'
        PROVE  FALSE
    <3>1. pc[a] = "swVector" /\ s \in Doomed(a)
      BY <1>3, <2>2, DeletedByPlan
    <3> QED
      BY <1>2, <2>2, <3>1 DEF SparesAt, Doomed
  <2> QED
    BY <1>1, <2>1, <2>2
<1>4. CASE ~ (SweepGraph(a) \/ SweepVectors(a) \/ SweepFail(a))
  BY <1>1, <1>4 DEF Sweep, SweepAffected, SweepNodes, SweepEdges, SweepTexts, SweepEdgeRows, SweepNodeRows,
     SweepRows, SweepMarkers
<1> QED
  BY <1>3, <1>4

\* What the run owes the items that survive it.
Due(c) == UNION {Points[cfg[c].pipeline][i] : i \in Survivors(c)}

\* The run is on its way to mark its survivors.
Settling(c) ==
  \/ pc[c] \in {"rowOk", "teardown", "graph3", "mark"}
  \/ pc[c] \in Sweeping /\ ending[c] = "completed"

Planned(c) ==
  \A i \in Survivors(c) : \A s \in Points[cfg[c].pipeline][i] : Attributed(i, s) \in plan[c].pts
DueOwned(c) == \A s \in Due(c) : \E q \in ledger : q.slug = s /\ q.item \notin Outstanding(c)

WrittenAt(c) ==
  /\ pc[c] \in {"own1", "graph1", "own2", "graph2", "index"} => Planned(c)
  /\ pc[c] \in {"graph2", "index"} \/ Settling(c) => DueOwned(c)
  /\ pc[c] = "index" \/ Settling(c) => Due(c) \subseteq graph
  /\ Settling(c) => Due(c) \cap Indexed \subseteq vectors

LEMMA DueClosed ==
  ASSUME PointsClosed, TypeInv, NEW c \in Calls, cfg[c] \in Configs
  PROVE  /\ \A e \in Due(c) \cap Edges : Ends[e] \subseteq Due(c)
         /\ Temporal(c) => Due(c) \cap Indexed \subseteq Nodes
         /\ Due(c) \subseteq Slugs
         /\ NilItem \notin Outstanding(c)
<1>1. cfg[c].pipeline \in Pipelines /\ Survivors(c) \subseteq Items
  BY ConfigFields DEF Survivors, TypeInv, TypeOK, PlanType
<1>2. \A i \in Items : Points[cfg[c].pipeline][i] \subseteq Slugs
  BY <1>1, WorkAssumption
<1>3. NilItem \notin Outstanding(c)
  BY WorkAssumption DEF Outstanding, TypeInv, TypeOK, PlanType
<1> QED
  BY <1>1, <1>2, <1>3 DEF PointsClosed, Due, Temporal

\* A step that takes nothing away, and brings the call no further than its
\* stores already are.
LEMMA WrittenKeeps ==
  ASSUME NEW c \in Calls, WrittenAt(c), UNCHANGED <<cfg[c], plan[c]>>,
         ledger \subseteq ledger', graph \subseteq graph', vectors \subseteq vectors',
         pc'[c] \in {"own1", "graph1", "own2", "graph2", "index"} =>
           pc[c] \in {"own1", "graph1", "own2", "graph2", "index"},
         pc'[c] \in {"graph2", "index"} \/ Settling(c)' => pc[c] \in {"graph2", "index"} \/ Settling(c),
         pc'[c] = "index" \/ Settling(c)' => pc[c] = "index" \/ Settling(c),
         Settling(c)' => Settling(c)
  PROVE  WrittenAt(c)'
<1>1. Survivors(c)' = Survivors(c) /\ Outstanding(c)' = Outstanding(c) /\ Due(c)' = Due(c)
  BY DEF Survivors, Outstanding, Due
<1>2. (Planned(c) => Planned(c)') /\ (DueOwned(c) => DueOwned(c)')
  BY <1>1 DEF Planned, DueOwned
<1> QED
  BY <1>1, <1>2 DEF WrittenAt

LEMMA WrittenExtract ==
  ASSUME TypeInv, NEW c \in Calls, cfg[c] \in Configs, Extract(c)
  PROVE  WrittenAt(c)'
<1>0. /\ pc \in [Actors -> {"idle", "up"} \union Active \union Recovering \union Finished]
      /\ plan \in [Calls -> PlanType] /\ c \in Actors
  BY DEF TypeInv, TypeOK, Actors
<1>1. pc'[c] \in {"own1", "own2"} /\ cfg' = cfg
  BY <1>0 DEF Extract, Goto
<1>a. PICK l \in Losses(c) : \E y, some : plan' = [plan EXCEPT ![c] = PlanOf(c, l, y, some)]
  BY DEF Extract
<1>2. PICK y, some : plan' = [plan EXCEPT ![c] = PlanOf(c, l, y, some)]
  BY <1>a
<1>3. plan'[c] = PlanOf(c, l, y, some)
  BY <1>0, <1>2
<1>4. /\ plan'[c].todo = plan[c].todo /\ plan'[c].failed = FailedBy(l) /\ plan'[c].unreached = UnreachedBy(c, l)
      /\ EntriesOf(Kept(c, l) \ FailedBy(l), Points[cfg[c].pipeline]) \subseteq plan'[c].pts
  BY <1>3 DEF PlanOf
<1>5. Survivors(c)' \subseteq Kept(c, l) \ FailedBy(l)
  BY <1>4 DEF Survivors, Outstanding, UnreachedBy, FailedBy, Kept
<1>6. Planned(c)'
  BY <1>1, <1>4, <1>5 DEF Planned, EntriesOf
<1> QED
  BY <1>1, <1>6 DEF WrittenAt, Settling, Sweeping

LEMMA UpsertEntry ==
  ASSUME NEW rows, NEW d, NEW E, NEW r, NEW e \in E
  PROVE  \E q \in Upsert(rows, d, E, r) : q.item = e[1] /\ q.slug = e[2]
<1>1. CASE \E q \in rows : q.dataset = d /\ q.item = e[1] /\ q.slug = e[2]
  BY <1>1 DEF Upsert
<1>2. CASE ~ \E q \in rows : q.dataset = d /\ q.item = e[1] /\ q.slug = e[2]
  <2>1. [dataset |-> d, item |-> e[1], slug |-> e[2], run |-> r] \in Upsert(rows, d, E, r)
    BY <1>2 DEF Upsert
  <2> QED
    BY <2>1
<1> QED
  BY <1>1, <1>2

\* The rows, the nodes and edges, and the points of a run's second round.
LEMMA WrittenRound ==
  ASSUME PointsClosed, TypeInv, NEW c \in Calls, cfg[c] \in Configs, WrittenAt(c),
         OwnPoints(c) \/ WritePoints(c) \/ Index(c)
  PROVE  WrittenAt(c)'
<1> USE DEF local, stores, trail
<1>0. /\ pc \in [Actors -> {"idle", "up"} \union Active \union Recovering \union Finished] /\ c \in Actors
  BY DEF TypeInv, TypeOK, Actors
<1>1. UNCHANGED <<cfg, plan>>
  BY DEF OwnPoints, WritePoints, Own, WriteGraph, Index
<1>2. Survivors(c)' = Survivors(c) /\ Outstanding(c)' = Outstanding(c) /\ Due(c)' = Due(c)
  BY <1>1 DEF Survivors, Outstanding, Due
<1>3. Planned(c) /\ Planned(c)'
  <2>1. Planned(c)
    BY DEF OwnPoints, WritePoints, Own, WriteGraph, Index, WrittenAt
  <2> QED
    BY <1>1, <1>2, <2>1 DEF Planned
<1>4. Due(c) \subseteq SlugsOf(plan[c].pts)
  <2> SUFFICES ASSUME NEW i \in Survivors(c), NEW s \in Points[cfg[c].pipeline][i]
               PROVE  s \in SlugsOf(plan[c].pts)
    BY DEF Due
  <2>1. Attributed(i, s) \in plan[c].pts /\ Attributed(i, s)[2] = s
    BY <1>3 DEF Planned, Attributed
  <2> QED
    BY <2>1 DEF SlugsOf
<1>5. CASE OwnPoints(c)
  <2>1. pc'[c] = "graph2" /\ ledger' = Upsert(ledger, cfg[c].dataset, plan[c].pts, c)
    BY <1>0, <1>5 DEF OwnPoints, Own, Goto
  <2>2. ASSUME NEW i \in Survivors(c), NEW s \in Points[cfg[c].pipeline][i]
        PROVE  \E q \in ledger' : q.slug = s /\ q.item \notin Outstanding(c)
    <3>1. PICK q \in ledger' : q.item = Attributed(i, s)[1] /\ q.slug = Attributed(i, s)[2]
      BY <1>3, <2>1, UpsertEntry DEF Planned
    <3>2. q.slug = s /\ q.item \in {i, NilItem}
      BY <3>1 DEF Attributed
    <3>3. i \notin Outstanding(c) /\ NilItem \notin Outstanding(c)
      BY DueClosed DEF Survivors
    <3> QED
      BY <3>2, <3>3
  <2>3. \A s \in Due(c) : \E q \in ledger' : q.slug = s /\ q.item \notin Outstanding(c)
    BY <2>2 DEF Due
  <2>4. DueOwned(c)'
    BY <1>2, <2>3 DEF DueOwned
  <2> QED
    BY <1>3, <2>1, <2>4 DEF WrittenAt, Settling, Sweeping
<1>6. CASE WritePoints(c)
  <2>1. /\ pc[c] = "graph2" /\ pc'[c] = "index" /\ ledger' = ledger
        /\ graph' = graph \union SlugsOf(plan[c].pts)
    BY <1>0, <1>6 DEF WritePoints, WriteGraph, Goto
  <2>2. DueOwned(c)'
    BY <1>2, <2>1 DEF WrittenAt, DueOwned
  <2> QED
    BY <1>2, <1>3, <1>4, <2>1, <2>2 DEF WrittenAt, Settling, Sweeping
<1>7. CASE Index(c)
  <2>1. /\ pc[c] = "index" /\ pc'[c] \in {"rowOk", "rowErr"} /\ UNCHANGED <<ledger, graph>>
        /\ vectors' = vectors \union ToIndex(c)
    BY <1>0, <1>7 DEF Index, Goto
  <2>2. DueOwned(c)' /\ Due(c)' \subseteq graph'
    BY <1>2, <2>1 DEF WrittenAt, DueOwned
  <2>3. Due(c) \cap Indexed \subseteq ToIndex(c)
    BY <1>4, DueClosed DEF ToIndex
  <2> QED
    BY <1>2, <2>1, <2>2, <2>3 DEF WrittenAt
<1> QED
  BY <1>5, <1>6, <1>7

\* The sweep of a tolerant run leaves its survivors what it wrote for them.
LEMMA WrittenSweep ==
  ASSUME PointsClosed, TypeInv, NEW c \in Calls, cfg[c] \in Configs, WrittenAt(c), SweptAt(c), SparesAt(c), Sweep(c)
  PROVE  WrittenAt(c)'
<1> USE DEF local, stores, trail
<1>0. /\ pc \in [Actors -> {"idle", "up"} \union Active \union Recovering \union Finished]
      /\ c \in Actors /\ c # Startup
  BY CallAssumption DEF TypeInv, TypeOK, Actors
<1>1. UNCHANGED <<cfg, plan, ending>> /\ pc[c] \in Sweeping
  BY DEF Sweep, SweepAffected, SweepNodes, SweepEdges, SweepTexts, SweepGraph, SweepVectors, SweepEdgeRows,
     SweepNodeRows, SweepRows, SweepMarkers, SweepFail, Sweeping
<1>2. Survivors(c)' = Survivors(c) /\ Outstanding(c)' = Outstanding(c) /\ Due(c)' = Due(c)
  BY <1>1 DEF Survivors, Outstanding, Due
<1>3. /\ pc'[c] \in Sweeping \union {"mark", "append", "release"}
      /\ ending[c] # "completed" => pc'[c] # "mark"
  BY <1>0, SweepMove DEF AfterSweep, Goto, Sweeping
<1>4. CASE ending[c] = "completed"
  <2>1. DueOwned(c) /\ Due(c) \subseteq graph /\ Due(c) \cap Indexed \subseteq vectors
    BY <1>1, <1>4 DEF WrittenAt, Settling
  <2>2. sw[c].items = Outstanding(c)
    BY <1>1, <1>4 DEF SweptAt, Scope
  <2>3. \A q \in ledger : q.item \notin Outstanding(c) => q \in ledger \ Selection(sw[c])
    BY <2>2 DEF Selection
  <2>4. \A s \in Due(c) : \E q \in ledger \ Selection(sw[c]) : q.slug = s
    BY <2>1, <2>3 DEF DueOwned
  <2>5. /\ graph \cap Due(c) \subseteq graph' /\ vectors \cap Due(c) \subseteq vectors'
        /\ ledger \ Selection(sw[c]) \subseteq ledger'
    BY <1>0, <2>4, DueClosed, Protected
  <2>6. DueOwned(c)'
    BY <1>2, <2>1, <2>3, <2>5 DEF DueOwned
  <2> QED
    BY <1>2, <1>3, <2>1, <2>5, <2>6 DEF WrittenAt, Sweeping
<1>5. CASE ending[c] # "completed"
  BY <1>1, <1>3, <1>5 DEF WrittenAt, Settling, Sweeping
<1> QED
  BY <1>4, <1>5

LEMMA WrittenCall ==
  ASSUME PointsClosed, TypeInv, NEW c \in Calls, WrittenAt(c), SweptAt(c), SparesAt(c),
         (\E k \in Configs : Begin(c, k)) \/ CallStep(c) \/ Drop(c)
  PROVE  WrittenAt(c)'
<1> USE DEF local, stores, trail
<1>0. /\ pc \in [Actors -> {"idle", "up"} \union Active \union Recovering \union Finished] /\ c \in Actors
      /\ ending \in [Calls -> Endings]
  BY DEF TypeInv, TypeOK, Actors
<1>1. CASE pc'[c] \notin {"own1", "graph1", "own2", "graph2", "index"} /\ ~ Settling(c)'
  BY <1>1 DEF WrittenAt
<1>2. CASE (\E k \in Configs : Begin(c, k)) \/ Drop(c) \/ Qualify(c) \/ Claim(c) \/ Filter(c) \/ LogInitiated(c)
           \/ LogStarted(c) \/ StageAbort(c) \/ Fail(c) \/ Append(c) \/ Release(c) \/ Mark(c)
  <2>1. pc'[c] \in {"qualify", "dead", "done", "claim", "filter", "release", "initiate", "start", "extract",
                    "rowErr", "append"}
    BY <1>0, <1>2 DEF Begin, Drop, Qualify, Claim, Filter, EndIn, LogInitiated, LogStarted, StageAbort, Fail,
       Append, Release, Mark, Goto
  <2> QED
    BY <1>1, <2>1 DEF Settling, Sweeping
<1>3. CASE LogErrored(c) \/ TeardownFail(c)
  <2>1. pc'[c] \in {"swAffected", "release", "append"} /\ ending'[c] # "completed"
    BY <1>0, <1>3 DEF LogErrored, TeardownFail, Settle, EndIn, Goto
  <2> QED
    BY <1>1, <2>1 DEF Settling, Sweeping
<1>4. cfg[c] \in Configs \/ (\E k \in Configs : Begin(c, k))
  BY Onward, StepsDisjoint DEF TypeInv, Configured
<1>5. CASE Extract(c)
  BY <1>4, <1>5, WrittenExtract DEF Begin, Extract
<1>6. CASE OwnPoints(c) \/ WritePoints(c) \/ Index(c)
  BY <1>4, <1>6, WrittenRound DEF Begin, OwnPoints, WritePoints, Own, WriteGraph, Index
<1>7. CASE Sweep(c)
  <2>1. pc[c] # "idle"
    BY <1>7 DEF Sweep, SweepAffected, SweepNodes, SweepEdges, SweepTexts, SweepGraph, SweepVectors, SweepEdgeRows,
       SweepNodeRows, SweepRows, SweepMarkers, SweepFail, Sweeping
  <2> QED
    BY <1>4, <1>7, <2>1, WrittenSweep DEF Begin
<1>8. CASE OwnExtracted(c) \/ WriteExtracted(c) \/ LogCompleted(c) \/ Teardown(c) \/ WriteDlt(c)
  <2>1. /\ UNCHANGED <<cfg, plan>>
        /\ ledger \subseteq ledger' /\ graph \subseteq graph' /\ vectors \subseteq vectors'
    BY <1>8, UpsertOwns DEF OwnExtracted, WriteExtracted, Own, WriteGraph, LogCompleted, Teardown, WriteDlt
  <2>2. \/ pc[c] = "own1" /\ pc'[c] = "graph1"
        \/ pc[c] = "graph1" /\ pc'[c] = "own2"
        \/ pc[c] \in {"rowOk", "teardown", "graph3"} /\ pc'[c] \in {"teardown", "graph3", "swAffected", "mark"}
    BY <1>0, <1>8 DEF OwnExtracted, WriteExtracted, Own, WriteGraph, LogCompleted, Teardown, WriteDlt,
       SettleCompleted, EndIn, Goto
  <2>3. UNCHANGED <<cfg[c], plan[c]>>
    BY <2>1
  <2> QED
    BY <2>1, <2>2, <2>3, WrittenKeeps DEF Settling, Sweeping
<1> QED
  BY <1>2, <1>3, <1>5, <1>6, <1>7, <1>8 DEF CallStep, Execute, Finish

Written == \A c \in Calls : WrittenAt(c)

LEMMA WrittenNext ==
  ASSUME OnePair, PointsClosed, SparesInv, SweptInv, Written, [Next]_vars
  PROVE  Written'
<1> SUFFICES ASSUME NEW c \in Calls
             PROVE  WrittenAt(c)'
  BY DEF Written
<1> USE DEF local, stores, trail
<1>0. /\ ExclusiveInv /\ TypeInv /\ WrittenAt(c) /\ SweptAt(c) /\ SparesAt(c)
      /\ pc \in [Actors -> {"idle", "up"} \union Active \union Recovering \union Finished]
      /\ Calls \subseteq Actors /\ c \in Actors /\ c # Startup
  BY CallAssumption DEF SparesInv, SweptInv, Written, ExclusiveInv, TypeInv, TypeOK, Actors
<1>1. ASSUME pc'[c] \notin Running \union Sweeping
      PROVE  WrittenAt(c)'
  BY <1>1 DEF WrittenAt, Settling, Running, Sweeping
<1>2. ASSUME UNCHANGED <<pc[c], ending[c], cfg[c], plan[c], ledger, graph, vectors>>
      PROVE  WrittenAt(c)'
  BY <1>0, <1>2, WrittenKeeps DEF Settling
<1>3. ASSUME NEW d \in Calls, (\E k \in Configs : Begin(d, k)) \/ CallStep(d) \/ Drop(d)
      PROVE  WrittenAt(c)'
  <2>1. CASE d = c
    BY <1>0, <1>3, <2>1, WrittenCall
  <2>2. CASE d # c
    <3>1. UNCHANGED <<pc[c], ending[c], cfg[c], plan[c]>>
      BY <1>0, <1>3, <2>2, CallFrame
    <3>2. CASE Busy(d)
      <4>1. ~ Busy(c)
        BY <1>0, <2>2, <3>2, Alone
      <4> QED
        BY <1>1, <3>1, <4>1 DEF Busy
    <3>3. CASE ~ Busy(d)
      BY <1>2, <1>3, <3>1, <3>3, IdleKeeps
    <3> QED
      BY <3>2, <3>3
  <2> QED
    BY <2>1, <2>2
<1>4. CASE StartupStep
  <2>1. pc'[c] = pc[c] /\ pc[c] \notin Active
    BY <1>0, <1>4, StartupFrame DEF ExclusiveInv, Exclusive
  <2> QED
    BY <1>1, <2>1 DEF Active
<1>5. CASE Crash
  <2>1. pc'[c] \notin Running \union Sweeping
    BY <1>0, <1>5 DEF Crash, Active, Running, Sweeping
  <2> QED
    BY <1>1, <2>1
<1>6. CASE (\E p \in Pairs : Unblock(p)) \/ Quiescent \/ UNCHANGED vars
  BY <1>2, <1>6 DEF Unblock, Quiescent, vars
<1> QED
  BY <1>3, <1>4, <1>5, <1>6 DEF Next

\* A run that will not be swept any more: it is past its own sweep, and startup
\* does not take it for an orphan.
Safe(r) ==
  /\ pc[r] \in Finished \union {"mark", "append", "release"}
  /\ SingleProcess => r \notin Orphans

\* What pipeline p always writes for item i is there, owned by such runs.
Backs(p, i) ==
  \A s \in Points[p][i] :
    /\ s \in graph
    /\ s \in Indexed => s \in vectors
    /\ \E q \in ledger : q.slug = s /\ Safe(q.run)

Backed == \A m \in markers : \E p \in Pipelines : Backs(p, m[2])

MarkedInv == OrphanInv /\ SparesInv /\ SweptInv /\ Written /\ Backed

LEMMA SafeStays ==
  ASSUME NoLostRows, OrphanInv, [Next]_vars, NEW r \in Calls, Safe(r)
  PROVE  Safe(r)'
<1> USE DEF local, stores, trail
<1>0. /\ TypeInv /\ ExclusiveInv /\ RecordedInv /\ RecordedInv' /\ Linked
      /\ pc \in [Actors -> {"idle", "up"} \union Active \union Recovering \union Finished]
      /\ runRow \in [Calls -> Statuses] /\ r \in Actors /\ r # Startup
  BY RecordedNext, CallAssumption
  DEF OrphanInv, RecordedInv, LinkInv, ExclusiveInv, TypeInv, TypeOK, Actors
<1>1. pc[r] \in Finished \union {"mark", "append", "release"} /\ (SingleProcess => r \notin Orphans)
  BY DEF Safe
<1>2. ASSUME pc'[r] \in {"mark", "append", "release", "done"}
      PROVE  Safe(r)'
  BY <1>0, <1>2 DEF Safe, RecordedInv, Recorded, RecordedAt, Logged, Finished
<1>3. ASSUME pc'[r] = pc[r] \/ pc'[r] = "dead", runRow'[r] = runRow[r] \/ runRow'[r] = "errored"
      PROVE  Safe(r)'
  BY <1>1, <1>3 DEF Safe, Orphans, Finished
<1>4. ASSUME NEW d \in Calls, (\E k \in Configs : Begin(d, k)) \/ CallStep(d) \/ Drop(d)
      PROVE  Safe(r)'
  <2>1. CASE d # r
    BY <1>0, <1>3, <1>4, <2>1, CallFrame
  <2>2. CASE d = r
    <3>1. ~ (\E k \in Configs : Begin(r, k)) /\ (CallStep(r) \/ Drop(r))
      BY <1>1, <1>4, <2>2 DEF Begin, Finished
    <3>2. pc[r] \in {"mark", "append", "release"}
      BY <1>0, <1>1, <3>1, Onward DEF Active, Entering, Running, Sweeping, Finished
    <3>3. CASE Drop(r)
      BY <1>0, <1>3, <3>3 DEF Drop, Goto
    <3>4. CASE CallStep(r)
      <4>1. Mark(r) \/ Append(r) \/ Release(r)
        BY <3>2, <3>4 DEF CallStep, Execute, Finish, Qualify, Claim, Filter, LogInitiated, LogStarted, Extract,
           StageAbort, OwnExtracted, WriteExtracted, OwnPoints, WritePoints, Own, WriteGraph, Index,
           LogCompleted, LogErrored, Fail, Teardown, WriteDlt, TeardownFail, Sweep, SweepAffected, SweepNodes,
           SweepEdges, SweepTexts, SweepGraph, SweepVectors, SweepEdgeRows, SweepNodeRows, SweepRows,
           SweepMarkers, SweepFail, Sweeping
      <4>2. pc'[r] \in {"append", "release", "done"}
        BY <1>0, <4>1 DEF Mark, Append, Release, Goto
      <4> QED
        BY <1>2, <4>2
    <3> QED
      BY <3>1, <3>3, <3>4
  <2> QED
    BY <2>1, <2>2
<1>5. CASE StartupStep
  <2>1. runRow'[r] = runRow[r] \/ runRow'[r] = "errored"
    BY <1>0, <1>5, StartupFrame DEF ResetOrphans
  <2> QED
    BY <1>0, <1>3, <1>5, <2>1, StartupFrame
<1>6. CASE Crash
  BY <1>0, <1>3, <1>6 DEF Crash
<1>7. ASSUME NEW p \in Pairs, Unblock(p)
      PROVE  Safe(r)'
  BY <1>0, <1>3, <1>7 DEF Unblock
<1>8. CASE Quiescent \/ UNCHANGED vars
  BY <1>3, <1>8 DEF Quiescent, vars
<1> QED
  BY <1>4, <1>5, <1>6, <1>7, <1>8 DEF Next

\* No sweep selects a row of such a run.
LEMMA SafeOutside ==
  ASSUME OrphanInv, SweptInv, NEW a \in Actors, pc[a] \in Sweeping, NEW q \in ledger, Safe(q.run)
  PROVE  q \notin Selection(sw[a])
<1>1. CASE a \in Calls
  <2>1. sw[a].run = a
    BY <1>1 DEF SweptInv, SweptAt
  <2>2. ~ Safe(a)
    BY DEF Safe, Sweeping, Finished
  <2> QED
    BY <2>1, <2>2 DEF Selection
<1>2. CASE a = Startup
  <2>1. sw[a].run \in Orphans /\ SingleProcess
    BY <1>2 DEF OrphanInv, QueueOrphans, ResetDone, Sweeping
  <2> QED
    BY <2>1 DEF Selection, Safe
<1> QED
  BY <1>1, <1>2 DEF Actors

\* What stands behind a marker stays.
LEMMA BackedKeeps ==
  ASSUME PointsClosed, NoLostRows, MarkedInv, [Next]_vars, NEW p \in Pipelines, NEW i \in Items, Backs(p, i)
  PROVE  Backs(p, i)'
<1> USE DEF local, stores, trail
<1>0. TypeInv /\ OrphanInv /\ SweptInv /\ \A q \in ledger : q.run \in Calls
  BY DEF MarkedInv, SparesInv, ExclusiveInv, TypeInv, TypeOK, Row
<1>1. \A q \in ledger : Safe(q.run) => Safe(q.run)'
  BY <1>0, SafeStays
<1>2. ASSUME NEW a \in Actors, Sweep(a)
      PROVE  Backs(p, i)'
  <2>1. pc[a] \in Sweeping /\ SparesAt(a)
    BY <1>2 DEF MarkedInv, SparesInv, Sweep, SweepAffected, SweepNodes, SweepEdges, SweepTexts, SweepGraph,
       SweepVectors, SweepEdgeRows, SweepNodeRows, SweepRows, SweepMarkers, SweepFail, Sweeping
  <2>2. \A q \in ledger : Safe(q.run) => q \in ledger \ Selection(sw[a])
    BY <1>0, <2>1, SafeOutside
  <2>3. \A e \in Points[p][i] \cap Edges : Ends[e] \subseteq Points[p][i]
    BY DEF PointsClosed
  <2>4. \A s \in Points[p][i] : \E q \in ledger \ Selection(sw[a]) : q.slug = s
    BY <2>2 DEF Backs
  <2>5. /\ graph \cap Points[p][i] \subseteq graph' /\ vectors \cap Points[p][i] \subseteq vectors'
        /\ ledger \ Selection(sw[a]) \subseteq ledger'
    BY <1>0, <1>2, <2>1, <2>3, <2>4, Protected
  <2> QED
    BY <1>1, <2>2, <2>5 DEF Backs
<1>3. CASE ~ \E a \in Actors : Sweep(a)
  <2>1. graph \subseteq graph' /\ vectors \subseteq vectors'
    BY <1>0, <1>3, Deletions DEF Sweep
  <2>2. ledger \subseteq ledger'
    <3>1. ASSUME NEW c \in Calls, (\E k \in Configs : Begin(c, k)) \/ CallStep(c) \/ Drop(c)
          PROVE  ledger \subseteq ledger'
      <4>1. ~ Sweep(c)
        BY <1>3 DEF Actors
      <4>2. CASE OwnExtracted(c) \/ OwnPoints(c) \/ Teardown(c)
        BY <4>2 DEF OwnExtracted, OwnPoints, Own, Teardown, Upsert
      <4>3. CASE \/ (\E k \in Configs : Begin(c, k)) \/ Drop(c) \/ Qualify(c) \/ Claim(c) \/ Filter(c) \/ Extract(c)
                 \/ StageAbort(c) \/ WriteExtracted(c) \/ WritePoints(c) \/ Index(c) \/ Fail(c)
                 \/ LogInitiated(c) \/ LogStarted(c) \/ LogCompleted(c) \/ LogErrored(c)
                 \/ WriteDlt(c) \/ TeardownFail(c) \/ Mark(c) \/ Append(c) \/ Release(c)
        BY <4>3 DEF Begin, Drop, Qualify, Claim, Filter, Extract, StageAbort, WriteExtracted, WritePoints,
           WriteGraph, Index, Fail, LogInitiated, LogStarted, LogCompleted, LogErrored, WriteDlt, TeardownFail,
           Mark, Append, Release
      <4> QED
        BY <3>1, <4>1, <4>2, <4>3 DEF CallStep, Execute, Finish
    <3>2. CASE StartupStep \/ Crash \/ (\E r \in Pairs : Unblock(r)) \/ Quiescent \/ UNCHANGED vars
      BY <1>3, <3>2 DEF StartupStep, ListOrphans, NextOrphan, ResetOrphans, ReleaseAll, Crash, Unblock, Quiescent,
         vars, Actors
    <3> QED
      BY <3>1, <3>2 DEF Next
  <2> QED
    BY <1>1, <2>1, <2>2 DEF Backs
<1> QED
  BY <1>2, <1>3

\* Only update_marker adds markers.
LEMMA NewMarkers ==
  ASSUME [Next]_vars, NEW m \in markers', m \notin markers
  PROVE  \E c \in Calls : Mark(c) /\ m[2] \in Survivors(c)
<1> USE DEF local, stores, trail
<1>1. ASSUME NEW a \in Actors, Sweep(a)
      PROVE  markers' \subseteq markers
  BY <1>1 DEF Sweep, SweepAffected, SweepNodes, SweepEdges, SweepTexts, SweepGraph, SweepVectors, SweepEdgeRows,
     SweepNodeRows, SweepRows, SweepMarkers, SweepFail
<1>2. ASSUME NEW c \in Calls, (\E k \in Configs : Begin(c, k)) \/ Drop(c) \/ Qualify(c) \/ Claim(c) \/ Filter(c)
                              \/ Execute(c) \/ (Finish(c) /\ ~ Mark(c))
      PROVE  markers' = markers
  BY <1>2 DEF Begin, Drop, Qualify, Claim, Filter, Execute, Finish, LogInitiated, LogStarted, Extract, StageAbort,
     OwnExtracted, WriteExtracted, OwnPoints, WritePoints, Own, WriteGraph, Index, LogCompleted, LogErrored,
     Fail, Teardown, WriteDlt, TeardownFail, Append, Release
<1>3. CASE ListOrphans \/ NextOrphan \/ ResetOrphans \/ ReleaseAll \/ Crash \/ (\E p \in Pairs : Unblock(p))
           \/ Quiescent \/ UNCHANGED vars
  BY <1>3 DEF ListOrphans, NextOrphan, ResetOrphans, ReleaseAll, Crash, Unblock, Quiescent, vars
<1>4. PICK c \in Calls : Mark(c)
  BY <1>1, <1>2, <1>3 DEF Next, CallStep, StartupStep, Actors, Finish
<1>5. m \in {cfg[c].dataset} \X Survivors(c)
  BY <1>4 DEF Mark
<1> QED
  BY <1>4, <1>5

\* A call that marks its survivors has what it owes them, from runs that are
\* over or from its own.
LEMMA MarkBacks ==
  ASSUME OnePair, NoLostRows, MarkedInv, [Next]_vars, NEW c \in Calls, Mark(c), NEW i \in Survivors(c),
         NEW p, p = cfg[c].pipeline
  PROVE  Backs(p, i)'
<1> USE DEF local, stores, trail
<1>0. /\ OrphanInv /\ ExclusiveInv /\ TypeInv /\ RecordedInv' /\ Calls \subseteq Actors
      /\ pc \in [Actors -> {"idle", "up"} \union Active \union Recovering \union Finished]
      /\ \A q \in ledger : q.run \in Calls /\ RowsAt(q.run)
  BY RecordedNext DEF MarkedInv, OrphanInv, SparesInv, SweptInv, RowsInv, ExclusiveInv, TypeInv, TypeOK, Row, Actors
<1>1. /\ DueOwned(c) /\ Due(c) \subseteq graph /\ Due(c) \cap Indexed \subseteq vectors
      /\ Points[p][i] \subseteq Due(c)
  BY DEF MarkedInv, Written, WrittenAt, Settling, Mark, Due
<1>2. UNCHANGED <<ledger, graph, vectors, runRow>> /\ pc'[c] \in {"append", "release"}
      /\ pc[c] = "mark" /\ \A d \in Calls : d # c => pc'[d] = pc[d]
  BY <1>0 DEF Mark, Goto
<1>3. Safe(c)'
  BY <1>0, <1>2 DEF Safe, RecordedInv, Recorded, RecordedAt, Logged
<1>4. ASSUME NEW q \in ledger, q.run # c
      PROVE  Safe(q.run)'
  <2>1. pc[q.run] \notin NotRunning /\ ~ Busy(q.run) /\ q.run # Startup
    BY <1>0, <1>2, <1>4, Alone, CallAssumption DEF RowsAt, Busy, Running
  <2>2. pc[q.run] \in {"idle"} \union Active \union Finished
    BY <1>0 DEF TypeInv, Placed
  <2>3. pc[q.run] \in Finished
    BY <2>1, <2>2 DEF NotRunning, Busy, Active
  <2>4. SingleProcess => q.run \notin Orphans
    <3>1. pc[Startup] = "up"
      BY <1>0, ActsWhenUp DEF CallStep, Finish
    <3> QED
      BY <1>0, <2>3, <3>1 DEF OrphanInv, UpClean
  <2> QED
    BY <1>0, <1>2, <1>4, <2>3, <2>4 DEF Safe, Orphans
<1>5. \A q \in ledger' : Safe(q.run)'
  BY <1>2, <1>3, <1>4
<1> QED
  BY <1>1, <1>2, <1>5 DEF Backs, DueOwned

LEMMA MarkedInit == Init => MarkedInv
<1> SUFFICES ASSUME Init
             PROVE  Written /\ Backed
  BY OrphanInit, SparesInit, SweptInit DEF MarkedInv
<1>1. \A c \in Calls : pc[c] = "idle"
  BY CallAssumption DEF Init, Actors
<1> QED
  BY <1>1 DEF Init, Written, WrittenAt, Settling, Sweeping, Backed

LEMMA MarkedNext ==
  ASSUME OnePair, PointsClosed, NoLostRows, NoDrops
  PROVE  MarkedInv /\ [Next]_vars => MarkedInv'
<1> SUFFICES ASSUME MarkedInv, [Next]_vars, NEW m \in markers'
             PROVE  \E p \in Pipelines : Backs(p, m[2])'
  BY OrphanNext, SparesNext, SweptNext, WrittenNext DEF MarkedInv, Backed
<1>1. TypeInv
  BY DEF MarkedInv, SparesInv, ExclusiveInv
<1>2. CASE m \in markers
  <2>1. PICK p \in Pipelines : Backs(p, m[2])
    BY <1>2 DEF MarkedInv, Backed
  <2>2. m[2] \in Items
    BY <1>1, <1>2 DEF TypeInv, TypeOK
  <2> QED
    BY <2>1, <2>2, BackedKeeps
<1>3. CASE m \notin markers
  <2>1. PICK c \in Calls : Mark(c) /\ m[2] \in Survivors(c)
    BY <1>3, NewMarkers
  <2>2. PICK p \in Pipelines : p = cfg[c].pipeline
    <3>1. cfg[c] \in Configs
      BY <1>1, <2>1 DEF Mark, TypeInv, Configured
    <3> QED
      BY <3>1, ConfigFields
  <2>3. Backs(p, m[2])'
    BY <2>1, <2>2, MarkBacks
  <2> QED
    BY <2>3
<1> QED
  BY <1>2, <1>3

\* An item that update_marker has marked, and that incremental loading skips
\* from then on, keeps everything its pipeline always writes for it, in the
\* graph and in the vector store, through failed and tolerant runs, their
\* sweeps, crashes and startup recovery: the runs that own it are past their
\* own sweep and on record as over, so no sweep ever selects them.
THEOREM MarkersSound ==
  ASSUME OnePair, PointsClosed, NoLostRows, NoDrops
  PROVE  Spec => []MarkerSound
<1>1. Spec => []MarkedInv
  BY MarkedInit, MarkedNext, PTL DEF Spec
<1>2. MarkedInv => MarkerSound
  BY DEF MarkedInv, Backed, Backs, MarkerSound
<1> QED
  BY <1>1, <1>2, PTL
=============================================================================
