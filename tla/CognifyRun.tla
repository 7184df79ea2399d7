----------------------------- MODULE CognifyRun -----------------------------
(***************************************************************************)
(* One call of cognify(), from the qualification gate to the release of    *)
(* its claim: what it writes to the ownership ledger, the graph, the       *)
(* vector store, the completion markers and the run trail, how a failed    *)
(* run is swept, and how startup rolls back the runs a crash left behind.  *)
(*                                                                         *)
(* Artifacts are named by slugs.  A ledger row says that a run wrote an    *)
(* artifact for a data item of a dataset; a slug is in `graph' or in       *)
(* `vectors' when the store holds it.  Every statement of the code that    *)
(* reaches a store is a step of its own, so that a failure, a dropped      *)
(* future, a crash or another call may come between any two of them.       *)
(***************************************************************************)
EXTENDS Naturals, FiniteSets

CONSTANTS
  Datasets,       \* datasets sharing one graph store and one vector store
  Items,          \* data items
  NilItem,        \* the data id of rows that belong to no single item
  Nodes, Edges,   \* slugs of graph nodes and of graph edges
  Texts,          \* retrieval texts, the identity of an EdgeType point
  Ends,           \* Ends[e]: the two endpoints of an edge
  TextOf,         \* TextOf[e]: the retrieval text of an edge
  Spanning,       \* slugs whose rows carry the nil data id
  Indexed,        \* slugs that get a vector point of their own
  Unsupported,    \* items classification finds no document type for
  Points,         \* Points[p][i]: what pipeline p always writes for item i
  Yields,         \* Yields[p][i]: the sets the LLM may extract from item i
  DltRows,        \* DltRows[i]: what the DLT teardown writes for item i
  Calls,          \* calls of cognify(); a call's run has the call's name
  Startup,        \* the startup recovery of the process
  Configs,        \* the arguments a caller may pass
  Faults,         \* which failures the environment may produce
  SingleProcess,  \* Settings::resolved_single_process
  MaxCrashes,     \* bound on process crashes
  None

Pipelines == {"cognify_pipeline", "temporal-cognify"}
Scopes == {"WholeRun", "FailedItems", "Nothing"}
Stops == {"FailFast", "RunToEnd"}
FaultKinds == {"fail", "sweep", "rows", "markers", "claims", "drop", "unblock"}

Slugs == Nodes \union Edges
Owners == Items \union {NilItem}
Pairs == Datasets \X Pipelines
Actors == Calls \union {Startup}
Entries == Owners \X Slugs

ConfigType ==
  [dataset: Datasets, pipeline: Pipelines, items: SUBSET Items, scope: Scopes,
   stop: Stops, incremental: BOOLEAN, cache: BOOLEAN]

ASSUME StoreAssumption ==
  /\ Nodes \cap Edges = {}
  /\ Slugs \cap Texts = {}
  /\ Ends \in [Edges -> SUBSET Nodes]
  /\ TextOf \in [Edges -> Texts]
  /\ Spanning \subseteq Slugs
  /\ Indexed \subseteq Slugs

ASSUME WorkAssumption ==
  /\ NilItem \notin Items
  /\ Unsupported \subseteq Items
  /\ Points \in [Pipelines -> [Items -> SUBSET Slugs]]
  /\ Yields \in [Pipelines -> [Items -> SUBSET SUBSET Slugs]]
  /\ DltRows \in [Items -> SUBSET Slugs]

ASSUME CallAssumption ==
  /\ Startup \notin Calls
  /\ None \notin Calls
  /\ Configs \subseteq ConfigType
  /\ Faults \subseteq FaultKinds
  /\ SingleProcess \in BOOLEAN
  /\ MaxCrashes \in Nat

VARIABLES
  pc,        \* pc[a]: the step an actor is about to take
  cfg,       \* cfg[c]: the arguments of the call
  plan,      \* plan[c]: what the run set out to do, see PlanType
  ending,    \* ending[c]: how the call ended, the outcome it returns
  sw,        \* sw[a]: the local variables of the actor's sweep
  queue,     \* orphaned runs startup has still to sweep
  ledger,    \* ownership rows of the relational store
  graph,     \* nodes and edges in the graph store
  vectors,   \* points in the vector store
  markers,   \* completion markers, pairs of a dataset and an item
  runRow,    \* runRow[c]: status of the latest row of the run
  latest,    \* latest[p]: the latest row of the pair p
  claims,    \* claims[p]: the call that holds the exclusive-run claim
  crashes    \* crashes so far

local == <<cfg, plan, ending>>
stores == <<ledger, graph, vectors, markers>>
trail == <<runRow, latest, claims>>
vars == <<pc, local, sw, queue, stores, trail, crashes>>

-----------------------------------------------------------------------------
(* The ledger. *)

Row == [dataset: Datasets, item: Owners, slug: Slugs, run: Calls]

\* A row is keyed by dataset, item and slug; on conflict the stored row, with
\* the run that created it, stays.
Upsert(rows, d, entries, r) ==
  rows \union
    {[dataset |-> d, item |-> e[1], slug |-> e[2], run |-> r] :
       e \in {f \in entries : ~ \E q \in rows :
                q.dataset = d /\ q.item = f[1] /\ q.slug = f[2]}}

SlugsOf(entries) == {e[2] : e \in entries}

\* The rows a sweep scope selects, and the slugs no row outside it claims.
Selection(s) ==
  {q \in ledger : q.run = s.run /\ q.dataset = s.dataset /\ q.item \in s.items}

ClaimedOutside(s) == {q.slug : q \in ledger \ Selection(s)}

\* Mutant: every slug the scope selects, claimed elsewhere or not.
UniqueSelected(s) == {q.slug : q \in Selection(s)}

Unique(s) == {q.slug : q \in Selection(s)} \ ClaimedOutside(s)

TextsClaimedOutside(s) == {TextOf[e] : e \in ClaimedOutside(s) \cap Edges}

\* What the ledger accounts for: the slugs of its rows, and the retrieval
\* texts of its edges.
Accounted(rows) ==
  {q.slug : q \in rows} \union {TextOf[e] : e \in {q.slug : q \in rows} \cap Edges}

-----------------------------------------------------------------------------
(* Helpers on calls. *)

PairOf(c) == <<cfg[c].dataset, cfg[c].pipeline>>
Temporal(c) == cfg[c].pipeline = "temporal-cognify"

NoPlan ==
  [todo |-> {}, failed |-> {}, unreached |-> {}, ex |-> {}, pts |-> {},
   dlt |-> {}, known |-> {}]

NoSweep ==
  [run |-> None, dataset |-> None, items |-> {}, affected |-> {}, nodes |-> {},
   edges |-> {}, texts |-> {}, failed |-> FALSE]

NoRow == [run |-> None, status |-> "none", outstanding |-> FALSE]

Outstanding(c) == plan[c].failed \union plan[c].unreached

Attributed(i, s) == <<IF s \in Spanning THEN NilItem ELSE i, s>>

\* The steps of a call, by phase.
Entering == {"qualify", "claim"}
Running == {"filter", "initiate", "start", "extract", "own1", "graph1", "own2",
            "graph2", "index", "rowOk", "teardown", "graph3", "rowErr", "mark",
            "append", "release"}
Sweeping == {"swAffected", "swNodes", "swEdges", "swTexts", "swGraph",
             "swVector", "swEdgeRows", "swNodeRows", "swMarkers"}
Recovering == {"list", "next", "reset", "releaseAll"}
Active == Entering \union Running \union Sweeping
Finished == {"done", "dead"}

Endings == {"none", "cached", "running", "refused", "noop", "completed",
            "errored", "teardown"}

Goto(a, s) == pc' = [pc EXCEPT ![a] = s]

\* What is left of a call's local variables when it is over.
Spent(p) == [p EXCEPT !.ex = {}, !.pts = {}, !.dlt = {}, !.known = {}]
SweepOver(s, f) == [NoSweep EXCEPT !.run = s.run, !.failed = f]

\* The call ends in e and goes on at step s.
EndIn(c, e, s) == ending' = [ending EXCEPT ![c] = e] /\ Goto(c, s)

-----------------------------------------------------------------------------
(* The entry: qualification gate, claim, marker filter. *)

Begin(c, k) ==
  /\ pc[c] = "idle"
  /\ pc[Startup] = "up"
  /\ cfg' = [cfg EXCEPT ![c] = k]
  /\ Goto(c, "qualify")
  /\ UNCHANGED <<plan, ending, sw, queue, stores, trail, crashes>>

\* The latest row of the pair decides: a completed run is a cache hit when
\* the caller asked for the cache and the row lists nothing outstanding; a
\* started one refuses the call.
CacheHit(c) ==
  /\ latest[PairOf(c)].status = "completed"
  /\ cfg[c].cache
  /\ ~ latest[PairOf(c)].outstanding

Qualify(c) ==
  /\ pc[c] = "qualify"
  /\ \/ CacheHit(c) /\ EndIn(c, "cached", "done")
     \/ latest[PairOf(c)].status = "started" /\ EndIn(c, "running", "done")
     \/ /\ ~ CacheHit(c)
        /\ latest[PairOf(c)].status # "started"
        /\ Goto(c, "claim")
        /\ UNCHANGED ending
     \/ "fail" \in Faults /\ EndIn(c, "refused", "done")
  /\ UNCHANGED <<cfg, plan, sw, queue, stores, trail, crashes>>

\* The claim is free, or its holder is gone and the claim has aged past
\* CLAIM_STALE_AFTER (no call is taken to run for a day).
Claimable(p) == claims[p] = None \/ (claims[p] \in Calls /\ pc[claims[p]] \in Finished)

Claim(c) ==
  /\ pc[c] = "claim"
  /\ \/ /\ Claimable(PairOf(c))
        /\ claims' = [claims EXCEPT ![PairOf(c)] = c]
        /\ Goto(c, "filter")
        /\ UNCHANGED ending
     \/ claims[PairOf(c)] # None /\ EndIn(c, "running", "done") /\ UNCHANGED claims
     \/ "fail" \in Faults /\ EndIn(c, "refused", "done") /\ UNCHANGED claims
  /\ UNCHANGED <<cfg, plan, sw, queue, stores, runRow, latest, crashes>>

Marked(d) == {i \in Items : <<d, i>> \in markers}

\* The items the run is responsible for.
Remaining(c) ==
  IF cfg[c].incremental THEN cfg[c].items \ Marked(cfg[c].dataset) ELSE cfg[c].items

Filter(c) ==
  /\ pc[c] = "filter"
  /\ \/ /\ Remaining(c) = {}
        /\ EndIn(c, "noop", "release")
        /\ UNCHANGED plan
     \/ /\ Remaining(c) # {}
        /\ plan' = [plan EXCEPT ![c].todo = Remaining(c)]
        /\ Goto(c, "initiate")
        /\ UNCHANGED ending
     \/ "fail" \in Faults /\ EndIn(c, "refused", "release") /\ UNCHANGED plan
  /\ UNCHANGED <<cfg, sw, queue, stores, trail, crashes>>

-----------------------------------------------------------------------------
(* The run trail.  Every write to it is best effort. *)

RowOf(c, s, o) == [run |-> c, status |-> s, outstanding |-> o]

LogRow(c, s, o) ==
  \/ /\ runRow' = [runRow EXCEPT ![c] = s]
     /\ latest' = [latest EXCEPT ![PairOf(c)] = RowOf(c, s, o)]
  \/ "rows" \in Faults /\ UNCHANGED <<runRow, latest>>

LogInitiated(c) ==
  /\ pc[c] = "initiate"
  /\ LogRow(c, "initiated", FALSE)
  /\ Goto(c, "start")
  /\ UNCHANGED <<local, sw, queue, stores, claims, crashes>>

LogStarted(c) ==
  /\ pc[c] = "start"
  /\ LogRow(c, "started", FALSE)
  /\ Goto(c, "extract")
  /\ UNCHANGED <<local, sw, queue, stores, claims, crashes>>

\* The executor's own terminal row never lists failures.
LogCompleted(c) ==
  /\ pc[c] = "rowOk"
  /\ LogRow(c, "completed", FALSE)
  /\ Goto(c, "teardown")
  /\ UNCHANGED <<local, sw, queue, stores, claims, crashes>>

-----------------------------------------------------------------------------
(* The executor: classification, chunking, extraction beside summarisation, *)
(* then the two persistence rounds, each writing its ownership rows first.  *)

\* Edges keep only if both endpoints were extracted by some item of the run.
Resolved(entries) ==
  {e \in entries : e[2] \in Edges => Ends[e[2]] \subseteq SlugsOf(entries)}

EntriesOf(kept, f) == UNION {{Attributed(i, s) : s \in f[i]} : i \in kept}

\* The files a stage may fail on or leave unreached: fx while chunking or
\* extracting, fs while summarising, ux and us never attempted after FailFast.
Losses(c) ==
  {l \in [fx : SUBSET (plan[c].todo \ Unsupported), fs : SUBSET (plan[c].todo \ Unsupported),
          ux : SUBSET (plan[c].todo \ Unsupported), us : SUBSET (plan[c].todo \ Unsupported)] :
     /\ l.fs # {} => ~ Temporal(c)
     /\ l.ux # {} => cfg[c].stop = "FailFast" /\ l.fx # {}
     /\ l.us # {} => cfg[c].stop = "FailFast" /\ ~ Temporal(c)}

FailedBy(l) == l.fx \union l.fs

\* A file that failed anywhere is not unreached; a file of an unsupported type
\* is unreached under every policy.
UnreachedBy(c, l) == (l.ux \union l.us \union (plan[c].todo \cap Unsupported)) \ FailedBy(l)

\* A FailFast abort of chunking or extraction persists only complete files;
\* summarisation runs beside extraction and filters nothing.
Kept(c, l) ==
  IF cfg[c].stop = "FailFast" /\ l.fx # {}
  THEN plan[c].todo \ (Unsupported \union l.fx \union l.ux)
  ELSE plan[c].todo \ Unsupported

\* A FailFast abort ends the run at once unless failed files are tolerated.
StageAborts(c, l) ==
  cfg[c].stop = "FailFast" /\ l.fx # {} /\ cfg[c].scope # "FailedItems"

\* What the run goes on to write when the LLM yields y and the pieces `some' of
\* the files that failed were still produced.
PlanOf(c, l, y, some) ==
  LET kept == Kept(c, l)
      found == Resolved(EntriesOf(kept, y))
      fixed == EntriesOf(kept \ FailedBy(l), Points[cfg[c].pipeline]) \union some
  IN [todo |-> plan[c].todo,
      failed |-> FailedBy(l),
      unreached |-> UnreachedBy(c, l),
      ex |-> IF Temporal(c) THEN {} ELSE found,
      pts |-> IF Temporal(c) THEN found \union fixed ELSE fixed,
      dlt |-> IF Temporal(c) THEN {} ELSE EntriesOf(kept, DltRows),
      known |-> graph \cap Edges]

Extract(c) ==
  /\ pc[c] = "extract"
  /\ \E l \in Losses(c) :
       /\ ~ StageAborts(c, l)
       /\ \E y \in [Kept(c, l) -> UNION {Yields[cfg[c].pipeline][i] : i \in Items}],
             some \in SUBSET EntriesOf(Kept(c, l) \cap FailedBy(l), Points[cfg[c].pipeline]) :
            /\ \A i \in Kept(c, l) : y[i] \in Yields[cfg[c].pipeline][i]
            /\ plan' = [plan EXCEPT ![c] = PlanOf(c, l, y, some)]
  /\ Goto(c, IF Temporal(c) THEN "own2" ELSE "own1")
  /\ UNCHANGED <<cfg, ending, sw, queue, stores, trail, crashes>>

StageAbort(c) ==
  /\ pc[c] = "extract"
  /\ \E l \in Losses(c) :
       /\ StageAborts(c, l)
       /\ plan' = [plan EXCEPT ![c].failed = FailedBy(l), ![c].unreached = UnreachedBy(c, l)]
  /\ Goto(c, "rowErr")
  /\ UNCHANGED <<cfg, ending, sw, queue, stores, trail, crashes>>

\* Rows before artifacts, in both rounds and in the DLT teardown.
Own(c, from, entries, to) ==
  /\ pc[c] = from
  /\ ledger' = Upsert(ledger, cfg[c].dataset, entries, c)
  /\ Goto(c, to)
  /\ UNCHANGED <<local, sw, queue, graph, vectors, markers, trail, crashes>>

WriteGraph(c, from, slugs, to) ==
  /\ pc[c] = from
  /\ graph' = graph \union slugs
  /\ Goto(c, to)
  /\ UNCHANGED <<local, sw, queue, ledger, vectors, markers, trail, crashes>>

\* An edge already in the graph is claimed, not written again and not indexed.
Fresh(c) == SlugsOf(plan[c].ex) \ plan[c].known

OwnExtracted(c) == Own(c, "own1", plan[c].ex, "graph1")
WriteExtracted(c) == WriteGraph(c, "graph1", Fresh(c), "own2")
\* Mutant: artifacts before the rows that own them.
OwnPointsLate(c) == WriteGraph(c, "own2", SlugsOf(plan[c].pts), "graph2")

OwnPoints(c) == Own(c, "own2", plan[c].pts, "graph2")
WritePoints(c) == WriteGraph(c, "graph2", SlugsOf(plan[c].pts), "index")

\* The points index_data_points writes: one per indexed slug, one per distinct
\* edge text; the temporal stage indexes its nodes only.
ToIndex(c) ==
  LET slugs == Fresh(c) \union SlugsOf(plan[c].pts)
  IN IF Temporal(c) THEN slugs \cap Indexed \cap Nodes
     ELSE (slugs \cap Indexed) \union {TextOf[e] : e \in slugs \cap Edges}

\* FailureReport::is_fatal.  Whether the failed chunks exceed the threshold
\* depends on chunk counts the model does not keep.
MayBeFatal(c) == plan[c].failed # {}
MustBeFatal(c) ==
  /\ plan[c].failed # {}
  /\ cfg[c].scope = "FailedItems" => plan[c].todo \subseteq Outstanding(c)

Index(c) ==
  /\ pc[c] = "index"
  /\ vectors' = vectors \union ToIndex(c)
  /\ \/ ~ MustBeFatal(c) /\ Goto(c, "rowOk")
     \/ MayBeFatal(c) /\ Goto(c, "rowErr")
  /\ UNCHANGED <<local, sw, queue, ledger, graph, markers, trail, crashes>>

\* A run-fatal failure (a store, the LLM, a cancellation) in any task of the
\* executor.  A graph or vector write may have been applied in part; the rows of
\* a round are one transaction.
Fail(c) ==
  /\ "fail" \in Faults
  /\ \/ pc[c] \in {"extract", "own1", "own2"} /\ UNCHANGED <<graph, vectors>>
     \/ /\ pc[c] = "graph1"
        /\ \E part \in SUBSET Fresh(c) : graph' = graph \union part
        /\ UNCHANGED vectors
     \/ /\ pc[c] = "graph2"
        /\ \E part \in SUBSET SlugsOf(plan[c].pts) : graph' = graph \union part
        /\ UNCHANGED vectors
     \/ /\ pc[c] = "index"
        /\ \E part \in SUBSET ToIndex(c) : vectors' = vectors \union part
        /\ UNCHANGED graph
  /\ Goto(c, "rowErr")
  /\ UNCHANGED <<local, sw, queue, ledger, markers, trail, crashes>>

-----------------------------------------------------------------------------
(* The policy layer: what a finished run sweeps, marks and records. *)

SweepOf(c, items) ==
  [NoSweep EXCEPT !.run = c, !.dataset = cfg[c].dataset, !.items = items]

\* decide_sweep for a failed run: everything, unless the scope is Nothing.
Settle(c, e, unswept) ==
  IF cfg[c].scope = "Nothing"
  THEN EndIn(c, e, unswept) /\ UNCHANGED sw
  ELSE EndIn(c, e, "swAffected") /\ sw' = [sw EXCEPT ![c] = SweepOf(c, Owners)]

\* decide_sweep for a completed run: the outstanding items, when they are
\* tolerated at all.
SettleCompleted(c) ==
  IF cfg[c].scope = "FailedItems" /\ Outstanding(c) # {}
  THEN EndIn(c, "completed", "swAffected")
       /\ sw' = [sw EXCEPT ![c] = SweepOf(c, Outstanding(c))]
  ELSE EndIn(c, "completed", "mark") /\ UNCHANGED sw

LogErrored(c) ==
  /\ pc[c] = "rowErr"
  /\ LogRow(c, "errored", FALSE)
  /\ Settle(c, "errored", "release")
  /\ UNCHANGED <<cfg, plan, queue, stores, claims, crashes>>

\* The DLT teardown runs after the executor wrote its COMPLETED row.
Teardown(c) ==
  /\ pc[c] = "teardown"
  /\ \/ /\ plan[c].dlt # {}
        /\ ledger' = Upsert(ledger, cfg[c].dataset, plan[c].dlt, c)
        /\ Goto(c, "graph3")
        /\ UNCHANGED <<ending, sw>>
     \/ plan[c].dlt = {} /\ SettleCompleted(c) /\ UNCHANGED ledger
  /\ UNCHANGED <<cfg, plan, queue, graph, vectors, markers, trail, crashes>>

WriteDlt(c) ==
  /\ pc[c] = "graph3"
  /\ graph' = graph \union SlugsOf(plan[c].dlt)
  /\ SettleCompleted(c)
  /\ UNCHANGED <<cfg, plan, queue, ledger, vectors, markers, trail, crashes>>

TeardownFail(c) ==
  /\ "fail" \in Faults
  /\ \/ pc[c] = "teardown" /\ UNCHANGED graph
     \/ /\ pc[c] = "graph3"
        /\ \E part \in SUBSET SlugsOf(plan[c].dlt) : graph' = graph \union part
  /\ Settle(c, "teardown", "append")
  /\ UNCHANGED <<cfg, plan, queue, ledger, vectors, markers, trail, crashes>>

\* Mutant: whoever owns a row is marked.
SurvivorsByRow(c) == {q.item : q \in {r \in ledger : r.run = c}} \ Outstanding(c)

Survivors(c) == plan[c].todo \ Outstanding(c)

\* One write per survivor; a write that fails is a warning.
Mark(c) ==
  /\ pc[c] = "mark"
  /\ LET marks == IF cfg[c].incremental THEN {cfg[c].dataset} \X Survivors(c) ELSE {}
     IN \/ markers' = markers \union marks
        \/ "markers" \in Faults /\ \E m \in SUBSET marks : markers' = markers \union m
  /\ Goto(c, IF Outstanding(c) # {} THEN "append" ELSE "release")
  /\ UNCHANGED <<local, sw, queue, ledger, graph, vectors, trail, crashes>>

\* Mutant: a failed teardown leaves the executor's COMPLETED row in place.
AppendOutstandingOnly(c) ==
  /\ pc[c] = "append"
  /\ IF ending[c] = "teardown" THEN UNCHANGED <<runRow, latest>> ELSE LogRow(c, "completed", TRUE)
  /\ Goto(c, "release")
  /\ UNCHANGED <<local, sw, queue, stores, claims, crashes>>

\* The row the executor could not write: ERRORED after a failed teardown,
\* COMPLETED with its outstanding files after a tolerant run.
Append(c) ==
  /\ pc[c] = "append"
  /\ IF ending[c] = "teardown" THEN LogRow(c, "errored", FALSE) ELSE LogRow(c, "completed", TRUE)
  /\ Goto(c, "release")
  /\ UNCHANGED <<local, sw, queue, stores, claims, crashes>>

Release(c) ==
  /\ pc[c] = "release"
  /\ \/ claims' = [claims EXCEPT ![PairOf(c)] = IF @ = c THEN None ELSE @]
     \/ "claims" \in Faults /\ UNCHANGED claims
  /\ plan' = [plan EXCEPT ![c] = Spent(@)]
  /\ Goto(c, "done")
  /\ UNCHANGED <<cfg, ending, sw, queue, stores, runRow, latest, crashes>>

-----------------------------------------------------------------------------
(* RunSweeper, run by a call for its own run and by startup for orphans. *)

\* Mutant: a failed sweep is tried again, without end.
AfterSweepRetry(a) ==
  IF sw'[a].failed THEN "swAffected"
  ELSE IF a = Startup THEN "next"
  ELSE IF ending[a] = "completed" THEN "mark"
  ELSE IF ending[a] = "teardown" THEN "append" ELSE "release"

AfterSweep(a) ==
  IF a = Startup THEN "next"
  ELSE IF ending[a] = "completed" THEN "mark"
  ELSE IF ending[a] = "teardown" THEN "append" ELSE "release"

SweepAffected(a) ==
  /\ pc[a] = "swAffected"
  /\ sw' = [sw EXCEPT ![a].affected = {q.item : q \in Selection(sw[a])}]
  /\ Goto(a, "swNodes")
  /\ UNCHANGED <<local, queue, stores, trail, crashes>>

SweepNodes(a) ==
  /\ pc[a] = "swNodes"
  /\ sw' = [sw EXCEPT ![a].nodes = Unique(sw[a]) \cap Nodes]
  /\ Goto(a, "swEdges")
  /\ UNCHANGED <<local, queue, stores, trail, crashes>>

SweepEdges(a) ==
  /\ pc[a] = "swEdges"
  /\ sw' = [sw EXCEPT ![a].edges = Unique(sw[a]) \cap Edges]
  /\ Goto(a, "swTexts")
  /\ UNCHANGED <<local, queue, stores, trail, crashes>>

SweepTexts(a) ==
  /\ pc[a] = "swTexts"
  /\ sw' = [sw EXCEPT ![a].texts =
       {TextOf[e] : e \in sw[a].edges} \ TextsClaimedOutside(sw[a])]
  /\ Goto(a, "swGraph")
  /\ UNCHANGED <<local, queue, stores, trail, crashes>>

\* Deleting a node deletes the edges at it.
Cascade(deleted) == deleted \union {e \in Edges : Ends[e] \cap deleted # {}}

SweepGraph(a) ==
  /\ pc[a] = "swGraph"
  /\ graph' = graph \ Cascade(sw[a].nodes)
  /\ Goto(a, "swVector")
  /\ UNCHANGED <<local, sw, queue, ledger, vectors, markers, trail, crashes>>

Doomed(a) == sw[a].nodes \union sw[a].edges \union sw[a].texts

SweepVectors(a) ==
  /\ pc[a] = "swVector"
  /\ vectors' = vectors \ Doomed(a)
  /\ Goto(a, "swEdgeRows")
  /\ UNCHANGED <<local, sw, queue, ledger, graph, markers, trail, crashes>>

\* Mutant: only the rows of exclusive artifacts go.
SweepExclusiveRows(a, from, kind, to) ==
  /\ pc[a] = from
  /\ ledger' = ledger \ {q \in Selection(sw[a]) : q.slug \in kind \cap Doomed(a)}
  /\ Goto(a, to)
  /\ UNCHANGED <<local, sw, queue, graph, vectors, markers, trail, crashes>>

\* The whole selection goes, exclusive or not.
SweepRows(a, from, kind, to) ==
  /\ pc[a] = from
  /\ ledger' = ledger \ {q \in Selection(sw[a]) : q.slug \in kind}
  /\ Goto(a, to)
  /\ UNCHANGED <<local, sw, queue, graph, vectors, markers, trail, crashes>>

SweepEdgeRows(a) == SweepRows(a, "swEdgeRows", Edges, "swNodeRows")
SweepNodeRows(a) == SweepRows(a, "swNodeRows", Nodes, "swMarkers")

\* Every affected item is attempted; a failure is reported at the end.
SweepMarkers(a) ==
  /\ pc[a] = "swMarkers"
  /\ LET marks == {sw[a].dataset} \X sw[a].affected
     IN \/ markers' = markers \ marks /\ sw' = [sw EXCEPT ![a] = SweepOver(@, FALSE)]
        \/ /\ "markers" \in Faults
           /\ \E m \in SUBSET marks : markers' = markers \ m
           /\ sw' = [sw EXCEPT ![a] = SweepOver(@, TRUE)]
  /\ Goto(a, AfterSweep(a))
  /\ UNCHANGED <<local, queue, ledger, graph, vectors, trail, crashes>>

\* Any statement before the markers may fail and ends the sweep; an artifact
\* deletion may have been applied in part.
SweepFail(a) ==
  /\ "sweep" \in Faults
  /\ pc[a] \in Sweeping \ {"swMarkers"}
  /\ \/ pc[a] \notin {"swGraph", "swVector"} /\ UNCHANGED <<graph, vectors>>
     \/ /\ pc[a] = "swGraph"
        /\ \E part \in SUBSET sw[a].nodes : graph' = graph \ Cascade(part)
        /\ UNCHANGED vectors
     \/ /\ pc[a] = "swVector"
        /\ \E part \in SUBSET Doomed(a) : vectors' = vectors \ part
        /\ UNCHANGED graph
  /\ sw' = [sw EXCEPT ![a] = SweepOver(@, TRUE)]
  /\ Goto(a, AfterSweep(a))
  /\ UNCHANGED <<local, queue, ledger, markers, trail, crashes>>

-----------------------------------------------------------------------------
(* Calls and processes that die, and what is done about it. *)

\* The future of a call is dropped at an await: a disconnect, a timeout.
Drop(c) ==
  /\ "drop" \in Faults
  /\ pc[c] \in Active
  /\ Goto(c, "dead")
  /\ plan' = [plan EXCEPT ![c] = Spent(@)]
  /\ sw' = [sw EXCEPT ![c] = NoSweep]
  /\ UNCHANGED <<cfg, ending, queue, stores, trail, crashes>>

\* The process dies with every call in it, and starts again.
Crash ==
  /\ crashes < MaxCrashes
  /\ crashes' = crashes + 1
  /\ pc' = [a \in Actors |->
       IF a = Startup THEN IF SingleProcess THEN "list" ELSE "up"
       ELSE IF pc[a] \in Active THEN "dead" ELSE pc[a]]
  /\ plan' = [c \in Calls |-> IF pc[c] \in Active THEN Spent(plan[c]) ELSE plan[c]]
  /\ sw' = [a \in Actors |-> IF pc[a] \in Active THEN NoSweep ELSE sw[a]]
  /\ queue' = {}
  /\ UNCHANGED <<cfg, ending, stores, trail>>

\* Mutant: only runs that never started are taken for orphans.
OrphansInitiated == {c \in Calls : runRow[c] = "initiated"}

\* Mutant: every run that is not on record as failed is taken for an orphan.
OrphansNotErrored == {c \in Calls : runRow[c] \notin {"none", "errored"}}

Orphans == {c \in Calls : runRow[c] \in {"initiated", "started"}}

ListOrphans ==
  /\ pc[Startup] = "list"
  /\ \/ queue' = Orphans
     \/ "sweep" \in Faults /\ queue' = {}
  /\ Goto(Startup, "next")
  /\ UNCHANGED <<local, sw, stores, trail, crashes>>

\* Mutant: an orphan is swept and stays in the queue.
NextOrphanAgain ==
  /\ pc[Startup] = "next"
  /\ \/ \E c \in queue :
          /\ sw' = [sw EXCEPT ![Startup] = SweepOf(c, Owners)]
          /\ Goto(Startup, "swAffected")
          /\ UNCHANGED queue
     \/ queue = {} /\ Goto(Startup, "reset") /\ UNCHANGED <<queue, sw>>
  /\ UNCHANGED <<local, stores, trail, crashes>>

NextOrphan ==
  /\ pc[Startup] = "next"
  /\ \/ \E c \in queue :
          /\ queue' = queue \ {c}
          /\ sw' = [sw EXCEPT ![Startup] = SweepOf(c, Owners)]
          /\ Goto(Startup, "swAffected")
     \/ queue = {} /\ Goto(Startup, "reset") /\ UNCHANGED <<queue, sw>>
  /\ UNCHANGED <<local, stores, trail, crashes>>

\* reset_orphans appends one ERRORED row per run in flight, swept or not, in no
\* particular order; an insert that fails ends it.
ResetOrphans ==
  /\ pc[Startup] = "reset"
  /\ \/ \E c \in Orphans :
          /\ runRow' = [runRow EXCEPT ![c] = "errored"]
          /\ latest' = [latest EXCEPT ![PairOf(c)] = RowOf(c, "errored", FALSE)]
          /\ Goto(Startup, "reset")
     \/ /\ Orphans = {} \/ "rows" \in Faults
        /\ Goto(Startup, "releaseAll")
        /\ UNCHANGED <<runRow, latest>>
  /\ UNCHANGED <<local, sw, queue, stores, claims, crashes>>

ReleaseAll ==
  /\ pc[Startup] = "releaseAll"
  /\ \/ claims' = [p \in Pairs |-> None]
     \/ "claims" \in Faults /\ UNCHANGED claims
  /\ Goto(Startup, "up")
  /\ UNCHANGED <<local, sw, queue, stores, runRow, latest, crashes>>

\* Mutant: a claim is taken for stuck whoever holds it.
StuckClaimHeld(p) == claims[p] # None

\* pipeline-unblock --clear, run by an operator who knows the holder is gone:
\* the started row is retired and the claim released; nothing is swept.
StuckRow(p) == latest[p].status = "started" /\ pc[latest[p].run] \in Finished
StuckClaim(p) == claims[p] # None /\ pc[claims[p]] \in Finished

Unblock(p) ==
  /\ "unblock" \in Faults
  /\ pc[Startup] = "up"
  /\ StuckRow(p) \/ StuckClaim(p)
  /\ IF StuckRow(p)
     THEN /\ runRow' = [runRow EXCEPT ![latest[p].run] = "errored"]
          /\ latest' = [latest EXCEPT ![p] = RowOf(latest[p].run, "errored", FALSE)]
     ELSE UNCHANGED <<runRow, latest>>
  /\ claims' = [claims EXCEPT ![p] = IF StuckClaim(p) THEN None ELSE @]
  /\ UNCHANGED <<pc, local, sw, queue, stores, crashes>>

-----------------------------------------------------------------------------
Init ==
  /\ pc = [a \in Actors |-> IF a = Startup THEN "up" ELSE "idle"]
  /\ cfg = [c \in Calls |-> None]
  /\ plan = [c \in Calls |-> NoPlan]
  /\ ending = [c \in Calls |-> "none"]
  /\ sw = [a \in Actors |-> NoSweep]
  /\ queue = {}
  /\ ledger = {} /\ graph = {} /\ vectors = {} /\ markers = {}
  /\ runRow = [c \in Calls |-> "none"]
  /\ latest = [p \in Pairs |-> NoRow]
  /\ claims = [p \in Pairs |-> None]
  /\ crashes = 0

Execute(c) ==
  \/ LogInitiated(c) \/ LogStarted(c)
  \/ Extract(c) \/ StageAbort(c)
  \/ OwnExtracted(c) \/ WriteExtracted(c) \/ OwnPoints(c) \/ WritePoints(c) \/ Index(c)
  \/ LogCompleted(c) \/ LogErrored(c) \/ Fail(c)

Finish(c) ==
  \/ Teardown(c) \/ WriteDlt(c) \/ TeardownFail(c)
  \/ Mark(c) \/ Append(c) \/ Release(c)

Sweep(a) ==
  \/ SweepAffected(a) \/ SweepNodes(a) \/ SweepEdges(a) \/ SweepTexts(a)
  \/ SweepGraph(a) \/ SweepVectors(a) \/ SweepEdgeRows(a) \/ SweepNodeRows(a) \/ SweepMarkers(a)
  \/ SweepFail(a)

CallStep(c) ==
  \/ Qualify(c) \/ Claim(c) \/ Filter(c)
  \/ Execute(c) \/ Finish(c) \/ Sweep(c)

StartupStep ==
  \/ ListOrphans \/ NextOrphan \/ ResetOrphans \/ ReleaseAll \/ Sweep(Startup)

\* Every call is over: the model, not the system, has run out of work.
Quiescent ==
  /\ \A c \in Calls : pc[c] \in Finished
  /\ pc[Startup] = "up"
  /\ UNCHANGED vars

Next ==
  \/ \E c \in Calls : (\E k \in Configs : Begin(c, k)) \/ CallStep(c) \/ Drop(c)
  \/ StartupStep
  \/ Crash
  \/ \E p \in Pairs : Unblock(p)
  \/ Quiescent

Spec == Init /\ [][Next]_vars

\* A call that is being polled takes its next step; calls are begun, dropped,
\* crashed and unblocked by the environment, which owes nothing.
Fairness ==
  /\ \A c \in Calls : WF_vars(CallStep(c))
  /\ WF_vars(StartupStep)

FairSpec == Spec /\ Fairness

-----------------------------------------------------------------------------
(* Properties. *)

PlanType ==
  [todo: SUBSET Items, failed: SUBSET Items, unreached: SUBSET Items,
   ex: SUBSET Entries, pts: SUBSET Entries, dlt: SUBSET Entries, known: SUBSET Edges]

SweepType ==
  [run: Calls \union {None}, dataset: Datasets \union {None}, items: SUBSET Owners,
   affected: SUBSET Owners, nodes: SUBSET Nodes, edges: SUBSET Edges,
   texts: SUBSET Texts, failed: BOOLEAN]

Statuses == {"none", "initiated", "started", "completed", "errored"}

RowType == [run: Calls \union {None}, status: Statuses, outstanding: BOOLEAN]

\* Every variable stays in its type: steps, plans and sweep locals of the calls,
\* rows, artifacts and markers of the stores.
TypeOK ==
  /\ pc \in [Actors -> {"idle", "up"} \union Active \union Recovering \union Finished]
  /\ cfg \in [Calls -> Configs \union {None}]
  /\ plan \in [Calls -> PlanType]
  /\ ending \in [Calls -> Endings]
  /\ sw \in [Actors -> SweepType]
  /\ queue \subseteq Calls
  /\ ledger \subseteq Row
  /\ graph \subseteq Slugs
  /\ vectors \subseteq Slugs \union Texts
  /\ markers \subseteq Datasets \X Items
  /\ runRow \in [Calls -> Statuses]
  /\ latest \in [Pairs -> RowType]
  /\ claims \in [Pairs -> Calls \union {None}]
  /\ crashes \in Nat

\* I1: no node of the graph store and no point of the vector store exists
\* without an ownership row, at any moment of a run, a sweep or a recovery.
\* (Graph edges are left out: an edge whose endpoints survive a sweep is the
\* documented residual of RunSweeper.)
I1 == (graph \cap Nodes) \union vectors \subseteq Accounted(ledger)

\* The exclusive-run claim: two calls that are both between claiming and
\* releasing work on different pairs of a dataset and a pipeline, and nothing
\* runs while startup recovers.
Busy(a) == pc[a] \in Running \union Sweeping \union Recovering
Serial ==
  \A a, b \in Actors : Busy(a) /\ Busy(b) /\ a # b =>
    a \in Calls /\ b \in Calls /\ PairOf(a) # PairOf(b)

\* A sweep deletes a node or a point only if, at the moment of the deletion, no
\* row outside its scope claims it (RunSweeper, steps 2 to 3).
SweepSparesClaimed ==
  [][\A s \in ((graph \ graph') \cap Nodes) \union (vectors \ vectors') :
       \E a \in Actors : pc[a] \in Sweeping /\ s \notin Accounted(ledger \ Selection(sw[a]))]_vars

\* A marked item, which incremental loading skips for good, has everything a
\* run always writes for it in the graph and in the vector store.
MarkerSound ==
  \A m \in markers : \E p \in Pipelines :
    /\ Points[p][m[2]] \subseteq graph
    /\ Points[p][m[2]] \cap Indexed \subseteq vectors

\* When a call is over and its sweep met no failure, a failed run owns nothing
\* (unless its scope is Nothing), and a tolerant completed run owns nothing for
\* the files it left outstanding.
RolledBack ==
  \A c \in Calls : pc[c] = "done" /\ ~ sw[c].failed =>
    /\ ending[c] \in {"errored", "teardown"} /\ cfg[c].scope # "Nothing"
         => \A q \in ledger : q.run # c
    /\ ending[c] = "completed" /\ cfg[c].scope = "FailedItems"
         => \A q \in ledger : q.run = c => q.item \notin Outstanding(c)

\* Startup recovery leaves every dataset runnable: when it ends no started row
\* and no claim refuses a call.
RecoveryUnblocks ==
  [][pc[Startup] = "releaseAll" /\ pc'[Startup] = "up" =>
       \A p \in Pairs : latest'[p].status # "started" /\ claims'[p] = None]_vars

\* Every call returns, or dies with its future or its process.
CallsEnd == \A c \in Calls : pc[c] \in Active ~> pc[c] \in Finished

\* Startup recovery ends, whatever its sweeps meet.
RecoveryEnds == pc[Startup] # "up" ~> pc[Startup] = "up"

\* A run whose teardown failed after the executor recorded it COMPLETED is on
\* record as failed when the call returns, and is no cache hit from then on.
FailedTeardownRecorded ==
  \A c \in Calls : pc[c] = "done" /\ ending[c] = "teardown" =>
    runRow[c] = "errored" /\ \A p \in Pairs : latest[p] # RowOf(c, "completed", FALSE)

-----------------------------------------------------------------------------
(* Claims of the code's comments that its behaviour does not keep. *)

\* "A completed run with outstanding files must never become a pipeline-cache
\* hit" (rollback.rs).
OutstandingNeverCached ==
  [][\A c \in Calls : ending[c] # "cached" /\ ending'[c] = "cached" =>
       Outstanding(latest[PairOf(c)].run) = {}]_vars

\* WholeRun and FailedItems converge on a retry: the edges a marked item owns
\* have their EdgeType point.
RetryConverges ==
  \A q \in ledger : q.slug \in Edges /\ <<q.dataset, q.item>> \in markers
    => TextOf[q.slug] \in vectors
=============================================================================
