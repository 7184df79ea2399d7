--------------------------- MODULE OwnershipProofs ---------------------------
(***************************************************************************)
(* Invariant I1 of CognifyRun for every value of its constants, when the   *)
(* calls work on one dataset with one pipeline: no node and no vector      *)
(* point without an ownership row.                                         *)
(***************************************************************************)
EXTENDS CognifyRunProofs

\* Runs of two pairs may sweep at the same time and spare what the other is
\* about to disown: the hypothesis that excludes it.
OnePair == \A k, l \in Configs : k.dataset = l.dataset /\ k.pipeline = l.pipeline

RowSlugs == {q.slug : q \in ledger}

\* What a call is about to write is owned.
OwnedAt(c) ==
  /\ pc[c] \in {"graph1", "own2", "graph2", "index"} => SlugsOf(plan[c].ex) \subseteq RowSlugs
  /\ pc[c] \in {"graph2", "index"} => SlugsOf(plan[c].pts) \subseteq RowSlugs
  /\ pc[c] = "graph3" => SlugsOf(plan[c].dlt) \subseteq RowSlugs

OwnedFirst == \A c \in Calls : OwnedAt(c)

\* What a sweep selected is exclusive or claimed outside it, and what it has
\* dealt with is gone from the stores.
NodesFound == {"swEdges", "swTexts", "swGraph", "swVector", "swEdgeRows", "swNodeRows"}
EdgesFound == {"swTexts", "swGraph", "swVector", "swEdgeRows"}
TextsFound == {"swGraph", "swVector", "swEdgeRows"}

ExactAt(a) ==
  /\ pc[a] \in NodesFound =>
       \A q \in Selection(sw[a]) : q.slug \in Nodes =>
         q.slug \in sw[a].nodes \union ClaimedOutside(sw[a])
  /\ pc[a] \in EdgesFound =>
       \A q \in Selection(sw[a]) : q.slug \in Edges =>
         q.slug \in sw[a].edges \union ClaimedOutside(sw[a])
  /\ pc[a] \in TextsFound =>
       \A q \in Selection(sw[a]) : q.slug \in Edges =>
         TextOf[q.slug] \in sw[a].texts \union TextsClaimedOutside(sw[a])
  /\ pc[a] \in {"swVector", "swEdgeRows", "swNodeRows"} => sw[a].nodes \cap graph = {}
  /\ pc[a] \in {"swEdgeRows", "swNodeRows"} => Doomed(a) \cap vectors = {}

SweepExact == \A a \in Actors : ExactAt(a)

Ownership == I1 /\ OwnedFirst /\ SweepExact
OwnershipInv == ExclusiveInv /\ Ownership

\* The steps at which OwnedAt or ExactAt says something.
Critical == {"graph1", "own2", "graph2", "index", "graph3"} \union NodesFound

-----------------------------------------------------------------------------
(* The ledger. *)

LEMMA AccountedGrows ==
  ASSUME NEW rows, NEW more, rows \subseteq more
  PROVE  Accounted(rows) \subseteq Accounted(more)
  BY DEF Accounted

LEMMA UpsertOwns ==
  ASSUME NEW rows, NEW d, NEW E, NEW r
  PROVE  /\ rows \subseteq Upsert(rows, d, E, r)
         /\ SlugsOf(E) \subseteq {q.slug : q \in Upsert(rows, d, E, r)}
<1>1. rows \subseteq Upsert(rows, d, E, r)
  BY DEF Upsert
<1>2. ASSUME NEW e \in E
      PROVE  \E q \in Upsert(rows, d, E, r) : q.slug = e[2]
  <2>1. CASE \E q \in rows : q.dataset = d /\ q.item = e[1] /\ q.slug = e[2]
    BY <1>1, <2>1
  <2>2. CASE ~ \E q \in rows : q.dataset = d /\ q.item = e[1] /\ q.slug = e[2]
    <3>1. [dataset |-> d, item |-> e[1], slug |-> e[2], run |-> r] \in Upsert(rows, d, E, r)
      BY <2>2 DEF Upsert
    <3> QED
      BY <3>1
  <2> QED
    BY <2>1, <2>2
<1> QED
  BY <1>1, <1>2 DEF SlugsOf

LEMMA ToIndexOwned ==
  ASSUME NEW c \in Calls, SlugsOf(plan[c].ex) \subseteq RowSlugs, SlugsOf(plan[c].pts) \subseteq RowSlugs
  PROVE  ToIndex(c) \subseteq Accounted(ledger)
  BY DEF ToIndex, Fresh, Accounted, RowSlugs

-----------------------------------------------------------------------------
(* One pair: whoever changes a store is alone. *)

LEMMA Alone ==
  ASSUME OnePair, ExclusiveInv, NEW a \in Actors, NEW b \in Actors, Busy(a), Busy(b)
  PROVE  a = b
<1> SUFFICES ASSUME a # b PROVE FALSE
  OBVIOUS
<1>1. a \in Calls /\ b \in Calls /\ PairOf(a) # PairOf(b)
  BY ExclusiveSerial DEF Serial
<1>2. cfg[a] \in Configs /\ cfg[b] \in Configs
  BY <1>1 DEF ExclusiveInv, TypeInv, Configured, Busy, Running, Sweeping, Recovering
<1> QED
  BY <1>1, <1>2 DEF OnePair, PairOf

LEMMA SoloStep ==
  ASSUME OnePair, ExclusiveInv, NEW a \in Actors, Busy(a), NEW s, Goto(a, s),
         I1', a \in Calls => OwnedAt(a)', ExactAt(a)'
  PROVE  Ownership'
<1>1. \A b \in Actors : b # a => pc'[b] \notin Critical
  <2>1. \A b \in Actors : b # a => ~ Busy(b) /\ pc'[b] = pc[b]
    BY Alone DEF Goto, ExclusiveInv, TypeInv, TypeOK
  <2> QED
    BY <2>1 DEF Busy, Critical, NodesFound, Running, Sweeping, Recovering
<1>2. \A b \in Actors : b # a => ExactAt(b)'
  BY <1>1 DEF ExactAt, Critical, NodesFound, EdgesFound, TextsFound
<1>3. \A b \in Calls : b # a => OwnedAt(b)'
  BY <1>1 DEF OwnedAt, Critical, Actors
<1> QED
  BY <1>2, <1>3 DEF Ownership, OwnedFirst, SweepExact, Actors

\* A step that leaves the stores alone and brings nobody to a critical step.
LEMMA QuietStep ==
  ASSUME OwnershipInv, UNCHANGED <<ledger, graph, vectors>>,
         \A a \in Actors : \/ pc'[a] \notin Critical
                           \/ /\ pc'[a] = pc[a] /\ sw'[a] = sw[a]
                              /\ a \in Calls => plan'[a] = plan[a]
  PROVE  Ownership'
<1>1. I1'
  BY DEF OwnershipInv, Ownership, I1, Accounted
<1>2. \A c \in Calls : OwnedAt(c)'
  BY DEF OwnershipInv, Ownership, OwnedFirst, OwnedAt, RowSlugs, Critical, Actors
<1>3. ASSUME NEW a \in Actors
      PROVE  ExactAt(a)'
  <2>1. CASE pc'[a] \notin Critical
    BY <2>1 DEF ExactAt, Critical, NodesFound, EdgesFound, TextsFound
  <2>2. CASE pc'[a] = pc[a] /\ sw'[a] = sw[a]
    BY <2>2 DEF OwnershipInv, Ownership, SweepExact, ExactAt, Selection, ClaimedOutside,
                TextsClaimedOutside, Doomed
  <2> QED
    BY <2>1, <2>2
<1> QED
  BY <1>1, <1>2, <1>3 DEF Ownership, OwnedFirst, SweepExact

-----------------------------------------------------------------------------
(* Each kind of step. *)

\* Rows first: a call that owns entries and goes on to write them.
LEMMA OwnStep ==
  ASSUME OnePair, OwnershipInv, NEW c \in Calls,
         OwnExtracted(c) \/ OwnPoints(c) \/ (Teardown(c) /\ plan[c].dlt # {})
  PROVE  Ownership'
<1> USE DEF local, stores, trail
<1> DEFINE entries == IF pc[c] = "own1" THEN plan[c].ex ELSE IF pc[c] = "own2" THEN plan[c].pts ELSE plan[c].dlt
<1>1. /\ ledger' = Upsert(ledger, cfg[c].dataset, entries, c)
      /\ UNCHANGED <<plan, graph, vectors>>
  BY DEF OwnExtracted, OwnPoints, Own, Teardown
<1>2. ledger \subseteq ledger' /\ SlugsOf(entries) \subseteq RowSlugs'
  BY <1>1, UpsertOwns DEF RowSlugs
<1>3. c \in Actors /\ Busy(c) /\ \E s : Goto(c, s)
  BY DEF Actors, OwnExtracted, OwnPoints, Own, Teardown, Busy, Running
<1>4. I1'
  BY <1>1, <1>2, AccountedGrows DEF OwnershipInv, Ownership, I1
<1>5. /\ pc[c] = "own1" => pc'[c] = "graph1"
      /\ pc[c] = "own2" => pc'[c] = "graph2"
      /\ pc[c] = "teardown" => pc'[c] = "graph3"
      /\ pc[c] \in {"own1", "own2", "teardown"}
  BY <1>3 DEF OwnExtracted, OwnPoints, Own, Teardown, Goto, OwnershipInv, ExclusiveInv, TypeInv, TypeOK
<1>6. OwnedAt(c)'
  <2>1. pc[c] = "own2" => SlugsOf(plan[c].ex) \subseteq RowSlugs
    BY DEF OwnershipInv, Ownership, OwnedFirst, OwnedAt
  <2>2. RowSlugs \subseteq RowSlugs'
    BY <1>2 DEF RowSlugs
  <2> QED
    BY <1>1, <1>2, <1>5, <2>1, <2>2 DEF OwnedAt
<1>7. ExactAt(c)'
  BY <1>5 DEF ExactAt, NodesFound, EdgesFound, TextsFound
<1> QED
  BY <1>3, <1>4, <1>6, <1>7, SoloStep DEF OwnershipInv

\* Then artifacts, all of them or, when the store fails, some of them.
LEMMA WriteStep ==
  ASSUME OnePair, OwnershipInv, NEW c \in Calls,
         \/ WriteExtracted(c) \/ WritePoints(c) \/ Index(c) \/ Fail(c)
         \/ WriteDlt(c) \/ TeardownFail(c)
  PROVE  Ownership'
<1> USE DEF local, stores, trail
<1>1. OwnedAt(c) /\ I1
  BY DEF OwnershipInv, Ownership, OwnedFirst
<1>2. c \in Actors /\ Busy(c) /\ \E s : Goto(c, s)
  BY DEF Actors, WriteExtracted, WritePoints, WriteGraph, Index, Fail, WriteDlt, TeardownFail, Settle,
         SettleCompleted, EndIn, Busy, Running
<1>3. UNCHANGED <<ledger, plan>>
  BY DEF WriteExtracted, WritePoints, WriteGraph, Index, Fail, WriteDlt, TeardownFail
<1>4. graph' \subseteq graph \union RowSlugs
  BY <1>1 DEF WriteExtracted, WritePoints, WriteGraph, Index, Fail, WriteDlt, TeardownFail, OwnedAt, Fresh
<1>5. vectors' \subseteq vectors \union Accounted(ledger)
  <2>1. pc[c] = "index" => ToIndex(c) \subseteq Accounted(ledger)
    BY <1>1, ToIndexOwned DEF OwnedAt
  <2> QED
    BY <2>1 DEF WriteExtracted, WritePoints, WriteGraph, Index, Fail, WriteDlt, TeardownFail
<1>6. I1'
  BY <1>1, <1>3, <1>4, <1>5 DEF I1, Accounted, RowSlugs
<1>7. \/ pc[c] = "graph1" /\ pc'[c] = "own2"
      \/ pc[c] = "graph2" /\ pc'[c] = "index"
      \/ pc'[c] \notin Critical
  BY <1>2 DEF WriteExtracted, WritePoints, WriteGraph, Index, Fail, WriteDlt, TeardownFail, Settle,
         SettleCompleted, EndIn, Goto, Critical, NodesFound, OwnershipInv, ExclusiveInv, TypeInv, TypeOK
<1>8. OwnedAt(c)'
  BY <1>1, <1>3, <1>7 DEF OwnedAt, RowSlugs, Critical
<1>9. ExactAt(c)'
  BY <1>7 DEF ExactAt, Critical, NodesFound, EdgesFound, TextsFound
<1> QED
  BY <1>2, <1>6, <1>8, <1>9, SoloStep DEF OwnershipInv
\* The queries of a sweep: what the selection names is in the answer or is
\* claimed outside the scope.
LEMMA QueryStep ==
  ASSUME OnePair, OwnershipInv, NEW a \in Actors, SweepNodes(a) \/ SweepEdges(a) \/ SweepTexts(a)
  PROVE  Ownership'
<1> USE DEF local, stores, trail
<1>1. Busy(a) /\ \E s : Goto(a, s)
  BY DEF SweepNodes, SweepEdges, SweepTexts, Busy, Sweeping
<1>2. UNCHANGED <<ledger, graph, vectors>>
  BY DEF SweepNodes, SweepEdges, SweepTexts
<1>3. I1' /\ ExactAt(a) /\ sw[a] \in SweepType
  BY <1>2 DEF OwnershipInv, Ownership, SweepExact, I1, Accounted, ExclusiveInv, TypeInv, TypeOK
<1>4. \/ SweepNodes(a) /\ pc[a] = "swNodes" /\ pc'[a] = "swEdges"
      \/ SweepEdges(a) /\ pc[a] = "swEdges" /\ pc'[a] = "swTexts"
      \/ SweepTexts(a) /\ pc[a] = "swTexts" /\ pc'[a] = "swGraph"
  BY DEF SweepNodes, SweepEdges, SweepTexts, Goto, OwnershipInv, ExclusiveInv, TypeInv, TypeOK
<1>5. a \in Calls => OwnedAt(a)'
  BY <1>4 DEF OwnedAt
<1>6. /\ sw'[a].run = sw[a].run /\ sw'[a].dataset = sw[a].dataset /\ sw'[a].items = sw[a].items
      /\ sw'[a].nodes = IF pc[a] = "swNodes" THEN Unique(sw[a]) \cap Nodes ELSE sw[a].nodes
      /\ sw'[a].edges = IF pc[a] = "swEdges" THEN Unique(sw[a]) \cap Edges ELSE sw[a].edges
      /\ sw'[a].texts = IF pc[a] = "swTexts"
                        THEN {TextOf[e] : e \in sw[a].edges} \ TextsClaimedOutside(sw[a]) ELSE sw[a].texts
  <2>1. \/ pc[a] = "swNodes" /\ sw'[a] = [sw[a] EXCEPT !.nodes = Unique(sw[a]) \cap Nodes]
        \/ pc[a] = "swEdges" /\ sw'[a] = [sw[a] EXCEPT !.edges = Unique(sw[a]) \cap Edges]
        \/ pc[a] = "swTexts" /\ sw'[a] = [sw[a] EXCEPT !.texts = {TextOf[e] : e \in sw[a].edges}
                                                                 \ TextsClaimedOutside(sw[a])]
    BY DEF SweepNodes, SweepEdges, SweepTexts, OwnershipInv, ExclusiveInv, TypeInv, TypeOK
  <2> QED
    BY <1>3, <2>1 DEF SweepType
<1>7. /\ Selection(sw[a])' = Selection(sw[a])
      /\ ClaimedOutside(sw[a])' = ClaimedOutside(sw[a])
      /\ TextsClaimedOutside(sw[a])' = TextsClaimedOutside(sw[a])
  BY <1>2, <1>6 DEF Selection, ClaimedOutside, TextsClaimedOutside
<1>8. \A q \in Selection(sw[a]) : q.slug \in Nodes => q.slug \in sw'[a].nodes \union ClaimedOutside(sw[a])
  BY <1>3, <1>4, <1>6 DEF ExactAt, NodesFound, Unique
<1>9. pc[a] # "swNodes" =>
        \A q \in Selection(sw[a]) : q.slug \in Edges => q.slug \in sw'[a].edges \union ClaimedOutside(sw[a])
  BY <1>3, <1>4, <1>6 DEF ExactAt, EdgesFound, Unique
<1>10. pc[a] = "swTexts" =>
         \A q \in Selection(sw[a]) : q.slug \in Edges =>
           TextOf[q.slug] \in sw'[a].texts \union TextsClaimedOutside(sw[a])
  <2> SUFFICES ASSUME pc[a] = "swTexts", NEW q \in Selection(sw[a]), q.slug \in Edges
               PROVE  TextOf[q.slug] \in sw'[a].texts \union TextsClaimedOutside(sw[a])
    OBVIOUS
  <2>1. CASE q.slug \in ClaimedOutside(sw[a])
    BY <2>1 DEF TextsClaimedOutside
  <2>2. CASE q.slug \in sw[a].edges
    BY <1>6, <2>2
  <2> QED
    BY <1>6, <1>9, <2>1, <2>2
<1>11. ExactAt(a)'
  BY <1>4, <1>7, <1>8, <1>9, <1>10 DEF ExactAt, NodesFound, EdgesFound, TextsFound
<1> QED
  BY <1>1, <1>3, <1>5, <1>11, SoloStep DEF OwnershipInv

\* The deletions of a sweep, complete or cut short: the stores only shrink.
LEMMA DeleteStep ==
  ASSUME OnePair, OwnershipInv, NEW a \in Actors,
         SweepGraph(a) \/ SweepVectors(a) \/ SweepFail(a)
  PROVE  Ownership'
<1> USE DEF local, stores, trail
<1>1. Busy(a) /\ \E s : Goto(a, s)
  BY DEF SweepGraph, SweepVectors, SweepFail, Busy, Sweeping
<1>2. ledger' = ledger /\ graph' \subseteq graph /\ vectors' \subseteq vectors
  BY DEF SweepGraph, SweepVectors, SweepFail
<1>3. I1' /\ ExactAt(a)
  BY <1>2 DEF OwnershipInv, Ownership, SweepExact, I1, Accounted
<1>4. CASE SweepFail(a)
  <2>1. pc'[a] \notin Critical
    BY <1>4 DEF SweepFail, Goto, AfterSweep, Critical, NodesFound, OwnershipInv, ExclusiveInv, TypeInv, TypeOK
  <2> QED
    BY <1>1, <1>3, <2>1, SoloStep DEF OwnedAt, ExactAt, Critical, NodesFound, EdgesFound, TextsFound, OwnershipInv
<1>5. CASE SweepGraph(a) \/ SweepVectors(a)
  <2>1. /\ sw' = sw
        /\ \/ SweepGraph(a) /\ pc[a] = "swGraph" /\ pc'[a] = "swVector"
           \/ SweepVectors(a) /\ pc[a] = "swVector" /\ pc'[a] = "swEdgeRows"
    BY <1>5 DEF SweepGraph, SweepVectors, Goto, OwnershipInv, ExclusiveInv, TypeInv, TypeOK
  <2>2. /\ Selection(sw[a])' = Selection(sw[a])
        /\ ClaimedOutside(sw[a])' = ClaimedOutside(sw[a])
        /\ TextsClaimedOutside(sw[a])' = TextsClaimedOutside(sw[a])
        /\ Doomed(a)' = Doomed(a)
    BY <1>2, <2>1 DEF Selection, ClaimedOutside, TextsClaimedOutside, Doomed
  <2>3. sw[a].nodes \cap graph' = {}
    <3>1. CASE SweepGraph(a)
      BY <3>1 DEF SweepGraph, Cascade
    <3>2. CASE SweepVectors(a)
      BY <1>2, <1>3, <3>2 DEF SweepVectors, ExactAt
    <3> QED
      BY <1>5, <3>1, <3>2
  <2>4. pc[a] = "swVector" => Doomed(a) \cap vectors' = {}
    BY <2>1 DEF SweepGraph, SweepVectors
  <2>5. ExactAt(a)'
    BY <1>3, <2>1, <2>2, <2>3, <2>4 DEF ExactAt, NodesFound, EdgesFound, TextsFound
  <2>6. a \in Calls => OwnedAt(a)'
    BY <2>1 DEF OwnedAt
  <2> QED
    BY <1>1, <1>3, <2>5, <2>6, SoloStep DEF OwnershipInv
<1> QED
  BY <1>4, <1>5

\* The rows go last: what they were the only ones to account for is gone.
LEMMA RowsStep ==
  ASSUME OnePair, OwnershipInv, NEW a \in Actors, SweepEdgeRows(a) \/ SweepNodeRows(a)
  PROVE  Ownership'
<1> USE DEF local, stores, trail
<1> DEFINE kind == IF pc[a] = "swEdgeRows" THEN Edges ELSE Nodes
           gone == {q \in Selection(sw[a]) : q.slug \in kind}
<1>1. Busy(a) /\ \E s : Goto(a, s)
  BY DEF SweepEdgeRows, SweepNodeRows, SweepRows, Busy, Sweeping
<1>2. ledger' = ledger \ gone /\ UNCHANGED <<sw, graph, vectors>>
  BY DEF SweepEdgeRows, SweepNodeRows, SweepRows
<1>3. I1 /\ ExactAt(a)
  BY DEF OwnershipInv, Ownership, SweepExact
<1>4. \/ pc[a] = "swEdgeRows" /\ pc'[a] = "swNodeRows"
      \/ pc[a] = "swNodeRows" /\ pc'[a] = "swMarkers"
  BY DEF SweepEdgeRows, SweepNodeRows, SweepRows, Goto, OwnershipInv, ExclusiveInv, TypeInv, TypeOK
<1>5. \A q \in ledger : q \notin Selection(sw[a]) => q \in ledger'
  BY <1>2
<1>6. ASSUME NEW x \in (graph \cap Nodes) \union vectors
      PROVE  x \in Accounted(ledger')
  <2>0. /\ x \notin sw[a].nodes
        /\ pc[a] = "swEdgeRows" => x \notin sw[a].edges \union sw[a].texts \/ x \in graph \cap Nodes
    BY <1>3, <1>4, <1>6 DEF ExactAt, Doomed
  <2>1. CASE \E q \in ledger : q.slug = x
    <3>1. PICK q \in ledger : q.slug = x
      BY <2>1
    <3>2. CASE q \in ledger'
      BY <3>1, <3>2 DEF Accounted
    <3>3. CASE q \notin ledger'
      <4>1. q \in Selection(sw[a]) /\ x \in kind
        BY <1>2, <3>1, <3>3
      <4>2. x \in ClaimedOutside(sw[a])
        BY <1>3, <1>4, <2>0, <3>1, <4>1, StoreAssumption DEF ExactAt, NodesFound, EdgesFound, TextsFound
      <4> QED
        BY <1>5, <4>2 DEF ClaimedOutside, Accounted
    <3> QED
      BY <3>2, <3>3
  <2>2. CASE ~ \E q \in ledger : q.slug = x
    <3>1. PICK q \in ledger : q.slug \in Edges /\ x = TextOf[q.slug]
      BY <1>3, <1>6, <2>2 DEF I1, Accounted
    <3>2. CASE q \in ledger'
      BY <3>1, <3>2 DEF Accounted
    <3>3. CASE q \notin ledger'
      <4>1. q \in Selection(sw[a]) /\ pc[a] = "swEdgeRows"
        BY <1>2, <1>4, <3>1, <3>3, StoreAssumption
      <4>2. x \notin Nodes
        BY <3>1, StoreAssumption DEF Slugs
      <4>3. x \in TextsClaimedOutside(sw[a])
        BY <1>3, <2>0, <3>1, <4>1, <4>2 DEF ExactAt, EdgesFound, TextsFound
      <4> QED
        BY <1>5, <4>3 DEF TextsClaimedOutside, ClaimedOutside, Accounted
    <3> QED
      BY <3>2, <3>3
  <2> QED
    BY <2>1, <2>2
<1>7. I1'
  BY <1>2, <1>6 DEF I1
<1>8. ExactAt(a)'
  <2>1. CASE pc[a] = "swEdgeRows"
    <3>1. ledger' \ Selection(sw[a])' = ledger \ Selection(sw[a]) /\ Selection(sw[a])' \subseteq Selection(sw[a])
      BY <1>2 DEF Selection
    <3>2. ClaimedOutside(sw[a])' = ClaimedOutside(sw[a])
      BY <1>2, <3>1 DEF ClaimedOutside
    <3>3. Doomed(a)' = Doomed(a)
      BY <1>2 DEF Doomed
    <3> QED
      BY <1>2, <1>3, <1>4, <2>1, <3>1, <3>2, <3>3 DEF ExactAt, NodesFound, EdgesFound, TextsFound
  <2>2. CASE pc[a] # "swEdgeRows"
    BY <1>4, <2>2 DEF ExactAt, NodesFound, EdgesFound, TextsFound
  <2> QED
    BY <2>1, <2>2
<1>9. a \in Calls => OwnedAt(a)'
  BY <1>4 DEF OwnedAt
<1> QED
  BY <1>1, <1>7, <1>8, <1>9, SoloStep DEF OwnershipInv
\* The temporal pipeline has nothing to own before its second round.
LEMMA ExtractStep ==
  ASSUME OnePair, OwnershipInv, NEW c \in Calls, Extract(c)
  PROVE  Ownership'
<1> USE DEF local, stores, trail
<1>1. c \in Actors /\ Busy(c) /\ \E s : Goto(c, s)
  BY DEF Actors, Extract, Busy, Running
<1>2. I1'
  BY DEF Extract, OwnershipInv, Ownership, I1, Accounted
<1>3. pc'[c] = "own1" \/ (Temporal(c) /\ pc'[c] = "own2")
  BY <1>1 DEF Extract, Goto, OwnershipInv, ExclusiveInv, TypeInv, TypeOK
<1>4. Temporal(c) => plan'[c].ex = {}
  <2>1. PICK l, y, some : plan' = [plan EXCEPT ![c] = PlanOf(c, l, y, some)]
    BY DEF Extract
  <2>2. plan'[c] = PlanOf(c, l, y, some)
    BY <2>1 DEF OwnershipInv, ExclusiveInv, TypeInv, TypeOK
  <2> QED
    BY <2>2 DEF PlanOf
<1>5. OwnedAt(c)'
  BY <1>3, <1>4 DEF OwnedAt, SlugsOf
<1>6. ExactAt(c)'
  BY <1>3 DEF ExactAt, NodesFound, EdgesFound, TextsFound
<1> QED
  BY <1>1, <1>2, <1>5, <1>6, SoloStep DEF OwnershipInv

\* The steps of a call that touch neither the ledger nor an artifact.
LEMMA OtherCallStep ==
  ASSUME OwnershipInv, NEW c \in Calls,
         \/ \E k \in Configs : Begin(c, k)
         \/ Qualify(c) \/ Claim(c) \/ Filter(c)
         \/ LogInitiated(c) \/ LogStarted(c) \/ LogCompleted(c) \/ LogErrored(c) \/ StageAbort(c)
         \/ Teardown(c) /\ plan[c].dlt = {}
         \/ Mark(c) \/ Append(c) \/ Release(c) \/ Drop(c)
  PROVE  Ownership'
<1> USE DEF local, stores, trail
<1>1. UNCHANGED <<ledger, graph, vectors>>
  BY DEF Begin, Qualify, Claim, Filter, LogInitiated, LogStarted, LogCompleted, LogErrored, StageAbort,
         Teardown, Mark, Append, Release, Drop
<1>2. /\ \A d \in Calls : d # c => plan'[d] = plan[d]
      /\ \A a \in Actors : a # c => sw'[a] = sw[a]
  BY DEF Begin, Qualify, Claim, Filter, LogInitiated, LogStarted, LogCompleted, LogErrored, StageAbort,
         Teardown, Settle, SettleCompleted, Mark, Append, Release, Drop,
         OwnershipInv, ExclusiveInv, TypeInv, TypeOK
<1> DEFINE calm == {"qualify", "claim", "done", "dead", "filter", "initiate", "release", "start", "extract",
                     "teardown", "swAffected", "rowErr", "mark", "append"}
<1>3. PICK s \in calm : Goto(c, s)
  <2>1. CASE (\E k \in Configs : Begin(c, k)) \/ Qualify(c) \/ Claim(c) \/ Filter(c) \/ Drop(c)
    BY <2>1 DEF Begin, Qualify, Claim, Filter, EndIn, Drop
  <2>2. CASE LogInitiated(c) \/ LogStarted(c) \/ LogCompleted(c) \/ LogErrored(c) \/ StageAbort(c)
    BY <2>2 DEF LogInitiated, LogStarted, LogCompleted, LogErrored, Settle, EndIn, StageAbort
  <2>3. CASE (Teardown(c) /\ plan[c].dlt = {}) \/ Mark(c) \/ Append(c) \/ Release(c)
    BY <2>3 DEF Teardown, SettleCompleted, EndIn, Mark, Append, Release
  <2> QED
    BY <2>1, <2>2, <2>3
<1>4. /\ pc'[c] \notin Critical
      /\ \A a \in Actors : a # c => pc'[a] = pc[a]
  BY <1>3 DEF Goto, Actors, Critical, NodesFound, OwnershipInv, ExclusiveInv, TypeInv, TypeOK
<1> QED
  BY <1>1, <1>2, <1>4, QuietStep

LEMMA OtherStep ==
  ASSUME OwnershipInv,
         \/ ListOrphans \/ NextOrphan \/ ResetOrphans \/ ReleaseAll
         \/ \E a \in Actors : SweepAffected(a) \/ SweepMarkers(a)
         \/ Crash \/ (\E p \in Pairs : Unblock(p)) \/ UNCHANGED vars
  PROVE  Ownership'
<1> USE DEF local, stores, trail
<1>0. pc \in [Actors -> {"idle", "up"} \union Active \union Recovering \union Finished]
      /\ sw \in [Actors -> SweepType]
  BY DEF OwnershipInv, ExclusiveInv, TypeInv, TypeOK
<1>1. CASE ListOrphans \/ NextOrphan \/ ResetOrphans \/ ReleaseAll
  <2>1. UNCHANGED <<ledger, graph, vectors, plan>> /\ \A a \in Actors : a # Startup => sw'[a] = sw[a]
    BY <1>0, <1>1 DEF ListOrphans, NextOrphan, ResetOrphans, ReleaseAll
  <2>2. PICK s \in {"next", "swAffected", "reset", "releaseAll", "up"} : Goto(Startup, s)
    BY <1>1 DEF ListOrphans, NextOrphan, ResetOrphans, ReleaseAll
  <2>3. /\ pc'[Startup] \notin Critical
        /\ \A a \in Actors : a # Startup => pc'[a] = pc[a]
    BY <1>0, <2>2 DEF Goto, Actors, Critical, NodesFound
  <2> QED
    BY <2>1, <2>3, QuietStep
<1>2. ASSUME NEW a \in Actors, SweepAffected(a) \/ SweepMarkers(a)
      PROVE  Ownership'
  <2>1. UNCHANGED <<ledger, graph, vectors, plan>> /\ \A b \in Actors : b # a => sw'[b] = sw[b]
    BY <1>0, <1>2 DEF SweepAffected, SweepMarkers
  <2>2. pc'[a] \notin Critical \/ (pc'[a] = "swNodes" /\ pc[a] = "swAffected")
    BY <1>0, <1>2 DEF SweepAffected, SweepMarkers, Goto, AfterSweep, Critical, NodesFound
  <2>3. "swNodes" \notin Critical
    BY DEF Critical, NodesFound
  <2>4. \A b \in Actors : b # a => pc'[b] = pc[b]
    BY <1>0, <1>2 DEF SweepAffected, SweepMarkers, Goto
  <2> QED
    BY <2>1, <2>2, <2>3, <2>4, QuietStep
<1>3. CASE Crash
  <2>1. UNCHANGED <<ledger, graph, vectors>> /\ \A a \in Actors : pc'[a] \notin Critical
    BY <1>0, <1>3 DEF Crash, Critical, NodesFound, Active, Running, Sweeping, Entering, Recovering, Finished
  <2> QED
    BY <2>1, QuietStep
<1>4. CASE \E p \in Pairs : Unblock(p)
  BY <1>4, QuietStep DEF Unblock
<1>5. CASE UNCHANGED vars
  BY <1>5, QuietStep DEF vars
<1> QED
  BY <1>1, <1>2, <1>3, <1>4, <1>5

LEMMA OwnershipNext == ASSUME OnePair PROVE OwnershipInv /\ [Next]_vars => OwnershipInv'
<1> SUFFICES ASSUME OwnershipInv, [Next]_vars
             PROVE  Ownership'
  BY ExclusiveNext DEF OwnershipInv
<1>1. ASSUME NEW c \in Calls, (\E k \in Configs : Begin(c, k)) \/ CallStep(c) \/ Drop(c), ~ Sweep(c)
      PROVE  Ownership'
  BY <1>1, OwnStep, WriteStep, ExtractStep, OtherCallStep DEF CallStep, Execute, Finish
<1>2. ASSUME NEW a \in Actors, Sweep(a)
      PROVE  Ownership'
  BY <1>2, QueryStep, DeleteStep, RowsStep, OtherStep DEF Sweep
<1>3. CASE StartupStep /\ ~ Sweep(Startup)
  BY <1>3, OtherStep DEF StartupStep
<1>4. CASE Crash \/ (\E p \in Pairs : Unblock(p)) \/ Quiescent \/ UNCHANGED vars
  BY <1>4, OtherStep DEF Quiescent
<1> QED
  BY <1>1, <1>2, <1>3, <1>4 DEF Next, Actors

LEMMA OwnershipInit == Init => OwnershipInv
<1> SUFFICES ASSUME Init PROVE Ownership
  BY ExclusiveInit DEF OwnershipInv
<1>1. \A a \in Actors : pc[a] \notin Critical
  BY DEF Init, Critical, NodesFound
<1> QED
  BY <1>1 DEF Init, Ownership, I1, OwnedFirst, OwnedAt, SweepExact, ExactAt, Critical, NodesFound,
              EdgesFound, TextsFound, Actors

\* I1 at every moment, through failures, dropped calls, crashes, sweeps cut
\* short and startup recovery: rows are written before the artifacts they own
\* and deleted after them, and what a sweep spares another row claims.
THEOREM NothingUnowned == ASSUME OnePair PROVE Spec => []I1
<1>1. Spec => []OwnershipInv
  BY OwnershipInit, OwnershipNext, PTL DEF Spec
<1>2. OwnershipInv => I1
  BY DEF OwnershipInv, Ownership
<1> QED
  BY <1>1, <1>2, PTL
=============================================================================
