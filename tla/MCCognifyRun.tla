---------------------------- MODULE MCCognifyRun ----------------------------
(* Small instances of CognifyRun: two documents, each with a document node,  *)
(* and two entities with one edge between them that both documents mention.  *)
EXTENDS CognifyRun, TLC

CONSTANTS d1, d2, i1, i2, doc1, doc2, alice, acme, schema, worksAt, text,
          c1, c2, c3

MCNodes == {doc1, doc2, alice, acme, schema}
MCEdges == {worksAt}
SlimNodes == {doc1, doc2, alice}
DltNodes == {doc1, doc2, schema}
MCEnds == [e \in Edges |-> {alice, acme}]
MCTextOf == [e \in Edges |-> text]
MCIndexed == {doc1, doc2, alice, acme, worksAt} \cap Slugs

MCPoints == [p \in Pipelines |-> [i \in Items |-> IF i = i1 THEN {doc1} ELSE {doc2}]]

\* i1 yields the two entities; i2 nothing, or the edge between them as well.
MCYields == [p \in Pipelines |-> [i \in Items |->
  IF i = i1 THEN {{alice, acme} \cap Slugs} ELSE {{}, {alice, acme, worksAt} \cap Slugs}]]

SlimYields == [p \in Pipelines |-> [i \in Items |-> {{alice}}]]

MCDltRows == [i \in Items |-> IF i = i1 THEN {schema} ELSE {}]
NoYields == [p \in Pipelines |-> [i \in Items |-> {{}}]]
NoDltRows == [i \in Items |-> {}]

Config(d, items, scope, stop) ==
  [dataset |-> d, pipeline |-> "cognify_pipeline", items |-> items, scope |-> scope,
   stop |-> stop, incremental |-> TRUE, cache |-> FALSE]

\* Calls on one dataset, under every way of failing; the last one works again
\* on what an earlier call may have finished.
TolerantCalls ==
  {Config(d1, {i1, i2}, "WholeRun", "FailFast"),
   Config(d1, {i1, i2}, "FailedItems", "RunToEnd"),
   [Config(d1, {i2}, "WholeRun", "RunToEnd") EXCEPT !.incremental = FALSE]}

CrashCalls ==
  {Config(d1, {i1, i2}, "WholeRun", "RunToEnd"),
   [Config(d1, {i2}, "WholeRun", "RunToEnd") EXCEPT !.incremental = FALSE]}

\* The temporal pipeline, whose claim and rows are apart from the standard one.
Temporal1(items, scope) ==
  [Config(d1, items, scope, "FailFast") EXCEPT !.pipeline = "temporal-cognify"]

DropCalls == {Temporal1({i1}, "FailedItems"), Temporal1({i2}, "Nothing")}

LiveCalls == {Config(d1, {i1}, "WholeRun", "FailFast")}

\* Callers that ask for the pipeline cache.
CacheCalls == {[Config(d1, {i1, i2}, "FailedItems", "RunToEnd") EXCEPT !.cache = TRUE]}

RetryCalls == {Config(d1, {i}, "WholeRun", "RunToEnd") : i \in Items}

\* One item in each of two datasets that share their stores.
TwoDatasetCalls ==
  {Config(d1, {i1}, "WholeRun", "RunToEnd"), Config(d2, {i2}, "WholeRun", "RunToEnd")}

Symmetry == Permutations(Calls)
=============================================================================
