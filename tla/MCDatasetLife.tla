---------------------------- MODULE MCDatasetLife ----------------------------
(* Two datasets that hold one item in common; the first one also holds an item *)
(* that yields the same entity.  A third one is yet to be made.                *)
EXTENDS DatasetLife, TLC

CONSTANTS d1, d2, d3, i1, i2, doc1, doc2, entity

MCArt == [i \in Items |-> IF i = i1 THEN {doc1, entity} ELSE {doc2, entity}]
MCLinked == {<<d1, i1>>, <<d1, i2>>, <<d2, i1>>}
MCCognified == {<<d1, i1>>, <<d1, i2>>}

Req(kind, d, i, memory) ==
  [kind |-> kind, dataset |-> d, item |-> i, memory |-> memory, ifEmpty |-> FALSE]

MCRequests ==
  {Req("add", d1, i1, FALSE), Req("add", d3, i1, FALSE),
   Req("create", d1, None, FALSE), Req("create", d3, None, FALSE),
   Req("cognify", d1, None, FALSE), Req("cognify", d2, None, FALSE),
   Req("dataset", d1, None, FALSE), Req("item", d1, i2, TRUE),
   Req("item", d2, i1, FALSE), [Req("item", d2, i1, FALSE) EXCEPT !.ifEmpty = TRUE]}

Symmetry == Permutations(Calls)
=============================================================================
