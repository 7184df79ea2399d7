--------------------------- MODULE MCDatasetLocks ---------------------------
(* Two tasks on three datasets; the registry prunes from two entries on. *)
EXTENDS DatasetLocks

CONSTANTS t1, t2, m1, m2, m3
=============================================================================
