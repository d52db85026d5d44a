--------------------------- MODULE MCStorageCache ---------------------------
(* Two files in one directory. *)
EXTENDS StorageCache

CONSTANTS f1, f2, d1, v1

MCUnder == [p \in Paths |-> IF p = d1 THEN Files ELSE {p}]
=============================================================================
