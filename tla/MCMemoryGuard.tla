---------------------------- MODULE MCMemoryGuard ----------------------------
(* Two rust-analyzers, each of the one session or of none. *)
EXTENDS MemoryGuard

CONSTANTS s1
=============================================================================
