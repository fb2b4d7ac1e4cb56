---------------------------- MODULE MCIngestion ----------------------------
(* Ingestion on a small instance.                                          *)
EXTENDS Ingestion, TLC

Workers2 == Permutations(Workers)
=============================================================================
