----------------------------- MODULE MCCollector -----------------------------
(* Collector with a short interval, one manual request at a time and small  *)
(* budgets.                                                                 *)
EXTENDS Collector
=============================================================================
