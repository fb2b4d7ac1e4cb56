--------------------------- MODULE MCHuaweiSession ---------------------------
(* HuaweiSession with small budgets of faults, logins and processes.       *)
EXTENDS HuaweiSession
=============================================================================
