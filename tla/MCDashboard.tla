----------------------------- MODULE MCDashboard -----------------------------
(* Dashboard with two months, two granularities and a user who does little. *)
EXTENDS Dashboard
=============================================================================
