--------------------------- MODULE MCUsageReports ---------------------------
(* UsageReports on a small instance: months of two and three days, two of  *)
(* which begin while time passes.                                          *)
EXTENDS UsageReports, TLC

Workers2 == Permutations(Workers)

Calendar == <<-4, -2, 1, 3, 6>>
=============================================================================
