--------------------------- MODULE MCMonthlyBilling -------------------------
(* Instances of MonthlyBilling for TLC. *)
EXTENDS MonthlyBilling, TLC

(* Primary keys and requests are interchangeable. *)
MCSymmetry == Permutations(Procs) \cup Permutations(Records) \cup Permutations(Invoices)
=============================================================================
