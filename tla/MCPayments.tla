----------------------------- MODULE MCPayments -----------------------------
(* The payment desk without mock payment, for TLC. *)
EXTENDS Payments, TLC

CONSTANTS i1, i2, c1, c2

MCOwner == [i \in Invoices |-> IF i = i1 THEN c1 ELSE c2]

(* Requests and payment rows are interchangeable; invoices have owners. *)
MCSymmetry == Permutations(Procs) \cup Permutations(Receipts)

DeskNext == ~MockEnabled /\ Next
DeskSpec == Init /\ [][DeskNext]_vars
=============================================================================
