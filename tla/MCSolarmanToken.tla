--------------------------- MODULE MCSolarmanToken --------------------------
(* Instances of SolarmanToken for TLC. *)
EXTENDS SolarmanToken, TLC

CONSTANTS p1, p2, w1, w2

(* Calls share a worker and its cache, or each runs on a worker of its own. *)
MCOneWorker == [p \in Procs |-> w1]
MCOneEach == [p \in Procs |-> IF p = p1 THEN w1 ELSE w2]

MCSymmetry == Permutations({p1, p2})

(* Calls with their awaits and their fairness. *)
FairSpec == Spec /\ Fairness
=============================================================================
