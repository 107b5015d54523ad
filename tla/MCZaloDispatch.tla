---------------------------- MODULE MCZaloDispatch --------------------------
(* Runs of the automation alone: the schedule and an administrator start    *)
(* them, nobody sends by hand, the backend does not restart and every       *)
(* answer of Zalo arrives and is logged.                                    *)
EXTENDS ZaloDispatch

RunsNext == OtherSenders = {} /\ ~Restarts /\ ~AnswersLost /\ Next

RunsSpec == Init /\ [][RunsNext]_vars /\ Fairness
=============================================================================
