----------------------------- MODULE MonthBook -------------------------------
(***************************************************************************)
(* What monthly billing promises to a customer, without records, jobs,     *)
(* drafts or invoice keys: one account for each month.  A month is asked   *)
(* for when it is over, and then corrected or withdrawn while nobody pays; *)
(* money is kept for good, also when the month is withdrawn and asked for  *)
(* again; what is settled stays settled.  MonthlyBilling implements this   *)
(* specification when one job is at work at a time and payments wait for   *)
(* it, wherever jobs stop.                                                 *)
(***************************************************************************)
EXTENDS Naturals

CONSTANTS
  Months,
  Amounts      \* amounts a month can cost, and a customer can pay

VARIABLES
  account,     \* account[m]: what the customer is told of month m
  today        \* the month it is

bookVars == <<account, today>>

(* none: nothing is asked; open: asked, and not being paid (a part payment   *)
(* that is late counts as open, as the code takes it); part: paid in part;   *)
(* settled: paid.                                                            *)
NoAccount == [standing |-> "none", owed |-> 0, received |-> 0]

Tell(m, standing, owed, received) ==
  account' = [account EXCEPT
                ![m] = [standing |-> standing, owed |-> owed, received |-> received]]

BookInit == account = [m \in Months |-> NoAccount] /\ today = 1

Closing ==
  /\ today' = today + 1
  /\ UNCHANGED account

(* The month is asked for, at some amount.                                   *)
Ask(m, amount) ==
  /\ m < today
  /\ account[m].standing = "none"
  /\ Tell(m, "open", amount, account[m].received)
  /\ UNCHANGED today

Correct(m, amount) ==
  /\ account[m].standing = "open"
  /\ Tell(m, "open", amount, account[m].received)
  /\ UNCHANGED today

Withdraw(m) ==
  /\ account[m].standing = "open"
  /\ Tell(m, "none", 0, account[m].received)
  /\ UNCHANGED today

Receive(m, amount) ==
  LET received == account[m].received + amount IN
  /\ account[m].standing \in {"open", "part"}
  /\ amount > 0 /\ received <= account[m].owed
  /\ Tell(m, IF received = account[m].owed THEN "settled" ELSE "part", account[m].owed, received)
  /\ UNCHANGED today

(* Some months that are paid in part are late.                               *)
Lapse(late) ==
  /\ \A m \in late : account[m].standing = "part"
  /\ account' = [m \in Months |-> IF m \in late THEN [account[m] EXCEPT !.standing = "open"]
                                                ELSE account[m]]
  /\ UNCHANGED today

BookNext ==
  \/ \E late \in SUBSET Months : Lapse(late)
  \/ \E m \in Months, amount \in Amounts :
       Ask(m, amount) \/ Correct(m, amount) \/ Receive(m, amount)
  \/ \E m \in Months : Withdraw(m)
  \/ Closing

BookSpec == BookInit /\ [][BookNext]_bookVars
==============================================================================
