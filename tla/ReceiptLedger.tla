---------------------------- MODULE ReceiptLedger ---------------------------
(***************************************************************************)
(* What the payment desk promises, without requests, snapshots or invoice  *)
(* statuses: a customer hands in one receipt at a time for at most what is *)
(* still owed, a reviewer decides every receipt once, and the invoice is   *)
(* credited with exactly the accepted receipts.  Payments implements this  *)
(* specification when one request is in flight at a time.                  *)
(***************************************************************************)
EXTENDS Naturals

CONSTANTS
  Invoices,
  Receipts,
  Amounts      \* amounts a receipt can state

VARIABLES
  owed,       \* owed[i]: total of invoice i
  credited,   \* credited[i]: amount acknowledged so far
  receipt     \* receipt[r]: state, invoice and amount of receipt r

ledgerVars == <<owed, credited, receipt>>

Waiting(r) == receipt[r].status = "PENDING"

LedgerInit ==
  /\ owed \in [Invoices -> Nat]
  /\ credited = [i \in Invoices |-> 0]
  /\ \A r \in Receipts : receipt[r].status = "ABSENT"

HandIn(r, i, amount) ==
  /\ receipt[r].status = "ABSENT"
  /\ \A s \in Receipts : Waiting(s) => receipt[s].inv # i
  /\ credited[i] + amount <= owed[i]
  /\ receipt' = [receipt EXCEPT ![r] = [status |-> "PENDING", inv |-> i, amount |-> amount]]
  /\ UNCHANGED <<owed, credited>>

Accept(r) ==
  /\ Waiting(r)
  /\ receipt' = [receipt EXCEPT ![r].status = "SUCCESS"]
  /\ credited' = [credited EXCEPT ![receipt[r].inv] = @ + receipt[r].amount]
  /\ UNCHANGED owed

Reject(r) ==
  /\ Waiting(r)
  /\ receipt' = [receipt EXCEPT ![r].status = "FAILED"]
  /\ UNCHANGED <<owed, credited>>

LedgerNext ==
  \E r \in Receipts :
    \/ \E i \in Invoices, amount \in Amounts : HandIn(r, i, amount)
    \/ Accept(r)
    \/ Reject(r)

LedgerSpec == LedgerInit /\ [][LedgerNext]_ledgerVars
=============================================================================
