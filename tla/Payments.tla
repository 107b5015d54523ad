------------------------------ MODULE Payments ------------------------------
(***************************************************************************)
(* The payment desk: backend/src/payments/payments.service.ts with the     *)
(* overdue sweep of backend/src/invoices/invoices.service.ts, over the     *)
(* tables Invoice and Payment.                                             *)
(*                                                                         *)
(* The service runs on Node.js: a request is atomic between two awaits and *)
(* interleaves with every other request at each of them.  One action here  *)
(* is one database statement (or one $transaction); request[p] holds what  *)
(* request p has read and still trusts.  A request can fail at any await   *)
(* (worker restart, lost connection, a proof file that cannot be written)  *)
(* and leaves behind what it has already written.                          *)
(***************************************************************************)
EXTENDS InvoiceTable, Integers, FiniteSets

CONSTANTS
  Receipts,      \* primary keys of the table Payment
  Procs,         \* requests that can be in flight together
  Customers,
  Staff,         \* users with a role other than CUSTOMER
  Owner,         \* Owner[i]: the customer invoice i belongs to
  MockEnabled    \* NODE_ENV is not production and mock payment is switched on

ASSUME PaymentsAssumption ==
  /\ Invoices # {}
  /\ Owner \in [Invoices -> Customers]
  /\ Customers \cap Staff = {}
  /\ MockEnabled \in BOOLEAN

VARIABLES
  invoice,       \* table Invoice
  payment,       \* table Payment
  request        \* local state of every request

vars == <<invoice, payment, request>>

-----------------------------------------------------------------------------
(* Rows and local states *)

Money == 0..MaxTotal
Amounts == 1..MaxTotal

PaymentRow ==
  [status : {"ABSENT", "PENDING", "SUCCESS", "FAILED"}, inv : Invoices, amount : Money]

NoPayment == [status |-> "ABSENT", inv |-> CHOOSE i \in Invoices : TRUE, amount |-> 0]

Idle == [pc |-> "idle"]

(* total, paid and amount are snapshots: the database may have moved on. *)
Request ==
  {Idle}
    \cup [pc : {"mock_create", "mock_update"}, inv : Invoices, total : Money]
    \cup [pc : {"submit_check"}, inv : Invoices, outstanding : Money]
    \cup [pc : {"submit_create"}, inv : Invoices, amount : Amounts]
    \cup [pc : {"review_commit"}, receipt : Receipts, inv : Invoices, amount : Money,
          paid : Money, total : Money, verdict : {"SUCCESS", "FAILED"}]

MinOf(a, b) == IF a <= b THEN a ELSE b

OutstandingIgnoresPaid(i) == invoice[i].total   \* faulty variant of Outstanding

Outstanding(i) == IF invoice[i].paid >= invoice[i].total
                  THEN 0 ELSE invoice[i].total - invoice[i].paid

Finish(p) == request' = [request EXCEPT ![p] = Idle]

Pending(r) == payment[r].status = "PENDING"

-----------------------------------------------------------------------------
(* createMockPayment: the payment row and the invoice are written by two   *)
(* statements outside any transaction, whatever the status of the invoice. *)

MockRead(p, user, i) ==
  /\ MockEnabled
  /\ request[p] = Idle
  /\ invoice[i].status # "ABSENT"
  /\ user \in Customers => user = Owner[i]
  /\ request' = [request EXCEPT ![p] =
                   [pc |-> "mock_create", inv |-> i, total |-> invoice[i].total]]
  /\ UNCHANGED <<invoice, payment>>

MockCreate(p, r) ==
  /\ request[p].pc = "mock_create"
  /\ payment[r].status = "ABSENT"
  /\ payment' = [payment EXCEPT ![r] =
                   [status |-> "SUCCESS", inv |-> request[p].inv, amount |-> request[p].total]]
  /\ request' = [request EXCEPT ![p].pc = "mock_update"]
  /\ UNCHANGED invoice

MockUpdate(p) ==
  /\ request[p].pc = "mock_update"
  /\ invoice' = [invoice EXCEPT ![request[p].inv] =
                   Credited(@, request[p].total, "PAID")]
  /\ Finish(p)
  /\ UNCHANGED payment

-----------------------------------------------------------------------------
(* submitManualPayment: read the invoice, look for a receipt that is still *)
(* waiting, store the proof file, create the payment row.                  *)

SubmitRead(p, user, i) ==
  /\ request[p] = Idle
  /\ user \in Customers /\ user = Owner[i]
  /\ invoice[i].status \notin {"ABSENT", "PAID", "CANCELLED"}
  /\ request' = [request EXCEPT ![p] =
                   [pc |-> "submit_check", inv |-> i, outstanding |-> Outstanding(i)]]
  /\ UNCHANGED <<invoice, payment>>

(* Faulty variant of SubmitCheck: a waiting receipt is not looked for. *)
SubmitCheckIgnoresWaiting(p, amount) ==
  /\ request[p].pc = "submit_check"
  /\ amount \in 1..request[p].outstanding
  /\ request' = [request EXCEPT ![p] =
                   [pc |-> "submit_create", inv |-> request[p].inv, amount |-> amount]]
  /\ UNCHANGED <<invoice, payment>>

(* The amount is checked against the outstanding amount read one await ago. *)
SubmitCheck(p, amount) ==
  /\ request[p].pc = "submit_check"
  /\ \A r \in Receipts : Pending(r) => payment[r].inv # request[p].inv
  /\ amount \in 1..request[p].outstanding
  /\ request' = [request EXCEPT ![p] =
                   [pc |-> "submit_create", inv |-> request[p].inv, amount |-> amount]]
  /\ UNCHANGED <<invoice, payment>>

SubmitCreate(p, r) ==
  /\ request[p].pc = "submit_create"
  /\ payment[r].status = "ABSENT"
  /\ payment' = [payment EXCEPT ![r] =
                   [status |-> "PENDING", inv |-> request[p].inv, amount |-> request[p].amount]]
  /\ Finish(p)
  /\ UNCHANGED invoice

-----------------------------------------------------------------------------
(* reviewManualPayment: the payment and its invoice are read before the     *)
(* transaction that writes them, and the transaction repeats no check.      *)
ReviewRead(p, r, verdict) ==
  /\ request[p] = Idle
  /\ Pending(r)
  /\ request' = [request EXCEPT ![p] =
                   [pc |-> "review_commit", receipt |-> r, inv |-> payment[r].inv,
                    amount |-> payment[r].amount,
                    paid |-> invoice[payment[r].inv].paid,
                    total |-> invoice[payment[r].inv].total, verdict |-> verdict]]
  /\ UNCHANGED <<invoice, payment>>

NextPaid(q) == MinOf(q.paid + q.amount, q.total)

(* Faulty variant of ReviewAccept: off by one at the exact amount. *)
ReviewAcceptPaidWhenMore(p) ==
  LET q == request[p] IN
  /\ q.pc = "review_commit" /\ q.verdict = "SUCCESS"
  /\ payment' = [payment EXCEPT ![q.receipt].status = "SUCCESS"]
  /\ invoice' = [invoice EXCEPT ![q.inv] =
                   Credited(@, NextPaid(q), IF NextPaid(q) > q.total THEN "PAID" ELSE "PARTIAL")]
  /\ Finish(p)

ReviewAccept(p) ==
  LET q == request[p] IN
  /\ q.pc = "review_commit" /\ q.verdict = "SUCCESS"
  /\ payment' = [payment EXCEPT ![q.receipt].status = "SUCCESS"]
  /\ invoice' = [invoice EXCEPT ![q.inv] =
                   Credited(@, NextPaid(q), IF NextPaid(q) >= q.total THEN "PAID" ELSE "PARTIAL")]
  /\ Finish(p)

ReviewReject(p) ==
  LET q == request[p] IN
  /\ q.pc = "review_commit" /\ q.verdict = "FAILED"
  /\ payment' = [payment EXCEPT ![q.receipt].status = "FAILED"]
  /\ Finish(p)
  /\ UNCHANGED invoice

-----------------------------------------------------------------------------
(* A guard that throws, a failing await or a restart of the worker. *)
Abort(p) ==
  /\ request[p] # Idle
  /\ Finish(p)
  /\ UNCHANGED <<invoice, payment>>

(* refreshOverdueStatuses, on every read of the invoice list.  Time passes   *)
(* between any two steps, so any invoice can be the late one.               *)
RefreshOverdue(late) ==
  /\ late # {} /\ \A i \in late : CanBeLate(invoice[i])
  /\ invoice' = SweptOverdue(invoice, late)
  /\ UNCHANGED <<payment, request>>

-----------------------------------------------------------------------------
(* Billing has produced the invoices, nothing is paid and nobody is asking. *)
Init ==
  /\ invoice \in [Invoices ->
       [status : {"DRAFT", "PENDING_REVIEW", "ISSUED"}, total : 1..MaxTotal,
        paid : {0}, month : {1}]]
  /\ payment = [r \in Receipts |-> NoPayment]
  /\ request = [p \in Procs |-> Idle]

Mock(p) ==
  \/ \E user \in Customers \cup Staff, i \in Invoices : MockRead(p, user, i)
  \/ \E r \in Receipts : MockCreate(p, r)
  \/ MockUpdate(p)

Submit(p) ==
  \/ \E user \in Customers \cup Staff, i \in Invoices : SubmitRead(p, user, i)
  \/ \E amount \in Amounts : SubmitCheck(p, amount)
  \/ \E r \in Receipts : SubmitCreate(p, r)

Review(p) ==
  \/ \E r \in Receipts, verdict \in {"SUCCESS", "FAILED"} : ReviewRead(p, r, verdict)
  \/ ReviewAccept(p)
  \/ ReviewReject(p)

Next ==
  \/ \E p \in Procs : Mock(p) \/ Submit(p) \/ Review(p) \/ Abort(p)
  \/ \E late \in SUBSET Invoices : RefreshOverdue(late)

Spec == Init /\ [][Next]_vars

-----------------------------------------------------------------------------
(* Properties *)

TypeOK ==
  /\ invoice \in [Invoices -> InvoiceRow]
  /\ payment \in [Receipts -> PaymentRow]
  /\ request \in [Procs -> Request]

(* However requests interleave, fail or are repeated, the status an invoice *)
(* shows agrees with the money it shows: it is PAID exactly when it is      *)
(* covered in full, some money has come in before it is PARTIAL, and no     *)
(* review or mock payment credits more than the invoice asks for.           *)
StatusMatchesMoney ==
  \A i \in Invoices :
    /\ invoice[i].paid <= invoice[i].total
    /\ invoice[i].status = "PAID" <=> invoice[i].paid = invoice[i].total
    /\ invoice[i].status = "PARTIAL" => invoice[i].paid > 0

(* A customer has at most one receipt waiting per invoice, and accepting it *)
(* can be credited without being cut off at the total of the invoice.       *)
OneFittingReceipt ==
  \A r \in Receipts : Pending(r) =>
    /\ \A s \in Receipts \ {r} : Pending(s) => payment[s].inv # payment[r].inv
    /\ payment[r].amount + invoice[payment[r].inv].paid <= invoice[payment[r].inv].total

(* A receipt is decided once: an accepted or rejected payment stays so      *)
(* (the guard of reviewManualPayment: this transaction has been processed). *)
DecidedOnce ==
  [][\A r \in Receipts :
       payment[r].status \in {"SUCCESS", "FAILED"} => payment'[r] = payment[r]]_vars

(* Money that has been acknowledged is never taken back, and an invoice     *)
(* that is settled stays settled.                                           *)
AcknowledgedForGood ==
  [][\A i \in Invoices :
       /\ invoice'[i].paid >= invoice[i].paid
       /\ invoice[i].status = "PAID" => invoice'[i].status = "PAID"]_vars

(* Handing in, accepting and rejecting receipts as the customer and the     *)
(* reviewer understand them: see ReceiptLedger.                             *)
Ledger == INSTANCE ReceiptLedger WITH
  owed     <- [i \in Invoices |-> invoice[i].total],
  credited <- [i \in Invoices |-> invoice[i].paid],
  receipt  <- payment

(* One request at a time, mock payment off: the service implements the      *)
(* ledger, so an invoice is credited with exactly its accepted receipts.    *)
LedgerSpec == Ledger!LedgerSpec
=============================================================================
