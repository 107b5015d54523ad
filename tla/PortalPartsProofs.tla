--------------------------- MODULE PortalPartsProofs ---------------------------
(***************************************************************************)
(* What the run PortalParts checks on small instances, proved for all of   *)
(* them.  Zalo's senders (Zalo) have a module of proofs of their own,      *)
(* whose theorems are carried over here; the payment desk (the part        *)
(* without a name), the writers of a month (Month), support tickets        *)
(* (Support), the plants of a Deye account (Plant) and Zalo's access token *)
(* (Token) are proved about in this one.                                   *)
(***************************************************************************)
EXTENDS MCPortalParts, TLAPS

(* Only one part moves, so every part behaves as its specification says.     *)
LEMMA PartsAreTheirSpecs ==
  PartsSpec => /\ Spec /\ Zalo!Spec /\ Token!Spec /\ Month!Spec /\ Plant!Spec
               /\ Support!Spec
<1>1. PartsInit => /\ Init /\ Zalo!Init /\ Token!Init /\ Month!Init /\ Plant!Init
                   /\ Support!Init
  BY DEF PartsInit
<1>2. [PartsNext]_allVars =>
        /\ [Next]_vars /\ [Zalo!Next]_Zalo!vars /\ [Token!Next]_Token!vars
        /\ [Month!Next]_Month!vars /\ [Plant!Next]_Plant!vars
        /\ [Support!Next]_Support!vars
  BY DEF PartsNext, allVars, zaloVars, tokenVars, monthVars, plantVars, ticketVars,
         Zalo!vars, Token!vars, Month!vars, Plant!vars, Support!vars
<1>3. QED
  BY <1>1, <1>2, PTL DEF PartsSpec, Spec, Zalo!Spec, Token!Spec, Month!Spec,
                         Plant!Spec, Support!Spec

-----------------------------------------------------------------------------
(* The payment desk, for any number of invoices, receipts, amounts and       *)
(* requests: types, and the agreement between an invoice's status and its    *)
(* money under every interleaving.                                           *)

(* Crediting an invoice changes its paid amount and status, nothing else. *)
LEMMA CreditedRow ==
  ASSUME NEW debt \in InvoiceRow, NEW amount \in Money, NEW result \in InvoiceStatus
  PROVE  /\ Credited(debt, amount, result) \in InvoiceRow
         /\ Credited(debt, amount, result).paid = amount
         /\ Credited(debt, amount, result).status = result
         /\ Credited(debt, amount, result).total = debt.total
  BY DEF Credited, InvoiceRow, InvoiceStatus, Money

(* Every step preserves the types of the tables and of the requests. *)
LEMMA TypeStep == TypeOK /\ [Next]_vars => TypeOK'
<1> SUFFICES ASSUME TypeOK, [Next]_vars PROVE TypeOK'
  OBVIOUS
<1> USE InvoiceTableAssumption, PaymentsAssumption
<1> USE DEF TypeOK, InvoiceRow, InvoiceStatus, PaymentRow, Request, Idle, Money, Amounts
<1>1. ASSUME NEW p \in Procs, NEW user \in Customers \cup Staff, NEW i \in Invoices,
             MockRead(p, user, i)
      PROVE  TypeOK'
  BY <1>1 DEF MockRead
<1>2. ASSUME NEW p \in Procs, NEW r \in Receipts, MockCreate(p, r)
      PROVE  TypeOK'
  BY <1>2 DEF MockCreate
<1>3. ASSUME NEW p \in Procs, MockUpdate(p)
      PROVE  TypeOK'
  <2>1. request[p].inv \in Invoices /\ request[p].total \in Money
    BY <1>3 DEF MockUpdate
  <2>2. Credited(invoice[request[p].inv], request[p].total, "PAID") \in InvoiceRow
    BY <2>1, CreditedRow
  <2>3. invoice' \in [Invoices -> InvoiceRow]
    <3> HIDE DEF Request, InvoiceRow
    <3>1. QED
      BY <1>3, <2>1, <2>2 DEF MockUpdate
  <2>4. request' \in [Procs -> Request] /\ payment' = payment
    BY <1>3 DEF MockUpdate, Finish
  <2>5. QED
    BY <2>3, <2>4
<1>4. ASSUME NEW p \in Procs, NEW user \in Customers \cup Staff, NEW i \in Invoices,
             SubmitRead(p, user, i)
      PROVE  TypeOK'
  BY <1>4 DEF SubmitRead, Outstanding
<1>5. ASSUME NEW p \in Procs, NEW amount \in Amounts, SubmitCheck(p, amount)
      PROVE  TypeOK'
  BY <1>5 DEF SubmitCheck
<1>6. ASSUME NEW p \in Procs, NEW r \in Receipts, SubmitCreate(p, r)
      PROVE  TypeOK'
  BY <1>6 DEF SubmitCreate, Finish
<1>7. ASSUME NEW p \in Procs, NEW r \in Receipts, NEW verdict \in {"SUCCESS", "FAILED"},
             ReviewRead(p, r, verdict)
      PROVE  TypeOK'
  BY <1>7 DEF ReviewRead, Pending
<1>8. ASSUME NEW p \in Procs, ReviewAccept(p)
      PROVE  TypeOK'
  <2> DEFINE q == request[p]
  <2>1. /\ q.receipt \in Receipts /\ q.inv \in Invoices
        /\ q.amount \in Nat /\ q.paid \in Nat /\ q.total \in Money
    BY <1>8 DEF ReviewAccept
  <2>2. NextPaid(q) \in Money
    BY <2>1 DEF NextPaid, MinOf
  <2>3. invoice' \in [Invoices -> InvoiceRow]
    <3> DEFINE result == IF NextPaid(q) >= q.total THEN "PAID" ELSE "PARTIAL"
               credited == Credited(invoice[q.inv], NextPaid(q), result)
    <3>1. invoice' = [invoice EXCEPT ![q.inv] = credited]
      BY <1>8 DEF ReviewAccept
    <3>2. credited \in InvoiceRow
      <4>1. invoice[q.inv] \in InvoiceRow /\ result \in InvoiceStatus
        BY <2>1
      <4>2. QED
        BY <2>2, <4>1, CreditedRow
    <3> HIDE DEF credited, InvoiceRow, Request
    <3>3. QED
      BY <2>1, <3>1, <3>2
  <2>4. payment' \in [Receipts -> PaymentRow]
    <3> HIDE DEF Request
    <3>1. QED
      BY <1>8, <2>1 DEF ReviewAccept
  <2>5. request' \in [Procs -> Request]
    BY <1>8 DEF ReviewAccept, Finish
  <2>6. QED
    BY <2>3, <2>4, <2>5
<1>9. ASSUME NEW p \in Procs, ReviewReject(p)
      PROVE  TypeOK'
  BY <1>9 DEF ReviewReject, Finish
<1>10. ASSUME NEW p \in Procs, Abort(p)
       PROVE  TypeOK'
  BY <1>10 DEF Abort, Finish
<1>11. ASSUME NEW late \in SUBSET Invoices, RefreshOverdue(late)
       PROVE  TypeOK'
  <2>1. \A i \in Invoices : [invoice[i] EXCEPT !.status = "OVERDUE"] \in InvoiceRow
    OBVIOUS
  <2>2. DOMAIN invoice = Invoices /\ \A i \in Invoices : invoice[i] \in InvoiceRow
    OBVIOUS
  <2> HIDE DEF InvoiceRow, Request
  <2>3. invoice' \in [Invoices -> InvoiceRow]
    BY <1>11, <2>1, <2>2 DEF RefreshOverdue, SweptOverdue
  <2>4. QED
    BY <1>11, <2>3 DEF RefreshOverdue
<1>12. CASE UNCHANGED vars
  BY <1>12 DEF vars
<1>13. QED
  BY <1>1, <1>2, <1>3, <1>4, <1>5, <1>6, <1>7, <1>8, <1>9, <1>10, <1>11, <1>12
     DEF Next, Mock, Submit, Review

LEMMA InitTypeOK == Init => TypeOK
<1> SUFFICES ASSUME Init PROVE TypeOK
  OBVIOUS
<1>1. invoice \in [Invoices -> InvoiceRow]
  BY InvoiceTableAssumption DEF Init, InvoiceRow, InvoiceStatus
<1>2. NoPayment \in PaymentRow
  BY PaymentsAssumption, InvoiceTableAssumption DEF NoPayment, PaymentRow, Money
<1>3. QED
  BY <1>1, <1>2 DEF Init, TypeOK, Request

(* The types are those the tables and the requests are declared with. *)
THEOREM TypeCorrect == Spec => []TypeOK
  BY InitTypeOK, TypeStep, PTL DEF Spec

-----------------------------------------------------------------------------
(* Status and money under every interleaving.  Snapshots of paid amounts go *)
(* stale; what stays true is that totals never change, so that every        *)
(* request still knows the total of its invoice and cuts off there.         *)

SnapshotOfTotal(p) ==
  /\ request[p].pc \in {"mock_create", "mock_update"} =>
       request[p].total = invoice[request[p].inv].total
  /\ request[p].pc = "review_commit" =>
       /\ request[p].total = invoice[request[p].inv].total
       /\ request[p].amount > 0

MoneyInv ==
  /\ TypeOK
  /\ \A i \in Invoices : invoice[i].total > 0
  /\ StatusMatchesMoney
  /\ \A r \in Receipts : Pending(r) => payment[r].amount > 0
  /\ \A p \in Procs : SnapshotOfTotal(p)

(* The shapes of request records, by program counter. *)
LEMMA RequestShape ==
  ASSUME TypeOK, NEW p \in Procs
  PROVE  /\ request[p].pc \in {"mock_create", "mock_update"} =>
              request[p] \in [pc : {"mock_create", "mock_update"}, inv : Invoices, total : Money]
         /\ request[p].pc = "submit_check" =>
              request[p] \in [pc : {"submit_check"}, inv : Invoices, outstanding : Money]
         /\ request[p].pc = "submit_create" =>
              request[p] \in [pc : {"submit_create"}, inv : Invoices, amount : Amounts]
         /\ request[p].pc = "review_commit" =>
              request[p] \in [pc : {"review_commit"}, receipt : Receipts, inv : Invoices,
                              amount : Money, paid : Money, total : Money,
                              verdict : {"SUCCESS", "FAILED"}]
  BY DEF TypeOK, Request, Idle

(* A step that leaves invoices and payments alone and starts no mock or     *)
(* review request preserves the invariant.                                  *)
LEMMA MoneyInvLocal ==
  ASSUME MoneyInv, TypeOK', UNCHANGED <<invoice, payment>>,
         NEW p \in Procs, NEW q, request' = [request EXCEPT ![p] = q],
         q.pc \notin {"mock_create", "mock_update", "review_commit"}
  PROVE  MoneyInv'
<1>1. \A o \in Procs : SnapshotOfTotal(o)'
  BY DEF MoneyInv, TypeOK, SnapshotOfTotal
<1>2. QED
  BY <1>1 DEF MoneyInv, StatusMatchesMoney, Pending

(* What an update of one invoice has to respect. *)
LEMMA MoneyInvCredit ==
  ASSUME MoneyInv, TypeOK',
         NEW p \in Procs, request' = [request EXCEPT ![p] = Idle],
         \A r \in Receipts : Pending(r)' => payment'[r] = payment[r],
         NEW i \in Invoices, NEW paid \in Money, NEW result \in {"PAID", "PARTIAL"},
         0 < paid, paid <= invoice[i].total,
         result = "PAID" <=> paid = invoice[i].total,
         invoice' = [invoice EXCEPT ![i] = Credited(@, paid, result)]
  PROVE  MoneyInv'
<1>1. /\ invoice'[i].paid = paid /\ invoice'[i].status = result
      /\ invoice'[i].total = invoice[i].total
  <2>1. invoice[i] \in InvoiceRow /\ result \in InvoiceStatus
    BY DEF MoneyInv, TypeOK, InvoiceStatus
  <2>2. invoice'[i] = Credited(invoice[i], paid, result)
    BY DEF MoneyInv, TypeOK
  <2>3. QED
    BY <2>1, <2>2, CreditedRow
<1>2. \A j \in Invoices : j # i => invoice'[j] = invoice[j]
  BY DEF MoneyInv, TypeOK
<1>3. \A j \in Invoices : invoice'[j].total = invoice[j].total
  BY <1>1, <1>2
<1>4. StatusMatchesMoney'
  BY <1>1, <1>2 DEF MoneyInv, StatusMatchesMoney
<1>5. \A o \in Procs : SnapshotOfTotal(o)'
  <2> SUFFICES ASSUME NEW o \in Procs PROVE SnapshotOfTotal(o)'
    OBVIOUS
  <2>1. CASE o = p
    BY <2>1 DEF MoneyInv, TypeOK, SnapshotOfTotal, Idle
  <2>2. CASE o # p
    <3>1. request'[o] = request[o]
      BY <2>2 DEF MoneyInv, TypeOK
    <3>2. SnapshotOfTotal(o) /\ TypeOK
      BY DEF MoneyInv
    <3>3. QED
      BY <1>3, <3>1, <3>2, RequestShape DEF SnapshotOfTotal
  <2>3. QED
    BY <2>1, <2>2
<1>6. QED
  BY <1>3, <1>4, <1>5 DEF MoneyInv, Pending

LEMMA MoneyInvStep == MoneyInv /\ [Next]_vars => MoneyInv'
<1> SUFFICES ASSUME MoneyInv, [Next]_vars PROVE MoneyInv'
  OBVIOUS
<1>a. TypeOK /\ TypeOK'
  BY TypeStep DEF MoneyInv
<1>1. ASSUME NEW p \in Procs, NEW user \in Customers \cup Staff, NEW i \in Invoices,
             MockRead(p, user, i)
      PROVE  MoneyInv'
  <2>1. \A o \in Procs : SnapshotOfTotal(o)'
    BY <1>1, <1>a DEF MockRead, MoneyInv, TypeOK, SnapshotOfTotal
  <2>2. QED
    BY <1>1, <1>a, <2>1 DEF MockRead, MoneyInv, StatusMatchesMoney, Pending
<1>2. ASSUME NEW p \in Procs, NEW r \in Receipts, MockCreate(p, r)
      PROVE  MoneyInv'
  <2>1. \A o \in Procs : SnapshotOfTotal(o)'
    BY <1>2, <1>a, RequestShape DEF MockCreate, MoneyInv, TypeOK, SnapshotOfTotal
  <2>2. \A s \in Receipts : Pending(s)' => payment'[s] = payment[s]
    BY <1>2, <1>a DEF MockCreate, TypeOK, Pending
  <2>3. QED
    BY <1>2, <1>a, <2>1, <2>2 DEF MockCreate, MoneyInv, StatusMatchesMoney, Pending
<1>3. ASSUME NEW p \in Procs, MockUpdate(p)
      PROVE  MoneyInv'
  <2> DEFINE i == request[p].inv
  <2>1. i \in Invoices /\ request[p].total \in Money
    BY <1>3, <1>a, RequestShape DEF MockUpdate
  <2>2. request[p].total = invoice[i].total /\ 0 < request[p].total
    BY <1>3, <2>1 DEF MockUpdate, MoneyInv, SnapshotOfTotal
  <2>3. request[p].total <= invoice[i].total
    BY <2>1, <2>2, InvoiceTableAssumption DEF Money
  <2>4. QED
    <3>1. /\ request' = [request EXCEPT ![p] = Idle]
          /\ invoice' = [invoice EXCEPT ![i] = Credited(@, request[p].total, "PAID")]
          /\ payment' = payment
      BY <1>3 DEF MockUpdate, Finish
    <3> HIDE DEF i
    <3>2. QED
      BY <1>a, <2>1, <2>2, <2>3, <3>1, MoneyInvCredit DEF Pending
<1>4. ASSUME NEW p \in Procs, NEW user \in Customers \cup Staff, NEW i \in Invoices,
             SubmitRead(p, user, i)
      PROVE  MoneyInv'
  BY <1>4, <1>a, MoneyInvLocal DEF SubmitRead
<1>5. ASSUME NEW p \in Procs, NEW amount \in Amounts, SubmitCheck(p, amount)
      PROVE  MoneyInv'
  BY <1>5, <1>a, MoneyInvLocal DEF SubmitCheck
<1>6. ASSUME NEW p \in Procs, NEW r \in Receipts, SubmitCreate(p, r)
      PROVE  MoneyInv'
  <2>1. request[p].amount > 0
    BY <1>6, <1>a, RequestShape, InvoiceTableAssumption DEF SubmitCreate, Amounts
  <2>2. \A s \in Receipts : Pending(s)' => payment'[s].amount > 0
    BY <1>6, <1>a, <2>1 DEF SubmitCreate, TypeOK, MoneyInv, Pending
  <2>3. \A o \in Procs : SnapshotOfTotal(o)'
    BY <1>6, <1>a DEF SubmitCreate, Finish, Idle, MoneyInv, TypeOK, SnapshotOfTotal
  <2>4. QED
    BY <1>6, <1>a, <2>2, <2>3 DEF SubmitCreate, MoneyInv, StatusMatchesMoney, Pending
<1>7. ASSUME NEW p \in Procs, NEW r \in Receipts, NEW verdict \in {"SUCCESS", "FAILED"},
             ReviewRead(p, r, verdict)
      PROVE  MoneyInv'
  <2>1. \A o \in Procs : SnapshotOfTotal(o)'
    BY <1>7, <1>a DEF ReviewRead, MoneyInv, TypeOK, SnapshotOfTotal, Pending
  <2>2. QED
    BY <1>7, <1>a, <2>1 DEF ReviewRead, MoneyInv, StatusMatchesMoney, Pending
<1>8. ASSUME NEW p \in Procs, ReviewAccept(p)
      PROVE  MoneyInv'
  <2> DEFINE q == request[p]
             result == IF NextPaid(q) >= q.total THEN "PAID" ELSE "PARTIAL"
  <2>1. /\ q.receipt \in Receipts /\ q.inv \in Invoices
        /\ q.amount \in Money /\ q.paid \in Money /\ q.total \in Money
    BY <1>8, <1>a, RequestShape DEF ReviewAccept
  <2>2. q.total = invoice[q.inv].total /\ q.total > 0 /\ q.amount > 0
    BY <1>8, <2>1 DEF ReviewAccept, MoneyInv, SnapshotOfTotal
  <2>3. NextPaid(q) \in Money /\ 0 < NextPaid(q) /\ NextPaid(q) <= q.total
    BY <2>1, <2>2, InvoiceTableAssumption DEF NextPaid, MinOf, Money
  <2>4. result = "PAID" <=> NextPaid(q) = q.total
    BY <2>1, <2>3, InvoiceTableAssumption DEF Money
  <2>5. \A s \in Receipts : Pending(s)' => payment'[s] = payment[s]
    BY <1>8, <1>a, <2>1 DEF ReviewAccept, TypeOK, Pending
  <2>6. QED
    <3>1. /\ request' = [request EXCEPT ![p] = Idle]
          /\ invoice' = [invoice EXCEPT ![q.inv] = Credited(@, NextPaid(q), result)]
      BY <1>8 DEF ReviewAccept, Finish
    <3>2. result \in {"PAID", "PARTIAL"}
      OBVIOUS
    <3>3. NextPaid(q) <= invoice[q.inv].total
          /\ (result = "PAID" <=> NextPaid(q) = invoice[q.inv].total)
      BY <2>2, <2>3, <2>4
    <3> HIDE DEF q, result
    <3>4. QED
      BY <1>a, <2>1, <2>3, <2>5, <3>1, <3>2, <3>3, MoneyInvCredit
<1>9. ASSUME NEW p \in Procs, ReviewReject(p)
      PROVE  MoneyInv'
  <2>1. request[p].receipt \in Receipts
    BY <1>9, <1>a, RequestShape DEF ReviewReject
  <2>2. \A s \in Receipts : Pending(s)' => payment'[s] = payment[s]
    BY <1>9, <1>a, <2>1 DEF ReviewReject, TypeOK, Pending
  <2>3. \A o \in Procs : SnapshotOfTotal(o)'
    BY <1>9, <1>a DEF ReviewReject, Finish, Idle, MoneyInv, TypeOK, SnapshotOfTotal
  <2>4. QED
    BY <1>9, <1>a, <2>2, <2>3 DEF ReviewReject, MoneyInv, StatusMatchesMoney, Pending
<1>10. ASSUME NEW p \in Procs, Abort(p)
       PROVE  MoneyInv'
  BY <1>10, <1>a, MoneyInvLocal DEF Abort, Finish, Idle
<1>11. ASSUME NEW late \in SUBSET Invoices, RefreshOverdue(late)
       PROVE  MoneyInv'
  <2>1. \A i \in Invoices :
          /\ invoice'[i].total = invoice[i].total /\ invoice'[i].paid = invoice[i].paid
          /\ \/ invoice'[i].status = invoice[i].status
             \/ invoice'[i].status = "OVERDUE" /\ invoice[i].status \in {"ISSUED", "PARTIAL"}
    BY <1>11, <1>a DEF RefreshOverdue, CanBeLate, SweptOverdue, TypeOK, InvoiceRow
  <2>2. StatusMatchesMoney'
    BY <2>1 DEF MoneyInv, StatusMatchesMoney
  <2>3. \A o \in Procs : SnapshotOfTotal(o)'
    BY <1>11, <1>a, <2>1, RequestShape DEF RefreshOverdue, CanBeLate, SweptOverdue, MoneyInv,
       SnapshotOfTotal
  <2>4. QED
    BY <1>11, <1>a, <2>1, <2>2, <2>3 DEF RefreshOverdue, CanBeLate, SweptOverdue, MoneyInv, Pending
<1>12. CASE UNCHANGED vars
  BY <1>12, <1>a DEF vars, MoneyInv, StatusMatchesMoney, SnapshotOfTotal, Pending
<1>13. QED
  BY <1>1, <1>2, <1>3, <1>4, <1>5, <1>6, <1>7, <1>8, <1>9, <1>10, <1>11, <1>12
     DEF Next, Mock, Submit, Review

(* At first there is no receipt at all.                                      *)
LEMMA NothingPendingYet ==
  ASSUME Init, NEW r \in Receipts PROVE payment[r].status = "ABSENT" /\ ~Pending(r)
<1>1. payment[r] = NoPayment
  BY Zenon DEF Init
<1>2. QED
  BY <1>1 DEF NoPayment, Pending

LEMMA InitMoneyInv == Init => MoneyInv
<1> SUFFICES ASSUME Init PROVE MoneyInv
  OBVIOUS
<1>1. TypeOK
  BY InitTypeOK
<1>2. \A i \in Invoices :
        /\ invoice[i].total \in Nat /\ invoice[i].total > 0 /\ invoice[i].paid = 0
        /\ invoice[i].status \in {"DRAFT", "PENDING_REVIEW", "ISSUED"}
  BY InvoiceTableAssumption DEF Init
<1>3. StatusMatchesMoney
  <2> SUFFICES ASSUME NEW o \in Invoices
               PROVE  /\ invoice[o].paid <= invoice[o].total
                      /\ invoice[o].status = "PAID" <=> invoice[o].paid = invoice[o].total
                      /\ invoice[o].status = "PARTIAL" => invoice[o].paid > 0
    BY Zenon DEF StatusMatchesMoney
  <2>1. /\ invoice[o].total \in Nat /\ invoice[o].total > 0 /\ invoice[o].paid = 0
        /\ invoice[o].status \in {"DRAFT", "PENDING_REVIEW", "ISSUED"}
    BY <1>2
  <2>2. QED
    BY <2>1
<1>4. \A p \in Procs : SnapshotOfTotal(p)
  BY DEF Init, SnapshotOfTotal, Idle
<1>5. \A r \in Receipts : ~Pending(r)
  BY NothingPendingYet
<1>6. QED
  BY Zenon, <1>1, <1>2, <1>3, <1>4, <1>5 DEF MoneyInv

(* However requests interleave, fail or are repeated, status and money of   *)
(* every invoice agree and nothing is credited beyond the total.            *)
THEOREM StatusAlwaysMatchesMoney == Spec => []StatusMatchesMoney
<1>1. Init => MoneyInv
  BY InitMoneyInv
<1>2. MoneyInv => StatusMatchesMoney
  BY DEF MoneyInv
<1>3. QED
  BY <1>1, <1>2, MoneyInvStep, PTL DEF Spec

-----------------------------------------------------------------------------
(* One request in flight at a time, mock payment switched off.  Then every  *)
(* snapshot is still what the tables say when it is used.                   *)

OneRequest == \A p, q \in Procs : p = q

SnapshotIsCurrent(p) ==
  LET q == request[p] IN
  /\ q.pc \notin {"mock_create", "mock_update"}
  /\ q.pc = "submit_check" => q.outstanding = Outstanding(q.inv)
  /\ q.pc = "submit_create" =>
       /\ \A r \in Receipts : Pending(r) => payment[r].inv # q.inv
       /\ q.amount + invoice[q.inv].paid <= invoice[q.inv].total
  /\ q.pc = "review_commit" =>
       /\ Pending(q.receipt)
       /\ payment[q.receipt].inv = q.inv
       /\ payment[q.receipt].amount = q.amount
       /\ q.paid = invoice[q.inv].paid

DeskInv ==
  /\ MoneyInv
  /\ OneFittingReceipt
  /\ \A p \in Procs : SnapshotIsCurrent(p)

(* The overdue sweep touches no money.                                       *)
LEMMA DeskInvSameMoney ==
  ASSUME DeskInv, MoneyInv', UNCHANGED <<payment, request>>,
         \A i \in Invoices : /\ invoice'[i].total = invoice[i].total
                             /\ invoice'[i].paid = invoice[i].paid
  PROVE  DeskInv'
<1>1. TypeOK
  BY DEF DeskInv, MoneyInv
<1>2. OneFittingReceipt'
  BY <1>1 DEF DeskInv, OneFittingReceipt, Pending, TypeOK, PaymentRow
<1>3. ASSUME NEW p \in Procs PROVE SnapshotIsCurrent(p)'
  <2>1. SnapshotIsCurrent(p)
    BY DEF DeskInv
  <2>2. request[p].pc \in {"submit_check", "submit_create", "review_commit"} =>
          request[p].inv \in Invoices
    BY <1>1, RequestShape
  <2>3. QED
    BY <2>1, <2>2 DEF SnapshotIsCurrent, Outstanding, Pending
<1>4. QED
  BY <1>2, <1>3 DEF DeskInv

(* A request that is done, or that only reads, leaves the tables alone.     *)
LEMMA DeskInvLocal ==
  ASSUME DeskInv, MoneyInv', UNCHANGED <<invoice, payment>>, OneRequest,
         NEW p \in Procs, SnapshotIsCurrent(p)'
  PROVE  DeskInv'
  BY DEF DeskInv, OneFittingReceipt, Pending, OneRequest

LEMMA DeskInvStep ==
  ASSUME OneRequest, ~MockEnabled, DeskInv, [Next]_vars PROVE DeskInv'
<1>a. TypeOK /\ MoneyInv /\ MoneyInv'
  BY MoneyInvStep DEF DeskInv, MoneyInv
<1>1. ASSUME NEW p \in Procs, Mock(p)
      PROVE  DeskInv'
  <2>1. SnapshotIsCurrent(p)
    BY DEF DeskInv
  <2>2. QED
    BY <1>1, <2>1 DEF Mock, MockRead, MockCreate, MockUpdate, SnapshotIsCurrent
<1>2. ASSUME NEW p \in Procs, NEW user \in Customers \cup Staff, NEW i \in Invoices,
             SubmitRead(p, user, i)
      PROVE  DeskInv'
  <2>1. SnapshotIsCurrent(p)'
    BY <1>2, <1>a DEF SubmitRead, SnapshotIsCurrent, TypeOK, Outstanding
  <2>2. QED
    BY <1>2, <1>a, <2>1, DeskInvLocal DEF SubmitRead
<1>3. ASSUME NEW p \in Procs, NEW amount \in Amounts, SubmitCheck(p, amount)
      PROVE  DeskInv'
  <2> DEFINE i == request[p].inv
  <2>1. i \in Invoices /\ request[p].outstanding = Outstanding(i)
    BY <1>3, <1>a, RequestShape DEF SubmitCheck, DeskInv, SnapshotIsCurrent
  <2>2. amount \in Nat /\ amount > 0 /\ amount <= Outstanding(i)
    BY <1>3, <2>1, InvoiceTableAssumption DEF SubmitCheck, Amounts, Outstanding
  <2>3. invoice[i].paid \in Nat /\ invoice[i].total \in Nat
    BY <1>a, <2>1, InvoiceTableAssumption DEF TypeOK, InvoiceRow
  <2>4. amount + invoice[i].paid <= invoice[i].total
    BY <2>2, <2>3 DEF Outstanding
  <2>5. SnapshotIsCurrent(p)'
    BY <1>3, <1>a, <2>4 DEF SubmitCheck, SnapshotIsCurrent, TypeOK, Pending
  <2>6. QED
    BY <1>3, <1>a, <2>5, DeskInvLocal DEF SubmitCheck
<1>4. ASSUME NEW p \in Procs, NEW r \in Receipts, SubmitCreate(p, r)
      PROVE  DeskInv'
  <2> DEFINE q == request[p]
  <2>1. q.inv \in Invoices
    BY <1>4, <1>a, RequestShape DEF SubmitCreate
  <2>2. /\ \A s \in Receipts : Pending(s) => payment[s].inv # q.inv
        /\ q.amount + invoice[q.inv].paid <= invoice[q.inv].total
    BY <1>4 DEF SubmitCreate, DeskInv, SnapshotIsCurrent
  <2>3. /\ payment'[r].inv = q.inv /\ payment'[r].amount = q.amount
        /\ \A s \in Receipts \ {r} : payment'[s] = payment[s]
        /\ invoice' = invoice
    BY <1>4, <1>a DEF SubmitCreate, TypeOK
  <2>4. OneFittingReceipt'
    <3> HIDE DEF q
    <3>1. QED
      BY <2>2, <2>3 DEF DeskInv, OneFittingReceipt, Pending
  <2>5. \A o \in Procs : SnapshotIsCurrent(o)'
    BY <1>4, <1>a DEF SubmitCreate, Finish, Idle, SnapshotIsCurrent, OneRequest, TypeOK
  <2>6. QED
    BY <1>a, <2>4, <2>5 DEF DeskInv
<1>5. ASSUME NEW p \in Procs, NEW r \in Receipts, NEW verdict \in {"SUCCESS", "FAILED"},
             ReviewRead(p, r, verdict)
      PROVE  DeskInv'
  <2>1. SnapshotIsCurrent(p)'
    BY <1>5, <1>a DEF ReviewRead, SnapshotIsCurrent, TypeOK, Pending
  <2>2. QED
    BY <1>5, <1>a, <2>1, DeskInvLocal DEF ReviewRead
<1>6. ASSUME NEW p \in Procs, ReviewAccept(p)
      PROVE  DeskInv'
  <2> DEFINE q == request[p]
  <2>1. q.receipt \in Receipts /\ q.inv \in Invoices
    BY <1>6, <1>a, RequestShape DEF ReviewAccept
  <2>2. Pending(q.receipt) /\ payment[q.receipt].inv = q.inv
    BY <1>6 DEF ReviewAccept, DeskInv, SnapshotIsCurrent
  <2>3. /\ payment'[q.receipt].status = "SUCCESS"
        /\ \A s \in Receipts \ {q.receipt} : payment'[s] = payment[s]
        /\ \A j \in Invoices \ {q.inv} : invoice'[j] = invoice[j]
    BY <1>6, <1>a, <2>1 DEF ReviewAccept, TypeOK, PaymentRow
  <2>4. \A s \in Receipts : Pending(s)' =>
          /\ Pending(s) /\ payment'[s] = payment[s] /\ payment[s].inv # q.inv
          /\ invoice'[payment[s].inv] = invoice[payment[s].inv]
    BY <1>a, <2>1, <2>2, <2>3 DEF DeskInv, OneFittingReceipt, Pending, TypeOK, PaymentRow
  <2>5. OneFittingReceipt'
    BY <2>4 DEF DeskInv, OneFittingReceipt
  <2>6. \A o \in Procs : SnapshotIsCurrent(o)'
    BY <1>6, <1>a DEF ReviewAccept, Finish, Idle, SnapshotIsCurrent, OneRequest, TypeOK
  <2>7. QED
    BY <1>a, <2>5, <2>6 DEF DeskInv
<1>7. ASSUME NEW p \in Procs, ReviewReject(p)
      PROVE  DeskInv'
  <2> DEFINE q == request[p]
  <2>1. q.receipt \in Receipts
    BY <1>7, <1>a, RequestShape DEF ReviewReject
  <2>2. \A s \in Receipts : Pending(s)' => Pending(s) /\ payment'[s] = payment[s]
    BY <1>7, <1>a, <2>1 DEF ReviewReject, TypeOK, PaymentRow, Pending
  <2>3. OneFittingReceipt'
    BY <1>7, <2>2 DEF ReviewReject, DeskInv, OneFittingReceipt
  <2>4. \A o \in Procs : SnapshotIsCurrent(o)'
    BY <1>7, <1>a DEF ReviewReject, Finish, Idle, SnapshotIsCurrent, OneRequest, TypeOK
  <2>5. QED
    BY <1>a, <2>3, <2>4 DEF DeskInv
<1>8. ASSUME NEW p \in Procs, Abort(p)
      PROVE  DeskInv'
  <2>1. SnapshotIsCurrent(p)'
    BY <1>8, <1>a DEF Abort, Finish, Idle, SnapshotIsCurrent, TypeOK
  <2>2. QED
    BY <1>8, <1>a, <2>1, DeskInvLocal DEF Abort
<1>9. ASSUME NEW late \in SUBSET Invoices, RefreshOverdue(late)
      PROVE  DeskInv'
  BY <1>9, <1>a, DeskInvSameMoney DEF RefreshOverdue, CanBeLate, SweptOverdue, TypeOK, InvoiceRow
<1>10. CASE UNCHANGED vars
  BY <1>10, <1>a, DeskInvSameMoney DEF vars
<1>11. QED
  BY <1>1, <1>2, <1>3, <1>4, <1>5, <1>6, <1>7, <1>8, <1>9, <1>10
     DEF Next, Submit, Review

LEMMA DeskInvInit == ASSUME Init PROVE DeskInv
<1>1. MoneyInv /\ OneFittingReceipt
  BY InitMoneyInv, NothingPendingYet, Zenon DEF OneFittingReceipt
<1>2. \A p \in Procs : SnapshotIsCurrent(p)
  BY DEF Init, SnapshotIsCurrent, Idle
<1>3. QED
  BY Zenon, <1>1, <1>2 DEF DeskInv

(* What an accepted review finds when one request is in flight: the receipt *)
(* still waits, fits, and the invoice is credited with all of it.           *)
LEMMA AcceptCredits ==
  ASSUME DeskInv, NEW p \in Procs, ReviewAccept(p)
  PROVE  LET q == request[p] IN
         /\ q.receipt \in Receipts /\ q.inv \in Invoices
         /\ Pending(q.receipt) /\ payment[q.receipt].inv = q.inv
         /\ payment[q.receipt].amount = q.amount /\ q.amount \in Nat /\ q.amount > 0
         /\ invoice[q.inv].status # "PAID"
         /\ invoice'[q.inv].paid = invoice[q.inv].paid + q.amount
         /\ \A i \in Invoices : invoice'[i].total = invoice[i].total
         /\ \A i \in Invoices \ {q.inv} : invoice'[i] = invoice[i]
         /\ payment' = [payment EXCEPT ![q.receipt].status = "SUCCESS"]
<1> DEFINE q == request[p]
           result == IF NextPaid(q) >= q.total THEN "PAID" ELSE "PARTIAL"
<1>1. MoneyInv /\ TypeOK
  BY DEF DeskInv, MoneyInv
<1>2. /\ q.receipt \in Receipts /\ q.inv \in Invoices
      /\ q.amount \in Nat /\ q.paid \in Nat /\ q.total \in Nat
  BY <1>1, RequestShape, InvoiceTableAssumption DEF ReviewAccept, Money
<1>3. /\ Pending(q.receipt) /\ payment[q.receipt].inv = q.inv
      /\ payment[q.receipt].amount = q.amount /\ q.paid = invoice[q.inv].paid
  BY DEF ReviewAccept, DeskInv, SnapshotIsCurrent
<1>4. q.total = invoice[q.inv].total /\ q.amount > 0
  BY <1>1 DEF ReviewAccept, MoneyInv, SnapshotOfTotal
<1>5. q.amount + q.paid <= q.total
  BY <1>2, <1>3, <1>4 DEF DeskInv, OneFittingReceipt
<1>6. NextPaid(q) = q.paid + q.amount
  BY <1>2, <1>5 DEF NextPaid, MinOf
<1>7. invoice[q.inv].status # "PAID"
  BY <1>1, <1>2, <1>3, <1>4, <1>5 DEF MoneyInv, StatusMatchesMoney
<1>8. /\ invoice'[q.inv] = Credited(invoice[q.inv], NextPaid(q), result)
      /\ \A i \in Invoices \ {q.inv} : invoice'[i] = invoice[i]
  BY <1>1, <1>2 DEF ReviewAccept, TypeOK
<1>9. NextPaid(q) \in Money /\ result \in InvoiceStatus /\ invoice[q.inv] \in InvoiceRow
  <2>1. q.total \in Money /\ q.paid \in Money /\ q.amount \in Money
    BY <1>1, RequestShape DEF ReviewAccept
  <2>2. QED
    BY <1>1, <1>2, <2>1, InvoiceTableAssumption
       DEF NextPaid, MinOf, Money, InvoiceStatus, TypeOK
<1>10. invoice'[q.inv].paid = NextPaid(q) /\ invoice'[q.inv].total = invoice[q.inv].total
  BY <1>8, <1>9, CreditedRow
<1>11. \A i \in Invoices : invoice'[i].total = invoice[i].total
  BY <1>8, <1>10
<1>12. invoice'[q.inv].paid = invoice[q.inv].paid + q.amount
  BY <1>3, <1>6, <1>10
<1>13. payment' = [payment EXCEPT ![q.receipt].status = "SUCCESS"]
  BY DEF ReviewAccept
<1>14. QED
  BY <1>2, <1>3, <1>4, <1>7, <1>8, <1>11, <1>12, <1>13

(* With one request in flight a customer has at most one receipt waiting    *)
(* per invoice, and accepting it is never cut off at the invoice's total.   *)
THEOREM ReceiptsFit ==
  ASSUME OneRequest, ~MockEnabled PROVE Spec => []OneFittingReceipt
<1>1. Init => DeskInv
  BY DeskInvInit
<1>2. DeskInv /\ [Next]_vars => DeskInv'
  BY DeskInvStep
<1>3. DeskInv => OneFittingReceipt
  BY DEF DeskInv
<1>4. QED
  BY <1>1, <1>2, <1>3, PTL DEF Spec

-----------------------------------------------------------------------------
(* Every step of the desk is a step of the ledger or leaves it alone.       *)

LEMMA LedgerInit == ASSUME Init PROVE Ledger!LedgerInit
<1>1. \A i \in Invoices : invoice[i].total \in Nat /\ invoice[i].paid = 0
  BY InvoiceTableAssumption DEF Init
<1>2. \A r \in Receipts : payment[r].status = "ABSENT"
  BY NothingPendingYet
<1>3. QED
  BY <1>1, <1>2 DEF Ledger!LedgerInit

SameMoney ==
  /\ payment' = payment
  /\ \A i \in Invoices : invoice'[i].total = invoice[i].total /\ invoice'[i].paid = invoice[i].paid

LEMMA StepKinds ==
  ASSUME OneRequest, ~MockEnabled, DeskInv, [Next]_vars
  PROVE  \/ SameMoney
         \/ \E p \in Procs, r \in Receipts : SubmitCreate(p, r)
         \/ \E p \in Procs : ReviewAccept(p) \/ ReviewReject(p)
<1>a. TypeOK
  BY DEF DeskInv, MoneyInv
<1>1. ASSUME NEW late \in SUBSET Invoices, RefreshOverdue(late) PROVE SameMoney
  BY <1>1, <1>a DEF RefreshOverdue, CanBeLate, SweptOverdue, SameMoney, TypeOK, InvoiceRow
<1>2. ASSUME NEW p \in Procs, Mock(p) PROVE FALSE
  BY <1>2 DEF Mock, MockRead, MockCreate, MockUpdate, DeskInv, SnapshotIsCurrent
<1>3. CASE UNCHANGED vars
  BY <1>3 DEF vars, SameMoney
<1>4. QED
  BY <1>1, <1>2, <1>3
     DEF Next, Submit, Review, SubmitRead, SubmitCheck, ReviewRead, Abort, SameMoney

LEMMA LedgerStep ==
  ASSUME OneRequest, ~MockEnabled, DeskInv, [Next]_vars
  PROVE  [Ledger!LedgerNext]_(Ledger!ledgerVars)
<1>a. TypeOK
  BY DEF DeskInv, MoneyInv
<1>1. CASE SameMoney
  BY <1>1 DEF SameMoney, Ledger!ledgerVars
<1>2. ASSUME NEW p \in Procs, NEW r \in Receipts, SubmitCreate(p, r)
      PROVE  Ledger!LedgerNext
  <2> DEFINE q == request[p]
  <2>1. q.inv \in Invoices /\ q.amount \in Amounts
    BY <1>2, <1>a, RequestShape DEF SubmitCreate
  <2>2. /\ \A s \in Receipts : Pending(s) => payment[s].inv # q.inv
        /\ q.amount + invoice[q.inv].paid <= invoice[q.inv].total
    BY <1>2 DEF SubmitCreate, DeskInv, SnapshotIsCurrent
  <2>3. invoice[q.inv].paid + q.amount <= invoice[q.inv].total
    BY <2>1, <2>2, <1>a, InvoiceTableAssumption DEF TypeOK, InvoiceRow, Amounts
  <2>4. Ledger!HandIn(r, q.inv, q.amount)
    BY <1>2, <2>1, <2>2, <2>3 DEF SubmitCreate, Ledger!HandIn, Ledger!Waiting, Pending
  <2>5. QED
    BY <2>1, <2>4 DEF Ledger!LedgerNext
<1>3. ASSUME NEW p \in Procs, ReviewAccept(p)
      PROVE  Ledger!LedgerNext
  <2> DEFINE q == request[p]
  <2>1. /\ q.receipt \in Receipts /\ q.inv \in Invoices
        /\ Pending(q.receipt) /\ payment[q.receipt].inv = q.inv
        /\ payment[q.receipt].amount = q.amount
        /\ invoice'[q.inv].paid = invoice[q.inv].paid + q.amount
        /\ \A i \in Invoices : invoice'[i].total = invoice[i].total
        /\ \A i \in Invoices \ {q.inv} : invoice'[i] = invoice[i]
        /\ payment' = [payment EXCEPT ![q.receipt].status = "SUCCESS"]
    BY <1>3, AcceptCredits
  <2>2. PICK r \in Receipts : r = q.receipt
    BY <2>1
  <2>3. Ledger!Accept(r)
    <3> HIDE DEF q
    <3>1. QED
      BY <2>1, <2>2 DEF Ledger!Accept, Ledger!Waiting, Pending
  <2>4. QED
    BY <2>3 DEF Ledger!LedgerNext
<1>4. ASSUME NEW p \in Procs, ReviewReject(p)
      PROVE  Ledger!LedgerNext
  <2> DEFINE q == request[p]
  <2>1. q.receipt \in Receipts /\ Pending(q.receipt)
    BY <1>4, <1>a, RequestShape DEF ReviewReject, DeskInv, SnapshotIsCurrent
  <2>2. Ledger!Reject(q.receipt)
    BY <1>4, <2>1 DEF ReviewReject, Ledger!Reject, Ledger!Waiting, Pending
  <2>3. QED
    BY <2>1, <2>2 DEF Ledger!LedgerNext
<1>5. QED
  BY <1>1, <1>2, <1>3, <1>4, StepKinds

(* With one request in flight the service implements ReceiptLedger: an      *)
(* invoice is credited with exactly the receipts that were accepted.        *)
THEOREM ImplementsLedger ==
  ASSUME OneRequest, ~MockEnabled PROVE Spec => LedgerSpec
<1>1. Init => DeskInv /\ Ledger!LedgerInit
  BY DeskInvInit, LedgerInit
<1>2. DeskInv /\ [Next]_vars => DeskInv' /\ [Ledger!LedgerNext]_(Ledger!ledgerVars)
  BY DeskInvStep, LedgerStep
<1>3. QED
  BY <1>1, <1>2, PTL DEF Spec, LedgerSpec, Ledger!LedgerSpec

(* A receipt that was accepted or rejected keeps its verdict and amount.    *)
THEOREM ReceiptsDecidedOnce ==
  ASSUME OneRequest, ~MockEnabled PROVE Spec => DecidedOnce
<1> DEFINE Kept == \A r \in Receipts :
             payment[r].status \in {"SUCCESS", "FAILED"} => payment'[r] = payment[r]
<1>1. ASSUME DeskInv, [Next]_vars PROVE Kept
  <2>a. TypeOK
    BY <1>1 DEF DeskInv, MoneyInv
  <2>1. CASE SameMoney
    BY <2>1 DEF SameMoney
  <2>2. ASSUME NEW p \in Procs, NEW r \in Receipts, SubmitCreate(p, r) PROVE Kept
    BY <2>2, <2>a DEF SubmitCreate, TypeOK
  <2>3. ASSUME NEW p \in Procs, ReviewAccept(p) \/ ReviewReject(p) PROVE Kept
    BY <2>3, <2>a, <1>1 DEF ReviewAccept, ReviewReject, TypeOK, DeskInv, SnapshotIsCurrent, Pending
  <2>4. QED
    BY <1>1, <2>1, <2>2, <2>3, StepKinds
<1>2. Init => DeskInv
  BY DeskInvInit
<1>3. DeskInv /\ [Next]_vars => DeskInv' /\ [Kept]_vars
  BY DeskInvStep, <1>1
<1>4. QED
  BY <1>2, <1>3, PTL DEF Spec, DecidedOnce

(* Acknowledged money is never taken back; a settled invoice stays settled. *)
THEOREM MoneyIsNeverTakenBack ==
  ASSUME OneRequest, ~MockEnabled PROVE Spec => AcknowledgedForGood
<1> DEFINE Kept == \A i \in Invoices :
             /\ invoice'[i].paid >= invoice[i].paid
             /\ invoice[i].status = "PAID" => invoice'[i].status = "PAID"
<1>1. ASSUME DeskInv, [Next]_vars PROVE Kept
  <2>a. TypeOK /\ \A i \in Invoices : invoice[i].paid \in Int
    BY <1>1, InvoiceTableAssumption DEF DeskInv, MoneyInv, TypeOK, InvoiceRow
  <2>1. CASE UNCHANGED invoice
    BY <2>1, <2>a
  <2>2. ASSUME NEW late \in SUBSET Invoices, RefreshOverdue(late) PROVE Kept
    <3>1. \A i \in Invoices : /\ invoice'[i].paid = invoice[i].paid
                              /\ invoice[i].status = "PAID" => invoice'[i] = invoice[i]
      BY <2>2, <2>a DEF RefreshOverdue, CanBeLate, SweptOverdue, TypeOK, InvoiceRow
    <3>2. QED
      BY <2>a, <3>1
  <2>3. ASSUME NEW p \in Procs, ReviewAccept(p) PROVE Kept
    <3> DEFINE q == request[p]
    <3>1. /\ q.inv \in Invoices /\ q.amount \in Nat
          /\ invoice[q.inv].status # "PAID"
          /\ invoice'[q.inv].paid = invoice[q.inv].paid + q.amount
          /\ \A i \in Invoices \ {q.inv} : invoice'[i] = invoice[i]
      BY <1>1, <2>3, AcceptCredits
    <3> HIDE DEF q
    <3>2. QED
      BY <2>a, <3>1
  <2>4. ASSUME NEW p \in Procs, Mock(p) PROVE FALSE
    BY <1>1, <2>4 DEF Mock, MockRead, MockCreate, MockUpdate, DeskInv, SnapshotIsCurrent
  <2>5. QED
    BY <1>1, <2>1, <2>2, <2>3, <2>4
       DEF Next, Submit, Review, SubmitRead, SubmitCheck, SubmitCreate, ReviewRead,
           ReviewReject, Abort, vars
<1>2. Init => DeskInv
  BY DeskInvInit
<1>3. DeskInv /\ [Next]_vars => DeskInv' /\ [Kept]_vars
  BY DeskInvStep, <1>1
<1>4. QED
  BY <1>2, <1>3, PTL DEF Spec, AcknowledgedForGood

(* The same desk beside the other parts.                                     *)
THEOREM DeskShowsItsMoney == PartsSpec => []StatusMatchesMoney
  BY StatusAlwaysMatchesMoney, PartsAreTheirSpecs, PTL

-----------------------------------------------------------------------------
(* Zalo's senders, for any invoices and senders besides the schedule.        *)
ZaloParameters == MaxInvoice \in Nat \ {0} /\ "schedule" \notin ExtraSenders

(* A row that says SENT stands for a message that arrived.                   *)
THEOREM SentWasDelivered ==
  ASSUME ZaloParameters
  PROVE  PartsSpec => []SentMeansDelivered
<1>1. Zalo!Spec => []Zalo!SentMeansDelivered
  BY Zalo!SentWasDelivered DEF ZaloParameters
<1>2. QED
  BY <1>1, PartsAreTheirSpecs, PTL DEF SentMeansDelivered

-----------------------------------------------------------------------------
(* The writers of a month's energy, for any set of writers and providers.    *)

(* The month's row, its billing and every writer's stage keep their types.   *)
LEMMA MonthTypes == Month!Spec => []Month!TypeOK
<1>1. Month!Init => Month!TypeOK
  BY DEF Month!Init, Month!TypeOK, Month!Stages, Month!Resting
<1>2. Month!TypeOK /\ [Month!Next]_Month!vars => Month!TypeOK'
  <2> SUFFICES ASSUME Month!TypeOK, [Month!Next]_Month!vars PROVE Month!TypeOK'
    OBVIOUS
  <2> USE DEF Month!TypeOK
  <2>1. ASSUME NEW stage \in Month!Stages, NEW w \in Writers, Month!Goto(w, stage)
        PROVE  work' \in [Writers -> Month!Stages]
    BY <2>1 DEF Month!Goto
  <2>2. \A w \in Writers :
          Month!AfterMonths(w) \in Month!Stages /\ Month!BilledBy(w) \in {"provider", "locked"}
    BY DEF Month!AfterMonths, Month!BilledBy, Month!Stages, Month!Resting
  <2>3. {"idle", "refused", "fetch", "look", "write", "month_bill", "aggregate", "bill",
         "entry_bill"} \subseteq Month!Stages /\ Month!Working \subseteq Writers
    BY DEF Month!Stages, Month!Resting, Month!Working
  <2>4. ASSUME NEW w \in Writers, Month!BeginHistory(w) PROVE Month!TypeOK'
    BY <2>1, <2>3, <2>4 DEF Month!BeginHistory
  <2>5. ASSUME NEW w \in Writers, Month!StoreDays(w) PROVE Month!TypeOK'
    BY <2>1, <2>2, <2>3, <2>5 DEF Month!StoreDays
  <2>6. ASSUME NEW w \in Writers, Month!Look(w) PROVE Month!TypeOK'
    BY <2>1, <2>2, <2>3, <2>6 DEF Month!Look
  <2>7. ASSUME NEW w \in Writers, Month!WriteBySystem(w) PROVE Month!TypeOK'
    BY <2>1, <2>2, <2>3, <2>7 DEF Month!WriteBySystem
  <2>8. ASSUME NEW w \in Writers, Month!WriteByStation(w) PROVE Month!TypeOK'
    BY <2>1, <2>2, <2>3, <2>8 DEF Month!WriteByStation
  <2>9. ASSUME NEW w \in Writers, Month!BillMonth(w) PROVE Month!TypeOK'
    BY <2>1, <2>2, <2>3, <2>9 DEF Month!BillMonth
  <2>10. ASSUME NEW w \in Writers, Month!Aggregate(w) PROVE Month!TypeOK'
    BY <2>1, <2>3, <2>10 DEF Month!Aggregate
  <2>11. ASSUME NEW w \in Writers, Month!BillDays(w) PROVE Month!TypeOK'
    BY <2>1, <2>2, <2>3, <2>11 DEF Month!BillDays
  <2>12. CASE Month!BeginClosing
    BY <2>1, <2>3, <2>12 DEF Month!BeginClosing
  <2>13. CASE Month!EnterMonth
    BY <2>1, <2>3, <2>13 DEF Month!EnterMonth
  <2>14. CASE Month!BillEntry
    BY <2>1, <2>2, <2>3, <2>14 DEF Month!BillEntry
  <2>15. CASE Month!OverrideBilling
    BY <2>3, <2>15 DEF Month!OverrideBilling
  <2>16. CASE UNCHANGED Month!vars
    BY <2>16 DEF Month!vars
  <2>17. QED
    BY <2>4, <2>5, <2>6, <2>7, <2>8, <2>9, <2>10, <2>11, <2>12, <2>13, <2>14, <2>15, <2>16
    DEF Month!Next, Month!HistoryStep
<1>3. QED
  BY <1>1, <1>2, PTL DEF Month!Spec

-----------------------------------------------------------------------------
(* A SOLARMAN sync that is about to write has found the month unlocked: if   *)
(* it is locked now, that was done while the sync was at work.  And nobody   *)
(* bills the sum of the days who would lock the month by doing so.           *)
WriterLooked ==
  \A w \in Writers :
    work[w] = "write" /\ kind = "SOLARMAN" /\ Month!ManuallyLocked => w \in since
DaysAreBilledUnasked ==
  \A w \in Writers : work[w] \in {"aggregate", "bill"} => w \in {"schedule", "closing"}

MonthsInv == Month!TypeOK /\ WriterLooked /\ DaysAreBilledUnasked

(* No month is recorded at first.                                            *)
LEMMA MonthsInvInit == Month!Init => MonthsInv
<1> SUFFICES ASSUME Month!Init PROVE MonthsInv
  OBVIOUS
<1>1. Month!TypeOK
  BY DEF Month!Init, Month!TypeOK, Month!Stages, Month!Resting
<1>2. QED
  BY <1>1 DEF Month!Init, MonthsInv, WriterLooked, DaysAreBilledUnasked

(* One step: which stage a writer goes to, and what that makes of the rest.  *)
LEMMA DaysStep ==
  ASSUME Month!TypeOK, DaysAreBilledUnasked, [Month!Next]_Month!vars
  PROVE  DaysAreBilledUnasked'
<1> USE DEF Month!TypeOK, DaysAreBilledUnasked
<1>1. ASSUME NEW w \in Writers, NEW stage, Month!Goto(w, stage),
             stage \in {"aggregate", "bill"} => w \in {"schedule", "closing"}
      PROVE  DaysAreBilledUnasked'
  BY <1>1 DEF Month!Goto
<1>2. \A w \in Writers : Month!AfterMonths(w) \in {"aggregate", "bill"} =>
        w \in {"schedule", "closing"}
  BY DEF Month!AfterMonths
<1>3. ASSUME NEW w \in Writers, Month!HistoryStep(w) PROVE DaysAreBilledUnasked'
  <2>1. CASE Month!BeginHistory(w)
    BY <1>1, <2>1 DEF Month!BeginHistory
  <2>2. CASE Month!StoreDays(w)
    BY <1>1, <1>2, <2>2 DEF Month!StoreDays
  <2>3. CASE Month!Look(w)
    BY <1>1, <1>2, <2>3 DEF Month!Look
  <2>4. CASE Month!WriteBySystem(w)
    BY <1>1, <1>2, <2>4 DEF Month!WriteBySystem
  <2>5. CASE Month!WriteByStation(w)
    BY <1>1, <1>2, <2>5 DEF Month!WriteByStation
  <2>6. CASE Month!BillMonth(w)
    BY <1>1, <1>2, <2>6 DEF Month!BillMonth
  <2>7. CASE Month!Aggregate(w)
    BY <1>1, <2>7 DEF Month!Aggregate
  <2>8. CASE Month!BillDays(w)
    BY <1>1, <2>8 DEF Month!BillDays
  <2>9. QED
    BY <1>3, <2>1, <2>2, <2>3, <2>4, <2>5, <2>6, <2>7, <2>8 DEF Month!HistoryStep
<1>4. CASE Month!BeginClosing
  BY <1>1, <1>4 DEF Month!BeginClosing
<1>5. CASE Month!EnterMonth
  BY <1>1, <1>5 DEF Month!EnterMonth
<1>6. CASE Month!BillEntry
  BY <1>1, <1>6 DEF Month!BillEntry
<1>7. CASE Month!OverrideBilling
  BY <1>7 DEF Month!OverrideBilling
<1>8. CASE UNCHANGED Month!vars
  BY <1>8 DEF Month!vars
<1>9. QED
  BY <1>3, <1>4, <1>5, <1>6, <1>7, <1>8 DEF Month!Next

(* The month can become locked only by a step that notes who is at work, and *)
(* a writer gets to its write only past Look.                                *)
LEMMA LookedStep ==
  ASSUME Month!TypeOK, WriterLooked, DaysAreBilledUnasked, [Month!Next]_Month!vars
  PROVE  WriterLooked'
<1> SUFFICES ASSUME NEW v \in Writers, work'[v] = "write", kind' = "SOLARMAN", Month!ManuallyLocked'
             PROVE  v \in since'
  BY DEF WriterLooked
<1> USE DEF Month!TypeOK
<1>1. kind = "SOLARMAN"
  BY DEF Month!Next, Month!HistoryStep, Month!BeginHistory, Month!StoreDays, Month!Look,
     Month!WriteBySystem, Month!WriteByStation,
         Month!BillMonth, Month!BeginClosing, Month!Aggregate, Month!BillDays, Month!EnterMonth,
          Month!BillEntry,
         Month!OverrideBilling, Month!vars
<1>2. work[v] = "write" => v \in Month!Working
  BY DEF Month!Working, Month!Resting
<1>3. ASSUME NEW w \in Writers, NEW stage, Month!Goto(w, stage), stage # "write"
      PROVE  work[v] = "write"
  BY <1>3 DEF Month!Goto
<1>4. ASSUME work[v] = "write", since' = since, row' = row, bill' = bill
      PROVE  v \in since'
  BY <1>1, <1>4 DEF WriterLooked, Month!ManuallyLocked
<1>5. \A w \in Writers : Month!AfterMonths(w) # "write"
  BY DEF Month!AfterMonths
<1>6. ASSUME NEW w \in Writers, Month!HistoryStep(w) PROVE v \in since'
  <2>1. CASE Month!BeginHistory(w)
    BY <1>3, <1>4, <2>1 DEF Month!BeginHistory
  <2>2. CASE Month!StoreDays(w)
    BY <1>1, <1>3, <1>4, <1>5, <2>2 DEF Month!StoreDays
  <2>3. CASE Month!Look(w)
    <3>1. CASE Month!ManuallyLocked
      BY <1>3, <1>4, <1>5, <2>3, <3>1 DEF Month!Look
    <3>2. CASE ~Month!ManuallyLocked
      BY <2>3, <3>2 DEF Month!Look, Month!ManuallyLocked
    <3>3. QED
      BY <3>1, <3>2
  <2>4. CASE Month!WriteBySystem(w)
    BY <1>1, <1>3, <1>5, <2>4 DEF Month!WriteBySystem, WriterLooked, Month!ManuallyLocked
  <2>5. CASE Month!WriteByStation(w)
    BY <1>1, <2>5 DEF Month!WriteByStation
  <2>6. CASE Month!BillMonth(w)
    <3>1. work[v] = "write"
      BY <1>3, <1>5, <2>6 DEF Month!BillMonth
    <3>2. CASE bill' = "locked"
      BY <1>2, <2>6, <3>1, <3>2 DEF Month!BillMonth
    <3>3. CASE bill' # "locked"
      BY <1>1, <2>6, <3>1, <3>3 DEF Month!BillMonth, WriterLooked, Month!ManuallyLocked
    <3>4. QED
      BY <3>2, <3>3
  <2>7. CASE Month!Aggregate(w)
    <3>1. work[v] = "write" /\ since' = since /\ bill' = bill
      BY <1>3, <2>7 DEF Month!Aggregate
    <3>2. row' = row \/ row' # "manual"
      BY <2>7 DEF Month!Aggregate
    <3>3. QED
      BY <1>1, <3>1, <3>2 DEF WriterLooked, Month!ManuallyLocked
  <2>8. CASE Month!BillDays(w)
    <3>1. work[v] = "write" /\ since' = since /\ row' = row
      BY <1>3, <2>8 DEF Month!BillDays
    <3>2. w \in {"schedule", "closing"}
      BY <2>8 DEF Month!BillDays, DaysAreBilledUnasked
    <3>3. bill' = bill \/ bill' # "locked"
      BY <2>8, <3>2 DEF Month!BillDays, Month!BilledBy
    <3>4. QED
      BY <1>1, <3>1, <3>3 DEF WriterLooked, Month!ManuallyLocked
  <2>9. QED
    BY <1>6, <2>1, <2>2, <2>3, <2>4, <2>5, <2>6, <2>7, <2>8 DEF Month!HistoryStep
<1>7. CASE Month!BeginClosing
  BY <1>3, <1>4, <1>7 DEF Month!BeginClosing
<1>8. CASE Month!EnterMonth
  BY <1>2, <1>3, <1>8 DEF Month!EnterMonth
<1>9. CASE Month!BillEntry
  BY <1>2, <1>3, <1>9 DEF Month!BillEntry
<1>10. CASE Month!OverrideBilling
  BY <1>2, <1>10 DEF Month!OverrideBilling
<1>11. CASE UNCHANGED Month!vars
  BY <1>4, <1>11 DEF Month!vars
<1>12. QED
  BY <1>6, <1>7, <1>8, <1>9, <1>10, <1>11 DEF Month!Next

(* No history sync writes over a month that staff had locked before it       *)
(* looked: Deye's and LuxPower's do not find such a row by their key, and    *)
(* SOLARMAN's reads the locks in the statement before it writes.             *)
THEOREM ManualMonthsAreKept == PartsSpec => HistoryKeepsManualMonths
<1> DEFINE Keeps ==
      \A w \in Writers :
        /\ work[w] = "write" /\ work'[w] # "write" /\ row' # row
        /\ row = "manual" \/ (kind = "SOLARMAN" /\ bill = "locked")
        => w \in since
<1>1. MonthsInv /\ [Month!Next]_Month!vars => [Keeps]_Month!vars
  <2> SUFFICES ASSUME MonthsInv, Month!Next,
                      NEW w \in Writers, work[w] = "write", work'[w] # "write", row' # row,
                      row = "manual" \/ (kind = "SOLARMAN" /\ bill = "locked")
               PROVE  w \in since
    OBVIOUS
  <2> USE DEF MonthsInv, Month!TypeOK
  <2>1. CASE kind = "SOLARMAN"
    BY <2>1 DEF WriterLooked, Month!ManuallyLocked
  <2>2. CASE kind # "SOLARMAN"
    <3>1. row = "manual"
      BY <2>2
    <3>2. ASSUME NEW u \in Writers, NEW stage, Month!Goto(u, stage) PROVE u = w
      BY <3>2 DEF Month!Goto
    <3>3. ASSUME NEW u \in Writers, Month!HistoryStep(u) PROVE FALSE
      <4>1. CASE Month!Aggregate(u)
        BY <3>2, <4>1 DEF Month!Aggregate
      <4>2. CASE Month!WriteByStation(u)
        BY <3>1, <4>2 DEF Month!WriteByStation
      <4>3. CASE Month!WriteBySystem(u)
        BY <2>2, <4>3 DEF Month!WriteBySystem
      <4>4. QED
        BY <3>3, <4>1, <4>2, <4>3
        DEF Month!HistoryStep, Month!BeginHistory, Month!StoreDays, Month!Look, Month!BillMonth,
        Month!BillDays
    <3>4. CASE Month!EnterMonth
      BY <3>1, <3>4 DEF Month!EnterMonth
    <3>5. QED
      BY <3>3, <3>4 DEF Month!Next, Month!BeginClosing, Month!BillEntry, Month!OverrideBilling
  <2>3. QED
    BY <2>1, <2>2
<1>2. Month!Spec => []Month!TypeOK
  BY MonthTypes
<1>3. Month!TypeOK /\ Month!TypeOK' /\ MonthsInv /\ [Month!Next]_Month!vars => MonthsInv'
  BY DaysStep, LookedStep DEF MonthsInv
<1>4. QED
  BY <1>1, <1>2, <1>3, MonthsInvInit, PartsAreTheirSpecs, PTL
  DEF Month!Spec, HistoryKeepsManualMonths, Month!HistoryKeepsManualMonths

-----------------------------------------------------------------------------
(* A support ticket, for any number of requests and times.                   *)

(* The creation has taken a time.                                            *)
TicketTimes == MaxTime \in Nat \ {0}

AtWork(r) == ticketRequest[r].kind # "idle"

(* Nothing is left of a request that has ended.                              *)
NothingIsLeft == \A r \in TicketRequests : AtWork(r) \/ ticketRequest[r] = Support!Idle

(* No time in the ticket or in a request is yet to come.                     *)
TimesArePast ==
  /\ ticket.lastCustomerMessageAt <= now /\ ticket.customerLastReadAt <= now
  /\ ticket.lastStaffMessageAt <= now /\ ticket.staffLastReadAt <= now
  /\ \A r \in TicketRequests : ticketRequest[r].at <= now /\ ticketRequest[r].lastStaff <= now

(* Two requests that can undo each other's writes know it.                   *)
MeetingsAreNoted ==
  \A r, q \in TicketRequests :
    r # q /\ Support!CanUndo(ticketRequest[r].kind, ticketRequest[q].kind) => r \in crossed

(* A request that has met nobody is later than what the other side has read, *)
(* and what such a note puts back is what the ticket has.                    *)
AloneIsCurrent ==
  \A r \in TicketRequests :
    AtWork(r) /\ r \notin crossed =>
      /\ Support!Side(ticketRequest[r].kind) = "customer" =>
           ticket.staffLastReadAt < ticketRequest[r].at
      /\ Support!Side(ticketRequest[r].kind) = "staff" =>
           ticket.customerLastReadAt < ticketRequest[r].at
      /\ ticketRequest[r].kind = "note" => ticketRequest[r].lastStaff = ticket.lastStaffMessageAt

(* While a side is heard the other one is not at work.                       *)
HeardInSilence ==
  \A r \in TicketRequests, side \in heard : AtWork(r) => Support!Side(ticketRequest[r].kind) = side

TicketInv ==
  /\ Support!TypeOK /\ NothingIsLeft /\ TimesArePast /\ MeetingsAreNoted /\ AloneIsCurrent
  /\ HeardInSilence /\ Support!NoWordIsMissed

-----------------------------------------------------------------------------
(* What the prover is to know of the kinds of request.                       *)
LEMMA Kinds ==
  /\ \A what \in Support!OfCustomer : Support!Side(what) = "customer" /\ what # "idle"
       /\ what # "note"
  /\ \A what \in Support!OfStaff : Support!Side(what) = "staff" /\ what # "idle"
  /\ \A a, b : Support!CanUndo(a, b) <=> Support!CanUndo(b, a)
  /\ \A a \in Support!OfCustomer, b \in Support!OfStaff : Support!CanUndo(a, b)
BY DEF Support!Side, Support!CanUndo, Support!OfCustomer, Support!OfStaff

(* The customer's first message, and nobody at work.                         *)
LEMMA TicketInvInit == ASSUME TicketTimes, Support!Init PROVE TicketInv
<1>1. 0 \in Support!Times /\ 1 \in Support!Times /\ now \in 1..MaxTime
  BY DEF TicketTimes, Support!Init, Support!Times
<1>2. Support!TypeOK
  BY <1>1 DEF Support!Init, Support!TypeOK, Support!Ticket, Support!Status, Support!Request,
     Support!Idle
<1>3. NothingIsLeft /\ TimesArePast /\ MeetingsAreNoted /\ AloneIsCurrent /\ HeardInSilence
  BY DEF Support!Init, Support!Idle, NothingIsLeft, TimesArePast, MeetingsAreNoted, AloneIsCurrent,
     HeardInSilence, AtWork, Support!CanUndo
<1>4. Support!NoWordIsMissed
  BY DEF Support!Init, Support!NoWordIsMissed, Support!UnreadByStaff, Support!UnreadByCustomer
<1>5. QED
  BY <1>2, <1>3, <1>4 DEF TicketInv

(* A request that begins is later than all there is, marks those it meets    *)
(* and ends what the other side had to say.                                  *)
LEMMA BeginStep ==
  ASSUME TicketTimes, TicketInv, NEW r \in TicketRequests,
         NEW what \in Support!OfCustomer \cup Support!OfStaff,
         NEW asked \in Support!Status, Support!Begin(r, what, asked)
  PROVE  TicketInv'
<1> DEFINE q == [kind |-> what, at |-> now + 1,
                 status |-> IF what \in {"status", "note"} THEN asked ELSE "OPEN",
                 lastStaff |-> IF what = "note" THEN ticket.lastStaffMessageAt ELSE 0]
           met == {p \in TicketRequests : Support!CanUndo(what, ticketRequest[p].kind)}
<1>1. /\ ticketRequest[r].kind = "idle" /\ now < MaxTime /\ now' = now + 1 /\ ticket' = ticket
      /\ ticketRequest' = [ticketRequest EXCEPT ![r] = q]
      /\ crossed' = (crossed \ {r}) \cup met \cup (IF met # {} THEN {r} ELSE {})
      /\ heard' = heard \cap {Support!Side(what)}
  BY DEF Support!Begin, Support!Idle
<1>2. /\ ticket \in Support!Ticket /\ ticketRequest \in [TicketRequests -> Support!Request]
      /\ now \in 1..MaxTime
      /\ crossed \subseteq TicketRequests /\ heard \subseteq {"customer", "staff"}
  BY DEF TicketInv, Support!TypeOK
<1>3. /\ ticket.lastStaffMessageAt \in Support!Times /\ now + 1 \in Support!Times
      /\ 0 \in Support!Times /\ "OPEN" \in Support!Status
      /\ now' \in 1..MaxTime
  BY <1>1, <1>2 DEF Support!Ticket, Support!Times, TicketTimes, Support!Status
<1>4. q \in Support!Request /\ q.kind = what /\ q.at = now + 1
      /\ (what = "note" => q.lastStaff = ticket.lastStaffMessageAt)
  BY <1>3 DEF Support!Request
<1>5. met \subseteq TicketRequests
        /\ \A p \in TicketRequests : p \in met <=> Support!CanUndo(what, ticketRequest[p].kind)
  OBVIOUS
<1> HIDE DEF q, met
<1>6. /\ ticketRequest'[r] = q
      /\ \A p \in TicketRequests : p # r => ticketRequest'[p] = ticketRequest[p]
  BY <1>1, <1>2
<1>7. Support!TypeOK'
  BY <1>1, <1>2, <1>3, <1>4, <1>5 DEF Support!TypeOK
<1>8. TimesArePast'
  <2>1. \A p \in TicketRequests : /\ ticketRequest[p].at \in Nat /\ ticketRequest[p].at <= now
                            /\ ticketRequest[p].lastStaff \in Nat
                            /\ ticketRequest[p].lastStaff <= now
    BY <1>2 DEF TicketInv, TimesArePast, Support!Request, Support!Times, TicketTimes
  <2>4. q.lastStaff <= now + 1
    BY <1>2, <1>3 DEF TicketInv, TimesArePast, Support!Ticket, Support!Times, TicketTimes, q
  <2>2. \A p \in TicketRequests : ticketRequest'[p].at <= now + 1
          /\ ticketRequest'[p].lastStaff <= now + 1
    BY <1>2, <1>4, <1>6, <2>1, <2>4
  <2>3. QED
    BY <1>1, <1>2, <2>2 DEF TicketInv, TimesArePast, Support!Ticket, Support!Times, TicketTimes
<1>9. MeetingsAreNoted'
  <2>1. ASSUME NEW a \in TicketRequests, NEW b \in TicketRequests, a # b,
               Support!CanUndo(ticketRequest'[a].kind, ticketRequest'[b].kind)
        PROVE  a \in crossed'
    <3>1. CASE a = r
      <4>1. b \in met
        BY <1>4, <1>5, <1>6, <2>1, <3>1
      <4>2. QED
        BY <1>1, <3>1, <4>1
    <3>2. CASE a # r /\ b = r
      <4>1. Support!CanUndo(ticketRequest[a].kind, what)
        BY <1>4, <1>6, <2>1, <3>2
      <4>2. Support!CanUndo(what, ticketRequest[a].kind)
        BY <4>1, Kinds
      <4>3. QED
        BY <1>1, <1>5, <4>2
    <3>3. CASE a # r /\ b # r
      BY <1>1, <1>6, <2>1, <3>3 DEF TicketInv, MeetingsAreNoted
    <3>4. QED
      BY <3>1, <3>2, <3>3
  <2>2. QED
    BY <2>1 DEF MeetingsAreNoted
<1>10. AloneIsCurrent'
  <2>1. ASSUME NEW p \in TicketRequests, AtWork(p)', p \notin crossed'
        PROVE  /\ Support!Side(ticketRequest'[p].kind) = "customer" =>
                    ticket.staffLastReadAt < ticketRequest'[p].at
               /\ Support!Side(ticketRequest'[p].kind) = "staff" =>
                    ticket.customerLastReadAt < ticketRequest'[p].at
               /\ ticketRequest'[p].kind = "note" =>
                    ticketRequest'[p].lastStaff = ticket.lastStaffMessageAt
    <3>1. CASE p = r
      BY <1>2, <1>4, <1>6, <3>1 DEF TicketInv, TimesArePast, Support!Ticket, Support!Times,
         TicketTimes
    <3>2. CASE p # r
      BY <1>1, <1>6, <2>1, <3>2 DEF TicketInv, AloneIsCurrent, AtWork
    <3>3. QED
      BY <3>1, <3>2
  <2>2. QED
    BY <1>1, <2>1 DEF AloneIsCurrent
<1>11. HeardInSilence'
  BY <1>1, <1>4, <1>6 DEF TicketInv, HeardInSilence, AtWork
<1>12. Support!NoWordIsMissed'
  BY <1>1 DEF TicketInv, Support!NoWordIsMissed, Support!UnreadByStaff, Support!UnreadByCustomer
<1>13. NothingIsLeft'
  BY <1>4, <1>6, Kinds DEF TicketInv, NothingIsLeft, AtWork
<1>14. QED
  BY <1>13, <1>7, <1>8, <1>9, <1>10, <1>11, <1>12 DEF TicketInv

(* What a request of a side writes, field by field.                          *)
LEMMA WrittenFields ==
  ASSUME ticket \in Support!Ticket, NEW q \in Support!Request, q.kind # "idle"
  PROVE  /\ Support!Written(q) \in Support!Ticket
         /\ Support!Written(q).status = Support!NextStatus(q)
         /\ Support!Written(q).lastCustomerMessageAt =
              IF q.kind = "customer_reply" THEN q.at ELSE ticket.lastCustomerMessageAt
         /\ Support!Written(q).customerLastReadAt =
              IF q.kind \in Support!OfCustomer THEN q.at ELSE ticket.customerLastReadAt
         /\ Support!Written(q).lastStaffMessageAt =
              IF q.kind \in {"reply", "status"} THEN q.at
              ELSE IF q.kind = "note" THEN q.lastStaff ELSE ticket.lastStaffMessageAt
         /\ Support!Written(q).staffLastReadAt =
              IF q.kind \in Support!OfStaff THEN q.at ELSE ticket.staffLastReadAt
<1>1. Support!NextStatus(q) \in Support!Status
  BY DEF Support!NextStatus, Support!Status, Support!Ticket, Support!Request, Support!OfCustomer,
     Support!OfStaff
<1>2. q.at \in Support!Times /\ q.lastStaff \in Support!Times
  BY DEF Support!Request
<1>3. QED
  BY <1>1, <1>2 DEF Support!Written, Support!Ticket

(* A request writes.  When it has met nobody, the other side is not at work, *)
(* and its time is later than all that the other side has read.              *)
LEMMA WriteStep ==
  ASSUME TicketTimes, TicketInv, NEW r \in TicketRequests, Support!Write(r)
  PROVE  TicketInv'
<1> DEFINE q == ticketRequest[r]
<1>1. /\ ticket \in Support!Ticket /\ ticketRequest \in [TicketRequests -> Support!Request]
      /\ now \in 1..MaxTime
      /\ crossed \subseteq TicketRequests /\ heard \subseteq {"customer", "staff"}
  BY DEF TicketInv, Support!TypeOK
<1>2. /\ q \in Support!Request /\ q.kind # "idle" /\ AtWork(r) /\ q.at \in Nat /\ q.at <= now
      /\ q.kind \in Support!OfCustomer \cup Support!OfStaff
  <2>1. q # Support!Idle
    BY DEF Support!Write
  <2>2. q \in Support!Request
    BY <1>1
  <2>3. QED
    BY <2>1, <2>2 DEF TicketInv, NothingIsLeft, TimesArePast, AtWork, Support!Request,
       Support!Times, TicketTimes
<1>3. /\ ticket' = Support!Written(q) /\ ticketRequest' = [ticketRequest EXCEPT ![r] = Support!Idle]
      /\ now' = now /\ crossed' = crossed
      /\ heard' = IF r \in crossed THEN heard \ {Support!Side(q.kind)}
                  ELSE IF q.kind \in Support!Words THEN heard \cup {Support!Side(q.kind)} ELSE heard
  BY DEF Support!Write
<1>4. /\ ticketRequest'[r] = Support!Idle
      /\ \A p \in TicketRequests : p # r => ticketRequest'[p] = ticketRequest[p]
  BY <1>1, <1>3
<1>5. Support!Idle \in Support!Request /\ Support!Idle.kind = "idle" /\ Support!Idle.at = 0
      /\ Support!Idle.lastStaff = 0
  BY DEF Support!Idle, Support!Request, Support!Times, Support!Status, TicketTimes
<1>6. Support!Side(q.kind) \in {"customer", "staff"}
  BY DEF Support!Side
<1>7. \A p \in TicketRequests : ticketRequest[p] \in Support!Request
  BY <1>1
(* Nobody of the other side is at work unless it has been noted.             *)
<1>8. ASSUME NEW p \in TicketRequests, p # r, AtWork(p),
             Support!Side(ticketRequest[p].kind) # Support!Side(q.kind)
               \/ "note" \in {q.kind, ticketRequest[p].kind}
      PROVE  p \in crossed /\ r \in crossed
  <2>1. Support!CanUndo(q.kind, ticketRequest[p].kind)
        /\ Support!CanUndo(ticketRequest[p].kind, q.kind)
    BY <1>2, <1>8 DEF Support!CanUndo, AtWork
  <2>2. QED
    BY <1>8, <2>1 DEF TicketInv, MeetingsAreNoted
<1> HIDE DEF q
<1>9. Support!TypeOK'
  <2>1. Support!Written(q) \in Support!Ticket
    BY <1>1, <1>2, WrittenFields
  <2>2. QED
    BY <1>1, <1>3, <1>5, <1>6, <2>1 DEF Support!TypeOK
<1>10. NothingIsLeft'
  BY <1>4 DEF TicketInv, NothingIsLeft, AtWork
<1>11. TimesArePast'
  <2>1. q.lastStaff \in Nat /\ q.lastStaff <= now
    BY <1>1, <1>2 DEF TicketInv, TimesArePast, Support!Request, Support!Times, TicketTimes, q
  <2>2. \A p \in TicketRequests : ticketRequest'[p].at <= now /\ ticketRequest'[p].lastStaff <= now
    BY <1>1, <1>4, <1>5 DEF TicketInv, TimesArePast
  <2>3. QED
    BY <1>1, <1>2, <1>3, <2>1, <2>2, WrittenFields DEF TicketInv, TimesArePast, Support!Ticket,
       Support!Times, TicketTimes
<1>12. MeetingsAreNoted'
  BY <1>3, <1>4, <1>5 DEF TicketInv, MeetingsAreNoted, Support!CanUndo
<1>13. AloneIsCurrent'
  <2>1. ASSUME NEW p \in TicketRequests, AtWork(p)', p \notin crossed'
        PROVE  /\ p # r /\ AtWork(p) /\ p \notin crossed
               /\ Support!Side(ticketRequest[p].kind) = Support!Side(q.kind)
               /\ "note" \notin {q.kind, ticketRequest[p].kind}
    BY <1>3, <1>4, <1>5, <1>8, <2>1 DEF AtWork
  <2>2. Support!Side(q.kind) = "customer" => ticket'.staffLastReadAt = ticket.staffLastReadAt
    BY <1>1, <1>2, <1>3, WrittenFields, Kinds DEF Support!OfCustomer, Support!OfStaff
  <2>3. Support!Side(q.kind) = "staff" => ticket'.customerLastReadAt = ticket.customerLastReadAt
    BY <1>1, <1>2, <1>3, WrittenFields, Kinds DEF Support!OfCustomer, Support!OfStaff, Support!Side
  <2>4. QED
    BY <1>3, <1>4, <1>6, <2>1, <2>2, <2>3 DEF TicketInv, AloneIsCurrent
<1>14. HeardInSilence'
  <2>1. ASSUME NEW p \in TicketRequests, NEW side \in heard', AtWork(p)'
        PROVE  Support!Side(ticketRequest'[p].kind) = side
    <3>1. p # r /\ AtWork(p) /\ ticketRequest'[p] = ticketRequest[p]
      BY <1>4, <1>5, <2>1 DEF AtWork
    <3>2. CASE side \in heard
      BY <3>1, <3>2 DEF TicketInv, HeardInSilence
    <3>3. CASE r \notin crossed /\ side = Support!Side(q.kind)
      BY <1>8, <3>1, <3>3
    <3>4. QED
      BY <1>3, <2>1, <3>2, <3>3
  <2>2. QED
    BY <2>1 DEF HeardInSilence
<1>15. Support!NoWordIsMissed'
  <2>1. ASSUME NEW side \in heard'
        PROVE  /\ Support!Side(q.kind) = side /\ r \notin crossed
               /\ side \in heard \/ q.kind \in Support!Words
    <3>1. side \in heard => Support!Side(q.kind) = side
      BY <1>2 DEF TicketInv, HeardInSilence, q
    <3>2. QED
      BY <1>3, <2>1, <3>1
  <2>2. r \notin crossed =>
          /\ Support!Side(q.kind) = "customer" => ticket.staffLastReadAt < q.at
          /\ Support!Side(q.kind) = "staff" => ticket.customerLastReadAt < q.at
          /\ q.kind = "note" => q.lastStaff = ticket.lastStaffMessageAt
    BY <1>2 DEF TicketInv, AloneIsCurrent, q
  <2>3. ASSUME "customer" \in heard' PROVE Support!UnreadByStaff' /\ ticket'.status = "OPEN"
    <3>1. Support!Side(q.kind) = "customer" /\ r \notin crossed
          /\ ("customer" \in heard \/ q.kind = "customer_reply")
      BY <2>1, <2>3, Kinds DEF Support!Words, Support!OfStaff
    <3>2. q.kind \in Support!OfCustomer /\ q.kind \notin Support!OfStaff
      BY <1>2, <3>1, Kinds
    <3>3. CASE q.kind = "customer_reply"
      <4>1. Support!NextStatus(q) = "OPEN"
        BY <3>3 DEF Support!NextStatus
      <4>2. QED
        BY <1>1, <1>2, <1>3, <2>2, <3>1, <3>2, <3>3, <4>1, WrittenFields
           DEF Support!UnreadByStaff, Support!Ticket, Support!Times, TicketTimes
    <3>4. CASE q.kind # "customer_reply"
      <4>1. q.kind = "customer_read" /\ "customer" \in heard
        BY <3>1, <3>2, <3>4 DEF Support!OfCustomer
      <4>2. Support!NextStatus(q) = ticket.status
        BY <4>1 DEF Support!NextStatus
      <4>3. Support!UnreadByStaff /\ ticket.status = "OPEN"
        BY <4>1 DEF TicketInv, Support!NoWordIsMissed
      <4>4. QED
        BY <1>1, <1>2, <1>3, <3>2, <3>4, <4>2, <4>3, WrittenFields DEF Support!UnreadByStaff
    <3>5. QED
      BY <3>3, <3>4
  <2>4. ASSUME "staff" \in heard' PROVE Support!UnreadByCustomer'
    <3>1. Support!Side(q.kind) = "staff" /\ r \notin crossed
          /\ ("staff" \in heard \/ q.kind \in Support!Words)
      BY <2>1, <2>4
    <3>2. q.kind \notin Support!OfCustomer
      BY <3>1, Kinds
    <3>3. CASE q.kind \in {"reply", "status"}
      BY <1>1, <1>2, <1>3, <2>2, <3>1, <3>2, <3>3, WrittenFields
         DEF Support!UnreadByCustomer, Support!Ticket, Support!Times, TicketTimes
    <3>4. CASE q.kind \notin {"reply", "status"}
      <4>1. "staff" \in heard
        BY <3>1, <3>2, <3>4 DEF Support!Words, Support!OfCustomer
      <4>2. Support!UnreadByCustomer
        BY <4>1 DEF TicketInv, Support!NoWordIsMissed
      <4>3. ticket'.lastStaffMessageAt = ticket.lastStaffMessageAt
            /\ ticket'.customerLastReadAt = ticket.customerLastReadAt
        BY <1>1, <1>2, <1>3, <2>2, <3>1, <3>2, <3>4, WrittenFields
      <4>4. QED
        BY <4>2, <4>3 DEF Support!UnreadByCustomer
    <3>5. QED
      BY <3>3, <3>4
  <2>5. QED
    BY <2>3, <2>4 DEF Support!NoWordIsMissed
<1>16. QED
  BY <1>9, <1>10, <1>11, <1>12, <1>13, <1>14, <1>15 DEF TicketInv

(* A request that fails leaves the ticket, and one less at work.             *)
LEMMA FailsStep ==
  ASSUME TicketTimes, TicketInv, NEW r \in TicketRequests, Support!Fails(r)
  PROVE  TicketInv'
<1>1. /\ ticketRequest \in [TicketRequests -> Support!Request] /\ now \in 1..MaxTime
      /\ ticketRequest' = [ticketRequest EXCEPT ![r] = Support!Idle]
      /\ UNCHANGED <<ticket, now, crossed, heard>>
  BY DEF TicketInv, Support!TypeOK, Support!Fails
<1>2. /\ ticketRequest'[r] = Support!Idle
      /\ \A p \in TicketRequests : p # r => ticketRequest'[p] = ticketRequest[p]
  BY <1>1
<1>3. Support!Idle \in Support!Request /\ Support!Idle.kind = "idle" /\ Support!Idle.at = 0
      /\ Support!Idle.lastStaff = 0
  BY DEF Support!Idle, Support!Request, Support!Times, Support!Status, TicketTimes
<1>4. Support!TypeOK'
  BY <1>1, <1>3 DEF TicketInv, Support!TypeOK
<1>5. NothingIsLeft' /\ HeardInSilence'
  BY <1>1, <1>2, <1>3 DEF TicketInv, NothingIsLeft, HeardInSilence, AtWork
<1>6. TimesArePast'
  BY <1>1, <1>2, <1>3 DEF TicketInv, TimesArePast, TicketTimes
<1>7. MeetingsAreNoted'
  BY <1>1, <1>2, <1>3 DEF TicketInv, MeetingsAreNoted, Support!CanUndo
<1>8. AloneIsCurrent'
  BY <1>1, <1>2, <1>3 DEF TicketInv, AloneIsCurrent, AtWork
<1>9. Support!NoWordIsMissed'
  BY <1>1 DEF TicketInv, Support!NoWordIsMissed, Support!UnreadByStaff, Support!UnreadByCustomer
<1>10. QED
  BY <1>4, <1>5, <1>6, <1>7, <1>8, <1>9 DEF TicketInv

-----------------------------------------------------------------------------
(* Every state satisfies the invariant.                                      *)
LEMMA TicketKept == ASSUME TicketTimes PROVE Support!Spec => []TicketInv
<1>1. Support!Init => TicketInv
  BY TicketInvInit
<1>2. TicketInv /\ [Support!Next]_Support!vars => TicketInv'
  <2>1. ASSUME TicketInv, Support!Next PROVE TicketInv'
    BY <2>1, BeginStep, WriteStep, FailsStep DEF Support!Next
  <2>2. ASSUME TicketInv, UNCHANGED Support!vars PROVE TicketInv'
    BY <2>2 DEF Support!vars, TicketInv, Support!TypeOK, NothingIsLeft, TimesArePast,
       MeetingsAreNoted, AloneIsCurrent,
                HeardInSilence, Support!NoWordIsMissed, Support!UnreadByStaff, Support!UnreadByCustomer,
                AtWork
  <2>3. QED
    BY <2>1, <2>2
<1>3. QED
  BY <1>1, <1>2, PTL DEF Support!Spec

(* The ticket and the requests have their types.                             *)
LEMMA SupportTypes == ASSUME TicketTimes PROVE Support!Spec => []Support!TypeOK
<1>1. TicketInv => Support!TypeOK
  BY DEF TicketInv
<1>2. QED
  BY <1>1, TicketKept, PTL

(* What one side has said last stays unread for the other one until that one *)
(* does something about the ticket, and a customer's word leaves it open,    *)
(* with any number of requests of either side at work; only a request that   *)
(* has met one whose writes it can undo is not counted on.                   *)
THEOREM WordsAreNoticed == ASSUME TicketTimes PROVE PartsSpec => []NoWordIsMissed
<1>1. TicketInv => Support!NoWordIsMissed
  BY DEF TicketInv
<1>2. QED
  BY <1>1, TicketKept, PartsAreTheirSpecs, PTL DEF NoWordIsMissed

-----------------------------------------------------------------------------
(* The plants of a Deye account, for any plants, systems and requests.       *)
PlantParameters == NoPlant \notin Plants /\ NoSystem \notin Systems

(* A row that is not there has no plant, and no two rows have the same.      *)
RowsFit ==
  /\ system \in [Systems -> Plant!SystemRow]
  /\ \A s \in Systems : system[s].state = "none" => system[s].plant = NoPlant
  /\ \A s, t \in Systems :
       system[s].plant # NoPlant /\ system[s].plant = system[t].plant => s = t

(* What a request has read is there.                                         *)
RequestFits(state) ==
  /\ state.pc # "idle" => state.plant \in Plants
  /\ state.pc \in {"device", "bind", "clear", "own", "link"} => state.system \in Systems
  /\ state.pc = "link" => state.target \in Systems /\ state.target # state.system
  /\ \A s \in {state.system, state.target} \cap Systems : system[s].state # "none"

RequestsFit ==
  /\ systemRequest \in [SystemRequests -> Plant!Request]
  /\ \A r \in SystemRequests : RequestFits(systemRequest[r])

(* A request that is about to store a device has found, or made, its system  *)
(* the plant's, which another one that has changed since has noted.          *)
Stores(state) == state.pc \in {"device", "clear", "own"}
WritersFollowPlant ==
  \A r \in SystemRequests \ moved :
    Stores(systemRequest[r]) => system[systemRequest[r].system].plant = systemRequest[r].plant

DevicesFit ==
  /\ device \in [Plants -> Plant!DeviceRow]
  /\ \A p \in Plants : device[p].state = "live" => device[p].system \in Systems

PlantInv ==
  /\ RowsFit /\ RequestsFit /\ WritersFollowPlant /\ DevicesFit
  /\ moved \subseteq SystemRequests /\ unsettled \subseteq Plants
  /\ DevicesFollowPlant

(* A row that is given a plant nobody else holds.                            *)
LEMMA BoundRow ==
  ASSUME PlantParameters, RowsFit, NEW s \in Systems, NEW p \in Plants,
         Plant!Holders(p) \subseteq {s}, system' \in [Systems -> Plant!SystemRow],
         system'[s].plant = p, system'[s].state # "none",
         \A x \in Systems \ {s} : system'[x] = system[x]
  PROVE  /\ RowsFit'
         /\ \A x \in Systems \ {s} : system[x].plant # p
         /\ \A x \in Systems : system[x].state # "none" => system'[x].state # "none"
<1>1. \A x \in Systems \ {s} : system[x].plant # p
  BY DEF Plant!Holders
<1>2. \A x \in Systems : system'[x].state = "none" => system'[x].plant = NoPlant
  BY DEF RowsFit
<1>3. ASSUME NEW x \in Systems, NEW y \in Systems, system'[x].plant # NoPlant,
             system'[x].plant = system'[y].plant
      PROVE  x = y
  BY <1>1, <1>3 DEF RowsFit
<1>4. QED
  BY <1>1, <1>2, <1>3 DEF RowsFit

(* One request goes on; rows that were there stay.                           *)
LEMMA RequestGoesOn ==
  ASSUME RequestsFit, NEW r \in SystemRequests,
         systemRequest' \in [SystemRequests -> Plant!Request],
         \A x \in SystemRequests \ {r} : systemRequest'[x] = systemRequest[x],
         \A s \in Systems : system[s].state # "none" => system'[s].state # "none",
         RequestFits(systemRequest[r])'
  PROVE  RequestsFit'
<1>1. ASSUME NEW x \in SystemRequests PROVE RequestFits(systemRequest[x])'
  <2>1. CASE x = r
    BY <2>1
  <2>2. CASE x # r
    <3>1. RequestFits(systemRequest[x]) /\ systemRequest'[x] = systemRequest[x]
      BY <2>2 DEF RequestsFit
    <3>2. QED
      BY <3>1 DEF RequestFits
  <2>3. QED
    BY <2>1, <2>2
<1>2. QED
  BY <1>1 DEF RequestsFit

LEMMA BecomeStep ==
  ASSUME RequestsFit, NEW r \in SystemRequests, NEW next \in Plant!Request,
         Plant!Become(r, next)
  PROVE  /\ systemRequest' \in [SystemRequests -> Plant!Request] /\ systemRequest'[r] = next
         /\ \A x \in SystemRequests \ {r} : systemRequest'[x] = systemRequest[x]
BY DEF RequestsFit, Plant!Become

LEMMA IdleRequest ==
  ASSUME PlantParameters
  PROVE  /\ Plant!Idle \in Plant!Request /\ Plant!Idle.pc = "idle"
         /\ Plant!Idle.system \notin Systems
         /\ Plant!Idle.target \notin Systems
BY DEF PlantParameters, Plant!Idle, Plant!At, Plant!Request

(* What a request that stands somewhere holds.                               *)
LEMMA AtRequest ==
  ASSUME PlantParameters, NEW p \in Plants, NEW s \in Systems,
         NEW pc \in {"device", "bind", "clear", "own"}
  PROVE  /\ Plant!At(pc, p, s) \in Plant!Request /\ Plant!At(pc, p, s).pc = pc
         /\ Plant!At(pc, p, s).plant = p /\ Plant!At(pc, p, s).system = s
         /\ Plant!At(pc, p, s).target \notin Systems
BY DEF PlantParameters, Plant!At, Plant!Request

(* A request that ends, or begins: nothing else changes.                     *)
LEMMA RequestEnds ==
  ASSUME PlantParameters, PlantInv, NEW r \in SystemRequests, Plant!Become(r, Plant!Idle),
         UNCHANGED <<system, device, moved, unsettled>>
  PROVE  PlantInv'
<1>1. /\ systemRequest' \in [SystemRequests -> Plant!Request]
      /\ systemRequest'[r] = Plant!Idle
      /\ \A x \in SystemRequests \ {r} : systemRequest'[x] = systemRequest[x]
  BY IdleRequest, BecomeStep DEF PlantInv
<1>2. RequestFits(systemRequest[r])'
  BY <1>1, IdleRequest DEF RequestFits
<1>3. RequestsFit'
  BY <1>1, <1>2, RequestGoesOn DEF PlantInv
<1>4. WritersFollowPlant'
  BY <1>1, IdleRequest DEF PlantInv, WritersFollowPlant, Stores
<1>5. QED
  BY <1>3, <1>4 DEF PlantInv, RowsFit, DevicesFit, DevicesFollowPlant, Plant!DevicesFollowPlant

LEMMA RequestBegins ==
  ASSUME PlantParameters, PlantInv, NEW r \in SystemRequests, NEW next \in Plant!Request,
         Plant!Begin(r, next), next.pc \in {"store", "bind", "link"}, next.plant \in Plants,
         next.pc \in {"bind", "link"} => next.system \in Systems,
         next.pc = "link" => next.target \in Systems /\ next.target # next.system,
         \A s \in {next.system, next.target} \cap Systems : system[s].state # "none"
  PROVE  PlantInv'
<1>1. Plant!Become(r, next) /\ moved' = moved \ {r} /\ UNCHANGED <<system, device, unsettled>>
  BY DEF Plant!Begin
<1>2. /\ systemRequest' \in [SystemRequests -> Plant!Request] /\ systemRequest'[r] = next
      /\ \A x \in SystemRequests \ {r} : systemRequest'[x] = systemRequest[x]
  BY <1>1, BecomeStep DEF PlantInv
<1>3. RequestFits(systemRequest[r])'
  BY <1>1, <1>2 DEF RequestFits
<1>4. RequestsFit'
  BY <1>1, <1>2, <1>3, RequestGoesOn DEF PlantInv
<1>5. WritersFollowPlant'
  BY <1>1, <1>2 DEF PlantInv, WritersFollowPlant, Stores
<1>6. QED
  BY <1>1, <1>4, <1>5 DEF PlantInv, RowsFit, DevicesFit, DevicesFollowPlant,
                          Plant!DevicesFollowPlant

(* A system that is given a plant: what it had of another one is unsettled,  *)
(* and who is at work knows.                                                 *)
LEMMA ReboundStep ==
  ASSUME PlantParameters, PlantInv, NEW r \in SystemRequests, NEW s \in Systems, NEW p \in Plants,
         system[s].state # "none", Plant!Holders(p) \subseteq {s},
         system' = [system EXCEPT ![s].plant = p], Plant!Rebound(r, s, p), device' = device,
         NEW pc \in {"device", "clear"}, Plant!Become(r, Plant!At(pc, p, s))
  PROVE  PlantInv'
<1>1. system[s] \in Plant!SystemRow /\ RowsFit /\ RequestsFit
  BY DEF PlantInv, RowsFit
<1>2. /\ system' \in [Systems -> Plant!SystemRow] /\ system'[s].plant = p
      /\ system'[s].state # "none" /\ \A x \in Systems \ {s} : system'[x] = system[x]
  BY <1>1 DEF RowsFit, Plant!SystemRow
<1>3. /\ RowsFit' /\ \A x \in Systems \ {s} : system[x].plant # p
      /\ \A x \in Systems : system[x].state # "none" => system'[x].state # "none"
  BY <1>1, <1>2, BoundRow
<1>4. PICK next \in Plant!Request :
        /\ next = Plant!At(pc, p, s) /\ next.pc = pc /\ next.plant = p /\ next.system = s
        /\ next.target \notin Systems
  BY AtRequest
<1>5. /\ systemRequest' \in [SystemRequests -> Plant!Request] /\ systemRequest'[r] = next
      /\ \A x \in SystemRequests \ {r} : systemRequest'[x] = systemRequest[x]
  BY <1>1, <1>4, BecomeStep
<1>6. RequestFits(systemRequest[r])'
  BY <1>2, <1>4, <1>5 DEF RequestFits
<1>7. RequestsFit'
  BY <1>1, <1>3, <1>5, <1>6, RequestGoesOn
<1>8. ASSUME system[s].plant = p
      PROVE  /\ \A x \in Systems : system'[x].plant = system[x].plant
             /\ UNCHANGED <<moved, unsettled>>
  BY <1>2, <1>8 DEF Plant!Rebound
<1>9. ASSUME system[s].plant # p
      PROVE  /\ moved' = moved \cup (Plant!Working \ {r})
             /\ unsettled' = unsettled \cup {q \in Plants \ {p} : device[q].system = s}
  BY <1>9 DEF Plant!Rebound
<1>10. Plant!Idle.pc = "idle"
  BY IdleRequest
<1>11. moved' \subseteq SystemRequests /\ unsettled' \subseteq Plants
  BY <1>8, <1>9 DEF PlantInv, Plant!Working
<1>12. WritersFollowPlant'
  <2>1. ASSUME NEW x \in SystemRequests \ moved', Stores(systemRequest'[x])
        PROVE  system'[systemRequest'[x].system].plant = systemRequest'[x].plant
    <3>1. CASE x = r
      BY <1>2, <1>4, <1>5, <3>1
    <3>2. CASE x # r
      <4>1. systemRequest'[x] = systemRequest[x] /\ x \in Plant!Working
        BY <1>5, <1>10, <2>1, <3>2 DEF Stores, Plant!Working
      <4>2. system[s].plant = p /\ x \notin moved
        BY <1>8, <1>9, <2>1, <3>2, <4>1
      <4>3. systemRequest[x].system \in Systems
        BY <2>1, <4>1 DEF PlantInv, RequestsFit, RequestFits, Stores
      <4>4. QED
        BY <1>8, <2>1, <4>1, <4>2, <4>3 DEF PlantInv, WritersFollowPlant
    <3>3. QED
      BY <3>1, <3>2
  <2>2. QED
    BY <2>1 DEF WritersFollowPlant, Stores
<1>13. DevicesFollowPlant'
  <2>1. ASSUME NEW q \in Plants \ unsettled', device[q].state = "live"
        PROVE  system'[device[q].system].plant = q
    <3>1. /\ q \notin unsettled /\ device[q].system \in Systems
          /\ system[device[q].system].plant = q
      BY <1>8, <1>9, <2>1 DEF PlantInv, DevicesFit, DevicesFollowPlant, Plant!DevicesFollowPlant
    <3>2. CASE system[s].plant = p
      BY <1>8, <3>1, <3>2
    <3>3. CASE system[s].plant # p
      BY <1>2, <1>9, <2>1, <3>1, <3>3
    <3>4. QED
      BY <3>2, <3>3
  <2>2. QED
    BY <2>1 DEF DevicesFollowPlant, Plant!DevicesFollowPlant
<1>14. QED
  BY <1>3, <1>7, <1>11, <1>12, <1>13 DEF PlantInv, DevicesFit

(* A new row for a plant that nobody holds: no request and no device refers  *)
(* to it yet.                                                                *)
LEMMA FreshRow ==
  ASSUME PlantParameters, PlantInv, NEW s \in Systems, NEW p \in Plants,
         system[s].state = "none", Plant!Holders(p) = {},
         system' = [system EXCEPT ![s] = [state |-> "live", plant |-> p]]
  PROVE  /\ RowsFit' /\ system'[s].plant = p /\ system'[s].state # "none"
         /\ \A x \in Systems : system[x].state # "none" => system'[x] = system[x]
         /\ \A x \in Systems, q \in Plants : system[x].plant = q => system'[x].plant = q
<1>1. /\ system' \in [Systems -> Plant!SystemRow]
      /\ system'[s] = [state |-> "live", plant |-> p]
      /\ \A x \in Systems \ {s} : system'[x] = system[x]
  BY DEF PlantInv, RowsFit, Plant!SystemRow
<1>2. RowsFit'
  BY <1>1, BoundRow DEF PlantInv
<1>3. system[s].plant \notin Plants
  BY DEF PlantInv, RowsFit, PlantParameters
<1>4. QED
  BY <1>1, <1>2, <1>3

(* Rows that change, while no request does.                                  *)
LEMMA RequestsRest ==
  ASSUME RequestsFit, UNCHANGED systemRequest,
         \A x \in Systems : system[x].state # "none" => system'[x].state # "none"
  PROVE  RequestsFit'
BY DEF RequestsFit, RequestFits

LEMMA StoreKeeps ==
  ASSUME PlantParameters, PlantInv, NEW r \in SystemRequests, Plant!Store(r)
  PROVE  PlantInv'
<1>1. /\ systemRequest[r] \in Plant!Request /\ systemRequest[r].plant \in Plants
      /\ RequestFits(systemRequest[r])
  BY DEF PlantInv, RequestsFit, RequestFits, Plant!Store
<1>2. PICK p \in Plants : p = systemRequest[r].plant
  BY <1>1
<1>3. Plant!Upsert(r, systemRequest[r].plant, systemRequest[r].system) /\ device' = device
  BY DEF Plant!Store
<1>4. CASE ~(Plant!Holders(p) \subseteq {systemRequest[r].system})
  <2>1. Plant!Become(r, Plant!Idle) /\ UNCHANGED <<system, moved, unsettled>>
    BY <1>2, <1>3, <1>4 DEF Plant!Upsert, Plant!Become, PlantParameters,
                              Plant!Holders
  <2>2. QED
    BY <1>3, <2>1, RequestEnds
<1>5. CASE Plant!Holders(p) \subseteq {systemRequest[r].system}
  <2>1. CASE systemRequest[r].system # NoSystem
    <3>1. PICK s \in Systems : s = systemRequest[r].system
      BY <1>1, <2>1 DEF Plant!Request
    <3>2. /\ system' = [system EXCEPT ![s].plant = p] /\ Plant!Rebound(r, s, p)
          /\ Plant!Become(r, Plant!At("device", p, s)) /\ device' = device
      BY <1>2, <1>3, <1>5, <2>1, <3>1 DEF Plant!Upsert, Plant!Become, Plant!Rebound
    <3>3. system[s].state # "none" /\ Plant!Holders(p) \subseteq {s}
      BY <1>1, <1>5, <3>1 DEF RequestFits
    <3>4. QED
      BY <3>2, <3>3, ReboundStep
  <2>2. CASE systemRequest[r].system = NoSystem
    <3>1. Plant!Holders(p) = {}
      BY <1>5, <2>2 DEF PlantParameters, Plant!Holders
    <3>2. PICK s \in Systems :
            /\ system[s].state = "none"
            /\ system' = [system EXCEPT ![s] = [state |-> "live", plant |-> p]]
            /\ UNCHANGED <<moved, unsettled, device>>
            /\ Plant!Become(r, Plant!At("device", p, s))
      BY <1>2, <1>3, <1>5, <2>2 DEF Plant!Fresh, Plant!Upsert, Plant!Become
    <3>3. PICK next \in Plant!Request :
            /\ next = Plant!At("device", p, s) /\ next.pc = "device" /\ next.plant = p
            /\ next.system = s /\ next.target \notin Systems
      BY AtRequest
    <3>4. next.plant \in Plants /\ next.system \in Systems
      BY <3>3
    <3>5. /\ systemRequest' \in [SystemRequests -> Plant!Request] /\ systemRequest'[r] = next
          /\ \A x \in SystemRequests \ {r} : systemRequest'[x] = systemRequest[x]
      BY <3>2, <3>3, BecomeStep DEF PlantInv
    <3>6. /\ RowsFit' /\ system'[s].plant = p /\ system'[s].state # "none"
          /\ \A x \in Systems : system[x].state # "none" => system'[x] = system[x]
          /\ \A x \in Systems, q \in Plants : system[x].plant = q => system'[x].plant = q
      BY <3>1, <3>2, FreshRow
    <3>7. RequestFits(systemRequest[r])'
      BY <3>3, <3>4, <3>5, <3>6 DEF RequestFits
    <3>8. RequestsFit'
      BY <3>5, <3>6, <3>7, RequestGoesOn DEF PlantInv
    <3>9. WritersFollowPlant'
      <4>1. ASSUME NEW x \in SystemRequests \ moved', Stores(systemRequest'[x])
            PROVE  system'[systemRequest'[x].system].plant = systemRequest'[x].plant
        <5>1. CASE x = r
          BY <3>3, <3>5, <3>6, <5>1
        <5>2. CASE x # r
          <6>1. systemRequest'[x] = systemRequest[x] /\ x \notin moved
            BY <3>2, <3>5, <4>1, <5>2
          <6>2. /\ systemRequest[x].system \in Systems /\ systemRequest[x].plant \in Plants
                /\ system[systemRequest[x].system].plant = systemRequest[x].plant
            BY <4>1, <6>1 DEF PlantInv, RequestsFit, RequestFits, Stores, WritersFollowPlant
          <6>3. QED
            BY <3>6, <6>1, <6>2
        <5>3. QED
          BY <5>1, <5>2
      <4>2. QED
        BY <4>1 DEF WritersFollowPlant, Stores
    <3>10. DevicesFollowPlant'
      BY <3>2, <3>6 DEF PlantInv, DevicesFit, DevicesFollowPlant, Plant!DevicesFollowPlant
    <3>11. QED
      BY <3>2, <3>6, <3>8, <3>9, <3>10 DEF PlantInv, DevicesFit
  <2>3. QED
    BY <2>1, <2>2
<1>6. QED
  BY <1>4, <1>5

(* The device is written by a request that knows the plant's system, or is   *)
(* noted as not settled.                                                     *)
LEMMA StoredKeeps ==
  ASSUME PlantParameters, PlantInv, NEW r \in SystemRequests,
         systemRequest[r].pc \in {"device", "own"},
         Plant!StoredBy(r, systemRequest[r].plant, systemRequest[r].system),
         Plant!Become(r, Plant!Idle), UNCHANGED <<system, moved>>
  PROVE  PlantInv'
<1>1. PICK p \in Plants, s \in Systems : p = systemRequest[r].plant /\ s = systemRequest[r].system
  BY DEF PlantInv, RequestsFit, RequestFits
<1>2. /\ device' \in [Plants -> Plant!DeviceRow]
      /\ device'[p] = [state |-> "live", system |-> s]
      /\ \A q \in Plants \ {p} : device'[q] = device[q]
  BY <1>1 DEF Plant!StoredBy, PlantInv, DevicesFit, Plant!DeviceRow
<1>3. /\ unsettled' \subseteq Plants
      /\ \A q \in Plants \ {p} : q \notin unsettled' => q \notin unsettled
      /\ p \notin unsettled' => r \notin moved
  BY <1>1 DEF Plant!StoredBy, PlantInv
<1>4. /\ systemRequest' \in [SystemRequests -> Plant!Request]
      /\ systemRequest'[r] = Plant!Idle
      /\ \A x \in SystemRequests \ {r} : systemRequest'[x] = systemRequest[x]
  BY IdleRequest, BecomeStep DEF PlantInv
<1>5. RequestFits(systemRequest[r])'
  BY <1>4, IdleRequest DEF RequestFits
<1>6. RequestsFit'
  BY <1>4, <1>5, RequestGoesOn DEF PlantInv
<1>7. WritersFollowPlant'
  BY <1>4, IdleRequest DEF PlantInv, WritersFollowPlant, Stores
<1>8. r \notin moved => system[s].plant = p
  BY <1>1 DEF PlantInv, WritersFollowPlant, Stores
<1>9. DevicesFollowPlant'
  BY <1>2, <1>3, <1>8 DEF PlantInv, DevicesFollowPlant, Plant!DevicesFollowPlant
<1>10. DevicesFit'
  BY <1>2 DEF PlantInv, DevicesFit
<1>11. QED
  BY <1>3, <1>6, <1>7, <1>9, <1>10 DEF PlantInv, RowsFit

LEMMA BindKeeps ==
  ASSUME PlantParameters, PlantInv, NEW r \in SystemRequests, Plant!Bind(r)
  PROVE  PlantInv'
<1>1. PICK p \in Plants, s \in Systems :
        /\ p = systemRequest[r].plant /\ s = systemRequest[r].system
        /\ system[s].state # "none"
  BY DEF Plant!Bind, PlantInv, RequestsFit, RequestFits
<1>2. CASE Plant!Holders(p) \subseteq {s}
  <2>1. /\ system' = [system EXCEPT ![s].plant = p] /\ Plant!Rebound(r, s, p)
        /\ Plant!Become(r, Plant!At("clear", p, s)) /\ device' = device
    BY <1>1, <1>2 DEF Plant!Bind, Plant!Become, Plant!Rebound
  <2>2. QED
    BY <1>1, <1>2, <2>1, ReboundStep
<1>3. CASE ~(Plant!Holders(p) \subseteq {s})
  <2>1. Plant!Become(r, Plant!Idle) /\ UNCHANGED <<system, device, moved, unsettled>>
    BY <1>1, <1>3 DEF Plant!Bind, Plant!Become
  <2>2. QED
    BY <2>1, RequestEnds
<1>4. QED
  BY <1>2, <1>3

LEMMA ClearOldKeeps ==
  ASSUME PlantParameters, PlantInv, NEW r \in SystemRequests, Plant!ClearOld(r)
  PROVE  PlantInv'
<1>1. PICK p \in Plants, s \in Systems :
        /\ p = systemRequest[r].plant /\ s = systemRequest[r].system
        /\ system[s].state # "none" /\ systemRequest[r].pc = "clear"
  BY DEF Plant!ClearOld, PlantInv, RequestsFit, RequestFits
<1>2. PICK next \in Plant!Request :
        /\ next = Plant!At("own", p, s) /\ next.pc = "own" /\ next.plant = p /\ next.system = s
        /\ next.target \notin Systems
  BY AtRequest
<1>3. Plant!Become(r, next) /\ UNCHANGED <<system, moved>>
  BY <1>1, <1>2 DEF Plant!ClearOld, Plant!Become
<1>4. /\ systemRequest' \in [SystemRequests -> Plant!Request] /\ systemRequest'[r] = next
      /\ \A x \in SystemRequests \ {r} : systemRequest'[x] = systemRequest[x]
  BY <1>2, <1>3, BecomeStep DEF PlantInv
<1>5. RequestFits(systemRequest[r])'
  BY <1>1, <1>2, <1>3, <1>4 DEF RequestFits
<1>6. RequestsFit'
  BY <1>3, <1>4, <1>5, RequestGoesOn DEF PlantInv
<1>7. WritersFollowPlant'
  <2>1. ASSUME NEW x \in SystemRequests \ moved', Stores(systemRequest'[x])
        PROVE  system'[systemRequest'[x].system].plant = systemRequest'[x].plant
    <3>1. Stores(systemRequest[x])
      BY <1>1, <1>4, <2>1 DEF Stores
    <3>2. /\ systemRequest'[x].system = systemRequest[x].system
          /\ systemRequest'[x].plant = systemRequest[x].plant
      BY <1>1, <1>2, <1>4
    <3>3. QED
      BY <1>3, <2>1, <3>1, <3>2 DEF PlantInv, WritersFollowPlant
  <2>2. QED
    BY <2>1 DEF WritersFollowPlant, Stores
<1>8. /\ \A q \in Plants : device[q] \in Plant!DeviceRow
      /\ device' = [q \in Plants |-> IF q \in Plant!OutOfPlace(r)
                                     THEN [device[q] EXCEPT !.state = "deleted"] ELSE device[q]]
  BY DEF PlantInv, DevicesFit, Plant!ClearOld
<1>9. /\ device' \in [Plants -> Plant!DeviceRow]
      /\ \A q \in Plants : device'[q].state = "live" =>
           q \notin Plant!OutOfPlace(r) /\ device'[q] = device[q]
  BY <1>8 DEF Plant!DeviceRow
<1>10. unsettled' = unsettled \ Plant!OutOfPlace(r)
  BY DEF Plant!ClearOld
<1>11. DevicesFollowPlant' /\ DevicesFit' /\ unsettled' \subseteq Plants
  BY <1>3, <1>9, <1>10 DEF PlantInv, DevicesFit, DevicesFollowPlant, Plant!DevicesFollowPlant
<1>12. QED
  BY <1>3, <1>6, <1>7, <1>11 DEF PlantInv, RowsFit

(* A link gives the plant and its devices to the other system, and whoever   *)
(* is at work is noted.                                                      *)
LEMMA LinkKeeps ==
  ASSUME PlantParameters, PlantInv, NEW r \in SystemRequests, Plant!Link(r)
  PROVE  PlantInv'
<1>1. PICK p \in Plants, s \in Systems, t \in Systems :
        /\ p = systemRequest[r].plant /\ s = systemRequest[r].system
        /\ t = systemRequest[r].target /\ s # t
        /\ system[s].state # "none" /\ system[t].state # "none"
  BY DEF Plant!Link, PlantInv, RequestsFit, RequestFits
<1>2. Plant!Become(r, Plant!Idle)
  BY DEF Plant!Link
<1>3. CASE ~(Plant!Holders(p) \subseteq {s, t})
  <2>1. UNCHANGED <<system, device, moved, unsettled>>
    BY <1>1, <1>3 DEF Plant!Link
  <2>2. QED
    BY <1>2, <2>1, RequestEnds
<1>4. CASE Plant!Holders(p) \subseteq {s, t}
  <2>1. /\ system' = [system EXCEPT ![s] = [state |-> "deleted", plant |-> NoPlant], ![t].plant = p]
        /\ moved' = moved \cup (Plant!Working \ {r})
        /\ unsettled' = unsettled \cup {q \in Plants \ {p} : device[q].system \in {s, t}}
    BY <1>1, <1>4 DEF Plant!Link
  <2>2. device' = [q \in Plants |-> IF device[q].system = s THEN [device[q] EXCEPT !.system = t]
                                    ELSE device[q]]
    BY <1>1, <1>4 DEF Plant!Link
  <2>3. system \in [Systems -> Plant!SystemRow] /\ system[t] \in Plant!SystemRow
    BY DEF PlantInv, RowsFit
  <2>4. /\ system' \in [Systems -> Plant!SystemRow]
        /\ system'[s].state = "deleted" /\ system'[s].plant = NoPlant
        /\ system'[t].plant = p /\ system'[t].state = system[t].state
        /\ \A x \in Systems \ {s, t} : system'[x] = system[x]
    BY <1>1, <2>1, <2>3 DEF Plant!SystemRow
  <2>5. \A x \in Systems : system[x].plant = p => x \in {s, t}
    BY <1>4 DEF Plant!Holders
  <2>6. RowsFit'
    <3>1. \A x \in Systems : system'[x].state = "none" => system'[x].plant = NoPlant
      BY <1>1, <2>4 DEF PlantInv, RowsFit
    <3>2. ASSUME NEW x \in Systems, NEW y \in Systems, system'[x].plant # NoPlant,
                 system'[x].plant = system'[y].plant
          PROVE  x = y
      BY <2>4, <2>5, <3>2 DEF PlantInv, RowsFit
    <3>3. QED
      BY <2>4, <3>1, <3>2 DEF RowsFit
  <2>7. /\ systemRequest' \in [SystemRequests -> Plant!Request]
        /\ systemRequest'[r] = Plant!Idle
        /\ \A x \in SystemRequests \ {r} : systemRequest'[x] = systemRequest[x]
    BY <1>2, IdleRequest, BecomeStep DEF PlantInv
  <2>8. RequestFits(systemRequest[r])'
    BY <2>7, IdleRequest DEF RequestFits
  <2>9. \A x \in Systems : system[x].state # "none" => system'[x].state # "none"
    BY <1>1, <2>4
  <2>10. RequestsFit'
    BY <2>7, <2>8, <2>9, RequestGoesOn DEF PlantInv
  <2>11. WritersFollowPlant'
    BY <2>1, <2>7, IdleRequest DEF WritersFollowPlant, Stores, Plant!Working
  <2>12. \A q \in Plants : device[q] \in Plant!DeviceRow
    BY DEF PlantInv, DevicesFit
  <2>13. /\ device' \in [Plants -> Plant!DeviceRow]
         /\ \A q \in Plants :
              /\ device'[q].state = device[q].state
              /\ device[q].system = s => device'[q].system = t
              /\ device[q].system # s => device'[q].system = device[q].system
    BY <2>2, <2>12 DEF Plant!DeviceRow
  <2>14. DevicesFit'
    BY <2>13 DEF PlantInv, DevicesFit
  <2>15. DevicesFollowPlant'
    <3>1. ASSUME NEW q \in Plants \ unsettled', device'[q].state = "live"
          PROVE  system'[device'[q].system].plant = q
      <4>1. /\ device[q].system \in Systems /\ system[device[q].system].plant = q
            /\ q = p \/ device[q].system \notin {s, t}
        BY <2>1, <2>13, <3>1 DEF PlantInv, DevicesFit, DevicesFollowPlant,
                                 Plant!DevicesFollowPlant
      <4>2. CASE q = p
        BY <2>4, <2>5, <2>13, <4>1, <4>2
      <4>3. CASE device[q].system \notin {s, t}
        BY <2>4, <2>13, <4>1, <4>3
      <4>4. QED
        BY <4>1, <4>2, <4>3
    <3>2. QED
      BY <3>1 DEF DevicesFollowPlant, Plant!DevicesFollowPlant
  <2>16. QED
    BY <2>1, <2>6, <2>10, <2>11, <2>14, <2>15 DEF PlantInv, Plant!Working
<1>5. QED
  BY <1>3, <1>4

LEMMA ImportKeeps ==
  ASSUME PlantParameters, PlantInv, NEW p \in Plants, Plant!Import(p)
  PROVE  PlantInv'
<1>1. unsettled' = unsettled \ {p} /\ UNCHANGED <<systemRequest, moved>>
  BY DEF Plant!Import
<1>2. PICK s \in Systems :
        /\ device' = [device EXCEPT ![p] = [state |-> "live", system |-> s]]
        /\ \/ system[s].plant = p /\ UNCHANGED system
           \/ /\ Plant!Holders(p) = {} /\ system[s].state = "none"
              /\ system' = [system EXCEPT ![s] = [state |-> "live", plant |-> p]]
  BY DEF Plant!Import, Plant!Holders, Plant!Fresh
<1>3. /\ RowsFit' /\ system'[s].plant = p
      /\ \A x \in Systems : system[x].state # "none" => system'[x] = system[x]
      /\ \A x \in Systems, q \in Plants : system[x].plant = q => system'[x].plant = q
  <2>1. CASE system[s].plant = p /\ UNCHANGED system
    BY <2>1 DEF PlantInv, RowsFit
  <2>2. CASE /\ Plant!Holders(p) = {} /\ system[s].state = "none"
             /\ system' = [system EXCEPT ![s] = [state |-> "live", plant |-> p]]
    BY <2>2, FreshRow
  <2>3. QED
    BY <1>2, <2>1, <2>2
<1>4. /\ device' \in [Plants -> Plant!DeviceRow]
      /\ device'[p] = [state |-> "live", system |-> s]
      /\ \A q \in Plants \ {p} : device'[q] = device[q]
  BY <1>2 DEF PlantInv, DevicesFit, Plant!DeviceRow
<1>5. RequestsFit'
  BY <1>1, <1>3, RequestsRest DEF PlantInv
<1>6. WritersFollowPlant'
  BY <1>1, <1>3 DEF PlantInv, RequestsFit, RequestFits, WritersFollowPlant, Stores
<1>7. DevicesFit'
  BY <1>4 DEF PlantInv, DevicesFit
<1>8. DevicesFollowPlant'
  BY <1>1, <1>3, <1>4 DEF PlantInv, DevicesFit, DevicesFollowPlant, Plant!DevicesFollowPlant
<1>9. QED
  BY <1>1, <1>3, <1>5, <1>6, <1>7, <1>8 DEF PlantInv

(* A row whose state alone changes.                                          *)
LEMMA StateKeeps ==
  ASSUME PlantParameters, PlantInv, NEW s \in Systems, NEW state \in {"live", "deleted"},
         system' = [system EXCEPT ![s].state = state],
         UNCHANGED <<device, systemRequest, moved, unsettled>>
  PROVE  PlantInv'
<1>1. system \in [Systems -> Plant!SystemRow] /\ system[s] \in Plant!SystemRow
  BY DEF PlantInv, RowsFit
<1>2. /\ system' \in [Systems -> Plant!SystemRow] /\ system'[s].state = state
      /\ \A x \in Systems : system'[x].plant = system[x].plant
      /\ \A x \in Systems \ {s} : system'[x] = system[x]
  BY <1>1 DEF Plant!SystemRow
<1>3. RowsFit' /\ RequestsFit'
  BY <1>2, RequestsRest DEF PlantInv, RowsFit
<1>4. WritersFollowPlant'
  BY <1>2 DEF PlantInv, RequestsFit, RequestFits, WritersFollowPlant, Stores
<1>5. DevicesFollowPlant'
  BY <1>2 DEF PlantInv, DevicesFit, DevicesFollowPlant, Plant!DevicesFollowPlant
<1>6. QED
  BY <1>3, <1>4, <1>5 DEF PlantInv, DevicesFit

LEMMA LookKeeps ==
  ASSUME PlantParameters, PlantInv, NEW r \in SystemRequests, NEW p \in Plants, Plant!Look(r, p)
  PROVE  PlantInv'
<1>1. PICK s \in Systems \cup {NoSystem} :
        /\ s \in Systems => system[s].state = "live"
        /\ Plant!Begin(r, [pc |-> "store", plant |-> p, system |-> s, target |-> NoSystem])
  <2>1. \A s \in Plant!Seen(p) : s \in Systems /\ system[s].state = "live"
    BY DEF Plant!Seen, Plant!Holders
  <2>2. PICK s \in IF Plant!Seen(p) # {} THEN Plant!Seen(p) ELSE {NoSystem} :
          Plant!Begin(r, [pc |-> "store", plant |-> p, system |-> s, target |-> NoSystem])
    BY DEF Plant!Look, Plant!Begin, Plant!Become, Plant!At
  <2>3. s \in Systems \cup {NoSystem} /\ (s \in Systems => system[s].state = "live")
    BY <2>1, <2>2 DEF PlantParameters
  <2>4. QED
    BY <2>2, <2>3
<1>2. PICK next \in Plant!Request :
        next = [pc |-> "store", plant |-> p, system |-> s, target |-> NoSystem]
  BY DEF Plant!Request
<1>3. Plant!Begin(r, next)
  BY <1>1, <1>2 DEF Plant!Begin, Plant!Become
<1>4. /\ next.pc = "store" /\ next.plant \in Plants
      /\ \A x \in {next.system, next.target} \cap Systems : system[x].state # "none"
  BY <1>1, <1>2 DEF PlantParameters
<1>5. QED
  BY <1>3, <1>4, RequestBegins

LEMMA CheckBindKeeps ==
  ASSUME PlantParameters, PlantInv, NEW r \in SystemRequests, NEW s \in Systems, NEW p \in Plants,
         Plant!CheckBind(r, s, p)
  PROVE  PlantInv'
<1>1. PICK next \in Plant!Request :
        /\ next = Plant!At("bind", p, s) /\ next.pc = "bind" /\ next.plant = p /\ next.system = s
        /\ next.target \notin Systems
  BY AtRequest
<1>2. Plant!Begin(r, next) /\ system[s].state = "live"
  BY <1>1 DEF Plant!CheckBind, Plant!Begin, Plant!Become
<1>3. \A x \in {next.system, next.target} \cap Systems : system[x].state # "none"
  BY <1>1, <1>2
<1>4. QED
  BY <1>1, <1>2, <1>3, RequestBegins

LEMMA ReviewKeeps ==
  ASSUME PlantParameters, PlantInv, NEW r \in SystemRequests, NEW s \in Systems, NEW t \in Systems,
         Plant!Review(r, s, t)
  PROVE  PlantInv'
<1>1. PICK p \in Plants : p = system[s].plant
  BY DEF Plant!Review, PlantInv, RowsFit, Plant!SystemRow
<1>2. PICK next \in Plant!Request :
        next = [pc |-> "link", plant |-> p, system |-> s, target |-> t]
  BY DEF Plant!Request
<1>3. /\ Plant!Begin(r, next) /\ s # t
      /\ system[s].state = "live" /\ system[t].state = "live"
  BY <1>1, <1>2 DEF Plant!Review, Plant!Begin, Plant!Become
<1>4. /\ next.pc = "link" /\ next.plant \in Plants /\ next.system = s /\ next.target = t
      /\ \A x \in {next.system, next.target} \cap Systems : system[x].state # "none"
  BY <1>2, <1>3
<1>5. QED
  BY <1>3, <1>4, RequestBegins

LEMMA PlantKept == ASSUME PlantParameters PROVE Plant!Spec => []PlantInv
<1>1. Plant!Init => PlantInv
  <2> SUFFICES ASSUME Plant!Init PROVE PlantInv
    OBVIOUS
  <2> USE DEF Plant!Init
  <2>1. RowsFit
    BY DEF RowsFit, Plant!SystemRow
  <2>2. RequestsFit
    BY IdleRequest DEF RequestsFit, RequestFits
  <2>3. WritersFollowPlant
    BY IdleRequest DEF WritersFollowPlant, Stores
  <2>4. DevicesFit
    BY DEF DevicesFit, Plant!DeviceRow
  <2>5. DevicesFollowPlant
    BY DEF DevicesFollowPlant, Plant!DevicesFollowPlant
  <2>6. QED
    BY <2>1, <2>2, <2>3, <2>4, <2>5 DEF PlantInv
<1>2. PlantInv /\ [Plant!Next]_Plant!vars => PlantInv'
  <2> SUFFICES ASSUME PlantInv, [Plant!Next]_Plant!vars PROVE PlantInv'
    OBVIOUS
  <2>1. ASSUME NEW r \in SystemRequests, Plant!StoreDevice(r) PROVE PlantInv'
    BY <2>1, StoredKeeps DEF Plant!StoreDevice
  <2>2. ASSUME NEW r \in SystemRequests, Plant!OwnDevice(r) PROVE PlantInv'
    BY <2>2, StoredKeeps DEF Plant!OwnDevice
  <2>3. ASSUME NEW r \in SystemRequests, Plant!Fails(r) PROVE PlantInv'
    BY <2>3, RequestEnds DEF Plant!Fails
  <2>4. ASSUME NEW s \in Systems, Plant!Create(s) \/ Plant!Remove(s) PROVE PlantInv'
    BY <2>4, StateKeeps DEF Plant!Create, Plant!Remove
  <2>5. CASE UNCHANGED Plant!vars
    BY <2>5 DEF Plant!vars, PlantInv, RowsFit, RequestsFit, RequestFits, WritersFollowPlant, Stores,
                DevicesFit, DevicesFollowPlant, Plant!DevicesFollowPlant
  <2>6. QED
    BY <2>1, <2>2, <2>3, <2>4, <2>5, StoreKeeps, BindKeeps, ClearOldKeeps, LinkKeeps, LookKeeps,
       CheckBindKeeps, ReviewKeeps, ImportKeeps DEF Plant!Next
<1>3. QED
  BY <1>1, <1>2, PTL DEF Plant!Spec

(* The devices of a plant belong to the system that stands for the plant,    *)
(* with any number of syncs, bindings and links at work: only a request that *)
(* was at work when a system changed its plant, or a binding that did not    *)
(* end, leaves them elsewhere, and the next undisturbed writer puts them     *)
(* right.                                                                    *)
THEOREM DevicesFollowTheirPlants ==
  ASSUME PlantParameters
  PROVE  PartsSpec => []DevicesFollowPlant
<1>1. PlantInv => DevicesFollowPlant
  BY DEF PlantInv
<1>2. QED
  BY <1>1, PlantKept, PartsAreTheirSpecs, PTL

LEMMA PlantTypes == ASSUME PlantParameters PROVE Plant!Spec => []Plant!TypeOK
<1>1. PlantInv => Plant!TypeOK
  BY DEF PlantInv, RowsFit, RequestsFit, DevicesFit, Plant!TypeOK
<1>2. QED
  BY <1>1, PlantKept, PTL

-----------------------------------------------------------------------------
(* Zalo's access token, for any number of messages and of tokens.            *)
TokenParameters == MaxZaloToken \in Nat \ {0}

(* What anybody holds has been issued.                                       *)
Issued == {0} \cup {n \in Token!Tokens : token[n] # "unissued"}
OnlyIssued ==
  /\ spent \subseteq Issued
  /\ settings.access \in Issued /\ settings.refresh \in Issued /\ settings.expiry \in Issued
  /\ edit.access \in Issued /\ edit.refresh \in Issued /\ edit.expiry \in Issued
  /\ \A m \in Messages :
       /\ message[m].access \in Issued /\ message[m].refresh \in Issued
       /\ message[m].expiry \in Issued /\ message[m].fresh \in Issued

(* The successor of a refresh token, until it is stored, is one message's.   *)
Unshared(m) ==
  /\ message[m].fresh \notin spent \cup {0, settings.refresh, edit.refresh}
  /\ \A x \in Messages \ {m} :
       /\ message[x].refresh # message[m].fresh
       /\ message[x].pc = "persist" => message[x].fresh # message[m].fresh
SuccessorsUnshared == \A m \in Messages : message[m].pc = "persist" => Unshared(m)

(* Where a message stands.                                                   *)
StageFits(s) ==
  /\ s.pc # "log" => s.outcome = "none"
  /\ s.pc \in {"refresh", "failed", "persist", "verify", "send"} => s.tries \in 0..1
  /\ s.pc = "reject" => s.tries \in 1..2
  /\ s.pc \in {"send", "reject"} => s.access # 0
  /\ s.pc = "verify" => s.fresh # 0
StagesFit == \A m \in Messages : StageFits(message[m])

(* A message that meets nobody has read what the row still says, and its     *)
(* refresh token works; the second time it holds a token that does.          *)
Undisturbed(s) ==
  /\ s.pc # "failed"
  /\ s.pc \in {"refresh", "send", "reject"} =>
       s.refresh = settings.refresh /\ s.refresh \notin spent \cup {0}
  /\ s.pc \in {"persist", "verify"} => token[s.fresh] = "good"
  /\ s.pc = "verify" =>
       settings.access = s.fresh /\ settings.refresh = s.fresh /\ s.fresh \notin spent
  /\ s.pc = "send" /\ s.tries = 1 => token[s.access] = "good"
  /\ s.pc = "reject" => s.tries = 1
  /\ s.pc = "log" => s.outcome # "FAILED"

MeetsNobody ==
  \A m \in Token!Working \ excused :
    Token!Working = {m} /\ edit = Token!NoEdit /\ Undisturbed(message[m])

SuccessorAtHand ==
  settings.refresh \in spent =>
    \/ lost = "yes"
    \/ \E m \in Messages : message[m].pc = "persist" /\ message[m].refresh = settings.refresh

TokenInv ==
  /\ Token!TypeOK /\ OnlyIssued /\ SuccessorsUnshared /\ StagesFit /\ MeetsNobody
  /\ SuccessorAtHand

LEMMA RestingMessage ==
  ASSUME TokenParameters, NEW outcome \in {"SENT", "FAILED"}
  PROVE  /\ Token!Idle \in Token!Send /\ Token!Idle.pc = "idle" /\ Token!Idle.outcome = "none"
         /\ Token!Idle.access = 0 /\ Token!Idle.refresh = 0
         /\ Token!Idle.expiry = 0 /\ Token!Idle.fresh = 0
         /\ Token!End(outcome) \in Token!Send /\ Token!End(outcome).pc = "log"
         /\ Token!End(outcome).outcome = outcome
         /\ Token!End(outcome).access = 0 /\ Token!End(outcome).refresh = 0
         /\ Token!End(outcome).expiry = 0 /\ Token!End(outcome).fresh = 0
<1>1. 0 \in Token!Stored
  BY DEF TokenParameters, Token!Stored
<1>2. Token!Idle \in Token!Send /\ Token!End(outcome) \in Token!Send
  BY <1>1 DEF Token!Idle, Token!End, Token!Resting, Token!Send
<1>3. QED
  BY <1>2 DEF Token!Idle, Token!End, Token!Resting

LEMMA MessageStep ==
  ASSUME TokenInv, NEW m \in Messages, NEW next \in Token!Send, Token!Become(m, next)
  PROVE  /\ message' \in [Messages -> Token!Send] /\ message'[m] = next
         /\ \A x \in Messages \ {m} : message'[x] = message[x]
BY DEF TokenInv, Token!TypeOK, Token!Become

(* One message goes on, with what has been issued.                           *)
LEMMA IssuedGoesOn ==
  ASSUME TokenInv, NEW m \in Messages, \A x \in Messages \ {m} : message'[x] = message[x],
         Issued \subseteq Issued', edit' = edit, spent' \subseteq Issued',
         settings'.access \in Issued', settings'.refresh \in Issued',
         settings'.expiry \in Issued', message'[m].access \in Issued',
         message'[m].refresh \in Issued', message'[m].expiry \in Issued',
         message'[m].fresh \in Issued'
  PROVE  OnlyIssued'
<1>1. ASSUME NEW x \in Messages
      PROVE  /\ message'[x].access \in Issued' /\ message'[x].refresh \in Issued'
             /\ message'[x].expiry \in Issued' /\ message'[x].fresh \in Issued'
  <2>1. CASE x = m
    BY <2>1
  <2>2. CASE x # m
    BY <2>2 DEF TokenInv, OnlyIssued
  <2>3. QED
    BY <2>1, <2>2
<1>2. /\ edit'.access \in Issued' /\ edit'.refresh \in Issued' /\ edit'.expiry \in Issued'
  BY DEF TokenInv, OnlyIssued
<1>3. QED
  BY <1>1, <1>2 DEF OnlyIssued

(* Of the messages, one goes on, and nobody joins it.                        *)
LEMMA AloneGoesOn ==
  ASSUME TokenInv, NEW m \in Messages, \A x \in Messages \ {m} : message'[x] = message[x],
         message[m] # Token!Idle, edit' = edit, excused \ {m} \subseteq excused',
         message'[m] # Token!Idle /\ m \notin excused' =>
           m \notin excused /\ Undisturbed(message[m])'
  PROVE  MeetsNobody'
<1>1. m \in Token!Working /\ Token!Working' \subseteq Token!Working \cup {m}
  BY DEF Token!Working
<1>2. ASSUME NEW x \in Token!Working' \ excused'
      PROVE  Token!Working' = {x} /\ edit' = Token!NoEdit /\ Undisturbed(message[x])'
  <2>1. x = m \/ x \in Token!Working \ excused
    BY <1>1, <1>2 DEF Token!Working
  <2>2. x = m
    BY <1>1, <2>1 DEF TokenInv, MeetsNobody
  <2>3. m \notin excused /\ Undisturbed(message[m])'
    BY <1>2, <2>2 DEF Token!Working
  <2>4. Token!Working = {m} /\ edit = Token!NoEdit
    BY <1>1, <2>3 DEF TokenInv, MeetsNobody
  <2>5. QED
    BY <1>1, <1>2, <2>2, <2>3, <2>4
<1>3. QED
  BY <1>2 DEF MeetsNobody

(* A message goes on without a new token, and leaves the row's tokens alone. *)
LEMMA MessageMoves ==
  ASSUME TokenParameters, TokenInv, NEW m \in Messages, NEW next \in Token!Send,
         Token!Become(m, next), message[m] # Token!Idle, next.pc # "persist",
         next.access \in Issued, next.refresh \in {0, message[m].refresh, settings.refresh},
         next.expiry \in Issued, next.fresh \in Issued, StageFits(next),
         UNCHANGED <<token, spent, edit>>, settings' \in Token!Row,
         settings'.access = settings.access, settings'.refresh = settings.refresh,
         settings'.expiry \in Issued, lost' = lost \/ lost' = "yes",
         message[m].pc = "persist" => lost' = "yes",
         excused \ {m} \subseteq excused', excused' \subseteq excused \cup {m},
         next # Token!Idle /\ m \notin excused' => m \notin excused /\ Undisturbed(next)
  PROVE  TokenInv'
<1>1. /\ message' \in [Messages -> Token!Send] /\ message'[m] = next
      /\ \A x \in Messages \ {m} : message'[x] = message[x]
  BY MessageStep
<1>2. Issued' = Issued
  BY DEF Issued
<1>3. next.refresh \in Issued
  BY DEF Issued, TokenInv, OnlyIssued
<1>4. Token!TypeOK'
  BY <1>1 DEF TokenInv, Token!TypeOK
<1>5. spent' \subseteq Issued' /\ settings'.access \in Issued' /\ settings'.refresh \in Issued'
  BY <1>2 DEF TokenInv, OnlyIssued
<1>6. OnlyIssued'
  BY <1>1, <1>2, <1>3, <1>5, IssuedGoesOn
<1>7. SuccessorsUnshared'
  <2>1. ASSUME NEW x \in Messages, message'[x].pc = "persist"
        PROVE  Unshared(x)'
    <3>1. x # m /\ message'[x] = message[x] /\ Unshared(x)
      BY <1>1, <2>1 DEF TokenInv, SuccessorsUnshared
    <3>2. next.refresh # message[x].fresh
      BY <3>1 DEF Unshared
    <3>3. message'[x].fresh \notin spent' \cup {0, settings'.refresh, edit'.refresh}
      BY <3>1 DEF Unshared
    <3>4. ASSUME NEW y \in Messages \ {x}
          PROVE  /\ message'[y].refresh # message'[x].fresh
                 /\ message'[y].pc = "persist" => message'[y].fresh # message'[x].fresh
      <4>1. CASE y = m
        BY <1>1, <3>1, <3>2, <4>1
      <4>2. CASE y # m
        BY <1>1, <3>1, <4>2 DEF Unshared
      <4>3. QED
        BY <4>1, <4>2
    <3>5. QED
      BY <3>3, <3>4 DEF Unshared
  <2>2. QED
    BY <2>1 DEF SuccessorsUnshared
<1>8. StagesFit'
  BY <1>1 DEF TokenInv, StagesFit, StageFits
<1>9. Undisturbed(next) => Undisturbed(message[m])'
  BY <1>1 DEF Undisturbed
<1>10. MeetsNobody'
  BY <1>1, <1>9, AloneGoesOn
<1>11. SuccessorAtHand'
  BY <1>1 DEF TokenInv, SuccessorAtHand
<1>12. QED
  BY <1>4, <1>6, <1>7, <1>8, <1>10, <1>11 DEF TokenInv

(* What is known of a message and of the row.                                *)
LEMMA TokenFacts ==
  ASSUME TokenParameters, TokenInv, NEW m \in Messages
  PROVE  /\ message[m] \in Token!Send /\ StageFits(message[m]) /\ settings \in Token!Row
         /\ message[m].access \in Issued /\ message[m].refresh \in Issued
         /\ message[m].expiry \in Issued /\ message[m].fresh \in Issued
         /\ settings.access \in Issued /\ settings.refresh \in Issued
         /\ settings.expiry \in Issued /\ 0 \in Issued /\ Issued \subseteq Token!Stored
         /\ message[m].pc # "idle" /\ m \notin excused => Undisturbed(message[m])
<1>1. message[m].pc # "idle" => m \in Token!Working
  BY RestingMessage DEF Token!Working
<1>2. message[m].pc # "idle" /\ m \notin excused => Undisturbed(message[m])
  BY <1>1 DEF TokenInv, MeetsNobody
<1>3. Issued \subseteq Token!Stored
  BY DEF Issued, Token!Tokens, Token!Stored, TokenParameters
<1>4. 0 \in Issued
  BY DEF Issued
<1>5. QED
  BY <1>2, <1>3, <1>4 DEF TokenInv, Token!TypeOK, OnlyIssued, StagesFit

LEMMA EndsKeep ==
  ASSUME TokenParameters, TokenInv, NEW m \in Messages,
         Token!ExchangeRefused(m) \/ Token!RecordFailure(m) \/ Token!Log(m) \/ Token!Stop(m)
  PROVE  TokenInv'
<1> USE TokenFacts, RestingMessage
<1>1. CASE Token!ExchangeRefused(m)
  <2>1. PICK next : next = [message[m] EXCEPT !.pc = "failed"]
    OBVIOUS
  <2>2. /\ next \in Token!Send /\ next.pc = "failed" /\ next.access = message[m].access
        /\ next.refresh = message[m].refresh /\ next.expiry = message[m].expiry
        /\ next.fresh = message[m].fresh /\ next.tries = message[m].tries
        /\ next.outcome = message[m].outcome
    BY <2>1 DEF Token!Send
  <2>3. /\ message[m].pc = "refresh" /\ Token!Become(m, next)
        /\ excused' = IF message[m].refresh \in spent THEN excused ELSE excused \cup {m}
        /\ UNCHANGED <<settings, token, spent, edit, lost>>
    BY <1>1, <2>1 DEF Token!ExchangeRefused, Token!Become
  <2>4. StageFits(next)
    BY <2>2, <2>3 DEF StageFits
  <2>5. m \in excused'
    BY <2>3 DEF Undisturbed
  <2>6. QED
    BY <2>2, <2>3, <2>4, <2>5, MessageMoves
<1>2. CASE Token!RecordFailure(m)
  <2>1. PICK next \in Token!Send : next = Token!End("FAILED")
    OBVIOUS
  <2>2. /\ message[m].pc = "failed" /\ Token!Become(m, next)
        /\ settings' = [settings EXCEPT !.status = "REJECTED"]
        /\ UNCHANGED <<token, spent, edit, excused, lost>>
    BY <1>2, <2>1 DEF Token!RecordFailure, Token!Become
  <2>3. /\ settings' \in Token!Row /\ settings'.access = settings.access
        /\ settings'.refresh = settings.refresh /\ settings'.expiry = settings.expiry
    BY <2>2 DEF Token!Row
  <2>4. /\ next.pc = "log" /\ next.access = 0 /\ next.refresh = 0 /\ next.expiry = 0
        /\ next.fresh = 0
        /\ StageFits(next)
    BY <2>1 DEF StageFits
  <2>5. m \in excused'
    BY <2>2 DEF Undisturbed
  <2>6. QED
    BY <2>1, <2>2, <2>3, <2>4, <2>5, MessageMoves
<1>3. CASE Token!Log(m) \/ Token!Stop(m)
  <2>1. PICK next \in Token!Send : next = Token!Idle
    OBVIOUS
  <2>2. /\ Token!Become(m, next) /\ excused' = excused \ {m} /\ message[m] # Token!Idle
        /\ UNCHANGED <<settings, token, spent, edit>>
        /\ lost' = lost \/ lost' = "yes"
        /\ message[m].pc = "persist" => lost' = "yes"
    BY <1>3, <2>1 DEF Token!Log, Token!Stop, Token!Become
  <2>3. /\ next.pc = "idle" /\ next.access = 0 /\ next.refresh = 0 /\ next.expiry = 0
        /\ next.fresh = 0
        /\ StageFits(next)
    BY <2>1 DEF StageFits
  <2>4. QED
    BY <2>1, <2>2, <2>3, MessageMoves
<1>4. QED
  BY <1>1, <1>2, <1>3

LEMMA VerifyKeeps ==
  ASSUME TokenParameters, TokenInv, NEW m \in Messages, Token!Verify(m)
  PROVE  TokenInv'
<1> USE TokenFacts, RestingMessage
<1>1. message[m].pc = "verify" /\ UNCHANGED <<settings, token, spent, edit, excused, lost>>
  BY DEF Token!Verify
<1>2. CASE settings.access = message[m].fresh
  <2>1. PICK next : next = [message[m] EXCEPT !.pc = "send", !.access = settings.access,
                                              !.refresh = settings.refresh,
                                              !.expiry = settings.expiry, !.fresh = 0]
    OBVIOUS
  <2>2. /\ next \in Token!Send /\ next.pc = "send" /\ next.access = settings.access
        /\ next.refresh = settings.refresh /\ next.expiry = settings.expiry
        /\ next.fresh = 0 /\ next.tries = message[m].tries /\ next.outcome = message[m].outcome
    BY <2>1 DEF Token!Send, Token!Row
  <2>3. Token!Become(m, next)
    BY <1>2, <2>1 DEF Token!Verify, Token!Become
  <2>4. StageFits(next)
    BY <1>1, <1>2, <2>2 DEF StageFits
  <2>5. m \notin excused => Undisturbed(next)
    BY <1>1, <1>2, <2>2 DEF Undisturbed, StageFits
  <2>6. QED
    BY <1>1, <2>2, <2>3, <2>4, <2>5, MessageMoves
<1>3. CASE settings.access # message[m].fresh
  <2>1. PICK next \in Token!Send : next = Token!End("FAILED")
    OBVIOUS
  <2>2. Token!Become(m, next)
    BY <1>3, <2>1 DEF Token!Verify, Token!Become
  <2>3. /\ next.pc = "log" /\ next.access = 0 /\ next.refresh = 0 /\ next.expiry = 0
        /\ next.fresh = 0
        /\ StageFits(next)
    BY <2>1 DEF StageFits
  <2>4. m \in excused
    BY <1>1, <1>3 DEF Undisturbed
  <2>5. QED
    BY <1>1, <2>1, <2>2, <2>3, <2>4, MessageMoves
<1>4. QED
  BY <1>2, <1>3

LEMMA DeliverKeeps ==
  ASSUME TokenParameters, TokenInv, NEW m \in Messages, Token!Deliver(m)
  PROVE  TokenInv'
<1> USE TokenFacts, RestingMessage
<1>1. message[m].pc = "send" /\ UNCHANGED <<settings, token, spent, edit, lost>>
  BY DEF Token!Deliver
<1>2. PICK pc \in {"accept", "reject", "log"} :
        /\ pc = "log" => /\ Token!Become(m, Token!End("FAILED"))
                         /\ excused' = excused \cup {m}
        /\ pc # "log" => /\ message' = [message EXCEPT ![m] = [[message[m] EXCEPT !.tries = @ + 1]
                                                                  EXCEPT !.pc = pc]]
                         /\ excused' = excused
                         /\ pc = "reject" => token[message[m].access] # "good"
  BY DEF Token!Deliver, Token!Become
<1>3. CASE pc = "log"
  <2>1. PICK next \in Token!Send : next = Token!End("FAILED")
    OBVIOUS
  <2>2. Token!Become(m, next) /\ excused' = excused \cup {m}
    BY <1>2, <1>3, <2>1 DEF Token!Become
  <2>3. /\ next.pc = "log" /\ next.access = 0 /\ next.refresh = 0 /\ next.expiry = 0
        /\ next.fresh = 0
        /\ StageFits(next)
    BY <2>1 DEF StageFits
  <2>4. QED
    BY <1>1, <2>1, <2>2, <2>3, MessageMoves
<1>4. CASE pc # "log"
  <2>1. PICK next : next = [[message[m] EXCEPT !.tries = @ + 1] EXCEPT !.pc = pc]
    OBVIOUS
  <2>2. message[m].tries \in 0..1 /\ message[m].tries + 1 \in 1..2 /\ message[m].tries + 1 \in 0..2
    BY <1>1 DEF StageFits
  <2>3. /\ next \in Token!Send /\ next.pc = pc /\ next.access = message[m].access
        /\ next.refresh = message[m].refresh /\ next.expiry = message[m].expiry
        /\ next.fresh = message[m].fresh /\ next.tries = message[m].tries + 1
        /\ next.outcome = message[m].outcome
    BY <1>4, <2>1, <2>2 DEF Token!Send
  <2>4. Token!Become(m, next) /\ excused' = excused
    BY <1>2, <1>4, <2>1 DEF Token!Become
  <2>5. StageFits(next)
    BY <1>1, <1>4, <2>2, <2>3 DEF StageFits
  <2>6. m \notin excused => Undisturbed(next)
    BY <1>1, <1>2, <1>4, <2>2, <2>3 DEF Undisturbed
  <2>7. QED
    BY <1>1, <1>4, <2>3, <2>4, <2>5, <2>6, MessageMoves
<1>5. QED
  BY <1>3, <1>4

LEMMA AcceptKeeps ==
  ASSUME TokenParameters, TokenInv, NEW m \in Messages, Token!Accept(m)
  PROVE  TokenInv'
<1> USE TokenFacts, RestingMessage
<1>1. PICK next \in Token!Send : next = Token!End("SENT")
  OBVIOUS
<1>2. /\ message[m].pc = "accept" /\ Token!Become(m, next)
      /\ UNCHANGED <<token, spent, edit, excused, lost>>
  BY <1>1 DEF Token!Accept, Token!Become
<1>3. PICK expiry \in {message[m].expiry, settings.expiry} :
        settings' = [settings EXCEPT !.status = "AVAILABLE", !.expiry = expiry]
  BY DEF Token!Accept
<1>4. /\ settings' \in Token!Row /\ settings'.access = settings.access
      /\ settings'.refresh = settings.refresh /\ settings'.expiry = expiry
  BY <1>3 DEF Token!Row, Token!Send
<1>5. /\ next.pc = "log" /\ next.access = 0 /\ next.refresh = 0 /\ next.expiry = 0 /\ next.fresh = 0
      /\ StageFits(next) /\ Undisturbed(next)
  BY <1>1 DEF StageFits, Undisturbed
<1>6. QED
  BY <1>1, <1>2, <1>3, <1>4, <1>5, MessageMoves

LEMMA RejectKeeps ==
  ASSUME TokenParameters, TokenInv, NEW m \in Messages, Token!Reject(m)
  PROVE  TokenInv'
<1> USE TokenFacts, RestingMessage
<1>1. message[m].pc = "reject" /\ UNCHANGED <<token, spent, edit, excused, lost>>
  BY DEF Token!Reject
<1>2. PICK expiry \in {message[m].expiry, settings.expiry} :
        settings' = [settings EXCEPT !.status = "REJECTED", !.expiry = expiry]
  BY DEF Token!Reject
<1>3. /\ settings' \in Token!Row /\ settings'.access = settings.access
      /\ settings'.refresh = settings.refresh /\ settings'.expiry = expiry
  BY <1>2 DEF Token!Row, Token!Send
<1>4. message[m].access # 0
  BY <1>1 DEF StageFits
<1>5. CASE message[m].tries = 2
  <2>1. PICK next \in Token!Send : next = Token!End("FAILED")
    OBVIOUS
  <2>2. Token!Become(m, next)
    BY <1>5, <2>1 DEF Token!Reject, Token!Become
  <2>3. /\ next.pc = "log" /\ next.access = 0 /\ next.refresh = 0 /\ next.expiry = 0
        /\ next.fresh = 0
        /\ StageFits(next)
    BY <2>1 DEF StageFits
  <2>4. m \in excused
    BY <1>1, <1>5 DEF Undisturbed
  <2>5. QED
    BY <1>1, <1>2, <1>3, <2>1, <2>2, <2>3, <2>4, MessageMoves
<1>6. CASE message[m].tries # 2
  <2>1. PICK next : next = [message[m] EXCEPT !.pc = "refresh"]
    OBVIOUS
  <2>2. /\ next \in Token!Send /\ next.pc = "refresh" /\ next.access = message[m].access
        /\ next.refresh = message[m].refresh /\ next.expiry = message[m].expiry
        /\ next.fresh = message[m].fresh /\ next.tries = message[m].tries
        /\ next.outcome = message[m].outcome
    BY <2>1 DEF Token!Send
  <2>3. Token!Become(m, next)
    BY <1>4, <1>6, <2>1 DEF Token!Reject, Token!MustRefresh, Token!Become
  <2>4. message[m].tries \in 0..1
    BY <1>1, <1>6 DEF StageFits
  <2>5. StageFits(next)
    BY <1>1, <2>2, <2>4 DEF StageFits
  <2>6. m \notin excused => Undisturbed(next)
    BY <1>1, <2>2 DEF Undisturbed
  <2>7. QED
    BY <1>1, <1>2, <1>3, <2>2, <2>3, <2>5, <2>6, MessageMoves
<1>7. QED
  BY <1>5, <1>6

LEMMA BeginKeeps ==
  ASSUME TokenParameters, TokenInv, NEW m \in Messages, Token!Begin(m)
  PROVE  TokenInv'
<1> USE TokenFacts, RestingMessage
<1>1. PICK pc \in {"refresh", "send"} :
        /\ pc = "send" => settings.access # 0
        /\ Token!Become(m, [Token!Idle EXCEPT !.pc = pc, !.access = settings.access,
                                              !.refresh = settings.refresh,
                                              !.expiry = settings.expiry])
  BY DEF Token!Begin, Token!MustRefresh, Token!TokenState, Token!Become
<1>2. PICK next : next = [Token!Idle EXCEPT !.pc = pc, !.access = settings.access,
                                            !.refresh = settings.refresh,
                                            !.expiry = settings.expiry]
  OBVIOUS
<1>3. /\ next \in Token!Send /\ next.pc = pc /\ next.access = settings.access
      /\ next.refresh = settings.refresh /\ next.expiry = settings.expiry
      /\ next.fresh = 0 /\ next.tries = 0 /\ next.outcome = "none"
  BY <1>2 DEF Token!Send, Token!Row, Token!Idle, Token!Resting
<1>4. Token!Become(m, next)
  BY <1>1, <1>2 DEF Token!Become
<1>5. /\ message' \in [Messages -> Token!Send] /\ message'[m] = next
      /\ \A x \in Messages \ {m} : message'[x] = message[x]
  BY <1>3, <1>4, MessageStep
<1>6. message[m] = Token!Idle /\ UNCHANGED <<settings, token, spent, edit, lost>>
  BY DEF Token!Begin
<1>7. \/ Token!Working \cup {m} \subseteq excused' /\ excused' = excused \cup Token!Working \cup {m}
      \/ /\ Token!Working = {} /\ edit = Token!NoEdit
         /\ settings.refresh \notin spent \cup {0} /\ excused' = excused
      \/ Token!Working = {} /\ excused' = excused \cup {m}
  BY DEF Token!Begin
<1>8. Token!Working' \subseteq Token!Working \cup {m}
  BY <1>5 DEF Token!Working
<1>9. Token!TypeOK'
  BY <1>5, <1>6, <1>7 DEF TokenInv, Token!TypeOK, Token!Working
<1>10. Issued' = Issued
  BY <1>6 DEF Issued
<1>11. OnlyIssued'
  BY <1>3, <1>5, <1>6, <1>10, IssuedGoesOn DEF TokenInv, OnlyIssued
<1>12. SuccessorsUnshared'
  <2>1. ASSUME NEW x \in Messages, message'[x].pc = "persist"
        PROVE  Unshared(x)'
    <3>1. x # m /\ message'[x] = message[x] /\ Unshared(x)
      BY <1>1, <1>3, <1>5, <2>1 DEF TokenInv, SuccessorsUnshared
    <3>2. message'[x].fresh \notin spent' \cup {0, settings'.refresh, edit'.refresh}
      BY <1>6, <3>1 DEF Unshared
    <3>3. ASSUME NEW y \in Messages \ {x}
          PROVE  /\ message'[y].refresh # message'[x].fresh
                 /\ message'[y].pc = "persist" => message'[y].fresh # message'[x].fresh
      <4>1. CASE y = m
        BY <1>3, <1>5, <3>1, <4>1 DEF Unshared
      <4>2. CASE y # m
        BY <1>5, <3>1, <4>2 DEF Unshared
      <4>3. QED
        BY <4>1, <4>2
    <3>4. QED
      BY <3>2, <3>3 DEF Unshared
  <2>2. QED
    BY <2>1 DEF SuccessorsUnshared
<1>13. StagesFit'
  BY <1>1, <1>3, <1>5 DEF TokenInv, StagesFit, StageFits
<1>14. MeetsNobody'
  <2>1. ASSUME NEW x \in Token!Working' \ excused'
        PROVE  Token!Working' = {x} /\ edit' = Token!NoEdit /\ Undisturbed(message[x])'
    <3>1. /\ Token!Working = {} /\ edit = Token!NoEdit
          /\ settings.refresh \notin spent \cup {0} /\ x = m
      BY <1>7, <1>8, <2>1
    <3>2. Undisturbed(message[m])'
      BY <1>1, <1>3, <1>5, <1>6, <3>1 DEF Undisturbed
    <3>3. QED
      BY <1>6, <1>8, <2>1, <3>1, <3>2
  <2>2. QED
    BY <2>1 DEF MeetsNobody
<1>15. SuccessorAtHand'
  BY <1>5, <1>6 DEF TokenInv, SuccessorAtHand
<1>16. QED
  BY <1>9, <1>11, <1>12, <1>13, <1>14, <1>15 DEF TokenInv

LEMMA ExchangeKeeps ==
  ASSUME TokenParameters, TokenInv, NEW m \in Messages, Token!Exchange(m)
  PROVE  TokenInv'
<1> USE TokenFacts, RestingMessage
<1>1. /\ message[m].pc = "refresh" /\ message[m].refresh \notin spent \cup {0}
      /\ UNCHANGED <<settings, edit>>
  BY DEF Token!Exchange
<1>2. PICK n \in Token!Fresh :
        /\ token' = [token EXCEPT ![n] = "good"]
        /\ spent' = spent \cup {message[m].refresh}
        /\ \/ /\ Token!Become(m, [message[m] EXCEPT !.pc = "persist", !.fresh = n])
              /\ UNCHANGED <<excused, lost>>
           \/ /\ Token!Become(m, [message[m] EXCEPT !.pc = "failed"])
              /\ excused' = excused \cup {m}
              /\ lost' = "yes"
  BY Zenon DEF Token!Exchange
<1>3. n \in Token!Tokens /\ token[n] = "unissued"
  BY DEF Token!Fresh
<1>4. n \in Token!Stored /\ n # 0 /\ n \notin Issued
  BY <1>3 DEF Token!Tokens, Token!Stored, TokenParameters, Issued
<1>5. PICK next \in Token!Send :
        /\ Token!Become(m, next) /\ next.access = message[m].access
        /\ next.refresh = message[m].refresh /\ next.expiry = message[m].expiry
        /\ next.tries = message[m].tries /\ next.outcome = message[m].outcome
        /\ \/ next.pc = "persist" /\ next.fresh = n /\ UNCHANGED <<excused, lost>>
           \/ /\ next.pc = "failed" /\ next.fresh = message[m].fresh
              /\ excused' = excused \cup {m} /\ lost' = "yes"
  <2>1. CASE /\ Token!Become(m, [message[m] EXCEPT !.pc = "persist", !.fresh = n])
             /\ UNCHANGED <<excused, lost>>
    <3>1. PICK next : next = [message[m] EXCEPT !.pc = "persist", !.fresh = n]
      OBVIOUS
    <3>2. /\ next \in Token!Send /\ next.pc = "persist" /\ next.access = message[m].access
          /\ next.refresh = message[m].refresh /\ next.expiry = message[m].expiry
          /\ next.fresh = n /\ next.tries = message[m].tries /\ next.outcome = message[m].outcome
      BY <1>4, <3>1 DEF Token!Send
    <3>3. Token!Become(m, next)
      BY <2>1, <3>1 DEF Token!Become
    <3>4. QED
      BY <2>1, <3>2, <3>3
  <2>2. CASE /\ Token!Become(m, [message[m] EXCEPT !.pc = "failed"])
             /\ excused' = excused \cup {m} /\ lost' = "yes"
    <3>1. PICK next : next = [message[m] EXCEPT !.pc = "failed"]
      OBVIOUS
    <3>2. /\ next \in Token!Send /\ next.pc = "failed" /\ next.access = message[m].access
          /\ next.refresh = message[m].refresh /\ next.expiry = message[m].expiry
          /\ next.fresh = message[m].fresh /\ next.tries = message[m].tries
          /\ next.outcome = message[m].outcome
      BY <3>1 DEF Token!Send
    <3>3. Token!Become(m, next)
      BY <2>2, <3>1 DEF Token!Become
    <3>4. QED
      BY <2>2, <3>2, <3>3
  <2>3. QED
    BY <1>2, <2>1, <2>2
<1>7. /\ message' \in [Messages -> Token!Send] /\ message'[m] = next
      /\ \A x \in Messages \ {m} : message'[x] = message[x]
  BY <1>5, MessageStep
<1>8. /\ token' \in [Token!Tokens -> {"unissued", "good", "expired", "revoked"}]
      /\ token'[n] = "good" /\ \A x \in Token!Tokens \ {n} : token'[x] = token[x]
  BY <1>2, <1>3 DEF TokenInv, Token!TypeOK
<1>9. Issued \subseteq Issued' /\ n \in Issued'
  BY <1>3, <1>8 DEF Issued
<1>10. spent' \subseteq Token!Tokens /\ n \notin spent' /\ spent' \subseteq Issued'
  BY <1>1, <1>2, <1>3, <1>4, <1>9 DEF TokenInv, Token!TypeOK, OnlyIssued, Issued
<1>11. Token!TypeOK'
  BY <1>1, <1>5, <1>7, <1>8, <1>10 DEF TokenInv, Token!TypeOK
<1>12. OnlyIssued'
  BY <1>1, <1>4, <1>5, <1>7, <1>9, <1>10, IssuedGoesOn
<1>13. SuccessorsUnshared'
  <2>1. ASSUME NEW x \in Messages, message'[x].pc = "persist"
        PROVE  Unshared(x)'
    <3>1. CASE x = m
      <4>1. message'[x].fresh = n
        BY <1>5, <1>7, <2>1, <3>1
      <4>2. n \notin spent' \cup {0, settings'.refresh, edit'.refresh}
        BY <1>1, <1>4, <1>10 DEF TokenInv, OnlyIssued
      <4>3. \A y \in Messages \ {m} : message'[y].refresh # n /\ message'[y].fresh # n
        BY <1>4, <1>7
      <4>4. QED
        BY <3>1, <4>1, <4>2, <4>3 DEF Unshared
    <3>2. CASE x # m
      <4>1. message'[x] = message[x] /\ Unshared(x)
        BY <1>7, <2>1, <3>2 DEF TokenInv, SuccessorsUnshared
      <4>2. message'[x].fresh \notin spent' \cup {0, settings'.refresh, edit'.refresh}
        BY <1>1, <1>2, <3>2, <4>1 DEF Unshared
      <4>3. ASSUME NEW y \in Messages \ {x}
            PROVE  /\ message'[y].refresh # message'[x].fresh
                   /\ message'[y].pc = "persist" => message'[y].fresh # message'[x].fresh
        <5>1. CASE y = m
          BY <1>2, <1>4, <1>5, <1>7, <3>2, <4>1, <5>1 DEF Unshared
        <5>2. CASE y # m
          BY <1>7, <4>1, <5>2 DEF Unshared
        <5>3. QED
          BY <5>1, <5>2
      <4>4. QED
        BY <4>2, <4>3 DEF Unshared
    <3>3. QED
      BY <3>1, <3>2
  <2>2. QED
    BY <2>1 DEF SuccessorsUnshared
<1>14. StagesFit'
  BY <1>1, <1>5, <1>7 DEF TokenInv, StagesFit, StageFits
<1>15. m \notin excused' => m \notin excused /\ Undisturbed(message[m])'
  BY <1>1, <1>2, <1>3, <1>5, <1>7, <1>8 DEF Undisturbed
<1>16. message[m] # Token!Idle
  BY <1>1
<1>17. MeetsNobody'
  BY <1>1, <1>5, <1>7, <1>15, <1>16, AloneGoesOn
<1>18. SuccessorAtHand'
  BY <1>1, <1>2, <1>5, <1>7 DEF TokenInv, SuccessorAtHand
<1>19. QED
  BY <1>11, <1>12, <1>13, <1>14, <1>17, <1>18 DEF TokenInv

LEMMA PersistKeeps ==
  ASSUME TokenParameters, TokenInv, NEW m \in Messages, Token!Persist(m)
  PROVE  TokenInv'
<1> USE TokenFacts, RestingMessage
<1>1. PICK n \in Token!Stored : n = message[m].fresh
  BY DEF Token!Send
<1>2. /\ message[m].pc = "persist" /\ lost' = "no" /\ UNCHANGED <<token, spent, edit, excused>>
  BY DEF Token!Persist
<1>3. PICK next : next = [message[m] EXCEPT !.pc = "verify"]
  OBVIOUS
<1>4. /\ next \in Token!Send /\ next.pc = "verify" /\ next.access = message[m].access
      /\ next.refresh = message[m].refresh /\ next.expiry = message[m].expiry
      /\ next.fresh = n /\ next.tries = message[m].tries /\ next.outcome = message[m].outcome
  BY <1>1, <1>3 DEF Token!Send
<1>5. Token!Become(m, next)
  BY <1>3 DEF Token!Persist, Token!Become
<1>6. PICK expiry \in {0, n} :
        settings' = [access |-> n, refresh |-> n, expiry |-> expiry, status |-> "AVAILABLE"]
  BY <1>1 DEF Token!Persist
<1>7. /\ settings' \in Token!Row /\ settings'.access = n /\ settings'.refresh = n
      /\ settings'.expiry \in {0, n}
  BY <1>6 DEF Token!Row
<1>8. /\ message' \in [Messages -> Token!Send] /\ message'[m] = next
      /\ \A x \in Messages \ {m} : message'[x] = message[x]
  BY <1>4, <1>5, MessageStep
<1>9. Unshared(m) /\ n \notin spent /\ n # 0
  BY <1>1, <1>2 DEF TokenInv, SuccessorsUnshared, Unshared
<1>10. Issued' = Issued
  BY <1>2 DEF Issued
<1>11. Token!TypeOK'
  BY <1>2, <1>7, <1>8 DEF TokenInv, Token!TypeOK
<1>12. OnlyIssued'
  BY <1>1, <1>2, <1>4, <1>7, <1>8, <1>10, IssuedGoesOn DEF TokenInv, OnlyIssued
<1>13. SuccessorsUnshared'
  <2>1. ASSUME NEW x \in Messages, message'[x].pc = "persist"
        PROVE  Unshared(x)'
    <3>1. x # m /\ message'[x] = message[x] /\ Unshared(x)
      BY <1>4, <1>8, <2>1 DEF TokenInv, SuccessorsUnshared
    <3>2. message[x].fresh # n
      BY <1>1, <1>2, <3>1 DEF Unshared
    <3>3. message'[x].fresh \notin spent' \cup {0, settings'.refresh, edit'.refresh}
      BY <1>2, <1>7, <3>1, <3>2 DEF Unshared
    <3>4. ASSUME NEW y \in Messages \ {x}
          PROVE  /\ message'[y].refresh # message'[x].fresh
                 /\ message'[y].pc = "persist" => message'[y].fresh # message'[x].fresh
      <4>1. CASE y = m
        BY <1>4, <1>8, <3>1, <4>1 DEF Unshared
      <4>2. CASE y # m
        BY <1>8, <3>1, <4>2 DEF Unshared
      <4>3. QED
        BY <4>1, <4>2
    <3>5. QED
      BY <3>3, <3>4 DEF Unshared
  <2>2. QED
    BY <2>1 DEF SuccessorsUnshared
<1>14. StagesFit'
  BY <1>2, <1>4, <1>8, <1>9 DEF TokenInv, StagesFit, StageFits
<1>15. m \notin excused' => m \notin excused /\ Undisturbed(message[m])'
  BY <1>1, <1>2, <1>4, <1>7, <1>8, <1>9 DEF Undisturbed
<1>16. message[m] # Token!Idle
  BY <1>2
<1>17. MeetsNobody'
  BY <1>2, <1>8, <1>15, <1>16, AloneGoesOn
<1>18. SuccessorAtHand'
  BY <1>2, <1>7, <1>9 DEF SuccessorAtHand
<1>19. QED
  BY <1>11, <1>12, <1>13, <1>14, <1>17, <1>18 DEF TokenInv

LEMMA BeginEditKeeps ==
  ASSUME TokenParameters, TokenInv, Token!BeginEdit
  PROVE  TokenInv'
<1>1. /\ edit' = [pc |-> "write", access |-> settings.access, refresh |-> settings.refresh,
                  expiry |-> settings.expiry]
      /\ excused' = excused \cup Token!Working
      /\ UNCHANGED <<settings, token, spent, message, lost>>
  BY DEF Token!BeginEdit
<1>2. edit' \in Token!Edit
  BY <1>1 DEF Token!Edit, Token!Row, TokenInv, Token!TypeOK
<1>3. Token!TypeOK'
  BY <1>1, <1>2 DEF TokenInv, Token!TypeOK, Token!Working
<1>4. OnlyIssued'
  BY <1>1 DEF TokenInv, OnlyIssued, Issued
<1>5. SuccessorsUnshared'
  BY <1>1 DEF TokenInv, SuccessorsUnshared, Unshared
<1>6. StagesFit' /\ SuccessorAtHand'
  BY <1>1 DEF TokenInv, StagesFit, StageFits, SuccessorAtHand
<1>7. MeetsNobody'
  BY <1>1 DEF MeetsNobody, Token!Working
<1>8. QED
  BY <1>3, <1>4, <1>5, <1>6, <1>7 DEF TokenInv

LEMMA TokenDiesKeeps ==
  ASSUME TokenParameters, TokenInv, NEW n \in Token!Tokens, NEW state \in {"expired", "revoked"},
         Token!TokenDies(n, state)
  PROVE  TokenInv'
<1>1. /\ token[n] = "good" /\ token' = [token EXCEPT ![n] = state]
      /\ excused' = excused \cup Token!Working
      /\ UNCHANGED <<settings, spent, message, edit, lost>>
  BY DEF Token!TokenDies
<1>2. Issued' = Issued
  BY <1>1 DEF TokenInv, Token!TypeOK, Issued
<1>3. Token!TypeOK'
  BY <1>1 DEF TokenInv, Token!TypeOK, Token!Working
<1>4. OnlyIssued'
  BY <1>1, <1>2 DEF TokenInv, OnlyIssued
<1>5. SuccessorsUnshared'
  BY <1>1 DEF TokenInv, SuccessorsUnshared, Unshared
<1>6. StagesFit' /\ SuccessorAtHand'
  BY <1>1 DEF TokenInv, StagesFit, StageFits, SuccessorAtHand
<1>7. MeetsNobody'
  BY <1>1 DEF MeetsNobody, Token!Working
<1>8. QED
  BY <1>3, <1>4, <1>5, <1>6, <1>7 DEF TokenInv

(* An edit is written, with a new pair or without: nobody works that has not *)
(* met it.                                                                   *)
LEMMA WriteKeeps ==
  ASSUME TokenParameters, TokenInv, NEW pasted \in SUBSET {"access", "refresh"},
         Token!Write(pasted)
  PROVE  TokenInv'
<1>1. /\ edit.pc = "write" /\ edit' = Token!NoEdit /\ UNCHANGED <<spent, message, excused>>
      /\ lost' = IF settings'.refresh \in spent THEN "yes" ELSE "no"
  BY DEF Token!Write
<1>2. PICK n \in Token!Stored :
        /\ n = 0 => pasted = {}
        /\ n # 0 => n \in Token!Tokens /\ token[n] = "unissued"
        /\ token' = [m \in Token!Tokens |-> IF m = n THEN "good" ELSE token[m]]
        /\ settings' = [access |-> IF "access" \in pasted THEN n ELSE edit.access,
                        refresh |-> IF "refresh" \in pasted THEN n ELSE edit.refresh,
                        expiry |-> IF "access" \in pasted THEN 0 ELSE edit.expiry,
                        status |-> IF "access" \in pasted THEN "AVAILABLE" ELSE settings.status]
  <2>1. \A n \in Token!Fresh : /\ n \in Token!Tokens /\ token[n] = "unissued"
                               /\ n \in Token!Stored /\ n # 0
    BY DEF Token!Fresh, Token!Tokens, Token!Stored, TokenParameters
  <2>2. 0 \in Token!Stored
    BY DEF Token!Stored, TokenParameters
  <2>3. QED
    BY <2>1, <2>2 DEF Token!Write
<1>3. /\ settings' \in Token!Row
      /\ settings'.access \in {n, edit.access} /\ settings'.refresh \in {n, edit.refresh}
      /\ settings'.expiry \in {0, edit.expiry}
      /\ n = 0 => settings'.refresh = edit.refresh
  <2>1. /\ edit.access \in Token!Stored /\ edit.refresh \in Token!Stored
        /\ edit.expiry \in Token!Stored /\ 0 \in Token!Stored
        /\ settings.status \in {"null", "AVAILABLE", "REJECTED"}
    BY DEF TokenInv, Token!TypeOK, Token!Edit, Token!Row, Token!Stored, TokenParameters
  <2>2. QED
    BY <1>2, <2>1 DEF Token!Row
<1>4. /\ token' \in [Token!Tokens -> {"unissued", "good", "expired", "revoked"}]
      /\ \A x \in Token!Tokens : x # n => token'[x] = token[x]
      /\ n # 0 => token'[n] = "good"
  BY <1>2 DEF TokenInv, Token!TypeOK
<1>5. Issued \subseteq Issued' /\ n \in Issued' /\ 0 \in Issued'
  BY <1>2, <1>4 DEF Issued
<1>6. n # 0 => n \notin Issued
  BY <1>2 DEF Issued
<1>7. /\ Token!NoEdit \in Token!Edit /\ Token!NoEdit.access = 0 /\ Token!NoEdit.refresh = 0
      /\ Token!NoEdit.expiry = 0 /\ Token!NoEdit.pc = "idle"
  BY DEF Token!NoEdit, Token!Edit, Token!Stored, TokenParameters
<1>8. Token!TypeOK'
  BY <1>1, <1>3, <1>4, <1>7 DEF TokenInv, Token!TypeOK
<1>9. OnlyIssued'
  <2>1. /\ settings'.access \in Issued' /\ settings'.refresh \in Issued'
        /\ settings'.expiry \in Issued'
    BY <1>3, <1>5 DEF TokenInv, OnlyIssued
  <2>2. edit'.access \in Issued' /\ edit'.refresh \in Issued' /\ edit'.expiry \in Issued'
    BY <1>1, <1>5, <1>7
  <2>3. /\ spent' \subseteq Issued'
        /\ \A m \in Messages :
             /\ message'[m].access \in Issued' /\ message'[m].refresh \in Issued'
             /\ message'[m].expiry \in Issued' /\ message'[m].fresh \in Issued'
    BY <1>1, <1>5 DEF TokenInv, OnlyIssued
  <2>4. QED
    BY <2>1, <2>2, <2>3 DEF OnlyIssued
<1>10. SuccessorsUnshared'
  <2>1. ASSUME NEW x \in Messages, message[x].pc = "persist"
        PROVE  Unshared(x)'
    <3>1. Unshared(x) /\ message[x].fresh \in Issued
      BY <2>1 DEF TokenInv, SuccessorsUnshared, OnlyIssued
    <3>2. message[x].fresh \notin {0, settings'.refresh}
      BY <1>3, <1>6, <3>1 DEF Unshared
    <3>3. QED
      BY <1>1, <1>7, <3>1, <3>2 DEF Unshared
  <2>2. QED
    BY <1>1, <2>1 DEF SuccessorsUnshared
<1>11. StagesFit' /\ SuccessorAtHand'
  BY <1>1 DEF TokenInv, StagesFit, StageFits, SuccessorAtHand
<1>12. Token!Working \subseteq excused
  BY <1>1, <1>7 DEF TokenInv, MeetsNobody
<1>13. MeetsNobody'
  BY <1>1, <1>12 DEF MeetsNobody, Token!Working
<1>14. QED
  BY <1>8, <1>9, <1>10, <1>11, <1>13 DEF TokenInv

LEMMA TokenKept == ASSUME TokenParameters PROVE Token!Spec => []TokenInv
<1>1. Token!Init => TokenInv
  <2> SUFFICES ASSUME Token!Init PROVE TokenInv
    OBVIOUS
  <2> USE DEF Token!Init
  <2>1. 1 \in Token!Tokens /\ 1 \in Token!Stored /\ 0 \in Token!Stored
    BY DEF TokenParameters, Token!Tokens, Token!Stored
  <2>2. 0 \in Issued /\ 1 \in Issued
    BY <2>1 DEF Issued
  <2>3. settings \in Token!Row /\ settings.access \in {0, 1} /\ settings.refresh = 1
        /\ settings.expiry = 0
    BY <2>1 DEF Token!Row
  <2>4. /\ Token!NoEdit \in Token!Edit /\ Token!NoEdit.access = 0 /\ Token!NoEdit.refresh = 0
        /\ Token!NoEdit.expiry = 0
    BY <2>1 DEF Token!NoEdit, Token!Edit
  <2>5. \A m \in Messages : message[m] = Token!Idle
    OBVIOUS
  <2>6. Token!TypeOK
    BY <2>3, <2>4, RestingMessage DEF Token!TypeOK
  <2>7. OnlyIssued
    BY <2>2, <2>3, <2>4, <2>5, RestingMessage DEF OnlyIssued
  <2>8. SuccessorsUnshared /\ StagesFit /\ MeetsNobody /\ SuccessorAtHand
    BY <2>5, RestingMessage DEF SuccessorsUnshared, StagesFit, StageFits, MeetsNobody,
       Token!Working,
                                SuccessorAtHand
  <2>9. QED
    BY <2>6, <2>7, <2>8 DEF TokenInv
<1>2. TokenInv /\ [Token!Next]_Token!vars => TokenInv'
  <2> SUFFICES ASSUME TokenInv, [Token!Next]_Token!vars PROVE TokenInv'
    OBVIOUS
  <2>1. CASE UNCHANGED Token!vars
    BY <2>1 DEF Token!vars, TokenInv, Token!TypeOK, OnlyIssued, Issued, SuccessorsUnshared,
       Unshared,
                StagesFit, StageFits, MeetsNobody, Undisturbed, Token!Working, SuccessorAtHand
  <2>2. QED
    BY <2>1, BeginKeeps, ExchangeKeeps, EndsKeep, PersistKeeps, VerifyKeeps, DeliverKeeps,
       AcceptKeeps,
       RejectKeeps, BeginEditKeeps, WriteKeeps, TokenDiesKeeps DEF Token!Next
<1>3. QED
  BY <1>1, <1>2, PTL DEF Token!Spec

(* A message that meets nobody is sent, whatever the row says of the token   *)
(* and whatever has become of it, for any number of messages and tokens;     *)
(* and the refresh token that takes is never a spent one, unless its         *)
(* successor was lost.                                                       *)
THEOREM DeadTokensAreAlwaysReplaced ==
  ASSUME TokenParameters
  PROVE  PartsSpec => []DeadTokensAreReplaced
<1>1. TokenInv => Token!DeadTokensAreReplaced
  <2> SUFFICES ASSUME TokenInv PROVE Token!DeadTokensAreReplaced
    OBVIOUS
  <2>1. ASSUME NEW m \in Messages, message[m].outcome = "FAILED"
        PROVE  m \in excused
    <3>1. message[m].pc = "log"
      BY <2>1 DEF TokenInv, StagesFit, StageFits
    <3>2. ~Undisturbed(message[m])
      BY <2>1, <3>1 DEF Undisturbed
    <3>3. QED
      BY <3>1, <3>2, TokenFacts
  <2>2. QED
    BY <2>1 DEF TokenInv, SuccessorAtHand, Token!DeadTokensAreReplaced
<1>2. Token!Spec => []Token!DeadTokensAreReplaced
  BY <1>1, TokenKept, PTL
<1>3. QED
  BY <1>2, PartsAreTheirSpecs, PTL DEF DeadTokensAreReplaced

-----------------------------------------------------------------------------
(* Every part keeps its types, for every value of the constants.             *)
THEOREM TypesOfParts ==
  ASSUME ZaloParameters, TokenParameters, PlantParameters, TicketTimes
  PROVE  PartsSpec => []TypesOK
<1>1. Zalo!Spec => []Zalo!TypeOK
  BY Zalo!TypeCorrect DEF ZaloParameters
<1>2. TokenInv => Token!TypeOK
  BY DEF TokenInv
<1>3. TypeOK /\ Zalo!TypeOK /\ Token!TypeOK /\ Month!TypeOK /\ Plant!TypeOK /\ Support!TypeOK =>
        TypesOK
  BY DEF TypesOK
<1>4. QED
  BY <1>1, <1>2, <1>3, TypeCorrect, TokenKept, MonthTypes, PlantTypes, SupportTypes,
     PartsAreTheirSpecs, PTL
=============================================================================
