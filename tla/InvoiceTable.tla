---------------------------- MODULE InvoiceTable ----------------------------
(***************************************************************************)
(* Rows of the table Invoice (backend/prisma/schema.prisma) that payments  *)
(* and monthly billing both read and write.  Money is a natural number of  *)
(* the smallest unit; number, VAT split, items and texts are left out      *)
(* because nothing below depends on them.                                  *)
(***************************************************************************)
EXTENDS Naturals

CONSTANTS
  Invoices,      \* primary keys an invoice row can have
  MaxTotal,      \* largest total an invoice is created with
  MaxMonth       \* billing months are 1..MaxMonth

ASSUME InvoiceTableAssumption ==
  /\ MaxTotal \in Nat \ {0}
  /\ MaxMonth \in Nat \ {0}

InvoiceStatus ==
  {"DRAFT", "PENDING_REVIEW", "ISSUED", "PAID", "PARTIAL", "OVERDUE", "CANCELLED"}

InvoiceRow ==
  [status : InvoiceStatus \cup {"ABSENT"},
   total  : 0..MaxTotal,
   paid   : 0..MaxTotal,
   month  : 0..MaxMonth]

(* The key is not in the table. *)
NoRow == [status |-> "ABSENT", total |-> 0, paid |-> 0, month |-> 0]

(* What payments write: invoice.update({ data: { paidAmount, status } }). *)
Credited(row, amount, status) == [row EXCEPT !.paid = amount, !.status = status]

(* refreshOverdueStatuses: one updateMany over the whole table, on the rows *)
(* whose dueDate has passed by then (late).                                 *)
CanBeLateThoughPaid(row) ==      \* faulty variant of CanBeLate
  row.status \in {"ISSUED", "PARTIAL", "PAID"}
CanBeLate(row) == row.status \in {"ISSUED", "PARTIAL"}

SweptOverdue(table, late) ==
  [i \in DOMAIN table |->
     IF i \in late THEN [table[i] EXCEPT !.status = "OVERDUE"] ELSE table[i]]

(* isFinalizedInvoiceStatus: the customer has been asked for money. *)
FinalizedStatus == {"ISSUED", "PAID", "PARTIAL", "OVERDUE"}

(* MUTABLE_INVOICE_STATUSES: recalculating the month may rewrite the invoice. *)
MutableStatus == {"DRAFT", "PENDING_REVIEW", "ISSUED", "OVERDUE", "CANCELLED"}
=============================================================================
