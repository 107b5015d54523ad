----------------------------- MODULE MonthRepair ----------------------------
(***************************************************************************)
(* The repair of provider months (backend/src/data-repair): a command line  *)
(* tool that quarantines the monthly energy records of 2000 and 2001 which  *)
(* an old parser made out of bare month numbers, together with the billing  *)
(* record of the month and its draft invoice.                               *)
(*                                                                          *)
(* It reads the energy records, then the billing records with their         *)
(* invoices, makes a plan of both and applies it in one transaction, while  *)
(* the platform may go on working on the same rows.  Months are the months  *)
(* of those two years of one system, the one in the tool's scope; a month   *)
(* has one energy record and at most one billing record, and invoice[m] is  *)
(* the last invoice made for it.                                            *)
(***************************************************************************)
CONSTANTS
  Months,
  Meanwhile    \* the platform changes the rows while the tool runs

VARIABLES
  energy,      \* MonthlyEnergyRecord of every month
  billing,     \* MonthlyPvBilling of every month
  invoice,     \* status of the invoice of every month
  tool         \* local state of the tool

vars == <<energy, billing, invoice, tool>>

-----------------------------------------------------------------------------
YesNo == {"yes", "no"}
InvoiceStatus ==
  {"DRAFT", "PENDING_REVIEW", "ISSUED", "PAID", "PARTIAL", "OVERDUE", "CANCELLED"}

(* source: provider stands for the two sources of INVALID_SOLARMAN_SOURCES,  *)
(* manual for AUTHORITATIVE_MANUAL_SOURCES.  signature: the raw payload has   *)
(* the bare month.  early: the year precedes the history of the system.      *)
EnergyRow ==
  [state : {"live", "deleted"}, source : {"provider", "manual", "other"},
   station : {"scope", "other"}, signature : YesNo, early : YesNo, edited : YesNo]

BillingRow ==
  [state : {"none", "live", "deleted"}, source : {"provider", "manual"}, override : YesNo,
   linked : YesNo]

NoBilling == [state |-> "none", source |-> "provider", override |-> "no", linked |-> "no"]

(* seen: the months read from the energy table; bills, status: what was read  *)
(* of their billing records and invoices, "none" when there was nothing.      *)
Tool ==
  [pc : {"idle", "billings", "apply", "done"}, seen : SUBSET Months,
   bills : [Months -> BillingRow], status : [Months -> InvoiceStatus \cup {"none"}]]

Idle ==
  [pc |-> "idle", seen |-> {}, bills |-> [m \in Months |-> NoBilling],
   status |-> [m \in Months |-> "none"]]

-----------------------------------------------------------------------------
(* isConfirmedInvalidProviderMonth, with the conditions of the query and the *)
(* scope of the tool *)
ConfirmedInvalid(row) ==
  /\ row.state = "live" /\ row.source = "provider" /\ row.station = "scope"
  /\ row.edited = "no"
  /\ row.signature = "yes" /\ row.early = "yes"

ManuallyLocked(row) == row.source = "manual" \/ row.override = "yes"
ManualData(row) == ManuallyLocked(row)

FinancialLocked == {"ISSUED", "OVERDUE", "PAID", "PARTIAL"}

(* Faulty variant of Action: OVERDUE is mutable, as in MUTABLE_INVOICE_STATUSES. *)
ActionOnOverdue(row, status) ==
  CASE ManualData(row) -> "PRESERVE_MANUAL_DATA"
    [] ~ManualData(row) /\ status \in FinancialLocked \ {"OVERDUE"} ->
         "NEEDS_MANUAL_FINANCIAL_REVIEW"
    [] ~ManualData(row) /\ status \in {"DRAFT", "PENDING_REVIEW", "OVERDUE"} ->
         "CANCEL_DRAFT_AND_SOFT_DELETE"
    [] OTHER -> "SOFT_DELETE_INVALID_PROVIDER_DATA"

(* buildProviderMonthRepairPlan, for a month in the plan *)
Action(row, status) ==
  CASE ManualData(row) -> "PRESERVE_MANUAL_DATA"
    [] ~ManualData(row) /\ status \in FinancialLocked -> "NEEDS_MANUAL_FINANCIAL_REVIEW"
    [] ~ManualData(row) /\ status \in {"DRAFT", "PENDING_REVIEW"} -> "CANCEL_DRAFT_AND_SOFT_DELETE"
    [] OTHER -> "SOFT_DELETE_INVALID_PROVIDER_DATA"

Planned(m) == Action(tool.bills[m], tool.status[m])

Actionable ==
  {m \in tool.seen :
     Planned(m) \in {"SOFT_DELETE_INVALID_PROVIDER_DATA", "CANCEL_DRAFT_AND_SOFT_DELETE"}}
ToCancel == {m \in Actionable : Planned(m) = "CANCEL_DRAFT_AND_SOFT_DELETE"}

-----------------------------------------------------------------------------
(* The tool *)

ReadEnergy ==
  /\ tool.pc = "idle"
  /\ tool' = [Idle EXCEPT !.pc = "billings",
                          !.seen = {m \in Months : ConfirmedInvalid(energy[m])}]
  /\ UNCHANGED <<energy, billing, invoice>>

(* deletedAt: null, include: invoice *)
ReadBillings ==
  LET Live(m) == billing[m].state = "live" IN
  /\ tool.pc = "billings"
  /\ tool' = [tool EXCEPT
       !.pc = "apply",
       !.bills = [m \in Months |-> IF Live(m) THEN billing[m] ELSE NoBilling],
       !.status = [m \in Months |->
                     IF Live(m) /\ billing[m].linked = "yes" THEN invoice[m] ELSE "none"]]
  /\ UNCHANGED <<energy, billing, invoice>>

Quarantine(row) == [row EXCEPT !.state = "deleted"]
Detached(row) == [Quarantine(row) EXCEPT !.linked = "no"]

(* Faulty variant of Apply: the draft is detached but not cancelled. *)
ApplyKeepsDraft ==
  /\ tool.pc = "apply"
  /\ billing' = [m \in Months |->
                   IF m \in Actionable /\ tool.bills[m].state = "live"
                   THEN Detached(billing[m]) ELSE billing[m]]
  /\ energy' = [m \in Months |-> IF m \in Actionable THEN Quarantine(energy[m]) ELSE energy[m]]
  /\ tool' = [tool EXCEPT !.pc = "done"]
  /\ UNCHANGED invoice

(* executeProviderMonthRepairPlan: the rows are addressed by id, without a    *)
(* look at what has become of them. *)
Apply ==
  /\ tool.pc = "apply"
  /\ invoice' = [m \in Months |-> IF m \in ToCancel THEN "CANCELLED" ELSE invoice[m]]
  /\ billing' = [m \in Months |->
                   IF m \in Actionable /\ tool.bills[m].state = "live"
                   THEN Detached(billing[m]) ELSE billing[m]]
  /\ energy' = [m \in Months |-> IF m \in Actionable THEN Quarantine(energy[m]) ELSE energy[m]]
  /\ tool' = [tool EXCEPT !.pc = "done"]

(* A dry run, a transaction that fails, or the tool after its work: it can be *)
(* run again. *)
Quit ==
  /\ tool.pc # "idle"
  /\ tool' = Idle
  /\ UNCHANGED <<energy, billing, invoice>>

-----------------------------------------------------------------------------
(* The platform *)

Live(m) == billing[m].state = "live"

(* update: an administrator overrides the kWh of the month. *)
Override(m) ==
  /\ Live(m) /\ billing[m].override = "no"
  /\ billing' = [billing EXCEPT ![m].override = "yes"]
  /\ UNCHANGED <<energy, invoice, tool>>

(* sync: a billing record appears for a month that has data. *)
NewBilling(m) ==
  /\ billing[m].state = "none" /\ energy[m].state = "live"
  /\ billing' = [billing EXCEPT ![m].state = "live"]
  /\ UNCHANGED <<energy, invoice, tool>>

(* generateInvoice, first its draft, then on its way *)
NewDraft(m) ==
  /\ Live(m) /\ billing[m].linked = "no" /\ invoice[m] \in {"none", "CANCELLED"}
  /\ invoice' = [invoice EXCEPT ![m] = "DRAFT"]
  /\ billing' = [billing EXCEPT ![m].linked = "yes"]
  /\ UNCHANGED <<energy, tool>>

InvoiceMoves(m) ==
  /\ Live(m) /\ billing[m].linked = "yes"
  /\ \/ /\ invoice[m] \in {"DRAFT", "PENDING_REVIEW"}
        /\ invoice' = [invoice EXCEPT ![m] = "ISSUED"]
     \/ /\ invoice[m] \in {"ISSUED", "PARTIAL", "OVERDUE"}
        /\ \E next \in {"PARTIAL", "OVERDUE", "PAID"} : invoice' = [invoice EXCEPT ![m] = next]
  /\ UNCHANGED <<energy, billing, tool>>

-----------------------------------------------------------------------------
(* Whatever the platform may have made of those months before.  An invoice   *)
(* that is not cancelled is the one of a live billing record.                *)
Init ==
  /\ energy \in [Months -> EnergyRow]
  /\ billing \in [Months -> BillingRow]
  /\ invoice \in [Months -> InvoiceStatus \cup {"none"}]
  /\ \A m \in Months :
       /\ billing[m].state = "none" => billing[m] = NoBilling
       /\ billing[m].linked = "yes" => billing[m].state = "live" /\ invoice[m] # "none"
       /\ billing[m].linked = "no" => invoice[m] \in {"none", "CANCELLED"}
  /\ tool = Idle

Platform(m) == Override(m) \/ NewBilling(m) \/ NewDraft(m) \/ InvoiceMoves(m)

Next ==
  \/ ReadEnergy \/ ReadBillings \/ Apply \/ Quit
  \/ \E m \in Months : (Meanwhile \/ tool.pc = "idle") /\ Platform(m)

Spec == Init /\ [][Next]_vars

-----------------------------------------------------------------------------
(* Properties *)

(* Only live billing records link an invoice. *)
TypeOK ==
  /\ energy \in [Months -> EnergyRow]
  /\ billing \in [Months -> BillingRow]
  /\ invoice \in [Months -> InvoiceStatus \cup {"none"}]
  /\ tool \in Tool
  /\ \A m \in Months : billing[m].linked = "yes" => Live(m) /\ invoice[m] # "none"

(* What is authoritative stands: issued, overdue, partially paid and paid    *)
(* invoices with all they were made of; manual records, imports, edited      *)
(* records and overridden months.                                            *)
AuthoritativeDataStands ==
  [][\A m \in Months :
       /\ tool.pc = "apply" /\ tool'.pc = "done"
       /\ \/ invoice[m] \in FinancialLocked
          \/ energy[m].source = "manual" \/ energy[m].edited = "yes"
          \/ Live(m) /\ (billing[m].source = "manual" \/ billing[m].override = "yes")
       => /\ energy'[m] = energy[m] /\ billing'[m] = billing[m]
          /\ invoice[m] \in FinancialLocked => invoice'[m] = invoice[m]]_vars

(* A draft never stays behind without its billing record, where customers    *)
(* could still pay it: what the tool detaches it cancels, and a cancelled    *)
(* invoice is no longer linked once its record is quarantined.  And one run  *)
(* is enough: when it is done, no confirmed month is left that is neither    *)
(* manual nor under financial review, and no live billing record is based on *)
(* a month it has quarantined.                                               *)
RepairIsWhole ==
  /\ \A m \in Months : billing[m].linked = "no" => invoice[m] \in {"none", "CANCELLED"}
  /\ tool.pc = "done" =>
       \A m \in Months :
         /\ ConfirmedInvalid(energy[m]) =>
              Live(m) /\ (ManuallyLocked(billing[m]) \/ invoice[m] \in FinancialLocked)
         /\ m \in tool.seen /\ energy[m].state = "deleted" => ~Live(m)
=============================================================================
