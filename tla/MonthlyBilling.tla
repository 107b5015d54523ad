--------------------------- MODULE MonthlyBilling ---------------------------
(***************************************************************************)
(* The monthly billing record and its invoice, for one solar system:       *)
(* backend/src/monthly-pv-billings/monthly-pv-billings.service.ts over the *)
(* tables MonthlyPvBilling and Invoice.                                    *)
(*                                                                         *)
(* sync, update, remove, generateInvoice and the lifecycle refresh are     *)
(* chains of database statements without a transaction.  One action is one *)
(* statement; job[p] holds what the request has read.  A chain can stop at *)
(* every await, and what it has written by then stays.                     *)
(*                                                                         *)
(* A kWh is billed at one unit of money, so that amounts are kWh.  The     *)
(* system has a customer and an active contract; the columns syncStatus,   *)
(* autoSendEligible and the texts are not read by any of these operations. *)
(***************************************************************************)
EXTENDS InvoiceTable, Integers, FiniteSets

CONSTANTS
  NoInvoice,         \* invoiceId is null
  Records,           \* primary keys of the table MonthlyPvBilling
  Procs,             \* requests and scheduled jobs in flight together
  DaysInMonth,       \* a day with an energy record yields one kWh
  StableSource,      \* the provider is one of STABLE_AUTO_BILLING_PROVIDERS
  AllowPeriodMove,   \* administrators move a record to another month
  JobsFail,          \* a job can stop at any await
  PayDuringJobs,     \* payments are reviewed while a job is under way
  StaleReceipts      \* receipts are accepted whatever their invoice has become

ASSUME MonthlyBillingAssumption ==
  /\ NoInvoice \notin Invoices
  /\ DaysInMonth \in 1..MaxTotal
  /\ {StableSource, AllowPeriodMove, JobsFail, PayDuringJobs, StaleReceipts}
       \subseteq BOOLEAN

VARIABLES
  invoice,    \* table Invoice
  record,     \* table MonthlyPvBilling
  job,        \* local state of every request or scheduled job
  energy,     \* energy[m]: days of month m with an energy record
  now         \* the current billing month

vars == <<invoice, record, job, energy, now>>

-----------------------------------------------------------------------------
(* Rows and local states *)

Months == 1..MaxMonth
Kwh == 0..MaxTotal

Quality == {"UNKNOWN", "ERROR", "IN_PROGRESS", "MANUAL_OVERRIDE", "INCOMPLETE",
            "UNSTABLE_SOURCE", "OK"}

Workflow == {"ESTIMATE"} \cup InvoiceStatus

(* manual = 0 says that manualOverrideKwh is null: the column never holds 0. *)
RecordRow ==
  [state : {"absent", "live", "deleted"}, month : 0..MaxMonth, kwh : Kwh, manual : Kwh,
   inv : Invoices \cup {NoInvoice}, quality : Quality, workflow : Workflow,
   finalized : {"no", "yes"}]

NoRecord ==
  [state |-> "absent", month |-> 0, kwh |-> 0, manual |-> 0, inv |-> NoInvoice,
   quality |-> "UNKNOWN", workflow |-> "ESTIMATE", finalized |-> "no"]

(* What each statement writes of a row *)
Created(m, kwh, manual) ==
  [state |-> "live", month |-> m, kwh |-> kwh, manual |-> manual, inv |-> NoInvoice,
   quality |-> "UNKNOWN", workflow |-> "ESTIMATE", finalized |-> "no"]
Synced(row, kwh, manual) ==
  [row EXCEPT !.state = "live", !.kwh = kwh, !.manual = IF manual > 0 THEN manual ELSE @]
Updated(row, m, kwh, manual) == [row EXCEPT !.month = m, !.kwh = kwh, !.manual = manual]
Removed(row) == [row EXCEPT !.state = "deleted"]
Assessed(row, quality, workflow, finalized) ==
  [row EXCEPT !.quality = quality, !.workflow = workflow, !.finalized = finalized]
Linked(row, i) == [row EXCEPT !.inv = i, !.workflow = "DRAFT"]
Invoiced(row, workflow) ==
  [row EXCEPT !.workflow = workflow, !.finalized = IF workflow = "ISSUED" THEN "yes" ELSE "no"]
Recalculated(bill, m, total, status) ==
  [bill EXCEPT !.month = m, !.total = total, !.status = status]
Transitioned(bill, status) == [bill EXCEPT !.status = status]

Idle == [pc |-> "idle"]
Actor == {"admin", "auto"}     \* is there an actorId
Then == {"done", "link", "invoice"}
LinkedStatus == InvoiceStatus \cup {"ABSENT"}

Job ==
  {Idle}
    \cup [pc : {"sync_amounts"}, actor : Actor, month : Months, pv : Kwh, kept : Kwh]
    \cup [pc : {"sync_upsert"}, actor : Actor, month : Months, kwh : 1..MaxTotal, manual : Kwh]
    \cup [pc : {"update_check"}, rec : Records, month : Months, from : 0..MaxMonth, pv : Kwh, manual : Kwh]
    \cup [pc : {"update_write"}, rec : Records, month : Months, manual : Kwh, kwh : 1..MaxTotal]
    \cup [pc : {"remove_write", "error_write"}, rec : Records]
    \cup [pc : {"period_create"}, month : Months, kwh : 1..MaxTotal]
    \cup [pc : {"load"}, rec : Records, actor : Actor, next : Then]
    \cup [pc : {"assess", "refresh_write", "link", "gen_check", "gen_draft"}, rec : Records,
          actor : Actor, next : Then, row : RecordRow, status : LinkedStatus]
    \cup [pc : {"gen_link", "gen_issue"}, rec : Records, actor : Actor, row : RecordRow,
          inv : Invoices]
    \cup [pc : {"gen_record"}, rec : Records, workflow : {"ISSUED", "PENDING_REVIEW"}]

Become(p, state) == job' = [job EXCEPT ![p] = state]

Load(k, actor, next) == [pc |-> "load", rec |-> k, actor |-> actor, next |-> next]

StatusOf(i) == IF i = NoInvoice THEN "ABSENT" ELSE invoice[i].status

PastOrCurrent(m) == m <= now    \* faulty variant of Past
Past(m) == m < now       \* isPastBillingPeriod
Current(m) == m = now    \* isCurrentBillingPeriod

AskedFor(i) == invoice[i].status \in FinalizedStatus

(* ensureRecordIsMutable *)
Mutable(status) == status \in MutableStatus \cup {"ABSENT"}

(* solarSystemId_month_year is unique, deleted rows included. *)
RowOf(m) == {k \in Records : record[k].state # "absent" /\ record[k].month = m}

FirstPositive(a, b, c) == IF a > 0 THEN a ELSE IF b > 0 THEN b ELSE c
-----------------------------------------------------------------------------
(* sync: pv = 0 says that the request names no kWh.  The amounts come from  *)
(* the request, else from a kept manual override, else from daily energy.   *)

SyncRead(p, actor, m, pv) ==
  LET kept == IF RowOf(m) = {} THEN 0 ELSE record[CHOOSE k \in RowOf(m) : TRUE].manual IN
  /\ job[p] = Idle
  /\ \A k \in RowOf(m) : Mutable(StatusOf(record[k].inv))
  /\ Become(p, [pc |-> "sync_amounts", actor |-> actor, month |-> m, pv |-> pv, kept |-> kept])
  /\ UNCHANGED <<invoice, record, energy, now>>

(* manualOverrideActive: only a request with an actor and a kWh overrides. *)
Override(j) == j.actor = "admin" /\ j.pv > 0

SyncAmounts(p) ==
  LET j == job[p]
      kwh == FirstPositive(j.pv, j.kept, energy[j.month])
  IN
  /\ j.pc = "sync_amounts"
  /\ kwh > 0
  /\ Become(p, [pc |-> "sync_upsert", actor |-> j.actor, month |-> j.month, kwh |-> kwh,
                manual |-> IF Override(j) THEN kwh ELSE j.kept])
  /\ UNCHANGED <<invoice, record, energy, now>>

(* Faulty variant of SyncUpdate: the row is replaced, not updated. *)
SyncReplace(p, k) ==
  LET j == job[p] IN
  /\ j.pc = "sync_upsert" /\ k \in RowOf(j.month)
  /\ record' = [record EXCEPT ![k] = Created(j.month, j.kwh, j.manual)]
  /\ Become(p, Load(k, j.actor, "link"))
  /\ UNCHANGED <<invoice, energy, now>>

SyncUpdate(p, k) ==
  LET j == job[p] IN
  /\ j.pc = "sync_upsert" /\ k \in RowOf(j.month)
  /\ record' = [record EXCEPT ![k] = Synced(@, j.kwh, j.manual)]
  /\ Become(p, Load(k, j.actor, "link"))
  /\ UNCHANGED <<invoice, energy, now>>

SyncInsert(p, k) ==
  LET j == job[p] IN
  /\ j.pc = "sync_upsert" /\ RowOf(j.month) = {}
  /\ record[k].state = "absent"
  /\ record' = [record EXCEPT ![k] = Created(j.month, j.kwh, j.manual)]
  /\ Become(p, Load(k, j.actor, "link"))
  /\ UNCHANGED <<invoice, energy, now>>

-----------------------------------------------------------------------------
(* update, by an administrator: new kWh, clearing the manual override, or   *)
(* another month.  The month is checked against live rows only; the unique  *)
(* constraint also counts deleted ones and fails the statement.             *)

UpdateRead(p, k, m, pv, clear) ==
  /\ job[p] = Idle
  /\ record[k].state = "live"
  /\ Mutable(StatusOf(record[k].inv))
  /\ m # record[k].month => AllowPeriodMove
  /\ Become(p, [pc |-> "update_check", rec |-> k, month |-> m, from |-> record[k].month, pv |-> pv,
                manual |-> IF clear THEN 0 ELSE IF pv > 0 THEN pv ELSE record[k].manual])
  /\ UNCHANGED <<invoice, record, energy, now>>

UpdateCheck(p) ==
  LET j == job[p]
      kwh == FirstPositive(j.pv, j.manual, energy[j.month])
  IN
  /\ j.pc = "update_check"
  /\ j.month # j.from => \A k \in RowOf(j.month) \ {j.rec} : record[k].state # "live"
  /\ kwh > 0
  /\ Become(p, [pc |-> "update_write", rec |-> j.rec, month |-> j.month,
                manual |-> j.manual, kwh |-> kwh])
  /\ UNCHANGED <<invoice, record, energy, now>>

UpdateWrite(p) ==
  LET j == job[p] IN
  /\ j.pc = "update_write"
  /\ RowOf(j.month) \subseteq {j.rec}
  /\ record' = [record EXCEPT ![j.rec] = Updated(@, j.month, j.kwh, j.manual)]
  /\ Become(p, Load(j.rec, "admin", "link"))
  /\ UNCHANGED <<invoice, energy, now>>

-----------------------------------------------------------------------------
(* Faulty variant of RemoveRead: an invoice does not keep the record. *)
RemoveReadInvoiced(p, k) ==
  /\ job[p] = Idle
  /\ record[k].state = "live"
  /\ Become(p, [pc |-> "remove_write", rec |-> k])
  /\ UNCHANGED <<invoice, record, energy, now>>

(* remove: a record without invoice is marked deleted. *)

RemoveRead(p, k) ==
  /\ job[p] = Idle
  /\ record[k].state = "live"
  /\ record[k].inv = NoInvoice
  /\ Become(p, [pc |-> "remove_write", rec |-> k])
  /\ UNCHANGED <<invoice, record, energy, now>>

RemoveWrite(p) ==
  /\ job[p].pc = "remove_write"
  /\ record' = [record EXCEPT ![job[p].rec] = Removed(@)]
  /\ Become(p, Idle)
  /\ UNCHANGED <<invoice, energy, now>>

-----------------------------------------------------------------------------
(* refreshLifecycleForRecord: load the record with its invoice, assess the  *)
(* month, write the assessment back.  The statement that writes returns the *)
(* row as it then is, which the caller goes on with.                        *)

(* broken: the meter readings do not continue those of the month before     *)
(* (assessBillingContinuity).  They are edited elsewhere, at any time, so   *)
(* every assessment may find either.                                        *)
AssessedQuality(row, broken) ==
  IF broken THEN "ERROR"
  ELSE IF ~Past(row.month) THEN "IN_PROGRESS"
  ELSE IF row.manual > 0 THEN "MANUAL_OVERRIDE"
  ELSE IF row.kwh = 0 \/ energy[row.month] < DaysInMonth THEN "INCOMPLETE"
  ELSE IF ~StableSource THEN "UNSTABLE_SOURCE"
  ELSE "OK"

(* mapInvoiceToWorkflowStatus: the names agree, no invoice has no status. *)
MapInvoice(status, otherwise) == IF status = "ABSENT" THEN otherwise ELSE status

AssessedWorkflow(quality, status) ==
  CASE quality = "ERROR" -> "PENDING_REVIEW"
    [] quality = "IN_PROGRESS" -> MapInvoice(status, "ESTIMATE")
    [] quality = "OK" -> MapInvoice(status, "DRAFT")
    [] OTHER -> MapInvoice(status, "PENDING_REVIEW")

AssessedFinalized(row, workflow) ==
  CASE workflow = "ISSUED" -> "yes"
    [] workflow \in {"PAID", "PARTIAL", "OVERDUE"} -> row.finalized
    [] OTHER -> "no"

RefreshLoad(p) ==
  LET k == job[p].rec IN
  /\ job[p].pc = "load"
  /\ record[k].state = "live"
  /\ Become(p, [pc |-> "assess", rec |-> k, actor |-> job[p].actor, next |-> job[p].next,
                row |-> record[k], status |-> StatusOf(record[k].inv)])
  /\ UNCHANGED <<invoice, record, energy, now>>

RefreshAssess(p, broken) ==
  LET j == job[p]
      quality == AssessedQuality(j.row, broken)
      workflow == AssessedWorkflow(quality, j.status)
  IN
  /\ j.pc = "assess"
  /\ Become(p, [j EXCEPT !.pc = "refresh_write",
                         !.row = Assessed(@, quality, workflow, AssessedFinalized(@, workflow))])
  /\ UNCHANGED <<invoice, record, energy, now>>

RefreshWrite(p) ==
  LET j == job[p]
      written == Assessed(record[j.rec], j.row.quality, j.row.workflow, j.row.finalized)
  IN
  /\ j.pc = "refresh_write"
  /\ record' = [record EXCEPT ![j.rec] = written]
  /\ Become(p, CASE j.next = "link" /\ written.inv # NoInvoice ->
                     [j EXCEPT !.pc = "link", !.row = written, !.status = StatusOf(written.inv)]
                 [] j.next = "invoice" ->
                     [j EXCEPT !.pc = "gen_check", !.row = written, !.status = StatusOf(written.inv)]
                 [] OTHER -> Idle)
  /\ UNCHANGED <<invoice, energy, now>>

(* repairHistoricalLifecycleIfNeeded, on every read of the list. *)
RefreshHistory(p, k) ==
  /\ job[p] = Idle
  /\ record[k].state = "live"
  /\ ~Current(record[k].month)
  /\ record[k].finalized = "no"
  /\ {record[k].workflow, StatusOf(record[k].inv)} \cap FinalizedStatus = {}
  /\ record[k].workflow = "ESTIMATE" \/ record[k].quality = "UNKNOWN"
  /\ Become(p, Load(k, "auto", "done"))
  /\ UNCHANGED <<invoice, record, energy, now>>

(* refreshLifecycleForSystemPeriod creates the record of a month that has   *)
(* energy but no record yet.                                                *)
RefreshPeriod(p, m) ==
  /\ job[p] = Idle
  /\ \/ \E k \in RowOf(m) : Become(p, Load(k, "auto", "done"))
     \/ /\ RowOf(m) = {} /\ energy[m] > 0
        /\ Become(p, [pc |-> "period_create", month |-> m, kwh |-> energy[m]])
  /\ UNCHANGED <<invoice, record, energy, now>>

PeriodCreate(p, k) ==
  LET j == job[p] IN
  /\ j.pc = "period_create"
  /\ RowOf(j.month) = {} /\ record[k].state = "absent"
  /\ record' = [record EXCEPT ![k] = Created(j.month, j.kwh, 0)]
  /\ Become(p, Load(k, "auto", "done"))
  /\ UNCHANGED <<invoice, energy, now>>

-----------------------------------------------------------------------------
(* syncLinkedInvoice: carry the new amounts over to the invoice. *)

IsBillingRecordFinalized(row, status) ==
  row.finalized = "yes" \/ row.workflow \in FinalizedStatus \/ status \in FinalizedStatus

SyncLinkedInvoice(p) ==
  LET j == job[p]
      status == IF j.row.workflow \in {"PENDING_REVIEW", "DRAFT"} THEN j.row.workflow ELSE j.status
  IN
  /\ j.pc = "link"
  /\ Mutable(j.status)
  /\ invoice' = IF Current(j.row.month) /\ ~IsBillingRecordFinalized(j.row, j.status)
                THEN invoice
                ELSE [invoice EXCEPT ![j.row.inv] =
                       Recalculated(@, j.row.month, j.row.kwh, status)]
  /\ Become(p, Idle)
  /\ UNCHANGED <<record, energy, now>>

-----------------------------------------------------------------------------
(* generateInvoice: refuse an open month, return early when the invoice is  *)
(* out, else refresh, check the meter again, write a draft, link it, and    *)
(* move it to ISSUED or PENDING_REVIEW.                                     *)

GenerateInvoice(p, actor, k) ==
  /\ job[p] = Idle
  /\ record[k].state = "live"
  /\ Past(record[k].month)
  /\ StatusOf(record[k].inv) \notin FinalizedStatus
  /\ Become(p, Load(k, actor, "invoice"))
  /\ UNCHANGED <<invoice, record, energy, now>>

GenerateCheck(p) ==
  /\ job[p].pc = "gen_check"
  /\ Become(p, [job[p] EXCEPT !.pc = "gen_draft"])
  /\ UNCHANGED <<invoice, record, energy, now>>

DraftForToday(row, paid) ==   \* faulty variant of DraftOf
  [status |-> "DRAFT", total |-> row.kwh, paid |-> paid, month |-> now]

DraftIssuedAtOnce(row, paid) ==   \* faulty variant of DraftOf
  [status |-> "ISSUED", total |-> row.kwh, paid |-> paid, month |-> row.month]

(* createOrUpdateInvoiceDraft, first statement: the invoice is written anew *)
(* from the record; what has been paid stays.                               *)
DraftOf(row, paid) ==
  [status |-> "DRAFT", total |-> row.kwh, paid |-> paid, month |-> row.month]

WriteDraft(p, i) ==
  LET j == job[p] IN
  /\ j.pc = "gen_draft"
  /\ IF j.row.inv = NoInvoice THEN invoice[i].status = "ABSENT" ELSE i = j.row.inv
  /\ invoice' = [invoice EXCEPT ![i] = DraftOf(j.row, @.paid)]
  /\ Become(p, [pc |-> "gen_link", rec |-> j.rec, actor |-> j.actor, row |-> j.row, inv |-> i])
  /\ UNCHANGED <<record, energy, now>>

(* createOrUpdateInvoiceDraft, second statement *)
LinkDraft(p) ==
  LET j == job[p] IN
  /\ j.pc = "gen_link"
  /\ record' = [record EXCEPT ![j.rec] = Linked(@, j.inv)]
  /\ Become(p, [j EXCEPT !.pc = "gen_issue"])
  /\ UNCHANGED <<invoice, energy, now>>

TargetStatusOfAnyActor(j) ==   \* faulty variant of TargetStatus
  IF \/ j.row.manual > 0 /\ Past(j.row.month) /\ j.row.kwh > 0
     \/ j.row.quality = "OK" /\ StableSource
  THEN "ISSUED" ELSE "PENDING_REVIEW"

(* resolveInvoiceTargetStatus *)
TargetStatus(j) ==
  IF \/ j.actor = "admin" /\ j.row.manual > 0 /\ Past(j.row.month) /\ j.row.kwh > 0
     \/ j.row.quality = "OK" /\ StableSource
  THEN "ISSUED" ELSE "PENDING_REVIEW"

(* transitionInvoiceToTargetStatus, the invoice and then the record *)
IssueInvoice(p) ==
  LET j == job[p] IN
  /\ j.pc = "gen_issue"
  /\ invoice' = [invoice EXCEPT ![j.inv] = Transitioned(@, TargetStatus(j))]
  /\ Become(p, [pc |-> "gen_record", rec |-> j.rec, workflow |-> TargetStatus(j)])
  /\ UNCHANGED <<record, energy, now>>

RecordInvoiced(p) ==
  LET j == job[p] IN
  /\ j.pc = "gen_record"
  /\ record' = [record EXCEPT ![j.rec] = Invoiced(@, j.workflow)]
  /\ Become(p, Idle)
  /\ UNCHANGED <<invoice, energy, now>>

-----------------------------------------------------------------------------
(* billing-lifecycle: a nightly job refreshes and finalizes the month       *)
(* before the current one.  When any step of it throws, markPeriodError     *)
(* looks the record up (deleted rows included) and flags it for review,     *)
(* whatever has become of its invoice by then.                              *)

PeriodFails(p, k) ==
  /\ job[p] = Idle
  /\ k \in RowOf(now - 1)
  /\ Become(p, [pc |-> "error_write", rec |-> k])
  /\ UNCHANGED <<invoice, record, energy, now>>

MarkPeriodError(p) ==
  LET k == job[p].rec IN
  /\ job[p].pc = "error_write"
  /\ record' = [record EXCEPT ![k] = Assessed(@, "ERROR", "PENDING_REVIEW", @.finalized)]
  /\ Become(p, Idle)
  /\ UNCHANGED <<invoice, energy, now>>

-----------------------------------------------------------------------------
(* A guard that throws, a failing statement or a restart ends a job. *)
Abort(p) ==
  /\ JobsFail /\ job[p] # Idle
  /\ Become(p, Idle)
  /\ UNCHANGED <<invoice, record, energy, now>>

(* A guard that throws when no failure is allowed: the job ends as well. *)
Refused(p) ==
  LET j == job[p] IN
  /\ \/ j.pc = "sync_amounts" /\ FirstPositive(j.pv, j.kept, energy[j.month]) = 0
     \/ j.pc = "update_check"
          /\ \/ FirstPositive(j.pv, j.manual, energy[j.month]) = 0
             \/ j.month # j.from /\ \E k \in RowOf(j.month) \ {j.rec} : record[k].state = "live"
     \/ j.pc = "update_write" /\ ~(RowOf(j.month) \subseteq {j.rec})
     \/ j.pc = "period_create" /\ RowOf(j.month) # {}
     \/ j.pc \in {"sync_upsert", "period_create"} /\ RowOf(j.month) = {}
          /\ \A k \in Records : record[k].state # "absent"     \* bound: no key is left
     \/ j.pc = "load" /\ record[j.rec].state # "live"
     \/ j.pc = "link" /\ ~Mutable(j.status)
     \/ j.pc = "gen_draft" /\ j.row.inv = NoInvoice
          /\ \A i \in Invoices : invoice[i].status # "ABSENT"   \* bound: no key is left
     \/ j.pc = "gen_check"     \* continuity is broken
  /\ Become(p, Idle)
  /\ UNCHANGED <<invoice, record, energy, now>>

(* The rest of the platform, as these operations see it. *)

NextMonth ==
  /\ now < MaxMonth
  /\ now' = now + 1
  /\ UNCHANGED <<invoice, record, job, energy>>

EnergyArrives(m) ==
  /\ m <= now /\ energy[m] < DaysInMonth
  /\ energy' = [energy EXCEPT ![m] = @ + 1]
  /\ UNCHANGED <<invoice, record, job, now>>

(* nextPaidAmount *)
NextPaid(i, amount) ==
  LET paid == invoice[i].paid + amount IN
  IF paid <= invoice[i].total THEN paid ELSE invoice[i].total

(* The customer knows of the invoice, and submitManualPayment takes this    *)
(* receipt for it.                                                           *)
Submissible(i, amount) ==
  /\ AskedFor(i) /\ invoice[i].status # "PAID"
  /\ invoice[i].paid + amount <= invoice[i].total

PaymentLandsUnbounded(i, amount) ==   \* faulty variant of PaymentLands
  LET paid == invoice[i].paid + amount IN
  /\ PayDuringJobs \/ \A p \in Procs : job[p] = Idle
  /\ invoice[i].status # "ABSENT" /\ amount > 0
  /\ StaleReceipts \/ AskedFor(i)
  /\ invoice' = [invoice EXCEPT ![i] =
                   Credited(@, paid, IF paid >= @.total THEN "PAID" ELSE "PARTIAL")]
  /\ UNCHANGED <<record, job, energy, now>>

(* payments.service.ts, reviewManualPayment: an accepted receipt.  Nothing   *)
(* is asked of the invoice any more: what the receipt was sent for may have *)
(* been rewritten since.                                                    *)
PaymentLands(i, amount) ==
  LET paid == NextPaid(i, amount) IN
  /\ PayDuringJobs \/ \A p \in Procs : job[p] = Idle
  /\ invoice[i].status # "ABSENT" /\ amount > 0
  /\ StaleReceipts \/ Submissible(i, amount)
  /\ invoice' = [invoice EXCEPT ![i] =
                   Credited(@, paid, IF paid >= @.total THEN "PAID" ELSE "PARTIAL")]
  /\ UNCHANGED <<record, job, energy, now>>

RefreshOverdue(late) ==
  /\ late # {} /\ \A i \in late : CanBeLate(invoice[i])
  /\ invoice' = SweptOverdue(invoice, late)
  /\ UNCHANGED <<record, job, energy, now>>
-----------------------------------------------------------------------------
(* A new system: no month billed, no energy recorded. *)
Init ==
  /\ invoice = [i \in Invoices |-> NoRow]
  /\ record = [k \in Records |-> NoRecord]
  /\ job = [p \in Procs |-> Idle]
  /\ energy = [m \in Months |-> 0]
  /\ now = 1

Sync(p) ==
  \/ \E actor \in Actor, m \in Months, pv \in Kwh : SyncRead(p, actor, m, pv)
  \/ SyncAmounts(p)
  \/ \E k \in Records : SyncUpdate(p, k) \/ SyncInsert(p, k)

Update(p) ==
  \/ \E k \in Records, m \in Months, pv \in Kwh, clear \in BOOLEAN : UpdateRead(p, k, m, pv, clear)
  \/ UpdateCheck(p)
  \/ UpdateWrite(p)

Remove(p) == RemoveWrite(p) \/ \E k \in Records : RemoveRead(p, k)

Refresh(p) ==
  \/ RefreshLoad(p)
  \/ \E broken \in BOOLEAN : RefreshAssess(p, broken)
  \/ RefreshWrite(p)
  \/ \E k \in Records : RefreshHistory(p, k) \/ PeriodCreate(p, k)
  \/ \E m \in Months : RefreshPeriod(p, m)
  \/ SyncLinkedInvoice(p)

Generate(p) ==
  \/ \E actor \in Actor, k \in Records : GenerateInvoice(p, actor, k)
  \/ GenerateCheck(p)
  \/ \E i \in Invoices : WriteDraft(p, i)
  \/ LinkDraft(p)
  \/ IssueInvoice(p)
  \/ RecordInvoiced(p)

PeriodError(p) == MarkPeriodError(p) \/ \E k \in Records : PeriodFails(p, k)

Jobs ==
  \E p \in Procs :
    \/ Sync(p) \/ Update(p) \/ Remove(p) \/ Refresh(p) \/ Generate(p) \/ PeriodError(p)
    \/ Abort(p) \/ Refused(p)

Surroundings ==
  \/ NextMonth
  \/ \E m \in Months : EnergyArrives(m)
  \/ \E i \in Invoices, amount \in Kwh : PaymentLands(i, amount)
  \/ \E late \in SUBSET Invoices : RefreshOverdue(late)

Next == Jobs \/ Surroundings

Spec == Init /\ [][Next]_vars

-----------------------------------------------------------------------------
(* Properties *)

TypeOK ==
  /\ invoice \in [Invoices -> InvoiceRow]
  /\ record \in [Records -> RecordRow]
  /\ job \in [Procs -> Job]
  /\ energy \in [Months -> 0..DaysInMonth]
  /\ now \in Months

(* The customer is never asked twice for the same month, although nothing   *)
(* in the table Invoice forbids it and a job can stop between creating an   *)
(* invoice and linking it.                                                  *)
BilledOncePerMonth ==
  \A i, j \in Invoices :
    AskedFor(i) /\ AskedFor(j) /\ invoice[i].month = invoice[j].month => i = j

(* No invoice is out for a month that is not over: generateInvoice promises *)
(* official invoices only after the end of the month.                       *)
OnlyClosedMonthsBilled == \A i \in Invoices : AskedFor(i) => invoice[i].month < now

(* What a record claims about its invoice is backed by the invoice: a       *)
(* deleted record has none, and ISSUED, PAID, PARTIAL, OVERDUE or a         *)
(* finalizedAt stand only on a record whose invoice is out.                 *)
ClaimsAreBacked ==
  \A k \in Records :
    /\ record[k].state # "live" => record[k].inv = NoInvoice
    /\ record[k].workflow \in FinalizedStatus \/ record[k].finalized = "yes" =>
         StatusOf(record[k].inv) \in FinalizedStatus

(* Every invoice the customer is asked to pay is the one its record links   *)
(* to, so that later corrections of the month reach it.                     *)
IssuedInvoiceIsLinked ==
  \A i \in Invoices : AskedFor(i) =>
    \E k \in Records : record[k].inv = i /\ record[k].month = invoice[i].month

(* Scheduled jobs never issue a month whose data needs a human: an invoice  *)
(* becomes ISSUED without an administrator only from a record assessed OK.  *)
AutomaticIssueIsClean ==
  [][\A i \in Invoices :
       ~AskedFor(i) /\ invoice'[i].status = "ISSUED" =>
         \E k \in Records : record[k].inv = i /\
           \/ record[k].quality = "OK"
           \/ \E p \in Procs : job[p].pc = "gen_issue" /\ job[p].inv = i /\ job[p].actor = "admin"]_vars

(* Billing never touches an invoice that is being paid: its total, month    *)
(* and paid amount stay, and it does not go back to a status before payment *)
(* (ensureRecordIsMutable: adjust the invoice before syncing again).        *)
PaidInvoiceIsKept ==
  [][\A i \in Invoices :
       invoice[i].status \in {"PAID", "PARTIAL"} =>
         /\ invoice'[i].total = invoice[i].total /\ invoice'[i].month = invoice[i].month
         /\ invoice'[i].paid >= invoice[i].paid
         /\ invoice'[i].status \in {"PAID", "PARTIAL", "OVERDUE"}]_vars

(* Money that has come in fixes what the month costs: afterwards no         *)
(* recalculation changes the total it was paid against.                     *)
ReceivedMoneyFixesTotal ==
  [][\A i \in Invoices : invoice[i].paid > 0 => invoice'[i].total = invoice[i].total]_vars

(* Between jobs, if none of them failed, an invoice shows the kWh and the   *)
(* month of the record it is linked from.                                   *)
InvoiceShowsRecord ==
  (\A p \in Procs : job[p] = Idle) =>
    \A k \in Records : record[k].inv # NoInvoice =>
      /\ invoice[record[k].inv].total = record[k].kwh
      /\ invoice[record[k].inv].month = record[k].month

(* A manual override is in force until an administrator clears it: the kWh  *)
(* billed are the overriding ones.                                          *)
ManualOverrideHolds ==
  (\A p \in Procs : job[p] = Idle) =>
    \A k \in Records : record[k].state = "live" /\ record[k].manual > 0 =>
      record[k].kwh = record[k].manual

-----------------------------------------------------------------------------
(* The accounts a customer has with the platform: see MonthBook.  What a    *)
(* month stands at is the invoice its record links to.                      *)

BillsOf(m) == {i \in Invoices : \E k \in Records : record[k].inv = i /\ record[k].month = m}

Standing(status) ==
  CASE status \in {"ISSUED", "OVERDUE"} -> "open"
    [] status = "PARTIAL" -> "part"
    [] status = "PAID" -> "settled"
    [] OTHER -> "none"

AccountOf(bill) ==
  [standing |-> Standing(bill.status),
   owed     |-> IF bill.status \in FinalizedStatus THEN bill.total ELSE 0,
   received |-> bill.paid]

Account ==
  [m \in Months |-> IF BillsOf(m) = {} THEN AccountOf(NoRow)
                                      ELSE AccountOf(invoice[CHOOSE i \in BillsOf(m) : TRUE])]

Book == INSTANCE MonthBook WITH Amounts <- Kwh, account <- Account, today <- now

(* Months are asked for when they are over, corrected and withdrawn while   *)
(* nobody pays them, and money stays with its month.                        *)
BilledByTheBook == Book!BookSpec
=============================================================================
