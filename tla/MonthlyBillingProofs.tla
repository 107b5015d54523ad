------------------------ MODULE MonthlyBillingProofs ------------------------
(***************************************************************************)
(* Proofs about MonthlyBilling, for any number of invoices, records,       *)
(* months, amounts and, where no other number is assumed, jobs in flight.  *)
(***************************************************************************)
EXTENDS MonthlyBilling, TLAPS

(* What the statements write of a row of MonthlyPvBilling, field by field. *)
LEMMA CreatedRow ==
  ASSUME NEW m \in Months, NEW kwh \in Kwh, NEW manual \in Kwh
  PROVE  /\ Created(m, kwh, manual) \in RecordRow
         /\ Created(m, kwh, manual).month = m
         /\ Created(m, kwh, manual).inv = NoInvoice
         /\ Created(m, kwh, manual).state = "live"
  BY InvoiceTableAssumption DEF Created, RecordRow, Months, Kwh, Quality, Workflow

LEMMA SyncedRow ==
  ASSUME NEW row \in RecordRow, NEW kwh \in Kwh, NEW manual \in Kwh
  PROVE  /\ Synced(row, kwh, manual) \in RecordRow
         /\ Synced(row, kwh, manual).month = row.month
         /\ Synced(row, kwh, manual).inv = row.inv
         /\ Synced(row, kwh, manual).state = "live"
  BY DEF Synced, RecordRow

LEMMA UpdatedRow ==
  ASSUME NEW row \in RecordRow, NEW m \in Months, NEW kwh \in Kwh, NEW manual \in Kwh
  PROVE  /\ Updated(row, m, kwh, manual) \in RecordRow
         /\ Updated(row, m, kwh, manual).month = m
         /\ Updated(row, m, kwh, manual).inv = row.inv
         /\ Updated(row, m, kwh, manual).state = row.state
<1>1. m \in 0..MaxMonth
  BY InvoiceTableAssumption DEF Months
<1>2. QED
  BY <1>1 DEF Updated, RecordRow

LEMMA RemovedRow ==
  ASSUME NEW row \in RecordRow
  PROVE  /\ Removed(row) \in RecordRow
         /\ Removed(row).month = row.month
         /\ Removed(row).inv = row.inv
         /\ Removed(row).state = "deleted"
  BY DEF Removed, RecordRow

LEMMA AssessedRow ==
  ASSUME NEW row \in RecordRow, NEW quality \in Quality, NEW workflow \in Workflow,
         NEW finalized \in {"no", "yes"}
  PROVE  /\ Assessed(row, quality, workflow, finalized) \in RecordRow
         /\ Assessed(row, quality, workflow, finalized).month = row.month
         /\ Assessed(row, quality, workflow, finalized).inv = row.inv
         /\ Assessed(row, quality, workflow, finalized).state = row.state
  BY DEF Assessed, RecordRow

LEMMA ErrorRow ==
  ASSUME NEW row \in RecordRow
  PROVE  /\ Assessed(row, "ERROR", "PENDING_REVIEW", row.finalized) \in RecordRow
         /\ Assessed(row, "ERROR", "PENDING_REVIEW", row.finalized).month = row.month
         /\ Assessed(row, "ERROR", "PENDING_REVIEW", row.finalized).inv = row.inv
         /\ Assessed(row, "ERROR", "PENDING_REVIEW", row.finalized).state = row.state
<1>1. row.finalized \in {"no", "yes"}
  BY DEF RecordRow
<1>2. "ERROR" \in Quality /\ "PENDING_REVIEW" \in Workflow
  BY DEF Quality, Workflow, InvoiceStatus
<1>3. QED
  BY <1>1, <1>2, AssessedRow

LEMMA LinkedRow ==
  ASSUME NEW row \in RecordRow, NEW i \in Invoices
  PROVE  /\ Linked(row, i) \in RecordRow
         /\ Linked(row, i).month = row.month
         /\ Linked(row, i).inv = i
         /\ Linked(row, i).state = row.state
  BY DEF Linked, RecordRow, Workflow, InvoiceStatus

LEMMA InvoicedRow ==
  ASSUME NEW row \in RecordRow, NEW workflow \in Workflow
  PROVE  /\ Invoiced(row, workflow) \in RecordRow
         /\ Invoiced(row, workflow).month = row.month
         /\ Invoiced(row, workflow).inv = row.inv
         /\ Invoiced(row, workflow).state = row.state
  BY DEF Invoiced, RecordRow

(* What the statements write of a row of Invoice. *)
LEMMA DraftRow ==
  ASSUME NEW row \in RecordRow, NEW paid \in 0..MaxTotal
  PROVE  /\ DraftOf(row, paid) \in InvoiceRow
         /\ DraftOf(row, paid).month = row.month
         /\ DraftOf(row, paid).status = "DRAFT"
  BY DEF DraftOf, RecordRow, InvoiceRow, InvoiceStatus, Kwh

LEMMA RecalculatedRow ==
  ASSUME NEW bill \in InvoiceRow, NEW m \in 0..MaxMonth, NEW total \in Kwh,
         NEW status \in LinkedStatus
  PROVE  /\ Recalculated(bill, m, total, status) \in InvoiceRow
         /\ Recalculated(bill, m, total, status).month = m
         /\ Recalculated(bill, m, total, status).status = status
  BY DEF Recalculated, InvoiceRow, Kwh, LinkedStatus

LEMMA TransitionedRow ==
  ASSUME NEW bill \in InvoiceRow, NEW status \in LinkedStatus
  PROVE  /\ Transitioned(bill, status) \in InvoiceRow
         /\ Transitioned(bill, status).month = bill.month
         /\ Transitioned(bill, status).status = status
  BY DEF Transitioned, InvoiceRow, LinkedStatus

LEMMA CreditedRow ==
  ASSUME NEW bill \in InvoiceRow, NEW paid \in 0..MaxTotal, NEW status \in InvoiceStatus
  PROVE  /\ Credited(bill, paid, status) \in InvoiceRow
         /\ Credited(bill, paid, status).month = bill.month
         /\ Credited(bill, paid, status).status = status
  BY DEF Credited, InvoiceRow

(* The fields a job carries, by the statement it is about to run. *)
LEMMA JobFields ==
  ASSUME NEW j \in Job
  PROVE  /\ j.pc = "sync_amounts" =>
              j.actor \in Actor /\ j.month \in Months /\ j.pv \in Kwh /\ j.kept \in Kwh
         /\ j.pc = "sync_upsert" =>
              j.actor \in Actor /\ j.month \in Months /\ j.kwh \in 1..MaxTotal /\ j.manual \in Kwh
         /\ j.pc = "update_check" =>
              /\ j.rec \in Records /\ j.month \in Months /\ j.from \in 0..MaxMonth
              /\ j.pv \in Kwh /\ j.manual \in Kwh
         /\ j.pc = "update_write" =>
              j.rec \in Records /\ j.month \in Months /\ j.manual \in Kwh /\ j.kwh \in 1..MaxTotal
         /\ j.pc \in {"remove_write", "error_write"} => j.rec \in Records
         /\ j.pc = "period_create" => j.month \in Months /\ j.kwh \in 1..MaxTotal
         /\ j.pc = "load" => j.rec \in Records /\ j.actor \in Actor /\ j.next \in Then
         /\ j.pc \in {"assess", "refresh_write", "link", "gen_check", "gen_draft"} =>
              /\ j.rec \in Records /\ j.actor \in Actor /\ j.next \in Then
              /\ j.row \in RecordRow /\ j.status \in LinkedStatus
         /\ j.pc \in {"gen_link", "gen_issue"} =>
              j.rec \in Records /\ j.actor \in Actor /\ j.row \in RecordRow /\ j.inv \in Invoices
         /\ j.pc = "gen_record" => j.rec \in Records /\ j.workflow \in {"ISSUED", "PENDING_REVIEW"}
  BY DEF Job, Idle

-----------------------------------------------------------------------------
(* Types *)

LEMMA StatusType ==
  ASSUME TypeOK, NEW i \in Invoices \cup {NoInvoice}
  PROVE  StatusOf(i) \in LinkedStatus
  BY DEF TypeOK, StatusOf, LinkedStatus, InvoiceRow

LEMMA AssessmentType ==
  ASSUME NEW row \in RecordRow, NEW broken, NEW status \in LinkedStatus
  PROVE  LET quality == AssessedQuality(row, broken)
             workflow == AssessedWorkflow(quality, status)
         IN  /\ quality \in Quality
             /\ workflow \in Workflow
             /\ AssessedFinalized(row, workflow) \in {"no", "yes"}
<1> DEFINE quality == AssessedQuality(row, broken)
           workflow == AssessedWorkflow(quality, status)
<1>1. quality \in Quality
  BY DEF AssessedQuality, Quality
<1>2. workflow \in Workflow
  <2> HIDE DEF quality
  <2>1. QED
    BY DEF AssessedWorkflow, MapInvoice, Workflow, LinkedStatus, InvoiceStatus
<1>3. AssessedFinalized(row, workflow) \in {"no", "yes"}
  <2> HIDE DEF workflow
  <2>1. row.finalized \in {"no", "yes"}
    BY DEF RecordRow
  <2>2. QED
    BY <2>1 DEF AssessedFinalized
<1>4. QED
  BY <1>1, <1>2, <1>3

(* A statement that writes one row of each table at most. *)
LEMMA TypeOfStep ==
  ASSUME TypeOK,
         NEW p \in Procs, NEW q \in Job, Become(p, q),
         \/ record' = record
         \/ \E k \in Records, row \in RecordRow : record' = [record EXCEPT ![k] = row],
         \/ invoice' = invoice
         \/ \E i \in Invoices, bill \in InvoiceRow : invoice' = [invoice EXCEPT ![i] = bill],
         UNCHANGED <<energy, now>>
  PROVE  TypeOK'
<1>1. job' \in [Procs -> Job]
  BY DEF TypeOK, Become
<1>2. record' \in [Records -> RecordRow]
  BY DEF TypeOK
<1>3. invoice' \in [Invoices -> InvoiceRow]
  BY DEF TypeOK
<1>4. QED
  BY <1>1, <1>2, <1>3 DEF TypeOK

LEMMA SyncTypes ==
  ASSUME TypeOK, NEW p \in Procs, Sync(p)
  PROVE  TypeOK'
<1> USE InvoiceTableAssumption, MonthlyBillingAssumption
<1>a. job[p] \in Job
  BY DEF TypeOK
<1>1. ASSUME NEW actor \in Actor, NEW m \in Months, NEW pv \in Kwh, SyncRead(p, actor, m, pv)
      PROVE  TypeOK'
  <2> DEFINE kept == IF RowOf(m) = {} THEN 0 ELSE record[CHOOSE k \in RowOf(m) : TRUE].manual
             q == [pc |-> "sync_amounts", actor |-> actor, month |-> m, pv |-> pv, kept |-> kept]
  <2>1. kept \in Kwh
    <3>1. CASE RowOf(m) = {}
      BY <3>1 DEF Kwh
    <3>2. CASE RowOf(m) # {}
      <4>1. (CHOOSE k \in RowOf(m) : TRUE) \in Records
        BY <3>2 DEF RowOf
      <4>2. QED
        BY <3>2, <4>1 DEF TypeOK, RecordRow
    <3>3. QED
      BY <3>1, <3>2
  <2>2. Become(p, q) /\ UNCHANGED <<invoice, record, energy, now>>
    BY <1>1 DEF SyncRead
  <2>3. q \in Job
    <3> HIDE DEF kept
    <3>1. QED
      BY <2>1 DEF Job
  <2> HIDE DEF q
  <2>4. QED
    BY <2>2, <2>3, TypeOfStep
<1>2. ASSUME SyncAmounts(p)
      PROVE  TypeOK'
  <2> DEFINE j == job[p]
             kwh == FirstPositive(j.pv, j.kept, energy[j.month])
             q == [pc |-> "sync_upsert", actor |-> j.actor, month |-> j.month, kwh |-> kwh,
                   manual |-> IF Override(j) THEN kwh ELSE j.kept]
  <2>1. j.actor \in Actor /\ j.month \in Months /\ j.pv \in Kwh /\ j.kept \in Kwh
    BY <1>2, <1>a, JobFields DEF SyncAmounts
  <2>2. energy[j.month] \in Kwh
    BY <2>1 DEF TypeOK, Kwh
  <2>3. kwh \in 1..MaxTotal
    <3>1. kwh > 0
      BY <1>2 DEF SyncAmounts
    <3>2. QED
      BY <2>1, <2>2, <3>1 DEF FirstPositive, Kwh
  <2>4. Become(p, q) /\ UNCHANGED <<invoice, record, energy, now>>
    BY <1>2 DEF SyncAmounts
  <2>5. q \in Job
    <3> HIDE DEF kwh, j
    <3>1. kwh \in Kwh
      BY <2>3 DEF Kwh
    <3>2. QED
      BY <2>1, <2>3, <3>1 DEF Job
  <2> HIDE DEF q
  <2>6. QED
    BY <2>4, <2>5, TypeOfStep
<1>3. ASSUME NEW k \in Records, SyncUpdate(p, k) \/ SyncInsert(p, k)
      PROVE  TypeOK'
  <2> DEFINE j == job[p]
  <2>1. /\ j.actor \in Actor /\ j.month \in Months /\ j.kwh \in 1..MaxTotal
        /\ j.manual \in Kwh
    BY <1>3, <1>a, JobFields DEF SyncUpdate, SyncInsert
  <2>2. j.kwh \in Kwh
    BY <2>1 DEF Kwh
  <2>3. Load(k, j.actor, "link") \in Job
    BY <2>1 DEF Load, Job, Then
  <2>4. Synced(record[k], j.kwh, j.manual) \in RecordRow
    BY <2>1, <2>2, SyncedRow DEF TypeOK
  <2>5. Created(j.month, j.kwh, j.manual) \in RecordRow
    BY <2>1, <2>2, CreatedRow
  <2>6. \E row \in RecordRow : record' = [record EXCEPT ![k] = row]
    BY <1>3, <2>4, <2>5 DEF SyncUpdate, SyncInsert
  <2>7. Become(p, Load(k, j.actor, "link")) /\ UNCHANGED <<invoice, energy, now>>
    BY <1>3 DEF SyncUpdate, SyncInsert
  <2>8. QED
    BY <2>3, <2>6, <2>7, TypeOfStep
<1>4. QED
  BY <1>1, <1>2, <1>3 DEF Sync

LEMMA UpdateTypes ==
  ASSUME TypeOK, NEW p \in Procs, Update(p)
  PROVE  TypeOK'
<1> USE InvoiceTableAssumption, MonthlyBillingAssumption
<1>a. job[p] \in Job
  BY DEF TypeOK
<1>1. ASSUME NEW k \in Records, NEW m \in Months, NEW pv \in Kwh, NEW clear \in BOOLEAN,
             UpdateRead(p, k, m, pv, clear)
      PROVE  TypeOK'
  <2> DEFINE manual == IF clear THEN 0 ELSE IF pv > 0 THEN pv ELSE record[k].manual
             q == [pc |-> "update_check", rec |-> k, month |-> m, from |-> record[k].month,
                   pv |-> pv, manual |-> manual]
  <2>1. record[k].manual \in Kwh /\ record[k].month \in 0..MaxMonth
    BY DEF TypeOK, RecordRow
  <2>2. manual \in Kwh
    BY <2>1 DEF Kwh
  <2>3. Become(p, q) /\ UNCHANGED <<invoice, record, energy, now>>
    BY <1>1 DEF UpdateRead
  <2>4. q \in Job
    <3> HIDE DEF manual
    <3>1. QED
      BY <2>1, <2>2 DEF Job
  <2> HIDE DEF q
  <2>5. QED
    BY <2>3, <2>4, TypeOfStep
<1>2. ASSUME UpdateCheck(p)
      PROVE  TypeOK'
  <2> DEFINE j == job[p]
             kwh == FirstPositive(j.pv, j.manual, energy[j.month])
             q == [pc |-> "update_write", rec |-> j.rec, month |-> j.month,
                   manual |-> j.manual, kwh |-> kwh]
  <2>1. /\ j.rec \in Records /\ j.month \in Months /\ j.from \in 0..MaxMonth
        /\ j.pv \in Kwh /\ j.manual \in Kwh
    BY <1>2, <1>a, JobFields DEF UpdateCheck
  <2>2. energy[j.month] \in Kwh
    BY <2>1 DEF TypeOK, Kwh
  <2>3. kwh \in 1..MaxTotal
    <3>1. kwh > 0
      BY <1>2 DEF UpdateCheck
    <3>2. QED
      BY <2>1, <2>2, <3>1 DEF FirstPositive, Kwh
  <2>4. Become(p, q) /\ UNCHANGED <<invoice, record, energy, now>>
    BY <1>2 DEF UpdateCheck
  <2>5. q \in Job
    <3> HIDE DEF kwh, j
    <3>1. QED
      BY <2>1, <2>3 DEF Job
  <2> HIDE DEF q
  <2>6. QED
    BY <2>4, <2>5, TypeOfStep
<1>3. ASSUME UpdateWrite(p)
      PROVE  TypeOK'
  <2> DEFINE j == job[p]
  <2>1. j.rec \in Records /\ j.month \in Months /\ j.manual \in Kwh /\ j.kwh \in 1..MaxTotal
    BY <1>3, <1>a, JobFields DEF UpdateWrite
  <2>2. j.kwh \in Kwh
    BY <2>1 DEF Kwh
  <2>3. Updated(record[j.rec], j.month, j.kwh, j.manual) \in RecordRow
    BY <2>1, <2>2, UpdatedRow DEF TypeOK
  <2>4. Load(j.rec, "admin", "link") \in Job
    BY <2>1 DEF Load, Job, Actor, Then
  <2>5. /\ \E k \in Records, row \in RecordRow : record' = [record EXCEPT ![k] = row]
        /\ Become(p, Load(j.rec, "admin", "link"))
        /\ UNCHANGED <<invoice, energy, now>>
    BY <1>3, <2>1, <2>3 DEF UpdateWrite
  <2>6. QED
    BY <2>4, <2>5, TypeOfStep
<1>4. QED
  BY <1>1, <1>2, <1>3 DEF Update

LEMMA IdleIsJob == Idle \in Job
  BY DEF Job

LEMMA RemoveTypes ==
  ASSUME TypeOK, NEW p \in Procs, Remove(p)
  PROVE  TypeOK'
<1>a. job[p] \in Job
  BY DEF TypeOK
<1>1. ASSUME NEW k \in Records, RemoveRead(p, k)
      PROVE  TypeOK'
  <2>1. [pc |-> "remove_write", rec |-> k] \in Job
    BY DEF Job
  <2>2. Become(p, [pc |-> "remove_write", rec |-> k]) /\ UNCHANGED <<invoice, record, energy, now>>
    BY <1>1 DEF RemoveRead
  <2>3. QED
    BY <2>1, <2>2, TypeOfStep
<1>2. ASSUME RemoveWrite(p)
      PROVE  TypeOK'
  <2>1. job[p].rec \in Records
    BY <1>2, <1>a, JobFields DEF RemoveWrite
  <2>2. Removed(record[job[p].rec]) \in RecordRow
    BY <2>1, RemovedRow DEF TypeOK
  <2>3. /\ \E k \in Records, row \in RecordRow : record' = [record EXCEPT ![k] = row]
        /\ Become(p, Idle)
        /\ UNCHANGED <<invoice, energy, now>>
    BY <1>2, <2>1, <2>2 DEF RemoveWrite
  <2>4. QED
    BY <2>3, IdleIsJob, TypeOfStep
<1>3. QED
  BY <1>1, <1>2 DEF Remove

LEMMA PeriodErrorTypes ==
  ASSUME TypeOK, NEW p \in Procs, PeriodError(p)
  PROVE  TypeOK'
<1>a. job[p] \in Job
  BY DEF TypeOK
<1>1. ASSUME NEW k \in Records, PeriodFails(p, k)
      PROVE  TypeOK'
  <2>1. [pc |-> "error_write", rec |-> k] \in Job
    BY DEF Job
  <2>2. Become(p, [pc |-> "error_write", rec |-> k]) /\ UNCHANGED <<invoice, record, energy, now>>
    BY <1>1 DEF PeriodFails
  <2>3. QED
    BY <2>1, <2>2, TypeOfStep
<1>2. ASSUME MarkPeriodError(p)
      PROVE  TypeOK'
  <2> DEFINE k == job[p].rec
             row == Assessed(record[k], "ERROR", "PENDING_REVIEW", record[k].finalized)
  <2>1. k \in Records
    BY <1>2, <1>a, JobFields DEF MarkPeriodError
  <2>2. row \in RecordRow
    BY <2>1, ErrorRow DEF TypeOK
  <2>3. /\ record' = [record EXCEPT ![k] = row]
        /\ Become(p, Idle)
        /\ UNCHANGED <<invoice, energy, now>>
    BY <1>2, <2>1 DEF MarkPeriodError, TypeOK
  <2> HIDE DEF row, k
  <2>4. QED
    BY <2>1, <2>2, <2>3, IdleIsJob, TypeOfStep
<1>3. QED
  BY <1>1, <1>2 DEF PeriodError

LEMMA RefreshTypes ==
  ASSUME TypeOK, NEW p \in Procs, Refresh(p)
  PROVE  TypeOK'
<1> USE InvoiceTableAssumption, MonthlyBillingAssumption
<1>a. job[p] \in Job
  BY DEF TypeOK
<1>b. ASSUME NEW k \in Records PROVE Load(k, "auto", "done") \in Job
  BY DEF Load, Job, Actor, Then
<1>1. ASSUME RefreshLoad(p)
      PROVE  TypeOK'
  <2> DEFINE k == job[p].rec
             q == [pc |-> "assess", rec |-> k, actor |-> job[p].actor, next |-> job[p].next,
                   row |-> record[k], status |-> StatusOf(record[k].inv)]
  <2>1. k \in Records /\ job[p].actor \in Actor /\ job[p].next \in Then
    BY <1>1, <1>a, JobFields DEF RefreshLoad
  <2>2. record[k] \in RecordRow /\ record[k].inv \in Invoices \cup {NoInvoice}
    BY <2>1 DEF TypeOK, RecordRow
  <2>3. StatusOf(record[k].inv) \in LinkedStatus
    BY <2>2, StatusType
  <2>4. Become(p, q) /\ UNCHANGED <<invoice, record, energy, now>>
    BY <1>1 DEF RefreshLoad
  <2>5. q \in Job
    <3> HIDE DEF k
    <3>1. QED
      BY <2>1, <2>2, <2>3 DEF Job
  <2> HIDE DEF q
  <2>6. QED
    BY <2>4, <2>5, TypeOfStep
<1>2. ASSUME NEW broken \in BOOLEAN, RefreshAssess(p, broken)
      PROVE  TypeOK'
  <2> DEFINE j == job[p]
             quality == AssessedQuality(j.row, broken)
             workflow == AssessedWorkflow(quality, j.status)
             row == Assessed(j.row, quality, workflow, AssessedFinalized(j.row, workflow))
             q == [j EXCEPT !.pc = "refresh_write", !.row = row]
  <2>1. /\ j.rec \in Records /\ j.actor \in Actor /\ j.next \in Then
        /\ j.row \in RecordRow /\ j.status \in LinkedStatus
    BY <1>2, <1>a, JobFields DEF RefreshAssess
  <2>2. row \in RecordRow
    BY <2>1, AssessmentType, AssessedRow
  <2>3. j \in [pc : {"assess"}, rec : Records, actor : Actor, next : Then, row : RecordRow,
                status : LinkedStatus]
    BY <1>2, <1>a DEF RefreshAssess, Job, Idle
  <2>4. Become(p, q) /\ UNCHANGED <<invoice, record, energy, now>>
    BY <1>2 DEF RefreshAssess
  <2>5. q \in [pc : {"refresh_write"}, rec : Records, actor : Actor, next : Then, row : RecordRow,
                status : LinkedStatus]
    <3> HIDE DEF row, j
    <3>1. QED
      BY <2>2, <2>3
  <2>6. q \in Job
    <3> HIDE DEF q
    <3>1. QED
      BY <2>5 DEF Job
  <2> HIDE DEF q
  <2>7. QED
    BY <2>4, <2>6, TypeOfStep
<1>3. ASSUME RefreshWrite(p)
      PROVE  TypeOK'
  <2> DEFINE j == job[p]
             written == Assessed(record[j.rec], j.row.quality, j.row.workflow, j.row.finalized)
             q(pc) == [j EXCEPT !.pc = pc, !.row = written, !.status = StatusOf(written.inv)]
  <2>1. /\ j.rec \in Records /\ j.row \in RecordRow /\ record[j.rec] \in RecordRow
    BY <1>3, <1>a, JobFields DEF RefreshWrite, TypeOK
  <2>2. written \in RecordRow
    <3>1. /\ j.row.quality \in Quality /\ j.row.workflow \in Workflow
          /\ j.row.finalized \in {"no", "yes"}
      BY <2>1 DEF RecordRow
    <3>2. QED
      BY <2>1, <3>1, AssessedRow
  <2>3. StatusOf(written.inv) \in LinkedStatus
    <3>1. written.inv \in Invoices \cup {NoInvoice}
      BY <2>2 DEF RecordRow
    <3>2. QED
      BY <3>1, StatusType
  <2>4. j \in [pc : {"refresh_write"}, rec : Records, actor : Actor, next : Then, row : RecordRow,
                status : LinkedStatus]
    BY <1>3, <1>a DEF RefreshWrite, Job, Idle
  <2>5. \A pc \in {"link", "gen_check"} :
          q(pc) \in [pc : {"link", "gen_check"}, rec : Records, actor : Actor, next : Then,
                     row : RecordRow, status : LinkedStatus]
    <3> HIDE DEF written, j
    <3>1. QED
      BY <2>2, <2>3, <2>4
  <2>6. \A pc \in {"link", "gen_check"} : q(pc) \in Job
    <3> HIDE DEF q
    <3>1. QED
      BY <2>5 DEF Job
  <2>7. /\ record' = [record EXCEPT ![j.rec] = written]
        /\ UNCHANGED <<invoice, energy, now>>
        /\ Become(p, q("link")) \/ Become(p, q("gen_check")) \/ Become(p, Idle)
    BY <1>3 DEF RefreshWrite
  <2> HIDE DEF q, written
  <2>8. \E s \in Job : Become(p, s)
    BY <2>6, <2>7, IdleIsJob
  <2>9. QED
    BY <2>1, <2>2, <2>7, <2>8, TypeOfStep
<1>4. ASSUME NEW k \in Records, RefreshHistory(p, k)
      PROVE  TypeOK'
  BY <1>4, <1>b, TypeOfStep DEF RefreshHistory
<1>5. ASSUME NEW k \in Records, PeriodCreate(p, k)
      PROVE  TypeOK'
  <2>1. job[p].month \in Months /\ job[p].kwh \in 1..MaxTotal
    BY <1>5, <1>a, JobFields DEF PeriodCreate
  <2>2. Created(job[p].month, job[p].kwh, 0) \in RecordRow
    BY <2>1, CreatedRow DEF Kwh
  <2>3. QED
    BY <1>5, <1>b, <2>2, TypeOfStep DEF PeriodCreate
<1>6. ASSUME NEW m \in Months, RefreshPeriod(p, m)
      PROVE  TypeOK'
  <2>1. CASE \E k \in RowOf(m) : Become(p, Load(k, "auto", "done"))
    BY <1>6, <1>b, <2>1, TypeOfStep DEF RefreshPeriod, RowOf
  <2>2. CASE energy[m] > 0 /\ Become(p, [pc |-> "period_create", month |-> m, kwh |-> energy[m]])
    <3>1. energy[m] \in 1..MaxTotal
      BY <2>2 DEF TypeOK
    <3>2. [pc |-> "period_create", month |-> m, kwh |-> energy[m]] \in Job
      BY <3>1 DEF Job
    <3>3. QED
      BY <1>6, <2>2, <3>2, TypeOfStep DEF RefreshPeriod
  <2>3. QED
    BY <1>6, <2>1, <2>2 DEF RefreshPeriod
<1>7. ASSUME SyncLinkedInvoice(p)
      PROVE  TypeOK'
  <2> DEFINE j == job[p]
             status == IF j.row.workflow \in {"PENDING_REVIEW", "DRAFT"} THEN j.row.workflow ELSE j.status
             bill == Recalculated(invoice[j.row.inv], j.row.month, j.row.kwh, status)
  <2>1. j.row \in RecordRow /\ j.status \in LinkedStatus
    BY <1>7, <1>a, JobFields DEF SyncLinkedInvoice
  <2>2. status \in LinkedStatus
    BY <2>1 DEF LinkedStatus, InvoiceStatus
  <2>3. /\ j.row.month \in 0..MaxMonth /\ j.row.kwh \in Kwh
        /\ j.row.inv \in Invoices \cup {NoInvoice}
    BY <2>1 DEF RecordRow
  <2>4. /\ Become(p, Idle) /\ UNCHANGED <<record, energy, now>>
        /\ invoice' = invoice \/ invoice' = [invoice EXCEPT ![j.row.inv] = bill]
    BY <1>7 DEF SyncLinkedInvoice
  <2>5. CASE j.row.inv \in Invoices
    <3>1. invoice[j.row.inv] \in InvoiceRow
      BY <2>5 DEF TypeOK
    <3>2. bill \in InvoiceRow
      <4> HIDE DEF status
      <4>1. QED
        BY <2>2, <2>3, <3>1, RecalculatedRow
    <3> HIDE DEF bill
    <3>3. QED
      BY <2>4, <2>5, <3>2, IdleIsJob, TypeOfStep
  <2>6. CASE j.row.inv = NoInvoice
    <3>1. [invoice EXCEPT ![j.row.inv] = bill] = invoice
      <4> HIDE DEF bill
      <4>1. QED
        BY <2>6 DEF TypeOK
    <3>2. QED
      BY <2>4, <3>1, IdleIsJob, TypeOfStep
  <2>7. QED
    BY <2>3, <2>5, <2>6
<1>8. QED
  BY <1>1, <1>2, <1>3, <1>4, <1>5, <1>6, <1>7 DEF Refresh

LEMMA GenerateTypes ==
  ASSUME TypeOK, NEW p \in Procs, Generate(p)
  PROVE  TypeOK'
<1> USE InvoiceTableAssumption, MonthlyBillingAssumption
<1>a. job[p] \in Job
  BY DEF TypeOK
<1> DEFINE j == job[p]
<1>1. ASSUME NEW actor \in Actor, NEW k \in Records, GenerateInvoice(p, actor, k)
      PROVE  TypeOK'
  <2>1. Load(k, actor, "invoice") \in Job
    BY DEF Load, Job, Then
  <2>2. QED
    BY <1>1, <2>1, TypeOfStep DEF GenerateInvoice
<1>2. ASSUME GenerateCheck(p)
      PROVE  TypeOK'
  <2> DEFINE q == [j EXCEPT !.pc = "gen_draft"]
  <2>1. j \in [pc : {"gen_check"}, rec : Records, actor : Actor, next : Then, row : RecordRow,
                status : LinkedStatus]
    BY <1>2, <1>a DEF GenerateCheck, Job, Idle
  <2>2. q \in [pc : {"gen_draft"}, rec : Records, actor : Actor, next : Then, row : RecordRow,
                status : LinkedStatus]
    <3> HIDE DEF j
    <3>1. QED
      BY <2>1
  <2>3. Become(p, q) /\ UNCHANGED <<invoice, record, energy, now>>
    BY <1>2 DEF GenerateCheck
  <2> HIDE DEF q
  <2>4. q \in Job
    BY <2>2 DEF Job
  <2>5. QED
    BY <2>3, <2>4, TypeOfStep
<1>3. ASSUME NEW i \in Invoices, WriteDraft(p, i)
      PROVE  TypeOK'
  <2> DEFINE q == [pc |-> "gen_link", rec |-> j.rec, actor |-> j.actor, row |-> j.row, inv |-> i]
  <2>1. j.rec \in Records /\ j.actor \in Actor /\ j.row \in RecordRow
    BY <1>3, <1>a, JobFields DEF WriteDraft
  <2>2. q \in Job
    <3> HIDE DEF j
    <3>1. QED
      BY <2>1 DEF Job
  <2>3. DraftOf(j.row, invoice[i].paid) \in InvoiceRow
    <3>1. invoice[i].paid \in 0..MaxTotal
      BY DEF TypeOK, InvoiceRow
    <3>2. QED
      BY <2>1, <3>1, DraftRow
  <2>4. /\ Become(p, q) /\ UNCHANGED <<record, energy, now>>
        /\ invoice' = [invoice EXCEPT ![i] = DraftOf(j.row, invoice[i].paid)]
    BY <1>3 DEF WriteDraft, TypeOK
  <2> HIDE DEF q
  <2>5. QED
    BY <2>2, <2>3, <2>4, TypeOfStep
<1>4. ASSUME LinkDraft(p)
      PROVE  TypeOK'
  <2> DEFINE q == [j EXCEPT !.pc = "gen_issue"]
  <2>1. j \in [pc : {"gen_link"}, rec : Records, actor : Actor, row : RecordRow, inv : Invoices]
    BY <1>4, <1>a DEF LinkDraft, Job, Idle
  <2>2. q \in [pc : {"gen_issue"}, rec : Records, actor : Actor, row : RecordRow, inv : Invoices]
    <3> HIDE DEF j
    <3>1. QED
      BY <2>1
  <2>3. j.rec \in Records /\ Linked(record[j.rec], j.inv) \in RecordRow
    <3>1. j.rec \in Records /\ j.inv \in Invoices
      BY <2>1
    <3>2. record[j.rec] \in RecordRow
      BY <3>1 DEF TypeOK
    <3>3. QED
      BY <3>1, <3>2, LinkedRow
  <2>4. /\ Become(p, q) /\ UNCHANGED <<invoice, energy, now>>
        /\ record' = [record EXCEPT ![j.rec] = Linked(record[j.rec], j.inv)]
    BY <1>4, <2>3 DEF LinkDraft, TypeOK
  <2> HIDE DEF q
  <2>5. q \in Job
    BY <2>2 DEF Job
  <2>6. QED
    BY <2>3, <2>4, <2>5, TypeOfStep
<1>5. ASSUME IssueInvoice(p)
      PROVE  TypeOK'
  <2> DEFINE q == [pc |-> "gen_record", rec |-> j.rec, workflow |-> TargetStatus(j)]
  <2>1. j.rec \in Records /\ j.inv \in Invoices
    BY <1>5, <1>a, JobFields DEF IssueInvoice
  <2>2. TargetStatus(j) \in {"ISSUED", "PENDING_REVIEW"}
    BY DEF TargetStatus
  <2>3. TargetStatus(j) \in LinkedStatus
    BY <2>2 DEF LinkedStatus, InvoiceStatus
  <2>4. q \in Job
    <3> HIDE DEF j
    <3>1. QED
      BY <2>1, <2>2 DEF Job
  <2>5. Transitioned(invoice[j.inv], TargetStatus(j)) \in InvoiceRow
    BY <2>1, <2>3, TransitionedRow DEF TypeOK
  <2>6. /\ Become(p, q) /\ UNCHANGED <<record, energy, now>>
        /\ invoice' = [invoice EXCEPT ![j.inv] = Transitioned(invoice[j.inv], TargetStatus(j))]
    BY <1>5, <2>1 DEF IssueInvoice, TypeOK
  <2> HIDE DEF q
  <2>7. QED
    BY <2>1, <2>4, <2>5, <2>6, TypeOfStep
<1>6. ASSUME RecordInvoiced(p)
      PROVE  TypeOK'
  <2>1. j.rec \in Records /\ j.workflow \in Workflow
    BY <1>6, <1>a, JobFields DEF RecordInvoiced, Workflow, InvoiceStatus
  <2>2. Invoiced(record[j.rec], j.workflow) \in RecordRow
    BY <2>1, InvoicedRow DEF TypeOK
  <2>3. /\ Become(p, Idle) /\ UNCHANGED <<invoice, energy, now>>
        /\ record' = [record EXCEPT ![j.rec] = Invoiced(record[j.rec], j.workflow)]
    BY <1>6, <2>1 DEF RecordInvoiced, TypeOK
  <2>4. QED
    BY <2>1, <2>2, <2>3, IdleIsJob, TypeOfStep
<1>7. QED
  BY <1>1, <1>2, <1>3, <1>4, <1>5, <1>6 DEF Generate

(* A sweep turns some invoices OVERDUE and changes nothing else of them. *)
LEMMA SweptTable ==
  ASSUME TypeOK, NEW late \in SUBSET Invoices, invoice' = SweptOverdue(invoice, late)
  PROVE  /\ invoice' \in [Invoices -> InvoiceRow]
         /\ \A i \in Invoices : invoice'[i].month = invoice[i].month
         /\ \A i \in Invoices : invoice'[i].status =
              IF i \in late THEN "OVERDUE" ELSE invoice[i].status
<1>1. DOMAIN invoice = Invoices /\ \A i \in Invoices : invoice[i] \in InvoiceRow
  BY DEF TypeOK
<1>2. ASSUME NEW i \in Invoices
      PROVE  /\ invoice'[i] \in InvoiceRow
             /\ invoice'[i].month = invoice[i].month
             /\ invoice'[i].status = IF i \in late THEN "OVERDUE" ELSE invoice[i].status
  <2>1. invoice'[i] = IF i \in late THEN Transitioned(invoice[i], "OVERDUE") ELSE invoice[i]
    BY <1>1 DEF SweptOverdue, Transitioned
  <2>2. "OVERDUE" \in LinkedStatus
    BY DEF LinkedStatus, InvoiceStatus
  <2>3. QED
    BY <1>1, <2>1, <2>2, TransitionedRow
<1>3. invoice' \in [Invoices -> InvoiceRow]
  <2>1. invoice' = [i \in Invoices |-> invoice'[i]]
    BY <1>1 DEF SweptOverdue
  <2>2. QED
    BY <1>2, <2>1
<1>4. QED
  BY <1>2, <1>3

LEMMA SurroundingsTypes ==
  ASSUME TypeOK, Surroundings
  PROVE  TypeOK'
<1> USE InvoiceTableAssumption, MonthlyBillingAssumption
<1>1. CASE NextMonth
  BY <1>1 DEF TypeOK, NextMonth, Months
<1>2. ASSUME NEW m \in Months, EnergyArrives(m)
      PROVE  TypeOK'
  <2>1. energy' \in [Months -> 0..DaysInMonth]
    BY <1>2 DEF TypeOK, EnergyArrives
  <2>2. QED
    BY <1>2, <2>1 DEF TypeOK, EnergyArrives
<1>3. ASSUME NEW i \in Invoices, NEW amount \in Kwh, PaymentLands(i, amount)
      PROVE  TypeOK'
  <2> DEFINE paid == NextPaid(i, amount)
             status == IF paid >= invoice[i].total THEN "PAID" ELSE "PARTIAL"
  <2>1. /\ invoice[i] \in InvoiceRow /\ invoice[i].paid \in 0..MaxTotal
        /\ invoice[i].total \in 0..MaxTotal
    BY DEF TypeOK, InvoiceRow
  <2>2. paid \in 0..MaxTotal
    BY <1>3, <2>1 DEF NextPaid, Kwh
  <2>3. status \in InvoiceStatus
    BY DEF InvoiceStatus
  <2>4. Credited(invoice[i], paid, status) \in InvoiceRow
    BY <2>1, <2>2, <2>3, CreditedRow
  <2>5. /\ invoice' = [invoice EXCEPT ![i] = Credited(invoice[i], paid, status)]
        /\ UNCHANGED <<record, job, energy, now>>
    BY <1>3 DEF PaymentLands, TypeOK
  <2> HIDE DEF paid, status
  <2>6. QED
    BY <2>4, <2>5 DEF TypeOK
<1>4. ASSUME NEW late \in SUBSET Invoices, RefreshOverdue(late)
      PROVE  TypeOK'
  <2>1. invoice' \in [Invoices -> InvoiceRow]
    BY <1>4, SweptTable DEF RefreshOverdue
  <2>2. QED
    BY <1>4, <2>1 DEF RefreshOverdue, TypeOK
<1>5. QED
  BY <1>1, <1>2, <1>3, <1>4 DEF Surroundings

LEMMA TypeStep == TypeOK /\ [Next]_vars => TypeOK'
<1> SUFFICES ASSUME TypeOK, [Next]_vars PROVE TypeOK'
  OBVIOUS
<1>1. ASSUME NEW p \in Procs, Abort(p) \/ Refused(p) PROVE TypeOK'
  <2>1. Become(p, Idle) /\ UNCHANGED <<invoice, record, energy, now>>
    BY <1>1 DEF Abort, Refused
  <2>2. QED
    BY <2>1, IdleIsJob, TypeOfStep
<1>2. CASE UNCHANGED vars
  BY <1>2 DEF vars, TypeOK
<1>3. QED
  BY <1>1, <1>2, SyncTypes, UpdateTypes, RemoveTypes, PeriodErrorTypes, RefreshTypes, GenerateTypes,
     SurroundingsTypes DEF Next, Jobs

LEMMA InitTypeOK == Init => TypeOK
<1> SUFFICES ASSUME Init PROVE TypeOK
  OBVIOUS
<1> USE InvoiceTableAssumption, MonthlyBillingAssumption
<1>1. NoRow \in InvoiceRow
  BY DEF NoRow, InvoiceRow
<1>2. NoRecord \in RecordRow
  BY DEF NoRecord, RecordRow, Kwh, Quality, Workflow
<1>3. QED
  BY <1>1, <1>2, IdleIsJob DEF Init, TypeOK, Months

(* The tables and the jobs keep the types they are declared with. *)
THEOREM TypeCorrect == Spec => []TypeOK
  BY InitTypeOK, TypeStep, PTL DEF Spec

-----------------------------------------------------------------------------
(* Only closed months are billed, whatever jobs interleave or fail, as long *)
(* as no record is moved to another month.  generateInvoice checks the      *)
(* month once and writes the invoice many awaits later, from a row it has   *)
(* read in between; what makes this safe is that the month of a record      *)
(* never changes, so that the check still holds of whatever is written.     *)

JobKnowsMonth(p) ==
  LET j == job[p] IN
  /\ j.pc \in {"update_check", "update_write"} =>
       record[j.rec].state # "absent" /\ record[j.rec].month = j.month
  /\ j.pc \in {"load", "assess", "refresh_write"} =>
       /\ record[j.rec].state # "absent"
       /\ j.next = "invoice" => record[j.rec].month < now
  /\ j.pc \in {"gen_check", "gen_draft", "gen_link"} =>
       record[j.rec].state # "absent" /\ record[j.rec].month < now
  /\ j.pc \in {"gen_issue", "gen_record", "error_write"} => record[j.rec].state # "absent"
  /\ j.pc \in {"link", "gen_check", "gen_draft"} => j.row.month < now

BillsArePast == \A i \in Invoices : invoice[i].month < now     \* NoRow has month 0

BilledRowsArePast ==
  \A k \in Records : record[k].inv # NoInvoice =>
    record[k].state # "absent" /\ record[k].month < now

MonthInv ==
  /\ TypeOK
  /\ BillsArePast
  /\ BilledRowsArePast
  /\ \A p \in Procs : JobKnowsMonth(p)

RowsKept ==
  \A k \in Records : record[k].state # "absent" =>
    record'[k].state # "absent" /\ record'[k].month = record[k].month

(* A job that is not taking the step still knows what it knew. *)
LEMMA OtherJobs ==
  ASSUME MonthInv, RowsKept, now' = now, NEW o \in Procs, job'[o] = job[o]
  PROVE  JobKnowsMonth(o)'
<1>1. job[o] \in Job /\ JobKnowsMonth(o)
  BY DEF MonthInv, TypeOK
<1>2. job[o].pc \in {"update_check", "update_write", "load", "assess", "refresh_write",
                    "gen_check", "gen_draft", "gen_link", "gen_issue", "gen_record",
                    "error_write"} =>
        job[o].rec \in Records
  BY <1>1, JobFields
<1>3. QED
  BY <1>1, <1>2 DEF JobKnowsMonth, RowsKept

LEMMA MonthInvOfStep ==
  ASSUME MonthInv, TypeOK', RowsKept, BillsArePast', BilledRowsArePast', now' = now,
         NEW p \in Procs, NEW q, Become(p, q), JobKnowsMonth(p)'
  PROVE  MonthInv'
<1>1. \A o \in Procs : JobKnowsMonth(o)'
  <2> SUFFICES ASSUME NEW o \in Procs PROVE JobKnowsMonth(o)'
    OBVIOUS
  <2>1. CASE o = p
    BY <2>1
  <2>2. CASE o # p
    BY <2>2, OtherJobs DEF Become, MonthInv, TypeOK
  <2>3. QED
    BY <2>1, <2>2
<1>2. QED
  BY <1>1 DEF MonthInv

(* A statement that writes one row of MonthlyPvBilling. *)
LEMMA RowWritten ==
  ASSUME MonthInv, NEW k \in Records, NEW row \in RecordRow,
         record' = [record EXCEPT ![k] = row], now' = now,
         row.state # "absent",
         record[k].state # "absent" => row.month = record[k].month,
         row.inv # NoInvoice => row.month < now
  PROVE  RowsKept /\ BilledRowsArePast'
  BY DEF MonthInv, TypeOK, RowsKept, BilledRowsArePast

(* A statement that writes one row of Invoice. *)
LEMMA BillWritten ==
  ASSUME MonthInv, NEW i \in Invoices, NEW bill \in InvoiceRow,
         invoice' = [invoice EXCEPT ![i] = bill], now' = now,
         bill.month < now
  PROVE  BillsArePast'
  BY DEF MonthInv, TypeOK, BillsArePast

LEMMA TablesUntouched ==
  ASSUME MonthInv, TypeOK', UNCHANGED <<invoice, record, now>>,
         NEW p \in Procs, NEW q, Become(p, q), JobKnowsMonth(p)'
  PROVE  MonthInv'
<1>1. RowsKept
  BY DEF RowsKept
<1>2. BillsArePast' /\ BilledRowsArePast'
  BY DEF MonthInv, BillsArePast, BilledRowsArePast
<1>3. QED
  BY <1>1, <1>2, MonthInvOfStep

(* The job a step leaves behind. *)
LEMMA NextJob ==
  ASSUME TypeOK, NEW p \in Procs, NEW q, Become(p, q)
  PROVE  job'[p] = q
  BY DEF TypeOK, Become

LEMMA SyncMonths ==
  ASSUME MonthInv, TypeOK', NEW p \in Procs, Sync(p)
  PROVE  MonthInv'
<1>a. TypeOK /\ job[p] \in Job
  BY DEF MonthInv, TypeOK
<1>1. ASSUME NEW actor \in Actor, NEW m \in Months, NEW pv \in Kwh, SyncRead(p, actor, m, pv)
      PROVE  MonthInv'
  <2>1. PICK q : Become(p, q) /\ q.pc = "sync_amounts"
    BY <1>1 DEF SyncRead
  <2>2. JobKnowsMonth(p)'
    BY <1>a, <2>1, NextJob DEF JobKnowsMonth
  <2>3. QED
    BY <1>1, <2>1, <2>2, TablesUntouched DEF SyncRead
<1>2. ASSUME SyncAmounts(p)
      PROVE  MonthInv'
  <2>1. PICK q : Become(p, q) /\ q.pc = "sync_upsert"
    BY <1>2 DEF SyncAmounts
  <2>2. JobKnowsMonth(p)'
    BY <1>a, <2>1, NextJob DEF JobKnowsMonth
  <2>3. QED
    BY <1>2, <2>1, <2>2, TablesUntouched DEF SyncAmounts
<1>3. ASSUME NEW k \in Records, SyncUpdate(p, k) \/ SyncInsert(p, k)
      PROVE  MonthInv'
  <2> DEFINE j == job[p]
             q == Load(k, j.actor, "link")
  <2>1. j.month \in Months /\ j.kwh \in Kwh /\ j.manual \in Kwh
    BY <1>3, <1>a, JobFields, InvoiceTableAssumption DEF SyncUpdate, SyncInsert, Kwh
  <2>2. record[k] \in RecordRow
    BY <1>a DEF TypeOK
  <2>3. /\ Become(p, q) /\ UNCHANGED <<invoice, energy, now>>
    BY <1>3 DEF SyncUpdate, SyncInsert
  <2>4. \E row \in RecordRow :
          /\ record' = [record EXCEPT ![k] = row]
          /\ row.state = "live"
          /\ record[k].state # "absent" => row.month = record[k].month
          /\ row.inv # NoInvoice => row.month < now
    <3>1. CASE SyncUpdate(p, k)
      <4> DEFINE row == Synced(record[k], j.kwh, j.manual)
      <4>1. record' = [record EXCEPT ![k] = row]
        BY <1>a, <3>1 DEF SyncUpdate, TypeOK
      <4>2. row \in RecordRow /\ row.state = "live" /\ row.month = record[k].month
             /\ row.inv = record[k].inv
        BY <2>1, <2>2, SyncedRow
      <4>3. row.inv # NoInvoice => row.month < now
        BY <4>2 DEF MonthInv, BilledRowsArePast
      <4>4. QED
        BY <4>1, <4>2, <4>3
    <3>2. CASE SyncInsert(p, k)
      <4> DEFINE row == Created(j.month, j.kwh, j.manual)
      <4>1. record' = [record EXCEPT ![k] = row] /\ record[k].state = "absent"
        BY <1>a, <3>2 DEF SyncInsert, TypeOK
      <4>2. row \in RecordRow /\ row.state = "live" /\ row.inv = NoInvoice
        BY <2>1, CreatedRow
      <4>3. QED
        BY <4>1, <4>2
    <3>3. QED
      BY <1>3, <3>1, <3>2
  <2>5. RowsKept /\ BilledRowsArePast' /\ record'[k].state # "absent"
    BY <1>a, <2>3, <2>4, RowWritten DEF TypeOK
  <2>6. JobKnowsMonth(p)'
    BY <1>a, <2>3, <2>5, NextJob DEF JobKnowsMonth, Load
  <2>7. BillsArePast'
    BY <2>3 DEF MonthInv, BillsArePast
  <2> HIDE DEF q
  <2>8. QED
    BY <2>3, <2>5, <2>6, <2>7, MonthInvOfStep
<1>4. QED
  BY <1>1, <1>2, <1>3 DEF Sync

LEMMA UpdateMonths ==
  ASSUME ~AllowPeriodMove, MonthInv, TypeOK', NEW p \in Procs, Update(p)
  PROVE  MonthInv'
<1>a. TypeOK /\ job[p] \in Job
  BY DEF MonthInv, TypeOK
<1> DEFINE j == job[p]
<1>1. ASSUME NEW k \in Records, NEW m \in Months, NEW pv \in Kwh, NEW clear \in BOOLEAN,
             UpdateRead(p, k, m, pv, clear)
      PROVE  MonthInv'
  <2>1. PICK q : Become(p, q) /\ q.pc = "update_check" /\ q.rec = k /\ q.month = m
    BY <1>1 DEF UpdateRead
  <2>2. record[k].state # "absent" /\ record[k].month = m /\ record' = record
    BY <1>1 DEF UpdateRead
  <2>3. JobKnowsMonth(p)'
    BY <1>a, <2>1, <2>2, NextJob DEF JobKnowsMonth
  <2>4. QED
    BY <1>1, <2>1, <2>3, TablesUntouched DEF UpdateRead
<1>2. ASSUME UpdateCheck(p)
      PROVE  MonthInv'
  <2>1. PICK q : Become(p, q) /\ q.pc = "update_write" /\ q.rec = j.rec /\ q.month = j.month
    BY <1>2 DEF UpdateCheck
  <2>2. record[j.rec].state # "absent" /\ record[j.rec].month = j.month /\ record' = record
    BY <1>2 DEF UpdateCheck, MonthInv, JobKnowsMonth
  <2>3. JobKnowsMonth(p)'
    BY <1>a, <2>1, <2>2, NextJob DEF JobKnowsMonth
  <2>4. QED
    BY <1>2, <2>1, <2>3, TablesUntouched DEF UpdateCheck
<1>3. ASSUME UpdateWrite(p)
      PROVE  MonthInv'
  <2> DEFINE row == Updated(record[j.rec], j.month, j.kwh, j.manual)
             q == Load(j.rec, "admin", "link")
  <2>1. j.rec \in Records /\ j.month \in Months /\ j.manual \in Kwh /\ j.kwh \in Kwh
    BY <1>3, <1>a, JobFields, InvoiceTableAssumption DEF UpdateWrite, Kwh
  <2>2. record[j.rec].state # "absent" /\ record[j.rec].month = j.month
    BY <1>3 DEF UpdateWrite, MonthInv, JobKnowsMonth
  <2>3. /\ row \in RecordRow /\ row.month = j.month /\ row.inv = record[j.rec].inv
        /\ row.state = record[j.rec].state
    <3>1. record[j.rec] \in RecordRow
      BY <1>a, <2>1 DEF TypeOK
    <3>2. QED
      BY <2>1, <3>1, UpdatedRow
  <2>4. row.inv # NoInvoice => row.month < now
    BY <2>1, <2>2, <2>3 DEF MonthInv, BilledRowsArePast
  <2>5. /\ record' = [record EXCEPT ![j.rec] = row]
        /\ Become(p, q) /\ UNCHANGED <<invoice, energy, now>>
    BY <1>a, <1>3, <2>1 DEF UpdateWrite, TypeOK
  <2> HIDE DEF row
  <2>6. RowsKept /\ BilledRowsArePast'
    BY <2>1, <2>2, <2>3, <2>4, <2>5, RowWritten
  <2>7. record'[j.rec].state # "absent"
    BY <2>1, <2>2, <2>6 DEF RowsKept
  <2>8. JobKnowsMonth(p)'
    BY <1>a, <2>5, <2>7, NextJob DEF JobKnowsMonth, Load
  <2>9. BillsArePast'
    BY <2>5 DEF MonthInv, BillsArePast
  <2> HIDE DEF q
  <2>10. QED
    BY <2>5, <2>6, <2>8, <2>9, MonthInvOfStep
<1>4. QED
  BY <1>1, <1>2, <1>3 DEF Update

LEMMA RemoveMonths ==
  ASSUME MonthInv, TypeOK', NEW p \in Procs, Remove(p)
  PROVE  MonthInv'
<1>a. TypeOK /\ job[p] \in Job
  BY DEF MonthInv, TypeOK
<1>1. ASSUME NEW k \in Records, RemoveRead(p, k)
      PROVE  MonthInv'
  <2>1. PICK q : Become(p, q) /\ q.pc = "remove_write"
    BY <1>1 DEF RemoveRead
  <2>2. JobKnowsMonth(p)'
    BY <1>a, <2>1, NextJob DEF JobKnowsMonth
  <2>3. QED
    BY <1>1, <2>1, <2>2, TablesUntouched DEF RemoveRead
<1>2. ASSUME RemoveWrite(p)
      PROVE  MonthInv'
  <2> DEFINE k == job[p].rec
             row == Removed(record[k])
  <2>1. k \in Records
    BY <1>2, <1>a, JobFields DEF RemoveWrite
  <2>2. /\ row \in RecordRow /\ row.state = "deleted" /\ row.month = record[k].month
        /\ row.inv = record[k].inv
    BY <1>a, <2>1, RemovedRow DEF TypeOK
  <2>3. /\ record' = [record EXCEPT ![k] = row]
        /\ Become(p, Idle) /\ UNCHANGED <<invoice, energy, now>>
    BY <1>a, <1>2, <2>1 DEF RemoveWrite, TypeOK
  <2>4. row.inv # NoInvoice => row.month < now
    BY <2>1, <2>2 DEF MonthInv, BilledRowsArePast
  <2> HIDE DEF row
  <2>5. RowsKept /\ BilledRowsArePast'
    BY <2>1, <2>2, <2>3, <2>4, RowWritten
  <2>6. JobKnowsMonth(p)'
    BY <1>a, <2>3, NextJob DEF JobKnowsMonth, Idle
  <2>7. BillsArePast'
    BY <2>3 DEF MonthInv, BillsArePast
  <2>8. QED
    BY <2>3, <2>5, <2>6, <2>7, MonthInvOfStep
<1>3. QED
  BY <1>1, <1>2 DEF Remove

LEMMA PeriodErrorMonths ==
  ASSUME MonthInv, TypeOK', NEW p \in Procs, PeriodError(p)
  PROVE  MonthInv'
<1>a. TypeOK /\ job[p] \in Job /\ JobKnowsMonth(p)
  BY DEF MonthInv, TypeOK
<1>1. ASSUME NEW k \in Records, PeriodFails(p, k)
      PROVE  MonthInv'
  <2>1. /\ Become(p, [pc |-> "error_write", rec |-> k])
        /\ UNCHANGED <<invoice, record, now>>
        /\ record[k].state # "absent"
    BY <1>1 DEF PeriodFails, RowOf
  <2>2. JobKnowsMonth(p)'
    BY <1>a, <2>1, NextJob DEF JobKnowsMonth
  <2>3. QED
    BY <2>1, <2>2, TablesUntouched
<1>2. ASSUME MarkPeriodError(p)
      PROVE  MonthInv'
  <2> DEFINE k == job[p].rec
             row == Assessed(record[k], "ERROR", "PENDING_REVIEW", record[k].finalized)
  <2>1. k \in Records /\ record[k].state # "absent"
    BY <1>2, <1>a, JobFields DEF MarkPeriodError, JobKnowsMonth
  <2>2. /\ row \in RecordRow /\ row.state = record[k].state /\ row.month = record[k].month
        /\ row.inv = record[k].inv
    BY <1>a, <2>1, ErrorRow DEF TypeOK
  <2>3. /\ record' = [record EXCEPT ![k] = row]
        /\ Become(p, Idle) /\ UNCHANGED <<invoice, energy, now>>
    BY <1>a, <1>2, <2>1 DEF MarkPeriodError, TypeOK
  <2>4. row.inv # NoInvoice => row.month < now
    BY <2>1, <2>2 DEF MonthInv, BilledRowsArePast
  <2> HIDE DEF row
  <2>5. RowsKept /\ BilledRowsArePast'
    BY <2>1, <2>2, <2>3, <2>4, RowWritten
  <2>6. JobKnowsMonth(p)'
    BY <1>a, <2>3, NextJob DEF JobKnowsMonth, Idle
  <2>7. BillsArePast'
    BY <2>3 DEF MonthInv, BillsArePast
  <2>8. QED
    BY <2>3, <2>5, <2>6, <2>7, MonthInvOfStep
<1>3. QED
  BY <1>1, <1>2 DEF PeriodError

LEMMA RefreshMonths ==
  ASSUME MonthInv, TypeOK', NEW p \in Procs, Refresh(p)
  PROVE  MonthInv'
<1>a. TypeOK /\ job[p] \in Job /\ JobKnowsMonth(p)
  BY DEF MonthInv, TypeOK
<1> DEFINE j == job[p]
<1>1. ASSUME RefreshLoad(p)
      PROVE  MonthInv'
  <2>1. PICK q : Become(p, q) /\ q.pc = "assess" /\ q.rec = j.rec /\ q.next = j.next
    BY <1>1 DEF RefreshLoad
  <2>2. JobKnowsMonth(p)'
    BY <1>1, <1>a, <2>1, NextJob DEF RefreshLoad, JobKnowsMonth
  <2>3. QED
    BY <1>1, <2>1, <2>2, TablesUntouched DEF RefreshLoad
<1>2. ASSUME NEW broken \in BOOLEAN, RefreshAssess(p, broken)
      PROVE  MonthInv'
  <2>1. PICK row, q : q = [j EXCEPT !.pc = "refresh_write", !.row = row] /\ Become(p, q)
    BY <1>2 DEF RefreshAssess
  <2>2. j \in [pc : {"assess"}, rec : Records, actor : Actor, next : Then, row : RecordRow,
                status : LinkedStatus]
    BY <1>2, <1>a DEF RefreshAssess, Job, Idle
  <2>3. q.pc = "refresh_write" /\ q.rec = j.rec /\ q.next = j.next
    <3> HIDE DEF j
    <3>1. QED
      BY <2>1, <2>2
  <2>4. JobKnowsMonth(p)'
    BY <1>2, <1>a, <2>1, <2>3, NextJob DEF RefreshAssess, JobKnowsMonth
  <2>5. QED
    BY <1>2, <2>1, <2>4, TablesUntouched DEF RefreshAssess
<1>3. ASSUME RefreshWrite(p)
      PROVE  MonthInv'
  <2> DEFINE k == j.rec
             written == Assessed(record[k], j.row.quality, j.row.workflow, j.row.finalized)
             q(pc) == [j EXCEPT !.pc = pc, !.row = written, !.status = StatusOf(written.inv)]
  <2>1. k \in Records /\ j.row \in RecordRow /\ record[k] \in RecordRow
    BY <1>3, <1>a, JobFields DEF RefreshWrite, TypeOK
  <2>2. /\ written \in RecordRow /\ written.month = record[k].month
        /\ written.inv = record[k].inv /\ written.state = record[k].state
    <3>1. /\ j.row.quality \in Quality /\ j.row.workflow \in Workflow
          /\ j.row.finalized \in {"no", "yes"}
      BY <2>1 DEF RecordRow
    <3>2. QED
      BY <2>1, <3>1, AssessedRow
  <2>3. /\ record[k].state # "absent"
        /\ j.next = "invoice" => record[k].month < now
        /\ record[k].inv # NoInvoice => record[k].month < now
    BY <1>3, <1>a, <2>1 DEF RefreshWrite, JobKnowsMonth, MonthInv, BilledRowsArePast
  <2>4. /\ record' = [record EXCEPT ![k] = written]
        /\ UNCHANGED <<invoice, energy, now>>
        /\ \/ Become(p, q("link")) /\ written.inv # NoInvoice
           \/ Become(p, q("gen_check")) /\ j.next = "invoice"
           \/ Become(p, Idle)
    BY <1>3 DEF RefreshWrite
  <2>5. j \in [pc : {"refresh_write"}, rec : Records, actor : Actor, next : Then, row : RecordRow,
                status : LinkedStatus]
    BY <1>3, <1>a DEF RefreshWrite, Job, Idle
  <2>6. \A pc \in {"link", "gen_check"} :
          q(pc).pc = pc /\ q(pc).rec = k /\ q(pc).row = written
    <3> HIDE DEF written, j
    <3>1. QED
      BY <2>5
  <2> HIDE DEF written, q
  <2>7. RowsKept /\ BilledRowsArePast'
    BY <2>1, <2>2, <2>3, <2>4, RowWritten
  <2>8. record'[k].state # "absent" /\ record'[k].month = record[k].month
    BY <2>1, <2>3, <2>7 DEF RowsKept
  <2>9. BillsArePast'
    BY <2>4 DEF MonthInv, BillsArePast
  <2>10. PICK s : /\ Become(p, s)
                  /\ \/ s.pc = "link" /\ s.row = written /\ written.inv # NoInvoice
                     \/ s.pc = "gen_check" /\ s.row = written /\ s.rec = k /\ j.next = "invoice"
                     \/ s.pc = "idle"
    BY <2>4, <2>6 DEF Idle
  <2>11. JobKnowsMonth(p)'
    <3>1. job'[p] = s /\ now' = now
      BY <1>a, <2>4, <2>10, NextJob
    <3> HIDE DEF k, j
    <3>2. QED
      BY <2>2, <2>3, <2>8, <2>10, <3>1 DEF JobKnowsMonth
  <2>12. QED
    BY <2>4, <2>7, <2>9, <2>10, <2>11, MonthInvOfStep
<1>4. ASSUME NEW k \in Records, record[k].state # "absent", Become(p, Load(k, "auto", "done")),
             UNCHANGED <<invoice, record, energy, now>>
      PROVE  MonthInv'
  <2>1. JobKnowsMonth(p)'
    BY <1>4, <1>a, NextJob DEF JobKnowsMonth, Load
  <2>2. QED
    BY <1>4, <2>1, TablesUntouched
<1>5. ASSUME NEW k \in Records, RefreshHistory(p, k)
      PROVE  MonthInv'
  BY <1>4, <1>5 DEF RefreshHistory
<1>6. ASSUME NEW k \in Records, PeriodCreate(p, k)
      PROVE  MonthInv'
  <2> DEFINE row == Created(j.month, j.kwh, 0)
  <2>1. j.month \in Months /\ j.kwh \in Kwh /\ 0 \in Kwh
    BY <1>6, <1>a, JobFields, InvoiceTableAssumption DEF PeriodCreate, Kwh
  <2>2. row \in RecordRow /\ row.state = "live" /\ row.inv = NoInvoice
    BY <2>1, CreatedRow
  <2>3. /\ record' = [record EXCEPT ![k] = row] /\ record[k].state = "absent"
        /\ Become(p, Load(k, "auto", "done")) /\ UNCHANGED <<invoice, energy, now>>
    BY <1>6 DEF PeriodCreate
  <2> HIDE DEF row
  <2>4. RowsKept /\ BilledRowsArePast' /\ record'[k].state # "absent"
    BY <1>a, <2>2, <2>3, RowWritten DEF TypeOK
  <2>5. JobKnowsMonth(p)'
    BY <1>a, <2>3, <2>4, NextJob DEF JobKnowsMonth, Load
  <2>6. BillsArePast'
    BY <2>3 DEF MonthInv, BillsArePast
  <2>7. QED
    BY <2>3, <2>4, <2>5, <2>6, MonthInvOfStep
<1>7. ASSUME NEW m \in Months, RefreshPeriod(p, m)
      PROVE  MonthInv'
  <2>1. ASSUME NEW k \in RowOf(m), Become(p, Load(k, "auto", "done"))
        PROVE  MonthInv'
    <3>1. k \in Records /\ record[k].state # "absent"
      BY DEF RowOf
    <3>2. QED
      BY <1>4, <1>7, <2>1, <3>1 DEF RefreshPeriod
  <2>2. ASSUME NEW q, Become(p, q), q.pc = "period_create"
        PROVE  MonthInv'
    <3>1. JobKnowsMonth(p)'
      BY <1>a, <2>2, NextJob DEF JobKnowsMonth
    <3>2. QED
      BY <1>7, <2>2, <3>1, TablesUntouched DEF RefreshPeriod
  <2>3. QED
    BY <1>7, <2>1, <2>2 DEF RefreshPeriod
<1>8. ASSUME SyncLinkedInvoice(p)
      PROVE  MonthInv'
  <2> DEFINE status == IF j.row.workflow \in {"PENDING_REVIEW", "DRAFT"} THEN j.row.workflow ELSE j.status
             bill == Recalculated(invoice[j.row.inv], j.row.month, j.row.kwh, status)
  <2>1. /\ Become(p, Idle) /\ UNCHANGED <<record, energy, now>>
        /\ invoice' = invoice \/ invoice' = [invoice EXCEPT ![j.row.inv] = bill]
    BY <1>8 DEF SyncLinkedInvoice
  <2>2. j.row \in RecordRow /\ j.status \in LinkedStatus /\ j.row.month < now
    BY <1>8, <1>a, JobFields DEF SyncLinkedInvoice, JobKnowsMonth
  <2>3. /\ j.row.month \in 0..MaxMonth /\ j.row.kwh \in Kwh
        /\ j.row.inv \in Invoices \cup {NoInvoice} /\ status \in LinkedStatus
    BY <2>2 DEF RecordRow, LinkedStatus, InvoiceStatus
  <2>4. BillsArePast'
    <3>1. CASE invoice' = invoice
      BY <2>1, <3>1 DEF MonthInv, BillsArePast
    <3>2. CASE j.row.inv \in Invoices /\ invoice' = [invoice EXCEPT ![j.row.inv] = bill]
      <4>1. invoice[j.row.inv] \in InvoiceRow
        BY <1>a, <3>2 DEF TypeOK
      <4>2. bill \in InvoiceRow /\ bill.month = j.row.month
        <5> HIDE DEF status
        <5>1. QED
          BY <2>3, <4>1, RecalculatedRow
      <4> HIDE DEF bill
      <4>3. QED
        BY <2>1, <2>2, <3>2, <4>2, BillWritten
    <3>3. CASE j.row.inv = NoInvoice /\ invoice' = [invoice EXCEPT ![j.row.inv] = bill]
      <4>1. invoice' = invoice
        <5> HIDE DEF bill
        <5>1. QED
          BY <1>a, <3>3, MonthlyBillingAssumption DEF TypeOK
      <4>2. QED
        BY <3>1, <4>1
    <3>4. QED
      BY <2>1, <2>3, <3>1, <3>2, <3>3
  <2>5. RowsKept /\ BilledRowsArePast'
    BY <2>1 DEF MonthInv, RowsKept, BilledRowsArePast
  <2>6. JobKnowsMonth(p)'
    BY <1>a, <2>1, NextJob DEF JobKnowsMonth, Idle
  <2>7. QED
    BY <2>1, <2>4, <2>5, <2>6, MonthInvOfStep
<1>9. QED
  BY <1>1, <1>2, <1>3, <1>5, <1>6, <1>7, <1>8 DEF Refresh

LEMMA GenerateMonths ==
  ASSUME MonthInv, TypeOK', NEW p \in Procs, Generate(p)
  PROVE  MonthInv'
<1>a. TypeOK /\ job[p] \in Job /\ JobKnowsMonth(p)
  BY DEF MonthInv, TypeOK
<1> DEFINE j == job[p]
<1>1. ASSUME NEW actor \in Actor, NEW k \in Records, GenerateInvoice(p, actor, k)
      PROVE  MonthInv'
  <2>1. JobKnowsMonth(p)'
    BY <1>1, <1>a, NextJob DEF GenerateInvoice, JobKnowsMonth, Load, Past
  <2>2. QED
    BY <1>1, <2>1, TablesUntouched DEF GenerateInvoice
<1>2. ASSUME GenerateCheck(p)
      PROVE  MonthInv'
  <2>1. j \in [pc : {"gen_check"}, rec : Records, actor : Actor, next : Then, row : RecordRow,
                status : LinkedStatus]
    BY <1>2, <1>a DEF GenerateCheck, Job, Idle
  <2>2. PICK q : q = [j EXCEPT !.pc = "gen_draft"] /\ Become(p, q)
    BY <1>2 DEF GenerateCheck
  <2>3. q.pc = "gen_draft" /\ q.rec = j.rec /\ q.row = j.row
    <3> HIDE DEF j
    <3>1. QED
      BY <2>1, <2>2
  <2>4. JobKnowsMonth(p)'
    BY <1>2, <1>a, <2>2, <2>3, NextJob DEF GenerateCheck, JobKnowsMonth
  <2>5. QED
    BY <1>2, <2>2, <2>4, TablesUntouched DEF GenerateCheck
<1>3. ASSUME NEW i \in Invoices, WriteDraft(p, i)
      PROVE  MonthInv'
  <2> DEFINE bill == DraftOf(j.row, invoice[i].paid)
  <2>1. PICK q : Become(p, q) /\ q.pc = "gen_link" /\ q.rec = j.rec
    BY <1>3 DEF WriteDraft
  <2>2. /\ UNCHANGED <<record, energy, now>>
        /\ invoice' = [invoice EXCEPT ![i] = bill]
    BY <1>3, <1>a DEF WriteDraft, TypeOK
  <2>3. j.row \in RecordRow /\ j.row.month < now
    BY <1>3, <1>a, JobFields DEF WriteDraft, JobKnowsMonth
  <2>4. bill \in InvoiceRow /\ bill.month = j.row.month
    <3>1. invoice[i].paid \in 0..MaxTotal
      BY <1>a DEF TypeOK, InvoiceRow
    <3>2. QED
      BY <2>3, <3>1, DraftRow
  <2> HIDE DEF bill
  <2>5. BillsArePast'
    BY <2>2, <2>3, <2>4, BillWritten
  <2>6. RowsKept /\ BilledRowsArePast'
    BY <2>2 DEF MonthInv, RowsKept, BilledRowsArePast
  <2>7. JobKnowsMonth(p)'
    BY <1>3, <1>a, <2>1, <2>2, NextJob DEF WriteDraft, JobKnowsMonth
  <2>8. QED
    BY <2>1, <2>2, <2>5, <2>6, <2>7, MonthInvOfStep
<1>4. ASSUME LinkDraft(p)
      PROVE  MonthInv'
  <2> DEFINE k == j.rec
             row == Linked(record[k], j.inv)
  <2>1. k \in Records /\ j.inv \in Invoices
    BY <1>4, <1>a, JobFields DEF LinkDraft
  <2>2. /\ record' = [record EXCEPT ![k] = row]
        /\ UNCHANGED <<invoice, energy, now>>
    BY <1>4, <1>a, <2>1 DEF LinkDraft, TypeOK
  <2>3. PICK q : q = [j EXCEPT !.pc = "gen_issue"] /\ Become(p, q)
    BY <1>4 DEF LinkDraft
  <2>4. q.pc = "gen_issue" /\ q.rec = k
    <3>1. j \in [pc : {"gen_link"}, rec : Records, actor : Actor, row : RecordRow, inv : Invoices]
      BY <1>4, <1>a DEF LinkDraft, Job, Idle
    <3> HIDE DEF j
    <3>2. QED
      BY <2>3, <3>1
  <2>5. record[k].state # "absent" /\ record[k].month < now
    BY <1>4, <1>a DEF LinkDraft, JobKnowsMonth
  <2>6. row \in RecordRow /\ row.month = record[k].month /\ row.state = record[k].state
    <3>1. record[k] \in RecordRow
      BY <1>a, <2>1 DEF TypeOK
    <3>2. QED
      BY <2>1, <3>1, LinkedRow
  <2> HIDE DEF row
  <2>7. RowsKept /\ BilledRowsArePast'
    BY <2>1, <2>2, <2>5, <2>6, RowWritten
  <2>8. BillsArePast'
    BY <2>2 DEF MonthInv, BillsArePast
  <2>9. JobKnowsMonth(p)'
    BY <1>a, <2>1, <2>3, <2>4, <2>5, <2>7, NextJob DEF JobKnowsMonth, RowsKept
  <2>10. QED
    BY <2>2, <2>3, <2>7, <2>8, <2>9, MonthInvOfStep
<1>5. ASSUME IssueInvoice(p)
      PROVE  MonthInv'
  <2> DEFINE bill == Transitioned(invoice[j.inv], TargetStatus(j))
  <2>1. j.inv \in Invoices
    BY <1>5, <1>a, JobFields DEF IssueInvoice
  <2>2. PICK q : Become(p, q) /\ q.pc = "gen_record" /\ q.rec = j.rec
    BY <1>5 DEF IssueInvoice
  <2>3. /\ UNCHANGED <<record, energy, now>>
        /\ invoice' = [invoice EXCEPT ![j.inv] = bill]
    BY <1>5, <1>a, <2>1 DEF IssueInvoice, TypeOK
  <2>4. bill \in InvoiceRow /\ bill.month = invoice[j.inv].month
    <3>1. TargetStatus(j) \in LinkedStatus
      BY DEF TargetStatus, LinkedStatus, InvoiceStatus
    <3>2. invoice[j.inv] \in InvoiceRow
      BY <1>a, <2>1 DEF TypeOK
    <3>3. QED
      BY <3>1, <3>2, TransitionedRow
  <2>5. invoice[j.inv].month < now
    BY <2>1 DEF MonthInv, BillsArePast
  <2> HIDE DEF bill
  <2>6. BillsArePast'
    BY <2>1, <2>3, <2>4, <2>5, BillWritten
  <2>7. RowsKept /\ BilledRowsArePast'
    BY <2>3 DEF MonthInv, RowsKept, BilledRowsArePast
  <2>8. JobKnowsMonth(p)'
    BY <1>5, <1>a, <2>2, <2>3, NextJob DEF IssueInvoice, JobKnowsMonth
  <2>9. QED
    BY <2>2, <2>3, <2>6, <2>7, <2>8, MonthInvOfStep
<1>6. ASSUME RecordInvoiced(p)
      PROVE  MonthInv'
  <2> DEFINE k == j.rec
             row == Invoiced(record[k], j.workflow)
  <2>1. k \in Records /\ j.workflow \in Workflow
    BY <1>6, <1>a, JobFields DEF RecordInvoiced, Workflow, InvoiceStatus
  <2>2. /\ record' = [record EXCEPT ![k] = row]
        /\ Become(p, Idle) /\ UNCHANGED <<invoice, energy, now>>
    BY <1>6, <1>a, <2>1 DEF RecordInvoiced, TypeOK
  <2>3. record[k].state # "absent"
    BY <1>6, <1>a DEF RecordInvoiced, JobKnowsMonth
  <2>4. /\ row \in RecordRow /\ row.month = record[k].month /\ row.state = record[k].state
        /\ row.inv = record[k].inv
    <3>1. record[k] \in RecordRow
      BY <1>a, <2>1 DEF TypeOK
    <3>2. QED
      BY <2>1, <3>1, InvoicedRow
  <2>5. row.inv # NoInvoice => row.month < now
    BY <2>1, <2>4 DEF MonthInv, BilledRowsArePast
  <2> HIDE DEF row
  <2>6. RowsKept /\ BilledRowsArePast'
    BY <2>1, <2>2, <2>3, <2>4, <2>5, RowWritten
  <2>7. BillsArePast'
    BY <2>2 DEF MonthInv, BillsArePast
  <2>8. JobKnowsMonth(p)'
    BY <1>a, <2>2, NextJob DEF JobKnowsMonth, Idle
  <2>9. QED
    BY <2>2, <2>6, <2>7, <2>8, MonthInvOfStep
<1>7. QED
  BY <1>1, <1>2, <1>3, <1>4, <1>5, <1>6 DEF Generate

LEMMA SurroundingsMonths ==
  ASSUME MonthInv, TypeOK', Surroundings
  PROVE  MonthInv'
<1>a. TypeOK
  BY DEF MonthInv
<1>b. now \in Nat /\ now' \in Nat /\ now <= now'
  <2>1. now \in Nat
    BY <1>a, InvoiceTableAssumption DEF TypeOK, Months
  <2>2. now' = now + 1 \/ now' = now
    BY DEF Surroundings, NextMonth, EnergyArrives, PaymentLands, RefreshOverdue
  <2>3. QED
    BY <2>1, <2>2
<1>c. UNCHANGED <<record, job>>
  BY DEF Surroundings, NextMonth, EnergyArrives, PaymentLands, RefreshOverdue
<1>1. \A i \in Invoices : invoice'[i].month = invoice[i].month
  <2>1. CASE NextMonth
    BY <2>1 DEF NextMonth
  <2>2. ASSUME NEW m \in Months, EnergyArrives(m)
        PROVE  invoice' = invoice
    BY <2>2 DEF EnergyArrives
  <2>3. ASSUME NEW i \in Invoices, NEW amount \in Kwh, PaymentLands(i, amount)
        PROVE  \A l \in Invoices : invoice'[l].month = invoice[l].month
    <3> DEFINE paid == NextPaid(i, amount)
               status == IF paid >= invoice[i].total THEN "PAID" ELSE "PARTIAL"
    <3>1. invoice' = [invoice EXCEPT ![i] = Credited(invoice[i], paid, status)]
      BY <1>a, <2>3 DEF PaymentLands, TypeOK
    <3>2. invoice[i] \in InvoiceRow /\ invoice[i].paid \in Nat /\ invoice[i].total \in 0..MaxTotal
      BY <1>a, InvoiceTableAssumption DEF TypeOK, InvoiceRow
    <3>3. paid \in 0..MaxTotal /\ status \in InvoiceStatus
      BY <2>3, <3>2, InvoiceTableAssumption DEF NextPaid, Kwh, InvoiceStatus
    <3>4. Credited(invoice[i], paid, status).month = invoice[i].month
      BY <3>2, <3>3, CreditedRow
    <3> HIDE DEF paid, status
    <3>5. QED
      BY <1>a, <3>1, <3>4 DEF TypeOK
  <2>4. ASSUME NEW late \in SUBSET Invoices, RefreshOverdue(late)
        PROVE  \A i \in Invoices : invoice'[i].month = invoice[i].month
    BY <1>a, <2>4, SweptTable DEF RefreshOverdue
  <2>5. QED
    BY <2>1, <2>2, <2>3, <2>4 DEF Surroundings
<1>2. \A i \in Invoices : invoice[i].month \in Nat
  BY <1>a, InvoiceTableAssumption DEF TypeOK, InvoiceRow
<1>3. BillsArePast'
  BY <1>b, <1>1, <1>2 DEF MonthInv, BillsArePast
<1>4. \A k \in Records : record[k].month \in Nat
  BY <1>a, InvoiceTableAssumption DEF TypeOK, RecordRow
<1>5. BilledRowsArePast'
  BY <1>b, <1>c, <1>4 DEF MonthInv, BilledRowsArePast
<1>6. \A p \in Procs : JobKnowsMonth(p)'
  <2> SUFFICES ASSUME NEW p \in Procs PROVE JobKnowsMonth(p)'
    OBVIOUS
  <2> DEFINE j == job[p]
  <2>1. j \in Job /\ JobKnowsMonth(p)
    BY <1>a DEF MonthInv, TypeOK
  <2>2. j.pc \in {"load", "assess", "refresh_write", "gen_check", "gen_draft", "gen_link"} =>
          record[j.rec].month \in Nat
    BY <1>4, <2>1, JobFields
  <2>3. j.pc \in {"link", "gen_check", "gen_draft"} => j.row.month \in Nat
    BY <2>1, JobFields, InvoiceTableAssumption DEF RecordRow
  <2>4. QED
    BY <1>b, <1>c, <2>1, <2>2, <2>3 DEF JobKnowsMonth
<1>7. QED
  BY <1>3, <1>5, <1>6 DEF MonthInv

LEMMA MonthInvStep == ~AllowPeriodMove /\ MonthInv /\ [Next]_vars => MonthInv'
<1> SUFFICES ASSUME ~AllowPeriodMove, MonthInv, [Next]_vars PROVE MonthInv'
  OBVIOUS
<1>a. TypeOK /\ TypeOK'
  BY TypeStep DEF MonthInv
<1>1. ASSUME NEW p \in Procs, Abort(p) \/ Refused(p) PROVE MonthInv'
  <2>1. Become(p, Idle) /\ UNCHANGED <<invoice, record, energy, now>>
    BY <1>1 DEF Abort, Refused
  <2>2. JobKnowsMonth(p)'
    BY <1>a, <2>1, NextJob DEF JobKnowsMonth, Idle
  <2>3. QED
    BY <1>a, <2>1, <2>2, TablesUntouched
<1>2. CASE UNCHANGED vars
  BY <1>2 DEF vars, MonthInv, TypeOK, BillsArePast, BilledRowsArePast, JobKnowsMonth
<1>3. QED
  BY <1>a, <1>1, <1>2, SyncMonths, UpdateMonths, RemoveMonths, PeriodErrorMonths, RefreshMonths, GenerateMonths,
     SurroundingsMonths DEF Next, Jobs

LEMMA InitMonthInv == Init => MonthInv
<1> SUFFICES ASSUME Init PROVE MonthInv
  OBVIOUS
<1>1. BillsArePast
  <2>1. NoRow.month = 0 /\ 0 < 1
    BY DEF NoRow
  <2>2. QED
    BY <2>1 DEF Init, BillsArePast
<1>2. BilledRowsArePast
  BY DEF Init, BilledRowsArePast, NoRecord
<1>3. ASSUME NEW p \in Procs PROVE JobKnowsMonth(p)
  <2>1. job[p].pc = "idle"
    BY DEF Init, Idle
  <2>2. QED
    BY <2>1 DEF JobKnowsMonth
<1>4. QED
  BY <1>1, <1>2, <1>3, InitTypeOK DEF MonthInv

(* If no record is moved to another month, no invoice is out for a month    *)
(* that is not over, with any number of jobs stopping at any await.         *)
THEOREM OnlyClosedMonths ==
  ASSUME ~AllowPeriodMove
  PROVE  Spec => []OnlyClosedMonthsBilled
<1>1. MonthInv => OnlyClosedMonthsBilled
  BY DEF MonthInv, BillsArePast, OnlyClosedMonthsBilled
<1>2. MonthInv /\ [Next]_vars => MonthInv'
  BY MonthInvStep
<1>3. QED
  BY InitMonthInv, <1>1, <1>2, PTL DEF Spec

-----------------------------------------------------------------------------
(* One job at a time: the customer is never asked twice for a month, even   *)
(* though a job may stop between creating an invoice and linking it.  The   *)
(* invoices that are out are linked from a record of their month, a record  *)
(* has one link, and a month has one record.                                *)

OneJob == \A p, q \in Procs : p = q

OneRecordPerMonth ==
  \A k, l \in Records :
    /\ record[k].state # "absent" /\ record[l].state # "absent"
    /\ record[k].month = record[l].month
    => k = l

JobHoldsLink(p) ==
  LET j == job[p] IN
  /\ j.pc = "remove_write" => record[j.rec].state # "absent"
  /\ j.pc \in {"link", "gen_check", "gen_draft"} =>
       record[j.rec].inv = j.row.inv /\ record[j.rec].month = j.row.month
  /\ j.pc = "gen_link" =>
       /\ record[j.rec].inv \in {NoInvoice, j.inv}
       /\ record[j.rec].month = invoice[j.inv].month
  /\ j.pc = "gen_issue" =>
       record[j.rec].inv = j.inv /\ record[j.rec].month = invoice[j.inv].month

LinkInv ==
  /\ MonthInv
  /\ OneRecordPerMonth
  /\ IssuedInvoiceIsLinked
  /\ \A p \in Procs : JobHoldsLink(p)

(* Two out for the same month are linked from the same record. *)
LEMMA LinkedOnceBilledOnce == LinkInv => BilledOncePerMonth
<1> SUFFICES ASSUME LinkInv, NEW i \in Invoices, NEW l \in Invoices,
                    AskedFor(i), AskedFor(l), invoice[i].month = invoice[l].month
             PROVE  i = l
  BY DEF BilledOncePerMonth
<1>1. PICK k \in Records : record[k].inv = i /\ record[k].month = invoice[i].month
  BY DEF LinkInv, IssuedInvoiceIsLinked
<1>2. PICK h \in Records : record[h].inv = l /\ record[h].month = invoice[l].month
  BY DEF LinkInv, IssuedInvoiceIsLinked
<1>3. record[k].state # "absent" /\ record[h].state # "absent"
  BY <1>1, <1>2, MonthlyBillingAssumption DEF LinkInv, MonthInv, BilledRowsArePast
<1>4. k = h
  BY <1>1, <1>2, <1>3 DEF LinkInv, OneRecordPerMonth
<1>5. QED
  BY <1>1, <1>2, <1>4

SameLinks ==
  \A k \in Records :
    /\ record'[k].inv = record[k].inv
    /\ record'[k].month = record[k].month
    /\ record'[k].state # "absent" => record[k].state # "absent"

NoNewClaim ==
  \A i \in Invoices : invoice'[i].month = invoice[i].month /\ (AskedFor(i)' => AskedFor(i))

LEMMA LinksStay ==
  ASSUME LinkInv, SameLinks, NoNewClaim
  PROVE  OneRecordPerMonth' /\ IssuedInvoiceIsLinked'
<1>1. OneRecordPerMonth'
  BY DEF LinkInv, OneRecordPerMonth, SameLinks
<1>2. ASSUME NEW i \in Invoices, AskedFor(i)'
      PROVE  \E k \in Records : record'[k].inv = i /\ record'[k].month = invoice'[i].month
  <2>1. AskedFor(i) /\ invoice'[i].month = invoice[i].month
    BY <1>2 DEF NoNewClaim
  <2>2. PICK k \in Records : record[k].inv = i /\ record[k].month = invoice[i].month
    BY <2>1 DEF LinkInv, IssuedInvoiceIsLinked
  <2>3. QED
    BY <2>1, <2>2 DEF SameLinks
<1>3. QED
  BY <1>1, <1>2 DEF IssuedInvoiceIsLinked

LEMMA SameTables ==
  ASSUME UNCHANGED <<invoice, record>>
  PROVE  SameLinks /\ NoNewClaim
  BY DEF SameLinks, NoNewClaim, AskedFor

LEMMA SameInvoices ==
  ASSUME UNCHANGED invoice
  PROVE  NoNewClaim
  BY DEF NoNewClaim, AskedFor

(* A row is rewritten, its month and its link stay. *)
LEMMA RowRewritten ==
  ASSUME TypeOK, NEW k \in Records, NEW row, record' = [record EXCEPT ![k] = row],
         row.inv = record[k].inv, row.month = record[k].month, record[k].state # "absent"
  PROVE  SameLinks
  BY DEF TypeOK, SameLinks

(* A row appears, for a month without a row. *)
LEMMA RowCreated ==
  ASSUME LinkInv, NEW k \in Records, NEW row, record' = [record EXCEPT ![k] = row],
         UNCHANGED invoice, record[k].state = "absent", RowOf(row.month) = {}
  PROVE  OneRecordPerMonth' /\ IssuedInvoiceIsLinked'
<1>a. /\ record'[k] = row
      /\ \A l \in Records : l # k => record'[l] = record[l]
  BY DEF LinkInv, MonthInv, TypeOK
<1>1. \A l \in Records : record[l].state # "absent" => record[l].month # row.month
  BY DEF RowOf
<1>2. OneRecordPerMonth'
  BY <1>a, <1>1 DEF LinkInv, OneRecordPerMonth
<1>3. ASSUME NEW i \in Invoices, AskedFor(i)'
      PROVE  \E l \in Records : record'[l].inv = i /\ record'[l].month = invoice'[i].month
  <2>1. PICK l \in Records : record[l].inv = i /\ record[l].month = invoice[i].month
    BY <1>3 DEF LinkInv, IssuedInvoiceIsLinked, AskedFor
  <2>2. record[l].state # "absent"
    BY <2>1, MonthlyBillingAssumption DEF LinkInv, MonthInv, BilledRowsArePast
  <2>3. QED
    BY <1>a, <2>1, <2>2
<1>4. QED
  BY <1>2, <1>3 DEF IssuedInvoiceIsLinked

LEMMA OnlyJob ==
  ASSUME OneJob, MonthInv', OneRecordPerMonth', IssuedInvoiceIsLinked',
         NEW p \in Procs, JobHoldsLink(p)'
  PROVE  LinkInv'
  BY DEF OneJob, LinkInv

LEMMA LinksOfReads ==
  ASSUME OneJob, LinkInv, MonthInv', UNCHANGED <<invoice, record>>,
         NEW p \in Procs, JobHoldsLink(p)'
  PROVE  LinkInv'
  BY SameTables, LinksStay, OnlyJob

LEMMA LinksOfPlainReads ==
  ASSUME OneJob, LinkInv, MonthInv', UNCHANGED <<invoice, record>>,
         NEW p \in Procs, NEW q, Become(p, q),
         q.pc \notin {"remove_write", "link", "gen_check", "gen_draft", "gen_link", "gen_issue"}
  PROVE  LinkInv'
<1>1. job'[p] = q
  BY NextJob DEF LinkInv, MonthInv
<1>2. JobHoldsLink(p)'
  BY <1>1 DEF JobHoldsLink
<1>3. QED
  BY <1>2, LinksOfReads

LEMMA SyncLinks ==
  ASSUME OneJob, LinkInv, MonthInv', NEW p \in Procs, Sync(p)
  PROVE  LinkInv'
<1>a. TypeOK /\ job[p] \in Job
  BY DEF LinkInv, MonthInv, TypeOK
<1> DEFINE j == job[p]
<1>0. ASSUME NEW actor \in Actor, NEW m \in Months, NEW pv \in Kwh, SyncRead(p, actor, m, pv)
      PROVE  LinkInv'
  <2>1. PICK q : Become(p, q) /\ q.pc = "sync_amounts"
    BY <1>0 DEF SyncRead
  <2>2. QED
    BY <1>0, <2>1, LinksOfPlainReads DEF SyncRead
<1>1. ASSUME SyncAmounts(p)
      PROVE  LinkInv'
  <2>1. PICK q : Become(p, q) /\ q.pc = "sync_upsert"
    BY <1>1 DEF SyncAmounts
  <2>2. QED
    BY <1>1, <2>1, LinksOfPlainReads DEF SyncAmounts
<1>2. ASSUME NEW k \in Records, SyncUpdate(p, k) \/ SyncInsert(p, k)
      PROVE  LinkInv'
  <2>1. j.month \in Months /\ j.kwh \in Kwh /\ j.manual \in Kwh
    BY <1>2, <1>a, JobFields, InvoiceTableAssumption DEF SyncUpdate, SyncInsert, Kwh
  <2>2. JobHoldsLink(p)'
    BY <1>2, <1>a, NextJob DEF SyncUpdate, SyncInsert, JobHoldsLink, Load
  <2>3. UNCHANGED invoice
    BY <1>2 DEF SyncUpdate, SyncInsert
  <2>4. OneRecordPerMonth' /\ IssuedInvoiceIsLinked'
    <3>1. CASE SyncUpdate(p, k)
      <4> DEFINE row == Synced(record[k], j.kwh, j.manual)
      <4>1. record' = [record EXCEPT ![k] = row] /\ record[k].state # "absent"
        BY <1>a, <3>1 DEF SyncUpdate, TypeOK, RowOf
      <4>2. row.month = record[k].month /\ row.inv = record[k].inv
        BY <1>a, <2>1, SyncedRow DEF TypeOK
      <4> HIDE DEF row
      <4>3. SameLinks
        BY <1>a, <4>1, <4>2, RowRewritten
      <4>4. QED
        BY <2>3, <4>3, SameInvoices, LinksStay
    <3>2. CASE SyncInsert(p, k)
      <4> DEFINE row == Created(j.month, j.kwh, j.manual)
      <4>1. record' = [record EXCEPT ![k] = row] /\ record[k].state = "absent" /\ RowOf(j.month) = {}
        BY <3>2 DEF SyncInsert
      <4>2. row.month = j.month
        BY <2>1, CreatedRow
      <4> HIDE DEF row
      <4>3. QED
        BY <2>3, <4>1, <4>2, RowCreated
    <3>3. QED
      BY <1>2, <3>1, <3>2
  <2>5. QED
    BY <2>2, <2>4, OnlyJob
<1>3. QED
  BY <1>0, <1>1, <1>2 DEF Sync

LEMMA UpdateLinks ==
  ASSUME OneJob, LinkInv, MonthInv', NEW p \in Procs, Update(p)
  PROVE  LinkInv'
<1>a. TypeOK /\ job[p] \in Job /\ JobKnowsMonth(p)
  BY DEF LinkInv, MonthInv, TypeOK
<1> DEFINE j == job[p]
<1>0. ASSUME NEW k \in Records, NEW m \in Months, NEW pv \in Kwh, NEW clear \in BOOLEAN,
             UpdateRead(p, k, m, pv, clear)
      PROVE  LinkInv'
  <2>1. PICK q : Become(p, q) /\ q.pc = "update_check"
    BY <1>0 DEF UpdateRead
  <2>2. QED
    BY <1>0, <2>1, LinksOfPlainReads DEF UpdateRead
<1>1. ASSUME UpdateCheck(p)
      PROVE  LinkInv'
  <2>1. PICK q : Become(p, q) /\ q.pc = "update_write"
    BY <1>1 DEF UpdateCheck
  <2>2. QED
    BY <1>1, <2>1, LinksOfPlainReads DEF UpdateCheck
<1>2. CASE UpdateWrite(p)
  <2> DEFINE row == Updated(record[j.rec], j.month, j.kwh, j.manual)
  <2>1. j.rec \in Records /\ j.month \in Months /\ j.manual \in Kwh /\ j.kwh \in Kwh
    BY <1>2, <1>a, JobFields, InvoiceTableAssumption DEF UpdateWrite, Kwh
  <2>2. record[j.rec].state # "absent" /\ record[j.rec].month = j.month
    BY <1>2, <1>a DEF UpdateWrite, JobKnowsMonth
  <2>3. row.month = record[j.rec].month /\ row.inv = record[j.rec].inv
    <3>1. record[j.rec] \in RecordRow
      BY <1>a, <2>1 DEF TypeOK
    <3>2. QED
      BY <2>1, <2>2, <3>1, UpdatedRow
  <2>4. record' = [record EXCEPT ![j.rec] = row] /\ UNCHANGED invoice
    BY <1>a, <1>2, <2>1 DEF UpdateWrite, TypeOK
  <2> HIDE DEF row
  <2>5. SameLinks
    BY <1>a, <2>1, <2>2, <2>3, <2>4, RowRewritten
  <2>6. JobHoldsLink(p)'
    BY <1>2, <1>a, NextJob DEF UpdateWrite, JobHoldsLink, Load
  <2>7. QED
    BY <2>4, <2>5, <2>6, SameInvoices, LinksStay, OnlyJob
<1>3. QED
  BY <1>0, <1>1, <1>2 DEF Update

LEMMA RemoveLinks ==
  ASSUME OneJob, LinkInv, MonthInv', NEW p \in Procs, Remove(p)
  PROVE  LinkInv'
<1>a. TypeOK /\ job[p] \in Job /\ JobHoldsLink(p)
  BY DEF LinkInv, MonthInv, TypeOK
<1>1. ASSUME NEW k \in Records, RemoveRead(p, k)
      PROVE  LinkInv'
  <2>1. JobHoldsLink(p)'
    BY <1>1, <1>a, NextJob DEF RemoveRead, JobHoldsLink
  <2>2. QED
    BY <1>1, <2>1, LinksOfReads DEF RemoveRead
<1>2. CASE RemoveWrite(p)
  <2> DEFINE k == job[p].rec
             row == Removed(record[k])
  <2>1. k \in Records /\ record[k].state # "absent"
    BY <1>2, <1>a, JobFields DEF RemoveWrite, JobHoldsLink
  <2>2. row.month = record[k].month /\ row.inv = record[k].inv
    BY <1>a, <2>1, RemovedRow DEF TypeOK
  <2>3. record' = [record EXCEPT ![k] = row] /\ UNCHANGED invoice
    BY <1>a, <1>2, <2>1 DEF RemoveWrite, TypeOK
  <2> HIDE DEF row
  <2>4. SameLinks
    BY <1>a, <2>1, <2>2, <2>3, RowRewritten
  <2>5. JobHoldsLink(p)'
    BY <1>2, <1>a, NextJob DEF RemoveWrite, JobHoldsLink, Idle
  <2>6. QED
    BY <2>3, <2>4, <2>5, SameInvoices, LinksStay, OnlyJob
<1>3. QED
  BY <1>1, <1>2 DEF Remove

LEMMA PeriodErrorLinks ==
  ASSUME OneJob, LinkInv, MonthInv', NEW p \in Procs, PeriodError(p)
  PROVE  LinkInv'
<1>a. TypeOK /\ job[p] \in Job /\ JobKnowsMonth(p)
  BY DEF LinkInv, MonthInv, TypeOK
<1>1. ASSUME NEW k \in Records, PeriodFails(p, k)
      PROVE  LinkInv'
  <2>1. Become(p, [pc |-> "error_write", rec |-> k]) /\ UNCHANGED <<invoice, record>>
    BY <1>1 DEF PeriodFails
  <2>2. QED
    BY <2>1, LinksOfPlainReads
<1>2. CASE MarkPeriodError(p)
  <2> DEFINE k == job[p].rec
             row == Assessed(record[k], "ERROR", "PENDING_REVIEW", record[k].finalized)
  <2>1. k \in Records /\ record[k].state # "absent"
    BY <1>2, <1>a, JobFields DEF MarkPeriodError, JobKnowsMonth
  <2>2. row.month = record[k].month /\ row.inv = record[k].inv
    BY <1>a, <2>1, ErrorRow DEF TypeOK
  <2>3. record' = [record EXCEPT ![k] = row] /\ UNCHANGED invoice
    BY <1>a, <1>2, <2>1 DEF MarkPeriodError, TypeOK
  <2> HIDE DEF row
  <2>4. SameLinks
    BY <1>a, <2>1, <2>2, <2>3, RowRewritten
  <2>5. JobHoldsLink(p)'
    BY <1>2, <1>a, NextJob DEF MarkPeriodError, JobHoldsLink, Idle
  <2>6. QED
    BY <2>3, <2>4, <2>5, SameInvoices, LinksStay, OnlyJob
<1>3. QED
  BY <1>1, <1>2 DEF PeriodError

LEMMA RefreshLinks ==
  ASSUME OneJob, LinkInv, MonthInv', NEW p \in Procs, Refresh(p)
  PROVE  LinkInv'
<1>a. TypeOK /\ job[p] \in Job /\ JobHoldsLink(p) /\ JobKnowsMonth(p)
  BY DEF LinkInv, MonthInv, TypeOK
<1> DEFINE j == job[p]
<1>1. ASSUME RefreshLoad(p)
      PROVE  LinkInv'
  <2>1. PICK q : Become(p, q) /\ q.pc = "assess"
    BY <1>1 DEF RefreshLoad
  <2>2. QED
    BY <1>1, <2>1, LinksOfPlainReads DEF RefreshLoad
<1>2. ASSUME NEW broken \in BOOLEAN, RefreshAssess(p, broken)
      PROVE  LinkInv'
  <2>1. PICK row, q : q = [j EXCEPT !.pc = "refresh_write", !.row = row] /\ Become(p, q)
    BY <1>2 DEF RefreshAssess
  <2>2. j \in [pc : {"assess"}, rec : Records, actor : Actor, next : Then, row : RecordRow,
                status : LinkedStatus]
    BY <1>2, <1>a DEF RefreshAssess, Job, Idle
  <2>3. q.pc = "refresh_write"
    <3> HIDE DEF j
    <3>1. QED
      BY <2>1, <2>2
  <2>4. QED
    BY <1>2, <2>1, <2>3, LinksOfPlainReads DEF RefreshAssess
<1>3. ASSUME RefreshWrite(p)
      PROVE  LinkInv'
  <2> DEFINE k == j.rec
             written == Assessed(record[k], j.row.quality, j.row.workflow, j.row.finalized)
             q(pc) == [j EXCEPT !.pc = pc, !.row = written, !.status = StatusOf(written.inv)]
  <2>1. k \in Records /\ j.row \in RecordRow /\ record[k] \in RecordRow
    BY <1>3, <1>a, JobFields DEF RefreshWrite, TypeOK
  <2>2. written.month = record[k].month /\ written.inv = record[k].inv
    <3>1. /\ j.row.quality \in Quality /\ j.row.workflow \in Workflow
          /\ j.row.finalized \in {"no", "yes"}
      BY <2>1 DEF RecordRow
    <3>2. QED
      BY <2>1, <3>1, AssessedRow
  <2>3. record[k].state # "absent"
    BY <1>3, <1>a DEF RefreshWrite, JobKnowsMonth
  <2>4. /\ record' = [record EXCEPT ![k] = written]
        /\ UNCHANGED <<invoice, energy, now>>
        /\ Become(p, q("link")) \/ Become(p, q("gen_check")) \/ Become(p, Idle)
    BY <1>3 DEF RefreshWrite
  <2>5. j \in [pc : {"refresh_write"}, rec : Records, actor : Actor, next : Then, row : RecordRow,
                status : LinkedStatus]
    BY <1>3, <1>a DEF RefreshWrite, Job, Idle
  <2>6. \A pc \in {"link", "gen_check"} :
          q(pc).pc = pc /\ q(pc).rec = k /\ q(pc).row = written
    <3> HIDE DEF written, j
    <3>1. QED
      BY <2>5
  <2> HIDE DEF written, q
  <2>7. SameLinks
    BY <1>a, <2>1, <2>2, <2>3, <2>4, RowRewritten
  <2>8. record'[k].inv = written.inv /\ record'[k].month = written.month
    BY <2>1, <2>2, <2>7 DEF SameLinks
  <2>9. PICK s : /\ Become(p, s)
                 /\ \/ s.pc \in {"link", "gen_check"} /\ s.row = written /\ s.rec = k
                    \/ s.pc = "idle"
    BY <2>4, <2>6 DEF Idle
  <2>10. JobHoldsLink(p)'
    <3>1. job'[p] = s
      BY <1>a, <2>9, NextJob
    <3> HIDE DEF k, j
    <3>2. QED
      BY <2>8, <2>9, <3>1 DEF JobHoldsLink
  <2>11. QED
    BY <2>4, <2>7, <2>10, SameInvoices, LinksStay, OnlyJob
<1>4. ASSUME NEW k, Become(p, Load(k, "auto", "done")), UNCHANGED <<invoice, record>>
      PROVE  LinkInv'
  <2>1. Load(k, "auto", "done").pc = "load"
    BY DEF Load
  <2>2. QED
    BY <1>4, <2>1, LinksOfPlainReads
<1>5. ASSUME NEW k \in Records, RefreshHistory(p, k)
      PROVE  LinkInv'
  BY <1>4, <1>5 DEF RefreshHistory
<1>6. ASSUME NEW k \in Records, PeriodCreate(p, k)
      PROVE  LinkInv'
  <2> DEFINE row == Created(j.month, j.kwh, 0)
  <2>1. j.month \in Months /\ j.kwh \in Kwh /\ 0 \in Kwh
    BY <1>6, <1>a, JobFields, InvoiceTableAssumption DEF PeriodCreate, Kwh
  <2>2. row.month = j.month
    BY <2>1, CreatedRow
  <2>3. /\ record' = [record EXCEPT ![k] = row] /\ record[k].state = "absent"
        /\ RowOf(j.month) = {} /\ UNCHANGED invoice
    BY <1>6 DEF PeriodCreate
  <2> HIDE DEF row
  <2>4. OneRecordPerMonth' /\ IssuedInvoiceIsLinked'
    BY <2>2, <2>3, RowCreated
  <2>5. JobHoldsLink(p)'
    BY <1>6, <1>a, NextJob DEF PeriodCreate, JobHoldsLink, Load
  <2>6. QED
    BY <2>4, <2>5, OnlyJob
<1>7. ASSUME NEW m \in Months, RefreshPeriod(p, m)
      PROVE  LinkInv'
  <2>1. CASE \E k \in RowOf(m) : Become(p, Load(k, "auto", "done"))
    BY <1>4, <1>7, <2>1 DEF RefreshPeriod
  <2>2. ASSUME NEW q, Become(p, q), q.pc = "period_create"
        PROVE  LinkInv'
    BY <1>7, <2>2, LinksOfPlainReads DEF RefreshPeriod
  <2>3. QED
    BY <1>7, <2>1, <2>2 DEF RefreshPeriod
<1>8. ASSUME SyncLinkedInvoice(p)
      PROVE  LinkInv'
  <2> DEFINE k == j.rec
             status == IF j.row.workflow \in {"PENDING_REVIEW", "DRAFT"} THEN j.row.workflow ELSE j.status
             bill == Recalculated(invoice[j.row.inv], j.row.month, j.row.kwh, status)
  <2>1. /\ Become(p, Idle) /\ UNCHANGED record
        /\ invoice' = invoice \/ invoice' = [invoice EXCEPT ![j.row.inv] = bill]
    BY <1>8 DEF SyncLinkedInvoice
  <2>2. /\ k \in Records /\ record[k].inv = j.row.inv /\ record[k].month = j.row.month
        /\ j.row \in RecordRow /\ j.status \in LinkedStatus
    BY <1>8, <1>a, JobFields DEF SyncLinkedInvoice, JobHoldsLink
  <2>3. /\ j.row.month \in 0..MaxMonth /\ j.row.kwh \in Kwh /\ status \in LinkedStatus
    BY <2>2 DEF RecordRow, LinkedStatus, InvoiceStatus
  <2>4. OneRecordPerMonth'
    BY <2>1 DEF LinkInv, OneRecordPerMonth
  <2>5. ASSUME NEW i \in Invoices, AskedFor(i)'
        PROVE  \E h \in Records : record'[h].inv = i /\ record'[h].month = invoice'[i].month
    <3>1. CASE invoice'[i] = invoice[i]
      BY <2>1, <2>5, <3>1 DEF LinkInv, IssuedInvoiceIsLinked, AskedFor
    <3>2. CASE i = j.row.inv /\ invoice' = [invoice EXCEPT ![j.row.inv] = bill]
      <4>1. invoice[j.row.inv] \in InvoiceRow
        BY <1>a, <3>2 DEF TypeOK
      <4>2. bill.month = j.row.month
        <5> HIDE DEF status
        <5>1. QED
          BY <2>3, <4>1, RecalculatedRow
      <4> HIDE DEF bill
      <4>3. invoice'[i].month = j.row.month
        BY <1>a, <3>2, <4>2 DEF TypeOK
      <4>4. QED
        BY <2>1, <2>2, <3>2, <4>3
    <3>3. QED
      <4> HIDE DEF bill
      <4>1. QED
        BY <1>a, <2>1, <3>1, <3>2 DEF TypeOK
  <2>6. IssuedInvoiceIsLinked'
    BY <2>5 DEF IssuedInvoiceIsLinked
  <2>7. JobHoldsLink(p)'
    BY <1>a, <2>1, NextJob DEF JobHoldsLink, Idle
  <2>8. QED
    BY <2>4, <2>6, <2>7, OnlyJob
<1>9. QED
  BY <1>1, <1>2, <1>3, <1>5, <1>6, <1>7, <1>8 DEF Refresh

LEMMA GenerateLinks ==
  ASSUME OneJob, LinkInv, MonthInv', NEW p \in Procs, Generate(p)
  PROVE  LinkInv'
<1>a. TypeOK /\ job[p] \in Job /\ JobHoldsLink(p) /\ JobKnowsMonth(p)
  BY DEF LinkInv, MonthInv, TypeOK
<1> DEFINE j == job[p]
<1>1. ASSUME NEW actor \in Actor, NEW k \in Records, GenerateInvoice(p, actor, k)
      PROVE  LinkInv'
  <2>1. Load(k, actor, "invoice").pc = "load"
    BY DEF Load
  <2>2. QED
    BY <1>1, <2>1, LinksOfPlainReads DEF GenerateInvoice
<1>2. ASSUME GenerateCheck(p)
      PROVE  LinkInv'
  <2>1. j \in [pc : {"gen_check"}, rec : Records, actor : Actor, next : Then, row : RecordRow,
                status : LinkedStatus]
    BY <1>2, <1>a DEF GenerateCheck, Job, Idle
  <2>2. PICK q : q = [j EXCEPT !.pc = "gen_draft"] /\ Become(p, q)
    BY <1>2 DEF GenerateCheck
  <2>3. q.pc = "gen_draft" /\ q.rec = j.rec /\ q.row = j.row
    <3> HIDE DEF j
    <3>1. QED
      BY <2>1, <2>2
  <2>4. JobHoldsLink(p)'
    BY <1>2, <1>a, <2>2, <2>3, NextJob DEF GenerateCheck, JobHoldsLink
  <2>5. QED
    BY <1>2, <2>4, LinksOfReads DEF GenerateCheck
<1>3. ASSUME NEW i \in Invoices, WriteDraft(p, i)
      PROVE  LinkInv'
  <2> DEFINE k == j.rec
             bill == DraftOf(j.row, invoice[i].paid)
  <2>1. PICK q : Become(p, q) /\ q.pc = "gen_link" /\ q.rec = k /\ q.inv = i
    BY <1>3 DEF WriteDraft
  <2>2. /\ UNCHANGED record
        /\ invoice' = [invoice EXCEPT ![i] = bill]
        /\ j.row.inv \in {NoInvoice, i}
    BY <1>3, <1>a DEF WriteDraft, TypeOK
  <2>3. j.row \in RecordRow /\ record[k].inv = j.row.inv /\ record[k].month = j.row.month
    BY <1>3, <1>a, JobFields DEF WriteDraft, JobHoldsLink
  <2>4. bill.month = j.row.month /\ bill.status = "DRAFT"
    <3>1. invoice[i].paid \in 0..MaxTotal
      BY <1>a DEF TypeOK, InvoiceRow
    <3>2. QED
      BY <2>3, <3>1, DraftRow
  <2> HIDE DEF bill
  <2>5. invoice'[i] = bill /\ \A l \in Invoices : l # i => invoice'[l] = invoice[l]
    BY <1>a, <2>2 DEF TypeOK
  <2>6. OneRecordPerMonth'
    BY <2>2 DEF LinkInv, OneRecordPerMonth
  <2>7. IssuedInvoiceIsLinked'
    <3>1. ASSUME NEW l \in Invoices, AskedFor(l)'
          PROVE  AskedFor(l) /\ invoice'[l] = invoice[l]
      BY <2>4, <2>5, <3>1 DEF AskedFor, FinalizedStatus
    <3>2. QED
      BY <2>2, <3>1 DEF LinkInv, IssuedInvoiceIsLinked
  <2>8. JobHoldsLink(p)'
    <3>1. job'[p] = q
      BY <1>a, <2>1, NextJob
    <3>2. record'[k].inv \in {NoInvoice, i} /\ record'[k].month = invoice'[i].month
      BY <2>2, <2>3, <2>4, <2>5
    <3>3. QED
      BY <2>1, <3>1, <3>2 DEF JobHoldsLink
  <2>9. QED
    BY <2>6, <2>7, <2>8, OnlyJob
<1>4. ASSUME LinkDraft(p)
      PROVE  LinkInv'
  <2> DEFINE k == j.rec
             row == Linked(record[k], j.inv)
  <2>1. /\ k \in Records /\ j.inv \in Invoices
        /\ record[k].inv \in {NoInvoice, j.inv} /\ record[k].month = invoice[j.inv].month
        /\ record[k].state # "absent"
    BY <1>4, <1>a, JobFields DEF LinkDraft, JobHoldsLink, JobKnowsMonth
  <2>2. row.month = record[k].month /\ row.inv = j.inv /\ row.state = record[k].state
    <3>1. record[k] \in RecordRow
      BY <1>a, <2>1 DEF TypeOK
    <3>2. QED
      BY <2>1, <3>1, LinkedRow
  <2>3. /\ record' = [record EXCEPT ![k] = row]
        /\ UNCHANGED invoice
    BY <1>4, <1>a, <2>1 DEF LinkDraft, TypeOK
  <2> HIDE DEF row
  <2>4. record'[k] = row /\ \A h \in Records : h # k => record'[h] = record[h]
    BY <1>a, <2>1, <2>3 DEF TypeOK
  <2>5. OneRecordPerMonth'
    BY <2>2, <2>4 DEF LinkInv, OneRecordPerMonth
  <2>6. IssuedInvoiceIsLinked'
    <3>1. ASSUME NEW l \in Invoices, AskedFor(l)'
          PROVE  \E h \in Records : record'[h].inv = l /\ record'[h].month = invoice'[l].month
      <4>1. PICK h \in Records : record[h].inv = l /\ record[h].month = invoice[l].month
        BY <2>3, <3>1 DEF LinkInv, IssuedInvoiceIsLinked, AskedFor
      <4>2. record'[h].inv = l /\ record'[h].month = record[h].month
        BY <2>1, <2>2, <2>4, <4>1, MonthlyBillingAssumption
      <4>3. QED
        BY <2>3, <4>1, <4>2
    <3>2. QED
      BY <3>1 DEF IssuedInvoiceIsLinked
  <2>7. PICK q : q = [j EXCEPT !.pc = "gen_issue"] /\ Become(p, q)
    BY <1>4 DEF LinkDraft
  <2>8. q.pc = "gen_issue" /\ q.rec = k /\ q.inv = j.inv
    <3>1. j \in [pc : {"gen_link"}, rec : Records, actor : Actor, row : RecordRow, inv : Invoices]
      BY <1>4, <1>a DEF LinkDraft, Job, Idle
    <3> HIDE DEF j
    <3>2. QED
      BY <2>7, <3>1
  <2>9. JobHoldsLink(p)'
    <3>1. job'[p] = q
      BY <1>a, <2>7, NextJob
    <3>2. QED
      BY <2>1, <2>2, <2>3, <2>4, <2>8, <3>1 DEF JobHoldsLink
  <2>10. QED
    BY <2>5, <2>6, <2>9, OnlyJob
<1>5. ASSUME IssueInvoice(p)
      PROVE  LinkInv'
  <2> DEFINE k == j.rec
             bill == Transitioned(invoice[j.inv], TargetStatus(j))
  <2>1. /\ k \in Records /\ j.inv \in Invoices
        /\ record[k].inv = j.inv /\ record[k].month = invoice[j.inv].month
    BY <1>5, <1>a, JobFields DEF IssueInvoice, JobHoldsLink
  <2>2. /\ UNCHANGED record
        /\ invoice' = [invoice EXCEPT ![j.inv] = bill]
    BY <1>5, <1>a, <2>1 DEF IssueInvoice, TypeOK
  <2>3. bill.month = invoice[j.inv].month
    <3>1. TargetStatus(j) \in LinkedStatus
      BY DEF TargetStatus, LinkedStatus, InvoiceStatus
    <3>2. invoice[j.inv] \in InvoiceRow
      BY <1>a, <2>1 DEF TypeOK
    <3>3. QED
      BY <3>1, <3>2, TransitionedRow
  <2> HIDE DEF bill
  <2>4. /\ \A l \in Invoices : invoice'[l].month = invoice[l].month
        /\ \A l \in Invoices : l # j.inv => invoice'[l] = invoice[l]
    BY <1>a, <2>2, <2>3 DEF TypeOK
  <2>5. OneRecordPerMonth'
    BY <2>2 DEF LinkInv, OneRecordPerMonth
  <2>6. IssuedInvoiceIsLinked'
    <3>1. ASSUME NEW l \in Invoices, AskedFor(l)'
          PROVE  \E h \in Records : record'[h].inv = l /\ record'[h].month = invoice'[l].month
      <4>1. CASE l = j.inv
        BY <2>1, <2>2, <2>4, <4>1
      <4>2. CASE l # j.inv
        BY <2>2, <2>4, <3>1, <4>2 DEF LinkInv, IssuedInvoiceIsLinked, AskedFor
      <4>3. QED
        BY <4>1, <4>2
    <3>2. QED
      BY <3>1 DEF IssuedInvoiceIsLinked
  <2>7. JobHoldsLink(p)'
    BY <1>5, <1>a, NextJob DEF IssueInvoice, JobHoldsLink
  <2>8. QED
    BY <2>5, <2>6, <2>7, OnlyJob
<1>6. ASSUME RecordInvoiced(p)
      PROVE  LinkInv'
  <2> DEFINE k == j.rec
             row == Invoiced(record[k], j.workflow)
  <2>1. k \in Records /\ j.workflow \in Workflow /\ record[k].state # "absent"
    BY <1>6, <1>a, JobFields DEF RecordInvoiced, Workflow, InvoiceStatus, JobKnowsMonth
  <2>2. row.month = record[k].month /\ row.inv = record[k].inv
    <3>1. record[k] \in RecordRow
      BY <1>a, <2>1 DEF TypeOK
    <3>2. QED
      BY <2>1, <3>1, InvoicedRow
  <2>3. record' = [record EXCEPT ![k] = row] /\ UNCHANGED invoice
    BY <1>6, <1>a, <2>1 DEF RecordInvoiced, TypeOK
  <2> HIDE DEF row
  <2>4. SameLinks
    BY <1>a, <2>1, <2>2, <2>3, RowRewritten
  <2>5. JobHoldsLink(p)'
    BY <1>6, <1>a, NextJob DEF RecordInvoiced, JobHoldsLink, Idle
  <2>6. QED
    BY <2>3, <2>4, <2>5, SameInvoices, LinksStay, OnlyJob
<1>7. QED
  BY <1>1, <1>2, <1>3, <1>4, <1>5, <1>6 DEF Generate

LEMMA SurroundingsLinks ==
  ASSUME ~StaleReceipts, LinkInv, MonthInv', Surroundings
  PROVE  LinkInv'
<1>a. TypeOK
  BY DEF LinkInv, MonthInv
<1>b. UNCHANGED <<record, job>>
  BY DEF Surroundings, NextMonth, EnergyArrives, PaymentLands, RefreshOverdue
<1>1. NoNewClaim
  <2>1. CASE invoice' = invoice
    BY <2>1, SameInvoices
  <2>2. ASSUME NEW i \in Invoices, NEW amount \in Kwh, PaymentLands(i, amount)
        PROVE  NoNewClaim
    <3> DEFINE paid == NextPaid(i, amount)
               status == IF paid >= invoice[i].total THEN "PAID" ELSE "PARTIAL"
    <3>1. invoice' = [invoice EXCEPT ![i] = Credited(invoice[i], paid, status)] /\ AskedFor(i)
      BY <1>a, <2>2 DEF PaymentLands, Submissible, TypeOK
    <3>2. invoice[i] \in InvoiceRow /\ invoice[i].paid \in Nat /\ invoice[i].total \in 0..MaxTotal
      BY <1>a, InvoiceTableAssumption DEF TypeOK, InvoiceRow
    <3>3. paid \in 0..MaxTotal /\ status \in InvoiceStatus
      BY <2>2, <3>2, InvoiceTableAssumption DEF NextPaid, Kwh, InvoiceStatus
    <3>4. Credited(invoice[i], paid, status).month = invoice[i].month
      BY <3>2, <3>3, CreditedRow
    <3> HIDE DEF paid, status
    <3>5. QED
      BY <1>a, <3>1, <3>4 DEF TypeOK, NoNewClaim, AskedFor
  <2>3. ASSUME NEW late \in SUBSET Invoices, RefreshOverdue(late)
        PROVE  NoNewClaim
    <3>1. \A i \in late : AskedFor(i)
      BY <2>3 DEF RefreshOverdue, CanBeLate, AskedFor, FinalizedStatus
    <3>2. \A i \in Invoices : invoice'[i].month = invoice[i].month /\
            invoice'[i].status = IF i \in late THEN "OVERDUE" ELSE invoice[i].status
      BY <1>a, <2>3, SweptTable DEF RefreshOverdue
    <3>3. QED
      BY <3>1, <3>2 DEF NoNewClaim, AskedFor
  <2>4. QED
    BY <2>1, <2>2, <2>3 DEF Surroundings, NextMonth, EnergyArrives
<1>2. OneRecordPerMonth' /\ IssuedInvoiceIsLinked'
  BY <1>b, <1>1, LinksStay DEF SameLinks
<1>3. ASSUME NEW p \in Procs PROVE JobHoldsLink(p)'
  <2>1. job[p] \in Job /\ JobHoldsLink(p)
    BY <1>a DEF LinkInv, TypeOK
  <2>2. job[p].pc \in {"gen_link", "gen_issue"} => job[p].inv \in Invoices
    BY <2>1, JobFields
  <2>3. QED
    BY <1>b, <1>1, <2>1, <2>2 DEF JobHoldsLink, NoNewClaim
<1>4. QED
  BY <1>2, <1>3 DEF LinkInv

LEMMA LinkInvStep ==
  OneJob /\ ~AllowPeriodMove /\ ~StaleReceipts /\ LinkInv /\ [Next]_vars => LinkInv'
<1> SUFFICES ASSUME OneJob, ~AllowPeriodMove, ~StaleReceipts, LinkInv, [Next]_vars PROVE LinkInv'
  OBVIOUS
<1>a. MonthInv'
  BY MonthInvStep DEF LinkInv
<1>1. ASSUME NEW p \in Procs, Abort(p) \/ Refused(p) PROVE LinkInv'
  <2>1. Become(p, Idle) /\ UNCHANGED <<invoice, record>> /\ Idle.pc = "idle"
    BY <1>1 DEF Abort, Refused, Idle
  <2>2. QED
    BY <1>a, <2>1, LinksOfPlainReads
<1>2. CASE UNCHANGED vars
  <2>1. OneRecordPerMonth' /\ IssuedInvoiceIsLinked'
    BY <1>2, SameTables, LinksStay DEF vars
  <2>2. \A p \in Procs : JobHoldsLink(p)'
    BY <1>2 DEF vars, LinkInv, JobHoldsLink
  <2>3. QED
    BY <1>a, <2>1, <2>2 DEF LinkInv
<1>3. QED
  BY <1>a, <1>1, <1>2, SyncLinks, UpdateLinks, RemoveLinks, PeriodErrorLinks, RefreshLinks, GenerateLinks,
     SurroundingsLinks DEF Next, Jobs

LEMMA InitLinkInv == Init => LinkInv
<1> SUFFICES ASSUME Init PROVE LinkInv
  OBVIOUS
<1>1. OneRecordPerMonth
  BY DEF Init, OneRecordPerMonth, NoRecord
<1>2. IssuedInvoiceIsLinked
  BY DEF Init, IssuedInvoiceIsLinked, AskedFor, NoRow, FinalizedStatus
<1>3. ASSUME NEW p \in Procs PROVE JobHoldsLink(p)
  <2>1. job[p].pc = "idle"
    BY DEF Init, Idle
  <2>2. QED
    BY <2>1 DEF JobHoldsLink
<1>4. QED
  BY <1>1, <1>2, <1>3, InitMonthInv DEF LinkInv

(* One job at a time, no record moved, no stale receipt: every invoice the  *)
(* customer is asked to pay is the one its record links to.                 *)
THEOREM IssuedInvoicesAreLinked ==
  ASSUME OneJob, ~AllowPeriodMove, ~StaleReceipts
  PROVE  Spec => []IssuedInvoiceIsLinked
<1>1. LinkInv => IssuedInvoiceIsLinked
  BY DEF LinkInv
<1>2. LinkInv /\ [Next]_vars => LinkInv'
  BY LinkInvStep
<1>3. QED
  BY InitLinkInv, <1>1, <1>2, PTL DEF Spec

(* Under the same assumptions no month is billed twice, wherever jobs stop. *)
THEOREM NoMonthIsBilledTwice ==
  ASSUME OneJob, ~AllowPeriodMove, ~StaleReceipts
  PROVE  Spec => []BilledOncePerMonth
<1>1. LinkInv => BilledOncePerMonth
  BY LinkedOnceBilledOnce
<1>2. LinkInv /\ [Next]_vars => LinkInv'
  BY LinkInvStep
<1>3. QED
  BY InitLinkInv, <1>1, <1>2, PTL DEF Spec

-----------------------------------------------------------------------------
(* What a record says of its invoice.  ClaimsAreBacked is not inductive: it *)
(* leaves open whether two records claim one invoice, whether the invoice   *)
(* that is written is one that has been asked for, and whether the claim a  *)
(* job is about to write has been read from the invoice it will stand for.  *)

Out(i) == StatusOf(i) \in FinalizedStatus
Claims(row) == row.workflow \in FinalizedStatus \/ row.finalized = "yes"
NobodyElseLinks(k, i) == \A l \in Records : record[l].inv = i => l = k

LinksAreRows ==
  \A k \in Records : record[k].inv # NoInvoice => invoice[record[k].inv].status # "ABSENT"

LinksAreUnique ==
  \A k, l \in Records : record[k].inv # NoInvoice /\ record[k].inv = record[l].inv => k = l

ClaimTables == ClaimsAreBacked /\ LinksAreRows /\ LinksAreUnique

JobBacksClaims(p) ==
  LET j == job[p] IN
  /\ j.pc = "remove_write" => record[j.rec].inv = NoInvoice
  /\ j.pc \in {"assess", "refresh_write", "gen_check", "gen_draft", "gen_link"} =>
       record[j.rec].state = "live"
  /\ j.pc \in {"load", "assess", "refresh_write"} /\ j.next = "invoice" => ~Out(record[j.rec].inv)
  /\ j.pc = "assess" => (j.status \in FinalizedStatus => Out(record[j.rec].inv))
  /\ j.pc = "refresh_write" =>
       /\ Claims(j.row) => Out(record[j.rec].inv)
       /\ j.row.finalized = "yes" => j.row.workflow \in FinalizedStatus
  /\ j.pc = "link" =>
       /\ j.row = record[j.rec] /\ j.row.inv # NoInvoice /\ j.status # "ABSENT"
       /\ j.row.finalized = "yes" => j.row.workflow \in FinalizedStatus
       /\ Out(j.row.inv) <=> j.status \in FinalizedStatus
  /\ j.pc \in {"gen_check", "gen_draft"} => ~Out(record[j.rec].inv)
  /\ j.pc \in {"gen_check", "gen_draft", "gen_link", "gen_issue"} =>
       record[j.rec].quality = j.row.quality
  /\ j.pc \in {"gen_link", "gen_issue"} =>
       /\ invoice[j.inv].status # "ABSENT" /\ ~AskedFor(j.inv)
       /\ NobodyElseLinks(j.rec, j.inv)
  /\ j.pc = "gen_record" => (j.workflow = "ISSUED" => Out(record[j.rec].inv))

ClaimInv ==
  /\ LinkInv
  /\ ClaimTables
  /\ \A p \in Procs : JobBacksClaims(p)

LEMMA NoInvoiceIsNotOut == ~Out(NoInvoice)
  BY DEF Out, StatusOf, FinalizedStatus

LEMMA OutIsAskedFor ==
  ASSUME NEW i \in Invoices
  PROVE  Out(i) <=> AskedFor(i)
  BY MonthlyBillingAssumption DEF Out, StatusOf, AskedFor

(* What the statements write of a row, as far as its claims are concerned. *)
LEMMA ClaimFields ==
  ASSUME NEW row \in RecordRow
  PROVE  /\ \A kwh, manual : Synced(row, kwh, manual).workflow = row.workflow
                          /\ Synced(row, kwh, manual).finalized = row.finalized
         /\ \A m, kwh, manual : Updated(row, m, kwh, manual).workflow = row.workflow
                             /\ Updated(row, m, kwh, manual).finalized = row.finalized
         /\ Removed(row).workflow = row.workflow /\ Removed(row).finalized = row.finalized
         /\ \A q, w, f : Assessed(row, q, w, f).quality = q /\ Assessed(row, q, w, f).workflow = w
                      /\ Assessed(row, q, w, f).finalized = f
         /\ \A i : Linked(row, i).workflow = "DRAFT" /\ Linked(row, i).finalized = row.finalized
                /\ Linked(row, i).quality = row.quality
         /\ \A w : /\ Invoiced(row, w).workflow = w
                   /\ Invoiced(row, w).finalized = IF w = "ISSUED" THEN "yes" ELSE "no"
                   /\ Invoiced(row, w).quality = row.quality
  BY DEF RecordRow, Synced, Updated, Removed, Assessed, Linked, Invoiced

(* A row of MonthlyPvBilling is written, the invoices stay. *)
LEMMA ClaimsAfterRow ==
  ASSUME TypeOK, ClaimTables, NEW k \in Records, NEW row \in RecordRow,
         record' = [record EXCEPT ![k] = row], UNCHANGED invoice,
         row.state # "live" => row.inv = NoInvoice,
         Claims(row) => Out(row.inv),
         \/ row.inv = record[k].inv
         \/ row.inv = NoInvoice
         \/ invoice[row.inv].status # "ABSENT" /\ NobodyElseLinks(k, row.inv)
  PROVE  ClaimTables'
<1>1. record'[k] = row /\ \A l \in Records : l # k => record'[l] = record[l]
  BY DEF TypeOK
<1>2. \A i : Out(i)' <=> Out(i)
  BY DEF Out, StatusOf
<1>3. ClaimsAreBacked'
  BY <1>1, <1>2 DEF ClaimTables, ClaimsAreBacked, Out, Claims
<1>4. LinksAreRows'
  BY <1>1 DEF ClaimTables, LinksAreRows
<1>5. LinksAreUnique'
  BY <1>1 DEF ClaimTables, LinksAreUnique, NobodyElseLinks
<1>6. QED
  BY <1>3, <1>4, <1>5 DEF ClaimTables

(* A row of Invoice is written, the records stay. *)
LEMMA ClaimsAfterBill ==
  ASSUME TypeOK, ClaimTables, NEW i \in Invoices, NEW bill,
         invoice' = [invoice EXCEPT ![i] = bill], UNCHANGED record,
         bill.status # "ABSENT",
         bill.status \in FinalizedStatus \/ \A k \in Records : record[k].inv = i => ~Claims(record[k])
  PROVE  ClaimTables'
<1>1. invoice'[i] = bill /\ \A l \in Invoices : l # i => invoice'[l] = invoice[l]
  BY DEF TypeOK
<1>2. \A l \in Invoices : l # i => StatusOf(l)' = StatusOf(l)
  BY <1>1 DEF StatusOf
<1>3. StatusOf(i)' = bill.status /\ StatusOf(NoInvoice)' = StatusOf(NoInvoice)
  BY <1>1, MonthlyBillingAssumption DEF StatusOf
<1>4. \A k \in Records : record[k].inv \in Invoices \cup {NoInvoice}
  BY DEF TypeOK, RecordRow
<1>5. ClaimsAreBacked'
  <2>1. ASSUME NEW k \in Records, Claims(record[k])
        PROVE  StatusOf(record[k].inv)' \in FinalizedStatus
    <3>1. StatusOf(record[k].inv) \in FinalizedStatus
      BY <2>1 DEF ClaimTables, ClaimsAreBacked, Claims
    <3>2. QED
      BY <1>2, <1>3, <1>4, <2>1, <3>1
  <2>2. QED
    BY <2>1 DEF ClaimTables, ClaimsAreBacked, Claims
<1>6. LinksAreRows'
  BY <1>1, <1>4 DEF ClaimTables, LinksAreRows
<1>7. QED
  BY <1>5, <1>6 DEF ClaimTables, LinksAreUnique

LEMMA ClaimsUntouched ==
  ASSUME ClaimTables, UNCHANGED <<invoice, record>>
  PROVE  ClaimTables'
  BY DEF ClaimTables, ClaimsAreBacked, LinksAreRows, LinksAreUnique, StatusOf

LEMMA OnlyJobClaims ==
  ASSUME OneJob, LinkInv', ClaimTables', NEW p \in Procs, JobBacksClaims(p)'
  PROVE  ClaimInv'
  BY DEF OneJob, ClaimInv

LEMMA ClaimsOfPlainReads ==
  ASSUME OneJob, ClaimInv, LinkInv', UNCHANGED <<invoice, record>>,
         NEW p \in Procs, NEW q, Become(p, q),
         q.pc \notin {"remove_write", "load", "assess", "refresh_write", "link", "gen_check",
                      "gen_draft", "gen_link", "gen_issue", "gen_record"}
  PROVE  ClaimInv'
<1>1. job'[p] = q
  BY NextJob DEF ClaimInv, LinkInv, MonthInv
<1>2. JobBacksClaims(p)'
  BY <1>1 DEF JobBacksClaims
<1>3. ClaimTables'
  BY ClaimsUntouched DEF ClaimInv
<1>4. QED
  BY <1>2, <1>3, OnlyJobClaims

(* A job that is about to load a record, not in order to invoice it. *)
LEMMA LoadBacksClaims ==
  ASSUME NEW p \in Procs, NEW k, NEW actor, NEW next, TypeOK, Become(p, Load(k, actor, next)),
         next # "invoice"
  PROVE  JobBacksClaims(p)'
<1>1. job'[p] = Load(k, actor, next)
  BY NextJob
<1>2. QED
  BY <1>1 DEF JobBacksClaims, Load

LEMMA SyncClaims ==
  ASSUME OneJob, ClaimInv, LinkInv', NEW p \in Procs, Sync(p)
  PROVE  ClaimInv'
<1>a. TypeOK /\ job[p] \in Job /\ ClaimTables
  BY DEF ClaimInv, LinkInv, MonthInv, TypeOK
<1> DEFINE j == job[p]
<1>0. ASSUME NEW actor \in Actor, NEW m \in Months, NEW pv \in Kwh, SyncRead(p, actor, m, pv)
      PROVE  ClaimInv'
  <2>1. PICK q : Become(p, q) /\ q.pc = "sync_amounts"
    BY <1>0 DEF SyncRead
  <2>2. QED
    BY <1>0, <2>1, ClaimsOfPlainReads DEF SyncRead
<1>1. ASSUME SyncAmounts(p)
      PROVE  ClaimInv'
  <2>1. PICK q : Become(p, q) /\ q.pc = "sync_upsert"
    BY <1>1 DEF SyncAmounts
  <2>2. QED
    BY <1>1, <2>1, ClaimsOfPlainReads DEF SyncAmounts
<1>2. ASSUME NEW k \in Records, SyncUpdate(p, k) \/ SyncInsert(p, k)
      PROVE  ClaimInv'
  <2>1. j.month \in Months /\ j.kwh \in Kwh /\ j.manual \in Kwh
    BY <1>2, <1>a, JobFields, InvoiceTableAssumption DEF SyncUpdate, SyncInsert, Kwh
  <2>2. record[k] \in RecordRow
    BY <1>a DEF TypeOK
  <2>3. ClaimTables'
    <3>1. CASE SyncUpdate(p, k)
      <4> DEFINE row == Synced(record[k], j.kwh, j.manual)
      <4>1. record' = [record EXCEPT ![k] = row] /\ UNCHANGED invoice
        BY <1>a, <3>1 DEF SyncUpdate, TypeOK
      <4>2. /\ row \in RecordRow /\ row.inv = record[k].inv /\ row.state = "live"
            /\ Claims(row) => Claims(record[k])
        BY <2>1, <2>2, SyncedRow, ClaimFields DEF Claims
      <4>3. Claims(record[k]) => Out(record[k].inv)
        BY <1>a DEF ClaimTables, ClaimsAreBacked, Out, Claims
      <4> HIDE DEF row
      <4>4. QED
        BY <1>a, <4>1, <4>2, <4>3, ClaimsAfterRow
    <3>2. CASE SyncInsert(p, k)
      <4> DEFINE row == Created(j.month, j.kwh, j.manual)
      <4>1. record' = [record EXCEPT ![k] = row] /\ UNCHANGED invoice
        BY <3>2 DEF SyncInsert
      <4>2. row \in RecordRow /\ row.inv = NoInvoice
        BY <2>1, CreatedRow
      <4>3. ~Claims(row)
        BY DEF Claims, Created, FinalizedStatus
      <4> HIDE DEF row
      <4>4. QED
        BY <1>a, <4>1, <4>2, <4>3, ClaimsAfterRow
    <3>3. QED
      BY <1>2, <3>1, <3>2
  <2>4. JobBacksClaims(p)'
    <3>1. Become(p, Load(k, j.actor, "link")) /\ "link" # "invoice"
      BY <1>2 DEF SyncUpdate, SyncInsert
    <3>2. QED
      BY <1>a, <3>1, LoadBacksClaims
  <2>5. QED
    BY <2>3, <2>4, OnlyJobClaims
<1>3. QED
  BY <1>0, <1>1, <1>2 DEF Sync

LEMMA UpdateClaims ==
  ASSUME OneJob, ClaimInv, LinkInv', NEW p \in Procs, Update(p)
  PROVE  ClaimInv'
<1>a. TypeOK /\ job[p] \in Job /\ ClaimTables
  BY DEF ClaimInv, LinkInv, MonthInv, TypeOK
<1> DEFINE j == job[p]
<1>0. ASSUME NEW k \in Records, NEW m \in Months, NEW pv \in Kwh, NEW clear \in BOOLEAN,
             UpdateRead(p, k, m, pv, clear)
      PROVE  ClaimInv'
  <2>1. PICK q : Become(p, q) /\ q.pc = "update_check"
    BY <1>0 DEF UpdateRead
  <2>2. QED
    BY <1>0, <2>1, ClaimsOfPlainReads DEF UpdateRead
<1>1. ASSUME UpdateCheck(p)
      PROVE  ClaimInv'
  <2>1. PICK q : Become(p, q) /\ q.pc = "update_write"
    BY <1>1 DEF UpdateCheck
  <2>2. QED
    BY <1>1, <2>1, ClaimsOfPlainReads DEF UpdateCheck
<1>2. CASE UpdateWrite(p)
  <2> DEFINE k == j.rec
             row == Updated(record[k], j.month, j.kwh, j.manual)
  <2>1. k \in Records /\ j.month \in Months /\ j.manual \in Kwh /\ j.kwh \in Kwh
    BY <1>2, <1>a, JobFields, InvoiceTableAssumption DEF UpdateWrite, Kwh
  <2>2. record[k] \in RecordRow
    BY <1>a, <2>1 DEF TypeOK
  <2>3. record' = [record EXCEPT ![k] = row] /\ UNCHANGED invoice
    BY <1>a, <1>2, <2>1 DEF UpdateWrite, TypeOK
  <2>4. /\ row \in RecordRow /\ row.inv = record[k].inv /\ row.state = record[k].state
        /\ Claims(row) => Claims(record[k])
    BY <2>1, <2>2, UpdatedRow, ClaimFields DEF Claims
  <2>5. /\ Claims(record[k]) => Out(record[k].inv)
        /\ record[k].state # "live" => record[k].inv = NoInvoice
    BY <1>a, <2>1 DEF ClaimTables, ClaimsAreBacked, Out, Claims
  <2> HIDE DEF row
  <2>6. ClaimTables'
    BY <1>a, <2>1, <2>3, <2>4, <2>5, ClaimsAfterRow
  <2>7. JobBacksClaims(p)'
    <3>1. Become(p, Load(k, "admin", "link")) /\ "link" # "invoice"
      BY <1>2 DEF UpdateWrite
    <3>2. QED
      BY <1>a, <3>1, LoadBacksClaims
  <2>8. QED
    BY <2>6, <2>7, OnlyJobClaims
<1>3. QED
  BY <1>0, <1>1, <1>2 DEF Update

LEMMA RemoveClaims ==
  ASSUME OneJob, ClaimInv, LinkInv', NEW p \in Procs, Remove(p)
  PROVE  ClaimInv'
<1>a. TypeOK /\ job[p] \in Job /\ ClaimTables /\ JobBacksClaims(p)
  BY DEF ClaimInv, LinkInv, MonthInv, TypeOK
<1>1. ASSUME NEW k \in Records, RemoveRead(p, k)
      PROVE  ClaimInv'
  <2>1. JobBacksClaims(p)'
    BY <1>1, <1>a, NextJob DEF RemoveRead, JobBacksClaims
  <2>2. ClaimTables'
    BY <1>1, <1>a, ClaimsUntouched DEF RemoveRead
  <2>3. QED
    BY <2>1, <2>2, OnlyJobClaims
<1>2. CASE RemoveWrite(p)
  <2> DEFINE k == job[p].rec
             row == Removed(record[k])
  <2>1. k \in Records /\ record[k].inv = NoInvoice
    BY <1>2, <1>a, JobFields DEF RemoveWrite, JobBacksClaims
  <2>2. record[k] \in RecordRow
    BY <1>a, <2>1 DEF TypeOK
  <2>3. record' = [record EXCEPT ![k] = row] /\ UNCHANGED invoice
    BY <1>a, <1>2, <2>1 DEF RemoveWrite, TypeOK
  <2>4. /\ row \in RecordRow /\ row.inv = record[k].inv
        /\ Claims(row) => Claims(record[k])
    BY <2>1, <2>2, RemovedRow, ClaimFields DEF Claims
  <2>5. Claims(record[k]) => Out(record[k].inv)
    BY <1>a, <2>1 DEF ClaimTables, ClaimsAreBacked, Out, Claims
  <2> HIDE DEF row
  <2>6. ClaimTables'
    BY <1>a, <2>1, <2>3, <2>4, <2>5, ClaimsAfterRow
  <2>7. JobBacksClaims(p)'
    BY <1>2, <1>a, NextJob DEF RemoveWrite, JobBacksClaims, Idle
  <2>8. QED
    BY <2>6, <2>7, OnlyJobClaims
<1>3. QED
  BY <1>1, <1>2 DEF Remove

LEMMA PeriodErrorClaims ==
  ASSUME OneJob, ClaimInv, LinkInv', NEW p \in Procs, PeriodError(p)
  PROVE  ClaimInv'
<1>a. TypeOK /\ job[p] \in Job /\ ClaimTables
  BY DEF ClaimInv, LinkInv, MonthInv, TypeOK
<1>1. ASSUME NEW k \in Records, PeriodFails(p, k)
      PROVE  ClaimInv'
  <2>1. Become(p, [pc |-> "error_write", rec |-> k]) /\ UNCHANGED <<invoice, record>>
    BY <1>1 DEF PeriodFails
  <2>2. QED
    BY <2>1, ClaimsOfPlainReads
<1>2. CASE MarkPeriodError(p)
  <2> DEFINE k == job[p].rec
             row == Assessed(record[k], "ERROR", "PENDING_REVIEW", record[k].finalized)
  <2>1. k \in Records
    BY <1>2, <1>a, JobFields DEF MarkPeriodError
  <2>2. record[k] \in RecordRow
    BY <1>a, <2>1 DEF TypeOK
  <2>3. record' = [record EXCEPT ![k] = row] /\ UNCHANGED invoice
    BY <1>a, <1>2, <2>1 DEF MarkPeriodError, TypeOK
  <2>4. /\ row \in RecordRow /\ row.inv = record[k].inv /\ row.state = record[k].state
        /\ Claims(row) => Claims(record[k])
    BY <2>1, <2>2, ErrorRow, ClaimFields DEF Claims, FinalizedStatus
  <2>5. /\ Claims(record[k]) => Out(record[k].inv)
        /\ record[k].state # "live" => record[k].inv = NoInvoice
    BY <1>a, <2>1 DEF ClaimTables, ClaimsAreBacked, Out, Claims
  <2> HIDE DEF row
  <2>6. ClaimTables'
    BY <1>a, <2>1, <2>3, <2>4, <2>5, ClaimsAfterRow
  <2>7. JobBacksClaims(p)'
    BY <1>2, <1>a, NextJob DEF MarkPeriodError, JobBacksClaims, Idle
  <2>8. QED
    BY <2>6, <2>7, OnlyJobClaims
<1>3. QED
  BY <1>1, <1>2 DEF PeriodError

(* What an assessment says of the invoice it has been made with. *)
LEMMA AssessedClaims ==
  ASSUME NEW quality, NEW status, NEW row
  PROVE  /\ AssessedWorkflow(quality, status) \in FinalizedStatus => status \in FinalizedStatus
         /\ \A w : AssessedFinalized(row, w) = "yes" => w \in FinalizedStatus
<1>1. AssessedWorkflow(quality, status) \in {status, "ESTIMATE", "DRAFT", "PENDING_REVIEW"}
  BY DEF AssessedWorkflow, MapInvoice
<1>2. ASSUME NEW w, w \notin FinalizedStatus
      PROVE  AssessedFinalized(row, w) = "no"
  BY <1>2 DEF AssessedFinalized, FinalizedStatus
<1>3. QED
  BY <1>1, <1>2 DEF FinalizedStatus

LEMMA AssessClaims ==
  ASSUME OneJob, ClaimInv, LinkInv', NEW p \in Procs, NEW broken \in BOOLEAN, RefreshAssess(p, broken)
  PROVE  ClaimInv'
<1>a. TypeOK /\ job[p] \in Job /\ ClaimTables /\ JobBacksClaims(p)
  BY DEF ClaimInv, LinkInv, MonthInv, TypeOK
<1> DEFINE j == job[p]
           quality == AssessedQuality(j.row, broken)
           workflow == AssessedWorkflow(quality, j.status)
           row == Assessed(j.row, quality, workflow, AssessedFinalized(j.row, workflow))
           q == [j EXCEPT !.pc = "refresh_write", !.row = row]
<1>1. j.pc = "assess" /\ UNCHANGED <<invoice, record>> /\ Become(p, q)
  BY DEF RefreshAssess
<1>2. j \in [pc : {"assess"}, rec : Records, actor : Actor, next : Then, row : RecordRow,
              status : LinkedStatus]
  BY <1>1, <1>a DEF Job, Idle
<1>3. job'[p] = q
  BY <1>a, <1>1, NextJob
<1>4. q.pc = "refresh_write" /\ q.rec = j.rec /\ q.next = j.next /\ q.row = row
  <2> HIDE DEF j, row
  <2>1. QED
    BY <1>2
<1>5. /\ row.workflow \in FinalizedStatus => j.status \in FinalizedStatus
      /\ row.finalized = "yes" => row.workflow \in FinalizedStatus
  <2>1. j.row \in RecordRow /\ j.status \in LinkedStatus
    BY <1>2
  <2> HIDE DEF j, quality
  <2>2. QED
    BY <2>1, AssessedClaims, ClaimFields
<1> HIDE DEF q, row
<1>6. /\ record[j.rec].state = "live"
      /\ j.next = "invoice" => ~Out(record[j.rec].inv)
      /\ Claims(row) => Out(record[j.rec].inv)
  BY <1>a, <1>1, <1>5 DEF JobBacksClaims, Claims
<1>7. \A i : Out(i)' <=> Out(i)
  BY <1>1 DEF Out, StatusOf
<1>8. JobBacksClaims(p)'
  <2> HIDE DEF j
  <2>1. QED
    BY <1>1, <1>3, <1>4, <1>5, <1>6, <1>7 DEF JobBacksClaims
<1>9. QED
  BY <1>a, <1>1, <1>8, ClaimsUntouched, OnlyJobClaims

LEMMA RefreshReadsClaims ==
  ASSUME OneJob, ClaimInv, LinkInv', NEW p \in Procs,
         \/ RefreshLoad(p)
         \/ \E broken \in BOOLEAN : RefreshAssess(p, broken)
         \/ \E k \in Records : RefreshHistory(p, k)
         \/ \E m \in Months : RefreshPeriod(p, m)
  PROVE  ClaimInv'
<1>a. TypeOK /\ job[p] \in Job /\ ClaimTables /\ JobBacksClaims(p)
  BY DEF ClaimInv, LinkInv, MonthInv, TypeOK
<1> DEFINE j == job[p]
<1>b. UNCHANGED <<invoice, record>>
  <2>1. RefreshLoad(p) => UNCHANGED <<invoice, record>>
    BY DEF RefreshLoad
  <2>2. \A broken \in BOOLEAN : RefreshAssess(p, broken) => UNCHANGED <<invoice, record>>
    BY Zenon DEF RefreshAssess
  <2>3. \A k \in Records : RefreshHistory(p, k) => UNCHANGED <<invoice, record>>
    BY DEF RefreshHistory
  <2>4. \A m \in Months : RefreshPeriod(p, m) => UNCHANGED <<invoice, record>>
    BY DEF RefreshPeriod
  <2>5. QED
    BY <2>1, <2>2, <2>3, <2>4
<1>c. ClaimTables'
  BY <1>a, <1>b, ClaimsUntouched
<1>1. CASE RefreshLoad(p)
  <2> DEFINE k == j.rec
             q == [pc |-> "assess", rec |-> k, actor |-> j.actor, next |-> j.next,
                   row |-> record[k], status |-> StatusOf(record[k].inv)]
  <2>1. j.pc = "load" /\ record[k].state = "live"
    BY <1>1 DEF RefreshLoad
  <2>2. job'[p] = q
    BY <1>1, <1>a, NextJob DEF RefreshLoad
  <2>3. JobBacksClaims(p)'
    BY <1>a, <1>b, <2>1, <2>2 DEF JobBacksClaims, Out, StatusOf
  <2>4. QED
    BY <1>c, <2>3, OnlyJobClaims
<1>2. ASSUME NEW broken \in BOOLEAN, RefreshAssess(p, broken)
      PROVE  ClaimInv'
  BY <1>2, AssessClaims
<1>3. ASSUME NEW k, Become(p, Load(k, "auto", "done"))
      PROVE  ClaimInv'
  <2>1. JobBacksClaims(p)'
    BY <1>3, <1>a, LoadBacksClaims
  <2>2. QED
    BY <1>c, <2>1, OnlyJobClaims
<1>4. ASSUME NEW k \in Records, RefreshHistory(p, k)
      PROVE  ClaimInv'
  BY <1>3, <1>4 DEF RefreshHistory
<1>5. ASSUME NEW m \in Months, RefreshPeriod(p, m)
      PROVE  ClaimInv'
  <2>1. CASE \E k \in RowOf(m) : Become(p, Load(k, "auto", "done"))
    BY <1>3, <2>1
  <2>2. ASSUME NEW q, Become(p, q), q.pc = "period_create"
        PROVE  ClaimInv'
    BY <1>b, <2>2, ClaimsOfPlainReads
  <2>3. QED
    BY <1>5, <2>1, <2>2 DEF RefreshPeriod
<1>6. QED
  BY <1>1, <1>2, <1>4, <1>5

LEMMA RefreshWriteClaims ==
  ASSUME OneJob, ClaimInv, LinkInv', NEW p \in Procs, RefreshWrite(p)
  PROVE  ClaimInv'
<1>a. TypeOK /\ job[p] \in Job /\ ClaimTables /\ JobBacksClaims(p)
  BY DEF ClaimInv, LinkInv, MonthInv, TypeOK
<1> DEFINE j == job[p]
           k == j.rec
           written == Assessed(record[k], j.row.quality, j.row.workflow, j.row.finalized)
           q(pc) == [j EXCEPT !.pc = pc, !.row = written, !.status = StatusOf(written.inv)]
<1>1. j \in [pc : {"refresh_write"}, rec : Records, actor : Actor, next : Then, row : RecordRow,
              status : LinkedStatus]
  BY <1>a DEF RefreshWrite, Job, Idle
<1>2. j.pc = "refresh_write" /\ k \in Records /\ j.row \in RecordRow /\ record[k] \in RecordRow
  BY <1>1, <1>a DEF TypeOK
<1>3. /\ written \in RecordRow /\ written.inv = record[k].inv /\ written.state = record[k].state
      /\ written.quality = j.row.quality /\ written.workflow = j.row.workflow
      /\ written.finalized = j.row.finalized
  <2>1. /\ j.row.quality \in Quality /\ j.row.workflow \in Workflow
        /\ j.row.finalized \in {"no", "yes"}
    BY <1>2 DEF RecordRow
  <2>2. QED
    BY <1>2, <2>1, AssessedRow, ClaimFields
<1>4. /\ record' = [record EXCEPT ![k] = written]
      /\ UNCHANGED <<invoice, energy, now>>
      /\ \/ Become(p, q("link")) /\ written.inv # NoInvoice
         \/ Become(p, q("gen_check")) /\ j.next = "invoice"
         \/ Become(p, Idle)
  BY <1>2 DEF RefreshWrite
<1>5. \A pc \in {"link", "gen_check"} :
        /\ q(pc).pc = pc /\ q(pc).rec = k /\ q(pc).row = written
        /\ q(pc).status = StatusOf(written.inv)
  <2> HIDE DEF written, j
  <2>1. QED
    BY <1>1
<1>6. /\ record[k].state = "live"
      /\ j.next = "invoice" => ~Out(record[k].inv)
      /\ Claims(j.row) => Out(record[k].inv)
      /\ j.row.finalized = "yes" => j.row.workflow \in FinalizedStatus
  BY <1>a, <1>2 DEF JobBacksClaims
<1> HIDE DEF written, q, j
<1>7. ClaimTables'
  BY <1>a, <1>2, <1>3, <1>4, <1>6, ClaimsAfterRow DEF Claims
<1>8. record'[k] = written
  BY <1>a, <1>2, <1>4 DEF TypeOK
<1>9. \A i : StatusOf(i)' = StatusOf(i)
  BY <1>4 DEF StatusOf
<1>10. PICK s : /\ Become(p, s)
                /\ \/ /\ s.pc = "link" /\ s.row = written /\ s.rec = k
                      /\ s.status = StatusOf(written.inv) /\ written.inv # NoInvoice
                   \/ /\ s.pc = "gen_check" /\ s.row = written /\ s.rec = k
                      /\ ~Out(record[k].inv)
                   \/ s.pc = "idle"
  BY <1>4, <1>5, <1>6 DEF Idle
<1>11. job'[p] = s
  BY <1>a, <1>10, NextJob
<1>12. written.inv # NoInvoice => StatusOf(written.inv) # "ABSENT"
  BY <1>a, <1>2, <1>3, MonthlyBillingAssumption DEF ClaimTables, LinksAreRows, StatusOf
<1>13. JobBacksClaims(p)'
  BY <1>3, <1>6, <1>8, <1>9, <1>10, <1>11, <1>12 DEF JobBacksClaims, Out
<1>14. QED
  BY <1>7, <1>13, OnlyJobClaims

LEMMA PeriodCreateClaims ==
  ASSUME OneJob, ClaimInv, LinkInv', NEW p \in Procs, NEW k \in Records, PeriodCreate(p, k)
  PROVE  ClaimInv'
<1>a. TypeOK /\ job[p] \in Job /\ ClaimTables
  BY DEF ClaimInv, LinkInv, MonthInv, TypeOK
<1> DEFINE j == job[p]
           row == Created(j.month, j.kwh, 0)
<1>1. j.month \in Months /\ j.kwh \in Kwh /\ 0 \in Kwh
  BY <1>a, JobFields, InvoiceTableAssumption DEF PeriodCreate, Kwh
<1>2. row \in RecordRow /\ row.inv = NoInvoice
  BY <1>1, CreatedRow
<1>3. ~Claims(row)
  BY DEF Claims, Created, FinalizedStatus
<1>4. record' = [record EXCEPT ![k] = row] /\ UNCHANGED invoice
  BY DEF PeriodCreate
<1>5. row.state = "live"
  BY <1>1, CreatedRow
<1> HIDE DEF row
<1>6. ClaimTables'
  BY <1>a, <1>2, <1>3, <1>4, <1>5, ClaimsAfterRow
<1>7. JobBacksClaims(p)'
  <2>1. Become(p, Load(k, "auto", "done")) /\ "done" # "invoice"
    BY DEF PeriodCreate
  <2>2. QED
    BY <1>a, <2>1, LoadBacksClaims
<1>8. QED
  BY <1>6, <1>7, OnlyJobClaims

(* The invoice takes over the status its record has been assessed to: no    *)
(* record that claims more is left behind.                                  *)
LEMMA SyncLinkedClaims ==
  ASSUME OneJob, ClaimInv, LinkInv', NEW p \in Procs, SyncLinkedInvoice(p)
  PROVE  ClaimInv'
<1>a. TypeOK /\ job[p] \in Job /\ ClaimTables /\ JobBacksClaims(p)
  BY DEF ClaimInv, LinkInv, MonthInv, TypeOK
<1> DEFINE j == job[p]
           status == IF j.row.workflow \in {"PENDING_REVIEW", "DRAFT"} THEN j.row.workflow ELSE j.status
           bill == Recalculated(invoice[j.row.inv], j.row.month, j.row.kwh, status)
<1>1. /\ Become(p, Idle) /\ UNCHANGED record
      /\ invoice' = invoice \/ invoice' = [invoice EXCEPT ![j.row.inv] = bill]
      /\ j.pc = "link" /\ Mutable(j.status)
  BY DEF SyncLinkedInvoice
<1>2. /\ j.rec \in Records /\ j.row \in RecordRow /\ j.status \in LinkedStatus
      /\ j.row = record[j.rec] /\ j.row.inv \in Invoices /\ j.status # "ABSENT"
      /\ j.row.finalized = "yes" => j.row.workflow \in FinalizedStatus
      /\ Out(j.row.inv) <=> j.status \in FinalizedStatus
  BY <1>1, <1>a, JobFields DEF JobBacksClaims, RecordRow
<1>3. invoice[j.row.inv].status # "ABSENT"
  BY <1>a, <1>2, MonthlyBillingAssumption DEF ClaimTables, LinksAreRows
<1>4. /\ status \in LinkedStatus /\ status # "ABSENT"
      /\ Claims(j.row) => status \in FinalizedStatus
  <2>1. Claims(j.row) => Out(j.row.inv)
    BY <1>a, <1>2 DEF ClaimTables, ClaimsAreBacked, Out, Claims
  <2>2. QED
    BY <1>2, <2>1 DEF Claims, FinalizedStatus, LinkedStatus, InvoiceStatus
<1>5. CASE invoice' = invoice
  <2>1. ClaimTables'
    BY <1>a, <1>1, <1>5, ClaimsUntouched
  <2>2. JobBacksClaims(p)'
    BY <1>a, <1>1, NextJob DEF JobBacksClaims, Idle
  <2>3. QED
    BY <2>1, <2>2, OnlyJobClaims
<1>6. CASE invoice' = [invoice EXCEPT ![j.row.inv] = bill]
  <2>1. bill.status = status
    <3>1. invoice[j.row.inv] \in InvoiceRow /\ j.row.month \in 0..MaxMonth /\ j.row.kwh \in Kwh
      BY <1>a, <1>2 DEF TypeOK, RecordRow
    <3> HIDE DEF j, status
    <3>2. QED
      BY <1>4, <3>1, RecalculatedRow
  <2>2. \A k \in Records : record[k].inv = j.row.inv => record[k] = j.row
    BY <1>a, <1>2, MonthlyBillingAssumption DEF ClaimTables, LinksAreUnique
  <2> HIDE DEF bill, status
  <2>3. ClaimTables'
    BY <1>a, <1>1, <1>2, <1>4, <1>6, <2>1, <2>2, ClaimsAfterBill
  <2>4. JobBacksClaims(p)'
    BY <1>a, <1>1, NextJob DEF JobBacksClaims, Idle
  <2>5. QED
    BY <2>3, <2>4, OnlyJobClaims
<1>7. QED
  BY <1>1, <1>5, <1>6

LEMMA GenerateClaims ==
  ASSUME OneJob, ClaimInv, LinkInv', NEW p \in Procs, Generate(p)
  PROVE  ClaimInv'
<1>a. /\ TypeOK /\ job[p] \in Job /\ ClaimTables /\ JobBacksClaims(p)
      /\ JobHoldsLink(p) /\ BilledRowsArePast
  BY DEF ClaimInv, LinkInv, MonthInv, TypeOK
<1> DEFINE j == job[p]
           k == j.rec
<1>1. ASSUME NEW actor \in Actor, NEW h \in Records, GenerateInvoice(p, actor, h)
      PROVE  ClaimInv'
  <2>1. /\ Become(p, Load(h, actor, "invoice")) /\ UNCHANGED <<invoice, record>>
        /\ ~Out(record[h].inv)
    BY <1>1 DEF GenerateInvoice, Out
  <2>2. job'[p] = Load(h, actor, "invoice")
    BY <1>a, <2>1, NextJob
  <2>3. ~Out(record[h].inv)'
    BY <2>1 DEF Out, StatusOf
  <2>4. JobBacksClaims(p)'
    BY <2>2, <2>3 DEF JobBacksClaims, Load
  <2>5. QED
    BY <1>a, <2>1, <2>4, ClaimsUntouched, OnlyJobClaims
<1>2. ASSUME GenerateCheck(p)
      PROVE  ClaimInv'
  <2> DEFINE q == [j EXCEPT !.pc = "gen_draft"]
  <2>1. j.pc = "gen_check" /\ Become(p, q) /\ UNCHANGED <<invoice, record>>
    BY <1>2 DEF GenerateCheck
  <2>2. j \in [pc : {"gen_check"}, rec : Records, actor : Actor, next : Then, row : RecordRow,
                status : LinkedStatus]
    BY <2>1, <1>a DEF Job, Idle
  <2>3. q.pc = "gen_draft" /\ q.rec = k /\ q.row = j.row
    <3> HIDE DEF j
    <3>1. QED
      BY <2>2
  <2>4. job'[p] = q
    BY <1>a, <2>1, NextJob
  <2> HIDE DEF q
  <2>5. ~Out(record[k].inv) /\ record[k].state = "live" /\ record[k].quality = j.row.quality
    BY <1>a, <2>1 DEF JobBacksClaims
  <2>6. JobBacksClaims(p)'
    <3>1. \A i : Out(i)' <=> Out(i)
      BY <2>1 DEF Out, StatusOf
    <3> HIDE DEF j
    <3>2. QED
      BY <2>1, <2>3, <2>4, <2>5, <3>1 DEF JobBacksClaims
  <2>7. QED
    BY <1>a, <2>1, <2>6, ClaimsUntouched, OnlyJobClaims
<1>3. ASSUME NEW i \in Invoices, WriteDraft(p, i)
      PROVE  ClaimInv'
  <2> DEFINE bill == DraftOf(j.row, invoice[i].paid)
  <2>1. PICK q : Become(p, q) /\ q.pc = "gen_link" /\ q.rec = k /\ q.inv = i /\ q.row = j.row
    BY <1>3 DEF WriteDraft
  <2>2. /\ j.pc = "gen_draft" /\ UNCHANGED record
        /\ invoice' = [invoice EXCEPT ![i] = bill]
        /\ \/ j.row.inv = NoInvoice /\ invoice[i].status = "ABSENT"
           \/ j.row.inv = i
    BY <1>3, <1>a DEF WriteDraft, TypeOK
  <2>3. /\ k \in Records /\ record[k].inv = j.row.inv /\ ~Out(record[k].inv)
        /\ record[k].state = "live" /\ record[k].quality = j.row.quality
    BY <2>2, <1>a, JobFields DEF JobHoldsLink, JobBacksClaims
  <2>4. bill.status = "DRAFT"
    BY DEF DraftOf
  <2> HIDE DEF bill
  <2>5. NobodyElseLinks(k, i)
    BY <1>a, <2>2, <2>3, MonthlyBillingAssumption
    DEF NobodyElseLinks, ClaimTables, LinksAreRows, LinksAreUnique
  <2>6. \A h \in Records : record[h].inv = i => ~Claims(record[h])
    <3>1. ASSUME NEW h \in Records, record[h].inv = i
          PROVE  ~Claims(record[h])
      <4>1. h = k
        BY <2>5, <3>1 DEF NobodyElseLinks
      <4>2. ~Out(record[h].inv)
        BY <2>3, <4>1
      <4>3. QED
        BY <1>a, <4>2 DEF ClaimTables, ClaimsAreBacked, Out, Claims
    <3>2. QED
      BY <3>1
  <2>7. ClaimTables'
    BY <1>a, <2>2, <2>4, <2>6, ClaimsAfterBill
  <2>8. invoice'[i] = bill
    BY <1>a, <2>2 DEF TypeOK
  <2>9. JobBacksClaims(p)'
    <3>1. job'[p] = q
      BY <1>a, <2>1, NextJob
    <3>2. invoice'[i].status # "ABSENT" /\ ~AskedFor(i)'
      BY <2>4, <2>8 DEF AskedFor, FinalizedStatus
    <3>3. \A l \in Records : record'[l].inv = i => l = k
      BY <2>2, <2>5 DEF NobodyElseLinks
    <3> HIDE DEF j
    <3>4. QED
      BY <2>1, <2>2, <2>3, <3>1, <3>2, <3>3 DEF JobBacksClaims, NobodyElseLinks
  <2>10. QED
    BY <2>7, <2>9, OnlyJobClaims
<1>4. ASSUME LinkDraft(p)
      PROVE  ClaimInv'
  <2> DEFINE row == Linked(record[k], j.inv)
             q == [j EXCEPT !.pc = "gen_issue"]
  <2>1. j.pc = "gen_link" /\ Become(p, q) /\ UNCHANGED invoice
    BY <1>4 DEF LinkDraft
  <2>2. j \in [pc : {"gen_link"}, rec : Records, actor : Actor, row : RecordRow, inv : Invoices]
    BY <2>1, <1>a DEF Job, Idle
  <2>3. /\ k \in Records /\ j.inv \in Invoices /\ record[k] \in RecordRow
        /\ record[k].inv \in {NoInvoice, j.inv} /\ record[k].state = "live"
        /\ record[k].quality = j.row.quality
        /\ invoice[j.inv].status # "ABSENT" /\ ~AskedFor(j.inv) /\ NobodyElseLinks(k, j.inv)
    BY <2>1, <2>2, <1>a DEF TypeOK, JobHoldsLink, JobBacksClaims
  <2>4. record' = [record EXCEPT ![k] = row]
    BY <1>4, <1>a, <2>3 DEF LinkDraft, TypeOK
  <2>5. /\ row \in RecordRow /\ row.inv = j.inv /\ row.state = "live"
        /\ row.workflow = "DRAFT" /\ row.finalized = record[k].finalized
        /\ row.quality = record[k].quality
    BY <2>3, LinkedRow, ClaimFields
  <2>6. ~Claims(row)
    <3>1. ~Out(record[k].inv)
      BY <2>3, NoInvoiceIsNotOut, OutIsAskedFor
    <3>2. ~Claims(record[k])
      BY <1>a, <2>3, <3>1 DEF ClaimTables, ClaimsAreBacked, Out, Claims
    <3> HIDE DEF row
    <3>3. QED
      BY <2>5, <3>2 DEF Claims, FinalizedStatus
  <2>7. q.pc = "gen_issue" /\ q.rec = k /\ q.inv = j.inv /\ q.row = j.row
    <3> HIDE DEF j
    <3>1. QED
      BY <2>2
  <2> HIDE DEF row, q
  <2>8. ClaimTables'
    BY <1>a, <2>1, <2>3, <2>4, <2>5, <2>6, ClaimsAfterRow
  <2>9. record'[k] = row /\ \A h \in Records : h # k => record'[h] = record[h]
    BY <1>a, <2>3, <2>4 DEF TypeOK
  <2>10. JobBacksClaims(p)'
    <3>1. job'[p] = q
      BY <1>a, <2>1, NextJob
    <3>2. \A l \in Records : record'[l].inv = j.inv => l = k
      BY <2>3, <2>9 DEF NobodyElseLinks
    <3>3. invoice'[j.inv].status \notin FinalizedStatus \cup {"ABSENT"}
      BY <2>1, <2>3 DEF AskedFor
    <3> HIDE DEF j
    <3>4. QED
      BY <2>3, <2>5, <2>7, <2>9, <3>1, <3>2, <3>3 DEF JobBacksClaims, NobodyElseLinks, AskedFor
  <2>11. QED
    BY <2>8, <2>10, OnlyJobClaims
<1>5. ASSUME IssueInvoice(p)
      PROVE  ClaimInv'
  <2> DEFINE status == TargetStatus(j)
             bill == Transitioned(invoice[j.inv], status)
             q == [pc |-> "gen_record", rec |-> k, workflow |-> status]
  <2>1. j.pc = "gen_issue" /\ Become(p, q) /\ UNCHANGED record
    BY <1>5 DEF IssueInvoice
  <2>2. /\ k \in Records /\ j.inv \in Invoices /\ record[k].inv = j.inv
        /\ ~AskedFor(j.inv)
    BY <2>1, <1>a, JobFields DEF JobHoldsLink, JobBacksClaims
  <2>3. invoice' = [invoice EXCEPT ![j.inv] = bill]
    BY <1>5, <1>a, <2>2 DEF IssueInvoice, TypeOK
  <2>4. status \in {"ISSUED", "PENDING_REVIEW"}
    BY DEF TargetStatus
  <2> HIDE DEF status
  <2>5. bill.status = status
    <3>1. invoice[j.inv] \in InvoiceRow
      BY <1>a, <2>2 DEF TypeOK
    <3>2. status \in LinkedStatus
      BY <2>4 DEF LinkedStatus, InvoiceStatus
    <3> HIDE DEF j
    <3>3. QED
      BY <3>1, <3>2, TransitionedRow
  <2> HIDE DEF bill
  <2>6. \A h \in Records : record[h].inv = j.inv => ~Claims(record[h])
    BY <1>a, <2>2, OutIsAskedFor DEF ClaimTables, ClaimsAreBacked, Claims, Out
  <2>7. ClaimTables'
    BY <1>a, <2>1, <2>2, <2>3, <2>4, <2>5, <2>6, ClaimsAfterBill
  <2>8. invoice'[j.inv].status = status
    BY <1>a, <2>2, <2>3, <2>5 DEF TypeOK
  <2>9. JobBacksClaims(p)'
    <3>1. job'[p] = q
      BY <1>a, <2>1, NextJob
    <3>2. q.pc = "gen_record" /\ q.rec = k /\ q.workflow = status
      OBVIOUS
    <3>3. record'[k].inv = j.inv /\ j.inv # NoInvoice
      BY <2>1, <2>2, MonthlyBillingAssumption
    <3> HIDE DEF j, q
    <3>4. QED
      BY <2>8, <3>1, <3>2, <3>3 DEF JobBacksClaims, Out, StatusOf, FinalizedStatus
  <2>10. QED
    BY <2>7, <2>9, OnlyJobClaims
<1>6. ASSUME RecordInvoiced(p)
      PROVE  ClaimInv'
  <2> DEFINE row == Invoiced(record[k], j.workflow)
  <2>1. j.pc = "gen_record" /\ Become(p, Idle) /\ UNCHANGED invoice
    BY <1>6 DEF RecordInvoiced
  <2>2. /\ k \in Records /\ j.workflow \in {"ISSUED", "PENDING_REVIEW"}
        /\ j.workflow = "ISSUED" => Out(record[k].inv)
    BY <2>1, <1>a, JobFields DEF JobBacksClaims
  <2>3. record[k] \in RecordRow
    BY <1>a, <2>2 DEF TypeOK
  <2>4. /\ row \in RecordRow /\ row.inv = record[k].inv /\ row.state = record[k].state
        /\ row.workflow = j.workflow
        /\ row.finalized = IF j.workflow = "ISSUED" THEN "yes" ELSE "no"
    <3>1. j.workflow \in Workflow
      BY <2>2 DEF Workflow, InvoiceStatus
    <3> HIDE DEF j
    <3>2. QED
      BY <2>3, <3>1, InvoicedRow, ClaimFields
  <2>5. Claims(row) => Out(row.inv)
    <3> HIDE DEF row
    <3>1. QED
      BY <2>2, <2>4 DEF Claims, FinalizedStatus
  <2>6. record' = [record EXCEPT ![k] = row]
    BY <1>6, <1>a, <2>2 DEF RecordInvoiced, TypeOK
  <2>7. record[k].state # "live" => record[k].inv = NoInvoice
    BY <1>a, <2>2 DEF ClaimTables, ClaimsAreBacked
  <2> HIDE DEF row
  <2>8. ClaimTables'
    BY <1>a, <2>1, <2>2, <2>4, <2>5, <2>6, <2>7, ClaimsAfterRow
  <2>9. JobBacksClaims(p)'
    BY <1>a, <2>1, NextJob DEF JobBacksClaims, Idle
  <2>10. QED
    BY <2>8, <2>9, OnlyJobClaims
<1>7. QED
  BY <1>1, <1>2, <1>3, <1>4, <1>5, <1>6 DEF Generate

(* Payments and the clock leave alone what the customer has not been asked  *)
(* to pay, and take back nothing that is out.                               *)
OutStays ==
  \A i \in Invoices : \/ invoice'[i] = invoice[i]
                      \/ AskedFor(i) /\ AskedFor(i)'

LEMMA SurroundingsKeepOut ==
  ASSUME ~StaleReceipts, TypeOK, Surroundings
  PROVE  OutStays
<1>1. CASE invoice' = invoice
  BY <1>1 DEF OutStays
<1>2. ASSUME NEW i \in Invoices, NEW amount \in Kwh, PaymentLands(i, amount)
      PROVE  OutStays
  <2> DEFINE paid == NextPaid(i, amount)
             status == IF paid >= invoice[i].total THEN "PAID" ELSE "PARTIAL"
  <2>1. invoice' = [invoice EXCEPT ![i] = Credited(invoice[i], paid, status)] /\ AskedFor(i)
    BY <1>2 DEF PaymentLands, Submissible, TypeOK
  <2>2. invoice[i] \in InvoiceRow /\ invoice[i].paid \in Nat /\ invoice[i].total \in 0..MaxTotal
    BY InvoiceTableAssumption DEF TypeOK, InvoiceRow
  <2>3. paid \in 0..MaxTotal /\ status \in InvoiceStatus
    BY <1>2, <2>2, InvoiceTableAssumption DEF NextPaid, Kwh, InvoiceStatus
  <2>4. Credited(invoice[i], paid, status).status = status /\ status \in {"PAID", "PARTIAL"}
    BY <2>2, <2>3, CreditedRow
  <2> HIDE DEF paid, status
  <2>5. QED
    BY <2>1, <2>4 DEF TypeOK, OutStays, AskedFor, FinalizedStatus
<1>3. ASSUME NEW late \in SUBSET Invoices, RefreshOverdue(late)
      PROVE  OutStays
  <2>1. \A i \in late : AskedFor(i)
    BY <1>3 DEF RefreshOverdue, CanBeLate, AskedFor, FinalizedStatus
  <2>2. \A i \in Invoices :
          invoice'[i] = IF i \in late THEN [invoice[i] EXCEPT !.status = "OVERDUE"] ELSE invoice[i]
    BY <1>3 DEF RefreshOverdue, SweptOverdue, TypeOK
  <2>3. \A i \in Invoices :
          [invoice[i] EXCEPT !.status = "OVERDUE"].status = "OVERDUE"
    BY DEF TypeOK, InvoiceRow
  <2>4. QED
    BY <2>1, <2>2, <2>3 DEF OutStays, AskedFor, FinalizedStatus
<1>4. QED
  BY <1>1, <1>2, <1>3 DEF Surroundings, NextMonth, EnergyArrives

LEMMA SurroundingsClaims ==
  ASSUME ~StaleReceipts, ClaimInv, LinkInv', Surroundings
  PROVE  ClaimInv'
<1>a. TypeOK /\ ClaimTables
  BY DEF ClaimInv, LinkInv, MonthInv
<1>b. UNCHANGED <<record, job>>
  BY DEF Surroundings, NextMonth, EnergyArrives, PaymentLands, RefreshOverdue
<1>1. OutStays
  BY <1>a, SurroundingsKeepOut
<1>2. \A i \in Invoices \cup {NoInvoice} : Out(i)' <=> Out(i)
  <2>1. ASSUME NEW i \in Invoices
        PROVE  Out(i)' <=> Out(i)
    BY <1>1, MonthlyBillingAssumption DEF OutStays, AskedFor, Out, StatusOf
  <2>2. Out(NoInvoice)' <=> Out(NoInvoice)
    BY DEF Out, StatusOf
  <2>3. QED
    BY <2>1, <2>2
<1>3. \A i \in Invoices : invoice[i].status # "ABSENT" => invoice'[i].status # "ABSENT"
  BY <1>1 DEF OutStays, AskedFor, FinalizedStatus
<1>4. \A k \in Records : record[k].inv \in Invoices \cup {NoInvoice}
  BY <1>a DEF TypeOK, RecordRow
<1>5. ClaimTables'
  <2>1. ClaimsAreBacked'
    BY <1>a, <1>b, <1>2, <1>4 DEF ClaimTables, ClaimsAreBacked, Out
  <2>2. LinksAreRows'
    BY <1>a, <1>b, <1>3, <1>4 DEF ClaimTables, LinksAreRows
  <2>3. QED
    BY <1>a, <1>b, <2>1, <2>2 DEF ClaimTables, LinksAreUnique
<1>6. ASSUME NEW p \in Procs
      PROVE  JobBacksClaims(p)'
  <2>1. job[p] \in Job /\ JobBacksClaims(p)
    BY <1>a DEF ClaimInv, TypeOK
  <2>2. /\ job[p].pc \in {"load", "assess", "refresh_write", "gen_check", "gen_draft", "gen_record"} =>
             Out(record[job[p].rec].inv)' <=> Out(record[job[p].rec].inv)
        /\ job[p].pc = "link" => Out(job[p].row.inv)' <=> Out(job[p].row.inv)
    <3>1. /\ job[p].pc \in {"load", "assess", "refresh_write", "gen_check", "gen_draft", "gen_record"} =>
               job[p].rec \in Records
          /\ job[p].pc = "link" => job[p].row.inv \in Invoices \cup {NoInvoice}
      BY <2>1, JobFields DEF RecordRow
    <3>2. QED
      BY <1>b, <1>2, <1>4, <3>1
  <2>3. job[p].pc \in {"gen_link", "gen_issue"} =>
          invoice'[job[p].inv].status # "ABSENT" /\ ~AskedFor(job[p].inv)'
    <3>1. job[p].pc \in {"gen_link", "gen_issue"} => job[p].inv \in Invoices
      BY <2>1, JobFields
    <3>2. QED
      BY <1>b, <1>1, <2>1, <3>1 DEF OutStays, AskedFor, JobBacksClaims
  <2>4. QED
    BY <1>b, <2>1, <2>2, <2>3 DEF JobBacksClaims, NobodyElseLinks
<1>7. QED
  BY <1>5, <1>6 DEF ClaimInv

LEMMA ClaimInvStep ==
  OneJob /\ ~AllowPeriodMove /\ ~StaleReceipts /\ ClaimInv /\ [Next]_vars => ClaimInv'
<1> SUFFICES ASSUME OneJob, ~AllowPeriodMove, ~StaleReceipts, ClaimInv, [Next]_vars PROVE ClaimInv'
  OBVIOUS
<1>a. LinkInv'
  BY LinkInvStep DEF ClaimInv
<1>1. ASSUME NEW p \in Procs, Abort(p) \/ Refused(p) PROVE ClaimInv'
  <2>1. Become(p, Idle) /\ UNCHANGED <<invoice, record>> /\ Idle.pc = "idle"
    BY <1>1 DEF Abort, Refused, Idle
  <2>2. QED
    BY <1>a, <2>1, ClaimsOfPlainReads
<1>2. ASSUME NEW p \in Procs, Refresh(p) PROVE ClaimInv'
  BY <1>a, <1>2, RefreshReadsClaims, RefreshWriteClaims, PeriodCreateClaims, SyncLinkedClaims
  DEF Refresh
<1>3. CASE UNCHANGED vars
  <2>1. ClaimTables'
    BY <1>3, ClaimsUntouched DEF vars, ClaimInv
  <2>2. \A p \in Procs : JobBacksClaims(p)'
    BY <1>3 DEF vars, ClaimInv, JobBacksClaims, Out, StatusOf, AskedFor, NobodyElseLinks
  <2>3. QED
    BY <1>a, <2>1, <2>2 DEF ClaimInv
<1>4. QED
  BY <1>a, <1>1, <1>2, <1>3, SyncClaims, UpdateClaims, RemoveClaims, PeriodErrorClaims, GenerateClaims,
     SurroundingsClaims DEF Next, Jobs

LEMMA InitClaimInv == Init => ClaimInv
<1> SUFFICES ASSUME Init PROVE ClaimInv
  OBVIOUS
<1>1. ClaimTables
  BY DEF Init, ClaimTables, ClaimsAreBacked, LinksAreRows, LinksAreUnique, NoRecord, FinalizedStatus
<1>2. ASSUME NEW p \in Procs PROVE JobBacksClaims(p)
  <2>1. job[p].pc = "idle"
    BY DEF Init, Idle
  <2>2. QED
    BY <2>1 DEF JobBacksClaims
<1>3. QED
  BY <1>1, <1>2, InitLinkInv DEF ClaimInv

(* One job at a time, no record moved, no stale receipt: what a record says *)
(* of its invoice is true of it, wherever jobs stop and payments land.      *)
THEOREM RecordsClaimWhatIsTrue ==
  ASSUME OneJob, ~AllowPeriodMove, ~StaleReceipts
  PROVE  Spec => []ClaimsAreBacked
<1>1. ClaimInv => ClaimsAreBacked
  BY DEF ClaimInv, ClaimTables
<1>2. ClaimInv /\ [Next]_vars => ClaimInv'
  BY ClaimInvStep
<1>3. QED
  BY InitClaimInv, <1>1, <1>2, PTL DEF Spec

-----------------------------------------------------------------------------
(* What jobs do to an invoice, and to which one. *)

LEMMA BillSteps ==
  ASSUME ~StaleReceipts, TypeOK, Next, NEW i \in Invoices
  PROVE  \/ invoice'[i] = invoice[i]
         \/ \E p \in Procs : SyncLinkedInvoice(p) /\ job[p].row.inv = i
         \/ \E p \in Procs : WriteDraft(p, i)
         \/ \E p \in Procs : IssueInvoice(p) /\ job[p].inv = i
         \/ Surroundings
<1>1. ASSUME NEW p \in Procs, Sync(p) \/ Update(p) \/ Remove(p) \/ PeriodError(p) \/ Abort(p) \/ Refused(p)
      PROVE  UNCHANGED invoice
  BY <1>1 DEF Sync, SyncRead, SyncAmounts, SyncUpdate, SyncInsert, Update, UpdateRead, UpdateCheck,
     UpdateWrite, Remove, RemoveRead, RemoveWrite, PeriodError, PeriodFails, MarkPeriodError,
     Abort, Refused
<1>2. ASSUME NEW p \in Procs, Refresh(p), invoice'[i] # invoice[i]
      PROVE  SyncLinkedInvoice(p) /\ job[p].row.inv = i
  <2>1. RefreshLoad(p) => UNCHANGED invoice
    BY DEF RefreshLoad
  <2>2. \A broken \in BOOLEAN : RefreshAssess(p, broken) => UNCHANGED invoice
    BY Zenon DEF RefreshAssess
  <2>3. RefreshWrite(p) => UNCHANGED invoice
    BY Zenon DEF RefreshWrite
  <2>4. \A k \in Records : RefreshHistory(p, k) \/ PeriodCreate(p, k) => UNCHANGED invoice
    BY DEF RefreshHistory, PeriodCreate
  <2>5. \A m \in Months : RefreshPeriod(p, m) => UNCHANGED invoice
    BY DEF RefreshPeriod
  <2>6. SyncLinkedInvoice(p)
    BY <1>2, <2>1, <2>2, <2>3, <2>4, <2>5 DEF Refresh
  <2>7. PICK bill : invoice' = invoice \/ invoice' = [invoice EXCEPT ![job[p].row.inv] = bill]
    BY <2>6 DEF SyncLinkedInvoice
  <2>8. QED
    BY <1>2, <2>6, <2>7 DEF TypeOK
<1>3. ASSUME NEW p \in Procs, Generate(p), invoice'[i] # invoice[i]
      PROVE  WriteDraft(p, i) \/ (IssueInvoice(p) /\ job[p].inv = i)
  <2>1. ASSUME NEW l \in Invoices, WriteDraft(p, l)
        PROVE  WriteDraft(p, i)
    <3>1. PICK bill : invoice' = [invoice EXCEPT ![l] = bill]
      BY <2>1 DEF WriteDraft
    <3>2. l = i
      BY <1>3, <3>1 DEF TypeOK
    <3>3. QED
      BY <2>1, <3>2
  <2>2. ASSUME IssueInvoice(p)
        PROVE  job[p].inv = i
    <3>1. PICK bill : invoice' = [invoice EXCEPT ![job[p].inv] = bill]
      BY <2>2 DEF IssueInvoice
    <3>2. QED
      BY <1>3, <3>1 DEF TypeOK
  <2>3. \/ \E actor \in Actor, k \in Records : GenerateInvoice(p, actor, k)
        \/ GenerateCheck(p) \/ LinkDraft(p) \/ RecordInvoiced(p)
        => UNCHANGED invoice
    BY DEF GenerateInvoice, GenerateCheck, LinkDraft, RecordInvoiced
  <2>4. \/ \E l \in Invoices : WriteDraft(p, l)
        \/ IssueInvoice(p)
    <3>1. ~UNCHANGED invoice
      BY <1>3
    <3>2. QED
      BY <1>3, <2>3, <3>1, Zenon DEF Generate
  <2>5. QED
    BY <2>1, <2>2, <2>4
<1>4. QED
  BY <1>1, <1>2, <1>3 DEF Next, Jobs

(* Same assumptions: no invoice is issued without an administrator unless   *)
(* the month has been assessed OK.  The status that syncLinkedInvoice puts  *)
(* back is that of an invoice that was out already.                         *)
THEOREM JobsIssueCleanMonths ==
  ASSUME OneJob, ~AllowPeriodMove, ~StaleReceipts
  PROVE  Spec => AutomaticIssueIsClean
<1> DEFINE Clean(i) ==
             \E k \in Records : record[k].inv = i /\
               \/ record[k].quality = "OK"
               \/ \E p \in Procs : job[p].pc = "gen_issue" /\ job[p].inv = i /\ job[p].actor = "admin"
           Cleanly == \A i \in Invoices : ~AskedFor(i) /\ invoice'[i].status = "ISSUED" => Clean(i)
<1>1. ClaimInv /\ [Next]_vars => Cleanly
  <2> SUFFICES ASSUME ClaimInv, [Next]_vars, NEW i \in Invoices, ~AskedFor(i),
                      invoice'[i].status = "ISSUED"
               PROVE  Clean(i)
    OBVIOUS
  <2>a. TypeOK
    BY DEF ClaimInv, LinkInv, MonthInv
  <2>b. invoice'[i] # invoice[i] /\ Next
    BY DEF AskedFor, FinalizedStatus, vars
  <2>1. ASSUME NEW p \in Procs, SyncLinkedInvoice(p), job[p].row.inv = i
        PROVE  FALSE
    <3> DEFINE j == job[p]
               status == IF j.row.workflow \in {"PENDING_REVIEW", "DRAFT"} THEN j.row.workflow
                         ELSE j.status
               bill == Recalculated(invoice[i], j.row.month, j.row.kwh, status)
    <3>1. j.pc = "link" /\ invoice'[i] = bill
      BY <2>1, <2>a, <2>b DEF SyncLinkedInvoice, TypeOK
    <3>2. /\ j.row \in RecordRow /\ j.status \in LinkedStatus
          /\ Out(i) <=> j.status \in FinalizedStatus
      BY <2>1, <2>a, <3>1, JobFields DEF ClaimInv, JobBacksClaims, TypeOK
    <3>3. status \in LinkedStatus
      BY <3>2 DEF LinkedStatus, InvoiceStatus
    <3>4. bill.status = status
      <4>1. invoice[i] \in InvoiceRow /\ j.row.month \in 0..MaxMonth /\ j.row.kwh \in Kwh
        BY <2>a, <3>2 DEF TypeOK, RecordRow
      <4> HIDE DEF j, status
      <4>2. QED
        BY <3>3, <4>1, RecalculatedRow
    <3>5. j.status = "ISSUED"
      <4> HIDE DEF bill
      <4>1. QED
        BY <3>1, <3>4
    <3>6. QED
      BY <3>2, <3>5, OutIsAskedFor DEF FinalizedStatus
  <2>2. ASSUME NEW p \in Procs, WriteDraft(p, i)
        PROVE  FALSE
    <3>1. invoice'[i] = DraftOf(job[p].row, invoice[i].paid)
      BY <2>2, <2>a DEF WriteDraft, TypeOK
    <3>2. QED
      BY <3>1 DEF DraftOf
  <2>3. ASSUME NEW p \in Procs, IssueInvoice(p), job[p].inv = i
        PROVE  Clean(i)
    <3> DEFINE j == job[p]
               status == TargetStatus(j)
    <3>1. j.pc = "gen_issue" /\ invoice'[i] = Transitioned(invoice[i], status)
      BY <2>3, <2>a DEF IssueInvoice, TypeOK
    <3>2. /\ j.rec \in Records /\ record[j.rec].inv = i /\ record[j.rec].quality = j.row.quality
      BY <2>3, <2>a, <3>1, JobFields DEF ClaimInv, LinkInv, JobHoldsLink, JobBacksClaims, TypeOK
    <3>3. status = "ISSUED"
      <4>1. invoice[i] \in InvoiceRow /\ status \in LinkedStatus
        BY <2>a DEF TypeOK, TargetStatus, LinkedStatus, InvoiceStatus
      <4> HIDE DEF status
      <4>2. Transitioned(invoice[i], status).status = status
        BY <4>1, TransitionedRow
      <4>3. QED
        BY <3>1, <4>2
    <3>4. j.actor = "admin" \/ j.row.quality = "OK"
      BY <3>3 DEF TargetStatus
    <3>5. QED
      BY <2>3, <3>1, <3>2, <3>4
  <2>4. CASE Surroundings
    BY <2>4, <2>a, <2>b, SurroundingsKeepOut DEF OutStays
  <2>5. QED
    BY <2>a, <2>b, <2>1, <2>2, <2>3, <2>4, BillSteps
<1>2. ClaimInv /\ [Next]_vars => ClaimInv' /\ [Cleanly]_vars
  BY <1>1, ClaimInvStep
<1>3. QED
  BY InitClaimInv, <1>2, PTL DEF Spec, AutomaticIssueIsClean

-----------------------------------------------------------------------------
(* An invoice that is being paid is kept, if payments wait for the job: the *)
(* status a job has read of the invoice before it is still right when it    *)
(* writes, except that the invoice may have become overdue.                 *)

Paying == {"PAID", "PARTIAL"}

PayingIsSeen ==
  \A p \in Procs :
    job[p].pc = "link" /\ StatusOf(job[p].row.inv) \in Paying => job[p].status \in Paying

LEMMA RefreshPaying ==
  ASSUME TypeOK, NEW p \in Procs, Refresh(p), job'[p].pc = "link",
         StatusOf(job[p].row.inv)' \in Paying
  PROVE  job'[p].status \in Paying
<1> DEFINE j == job[p]
<1>a. job[p] \in Job
  BY DEF TypeOK
<1>1. ASSUME NEW q, Become(p, q), q.pc # "link"
      PROVE  FALSE
  BY <1>1, NextJob
<1>2. \A k, actor, next : Load(k, actor, next).pc # "link"
  BY DEF Load
<1>3. CASE RefreshLoad(p)
  <2>1. PICK q : Become(p, q) /\ q.pc = "assess"
    BY <1>3 DEF RefreshLoad
  <2>2. QED
    BY <1>1, <2>1
<1>4. ASSUME NEW broken \in BOOLEAN, RefreshAssess(p, broken)
      PROVE  FALSE
  <2> DEFINE row == Assessed(j.row, AssessedQuality(j.row, broken),
                             AssessedWorkflow(AssessedQuality(j.row, broken), j.status),
                             AssessedFinalized(j.row, AssessedWorkflow(AssessedQuality(j.row, broken), j.status)))
             q == [j EXCEPT !.pc = "refresh_write", !.row = row]
  <2>1. j.pc = "assess" /\ Become(p, q)
    BY <1>4, Zenon DEF RefreshAssess
  <2>2. j \in [pc : {"assess"}, rec : Records, actor : Actor, next : Then, row : RecordRow,
                status : LinkedStatus]
    BY <2>1, <1>a DEF Job, Idle
  <2>3. q.pc = "refresh_write"
    <3> HIDE DEF j, row
    <3>1. QED
      BY <2>2
  <2> HIDE DEF q
  <2>4. QED
    BY <1>1, <2>1, <2>3
<1>5. CASE RefreshWrite(p)
  <2> DEFINE written == Assessed(record[j.rec], j.row.quality, j.row.workflow, j.row.finalized)
             q(pc) == [j EXCEPT !.pc = pc, !.row = written, !.status = StatusOf(written.inv)]
  <2>1. j.pc = "refresh_write" /\ UNCHANGED invoice
    BY <1>5 DEF RefreshWrite
  <2>2. j \in [pc : {"refresh_write"}, rec : Records, actor : Actor, next : Then, row : RecordRow,
                status : LinkedStatus]
    BY <2>1, <1>a DEF Job, Idle
  <2>3. \A pc \in {"link", "gen_check"} :
          q(pc).pc = pc /\ q(pc).row = written /\ q(pc).status = StatusOf(written.inv)
    <3> HIDE DEF written, j
    <3>1. QED
      BY <2>2
  <2>4. Become(p, q("link")) \/ Become(p, q("gen_check")) \/ Become(p, Idle)
    BY <1>5, <2>1 DEF RefreshWrite
  <2>5. Idle.pc # "link"
    BY DEF Idle
  <2> HIDE DEF q, written
  <2>6. job'[p] = q("link")
    BY <1>1, <2>3, <2>4, <2>5, NextJob
  <2>7. \A i : StatusOf(i)' = StatusOf(i)
    BY <2>1 DEF StatusOf
  <2>8. StatusOf(job[p].row.inv)' = StatusOf(written.inv)
    <3>1. job'[p].row = written
      BY <2>3, <2>6
    <3> HIDE DEF j
    <3>2. QED
      BY <2>1, <3>1 DEF StatusOf
  <2>9. QED
    BY <2>3, <2>6, <2>8
<1>6. ASSUME NEW k \in Records, RefreshHistory(p, k) \/ PeriodCreate(p, k)
      PROVE  FALSE
  BY <1>1, <1>2, <1>6 DEF RefreshHistory, PeriodCreate
<1>7. ASSUME NEW m \in Months, RefreshPeriod(p, m)
      PROVE  FALSE
  BY <1>1, <1>2, <1>7 DEF RefreshPeriod
<1>8. CASE SyncLinkedInvoice(p)
  <2>1. Become(p, Idle) /\ Idle.pc # "link"
    BY <1>8 DEF SyncLinkedInvoice, Idle
  <2>2. QED
    BY <1>1, <2>1
<1>9. QED
  BY <1>3, <1>4, <1>5, <1>6, <1>7, <1>8 DEF Refresh

(* Only a refresh leaves a job in front of syncLinkedInvoice. *)
LEMMA OnlyRefreshLinks ==
  ASSUME TypeOK, NEW p \in Procs,
         \/ Sync(p) \/ Update(p) \/ Remove(p) \/ Generate(p) \/ PeriodError(p)
         \/ Abort(p) \/ Refused(p)
  PROVE  job'[p].pc # "link"
<1>a. job[p] \in Job
  BY DEF TypeOK
<1> DEFINE j == job[p]
           Elsewhere == \E q : Become(p, q) /\ q.pc # "link"
<1>1. \A k, actor, next : Load(k, actor, next).pc # "link"
  BY DEF Load
<1>2. Idle.pc # "link"
  BY DEF Idle
<1>3. CASE Sync(p)
  <2>1. ASSUME NEW actor \in Actor, NEW m \in Months, NEW pv \in Kwh, SyncRead(p, actor, m, pv)
        PROVE  Elsewhere
    BY <2>1 DEF SyncRead
  <2>2. SyncAmounts(p) => Elsewhere
    BY DEF SyncAmounts
  <2>3. ASSUME NEW k \in Records, SyncUpdate(p, k) \/ SyncInsert(p, k)
        PROVE  Elsewhere
    BY <1>1, <2>3 DEF SyncUpdate, SyncInsert
  <2>4. QED
    BY <1>3, <2>1, <2>2, <2>3, NextJob DEF Sync
<1>4. CASE Update(p)
  <2>1. ASSUME NEW k \in Records, NEW m \in Months, NEW pv \in Kwh, NEW clear \in BOOLEAN,
               UpdateRead(p, k, m, pv, clear)
        PROVE  Elsewhere
    BY <2>1 DEF UpdateRead
  <2>2. UpdateCheck(p) => Elsewhere
    BY DEF UpdateCheck
  <2>3. UpdateWrite(p) => Elsewhere
    BY <1>1 DEF UpdateWrite
  <2>4. QED
    BY <1>4, <2>1, <2>2, <2>3, NextJob DEF Update
<1>5. CASE Remove(p)
  <2>1. ASSUME NEW k \in Records, RemoveRead(p, k)
        PROVE  Elsewhere
    BY <2>1 DEF RemoveRead
  <2>2. RemoveWrite(p) => Elsewhere
    BY <1>2 DEF RemoveWrite
  <2>3. QED
    BY <1>5, <2>1, <2>2, NextJob DEF Remove
<1>6. CASE PeriodError(p)
  <2>1. ASSUME NEW k \in Records, PeriodFails(p, k)
        PROVE  Elsewhere
    BY <2>1 DEF PeriodFails
  <2>2. MarkPeriodError(p) => Elsewhere
    BY <1>2 DEF MarkPeriodError
  <2>3. QED
    BY <1>6, <2>1, <2>2, NextJob DEF PeriodError
<1>7. CASE Generate(p)
  <2>1. ASSUME NEW actor \in Actor, NEW k \in Records, GenerateInvoice(p, actor, k)
        PROVE  job'[p].pc # "link"
    BY <1>1, <2>1, NextJob DEF GenerateInvoice
  <2>2. ASSUME GenerateCheck(p)
        PROVE  job'[p].pc # "link"
    <3>1. job[p].pc = "gen_check" /\ job'[p] = [job[p] EXCEPT !.pc = "gen_draft"]
      BY <2>2, NextJob DEF GenerateCheck
    <3>2. "pc" \in DOMAIN job[p]
      BY <3>1, <1>a DEF Job, Idle
    <3>3. QED
      BY <3>1, <3>2
  <2>3. ASSUME NEW i \in Invoices, WriteDraft(p, i)
        PROVE  job'[p].pc # "link"
    BY <2>3, NextJob DEF WriteDraft
  <2>4. ASSUME LinkDraft(p)
        PROVE  job'[p].pc # "link"
    <3>1. job[p].pc = "gen_link" /\ job'[p] = [job[p] EXCEPT !.pc = "gen_issue"]
      BY <2>4, NextJob DEF LinkDraft
    <3>2. "pc" \in DOMAIN job[p]
      BY <3>1, <1>a DEF Job, Idle
    <3>3. QED
      BY <3>1, <3>2
  <2>5. ASSUME IssueInvoice(p)
        PROVE  job'[p].pc # "link"
    BY <2>5, NextJob DEF IssueInvoice
  <2>6. ASSUME RecordInvoiced(p)
        PROVE  job'[p].pc # "link"
    BY <1>2, <2>6, NextJob DEF RecordInvoiced
  <2>7. QED
    BY <1>7, <2>1, <2>2, <2>3, <2>4, <2>5, <2>6, Zenon DEF Generate
<1>8. CASE Abort(p) \/ Refused(p)
  <2>1. Become(p, Idle)
    BY <1>8 DEF Abort, Refused
  <2>2. QED
    BY <1>2, <2>1, NextJob
<1>9. QED
  BY <1>3, <1>4, <1>5, <1>6, <1>7, <1>8

LEMMA PayingIsSeenStep ==
  ASSUME OneJob, ~PayDuringJobs, TypeOK, PayingIsSeen, [Next]_vars
  PROVE  PayingIsSeen'
<1> SUFFICES ASSUME NEW p \in Procs, job'[p].pc = "link", StatusOf(job[p].row.inv)' \in Paying
             PROVE  job'[p].status \in Paying
  BY DEF PayingIsSeen
<1>1. CASE UNCHANGED vars
  BY <1>1 DEF vars, PayingIsSeen, StatusOf
<1>2. CASE Surroundings
  <2>1. UNCHANGED job
    BY <1>2 DEF Surroundings, NextMonth, EnergyArrives, PaymentLands, RefreshOverdue
  <2>2. job[p].pc = "link" /\ job[p].row.inv \in Invoices \cup {NoInvoice}
    <3>1. job[p] \in Job /\ job[p].pc = "link"
      BY <2>1 DEF TypeOK
    <3>2. QED
      BY <3>1, JobFields DEF RecordRow
  <2>3. ASSUME NEW i \in Invoices, invoice'[i].status \in Paying
        PROVE  invoice[i].status \in Paying
    <3>1. CASE invoice' = invoice
      BY <2>3, <3>1
    <3>2. ASSUME NEW l \in Invoices, NEW amount \in Kwh, PaymentLands(l, amount)
          PROVE  FALSE
      <4>1. job[p] = Idle
        BY <3>2 DEF PaymentLands
      <4>2. QED
        BY <2>2, <4>1 DEF Idle
    <3>3. ASSUME NEW late \in SUBSET Invoices, RefreshOverdue(late)
          PROVE  invoice[i].status \in Paying
      <4>1. invoice'[i].status = IF i \in late THEN "OVERDUE" ELSE invoice[i].status
        BY <3>3, SweptTable DEF RefreshOverdue
      <4>2. QED
        BY <2>3, <4>1 DEF Paying
    <3>4. QED
      BY <1>2, <3>1, <3>2, <3>3 DEF Surroundings, NextMonth, EnergyArrives
  <2>4. StatusOf(job[p].row.inv) \in Paying
    BY <2>1, <2>2, <2>3, MonthlyBillingAssumption DEF StatusOf, Paying
  <2>5. QED
    BY <2>1, <2>2, <2>4 DEF PayingIsSeen
<1>3. ASSUME NEW o \in Procs, Refresh(o)
      PROVE  job'[p].status \in Paying
  <2>1. o = p
    BY DEF OneJob
  <2>2. QED
    BY <1>3, <2>1, RefreshPaying
<1>4. ASSUME NEW o \in Procs,
             \/ Sync(o) \/ Update(o) \/ Remove(o) \/ Generate(o) \/ PeriodError(o)
             \/ Abort(o) \/ Refused(o)
      PROVE  FALSE
  <2>1. o = p
    BY DEF OneJob
  <2>2. QED
    BY <1>4, <2>1, OnlyRefreshLinks
<1>5. QED
  BY <1>1, <1>2, <1>3, <1>4 DEF Next, Jobs

(* One job at a time and payments between jobs: an invoice that is being    *)
(* paid keeps its total, month and money, and does not go back to a status  *)
(* before payment, wherever jobs stop.                                      *)
THEOREM PaidInvoicesAreKept ==
  ASSUME OneJob, ~AllowPeriodMove, ~StaleReceipts, ~PayDuringJobs
  PROVE  Spec => PaidInvoiceIsKept
<1> DEFINE Kept(i) ==
             /\ invoice'[i].total = invoice[i].total /\ invoice'[i].month = invoice[i].month
             /\ invoice'[i].paid >= invoice[i].paid
             /\ invoice'[i].status \in {"PAID", "PARTIAL", "OVERDUE"}
           AllKept == \A i \in Invoices : invoice[i].status \in {"PAID", "PARTIAL"} => Kept(i)
<1>1. ClaimInv /\ PayingIsSeen /\ [Next]_vars => AllKept
  <2> SUFFICES ASSUME ClaimInv, PayingIsSeen, [Next]_vars, NEW i \in Invoices,
                      invoice[i].status \in {"PAID", "PARTIAL"}
               PROVE  Kept(i)
    OBVIOUS
  <2>a. TypeOK
    BY DEF ClaimInv, LinkInv, MonthInv
  <2>b. /\ AskedFor(i) /\ StatusOf(i) \in Paying
        /\ invoice[i] \in InvoiceRow /\ invoice[i].paid \in Nat /\ invoice[i].total \in 0..MaxTotal
    BY <2>a, MonthlyBillingAssumption, InvoiceTableAssumption
    DEF AskedFor, FinalizedStatus, StatusOf, Paying, TypeOK, InvoiceRow
  <2>1. CASE invoice'[i] = invoice[i]
    BY <2>1, <2>b
  <2>2. ASSUME NEW p \in Procs, SyncLinkedInvoice(p), job[p].row.inv = i
        PROVE  FALSE
    BY <2>2, <2>b DEF SyncLinkedInvoice, PayingIsSeen, Mutable, MutableStatus, Paying
  <2>3. ASSUME NEW p \in Procs, WriteDraft(p, i)
        PROVE  FALSE
    <3> DEFINE j == job[p]
    <3>1. /\ j.pc = "gen_draft"
          /\ j.row.inv # i => invoice[i].status = "ABSENT"
      BY <2>3 DEF WriteDraft
    <3>2. j.row.inv = i
      BY <2>b, <3>1 DEF AskedFor, FinalizedStatus
    <3>3. record[j.rec].inv = i /\ ~Out(i)
      BY <3>1, <3>2 DEF ClaimInv, LinkInv, JobHoldsLink, JobBacksClaims
    <3>4. QED
      BY <2>b, <3>3, OutIsAskedFor
  <2>4. ASSUME NEW p \in Procs, IssueInvoice(p), job[p].inv = i
        PROVE  FALSE
    BY <2>4, <2>b DEF IssueInvoice, ClaimInv, JobBacksClaims
  <2>5. ASSUME NEW l \in Invoices, NEW amount \in Kwh, PaymentLands(l, amount), l = i
        PROVE  Kept(i)
    <3> DEFINE paid == NextPaid(i, amount)
               status == IF paid >= invoice[i].total THEN "PAID" ELSE "PARTIAL"
    <3>1. invoice'[i] = Credited(invoice[i], paid, status)
      BY <2>5, <2>a DEF PaymentLands, TypeOK
    <3>2. amount \in Nat /\ paid = invoice[i].paid + amount
      BY <2>5, InvoiceTableAssumption DEF Kwh, PaymentLands, Submissible, NextPaid
    <3>3. paid \in Nat /\ paid >= invoice[i].paid /\ status \in {"PAID", "PARTIAL"}
      BY <2>b, <3>2
    <3> HIDE DEF paid, status
    <3>4. QED
      BY <2>b, <3>1, <3>3 DEF Credited, InvoiceRow
  <2>6. ASSUME NEW l \in Invoices, NEW amount \in Kwh, PaymentLands(l, amount), l # i
        PROVE  invoice'[i] = invoice[i]
    BY <2>6, <2>a DEF PaymentLands, TypeOK
  <2>7. ASSUME NEW late \in SUBSET Invoices, RefreshOverdue(late)
        PROVE  Kept(i)
    <3>1. invoice'[i] = IF i \in late THEN Transitioned(invoice[i], "OVERDUE") ELSE invoice[i]
      BY <2>7, <2>a DEF RefreshOverdue, SweptOverdue, Transitioned, TypeOK
    <3>2. QED
      BY <2>b, <3>1 DEF Transitioned, InvoiceRow
  <2>8. CASE Surroundings
    BY <2>1, <2>5, <2>6, <2>7, <2>8 DEF Surroundings, NextMonth, EnergyArrives
  <2>9. CASE UNCHANGED vars
    BY <2>1, <2>9 DEF vars
  <2>10. QED
    <3> HIDE DEF Kept
    <3>1. QED
      BY <2>a, <2>1, <2>2, <2>3, <2>4, <2>8, <2>9, BillSteps
<1>2. Init => PayingIsSeen
  BY DEF Init, PayingIsSeen, Idle
<1>3. ClaimInv /\ PayingIsSeen /\ [Next]_vars => (ClaimInv /\ PayingIsSeen)' /\ [AllKept]_vars
  BY <1>1, ClaimInvStep, PayingIsSeenStep DEF ClaimInv, LinkInv, MonthInv
<1>4. QED
  BY InitClaimInv, <1>2, <1>3, PTL DEF Spec, PaidInvoiceIsKept
-----------------------------------------------------------------------------
(* What a linked invoice shows.  InvoiceShowsRecord speaks of the moments   *)
(* between jobs; while a job is under way, one record may be ahead of its   *)
(* invoice, the one that job has written and will carry over.  For the job  *)
(* to get there, ensureRecordIsMutable, asked before the record is written, *)
(* must still hold of the invoice several awaits later.                     *)

Shown(k) ==
  record[k].inv # NoInvoice =>
    /\ invoice[record[k].inv].total = record[k].kwh
    /\ invoice[record[k].inv].month = record[k].month

Carrying == {"load", "assess", "refresh_write", "link"}
Carries(p, k) == job[p].pc \in Carrying /\ job[p].next = "link" /\ job[p].rec = k

Correctable(k) == record[k].state = "live" /\ Mutable(StatusOf(record[k].inv))

JobShows(p) ==
  LET j == job[p] IN
  /\ j.pc \in {"sync_amounts", "sync_upsert"} =>
       \A k \in RowOf(j.month) : Mutable(StatusOf(record[k].inv))
  /\ j.pc \in {"update_check", "update_write"} => Correctable(j.rec)
  /\ j.pc \in {"load", "assess", "refresh_write"} /\ j.next = "link" => Correctable(j.rec)
  /\ j.pc = "link" => j.next = "link" /\ Mutable(j.status)
  /\ j.pc \in {"gen_check", "gen_draft"} => j.row.kwh = record[j.rec].kwh
  /\ j.pc \in {"gen_link", "gen_issue"} => invoice[j.inv].total = record[j.rec].kwh

ShowInv ==
  /\ ClaimInv
  /\ \A k \in Records : Shown(k) \/ \E p \in Procs : Carries(p, k)
  /\ \A p \in Procs : JobShows(p)

(* The statements that leave the kWh of a row alone. *)
LEMMA KwhFields ==
  ASSUME NEW row \in RecordRow
  PROVE  /\ Removed(row).kwh = row.kwh
         /\ \A q, w, f : Assessed(row, q, w, f).kwh = row.kwh
         /\ \A i : Linked(row, i).kwh = row.kwh
         /\ \A w : Invoiced(row, w).kwh = row.kwh
  BY DEF RecordRow, Removed, Assessed, Linked, Invoiced

LEMMA AloneShows ==
  ASSUME OneJob, ShowInv, NEW p \in Procs
  PROVE  /\ TypeOK /\ ClaimTables /\ job[p] \in Job
         /\ JobKnowsMonth(p) /\ JobHoldsLink(p) /\ JobBacksClaims(p) /\ JobShows(p)
         /\ \A k \in Records : Shown(k) \/ Carries(p, k)
         /\ job[p].pc \notin Carrying => \A k \in Records : Shown(k)
<1>1. TypeOK /\ ClaimTables /\ JobKnowsMonth(p) /\ JobHoldsLink(p) /\ JobBacksClaims(p) /\ JobShows(p)
  BY DEF ShowInv, ClaimInv, LinkInv, MonthInv
<1>2. job[p] \in Job
  BY <1>1 DEF TypeOK
<1>3. \A k \in Records : Shown(k) \/ Carries(p, k)
  BY DEF ShowInv, OneJob
<1>4. QED
  BY <1>1, <1>2, <1>3 DEF Carries

LEMMA OnlyJobShows ==
  ASSUME OneJob, ClaimInv', NEW p \in Procs, JobShows(p)',
         \A k \in Records : Shown(k)' \/ Carries(p, k)'
  PROVE  ShowInv'
  BY DEF OneJob, ShowInv

LEMMA SameShown ==
  ASSUME UNCHANGED <<invoice, record>>
  PROVE  /\ \A k : Shown(k)' <=> Shown(k)
         /\ \A k : Correctable(k)' <=> Correctable(k)
         /\ \A m : RowOf(m)' = RowOf(m)
         /\ \A i : StatusOf(i)' = StatusOf(i)
  BY DEF Shown, Correctable, RowOf, StatusOf

(* A read, by a job that carries nothing, or goes on carrying what it does. *)
LEMMA ShowsOfReads ==
  ASSUME OneJob, ShowInv, ClaimInv', UNCHANGED <<invoice, record>>, NEW p \in Procs, JobShows(p)',
         \A k \in Records : Carries(p, k) => Carries(p, k)'
  PROVE  ShowInv'
<1>1. \A k \in Records : Shown(k)' \/ Carries(p, k)'
  BY AloneShows, SameShown
<1>2. QED
  BY <1>1, OnlyJobShows

LEMMA ShowsOfPlainReads ==
  ASSUME OneJob, ShowInv, ClaimInv', UNCHANGED <<invoice, record>>,
         NEW p \in Procs, job[p].pc \notin Carrying, NEW q, Become(p, q),
         q.pc \in {"idle", "remove_write", "error_write", "period_create"}
           \/ (q.pc = "load" /\ q.next # "link")
  PROVE  ShowInv'
<1>1. job'[p] = q
  BY NextJob, AloneShows
<1>2. JobShows(p)'
  BY <1>1 DEF JobShows
<1>3. QED
  BY <1>2, ShowsOfReads DEF Carries

(* A row of MonthlyPvBilling is written: only this row can come to be ahead *)
(* of its invoice.                                                          *)
LEMMA ShownAfterRow ==
  ASSUME OneJob, ShowInv, NEW p \in Procs, NEW k \in Records, NEW row,
         record' = [record EXCEPT ![k] = row], UNCHANGED invoice,
         \A l \in Records : Carries(p, l) => l = k,
         Shown(k)' \/ Carries(p, k)'
  PROVE  \A l \in Records : Shown(l)' \/ Carries(p, l)'
<1> SUFFICES ASSUME NEW l \in Records, l # k PROVE Shown(l)'
  OBVIOUS
<1>1. record'[l] = record[l]
  BY AloneShows DEF TypeOK
<1>2. Shown(l)
  BY AloneShows
<1>3. QED
  BY <1>1, <1>2 DEF Shown

(* ... and not even this one when its link, month and kWh stay. *)
LEMMA SameRowShown ==
  ASSUME TypeOK, NEW k \in Records, NEW row, record' = [record EXCEPT ![k] = row], UNCHANGED invoice,
         row.inv = record[k].inv, row.month = record[k].month, row.kwh = record[k].kwh, Shown(k)
  PROVE  Shown(k)'
<1>1. record'[k] = row
  BY DEF TypeOK
<1>2. QED
  BY <1>1 DEF Shown

LEMMA SyncShows ==
  ASSUME OneJob, ShowInv, ClaimInv', NEW p \in Procs, Sync(p)
  PROVE  ShowInv'
<1>a. TypeOK /\ job[p] \in Job /\ JobShows(p)
  BY AloneShows
<1> DEFINE j == job[p]
<1>1. ASSUME NEW actor \in Actor, NEW m \in Months, NEW pv \in Kwh, SyncRead(p, actor, m, pv)
      PROVE  ShowInv'
  <2>1. PICK q : Become(p, q) /\ q.pc = "sync_amounts" /\ q.month = m
    BY <1>1 DEF SyncRead
  <2>2. j.pc \notin Carrying /\ UNCHANGED <<invoice, record>>
    BY <1>1 DEF SyncRead, Idle, Carrying
  <2>3. \A k \in RowOf(m) : Mutable(StatusOf(record[k].inv))
    BY <1>1 DEF SyncRead
  <2>4. JobShows(p)'
    <3>1. job'[p] = q
      BY <1>a, <2>1, NextJob
    <3>2. \A k \in RowOf(m)' : Mutable(StatusOf(record[k].inv)')
      BY <2>2, <2>3, SameShown
    <3>3. QED
      BY <2>1, <2>2, <3>1, <3>2 DEF JobShows
  <2>5. QED
    BY <2>2, <2>4, ShowsOfReads DEF Carries
<1>2. ASSUME SyncAmounts(p)
      PROVE  ShowInv'
  <2>0. PICK m : m = j.month
    OBVIOUS
  <2>1. PICK q : Become(p, q) /\ q.pc = "sync_upsert" /\ q.month = m
    BY <1>2, <2>0 DEF SyncAmounts
  <2>2. j.pc = "sync_amounts" /\ UNCHANGED <<invoice, record>>
    BY <1>2 DEF SyncAmounts
  <2>3. \A k \in RowOf(m) : Mutable(StatusOf(record[k].inv))
    BY <1>a, <2>0, <2>2 DEF JobShows
  <2>4. JobShows(p)'
    <3>1. job'[p] = q
      BY <1>a, <2>1, NextJob
    <3>2. \A k \in RowOf(m)' : Mutable(StatusOf(record[k].inv)')
      BY <2>2, <2>3, SameShown
    <3>3. QED
      BY <2>1, <2>2, <3>1, <3>2 DEF JobShows
  <2>5. QED
    BY <2>2, <2>4, ShowsOfReads DEF Carries, Carrying
<1>3. ASSUME NEW k \in Records, SyncUpdate(p, k) \/ SyncInsert(p, k)
      PROVE  ShowInv'
  <2>1. /\ j.pc = "sync_upsert" /\ UNCHANGED invoice
        /\ Become(p, Load(k, j.actor, "link"))
    BY <1>3 DEF SyncUpdate, SyncInsert
  <2>2. PICK row \in RecordRow : /\ record' = [record EXCEPT ![k] = row]
                                 /\ row.state = "live" /\ Mutable(StatusOf(row.inv))
    <3>1. j.month \in Months /\ j.kwh \in Kwh /\ j.manual \in Kwh
      BY <2>1, <1>a, JobFields, InvoiceTableAssumption DEF Kwh
    <3>2. record[k] \in RecordRow
      BY <1>a DEF TypeOK
    <3>3. CASE SyncUpdate(p, k)
      <4> DEFINE row == Synced(record[k], j.kwh, j.manual)
      <4>1. record' = [record EXCEPT ![k] = row] /\ k \in RowOf(j.month)
        BY <1>a, <3>3 DEF SyncUpdate, TypeOK
      <4>2. row \in RecordRow /\ row.inv = record[k].inv /\ row.state = "live"
        BY <3>1, <3>2, SyncedRow
      <4>3. Mutable(StatusOf(record[k].inv))
        BY <1>a, <2>1, <4>1 DEF JobShows
      <4> HIDE DEF row
      <4>4. QED
        BY <4>1, <4>2, <4>3
    <3>4. CASE SyncInsert(p, k)
      <4> DEFINE row == Created(j.month, j.kwh, j.manual)
      <4>1. record' = [record EXCEPT ![k] = row]
        BY <3>4 DEF SyncInsert
      <4>2. row \in RecordRow /\ row.inv = NoInvoice /\ row.state = "live"
        BY <3>1, CreatedRow
      <4>3. Mutable(StatusOf(NoInvoice))
        BY DEF Mutable, StatusOf
      <4> HIDE DEF row
      <4>4. QED
        BY <4>1, <4>2, <4>3
    <3>5. QED
      BY <1>3, <3>3, <3>4
  <2>3. job'[p].pc = "load" /\ job'[p].rec = k /\ job'[p].next = "link"
    <3>1. job'[p] = Load(k, j.actor, "link")
      BY <1>a, <2>1, NextJob
    <3>2. QED
      BY <3>1 DEF Load
  <2>4. Carries(p, k)' /\ \A l \in Records : ~Carries(p, l)
    BY <2>1, <2>3 DEF Carries, Carrying
  <2>5. Correctable(k)'
    <3>1. record'[k] = row
      BY <1>a, <2>2 DEF TypeOK
    <3>2. StatusOf(row.inv)' = StatusOf(row.inv)
      BY <2>1 DEF StatusOf
    <3>3. QED
      BY <2>2, <3>1, <3>2 DEF Correctable
  <2>6. JobShows(p)'
    BY <2>3, <2>5 DEF JobShows
  <2>7. QED
    BY <2>1, <2>2, <2>4, <2>6, ShownAfterRow, OnlyJobShows
<1>4. QED
  BY <1>1, <1>2, <1>3 DEF Sync
LEMMA UpdateShows ==
  ASSUME OneJob, ShowInv, ClaimInv', NEW p \in Procs, Update(p)
  PROVE  ShowInv'
<1>a. TypeOK /\ job[p] \in Job /\ JobShows(p)
  BY AloneShows
<1> DEFINE j == job[p]
<1>0. PICK k : k = j.rec
  OBVIOUS
<1>1. ASSUME NEW h \in Records, NEW m \in Months, NEW pv \in Kwh, NEW clear \in BOOLEAN,
             UpdateRead(p, h, m, pv, clear)
      PROVE  ShowInv'
  <2>1. PICK q : Become(p, q) /\ q.pc = "update_check" /\ q.rec = h
    BY <1>1 DEF UpdateRead
  <2>2. j.pc \notin Carrying /\ UNCHANGED <<invoice, record>> /\ Correctable(h)
    BY <1>1 DEF UpdateRead, Idle, Carrying, Correctable
  <2>3. JobShows(p)'
    <3>1. job'[p] = q /\ Correctable(h)'
      BY <1>a, <2>1, <2>2, NextJob, SameShown
    <3>2. QED
      BY <2>1, <3>1 DEF JobShows
  <2>4. QED
    BY <2>2, <2>3, ShowsOfReads DEF Carries
<1>2. ASSUME UpdateCheck(p)
      PROVE  ShowInv'
  <2>1. PICK q : Become(p, q) /\ q.pc = "update_write" /\ q.rec = k
    BY <1>0, <1>2 DEF UpdateCheck
  <2>2. j.pc = "update_check" /\ UNCHANGED <<invoice, record>>
    BY <1>2 DEF UpdateCheck
  <2>3. Correctable(k)
    BY <1>a, <1>0, <2>2 DEF JobShows
  <2>4. JobShows(p)'
    <3>1. job'[p] = q /\ Correctable(k)'
      BY <1>a, <2>1, <2>2, <2>3, NextJob, SameShown
    <3>2. QED
      BY <2>1, <3>1 DEF JobShows
  <2>5. QED
    BY <2>2, <2>4, ShowsOfReads DEF Carries, Carrying
<1>3. CASE UpdateWrite(p)
  <2> DEFINE row == Updated(record[k], j.month, j.kwh, j.manual)
  <2>1. /\ j.pc = "update_write" /\ k \in Records /\ j.month \in Months /\ j.manual \in Kwh
        /\ j.kwh \in Kwh
    BY <1>0, <1>3, <1>a, JobFields, InvoiceTableAssumption DEF UpdateWrite, Kwh
  <2>2. record[k] \in RecordRow /\ Correctable(k)
    BY <1>a, <1>0, <2>1 DEF TypeOK, JobShows
  <2>3. /\ record' = [record EXCEPT ![k] = row] /\ UNCHANGED invoice
        /\ Become(p, Load(k, "admin", "link"))
    BY <1>0, <1>a, <1>3, <2>1 DEF UpdateWrite, TypeOK
  <2>4. row.inv = record[k].inv /\ row.state = record[k].state
    BY <2>1, <2>2, UpdatedRow
  <2> HIDE DEF row
  <2>5. job'[p].pc = "load" /\ job'[p].rec = k /\ job'[p].next = "link"
    <3>1. job'[p] = Load(k, "admin", "link")
      BY <1>a, <2>3, NextJob
    <3>2. QED
      BY <3>1 DEF Load
  <2>6. Carries(p, k)' /\ \A l \in Records : ~Carries(p, l)
    BY <2>1, <2>5 DEF Carries, Carrying
  <2>7. Correctable(k)'
    <3>1. record'[k].inv = record[k].inv /\ record'[k].state = record[k].state
      BY <1>a, <2>1, <2>3, <2>4 DEF TypeOK
    <3>2. \A i : StatusOf(i)' = StatusOf(i)
      BY <2>3 DEF StatusOf
    <3>3. QED
      BY <2>2, <3>1, <3>2 DEF Correctable
  <2>8. JobShows(p)'
    BY <2>5, <2>7 DEF JobShows
  <2>9. QED
    BY <2>1, <2>3, <2>6, <2>8, ShownAfterRow, OnlyJobShows
<1>4. QED
  BY <1>1, <1>2, <1>3 DEF Update

(* A statement that leaves link, month and kWh alone and ends its job. *)
LEMMA LastWriteShows ==
  ASSUME OneJob, ShowInv, ClaimInv', NEW p \in Procs, job[p].pc \notin Carrying, Become(p, Idle),
         NEW k \in Records, NEW row, record' = [record EXCEPT ![k] = row], UNCHANGED invoice,
         row.inv = record[k].inv, row.month = record[k].month, row.kwh = record[k].kwh
  PROVE  ShowInv'
<1>1. TypeOK /\ Shown(k)
  BY AloneShows
<1>2. Shown(k)'
  BY <1>1, SameRowShown
<1>3. JobShows(p)'
  <2>1. job'[p] = Idle
    BY <1>1, NextJob
  <2>2. QED
    BY <2>1 DEF JobShows, Idle
<1>4. QED
  BY <1>2, <1>3, ShownAfterRow, OnlyJobShows DEF Carries

LEMMA RemoveShows ==
  ASSUME OneJob, ShowInv, ClaimInv', NEW p \in Procs, Remove(p)
  PROVE  ShowInv'
<1>a. TypeOK /\ job[p] \in Job
  BY AloneShows
<1>1. ASSUME NEW k \in Records, RemoveRead(p, k)
      PROVE  ShowInv'
  <2>1. Become(p, [pc |-> "remove_write", rec |-> k]) /\ UNCHANGED <<invoice, record>>
    BY <1>1 DEF RemoveRead
  <2>2. job[p].pc \notin Carrying
    BY <1>1 DEF RemoveRead, Idle, Carrying
  <2>3. QED
    BY <2>1, <2>2, ShowsOfPlainReads
<1>2. CASE RemoveWrite(p)
  <2> DEFINE k == job[p].rec
             row == Removed(record[k])
  <2>1. k \in Records /\ job[p].pc \notin Carrying
    BY <1>2, <1>a, JobFields DEF RemoveWrite, Carrying
  <2>2. record[k] \in RecordRow
    BY <1>a, <2>1 DEF TypeOK
  <2>3. record' = [record EXCEPT ![k] = row] /\ UNCHANGED invoice /\ Become(p, Idle)
    BY <1>a, <1>2, <2>1 DEF RemoveWrite, TypeOK
  <2>4. row.inv = record[k].inv /\ row.month = record[k].month /\ row.kwh = record[k].kwh
    BY <2>2, RemovedRow, KwhFields
  <2> HIDE DEF k, row
  <2>5. QED
    BY <2>1, <2>3, <2>4, LastWriteShows
<1>3. QED
  BY <1>1, <1>2 DEF Remove

LEMMA PeriodErrorShows ==
  ASSUME OneJob, ShowInv, ClaimInv', NEW p \in Procs, PeriodError(p)
  PROVE  ShowInv'
<1>a. TypeOK /\ job[p] \in Job
  BY AloneShows
<1>1. ASSUME NEW k \in Records, PeriodFails(p, k)
      PROVE  ShowInv'
  <2>1. Become(p, [pc |-> "error_write", rec |-> k]) /\ UNCHANGED <<invoice, record>>
    BY <1>1 DEF PeriodFails
  <2>2. job[p].pc \notin Carrying
    BY <1>1 DEF PeriodFails, Idle, Carrying
  <2>3. QED
    BY <2>1, <2>2, ShowsOfPlainReads
<1>2. CASE MarkPeriodError(p)
  <2> DEFINE k == job[p].rec
             row == Assessed(record[k], "ERROR", "PENDING_REVIEW", record[k].finalized)
  <2>1. k \in Records /\ job[p].pc \notin Carrying
    BY <1>2, <1>a, JobFields DEF MarkPeriodError, Carrying
  <2>2. record[k] \in RecordRow
    BY <1>a, <2>1 DEF TypeOK
  <2>3. record' = [record EXCEPT ![k] = row] /\ UNCHANGED invoice /\ Become(p, Idle)
    BY <1>a, <1>2, <2>1 DEF MarkPeriodError, TypeOK
  <2>4. row.inv = record[k].inv /\ row.month = record[k].month /\ row.kwh = record[k].kwh
    BY <2>2, ErrorRow, KwhFields
  <2> HIDE DEF k, row
  <2>5. QED
    BY <2>1, <2>3, <2>4, LastWriteShows
<1>3. QED
  BY <1>1, <1>2 DEF PeriodError

LEMMA RefreshReadsShow ==
  ASSUME OneJob, ShowInv, ClaimInv', NEW p \in Procs,
         \/ RefreshLoad(p)
         \/ \E broken \in BOOLEAN : RefreshAssess(p, broken)
         \/ \E k \in Records : RefreshHistory(p, k)
         \/ \E m \in Months : RefreshPeriod(p, m)
  PROVE  ShowInv'
<1>a. TypeOK /\ job[p] \in Job /\ JobShows(p)
  BY AloneShows
<1> DEFINE j == job[p]
<1>0. PICK k : k = j.rec
  OBVIOUS
<1>1. ASSUME NEW q, Become(p, q), UNCHANGED <<invoice, record>>, j.pc \in {"load", "assess"},
             q.pc \in {"assess", "refresh_write"}, q.rec = k, q.next = j.next
      PROVE  ShowInv'
  <2>1. job'[p] = q
    BY <1>a, <1>1, NextJob
  <2>2. q.next = "link" => Correctable(k)'
    BY <1>a, <1>0, <1>1, SameShown DEF JobShows
  <2>3. JobShows(p)'
    BY <1>1, <2>1, <2>2 DEF JobShows
  <2>4. \A l \in Records : Carries(p, l) => Carries(p, l)'
    BY <1>0, <1>1, <2>1 DEF Carries, Carrying
  <2>5. QED
    BY <1>1, <2>3, <2>4, ShowsOfReads
<1>2. CASE RefreshLoad(p)
  <2> DEFINE q == [pc |-> "assess", rec |-> k, actor |-> j.actor, next |-> j.next,
                   row |-> record[k], status |-> StatusOf(record[k].inv)]
  <2>1. j.pc = "load" /\ Become(p, q) /\ UNCHANGED <<invoice, record>>
    BY <1>0, <1>2 DEF RefreshLoad
  <2>2. q.pc = "assess" /\ q.rec = k /\ q.next = j.next
    OBVIOUS
  <2> HIDE DEF q
  <2>3. QED
    BY <1>1, <2>1, <2>2
<1>3. ASSUME NEW broken \in BOOLEAN, RefreshAssess(p, broken)
      PROVE  ShowInv'
  <2> DEFINE quality == AssessedQuality(j.row, broken)
             workflow == AssessedWorkflow(quality, j.status)
             row == Assessed(j.row, quality, workflow, AssessedFinalized(j.row, workflow))
             q == [j EXCEPT !.pc = "refresh_write", !.row = row]
  <2>1. j.pc = "assess" /\ Become(p, q) /\ UNCHANGED <<invoice, record>>
    BY <1>3, Zenon DEF RefreshAssess
  <2>2. j \in [pc : {"assess"}, rec : Records, actor : Actor, next : Then, row : RecordRow,
                status : LinkedStatus]
    BY <1>a, <2>1 DEF Job, Idle
  <2>3. q.pc = "refresh_write" /\ q.rec = j.rec /\ q.next = j.next
    <3> HIDE DEF j, row
    <3>1. QED
      BY <2>2
  <2> HIDE DEF q
  <2>4. QED
    BY <1>0, <1>1, <2>1, <2>3
<1>4. ASSUME NEW h, Become(p, Load(h, "auto", "done")), j = Idle, UNCHANGED <<invoice, record>>
      PROVE  ShowInv'
  <2>1. PICK q : Become(p, q) /\ q.pc = "load" /\ q.next = "done"
    BY <1>4 DEF Load
  <2>2. QED
    BY <1>4, <2>1, ShowsOfPlainReads DEF Idle, Carrying
<1>5. ASSUME NEW h \in Records, RefreshHistory(p, h)
      PROVE  ShowInv'
  BY <1>4, <1>5 DEF RefreshHistory
<1>6. ASSUME NEW m \in Months, RefreshPeriod(p, m)
      PROVE  ShowInv'
  <2>1. j = Idle /\ UNCHANGED <<invoice, record>>
    BY <1>6 DEF RefreshPeriod
  <2>2. CASE \E h \in RowOf(m) : Become(p, Load(h, "auto", "done"))
    BY <1>4, <2>1, <2>2
  <2>3. ASSUME NEW q, Become(p, q), q.pc = "period_create"
        PROVE  ShowInv'
    BY <2>1, <2>3, ShowsOfPlainReads DEF Idle, Carrying
  <2>4. QED
    BY <1>6, <2>2, <2>3 DEF RefreshPeriod
<1>7. QED
  BY <1>2, <1>3, <1>5, <1>6
LEMMA RefreshWriteShows ==
  ASSUME OneJob, ShowInv, ClaimInv', NEW p \in Procs, RefreshWrite(p)
  PROVE  ShowInv'
<1>a. TypeOK /\ job[p] \in Job /\ JobShows(p)
  BY AloneShows
<1> DEFINE j == job[p]
<1>0. PICK k : k = j.rec
  OBVIOUS
<1> DEFINE written == Assessed(record[k], j.row.quality, j.row.workflow, j.row.finalized)
           q(pc) == [j EXCEPT !.pc = pc, !.row = written, !.status = StatusOf(written.inv)]
<1>1. j \in [pc : {"refresh_write"}, rec : Records, actor : Actor, next : Then, row : RecordRow,
              status : LinkedStatus]
  BY <1>a DEF RefreshWrite, Job, Idle
<1>2. /\ j.pc = "refresh_write" /\ k \in Records /\ record[k] \in RecordRow
      /\ j.row \in RecordRow
  BY <1>0, <1>1, <1>a DEF TypeOK
<1>3. /\ written.inv = record[k].inv /\ written.month = record[k].month
      /\ written.kwh = record[k].kwh
  <2>1. /\ j.row.quality \in Quality /\ j.row.workflow \in Workflow
        /\ j.row.finalized \in {"no", "yes"}
    BY <1>2 DEF RecordRow
  <2>2. QED
    BY <1>2, <2>1, AssessedRow, KwhFields
<1>4. /\ record' = [record EXCEPT ![k] = written]
      /\ UNCHANGED invoice
      /\ \/ Become(p, q("link")) /\ j.next = "link"
         \/ Become(p, q("gen_check")) /\ j.next = "invoice"
         \/ Become(p, Idle) /\ (j.next = "link" => written.inv = NoInvoice)
  BY <1>0, <1>2 DEF RefreshWrite
<1>5. \A pc \in {"link", "gen_check"} :
        /\ q(pc).pc = pc /\ q(pc).rec = k /\ q(pc).next = j.next /\ q(pc).row = written
        /\ q(pc).status = StatusOf(written.inv)
  <2> HIDE DEF written, j
  <2>1. QED
    BY <1>0, <1>1
<1>6. j.next = "link" => Mutable(StatusOf(record[k].inv))
  BY <1>a, <1>0, <1>2 DEF JobShows, Correctable
<1> HIDE DEF written, q, j
<1>7. PICK s : /\ Become(p, s)
               /\ \/ /\ s.pc = "link" /\ s.next = "link" /\ s.rec = k /\ s.status = StatusOf(record[k].inv)
                     /\ Mutable(s.status)
                  \/ /\ s.pc = "gen_check" /\ s.rec = k /\ s.row.kwh = record[k].kwh /\ j.next # "link"
                  \/ s.pc = "idle" /\ (j.next = "link" => record[k].inv = NoInvoice)
  BY <1>3, <1>4, <1>5, <1>6 DEF Idle
<1>8. job'[p] = s
  BY <1>a, <1>7, NextJob
<1>9. /\ record'[k].inv = record[k].inv /\ record'[k].month = record[k].month
      /\ record'[k].kwh = record[k].kwh
  BY <1>a, <1>2, <1>3, <1>4 DEF TypeOK
<1>10. JobShows(p)'
  BY <1>7, <1>8, <1>9 DEF JobShows
<1>11. Shown(k)' \/ Carries(p, k)'
  <2>1. CASE s.pc = "link"
    BY <1>7, <1>8, <2>1 DEF Carries, Carrying
  <2>2. CASE j.next # "link"
    <3>1. Shown(k)
      BY <1>2, <2>2, AloneShows DEF Carries, j
    <3>2. QED
      BY <1>4, <1>9, <3>1 DEF Shown
  <2>3. CASE record[k].inv = NoInvoice
    BY <1>9, <2>3 DEF Shown
  <2>4. QED
    BY <1>7, <2>1, <2>2, <2>3
<1>12. \A l \in Records : Carries(p, l) => l = k
  BY <1>0 DEF Carries, j
<1>13. QED
  BY <1>2, <1>4, <1>10, <1>11, <1>12, ShownAfterRow, OnlyJobShows

LEMMA PeriodCreateShows ==
  ASSUME OneJob, ShowInv, ClaimInv', NEW p \in Procs, NEW k \in Records, PeriodCreate(p, k)
  PROVE  ShowInv'
<1>a. TypeOK /\ job[p] \in Job
  BY AloneShows
<1> DEFINE j == job[p]
           row == Created(j.month, j.kwh, 0)
<1>1. j.month \in Months /\ j.kwh \in Kwh /\ 0 \in Kwh /\ j.pc = "period_create"
  BY <1>a, JobFields, InvoiceTableAssumption DEF PeriodCreate, Kwh
<1>2. row.inv = NoInvoice
  BY <1>1, CreatedRow
<1>3. /\ record' = [record EXCEPT ![k] = row] /\ UNCHANGED invoice
      /\ Become(p, Load(k, "auto", "done"))
  BY DEF PeriodCreate
<1> HIDE DEF row
<1>4. Shown(k)'
  <2>1. record'[k] = row
    BY <1>a, <1>3 DEF TypeOK
  <2>2. QED
    BY <1>2, <2>1 DEF Shown
<1>5. JobShows(p)'
  <2>1. job'[p] = Load(k, "auto", "done")
    BY <1>a, <1>3, NextJob
  <2>2. QED
    BY <2>1 DEF JobShows, Load
<1>6. \A l \in Records : ~Carries(p, l)
  BY <1>1 DEF Carries, Carrying
<1>7. QED
  BY <1>3, <1>4, <1>5, <1>6, ShownAfterRow, OnlyJobShows

(* A row of Invoice is written: only the record that links it is concerned. *)
LEMMA ShownAfterBill ==
  ASSUME TypeOK, NEW l \in Records, NEW i \in Invoices, NEW bill,
         invoice' = [invoice EXCEPT ![i] = bill], UNCHANGED record,
         Shown(l), record[l].inv # i
  PROVE  Shown(l)'
<1>1. record[l].inv \in Invoices \cup {NoInvoice}
  BY DEF TypeOK, RecordRow
<1>2. record[l].inv # NoInvoice => invoice'[record[l].inv] = invoice[record[l].inv]
  BY <1>1 DEF TypeOK
<1>3. QED
  BY <1>2 DEF Shown

(* What a bill is written with, field by field. *)
LEMMA BillFields ==
  ASSUME NEW bill \in InvoiceRow
  PROVE  /\ \A m, total, status : /\ Recalculated(bill, m, total, status).total = total
                                  /\ Recalculated(bill, m, total, status).month = m
         /\ \A status : /\ Transitioned(bill, status).total = bill.total
                        /\ Transitioned(bill, status).month = bill.month
         /\ \A paid, status : /\ Credited(bill, paid, status).total = bill.total
                              /\ Credited(bill, paid, status).month = bill.month
  BY DEF InvoiceRow, Recalculated, Transitioned, Credited

(* The record has run ahead of its invoice, and the invoice catches up: the *)
(* month is over, since it has an invoice, and the invoice can be adjusted. *)
LEMMA SyncLinkedShows ==
  ASSUME OneJob, ShowInv, ClaimInv', NEW p \in Procs, SyncLinkedInvoice(p)
  PROVE  ShowInv'
<1>a. TypeOK /\ ClaimTables /\ job[p] \in Job /\ JobKnowsMonth(p) /\ JobBacksClaims(p)
  BY AloneShows
<1> DEFINE j == job[p]
           status == IF j.row.workflow \in {"PENDING_REVIEW", "DRAFT"} THEN j.row.workflow ELSE j.status
<1>0. PICK k, i : k = j.rec /\ i = j.row.inv
  OBVIOUS
<1> DEFINE bill == Recalculated(invoice[i], j.row.month, j.row.kwh, status)
<1>1. /\ j.pc = "link" /\ Become(p, Idle) /\ UNCHANGED record
      /\ Current(j.row.month) \/ invoice' = [invoice EXCEPT ![j.row.inv] =
                                    Recalculated(invoice[j.row.inv], j.row.month, j.row.kwh, status)]
  BY <1>a DEF SyncLinkedInvoice, TypeOK
<1>2. /\ k \in Records /\ i \in Invoices /\ record[k] = j.row /\ j.row \in RecordRow
  BY <1>0, <1>1, <1>a, JobFields DEF JobBacksClaims, RecordRow
<1>3. invoice' = [invoice EXCEPT ![i] = bill]
  <2>1. j.row.month < now /\ now \in Int
    BY <1>1, <1>a, InvoiceTableAssumption DEF JobKnowsMonth, TypeOK, Months
  <2>2. j.row.month # now
    <3> HIDE DEF j
    <3>1. j.row.month \in Int
      BY <1>2, InvoiceTableAssumption DEF RecordRow
    <3>2. QED
      BY <2>1, <3>1
  <2>3. QED
    BY <1>0, <1>1, <2>2 DEF Current
<1>4. bill.total = record[k].kwh /\ bill.month = record[k].month
  <2>1. invoice[i] \in InvoiceRow
    BY <1>a, <1>2 DEF TypeOK
  <2> HIDE DEF status
  <2>2. QED
    BY <1>2, <2>1, BillFields
<1> HIDE DEF bill
<1>5. Shown(k)'
  <2>1. invoice'[i] = bill
    BY <1>a, <1>2, <1>3 DEF TypeOK
  <2>2. record'[k].inv = i /\ record'[k] = record[k]
    BY <1>0, <1>1, <1>2
  <2>3. QED
    BY <1>4, <2>1, <2>2 DEF Shown
<1>6. ASSUME NEW l \in Records, l # k
      PROVE  Shown(l)'
  <2>1. record[l].inv # i
    BY <1>a, <1>0, <1>2, <1>6, MonthlyBillingAssumption DEF ClaimTables, LinksAreUnique
  <2>2. Shown(l)
    <3>1. ~Carries(p, l)
      BY <1>0, <1>6 DEF Carries
    <3>2. QED
      BY <3>1, AloneShows
  <2>3. QED
    BY <1>a, <1>1, <1>2, <1>3, <2>1, <2>2, ShownAfterBill
<1>7. JobShows(p)'
  <2>1. job'[p] = Idle
    BY <1>a, <1>1, NextJob
  <2>2. QED
    BY <2>1 DEF JobShows, Idle
<1>8. QED
  BY <1>5, <1>6, <1>7, OnlyJobShows
LEMMA GenerateShows ==
  ASSUME OneJob, ShowInv, ClaimInv', NEW p \in Procs, Generate(p)
  PROVE  ShowInv'
<1>a. /\ TypeOK /\ ClaimTables /\ job[p] \in Job /\ JobKnowsMonth(p) /\ JobHoldsLink(p)
      /\ JobBacksClaims(p) /\ JobShows(p)
  BY AloneShows
<1> DEFINE j == job[p]
<1>0. PICK k : k = j.rec
  OBVIOUS
<1>1. ASSUME NEW actor \in Actor, NEW h \in Records, GenerateInvoice(p, actor, h)
      PROVE  ShowInv'
  <2>1. j = Idle /\ Become(p, Load(h, actor, "invoice")) /\ UNCHANGED <<invoice, record>>
    BY <1>1 DEF GenerateInvoice
  <2>2. PICK q : Become(p, q) /\ q.pc = "load" /\ q.next = "invoice"
    BY <2>1 DEF Load
  <2>3. QED
    BY <2>1, <2>2, ShowsOfPlainReads DEF Idle, Carrying
<1>2. ASSUME GenerateCheck(p)
      PROVE  ShowInv'
  <2> DEFINE q == [j EXCEPT !.pc = "gen_draft"]
  <2>1. j.pc = "gen_check" /\ Become(p, q) /\ UNCHANGED <<invoice, record>>
    BY <1>2 DEF GenerateCheck
  <2>2. j \in [pc : {"gen_check"}, rec : Records, actor : Actor, next : Then, row : RecordRow,
                status : LinkedStatus]
    BY <2>1, <1>a DEF Job, Idle
  <2>3. q.pc = "gen_draft" /\ q.rec = k /\ q.row = j.row
    <3> HIDE DEF j
    <3>1. QED
      BY <1>0, <2>2
  <2> HIDE DEF q
  <2>4. job'[p] = q
    BY <1>a, <2>1, NextJob
  <2>5. JobShows(p)'
    <3>1. q.row.kwh = record'[k].kwh
      BY <1>a, <1>0, <2>1, <2>3 DEF JobShows
    <3>2. QED
      BY <2>3, <2>4, <3>1 DEF JobShows
  <2>6. QED
    BY <2>1, <2>5, ShowsOfReads DEF Carries, Carrying
<1>3. ASSUME NEW i \in Invoices, WriteDraft(p, i)
      PROVE  ShowInv'
  <2> DEFINE bill == DraftOf(j.row, invoice[i].paid)
  <2>1. PICK q : Become(p, q) /\ q.pc = "gen_link" /\ q.rec = k /\ q.inv = i
    BY <1>0, <1>3 DEF WriteDraft
  <2>2. /\ j.pc = "gen_draft" /\ UNCHANGED record
        /\ invoice' = [invoice EXCEPT ![i] = bill]
        /\ j.row.inv # i => j.row.inv = NoInvoice /\ invoice[i].status = "ABSENT"
    BY <1>3, <1>a DEF WriteDraft, TypeOK
  <2>3. /\ k \in Records /\ record[k].inv = j.row.inv /\ record[k].month = j.row.month
        /\ record[k].kwh = j.row.kwh
    BY <1>0, <2>2, <1>a, JobFields DEF JobHoldsLink, JobShows
  <2>4. bill.total = record[k].kwh /\ bill.month = record[k].month
    BY <2>3 DEF DraftOf
  <2>5. ASSUME NEW l \in Records, l # k
        PROVE  record[l].inv # i
    BY <1>a, <2>2, <2>3, <2>5, MonthlyBillingAssumption DEF ClaimTables, LinksAreRows, LinksAreUnique
  <2> HIDE DEF bill
  <2>6. invoice'[i] = bill
    BY <1>a, <2>2 DEF TypeOK
  <2>7. ASSUME NEW l \in Records
        PROVE  Shown(l)'
    <3>1. CASE record[l].inv # i
      <4>1. Shown(l)
        BY <2>2, AloneShows DEF Carrying
      <4>2. QED
        BY <1>a, <2>2, <3>1, <4>1, ShownAfterBill
    <3>2. CASE record[l].inv = i
      <4>1. l = k
        BY <2>5, <3>2
      <4>2. QED
        BY <2>2, <2>4, <2>6, <3>2, <4>1 DEF Shown
    <3>3. QED
      BY <3>1, <3>2
  <2>8. JobShows(p)'
    <3>1. job'[p] = q
      BY <1>a, <2>1, NextJob
    <3>2. invoice'[i].total = record'[k].kwh
      BY <2>2, <2>4, <2>6
    <3>3. QED
      BY <2>1, <3>1, <3>2 DEF JobShows
  <2>9. QED
    BY <2>7, <2>8, OnlyJobShows
<1>4. ASSUME LinkDraft(p)
      PROVE  ShowInv'
  <2>0. PICK i : i = j.inv
    OBVIOUS
  <2> DEFINE row == Linked(record[k], i)
             q == [j EXCEPT !.pc = "gen_issue"]
  <2>1. j.pc = "gen_link" /\ Become(p, q) /\ UNCHANGED invoice
    BY <1>4 DEF LinkDraft
  <2>2. j \in [pc : {"gen_link"}, rec : Records, actor : Actor, row : RecordRow, inv : Invoices]
    BY <2>1, <1>a DEF Job, Idle
  <2>3. /\ k \in Records /\ i \in Invoices /\ record[k] \in RecordRow
        /\ record[k].month = invoice[i].month /\ invoice[i].total = record[k].kwh
    BY <1>0, <2>0, <2>1, <2>2, <1>a DEF TypeOK, JobHoldsLink, JobShows
  <2>4. record' = [record EXCEPT ![k] = row]
    BY <1>0, <1>4, <1>a, <2>0, <2>3 DEF LinkDraft, TypeOK
  <2>5. row.inv = i /\ row.month = record[k].month /\ row.kwh = record[k].kwh
    BY <2>3, LinkedRow, KwhFields
  <2>6. q.pc = "gen_issue" /\ q.rec = k /\ q.inv = i
    <3> HIDE DEF j
    <3>1. QED
      BY <1>0, <2>0, <2>2
  <2> HIDE DEF row, q
  <2>7. /\ record'[k].inv = i /\ record'[k].month = record[k].month
        /\ record'[k].kwh = record[k].kwh
    BY <1>a, <2>3, <2>4, <2>5 DEF TypeOK
  <2>8. Shown(k)'
    BY <2>1, <2>3, <2>7 DEF Shown
  <2>9. JobShows(p)'
    <3>1. job'[p] = q
      BY <1>a, <2>1, NextJob
    <3>2. QED
      BY <2>1, <2>3, <2>6, <2>7, <3>1 DEF JobShows
  <2>10. \A l \in Records : ~Carries(p, l)
    BY <2>1 DEF Carries, Carrying
  <2>11. QED
    BY <2>1, <2>3, <2>4, <2>8, <2>9, <2>10, ShownAfterRow, OnlyJobShows
<1>5. ASSUME IssueInvoice(p)
      PROVE  ShowInv'
  <2>0. PICK i : i = j.inv
    OBVIOUS
  <2> DEFINE status == TargetStatus(j)
             bill == Transitioned(invoice[i], status)
  <2>1. /\ j.pc = "gen_issue" /\ UNCHANGED record
        /\ Become(p, [pc |-> "gen_record", rec |-> j.rec, workflow |-> status])
    BY <1>5 DEF IssueInvoice
  <2>2. i \in Invoices
    BY <2>0, <2>1, <1>a, JobFields
  <2>3. invoice' = [invoice EXCEPT ![i] = bill]
    BY <1>5, <1>a, <2>0, <2>2 DEF IssueInvoice, TypeOK
  <2>4. bill.total = invoice[i].total /\ bill.month = invoice[i].month
    <3>1. invoice[i] \in InvoiceRow
      BY <1>a, <2>2 DEF TypeOK
    <3> HIDE DEF status
    <3>2. QED
      BY <3>1, BillFields
  <2> HIDE DEF bill
  <2>5. invoice'[i] = bill
    BY <1>a, <2>2, <2>3 DEF TypeOK
  <2>6. ASSUME NEW l \in Records
        PROVE  Shown(l)'
    <3>1. Shown(l)
      BY <2>1, AloneShows DEF Carrying
    <3>2. CASE record[l].inv # i
      BY <1>a, <2>1, <2>2, <2>3, <3>1, <3>2, ShownAfterBill
    <3>3. CASE record[l].inv = i
      BY <2>1, <2>4, <2>5, <3>1, <3>3 DEF Shown
    <3>4. QED
      BY <3>2, <3>3
  <2>7. JobShows(p)'
    <3>1. job'[p] = [pc |-> "gen_record", rec |-> j.rec, workflow |-> status]
      BY <1>a, <2>1, NextJob
    <3>2. job'[p].pc = "gen_record"
      BY <3>1
    <3>3. QED
      BY <3>2 DEF JobShows
  <2>8. QED
    BY <2>6, <2>7, OnlyJobShows
<1>6. ASSUME RecordInvoiced(p)
      PROVE  ShowInv'
  <2> DEFINE row == Invoiced(record[k], j.workflow)
  <2>1. j.pc = "gen_record" /\ Become(p, Idle) /\ UNCHANGED invoice
    BY <1>6 DEF RecordInvoiced
  <2>2. k \in Records /\ record[k] \in RecordRow /\ j.workflow \in Workflow
    BY <1>0, <2>1, <1>a, JobFields DEF TypeOK, Workflow, InvoiceStatus
  <2>3. record' = [record EXCEPT ![k] = row]
    BY <1>0, <1>6, <1>a, <2>2 DEF RecordInvoiced, TypeOK
  <2>4. row.inv = record[k].inv /\ row.month = record[k].month /\ row.kwh = record[k].kwh
    <3> HIDE DEF j
    <3>1. QED
      BY <2>2, InvoicedRow, KwhFields
  <2> HIDE DEF row
  <2>5. QED
    BY <2>1, <2>2, <2>3, <2>4, LastWriteShows DEF Carrying
<1>7. QED
  BY <1>1, <1>2, <1>3, <1>4, <1>5, <1>6, Zenon DEF Generate

(* Payments and the clock change no total and no month, and an invoice that *)
(* can be adjusted stays so while a job is under way.                       *)
LEMMA SurroundingsShow ==
  ASSUME OneJob, ~PayDuringJobs, ShowInv, ClaimInv', Surroundings
  PROVE  ShowInv'
<1>a. TypeOK
  BY DEF ShowInv, ClaimInv, LinkInv, MonthInv
<1>b. UNCHANGED <<record, job>>
  BY DEF Surroundings, NextMonth, EnergyArrives, PaymentLands, RefreshOverdue
<1>c. \A k \in Records : record[k].inv \in Invoices \cup {NoInvoice}
  BY <1>a DEF TypeOK, RecordRow
<1>1. ASSUME NEW i \in Invoices
      PROVE  /\ invoice'[i].total = invoice[i].total /\ invoice'[i].month = invoice[i].month
             /\ (\E p \in Procs : job[p] # Idle) /\ Mutable(invoice[i].status) =>
                  Mutable(invoice'[i].status)
  <2>1. invoice[i] \in InvoiceRow
    BY <1>a DEF TypeOK
  <2>2. CASE UNCHANGED invoice
    BY <2>2
  <2>3. ASSUME NEW l \in Invoices, NEW amount \in Kwh, PaymentLands(l, amount)
        PROVE  /\ invoice'[i].total = invoice[i].total /\ invoice'[i].month = invoice[i].month
               /\ \A p \in Procs : job[p] = Idle
    <3> DEFINE paid == NextPaid(l, amount)
               bill == Credited(invoice[l], paid, IF paid >= invoice[l].total THEN "PAID" ELSE "PARTIAL")
    <3>1. invoice' = [invoice EXCEPT ![l] = bill] /\ \A p \in Procs : job[p] = Idle
      BY <1>a, <2>3 DEF PaymentLands, TypeOK
    <3>2. bill.total = invoice[l].total /\ bill.month = invoice[l].month
      <4>1. invoice[l] \in InvoiceRow
        BY <1>a DEF TypeOK
      <4> HIDE DEF paid
      <4>2. QED
        BY <4>1, BillFields
    <3> HIDE DEF bill
    <3>3. QED
      BY <1>a, <3>1, <3>2 DEF TypeOK
  <2>4. ASSUME NEW late \in SUBSET Invoices, RefreshOverdue(late)
        PROVE  /\ invoice'[i].total = invoice[i].total /\ invoice'[i].month = invoice[i].month
               /\ Mutable(invoice[i].status) => Mutable(invoice'[i].status)
    <3>1. invoice'[i] = IF i \in late THEN [invoice[i] EXCEPT !.status = "OVERDUE"] ELSE invoice[i]
      BY <1>a, <2>4 DEF RefreshOverdue, SweptOverdue, TypeOK
    <3>2. QED
      BY <2>1, <3>1 DEF InvoiceRow, Mutable, MutableStatus
  <2>5. QED
    BY <2>2, <2>3, <2>4 DEF Surroundings, NextMonth, EnergyArrives
<1>2. ASSUME NEW k \in Records
      PROVE  (Shown(k) \/ \E p \in Procs : Carries(p, k))'
  <2>1. CASE Shown(k)
    BY <1>b, <1>c, <1>1, <2>1 DEF Shown
  <2>2. CASE \E p \in Procs : Carries(p, k)
    BY <1>b, <2>2 DEF Carries
  <2>3. QED
    BY <2>1, <2>2 DEF ShowInv
<1>3. ASSUME NEW p \in Procs
      PROVE  JobShows(p)'
  <2>1. job[p] \in Job /\ JobShows(p)
    BY <1>a DEF ShowInv, TypeOK
  <2>2. ASSUME NEW k \in Records, job[p].pc # "idle", Mutable(StatusOf(record[k].inv))
        PROVE  Mutable(StatusOf(record[k].inv))'
    <3>1. job[p] # Idle
      BY <2>2 DEF Idle
    <3>2. QED
      BY <1>b, <1>c, <1>1, <2>2, <3>1, MonthlyBillingAssumption DEF StatusOf, Mutable
  <2>3. \A m : RowOf(m)' = RowOf(m) /\ RowOf(m) \subseteq Records
    BY <1>b DEF RowOf
  <2>4. /\ job[p].pc \in {"update_check", "update_write", "load", "assess", "refresh_write"} =>
             job[p].rec \in Records
        /\ job[p].pc \in {"gen_link", "gen_issue"} => job[p].inv \in Invoices
    BY <2>1, JobFields
  <2>5. job[p].pc \in {"sync_amounts", "sync_upsert"} =>
          \A k \in RowOf(job[p].month)' : Mutable(StatusOf(record[k].inv))'
    <3>1. PICK m : m = job[p].month
      OBVIOUS
    <3>2. QED
      BY <1>b, <2>1, <2>2, <2>3, <3>1 DEF JobShows
  <2>6. /\ job[p].pc \in {"update_check", "update_write"} => Correctable(job[p].rec)'
        /\ job[p].pc \in {"load", "assess", "refresh_write"} /\ job[p].next = "link" =>
             Correctable(job[p].rec)'
    BY <1>b, <2>1, <2>2, <2>4 DEF JobShows, Correctable
  <2>7. job[p].pc \in {"gen_link", "gen_issue"} =>
          invoice'[job[p].inv].total = record'[job[p].rec].kwh
    BY <1>b, <1>1, <2>1, <2>4 DEF JobShows
  <2>8. QED
    BY <1>b, <2>1, <2>5, <2>6, <2>7 DEF JobShows
<1>4. QED
  BY <1>2, <1>3 DEF ShowInv

LEMMA ShowInvStep ==
  /\ OneJob /\ ~JobsFail /\ ~AllowPeriodMove /\ ~StaleReceipts /\ ~PayDuringJobs
  /\ ShowInv /\ [Next]_vars
  => ShowInv'
<1> SUFFICES ASSUME OneJob, ~JobsFail, ~AllowPeriodMove, ~StaleReceipts, ~PayDuringJobs,
                    ShowInv, [Next]_vars
             PROVE  ShowInv'
  OBVIOUS
<1>a. ClaimInv'
  BY ClaimInvStep DEF ShowInv
<1>1. ASSUME NEW p \in Procs, Refused(p) PROVE ShowInv'
  <2>1. Become(p, Idle) /\ UNCHANGED <<invoice, record>> /\ Idle.pc = "idle"
    BY <1>1 DEF Refused, Idle
  <2>2. JobShows(p)
    BY AloneShows
  <2>3. ASSUME NEW k \in Records PROVE ~Carries(p, k)
    BY <1>1, <2>2 DEF Refused, Carries, Carrying, JobShows, Correctable
  <2>4. JobShows(p)'
    <3>1. job'[p] = Idle
      BY <2>1, NextJob, AloneShows
    <3>2. QED
      BY <2>1, <3>1 DEF JobShows
  <2>5. QED
    BY <1>a, <2>1, <2>3, <2>4, ShowsOfReads
<1>2. ASSUME NEW p \in Procs, Refresh(p) PROVE ShowInv'
  BY <1>a, <1>2, RefreshReadsShow, RefreshWriteShows, PeriodCreateShows, SyncLinkedShows DEF Refresh
<1>3. CASE UNCHANGED vars
  <2>1. UNCHANGED <<invoice, record, job>>
    BY <1>3 DEF vars
  <2>2. \A k \in Records : (Shown(k) \/ \E p \in Procs : Carries(p, k))'
    BY <2>1 DEF ShowInv, Shown, Carries
  <2>3. \A p \in Procs : JobShows(p)'
    BY <2>1 DEF ShowInv, JobShows, Correctable, RowOf, StatusOf
  <2>4. QED
    BY <1>a, <2>2, <2>3 DEF ShowInv
<1>4. ASSUME NEW p \in Procs, Abort(p) PROVE FALSE
  BY <1>4 DEF Abort
<1>5. QED
  BY <1>a, <1>1, <1>2, <1>3, <1>4, SyncShows, UpdateShows, RemoveShows, PeriodErrorShows,
     GenerateShows, SurroundingsShow DEF Next, Jobs

LEMMA InitShowInv == Init => ShowInv
<1> SUFFICES ASSUME Init PROVE ShowInv
  OBVIOUS
<1>1. \A k \in Records : Shown(k)
  BY DEF Init, Shown, NoRecord
<1>2. ASSUME NEW p \in Procs PROVE JobShows(p)
  <2>1. job[p].pc = "idle"
    BY DEF Init, Idle
  <2>2. QED
    BY <2>1 DEF JobShows
<1>3. QED
  BY <1>1, <1>2, InitClaimInv DEF ShowInv

(* One job at a time that runs to its end, no record moved, drafts not      *)
(* paid, payments between jobs: whenever no job is under way, every linked  *)
(* invoice shows the month and the kWh of its record.                       *)
THEOREM InvoicesShowTheirRecords ==
  ASSUME OneJob, ~JobsFail, ~AllowPeriodMove, ~StaleReceipts, ~PayDuringJobs
  PROVE  Spec => []InvoiceShowsRecord
<1>1. ShowInv => InvoiceShowsRecord
  <2> SUFFICES ASSUME ShowInv, \A p \in Procs : job[p] = Idle, NEW k \in Records
               PROVE  Shown(k)
    BY DEF InvoiceShowsRecord, Shown
  <2>1. \A p \in Procs : ~Carries(p, k)
    BY DEF Carries, Carrying, Idle
  <2>2. QED
    BY <2>1 DEF ShowInv
<1>2. ShowInv /\ [Next]_vars => ShowInv'
  BY ShowInvStep
<1>3. QED
  BY InitShowInv, <1>1, <1>2, PTL DEF Spec
-----------------------------------------------------------------------------
(* The months a customer is told of follow MonthBook.  A month stands where *)
(* its bill stands: the invoice the record of that month links to, if any.  *)
(* An invoice that no record links to has taken no money, so that linking   *)
(* it later, when a job that stopped is run again, adds none to the month.  *)

UnlinkedUnpaid ==
  \A i \in Invoices : invoice[i].paid > 0 => \E k \in Records : record[k].inv = i

BookInv == ClaimInv /\ PayingIsSeen /\ UnlinkedUnpaid

(* The links that are there stay, and no link is added. *)
SameBills ==
  \A k \in Records :
    /\ record'[k].inv = record[k].inv
    /\ record[k].inv # NoInvoice => record'[k].month = record[k].month

LEMMA BillsAfterRow ==
  ASSUME TypeOK, NEW k \in Records, NEW row, record' = [record EXCEPT ![k] = row],
         row.inv = record[k].inv, record[k].inv # NoInvoice => row.month = record[k].month
  PROVE  SameBills
<1>1. \A l \in Records : record'[l] = IF l = k THEN row ELSE record[l]
  BY DEF TypeOK
<1>2. QED
  BY <1>1 DEF SameBills

LEMMA NewRowBills ==
  ASSUME ClaimInv, NEW k \in Records, NEW row, record' = [record EXCEPT ![k] = row],
         record[k].state = "absent", row.inv = NoInvoice
  PROVE  SameBills
<1>1. record[k].inv = NoInvoice
  BY DEF ClaimInv, ClaimTables, ClaimsAreBacked
<1>2. TypeOK
  BY DEF ClaimInv, LinkInv, MonthInv
<1>3. QED
  BY <1>1, <1>2, BillsAfterRow

LEMMA UntouchedBills == ASSUME UNCHANGED record PROVE SameBills
  BY DEF SameBills

(* Only linking a draft changes which invoice a record links to, and only   *)
(* an administrator's move, which is left out here, the month of one.       *)
LEMMA RecordSteps ==
  ASSUME ClaimInv, Next
  PROVE  SameBills \/ \E p \in Procs : LinkDraft(p)
<1>a. TypeOK
  BY DEF ClaimInv, LinkInv, MonthInv
<1>1. ASSUME NEW p \in Procs, Sync(p) PROVE SameBills
  <2> DEFINE j == job[p]
  <2>1. CASE UNCHANGED record
    BY <2>1, UntouchedBills
  <2>2. ASSUME NEW k \in Records, SyncUpdate(p, k) \/ SyncInsert(p, k) PROVE SameBills
    <3>1. j \in Job
      BY <1>a DEF TypeOK
    <3>2. j.month \in Months /\ j.kwh \in Kwh /\ j.manual \in Kwh
      BY <2>2, <3>1, JobFields, InvoiceTableAssumption DEF SyncUpdate, SyncInsert, Kwh
    <3>3. record[k] \in RecordRow
      BY <1>a DEF TypeOK
    <3>4. CASE SyncUpdate(p, k)
      <4> DEFINE row == Synced(record[k], j.kwh, j.manual)
      <4>1. record' = [record EXCEPT ![k] = row]
        BY <1>a, <3>4 DEF SyncUpdate, TypeOK
      <4>2. row.month = record[k].month /\ row.inv = record[k].inv
        BY <3>2, <3>3, SyncedRow
      <4> HIDE DEF row
      <4>3. QED
        BY <1>a, <4>1, <4>2, BillsAfterRow
    <3>5. CASE SyncInsert(p, k)
      <4> DEFINE row == Created(j.month, j.kwh, j.manual)
      <4>1. record' = [record EXCEPT ![k] = row] /\ record[k].state = "absent"
        BY <3>5 DEF SyncInsert
      <4>2. row.inv = NoInvoice
        BY <3>2, CreatedRow
      <4> HIDE DEF row
      <4>3. QED
        BY <4>1, <4>2, NewRowBills
    <3>6. QED
      BY <2>2, <3>4, <3>5
  <2>3. QED
    BY <1>1, <2>1, <2>2 DEF Sync, SyncRead, SyncAmounts
<1>2. ASSUME NEW p \in Procs, Update(p) PROVE SameBills
  <2> DEFINE j == job[p]
  <2>1. CASE UNCHANGED record
    BY <2>1, UntouchedBills
  <2>2. CASE UpdateWrite(p)
    <3> DEFINE row == Updated(record[j.rec], j.month, j.kwh, j.manual)
    <3>1. j \in Job /\ JobKnowsMonth(p) /\ j.pc = "update_write"
      BY <1>a, <2>2 DEF TypeOK, ClaimInv, LinkInv, MonthInv, UpdateWrite
    <3>2. /\ j.rec \in Records /\ j.month \in Months /\ j.manual \in Kwh /\ j.kwh \in Kwh
          /\ record[j.rec].month = j.month
      BY <3>1, JobFields, InvoiceTableAssumption DEF Kwh, JobKnowsMonth
    <3>3. record' = [record EXCEPT ![j.rec] = row] /\ record[j.rec] \in RecordRow
      BY <1>a, <2>2, <3>2 DEF UpdateWrite, TypeOK
    <3>4. row.month = record[j.rec].month /\ row.inv = record[j.rec].inv
      BY <3>2, <3>3, UpdatedRow
    <3> HIDE DEF row
    <3>5. QED
      BY <1>a, <3>2, <3>3, <3>4, BillsAfterRow
  <2>3. QED
    BY <1>2, <2>1, <2>2 DEF Update, UpdateRead, UpdateCheck
<1>3. ASSUME NEW p \in Procs, Remove(p) PROVE SameBills
  <2> DEFINE j == job[p]
  <2>1. CASE UNCHANGED record
    BY <2>1, UntouchedBills
  <2>2. CASE RemoveWrite(p)
    <3> DEFINE row == Removed(record[j.rec])
    <3>1. j \in Job /\ j.pc = "remove_write"
      BY <1>a, <2>2 DEF TypeOK, RemoveWrite
    <3>2. j.rec \in Records
      BY <3>1, JobFields
    <3>3. record' = [record EXCEPT ![j.rec] = row] /\ record[j.rec] \in RecordRow
      BY <1>a, <2>2, <3>2 DEF RemoveWrite, TypeOK
    <3>4. row.month = record[j.rec].month /\ row.inv = record[j.rec].inv
      BY <3>3, RemovedRow
    <3> HIDE DEF row
    <3>5. QED
      BY <1>a, <3>2, <3>3, <3>4, BillsAfterRow
  <2>3. QED
    BY <1>3, <2>1, <2>2 DEF Remove, RemoveRead
<1>4. ASSUME NEW p \in Procs, PeriodError(p) PROVE SameBills
  <2> DEFINE j == job[p]
  <2>1. CASE UNCHANGED record
    BY <2>1, UntouchedBills
  <2>2. CASE MarkPeriodError(p)
    <3> DEFINE row == Assessed(record[j.rec], "ERROR", "PENDING_REVIEW", record[j.rec].finalized)
    <3>1. j \in Job /\ j.pc = "error_write"
      BY <1>a, <2>2 DEF TypeOK, MarkPeriodError
    <3>2. j.rec \in Records
      BY <3>1, JobFields
    <3>3. record' = [record EXCEPT ![j.rec] = row] /\ record[j.rec] \in RecordRow
      BY <1>a, <2>2, <3>2 DEF MarkPeriodError, TypeOK
    <3>4. row.month = record[j.rec].month /\ row.inv = record[j.rec].inv
      BY <3>3, ErrorRow
    <3> HIDE DEF row
    <3>5. QED
      BY <1>a, <3>2, <3>3, <3>4, BillsAfterRow
  <2>3. QED
    BY <1>4, <2>1, <2>2 DEF PeriodError, PeriodFails
<1>5. ASSUME NEW p \in Procs, Refresh(p) PROVE SameBills
  <2> DEFINE j == job[p]
  <2>a. j \in Job
    BY <1>a DEF TypeOK
  <2>1. CASE UNCHANGED record
    BY <2>1, UntouchedBills
  <2>2. CASE RefreshWrite(p)
    <3> DEFINE row == Assessed(record[j.rec], j.row.quality, j.row.workflow, j.row.finalized)
    <3>1. j.pc = "refresh_write"
      BY <2>2 DEF RefreshWrite
    <3>2. /\ j.rec \in Records /\ j.row.quality \in Quality /\ j.row.workflow \in Workflow
          /\ j.row.finalized \in {"no", "yes"}
      BY <2>a, <3>1, JobFields DEF RecordRow
    <3>3. record' = [record EXCEPT ![j.rec] = row] /\ record[j.rec] \in RecordRow
      BY <1>a, <2>2, <3>2 DEF RefreshWrite, TypeOK
    <3>4. row.month = record[j.rec].month /\ row.inv = record[j.rec].inv
      BY <3>2, <3>3, AssessedRow
    <3> HIDE DEF row
    <3>5. QED
      BY <1>a, <3>2, <3>3, <3>4, BillsAfterRow
  <2>3. ASSUME NEW k \in Records, PeriodCreate(p, k) PROVE SameBills
    <3> DEFINE row == Created(j.month, j.kwh, 0)
    <3>1. j.month \in Months /\ j.kwh \in Kwh /\ 0 \in Kwh
      BY <2>a, <2>3, JobFields, InvoiceTableAssumption DEF PeriodCreate, Kwh
    <3>2. record' = [record EXCEPT ![k] = row] /\ record[k].state = "absent"
      BY <2>3 DEF PeriodCreate
    <3>3. row.inv = NoInvoice
      BY <3>1, CreatedRow
    <3> HIDE DEF row
    <3>4. QED
      BY <3>2, <3>3, NewRowBills
  <2>4. ASSUME NEW broken \in BOOLEAN, RefreshAssess(p, broken) PROVE UNCHANGED record
    BY <2>4, Zenon DEF RefreshAssess
  <2>5. QED
    BY <1>5, <2>1, <2>2, <2>3, <2>4
    DEF Refresh, RefreshLoad, RefreshHistory, RefreshPeriod, SyncLinkedInvoice
<1>6. ASSUME NEW p \in Procs, Generate(p), ~LinkDraft(p) PROVE SameBills
  <2> DEFINE j == job[p]
  <2>1. CASE UNCHANGED record
    BY <2>1, UntouchedBills
  <2>2. CASE RecordInvoiced(p)
    <3> DEFINE row == Invoiced(record[j.rec], j.workflow)
    <3>1. j \in Job /\ j.pc = "gen_record"
      BY <1>a, <2>2 DEF TypeOK, RecordInvoiced
    <3>2. j.rec \in Records /\ j.workflow \in Workflow
      BY <3>1, JobFields DEF Workflow, InvoiceStatus
    <3>3. record' = [record EXCEPT ![j.rec] = row] /\ record[j.rec] \in RecordRow
      BY <1>a, <2>2, <3>2 DEF RecordInvoiced, TypeOK
    <3>4. row.month = record[j.rec].month /\ row.inv = record[j.rec].inv
      BY <3>2, <3>3, InvoicedRow
    <3> HIDE DEF row
    <3>5. QED
      BY <1>a, <3>2, <3>3, <3>4, BillsAfterRow
  <2>3. QED
    BY <1>6, <2>1, <2>2 DEF Generate, GenerateInvoice, GenerateCheck, WriteDraft, IssueInvoice
<1>7. ASSUME NEW p \in Procs, Abort(p) \/ Refused(p) PROVE SameBills
  BY <1>7, UntouchedBills DEF Abort, Refused
<1>8. CASE Surroundings
  BY <1>8, UntouchedBills DEF Surroundings, NextMonth, EnergyArrives, PaymentLands, RefreshOverdue
<1>9. QED
  BY <1>1, <1>2, <1>3, <1>4, <1>5, <1>6, <1>7, <1>8 DEF Next, Jobs

(* The link of a record that has one is the bill of its month, the only one. *)
LEMMA TheBill ==
  ASSUME ClaimInv, NEW k \in Records, record[k].inv # NoInvoice
  PROVE  BillsOf(record[k].month) = {record[k].inv}
<1>1. record[k].inv \in Invoices
  BY DEF ClaimInv, LinkInv, MonthInv, TypeOK, RecordRow
<1>2. ASSUME NEW i \in BillsOf(record[k].month) PROVE i = record[k].inv
  <2>1. PICK l \in Records : record[l].inv = i /\ record[l].month = record[k].month
    BY <1>2 DEF BillsOf
  <2>2. i # NoInvoice
    BY <1>2, MonthlyBillingAssumption DEF BillsOf
  <2>3. record[k].state # "absent" /\ record[l].state # "absent"
    BY <2>1, <2>2 DEF ClaimInv, LinkInv, MonthInv, BilledRowsArePast
  <2>4. k = l
    BY <2>1, <2>3 DEF ClaimInv, LinkInv, OneRecordPerMonth
  <2>5. QED
    BY <2>1, <2>4
<1>3. record[k].inv \in BillsOf(record[k].month)
  BY <1>1 DEF BillsOf
<1>4. QED
  BY <1>2, <1>3

LEMMA TheAccount ==
  ASSUME ClaimInv, NEW k \in Records, record[k].inv # NoInvoice, record[k].month \in Months
  PROVE  Account[record[k].month] = AccountOf(invoice[record[k].inv])
<1>1. BillsOf(record[k].month) = {record[k].inv}
  BY TheBill
<1>2. (CHOOSE i \in BillsOf(record[k].month) : TRUE) = record[k].inv
  BY <1>1
<1>3. QED
  BY <1>1, <1>2 DEF Account

(* No bill changes its account. *)
LEMMA AccountSame ==
  ASSUME TypeOK, SameBills,
         \A i \in Invoices : (\E k \in Records : record[k].inv = i) =>
           AccountOf(invoice[i])' = AccountOf(invoice[i])
  PROVE  Account' = Account
<1>1. ASSUME NEW m \in Months PROVE BillsOf(m)' = BillsOf(m)
  BY MonthlyBillingAssumption DEF BillsOf, SameBills
<1>2. ASSUME NEW m \in Months PROVE Account'[m] = Account[m]
  <2>1. CASE BillsOf(m) = {}
    BY <1>1, <2>1 DEF Account
  <2>2. CASE BillsOf(m) # {}
    <3> DEFINE i == CHOOSE l \in BillsOf(m) : TRUE
    <3>1. i \in BillsOf(m)
      BY <2>2
    <3>2. i \in Invoices /\ \E k \in Records : record[k].inv = i
      BY <3>1 DEF BillsOf
    <3>3. Account'[m] = AccountOf(invoice'[i]) /\ Account[m] = AccountOf(invoice[i])
      BY <1>1, <2>2 DEF Account
    <3> HIDE DEF i
    <3>4. QED
      BY <3>2, <3>3
  <2>3. QED
    BY <2>1, <2>2
<1>3. Account = [m \in Months |-> Account[m]] /\ Account' = [m \in Months |-> Account'[m]]
  BY DEF Account
<1>4. QED
  BY <1>2, <1>3

(* The bill of one month is written. *)
LEMMA AccountWritten ==
  ASSUME ClaimInv, NEW k \in Records, NEW bill, record[k].inv # NoInvoice,
         UNCHANGED record, invoice' = [invoice EXCEPT ![record[k].inv] = bill]
  PROVE  Account' = [Account EXCEPT ![record[k].month] = AccountOf(bill)]
<1> DEFINE i == record[k].inv
           h == record[k].month
<1>a. TypeOK
  BY DEF ClaimInv, LinkInv, MonthInv
<1>b. i \in Invoices
  BY <1>a DEF TypeOK, RecordRow
<1>c. invoice'[i] = bill /\ \A l \in Invoices : l # i => invoice'[l] = invoice[l]
  BY <1>a, <1>b DEF TypeOK
<1>1. \A m : BillsOf(m)' = BillsOf(m)
  BY DEF BillsOf
<1>2. ASSUME NEW m \in Months, m # h PROVE Account'[m] = Account[m]
  <2>1. CASE BillsOf(m) = {}
    BY <1>1, <2>1 DEF Account
  <2>2. CASE BillsOf(m) # {}
    <3> DEFINE b == CHOOSE l \in BillsOf(m) : TRUE
    <3>1. b \in BillsOf(m)
      BY <2>2
    <3>2. PICK l \in Records : record[l].inv = b /\ record[l].month = m
      BY <3>1 DEF BillsOf
    <3>3. b # i /\ b \in Invoices
      BY <1>2, <3>1, <3>2 DEF ClaimInv, ClaimTables, LinksAreUnique, BillsOf
    <3>4. Account'[m] = AccountOf(invoice'[b]) /\ Account[m] = AccountOf(invoice[b])
      BY <1>1, <2>2 DEF Account
    <3> HIDE DEF b
    <3>5. QED
      BY <1>c, <3>3, <3>4
  <2>3. QED
    BY <2>1, <2>2
<1>3. h \in Months => Account'[h] = AccountOf(bill)
  <2>1. BillsOf(h)' = {i}
    BY <1>1, TheBill
  <2>2. (CHOOSE l \in BillsOf(h)' : TRUE) = i
    BY <2>1
  <2>3. QED
    BY <1>c, <2>1, <2>2 DEF Account
<1>4. /\ Account = [m \in Months |-> Account[m]] /\ Account' = [m \in Months |-> Account'[m]]
      /\ DOMAIN Account = Months /\ DOMAIN Account' = Months
  BY DEF Account
<1>5. QED
  BY <1>2, <1>3, <1>4

(* What the statements write of a bill, as far as its account is concerned. *)
LEMMA AccountFields ==
  ASSUME NEW bill \in InvoiceRow
  PROVE  /\ bill.status \notin FinalizedStatus =>
              AccountOf(bill) = [standing |-> "none", owed |-> 0, received |-> bill.paid]
         /\ bill.status \in {"ISSUED", "OVERDUE"} =>
              AccountOf(bill) = [standing |-> "open", owed |-> bill.total, received |-> bill.paid]
         /\ bill.status = "PARTIAL" =>
              AccountOf(bill) = [standing |-> "part", owed |-> bill.total, received |-> bill.paid]
         /\ bill.status = "PAID" =>
              AccountOf(bill) = [standing |-> "settled", owed |-> bill.total, received |-> bill.paid]
         /\ bill.paid \in Nat /\ bill.total \in Kwh
  BY InvoiceTableAssumption DEF AccountOf, Standing, FinalizedStatus, InvoiceRow, Kwh

LEMMA AccountOfNoRow == AccountOf(NoRow) = Book!NoAccount
  BY DEF AccountOf, NoRow, Standing, FinalizedStatus, Book!NoAccount

BookStep == [Book!BookNext]_(Book!bookVars)

LEMMA BookStutters == ASSUME Account' = Account, now' = now PROVE BookStep
  BY DEF BookStep, Book!bookVars

(* The bill of a record is written; month and account of the record.        *)
LEMMA BillOfRecord ==
  ASSUME ClaimInv, NEW k \in Records, NEW bill, record[k].inv # NoInvoice,
         UNCHANGED <<record, now>>, invoice' = [invoice EXCEPT ![record[k].inv] = bill],
         record[k].month \in Months =>
           \/ AccountOf(bill) = AccountOf(invoice[record[k].inv])
           \/ Account' = [Account EXCEPT ![record[k].month] = AccountOf(bill)] => Book!BookNext
  PROVE  BookStep
<1>1. Account' = [Account EXCEPT ![record[k].month] = AccountOf(bill)]
  BY AccountWritten
<1>2. DOMAIN Account = Months /\ Account = [m \in Months |-> Account[m]]
  BY DEF Account
<1>3. CASE record[k].month \notin Months
  BY <1>1, <1>2, <1>3, BookStutters
<1>4. CASE record[k].month \in Months /\ AccountOf(bill) = AccountOf(invoice[record[k].inv])
  <2>1. Account[record[k].month] = AccountOf(bill)
    BY <1>4, TheAccount
  <2>2. Account' = Account
    BY <1>1, <1>2, <2>1
  <2>3. QED
    BY <2>2, BookStutters
<1>5. QED
  BY <1>1, <1>3, <1>4 DEF BookStep

(* syncLinkedInvoice corrects a month that is asked for, or withdraws it,   *)
(* and leaves any other account as it is.                                   *)
LEMMA SyncLinkedBook ==
  ASSUME BookInv, NEW p \in Procs, SyncLinkedInvoice(p)
  PROVE  BookStep
<1> DEFINE j == job[p]
           k == j.rec
           i == j.row.inv
           status == IF j.row.workflow \in {"PENDING_REVIEW", "DRAFT"} THEN j.row.workflow ELSE j.status
           bill == Recalculated(invoice[i], j.row.month, j.row.kwh, status)
<1>a. ClaimInv /\ TypeOK /\ j \in Job /\ JobBacksClaims(p) /\ PayingIsSeen
  BY DEF BookInv, ClaimInv, LinkInv, MonthInv, TypeOK
<1>1. /\ UNCHANGED <<record, now>>
      /\ invoice' = invoice \/ invoice' = [invoice EXCEPT ![i] = bill]
      /\ j.pc = "link" /\ Mutable(j.status)
  BY DEF SyncLinkedInvoice
<1>2. /\ k \in Records /\ j.row \in RecordRow /\ j.status \in LinkedStatus
      /\ j.row = record[k] /\ i \in Invoices /\ i # NoInvoice /\ j.status # "ABSENT"
      /\ Out(i) <=> j.status \in FinalizedStatus
  BY <1>1, <1>a, JobFields, MonthlyBillingAssumption DEF JobBacksClaims, RecordRow
<1>3. /\ status \in LinkedStatus /\ status # "ABSENT" /\ status \notin Paying
      /\ status \in FinalizedStatus => j.status \in FinalizedStatus
  BY <1>1, <1>2 DEF Mutable, MutableStatus, Paying, LinkedStatus, InvoiceStatus, FinalizedStatus
<1>4. invoice[i] \in InvoiceRow /\ invoice[i].status \notin Paying
  <2>1. j.status \notin Paying
    BY <1>1, <1>2 DEF Mutable, MutableStatus, Paying
  <2>2. StatusOf(i) \notin Paying
    BY <1>1, <1>a, <2>1 DEF PayingIsSeen
  <2>3. QED
    BY <1>a, <1>2, <2>2 DEF StatusOf, TypeOK
<1>5. invoice[i].status \in FinalizedStatus <=> j.status \in FinalizedStatus
  BY <1>2 DEF Out, StatusOf
<1>6. /\ bill \in InvoiceRow /\ bill.status = status /\ bill.total = j.row.kwh
      /\ bill.paid = invoice[i].paid
  <2>1. j.row.month \in 0..MaxMonth /\ j.row.kwh \in Kwh
    BY <1>2 DEF RecordRow
  <2> HIDE DEF j, i, status
  <2>2. bill \in InvoiceRow /\ bill.status = status
    BY <1>3, <1>4, <2>1, RecalculatedRow
  <2>3. bill.total = j.row.kwh /\ bill.paid = invoice[i].paid
    BY <1>4 DEF Recalculated, InvoiceRow
  <2>4. QED
    BY <2>2, <2>3
<1> DEFINE m == record[k].month
<1> HIDE DEF bill, status
<1>7. CASE invoice' = invoice
  <2>1. Account' = Account
    BY <1>a, <1>1, <1>7, UntouchedBills, AccountSame
  <2>2. QED
    BY <1>1, <2>1, BookStutters
<1>8. CASE invoice' = [invoice EXCEPT ![i] = bill]
  <2>1. ASSUME m \in Months
        PROVE  \/ AccountOf(bill) = AccountOf(invoice[i])
               \/ Account' = [Account EXCEPT ![m] = AccountOf(bill)] => Book!BookNext
    <3>1. Account[m] = AccountOf(invoice[i])
      BY <1>a, <1>2, <2>1, TheAccount
    <3>2. CASE invoice[i].status \notin FinalizedStatus
      <4>1. bill.status \notin FinalizedStatus
        BY <1>3, <1>5, <1>6, <3>2
      <4>2. QED
        BY <1>4, <1>6, <3>2, <4>1, AccountFields
    <3>3. CASE invoice[i].status \in FinalizedStatus
      <4>1. invoice[i].status \in {"ISSUED", "OVERDUE"}
        BY <1>4, <3>3 DEF FinalizedStatus, Paying
      <4>2. Account[m] = [standing |-> "open", owed |-> invoice[i].total, received |-> invoice[i].paid]
        BY <1>4, <3>1, <4>1, AccountFields
      <4>4. CASE status \in FinalizedStatus
        <5>1. AccountOf(bill) = [standing |-> "open", owed |-> bill.total, received |-> invoice[i].paid]
          BY <1>3, <1>6, <4>4, AccountFields DEF FinalizedStatus, Paying
        <5>2. bill.total \in Kwh
          BY <1>6, AccountFields
        <5>3. ASSUME Account' = [Account EXCEPT ![m] = AccountOf(bill)]
              PROVE  Book!Correct(m, bill.total)
          BY <1>1, <4>2, <5>1, <5>3 DEF Book!Correct, Book!Tell
        <5>4. QED
          BY <2>1, <5>2, <5>3 DEF Book!BookNext
      <4>5. CASE status \notin FinalizedStatus
        <5>1. AccountOf(bill) = [standing |-> "none", owed |-> 0, received |-> invoice[i].paid]
          BY <1>6, <4>5, AccountFields
        <5>2. ASSUME Account' = [Account EXCEPT ![m] = AccountOf(bill)]
              PROVE  Book!Withdraw(m)
          BY <1>1, <4>2, <5>1, <5>2 DEF Book!Withdraw, Book!Tell
        <5>3. QED
          BY <2>1, <5>2 DEF Book!BookNext
      <4>6. QED
        BY <4>4, <4>5
    <3>4. QED
      BY <3>2, <3>3
  <2>2. i = record[k].inv
    BY <1>2
  <2> HIDE DEF i, k, j
  <2>3. QED
    BY <1>a, <1>1, <1>2, <1>8, <2>1, <2>2, BillOfRecord
<1>9. QED
  BY <1>1, <1>7, <1>8

(* The first statement of createOrUpdateInvoiceDraft writes an invoice that *)
(* no record links to, or one the customer has not been asked to pay: no    *)
(* account changes.                                                         *)
LEMMA WriteDraftBook ==
  ASSUME BookInv, NEW p \in Procs, NEW i \in Invoices, WriteDraft(p, i)
  PROVE  BookStep
<1> DEFINE j == job[p]
           bill == DraftOf(j.row, invoice[i].paid)
<1>a. ClaimInv /\ TypeOK /\ j \in Job /\ JobBacksClaims(p) /\ JobHoldsLink(p)
  BY DEF BookInv, ClaimInv, LinkInv, MonthInv, TypeOK
<1>1. /\ j.pc = "gen_draft" /\ UNCHANGED <<record, now>>
      /\ invoice' = [invoice EXCEPT ![i] = bill]
      /\ IF j.row.inv = NoInvoice THEN invoice[i].status = "ABSENT" ELSE i = j.row.inv
  BY <1>a DEF WriteDraft, TypeOK
<1>2. /\ j.rec \in Records /\ j.row \in RecordRow /\ record[j.rec].inv = j.row.inv
      /\ ~Out(record[j.rec].inv) /\ invoice[i] \in InvoiceRow
  BY <1>a, <1>1, JobFields DEF JobBacksClaims, JobHoldsLink, TypeOK
<1>3. /\ bill \in InvoiceRow /\ bill.status = "DRAFT" /\ bill.paid = invoice[i].paid
  <2>1. invoice[i].paid \in 0..MaxTotal
    BY <1>2 DEF InvoiceRow
  <2> HIDE DEF j
  <2>2. QED
    BY <1>2, <2>1, DraftRow DEF DraftOf
<1> HIDE DEF bill
<1>4. ASSUME NEW k \in Records, record[k].inv = i
      PROVE  AccountOf(bill) = AccountOf(invoice[i])
  <2>1. invoice[i].status # "ABSENT"
    BY <1>a, <1>4, MonthlyBillingAssumption DEF ClaimInv, ClaimTables, LinksAreRows
  <2>2. i = record[j.rec].inv
    BY <1>1, <1>2, <2>1
  <2>3. invoice[i].status \notin FinalizedStatus
    BY <1>2, <2>2, MonthlyBillingAssumption DEF Out, StatusOf
  <2>4. bill.status \notin FinalizedStatus
    BY <1>3 DEF FinalizedStatus
  <2>5. QED
    BY <1>2, <1>3, <2>3, <2>4, AccountFields
<1>5. \A l \in Invoices : invoice'[l] = IF l = i THEN bill ELSE invoice[l]
  BY <1>a, <1>1 DEF TypeOK
<1>6. Account' = Account
  BY <1>a, <1>1, <1>4, <1>5, UntouchedBills, AccountSame
<1>7. QED
  BY <1>1, <1>6, BookStutters

(* The second statement links a draft nobody has paid to a record that had  *)
(* no invoice: its month still asks for nothing and has received nothing.   *)
LEMMA LinkDraftBook ==
  ASSUME BookInv, NEW p \in Procs, LinkDraft(p)
  PROVE  BookStep
<1>k. PICK k : k = job[p].rec
  OBVIOUS
<1>i. PICK i : i = job[p].inv
  OBVIOUS
<1>h. PICK h : h = record[k].month
  OBVIOUS
<1> DEFINE row == Linked(record[k], i)
<1>a. /\ ClaimInv /\ TypeOK /\ UnlinkedUnpaid /\ job[p] \in Job
      /\ JobBacksClaims(p) /\ JobHoldsLink(p) /\ JobKnowsMonth(p)
  BY DEF BookInv, ClaimInv, LinkInv, MonthInv, TypeOK
<1>1. job[p].pc = "gen_link" /\ UNCHANGED <<invoice, now>>
  BY DEF LinkDraft
<1>2. /\ k \in Records /\ i \in Invoices /\ i # NoInvoice /\ record[k] \in RecordRow
      /\ record[k].inv \in {NoInvoice, i}
      /\ invoice[i].status # "ABSENT" /\ ~AskedFor(i) /\ NobodyElseLinks(k, i)
      /\ record[k].state # "absent"
  BY <1>a, <1>k, <1>i, <1>1, JobFields, MonthlyBillingAssumption
  DEF TypeOK, JobHoldsLink, JobBacksClaims, JobKnowsMonth
<1>3. record' = [record EXCEPT ![k] = row] /\ row.month = h /\ row.inv = i
  BY <1>a, <1>k, <1>i, <1>h, <1>2, LinkedRow DEF LinkDraft, TypeOK
<1> HIDE DEF row
<1>4. CASE record[k].inv = i
  <2>1. SameBills
    BY <1>a, <1>h, <1>2, <1>3, <1>4, BillsAfterRow
  <2>2. Account' = Account
    BY <1>a, <1>1, <2>1, AccountSame
  <2>3. QED
    BY <1>1, <2>2, BookStutters
<1>5. CASE record[k].inv = NoInvoice
  <2>1. \A l \in Records : record'[l] = IF l = k THEN row ELSE record[l]
    BY <1>a, <1>2, <1>3 DEF TypeOK
  <2>2. ASSUME NEW l \in Records, record[l].inv # NoInvoice
        PROVE  record[l].month # h
    <3>1. record[l].state # "absent" /\ l # k
      BY <1>a, <1>5, <2>2 DEF ClaimInv, LinkInv, MonthInv, BilledRowsArePast
    <3>2. QED
      BY <1>a, <1>h, <1>2, <3>1 DEF ClaimInv, LinkInv, OneRecordPerMonth
  <2>3. BillsOf(h) = {}
    BY <2>2, MonthlyBillingAssumption DEF BillsOf
  <2>4. BillsOf(h)' = {i}
    <3>1. \A l \in Records : record'[l].month = h /\ record'[l].inv \in Invoices => l = k
      BY <2>1, <2>2, MonthlyBillingAssumption
    <3>2. record'[k].inv = i /\ record'[k].month = h
      BY <1>2, <1>3, <2>1
    <3>3. QED
      BY <1>2, <3>1, <3>2 DEF BillsOf
  <2>5. AccountOf(invoice[i]) = AccountOf(NoRow)
    <3>1. invoice[i] \in InvoiceRow /\ invoice[i].status \notin FinalizedStatus
      BY <1>a, <1>2 DEF TypeOK, AskedFor
    <3>2. ~(\E l \in Records : record[l].inv = i)
      BY <1>2, <1>5 DEF NobodyElseLinks
    <3>3. ~(invoice[i].paid > 0)
      BY <1>a, <1>2, <3>2 DEF UnlinkedUnpaid
    <3>4. invoice[i].paid \in Nat
      BY <3>1, AccountFields
    <3>5. invoice[i].paid = 0
      BY <3>3, <3>4
    <3>6. QED
      BY <3>1, <3>5, AccountFields, AccountOfNoRow DEF Book!NoAccount
  <2>6. ASSUME NEW m \in Months, m # h PROVE BillsOf(m)' = BillsOf(m)
    <3>1. \A l \in Records, b \in Invoices :
            record'[l].inv = b /\ record'[l].month = m <=> record[l].inv = b /\ record[l].month = m
      BY <1>h, <1>3, <2>1, <2>6
    <3>2. QED
      BY <3>1 DEF BillsOf
  <2>7. ASSUME NEW m \in Months PROVE Account'[m] = Account[m]
    <3>1. CASE m = h
      <4>1. (CHOOSE l \in BillsOf(m)' : TRUE) = i
        BY <2>4, <3>1
      <4>2. Account'[m] = AccountOf(invoice[i])
        BY <1>1, <2>4, <3>1, <4>1 DEF Account
      <4>3. Account[m] = AccountOf(NoRow)
        BY <2>3, <3>1 DEF Account
      <4>4. QED
        BY <2>5, <4>2, <4>3
    <3>2. CASE m # h
      <4>1. BillsOf(m)' = BillsOf(m)
        BY <2>6, <3>2
      <4>2. CASE BillsOf(m) = {}
        BY <4>1, <4>2 DEF Account
      <4>3. CASE BillsOf(m) # {}
        BY <1>1, <4>1, <4>3 DEF Account
      <4>4. QED
        BY <4>2, <4>3
    <3>3. QED
      BY <3>1, <3>2
  <2>8. Account = [m \in Months |-> Account[m]] /\ Account' = [m \in Months |-> Account'[m]]
    BY DEF Account
  <2>9. QED
    BY <1>1, <2>7, <2>8, BookStutters
<1>6. QED
  BY <1>2, <1>4, <1>5

(* transitionInvoiceToTargetStatus asks for the month, which is over, or    *)
(* leaves it to a reviewer.                                                 *)
LEMMA IssueBook ==
  ASSUME BookInv, NEW p \in Procs, IssueInvoice(p)
  PROVE  BookStep
<1> DEFINE k == job[p].rec
           i == job[p].inv
           m == record[k].month
           target == TargetStatus(job[p])
           bill == Transitioned(invoice[i], target)
<1>a. /\ ClaimInv /\ TypeOK /\ job[p] \in Job /\ JobBacksClaims(p) /\ JobHoldsLink(p)
  BY DEF BookInv, ClaimInv, LinkInv, MonthInv, TypeOK
<1>1. job[p].pc = "gen_issue" /\ UNCHANGED <<record, now>>
  BY DEF IssueInvoice
<1>2. /\ k \in Records /\ i \in Invoices /\ record[k].inv = i /\ i # NoInvoice
      /\ invoice[i] \in InvoiceRow /\ ~AskedFor(i)
  BY <1>a, <1>1, JobFields, MonthlyBillingAssumption DEF JobHoldsLink, JobBacksClaims, TypeOK
<1>3. invoice' = [invoice EXCEPT ![i] = bill]
  BY <1>a, <1>2 DEF IssueInvoice, TypeOK
<1>4. target \in {"ISSUED", "PENDING_REVIEW"}
  BY DEF TargetStatus
<1>5. /\ bill \in InvoiceRow /\ bill.status = target
      /\ bill.total = invoice[i].total /\ bill.paid = invoice[i].paid
  <2>1. target \in LinkedStatus
    BY <1>4 DEF LinkedStatus, InvoiceStatus
  <2> HIDE DEF target, i
  <2>2. QED
    BY <1>2, <2>1, TransitionedRow DEF Transitioned, InvoiceRow
<1>6. m < now
  BY <1>a, <1>2 DEF ClaimInv, LinkInv, MonthInv, BilledRowsArePast
<1> HIDE DEF bill, target
<1>7. ASSUME m \in Months
      PROVE  \/ AccountOf(bill) = AccountOf(invoice[i])
             \/ Account' = [Account EXCEPT ![m] = AccountOf(bill)] => Book!BookNext
  <2>1. AccountOf(invoice[i]) = [standing |-> "none", owed |-> 0, received |-> invoice[i].paid]
    BY <1>2, AccountFields DEF AskedFor
  <2>2. Account[m] = AccountOf(invoice[i])
    BY <1>a, <1>2, <1>7, TheAccount
  <2>3. CASE target = "PENDING_REVIEW"
    BY <1>5, <2>1, <2>3, AccountFields DEF FinalizedStatus
  <2>4. CASE target = "ISSUED"
    <3>1. AccountOf(bill) = [standing |-> "open", owed |-> bill.total, received |-> invoice[i].paid]
      BY <1>5, <2>4, AccountFields
    <3>2. bill.total \in Kwh
      BY <1>5, AccountFields
    <3>3. ASSUME Account' = [Account EXCEPT ![m] = AccountOf(bill)]
          PROVE  Book!Ask(m, bill.total)
      BY <1>1, <1>6, <2>1, <2>2, <3>1, <3>3 DEF Book!Ask, Book!Tell
    <3>4. QED
      BY <1>7, <3>2, <3>3 DEF Book!BookNext
  <2>5. QED
    BY <1>4, <2>3, <2>4
<1> HIDE DEF i, k
<1>8. QED
  BY <1>a, <1>1, <1>2, <1>3, <1>7, BillOfRecord

(* An accepted receipt is received for the month of the invoice it pays.    *)
LEMMA PaymentBook ==
  ASSUME ~StaleReceipts, BookInv, NEW i \in Invoices, NEW amount \in Kwh, PaymentLands(i, amount)
  PROVE  BookStep
<1> DEFINE paid == NextPaid(i, amount)
           status == IF paid >= invoice[i].total THEN "PAID" ELSE "PARTIAL"
           bill == Credited(invoice[i], paid, status)
<1>a. ClaimInv /\ TypeOK /\ IssuedInvoiceIsLinked
  BY DEF BookInv, ClaimInv, LinkInv, MonthInv
<1>1. /\ UNCHANGED <<record, now>> /\ amount > 0 /\ paid <= invoice[i].total
      /\ AskedFor(i) /\ invoice[i].status # "PAID"
      /\ invoice' = [invoice EXCEPT ![i] = bill]
      /\ paid = invoice[i].paid + amount
  <2>1. invoice[i].paid + amount <= invoice[i].total /\ AskedFor(i) /\ invoice[i].status # "PAID"
    BY DEF PaymentLands, Submissible
  <2>2. paid = invoice[i].paid + amount
    BY <2>1 DEF NextPaid
  <2>3. /\ UNCHANGED <<record, now>> /\ amount > 0
        /\ invoice' = [invoice EXCEPT ![i] = bill]
    BY <1>a DEF PaymentLands, TypeOK
  <2> HIDE DEF bill, status
  <2>4. QED
    BY <2>1, <2>2, <2>3
<1>2. PICK k \in Records : record[k].inv = i
  BY <1>a, <1>1 DEF IssuedInvoiceIsLinked
<1>3. i # NoInvoice /\ invoice[i] \in InvoiceRow
  BY <1>a, MonthlyBillingAssumption DEF TypeOK
<1>4. paid \in 0..MaxTotal /\ status \in {"PAID", "PARTIAL"}
  BY <1>1, <1>3, InvoiceTableAssumption DEF InvoiceRow, Kwh
<1>5. /\ bill \in InvoiceRow /\ bill.status = status
      /\ bill.paid = paid /\ bill.total = invoice[i].total
  <2>1. status \in InvoiceStatus
    BY <1>4 DEF InvoiceStatus
  <2> HIDE DEF paid, status
  <2>2. bill \in InvoiceRow /\ bill.status = status
    BY <1>3, <1>4, <2>1, CreditedRow
  <2>3. bill.paid = paid /\ bill.total = invoice[i].total
    BY <1>3 DEF Credited, InvoiceRow
  <2>4. QED
    BY <2>2, <2>3
<1> DEFINE m == record[k].month
<1>6. ASSUME m \in Months, Account' = [Account EXCEPT ![m] = AccountOf(bill)]
      PROVE  Book!Receive(m, amount)
  <2>1. Account[m] = AccountOf(invoice[i])
    BY <1>a, <1>2, <1>3, <1>6, TheAccount
  <2>2. invoice[i].status \in {"ISSUED", "OVERDUE", "PARTIAL"}
    BY <1>1 DEF AskedFor, FinalizedStatus
  <2>3. /\ Account[m].standing \in {"open", "part"} /\ Account[m].owed = invoice[i].total
        /\ Account[m].received = invoice[i].paid
    BY <1>3, <2>1, <2>2, AccountFields
  <2>4. AccountOf(bill) = [standing |-> IF paid = invoice[i].total THEN "settled" ELSE "part",
                           owed |-> invoice[i].total, received |-> paid]
    <3>1. status = IF paid = invoice[i].total THEN "PAID" ELSE "PARTIAL"
      <4>1. paid \in Nat /\ invoice[i].total \in Nat
        BY <1>3, <1>4, InvoiceTableAssumption DEF InvoiceRow
      <4> HIDE DEF paid
      <4>2. QED
        BY <1>1, <4>1
    <3> HIDE DEF bill, paid, status
    <3>2. QED
      BY <1>5, <3>1, AccountFields
  <2> HIDE DEF bill
  <2>5. QED
    BY <1>1, <1>6, <2>3, <2>4 DEF Book!Receive, Book!Tell
<1>7. m \in Months => (Account' = [Account EXCEPT ![m] = AccountOf(bill)] => Book!BookNext)
  BY <1>6 DEF Book!BookNext
<1> HIDE DEF bill
<1>8. QED
  BY <1>a, <1>1, <1>2, <1>3, <1>7, BillOfRecord

(* refreshOverdueStatuses: among the months whose bill becomes overdue,     *)
(* those that are paid in part lapse, the others were open and stay so.     *)
LEMMA OverdueBook ==
  ASSUME BookInv, NEW late \in SUBSET Invoices, RefreshOverdue(late)
  PROVE  BookStep
<1> DEFINE Bill(m) == CHOOSE i \in BillsOf(m) : TRUE
           lapsed == {m \in Months : BillsOf(m) # {} /\ Bill(m) \in late
                                     /\ invoice[Bill(m)].status = "PARTIAL"}
<1>a. TypeOK
  BY DEF BookInv, ClaimInv, LinkInv, MonthInv
<1>1. /\ UNCHANGED <<record, now>>
      /\ \A i \in late : invoice[i].status \in {"ISSUED", "PARTIAL"}
      /\ invoice' = SweptOverdue(invoice, late)
  BY DEF RefreshOverdue, CanBeLate
<1>2. \A m : BillsOf(m)' = BillsOf(m)
  BY <1>1 DEF BillsOf
<1>3. ASSUME NEW m \in Months, BillsOf(m) # {}
      PROVE  /\ Bill(m) \in Invoices
             /\ Account[m] = AccountOf(invoice[Bill(m)])
             /\ Account'[m] = AccountOf(invoice'[Bill(m)])
  BY <1>2, <1>3 DEF Account, BillsOf
<1>4. ASSUME NEW i \in Invoices
      PROVE  /\ invoice[i] \in InvoiceRow
             /\ i \in late => AccountOf(invoice'[i]) =
                  [standing |-> "open", owed |-> invoice[i].total, received |-> invoice[i].paid]
             /\ i \notin late => invoice'[i] = invoice[i]
  <2>1. invoice[i] \in InvoiceRow
    BY <1>a DEF TypeOK
  <2>2. invoice'[i] = IF i \in late THEN Transitioned(invoice[i], "OVERDUE") ELSE invoice[i]
    BY <1>a, <1>1 DEF SweptOverdue, Transitioned, TypeOK
  <2>3. LET bill == Transitioned(invoice[i], "OVERDUE") IN
          /\ bill \in InvoiceRow /\ bill.status = "OVERDUE"
          /\ bill.total = invoice[i].total /\ bill.paid = invoice[i].paid
    BY <2>1 DEF Transitioned, InvoiceRow, InvoiceStatus
  <2>4. QED
    BY <2>1, <2>2, <2>3, AccountFields
<1>5. ASSUME NEW m \in Months
      PROVE  /\ m \in lapsed => Account[m].standing = "part"
             /\ Account'[m] = IF m \in lapsed THEN [Account[m] EXCEPT !.standing = "open"]
                                              ELSE Account[m]
  <2>1. CASE BillsOf(m) = {}
    BY <1>2, <2>1 DEF Account
  <2>2. CASE BillsOf(m) # {}
    <3> DEFINE i == Bill(m)
    <3>1. /\ i \in Invoices /\ Account[m] = AccountOf(invoice[i])
          /\ Account'[m] = AccountOf(invoice'[i])
      BY <1>3, <2>2
    <3>2. m \in lapsed <=> i \in late /\ invoice[i].status = "PARTIAL"
      BY <2>2
    <3> HIDE DEF lapsed, i, Bill
    <3>3. CASE i \notin late
      BY <1>4, <3>1, <3>2, <3>3
    <3>4. CASE i \in late /\ invoice[i].status = "ISSUED"
      <4>1. Account[m] = [standing |-> "open", owed |-> invoice[i].total, received |-> invoice[i].paid]
        BY <1>4, <3>1, <3>4, AccountFields
      <4>2. QED
        BY <1>4, <3>1, <3>2, <3>4, <4>1
    <3>5. CASE i \in late /\ invoice[i].status = "PARTIAL"
      <4>1. Account[m] = [standing |-> "part", owed |-> invoice[i].total, received |-> invoice[i].paid]
        BY <1>4, <3>1, <3>5, AccountFields
      <4>2. QED
        BY <1>4, <3>1, <3>2, <3>5, <4>1
    <3>6. QED
      BY <1>1, <3>1, <3>3, <3>4, <3>5
  <2>3. QED
    BY <2>1, <2>2
<1>6. lapsed \in SUBSET Months
  OBVIOUS
<1> HIDE DEF lapsed
<1>7. Account' = [m \in Months |-> IF m \in lapsed THEN [Account[m] EXCEPT !.standing = "open"]
                                                    ELSE Account[m]]
  <2>1. Account' = [m \in Months |-> Account'[m]]
    BY DEF Account
  <2>2. QED
    BY <1>5, <2>1
<1>8. Book!Lapse(lapsed)
  BY <1>1, <1>5, <1>6, <1>7 DEF Book!Lapse
<1>9. QED
  BY <1>6, <1>8 DEF BookStep, Book!BookNext

LEMMA BookSurroundings ==
  ASSUME ~StaleReceipts, BookInv, Surroundings
  PROVE  BookStep
<1>a. TypeOK
  BY DEF BookInv, ClaimInv, LinkInv, MonthInv
<1>1. CASE UNCHANGED <<invoice, record>>
  <2>1. Account' = Account
    BY <1>a, <1>1, UntouchedBills, AccountSame
  <2>2. CASE NextMonth
    BY <2>1, <2>2 DEF NextMonth, Book!Closing, Book!BookNext, BookStep
  <2>3. CASE UNCHANGED now
    BY <2>1, <2>3, BookStutters
  <2>4. QED
    BY <2>2, <2>3 DEF Surroundings, EnergyArrives, PaymentLands, RefreshOverdue
<1>2. QED
  BY <1>1, PaymentBook, OverdueBook DEF Surroundings, NextMonth, EnergyArrives

(* No job moves the calendar. *)
LEMMA JobsKeepMonth == Jobs => now' = now
<1> SUFFICES ASSUME NEW p \in Procs,
                    \/ Sync(p) \/ Update(p) \/ Remove(p) \/ Refresh(p) \/ Generate(p)
                    \/ PeriodError(p) \/ Abort(p) \/ Refused(p)
             PROVE  now' = now
  BY DEF Jobs
<1>1. CASE Sync(p)
  BY <1>1 DEF Sync, SyncRead, SyncAmounts, SyncUpdate, SyncInsert
<1>2. CASE Update(p)
  BY <1>2 DEF Update, UpdateRead, UpdateCheck, UpdateWrite
<1>3. CASE Remove(p) \/ PeriodError(p) \/ Abort(p) \/ Refused(p)
  BY <1>3 DEF Remove, RemoveRead, RemoveWrite, PeriodError, PeriodFails, MarkPeriodError, Abort, Refused
<1>4. CASE Refresh(p)
  <2>1. RefreshLoad(p) \/ RefreshWrite(p) \/ SyncLinkedInvoice(p) => now' = now
    BY Zenon DEF RefreshLoad, RefreshWrite, SyncLinkedInvoice
  <2>2. \A broken \in BOOLEAN : RefreshAssess(p, broken) => now' = now
    BY Zenon DEF RefreshAssess
  <2>3. QED
    BY <1>4, <2>1, <2>2 DEF Refresh, RefreshHistory, PeriodCreate, RefreshPeriod
<1>5. CASE Generate(p)
  BY <1>5 DEF Generate, GenerateInvoice, GenerateCheck, WriteDraft, LinkDraft, IssueInvoice,
     RecordInvoiced
<1>6. QED
  BY <1>1, <1>2, <1>3, <1>4, <1>5

LEMMA BookRefinement ==
  ASSUME ~StaleReceipts, BookInv, [Next]_vars
  PROVE  BookStep
<1>a. ClaimInv /\ TypeOK
  BY DEF BookInv, ClaimInv, LinkInv, MonthInv
<1>1. CASE SameBills /\ UNCHANGED <<invoice, now>>
  BY <1>a, <1>1, AccountSame, BookStutters
<1>2. CASE UNCHANGED vars
  BY <1>1, <1>2, UntouchedBills DEF vars
<1>3. ASSUME NEW p \in Procs,
             \/ SyncLinkedInvoice(p) \/ LinkDraft(p) \/ IssueInvoice(p)
             \/ \E i \in Invoices : WriteDraft(p, i)
      PROVE  BookStep
  BY <1>3, SyncLinkedBook, LinkDraftBook, IssueBook, WriteDraftBook
<1>4. CASE Surroundings
  BY <1>4, BookSurroundings
<1>5. CASE Next /\ ~Surroundings /\ invoice' # invoice
  <2>1. PICK i \in Invoices : invoice'[i] # invoice[i]
    <3>1. DOMAIN invoice' = Invoices /\ DOMAIN invoice = Invoices
      BY <1>a, <1>5, TypeStep DEF TypeOK
    <3>2. QED
      BY <1>a, <1>5, <3>1, TypeStep DEF TypeOK
  <2>2. QED
    BY <1>a, <1>3, <1>5, <2>1, BillSteps
<1>6. CASE Next /\ ~Surroundings /\ invoice' = invoice
  <2>1. UNCHANGED now
    BY <1>6, JobsKeepMonth DEF Next
  <2>2. QED
    BY <1>a, <1>1, <1>3, <1>6, <2>1, RecordSteps
<1>7. QED
  BY <1>2, <1>4, <1>5, <1>6

(* Money comes in for invoices that are out, hence linked; jobs leave it    *)
(* alone, and no link is taken back.                                        *)
LEMMA UnlinkedUnpaidStep ==
  ASSUME ~StaleReceipts, BookInv, [Next]_vars
  PROVE  UnlinkedUnpaid'
<1>a. ClaimInv /\ TypeOK /\ UnlinkedUnpaid /\ IssuedInvoiceIsLinked
  BY DEF BookInv, ClaimInv, LinkInv, MonthInv
<1>1. ASSUME NEW i \in Invoices, \E k \in Records : record[k].inv = i
      PROVE  \E k \in Records : record'[k].inv = i
  <2>1. PICK k \in Records : record[k].inv = i
    BY <1>1
  <2>2. CASE SameBills
    BY <2>1, <2>2 DEF SameBills
  <2>3. ASSUME NEW p \in Procs, LinkDraft(p)
        PROVE  record'[k].inv = i
    <3>1. /\ job[p].rec \in Records /\ job[p].inv \in Invoices
          /\ record[job[p].rec].inv \in {NoInvoice, job[p].inv}
      <4>1. job[p] \in Job /\ job[p].pc = "gen_link" /\ JobHoldsLink(p)
        BY <1>a, <2>3 DEF LinkDraft, TypeOK, ClaimInv, LinkInv
      <4>2. QED
        BY <4>1, JobFields DEF JobHoldsLink
    <3>2. record' = [record EXCEPT ![job[p].rec] = Linked(record[job[p].rec], job[p].inv)]
      BY <1>a, <2>3, <3>1 DEF LinkDraft, TypeOK
    <3>3. Linked(record[job[p].rec], job[p].inv).inv = job[p].inv
      BY <1>a, <3>1, LinkedRow DEF TypeOK
    <3>4. CASE k = job[p].rec
      BY <1>a, <2>1, <3>1, <3>2, <3>3, <3>4, MonthlyBillingAssumption DEF TypeOK
    <3>5. CASE k # job[p].rec
      BY <1>a, <2>1, <3>2, <3>5 DEF TypeOK
    <3>6. QED
      BY <3>4, <3>5
  <2>4. CASE UNCHANGED vars
    BY <2>1, <2>4 DEF vars
  <2>5. QED
    BY <1>a, <2>1, <2>2, <2>3, <2>4, RecordSteps
<1>2. ASSUME NEW i \in Invoices
      PROVE  invoice'[i].paid = invoice[i].paid \/ AskedFor(i)
  <2>a. invoice[i] \in InvoiceRow
    BY <1>a DEF TypeOK
  <2>1. ASSUME NEW p \in Procs, SyncLinkedInvoice(p)
        PROVE  invoice'[i].paid = invoice[i].paid
    <3>1. PICK m, total, status :
            \/ invoice' = invoice
            \/ invoice' = [invoice EXCEPT ![job[p].row.inv] =
                             Recalculated(invoice[job[p].row.inv], m, total, status)]
      BY <1>a, <2>1 DEF SyncLinkedInvoice, TypeOK
    <3>2. Recalculated(invoice[i], m, total, status).paid = invoice[i].paid
      BY <2>a DEF Recalculated, InvoiceRow
    <3>3. QED
      BY <1>a, <3>1, <3>2 DEF TypeOK
  <2>2. ASSUME NEW p \in Procs, WriteDraft(p, i)
        PROVE  invoice'[i].paid = invoice[i].paid
    BY <1>a, <2>2 DEF WriteDraft, DraftOf, TypeOK
  <2>3. ASSUME NEW p \in Procs, IssueInvoice(p)
        PROVE  invoice'[i].paid = invoice[i].paid
    <3>1. PICK status :
            invoice' = [invoice EXCEPT ![job[p].inv] = Transitioned(invoice[job[p].inv], status)]
      BY <1>a, <2>3 DEF IssueInvoice, TypeOK
    <3>2. Transitioned(invoice[i], status).paid = invoice[i].paid
      BY <2>a DEF Transitioned, InvoiceRow
    <3>3. QED
      BY <1>a, <3>1, <3>2 DEF TypeOK
  <2>4. CASE Surroundings
    BY <1>a, <2>4, SurroundingsKeepOut DEF OutStays
  <2>5. CASE UNCHANGED vars
    BY <2>5 DEF vars
  <2>6. QED
    BY <1>a, <2>1, <2>2, <2>3, <2>4, <2>5, BillSteps
<1>3. SUFFICES ASSUME NEW i \in Invoices, invoice'[i].paid > 0
               PROVE  \E k \in Records : record'[k].inv = i
  BY DEF UnlinkedUnpaid
<1>4. \E k \in Records : record[k].inv = i
  BY <1>a, <1>2, <1>3 DEF UnlinkedUnpaid, IssuedInvoiceIsLinked
<1>5. QED
  BY <1>1, <1>4

LEMMA BookInvStep ==
  OneJob /\ ~AllowPeriodMove /\ ~StaleReceipts /\ ~PayDuringJobs /\ BookInv /\ [Next]_vars => BookInv'
  BY ClaimInvStep, PayingIsSeenStep, UnlinkedUnpaidStep DEF BookInv, ClaimInv, LinkInv, MonthInv

LEMMA InitBookInv == ASSUME Init PROVE BookInv /\ Book!BookInit
<1>1. PayingIsSeen /\ UnlinkedUnpaid
  BY DEF Init, PayingIsSeen, UnlinkedUnpaid, Idle, NoRow
<1>2. \A m : BillsOf(m) = {}
  BY MonthlyBillingAssumption DEF Init, BillsOf, NoRecord
<1>3. Account = [m \in Months |-> Book!NoAccount]
  BY <1>2, AccountOfNoRow DEF Account
<1>4. QED
  BY <1>1, <1>3, InitClaimInv DEF BookInv, Book!BookInit, Init

(* One job at a time, no record moved, no stale receipt, payments between   *)
(* jobs: wherever jobs stop, what customers are told of a month implements  *)
(* MonthBook: it is asked for when it is over, corrected or withdrawn only  *)
(* while nobody pays it, and money that has come in stays with the month,   *)
(* also when it is withdrawn and asked for again.                           *)
THEOREM MonthsAreBilledByTheBook ==
  ASSUME OneJob, ~AllowPeriodMove, ~StaleReceipts, ~PayDuringJobs
  PROVE  Spec => BilledByTheBook
<1>1. Init => BookInv /\ Book!BookInit
  BY InitBookInv
<1>2. BookInv /\ [Next]_vars => BookInv' /\ [Book!BookNext]_(Book!bookVars)
  BY BookInvStep, BookRefinement DEF BookStep
<1>3. QED
  BY <1>1, <1>2, PTL DEF Spec, BilledByTheBook, Book!BookSpec
=============================================================================
