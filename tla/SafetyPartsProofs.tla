--------------------------- MODULE SafetyPartsProofs ---------------------------
(***************************************************************************)
(* What the run SafetyParts checks on small instances, proved for all of   *)
(* them: the repair of provider months (Repair) and the recovery of a      *)
(* password (the part without a name), proved about here; provider         *)
(* sessions (Provider), meter readings (Meter) and monthly billing         *)
(* (Billing), by the theorems of their own modules of proofs.              *)
(***************************************************************************)
EXTENDS MCSafetyParts, Integers, TLAPS

(* Only one part moves, so every part behaves as its specification says.     *)
LEMMA PartsAreTheirSpecs ==
  PartsSpec => Repair!Spec /\ Provider!Spec /\ Spec /\ Meter!Spec /\ Billing!Spec
<1>1. PartsInit => Repair!Init /\ Provider!Init /\ Init /\ Meter!Init /\ Billing!Init
  BY DEF PartsInit
<1>2. [PartsNext]_allVars =>
        /\ [Repair!Next]_Repair!vars /\ [Provider!Next]_Provider!vars
        /\ [Next]_vars /\ [Meter!Next]_Meter!vars /\ [Billing!Next]_Billing!vars
  BY DEF PartsNext, allVars, repairVars, providerVars, meterVars, billingVars,
         Repair!vars, Provider!vars, Meter!vars, Billing!vars
<1>3. QED
  BY <1>1, <1>2, PTL DEF PartsSpec, Repair!Spec, Provider!Spec, Spec, Meter!Spec, Billing!Spec

-----------------------------------------------------------------------------
(* Provider sessions, for any number of calls, requests, accounts and        *)
(* sessions, when a connection is edited between calls.                      *)

(* At SEMS+, LuxPower and Deye alike nothing is fetched with a session of    *)
(* another account than the one the call has read.                           *)
THEOREM SessionsFitAccounts ==
  ASSUME Provider!Parameters
  PROVE  PartsSpec => []SessionFitsAccount
BY PartsAreTheirSpecs, Provider!SessionsFitTheirAccounts, PTL DEF SessionFitsAccount

(* A dead session costs a login and leaves nothing out: a call that is       *)
(* rejected for good has met the death of a session.                         *)
THEOREM DeadSessionsCostLogins ==
  ASSUME Provider!Parameters
  PROVE  PartsSpec => []DeadSessionCostsALogin
BY PartsAreTheirSpecs, Provider!DeadSessionsCostALogin, PTL DEF DeadSessionCostsALogin

-----------------------------------------------------------------------------
(* Monthly billing, one job at a time that does not stop half-way, no record *)
(* moved to another month, no stale receipt and nothing paid during a job.   *)
BillingParameters ==
  /\ Billing!OneJob /\ NoInvoice \notin BilledInvoices
  /\ MaxKwh \in Nat /\ 2 \in 1..MaxKwh /\ LastMonth \in Nat \ {0}

(* Between jobs a record and its invoice say the same.                       *)
THEOREM InvoicesShowTheirRecords ==
  ASSUME BillingParameters
  PROVE  PartsSpec => []InvoiceShowsRecord
<1>1. Billing!Spec => []Billing!InvoiceShowsRecord
  BY Billing!InvoicesShowTheirRecords DEF BillingParameters
<1>2. QED
  BY <1>1, PartsAreTheirSpecs, PTL DEF InvoiceShowsRecord

(* What the customer is told of a month implements MonthBook: what has come  *)
(* in for a month is never lost, also when its bill is withdrawn and drawn   *)
(* up again.                                                                 *)
THEOREM MonthsAreBilledByTheBook ==
  ASSUME BillingParameters
  PROVE  PartsSpec => BilledByTheBook
<1>1. Billing!Spec => Billing!BilledByTheBook
  BY Billing!MonthsAreBilledByTheBook DEF BillingParameters
<1>2. Billing!Book!BookNext => (part = "billing" => Billing!Book!BookNext)
  OBVIOUS
<1>3. QED
  BY <1>1, <1>2, PartsAreTheirSpecs, PTL
     DEF BilledByTheBook, Billing!BilledByTheBook, Billing!Book!BookSpec

-----------------------------------------------------------------------------
(* Provider month repair, for any set of months.                             *)

(* What the plan makes of a month, by what was read of it.                   *)
LEMMA PlanOfMonth ==
  ASSUME NEW row, NEW status
  PROVE  /\ Repair!Action(row, status) \in {"SOFT_DELETE_INVALID_PROVIDER_DATA",
                                     "CANCEL_DRAFT_AND_SOFT_DELETE"}
              <=> ~Repair!ManuallyLocked(row) /\ status \notin Repair!FinancialLocked
         /\ Repair!Action(row, status) = "CANCEL_DRAFT_AND_SOFT_DELETE"
              <=> ~Repair!ManuallyLocked(row) /\ status \in {"DRAFT", "PENDING_REVIEW"}
<1>1. status \in {"DRAFT", "PENDING_REVIEW"} => status \notin Repair!FinancialLocked
  BY DEF Repair!FinancialLocked
<1>2. CASE Repair!ManualData(row)
  <2>1. Repair!Action(row, status) = "PRESERVE_MANUAL_DATA"
    BY <1>2 DEF Repair!Action
  <2>2. QED
    BY <1>2, <2>1 DEF Repair!ManualData
<1>3. CASE ~Repair!ManualData(row) /\ status \in Repair!FinancialLocked
  <2>1. Repair!Action(row, status) = "NEEDS_MANUAL_FINANCIAL_REVIEW"
    BY <1>1, <1>3 DEF Repair!Action
  <2>2. QED
    BY <1>1, <1>3, <2>1 DEF Repair!ManualData
<1>4. CASE ~Repair!ManualData(row) /\ status \in {"DRAFT", "PENDING_REVIEW"}
  <2>1. Repair!Action(row, status) = "CANCEL_DRAFT_AND_SOFT_DELETE"
    BY <1>1, <1>4 DEF Repair!Action
  <2>2. QED
    BY <1>1, <1>4, <2>1 DEF Repair!ManualData
<1>5. CASE /\ ~Repair!ManualData(row) /\ status \notin Repair!FinancialLocked
           /\ status \notin {"DRAFT", "PENDING_REVIEW"}
  <2>1. Repair!Action(row, status) = "SOFT_DELETE_INVALID_PROVIDER_DATA"
    BY <1>5 DEF Repair!Action
  <2>2. QED
    BY <1>5, <2>1 DEF Repair!ManualData
<1>6. QED
  BY <1>2, <1>3, <1>4, <1>5

(* What a repair does to a row.                                              *)
LEMMA QuarantinedRows ==
  /\ \A row \in Repair!EnergyRow :
       Repair!Quarantine(row) \in Repair!EnergyRow /\ Repair!Quarantine(row).state = "deleted"
  /\ \A row \in Repair!BillingRow :
       /\ Repair!Detached(row) \in Repair!BillingRow
       /\ Repair!Detached(row).state = "deleted" /\ Repair!Detached(row).linked = "no"
<1>1. ASSUME NEW row \in Repair!EnergyRow
      PROVE  /\ Repair!Quarantine(row) \in Repair!EnergyRow
             /\ Repair!Quarantine(row).state = "deleted"
  BY DEF Repair!Quarantine, Repair!EnergyRow
<1>2. ASSUME NEW row \in Repair!BillingRow
      PROVE  /\ Repair!Detached(row) \in Repair!BillingRow
             /\ Repair!Detached(row).state = "deleted" /\ Repair!Detached(row).linked = "no"
  BY DEF Repair!Quarantine, Repair!Detached, Repair!BillingRow, Repair!YesNo
<1>3. QED
  BY <1>1, <1>2

(* The rows and the tool keep their types, whatever the platform does.       *)
LEMMA RepairTypeCorrect == Repair!Spec => []Repair!TypeOK
<1>1. Repair!Init => Repair!TypeOK
  <2> SUFFICES ASSUME Repair!Init PROVE Repair!TypeOK
    OBVIOUS
  <2>1. Repair!Idle \in Repair!Tool
    BY DEF Repair!Idle, Repair!Tool, Repair!NoBilling, Repair!BillingRow, Repair!YesNo
  <2>2. QED
    BY <2>1 DEF Repair!Init, Repair!TypeOK, Repair!Live
<1>2. Repair!TypeOK /\ [Repair!Next]_Repair!vars => Repair!TypeOK'
  <2> SUFFICES ASSUME Repair!TypeOK, [Repair!Next]_Repair!vars PROVE Repair!TypeOK'
    OBVIOUS
  <2>1. /\ energy \in [RepairMonths -> Repair!EnergyRow]
        /\ billing \in [RepairMonths -> Repair!BillingRow]
        /\ invoice \in [RepairMonths -> Repair!InvoiceStatus \cup {"none"}] /\ tool \in Repair!Tool
        /\ \A m \in RepairMonths : billing[m].linked = "yes" =>
             Repair!Live(m) /\ invoice[m] # "none"
    BY DEF Repair!TypeOK
  <2>2. Repair!Idle \in Repair!Tool /\ Repair!NoBilling \in Repair!BillingRow
    BY DEF Repair!Idle, Repair!Tool, Repair!NoBilling, Repair!BillingRow, Repair!YesNo
  <2>3. CASE Repair!ReadEnergy
    <3> DEFINE seen == {m \in RepairMonths : Repair!ConfirmedInvalid(energy[m])}
    <3>1. tool' = [pc |-> "billings", seen |-> seen, bills |-> [m \in RepairMonths |-> Repair!NoBilling],
                   status |-> [m \in RepairMonths |-> "none"]]
      BY <2>3 DEF Repair!ReadEnergy, Repair!Idle
    <3> HIDE DEF seen
    <3>2. seen \in SUBSET RepairMonths
      BY DEF seen
    <3>3. tool' \in Repair!Tool
      BY <2>2, <3>1, <3>2 DEF Repair!Tool
    <3>4. QED
      BY <2>1, <2>3, <3>3 DEF Repair!ReadEnergy, Repair!TypeOK, Repair!Live
  <2>4. CASE Repair!ReadBillings
    <3> DEFINE bills == [m \in RepairMonths |->
                           IF billing[m].state = "live" THEN billing[m] ELSE Repair!NoBilling]
               status == [m \in RepairMonths |->
                            IF billing[m].state = "live" /\ billing[m].linked = "yes"
                            THEN invoice[m] ELSE "none"]
    <3>1. /\ bills \in [RepairMonths -> Repair!BillingRow]
          /\ status \in [RepairMonths -> Repair!InvoiceStatus \cup {"none"}]
      BY <2>1, <2>2
    <3>2. tool' = [tool EXCEPT !.pc = "apply", !.bills = bills, !.status = status]
      BY <2>4 DEF Repair!ReadBillings
    <3> HIDE DEF bills, status
    <3>3. tool' \in Repair!Tool
      BY <2>1, <3>1, <3>2 DEF Repair!Tool
    <3>4. QED
      BY <2>1, <2>4, <3>3 DEF Repair!ReadBillings, Repair!TypeOK, Repair!Live
  <2>5. CASE Repair!Apply
    <3>1. tool' \in Repair!Tool
      BY <2>1, <2>5 DEF Repair!Apply, Repair!Tool
    <3>2. /\ energy' \in [RepairMonths -> Repair!EnergyRow]
          /\ billing' \in [RepairMonths -> Repair!BillingRow]
          /\ invoice' \in [RepairMonths -> Repair!InvoiceStatus \cup {"none"}]
      BY <2>1, <2>5, QuarantinedRows DEF Repair!Apply, Repair!InvoiceStatus
    <3>3. \A m \in RepairMonths :
            billing'[m].linked = "yes" => billing'[m] = billing[m] /\ invoice'[m] # "none"
      BY <2>1, <2>5, QuarantinedRows DEF Repair!Apply
    <3>4. QED
      BY <2>1, <3>1, <3>2, <3>3 DEF Repair!TypeOK, Repair!Live
  <2>6. CASE Repair!Quit
    BY <2>1, <2>2, <2>6 DEF Repair!Quit, Repair!TypeOK, Repair!Live
  <2>7. ASSUME NEW m \in RepairMonths, Repair!Override(m) \/ Repair!NewBilling(m)
        PROVE Repair!TypeOK'
    <3>1. /\ billing' \in [RepairMonths -> Repair!BillingRow]
          /\ \A n \in RepairMonths : billing'[n].linked = billing[n].linked
                               /\ (billing[n].state = "live" => billing'[n].state = "live")
      BY <2>1, <2>7 DEF Repair!Override, Repair!NewBilling, Repair!BillingRow, Repair!YesNo
    <3>2. QED
      BY <2>1, <2>7, <3>1 DEF Repair!Override, Repair!NewBilling, Repair!TypeOK, Repair!Live
  <2>8. ASSUME NEW m \in RepairMonths, Repair!NewDraft(m) PROVE Repair!TypeOK'
    <3>1. /\ billing' \in [RepairMonths -> Repair!BillingRow]
          /\ invoice' \in [RepairMonths -> Repair!InvoiceStatus \cup {"none"}]
      BY <2>1, <2>8 DEF Repair!NewDraft, Repair!BillingRow, Repair!YesNo, Repair!InvoiceStatus
    <3>2. \A n \in RepairMonths :
            billing'[n].linked = "yes" => billing'[n].state = "live" /\ invoice'[n] # "none"
      BY <2>1, <2>8 DEF Repair!NewDraft, Repair!Live, Repair!BillingRow
    <3>3. QED
      BY <2>1, <2>8, <3>1, <3>2 DEF Repair!NewDraft, Repair!TypeOK, Repair!Live
  <2>9. ASSUME NEW m \in RepairMonths, Repair!InvoiceMoves(m) PROVE Repair!TypeOK'
    <3>1. /\ invoice' \in [RepairMonths -> Repair!InvoiceStatus \cup {"none"}]
          /\ \A n \in RepairMonths : invoice[n] # "none" => invoice'[n] # "none"
      BY <2>1, <2>9 DEF Repair!InvoiceMoves, Repair!InvoiceStatus
    <3>2. QED
      BY <2>1, <2>9, <3>1 DEF Repair!InvoiceMoves, Repair!TypeOK, Repair!Live
  <2>10. CASE UNCHANGED Repair!vars
    BY <2>1, <2>10 DEF Repair!vars, Repair!TypeOK, Repair!Live
  <2>11. QED
    BY <2>3, <2>4, <2>5, <2>6, <2>7, <2>8, <2>9, <2>10 DEF Repair!Next, Repair!Platform
<1>3. QED
  BY <1>1, <1>2, PTL DEF Repair!Spec

-----------------------------------------------------------------------------
(* As long as nobody else works on the months: the energy rows it has picked *)
(* are still the confirmed ones, and what it read of billing is still so.    *)
SnapshotIsCurrent ==
  /\ tool.pc \in {"billings", "apply"} =>
       tool.seen = {m \in RepairMonths : Repair!ConfirmedInvalid(energy[m])}
  /\ tool.pc = "apply" =>
       \A m \in RepairMonths :
         /\ tool.bills[m] = IF Repair!Live(m) THEN billing[m] ELSE Repair!NoBilling
         /\ tool.status[m] = IF Repair!Live(m) /\ billing[m].linked = "yes"
                              THEN invoice[m] ELSE "none"

RepairInv == Repair!TypeOK /\ Repair!RepairIsWhole /\ SnapshotIsCurrent

(* Then a month is quarantined exactly if it is confirmed, not manual, and   *)
(* not under financial review.                                               *)
LEMMA ActionableMonths ==
  ASSUME RepairInv, tool.pc = "apply", NEW m \in RepairMonths
  PROVE  /\ m \in Repair!Actionable <=>
              /\ Repair!ConfirmedInvalid(energy[m])
              /\ ~(Repair!Live(m) /\ Repair!ManuallyLocked(billing[m]))
              /\ invoice[m] \notin Repair!FinancialLocked
         /\ m \in Repair!ToCancel <=>
              m \in Repair!Actionable /\ Repair!Live(m)
              /\ invoice[m] \in {"DRAFT", "PENDING_REVIEW"}
         /\ tool.bills[m].state = "live" <=> Repair!Live(m)
<1>1. /\ m \in tool.seen <=> Repair!ConfirmedInvalid(energy[m])
      /\ tool.bills[m] = IF Repair!Live(m) THEN billing[m] ELSE Repair!NoBilling
      /\ tool.status[m] = IF Repair!Live(m) /\ billing[m].linked = "yes"
                              THEN invoice[m] ELSE "none"
  BY DEF RepairInv, SnapshotIsCurrent
<1>2. /\ billing[m] \in Repair!BillingRow
      /\ billing[m].linked = "yes" => Repair!Live(m)
      /\ billing[m].linked = "no" => invoice[m] \in {"none", "CANCELLED"}
      /\ billing[m].linked \in {"yes", "no"}
  BY DEF RepairInv, Repair!TypeOK, Repair!RepairIsWhole, Repair!BillingRow, Repair!YesNo
<1>3. ~Repair!ManuallyLocked(Repair!NoBilling) /\ Repair!NoBilling.state # "live"
  BY DEF Repair!NoBilling, Repair!ManuallyLocked
<1>4. Repair!ManuallyLocked(tool.bills[m]) <=> Repair!Live(m) /\ Repair!ManuallyLocked(billing[m])
  BY <1>1, <1>3
<1>5. tool.status[m] \in Repair!FinancialLocked <=> invoice[m] \in Repair!FinancialLocked
  BY <1>1, <1>2 DEF Repair!FinancialLocked
<1>6. tool.status[m] \in {"DRAFT", "PENDING_REVIEW"}
        <=> Repair!Live(m) /\ invoice[m] \in {"DRAFT", "PENDING_REVIEW"}
  BY <1>1, <1>2
<1>7. Repair!Planned(m) \in {"SOFT_DELETE_INVALID_PROVIDER_DATA", "CANCEL_DRAFT_AND_SOFT_DELETE"}
        <=> ~Repair!ManuallyLocked(tool.bills[m]) /\ tool.status[m] \notin Repair!FinancialLocked
  BY PlanOfMonth DEF Repair!Planned
<1>8. Repair!Planned(m) = "CANCEL_DRAFT_AND_SOFT_DELETE"
        <=> ~Repair!ManuallyLocked(tool.bills[m]) /\ tool.status[m] \in {"DRAFT", "PENDING_REVIEW"}
  BY PlanOfMonth DEF Repair!Planned
<1>9. tool.bills[m].state = "live" <=> Repair!Live(m)
  BY <1>1, <1>3 DEF Repair!Live
<1>10. m \in Repair!Actionable <=>
              /\ Repair!ConfirmedInvalid(energy[m])
              /\ ~(Repair!Live(m) /\ Repair!ManuallyLocked(billing[m]))
              /\ invoice[m] \notin Repair!FinancialLocked
  BY <1>1, <1>4, <1>5, <1>7 DEF Repair!Actionable
<1>11. m \in Repair!ToCancel <=>
         m \in Repair!Actionable /\ Repair!Live(m) /\ invoice[m] \in {"DRAFT", "PENDING_REVIEW"}
  BY <1>4, <1>5, <1>6, <1>7, <1>8, <1>10 DEF Repair!ToCancel
<1>12. QED
  BY <1>9, <1>10, <1>11

(* The transaction leaves nothing of an actionable month.                    *)
LEMMA ApplyStep ==
  ASSUME RepairInv, Repair!TypeOK', Repair!Apply
  PROVE  RepairInv'
<1>1. tool.pc = "apply" /\ tool'.pc = "done" /\ tool'.seen = tool.seen
  BY DEF Repair!Apply, RepairInv, Repair!TypeOK, Repair!Tool
<1>2. /\ energy \in [RepairMonths -> Repair!EnergyRow]
      /\ billing \in [RepairMonths -> Repair!BillingRow]
      /\ \A m \in RepairMonths :
           /\ energy'[m] = IF m \in Repair!Actionable THEN Repair!Quarantine(energy[m]) ELSE energy[m]
           /\ billing'[m] = IF m \in Repair!Actionable /\ Repair!Live(m)
                            THEN Repair!Detached(billing[m]) ELSE billing[m]
           /\ invoice'[m] = IF m \in Repair!ToCancel THEN "CANCELLED" ELSE invoice[m]
  BY <1>1, ActionableMonths DEF Repair!Apply, RepairInv, Repair!TypeOK
<1>3. \A m \in RepairMonths :
        /\ energy[m] \in Repair!EnergyRow /\ billing[m] \in Repair!BillingRow
        /\ billing[m].linked = "no" => invoice[m] \in {"none", "CANCELLED"}
        /\ billing[m].linked = "yes" => Repair!Live(m) /\ invoice[m] # "none"
        /\ invoice[m] \in Repair!InvoiceStatus \cup {"none"}
        /\ m \in tool.seen <=> Repair!ConfirmedInvalid(energy[m])
  BY <1>1 DEF RepairInv, Repair!TypeOK, Repair!RepairIsWhole, SnapshotIsCurrent
<1>4. ASSUME NEW m \in RepairMonths, billing'[m].linked = "no"
      PROVE  invoice'[m] \in {"none", "CANCELLED"}
  <2>1. CASE m \in Repair!Actionable /\ Repair!Live(m)
    <3>1. invoice[m] \notin Repair!FinancialLocked
      BY <1>1, <2>1, ActionableMonths
    <3>2. invoice[m] \in {"DRAFT", "PENDING_REVIEW", "CANCELLED", "none"}
      BY <1>3, <3>1 DEF Repair!InvoiceStatus, Repair!FinancialLocked
    <3>3. invoice[m] \in {"DRAFT", "PENDING_REVIEW"} => m \in Repair!ToCancel
      BY <1>1, <2>1, ActionableMonths
    <3>4. QED
      BY <1>2, <3>2, <3>3
  <2>2. CASE ~(m \in Repair!Actionable /\ Repair!Live(m))
    <3>1. billing'[m] = billing[m]
      BY <1>2, <2>2
    <3>2. QED
      BY <1>2, <1>3, <1>4, <3>1
  <2>3. QED
    BY <2>1, <2>2
<1>5. ASSUME NEW m \in RepairMonths, Repair!ConfirmedInvalid(energy'[m])
      PROVE  /\ Repair!Live(m)'
             /\ Repair!ManuallyLocked(billing'[m]) \/ invoice'[m] \in Repair!FinancialLocked
  <2>1. m \notin Repair!Actionable /\ energy'[m] = energy[m]
    BY <1>2, <1>3, <1>5, QuarantinedRows DEF Repair!ConfirmedInvalid
  <2>2. billing'[m] = billing[m] /\ invoice'[m] = invoice[m]
    BY <1>2, <2>1 DEF Repair!ToCancel
  <2>3. (Repair!Live(m) /\ Repair!ManuallyLocked(billing[m]))
          \/ invoice[m] \in Repair!FinancialLocked
    BY <1>1, <1>5, <2>1, ActionableMonths
  <2>4. invoice[m] \in Repair!FinancialLocked => Repair!Live(m)
    <3>1. billing[m].linked \in {"yes", "no"}
      BY <1>3 DEF Repair!BillingRow, Repair!YesNo
    <3>2. QED
      BY <1>3, <3>1 DEF Repair!FinancialLocked
  <2>5. QED
    BY <2>2, <2>3, <2>4 DEF Repair!Live
<1>6. ASSUME NEW m \in RepairMonths, m \in tool.seen, energy'[m].state = "deleted"
      PROVE  ~Repair!Live(m)'
  <2>1. m \in Repair!Actionable
    BY <1>2, <1>3, <1>6 DEF Repair!ConfirmedInvalid
  <2>2. QED
    BY <1>2, <1>3, <2>1, QuarantinedRows DEF Repair!Live
<1>7. QED
  BY <1>1, <1>4, <1>5, <1>6 DEF RepairInv, Repair!RepairIsWhole, SnapshotIsCurrent

(* While nobody else writes, what the tool has read stays true until its     *)
(* transaction, and a month is repaired whole or not at all.                 *)
LEMMA RepairsWhole ==
  ASSUME ~Meanwhile
  PROVE  Repair!Spec => []RepairInv
<1>1. Repair!Init => Repair!RepairIsWhole /\ SnapshotIsCurrent
  BY DEF Repair!Init, Repair!RepairIsWhole, SnapshotIsCurrent, Repair!Idle
<1>2. RepairInv /\ Repair!TypeOK' /\ [Repair!Next]_Repair!vars => RepairInv'
  <2> SUFFICES ASSUME RepairInv, Repair!TypeOK', [Repair!Next]_Repair!vars
               PROVE  Repair!RepairIsWhole' /\ SnapshotIsCurrent'
    BY DEF RepairInv
  <2>1. /\ energy \in [RepairMonths -> Repair!EnergyRow]
        /\ billing \in [RepairMonths -> Repair!BillingRow]
        /\ invoice \in [RepairMonths -> Repair!InvoiceStatus \cup {"none"}] /\ tool \in Repair!Tool
        /\ \A m \in RepairMonths : billing[m].linked = "no" => invoice[m] \in {"none", "CANCELLED"}
    BY DEF RepairInv, Repair!TypeOK, Repair!RepairIsWhole
  <2>2. CASE Repair!ReadEnergy
    <3>1. /\ tool'.pc = "billings"
          /\ tool'.seen = {m \in RepairMonths : Repair!ConfirmedInvalid(energy[m])}
      BY <2>2 DEF Repair!ReadEnergy, Repair!Idle
    <3>2. QED
      BY <2>1, <2>2, <3>1 DEF Repair!ReadEnergy, Repair!RepairIsWhole, SnapshotIsCurrent
  <2>3. CASE Repair!ReadBillings
    <3>1. /\ tool'.pc = "apply" /\ tool'.seen = tool.seen /\ tool.pc = "billings"
          /\ \A m \in RepairMonths :
               /\ tool'.bills[m] = IF Repair!Live(m) THEN billing[m] ELSE Repair!NoBilling
               /\ tool'.status[m] = IF Repair!Live(m) /\ billing[m].linked = "yes"
                                     THEN invoice[m] ELSE "none"
      BY <2>1, <2>3 DEF Repair!ReadBillings, Repair!Tool, Repair!Live
    <3>2. UNCHANGED <<energy, billing, invoice>>
      BY <2>3 DEF Repair!ReadBillings
    <3>3. QED
      BY <2>1, <3>1, <3>2 DEF RepairInv, Repair!RepairIsWhole, SnapshotIsCurrent, Repair!Live
  <2>4. CASE Repair!Apply
    BY <2>4, ApplyStep DEF RepairInv
  <2>5. CASE Repair!Quit
    BY <2>1, <2>5 DEF Repair!Quit, Repair!Idle, Repair!RepairIsWhole, SnapshotIsCurrent
  <2>6. ASSUME NEW m \in RepairMonths, tool.pc = "idle", Repair!Platform(m)
        PROVE  Repair!RepairIsWhole' /\ SnapshotIsCurrent'
    <3>1. tool' = tool
      BY <2>6 DEF Repair!Platform, Repair!Override, Repair!NewBilling, Repair!NewDraft,
                  Repair!InvoiceMoves
    <3>2. ASSUME NEW n \in RepairMonths, billing'[n].linked = "no"
          PROVE  invoice'[n] \in {"none", "CANCELLED"}
      <4>1. CASE Repair!Override(m) \/ Repair!NewBilling(m)
        BY <2>1, <3>2, <4>1 DEF Repair!Override, Repair!NewBilling, Repair!BillingRow
      <4>2. CASE Repair!NewDraft(m)
        BY <2>1, <3>2, <4>2 DEF Repair!NewDraft, Repair!BillingRow
      <4>3. CASE Repair!InvoiceMoves(m)
        BY <2>1, <3>2, <4>3 DEF Repair!InvoiceMoves
      <4>4. QED
        BY <2>6, <4>1, <4>2, <4>3 DEF Repair!Platform
    <3>3. QED
      BY <2>6, <3>1, <3>2 DEF Repair!RepairIsWhole, SnapshotIsCurrent
  <2>7. CASE UNCHANGED Repair!vars
    BY <2>7 DEF Repair!vars, RepairInv, Repair!RepairIsWhole, SnapshotIsCurrent, Repair!Live
  <2>8. QED
    BY <2>2, <2>3, <2>4, <2>5, <2>6, <2>7 DEF Repair!Next
<1>3. QED
  BY <1>1, <1>2, RepairTypeCorrect, PTL DEF Repair!Spec, RepairInv

(* One run of the tool is enough, and it never leaves a draft behind.        *)
THEOREM NothingHalfRepaired ==
  ASSUME ~Meanwhile
  PROVE  PartsSpec => []RepairIsWhole
BY PartsAreTheirSpecs, RepairsWhole, PTL DEF RepairInv, RepairIsWhole

(* The transaction touches nothing that is authoritative.                    *)
THEOREM AuthoritativeDataIsSpared ==
  ASSUME ~Meanwhile
  PROVE  PartsSpec => AuthoritativeDataStands
<1> DEFINE Stands ==
      \A m \in RepairMonths :
       /\ tool.pc = "apply" /\ tool'.pc = "done"
       /\ \/ invoice[m] \in Repair!FinancialLocked
          \/ energy[m].source = "manual" \/ energy[m].edited = "yes"
          \/ Repair!Live(m) /\ (billing[m].source = "manual" \/ billing[m].override = "yes")
       => /\ energy'[m] = energy[m] /\ billing'[m] = billing[m]
          /\ invoice[m] \in Repair!FinancialLocked => invoice'[m] = invoice[m]
<1>1. RepairInv /\ [Repair!Next]_Repair!vars => [Stands]_Repair!vars
  <2> SUFFICES ASSUME RepairInv, Repair!Next, NEW m \in RepairMonths,
                      tool.pc = "apply" /\ tool'.pc = "done",
                      \/ invoice[m] \in Repair!FinancialLocked
                      \/ energy[m].source = "manual" \/ energy[m].edited = "yes"
                      \/ /\ Repair!Live(m)
                         /\ billing[m].source = "manual" \/ billing[m].override = "yes"
               PROVE  /\ energy'[m] = energy[m] /\ billing'[m] = billing[m]
                      /\ invoice[m] \in Repair!FinancialLocked => invoice'[m] = invoice[m]
    OBVIOUS
  <2>1. m \notin Repair!Actionable
    BY ActionableMonths DEF Repair!ConfirmedInvalid, Repair!ManuallyLocked
  <2>2. CASE Repair!Apply
    BY <2>1, <2>2 DEF Repair!Apply, Repair!ToCancel, RepairInv, Repair!TypeOK
  <2>3. CASE ~Repair!Apply
    BY <2>3 DEF Repair!Next, Repair!ReadEnergy, Repair!ReadBillings, Repair!Quit, Repair!Platform,
                Repair!Override, Repair!NewBilling, Repair!NewDraft, Repair!InvoiceMoves, Repair!Idle
  <2>4. QED
    BY <2>2, <2>3
<1>2. QED
  BY <1>1, PartsAreTheirSpecs, RepairsWhole, PTL
     DEF Repair!Spec, Repair!AuthoritativeDataStands, AuthoritativeDataStands

-----------------------------------------------------------------------------
(* The chain of meter readings, for any number of months, any entries,       *)
(* failures and restarts.                                                    *)

(* After a recalculation that nobody disturbed, and until something is       *)
(* written, every month starts where the last one ended unless its meter was *)
(* reset, and ends after what it consumed.                                   *)
THEOREM SettledReadingsChain ==
  ASSUME Meter!Parameters
  PROVE  PartsSpec => []ReadingsChain
BY PartsAreTheirSpecs, Meter!SettledReadingsChain, PTL DEF ReadingsChain

(* Recalculating a settled chain changes no reading.                         *)
THEOREM RecalculationIsIdempotent ==
  ASSUME Meter!Parameters
  PROVE  PartsSpec => SettledReadingsStand
BY PartsAreTheirSpecs, Meter!RecalculationIsIdempotent, PTL DEF SettledReadingsStand

-----------------------------------------------------------------------------
(* The recovery of a password, for any number of requests, sessions, codes,  *)
(* links and changes of the password.                                        *)

(* What is true of a row when the password is p and the last reset by a      *)
(* staff code was z.  A session that is live and not late knows p.           *)
SessionFits(row, p) == row.state = "live" /\ row.late = "no" => row.password = p

(* A code is not used more often than the password was changed.  One of      *)
(* staff that is not closed has not been used, and is younger than z.        *)
CodeFits(row, p, z) ==
  /\ row.uses <= p
  /\ role = "STAFF" =>
       /\ row.uses <= 1
       /\ row.state # "consumed" => row.uses = 0
       /\ row.state \in {"pending", "sent", "failed"} => row.password >= z

(* A link that is not closed has not been used, an open one knows p;         *)
(* customers have none.                                                      *)
LinkFits(row, p) ==
  /\ row.uses <= p /\ row.uses <= 1
  /\ row.state \in {"none", "open"} => row.uses = 0
  /\ row.state = "open" => row.password = p
  /\ role = "CUSTOMER" => row.state = "none"

PasswordInv ==
  /\ role \in {"STAFF", "CUSTOMER"} /\ password \in Passwords /\ reset \in Passwords
  /\ reset <= password
SessionInv == session \in [Sessions -> Session] /\ \A s \in Sessions : SessionFits(session[s], password)
CodeInv == code \in [Codes -> Code] /\ \A c \in Codes : CodeFits(code[c], password, reset)
LinkInv == link \in [Links -> Link] /\ \A t \in Links : LinkFits(link[t], password)
RequestInv == request \in [Requests -> Request]

RecoveryInv == PasswordInv /\ SessionInv /\ CodeInv /\ LinkInv /\ RequestInv

(* The bound is a number: what the counters need.                            *)
Bounded == MaxPasswords \in Nat

-----------------------------------------------------------------------------
(* Sessions.                                                                 *)

(* A revoked session fits any password.                                      *)
LEMMA ClosedSession ==
  ASSUME Bounded, NEW p
  PROVE  LET row == [state |-> "revoked", password |-> 0, late |-> "no"]
         IN  row \in Session /\ SessionFits(row, p)
BY DEF Session, SessionFits, Passwords, Bounded

(* One row is set while the password stays.                                  *)
LEMMA OneSessionSet ==
  ASSUME SessionInv, UNCHANGED password, NEW x, NEW row \in Session, SessionFits(row, password),
         session' = [session EXCEPT ![x] = row]
  PROVE  SessionInv'
BY DEF SessionInv, SessionFits

(* Nothing is done to the sessions.                                          *)
LEMMA SessionsStay ==
  ASSUME SessionInv, UNCHANGED <<password, session>>
  PROVE  SessionInv'
BY DEF SessionInv, SessionFits

(* Every session is revoked but the one that changes the password.           *)
LEMMA SessionsChange ==
  ASSUME Bounded, PasswordInv, SessionInv, NEW kept,
         password < MaxPasswords, password' = password + 1, session' = SessionsRevoked(kept)
  PROVE  SessionInv'
<1>1. password + 1 \in Passwords
  BY DEF PasswordInv, Passwords, Bounded
<1>2. ASSUME NEW s \in Sessions
      PROVE  session'[s] \in Session /\ SessionFits(session'[s], password')
  <2>1. session[s] \in Session
    BY DEF SessionInv
  <2>2. CASE session[s].state # "live"
    <3>1. session'[s] = session[s]
      BY <2>2, Zenon DEF SessionsRevoked
    <3>2. QED
      BY <2>1, <2>2, <3>1 DEF SessionFits
  <2>3. CASE session[s].state = "live" /\ s = kept
    <3>1. session'[s] = [session[s] EXCEPT !.password = password + 1, !.late = "no"]
      BY Zenon, <2>3 DEF SessionsRevoked
    <3>2. QED
      BY <1>1, <2>1, <3>1 DEF Session, SessionFits
  <2>4. CASE session[s].state = "live" /\ s # kept
    <3>1. session'[s] = [state |-> "revoked", password |-> 0, late |-> "no"]
      BY Zenon, <2>4 DEF SessionsRevoked
    <3>2. QED
      BY <3>1, ClosedSession
  <2>5. QED
    BY <2>2, <2>3, <2>4
<1>3. session' = [s \in Sessions |-> session'[s]]
  BY Zenon DEF SessionsRevoked
<1>4. QED
  BY <1>2, <1>3 DEF SessionInv, SessionFits

-----------------------------------------------------------------------------
(* Codes.                                                                    *)

(* Nothing is done to the codes.                                             *)
LEMMA CodesStay ==
  ASSUME CodeInv, UNCHANGED <<role, password, reset, code>>
  PROVE  CodeInv'
BY DEF CodeInv, CodeFits

(* A change of the password leaves a code as good as it was.                 *)
LEMMA CodesOutliveChange ==
  ASSUME Bounded, PasswordInv, CodeInv, UNCHANGED <<role, reset, code>>, password' = password + 1
  PROVE  CodeInv'
<1>1. ASSUME NEW c \in Codes PROVE CodeFits(code[c], password, reset)'
  <2>1. code[c] \in Code /\ CodeFits(code[c], password, reset)
    BY DEF CodeInv
  <2>2. code[c].uses \in Nat /\ password \in Nat
    BY <2>1 DEF Code, PasswordInv, Passwords, Bounded
  <2>3. QED
    BY <2>1, <2>2 DEF CodeFits
<1>2. QED
  BY <1>1 DEF CodeInv

(* A closed code fits whatever the code fitted to.                           *)
LEMMA ClosedCode ==
  ASSUME Bounded, NEW row \in Code
  PROVE  LET closed == [row EXCEPT !.state = "consumed", !.password = 0]
         IN  closed \in Code /\ closed.uses = row.uses /\ closed.state = "consumed"
<1>1. 0 \in Passwords
  BY DEF Passwords, Bounded
<1>2. QED
  BY <1>1 DEF Code

(* What closing a set of codes does to every code.                           *)
LEMMA ClosedCodesAreCodes ==
  ASSUME Bounded, CodeInv, NEW closed
  PROVE  /\ CodesClosed(closed) \in [Codes -> Code]
         /\ \A c \in Codes :
              /\ CodesClosed(closed)[c].uses = code[c].uses
              /\ c \in closed => CodesClosed(closed)[c].state = "consumed"
              /\ c \notin closed => CodesClosed(closed)[c] = code[c]
<1>1. ASSUME NEW c \in Codes
      PROVE  /\ CodesClosed(closed)[c] \in Code
             /\ CodesClosed(closed)[c].uses = code[c].uses
             /\ c \in closed => CodesClosed(closed)[c].state = "consumed"
             /\ c \notin closed => CodesClosed(closed)[c] = code[c]
  <2>1. code[c] \in Code
    BY DEF CodeInv
  <2>2. CASE c \in closed
    <3>1. CodesClosed(closed)[c] = [code[c] EXCEPT !.state = "consumed", !.password = 0]
      BY <2>2 DEF CodesClosed
    <3>2. QED
      BY Zenon, <2>1, <2>2, <3>1, ClosedCode
  <2>3. CASE c \notin closed
    BY <2>1, <2>3 DEF CodesClosed
  <2>4. QED
    BY <2>2, <2>3
<1>2. CodesClosed(closed) = [c \in Codes |-> CodesClosed(closed)[c]]
  BY DEF CodesClosed
<1>3. QED
  BY <1>1, <1>2

(* Codes are closed while the password stays.                                *)
LEMMA CodesAreClosed ==
  ASSUME Bounded, CodeInv, UNCHANGED <<role, password, reset>>, NEW closed, code' = CodesClosed(closed)
  PROVE  CodeInv'
<1>1. ASSUME NEW c \in Codes PROVE CodeFits(code[c], password, reset)'
  <2>1. /\ CodeFits(code[c], password, reset) /\ code'[c].uses = code[c].uses
        /\ code'[c] = code[c] \/ code'[c].state = "consumed"
    BY ClosedCodesAreCodes DEF CodeInv
  <2>2. QED
    BY <2>1 DEF CodeFits
<1>2. QED
  BY <1>1, ClosedCodesAreCodes DEF CodeInv

(* A code is made under the password of the moment.                          *)
LEMMA CodeIsMade ==
  ASSUME Bounded, PasswordInv, CodeInv, UNCHANGED <<role, password, reset>>, NEW x,
         code' = [code EXCEPT ![x] = [state |-> "pending", password |-> password, uses |-> 0]]
  PROVE  CodeInv'
<1> DEFINE row == [state |-> "pending", password |-> password, uses |-> 0]
<1>1. row \in Code
  BY DEF Code, PasswordInv, Passwords, Bounded
<1>2. CodeFits(row, password, reset)
  BY DEF CodeFits, PasswordInv, Passwords
<1>3. code' = [code EXCEPT ![x] = row]
  OBVIOUS
<1> HIDE DEF row
<1>4. QED
  BY <1>1, <1>2, <1>3 DEF CodeInv, CodeFits

(* How its delivery went is noted on a code that is not closed.              *)
LEMMA CodeIsDelivered ==
  ASSUME CodeInv, UNCHANGED <<role, password, reset>>,
         NEW c \in Unconsumed, NEW state \in {"sent", "failed"},
         code' = [code EXCEPT ![c].state = state]
  PROVE  CodeInv'
<1>1. c \in Codes /\ code[c] \in Code /\ CodeFits(code[c], password, reset)
  BY DEF Unconsumed, CodeInv
<1> DEFINE row == [code[c] EXCEPT !.state = state]
<1>2. row \in Code /\ row.uses = code[c].uses /\ row.password = code[c].password /\ row.state = state
  BY <1>1 DEF Code
<1>3. CodeFits(row, password, reset)
  BY <1>1, <1>2 DEF CodeFits, Unconsumed
<1>4. code' = [code EXCEPT ![c] = row]
  OBVIOUS
<1> HIDE DEF row
<1>5. QED
  BY <1>2, <1>3, <1>4 DEF CodeInv, CodeFits

(* The password is changed with a code: by staff with one that is not        *)
(* closed, and every other one is closed with it.                            *)
LEMMA CodeIsSpent ==
  ASSUME Bounded, PasswordInv, CodeInv, UNCHANGED role, NEW c,
         role = "STAFF" => c \in Unconsumed,
         password < MaxPasswords, password' = password + 1,
         reset' = IF role = "STAFF" THEN password' ELSE reset,
         code' = [CodesClosed(ClosedByReset(c)) EXCEPT ![c].uses = @ + 1]
  PROVE  CodeInv'
<1> DEFINE closed == CodesClosed(ClosedByReset(c))
<1>1. /\ closed \in [Codes -> Code]
      /\ \A d \in Codes :
           /\ closed[d].uses = code[d].uses
           /\ d \in ClosedByReset(c) => closed[d].state = "consumed"
           /\ d \notin ClosedByReset(c) => closed[d] = code[d]
  BY ClosedCodesAreCodes
<1>2. code' = [closed EXCEPT ![c].uses = @ + 1]
  OBVIOUS
<1> HIDE DEF closed
<1>3. password \in Nat
  BY DEF PasswordInv, Passwords, Bounded
<1>4. ASSUME NEW d \in Codes PROVE code[d].uses \in Nat /\ CodeFits(code[d], password, reset)
  BY DEF CodeInv, Code, Bounded
<1>5. ASSUME NEW d \in Codes
      PROVE  /\ code'[d] \in Code /\ code'[d].state = closed[d].state
             /\ code'[d].uses = IF d = c THEN code[d].uses + 1 ELSE code[d].uses
  <2>1. CASE d = c
    <3>1. code'[d] = [closed[d] EXCEPT !.uses = @ + 1]
      BY <1>1, <1>2, <2>1
    <3>2. code[d].uses + 1 \in 0..MaxPasswords
      BY <1>3, <1>4 DEF CodeFits, Bounded
    <3>3. closed[d] \in Code /\ closed[d].uses = code[d].uses
      BY <1>1
    <3>4. QED
      BY <2>1, <3>1, <3>2, <3>3 DEF Code
  <2>2. CASE d # c
    BY <1>1, <1>2, <2>2
  <2>3. QED
    BY <2>1, <2>2
<1>6. ASSUME NEW d \in Codes PROVE CodeFits(code[d], password, reset)'
  <2>1. code'[d].uses <= password + 1
    BY <1>3, <1>4, <1>5 DEF CodeFits
  <2>2. ASSUME role = "STAFF"
        PROVE  /\ code'[d].uses <= 1
               /\ code'[d].state # "consumed" => code'[d].uses = 0
               /\ code'[d].state \notin {"pending", "sent", "failed"}
    <3>1. c \in Unconsumed /\ ClosedByReset(c) = Unconsumed
      BY <2>2 DEF ClosedByReset
    <3>2. CASE d \in Unconsumed
      <4>1. code[d].uses = 0
        BY <1>4, <2>2, <3>2 DEF CodeFits, Unconsumed
      <4>2. QED
        BY <1>1, <1>5, <3>1, <3>2, <4>1
    <3>3. CASE d \notin Unconsumed
      <4>1. code[d].state \notin {"pending", "sent", "failed"} /\ closed[d] = code[d] /\ d # c
        BY <1>1, <3>1, <3>3 DEF Unconsumed
      <4>2. QED
        BY <1>4, <1>5, <2>2, <4>1 DEF CodeFits
    <3>4. QED
      BY <3>2, <3>3
  <2>3. QED
    BY <2>1, <2>2 DEF CodeFits
<1>7. code' = [d \in Codes |-> code'[d]]
  BY <1>1, <1>2
<1>8. QED
  BY <1>5, <1>6, <1>7 DEF CodeInv

-----------------------------------------------------------------------------
(* Links.                                                                    *)

(* Nothing is done to the links.                                             *)
LEMMA LinksStay ==
  ASSUME LinkInv, UNCHANGED <<role, password, link>>
  PROVE  LinkInv'
BY DEF LinkInv, LinkFits

(* Revoking the open links leaves links, none of them open.                  *)
LEMMA RevokedLinksAreLinks ==
  ASSUME Bounded, LinkInv
  PROVE  /\ LinksRevoked \in [Links -> Link]
         /\ \A t \in Links :
              /\ LinksRevoked[t].uses = link[t].uses /\ LinksRevoked[t].state # "open"
              /\ LinksRevoked[t].state = "none" => link[t].state = "none"
              /\ link[t].state # "open" => LinksRevoked[t] = link[t]
<1>1. 0 \in Passwords
  BY DEF Passwords, Bounded
<1>2. ASSUME NEW t \in Links
      PROVE  /\ LinksRevoked[t] \in Link
             /\ LinksRevoked[t].uses = link[t].uses /\ LinksRevoked[t].state # "open"
             /\ LinksRevoked[t].state = "none" => link[t].state = "none"
             /\ link[t].state # "open" => LinksRevoked[t] = link[t]
  <2>1. link[t] \in Link
    BY DEF LinkInv
  <2>2. CASE link[t].state = "open"
    <3>1. LinksRevoked[t] = [link[t] EXCEPT !.state = "revoked", !.password = 0]
      BY <2>2 DEF LinksRevoked
    <3>2. QED
      BY <1>1, <2>1, <2>2, <3>1 DEF Link
  <2>3. CASE link[t].state # "open"
    BY <2>1, <2>3 DEF LinksRevoked
  <2>4. QED
    BY <2>2, <2>3
<1>3. LinksRevoked = [t \in Links |-> LinksRevoked[t]]
  BY DEF LinksRevoked
<1>4. QED
  BY <1>2, <1>3

(* Revoked links fit the password of today and that of a change.             *)
LEMMA RevokedLinksFit ==
  ASSUME Bounded, PasswordInv, LinkInv, NEW p \in {password, password + 1}, NEW t \in Links
  PROVE  LinkFits(LinksRevoked[t], p)
<1>1. password \in Nat /\ link[t].uses \in Nat /\ LinkFits(link[t], password)
  BY DEF PasswordInv, Passwords, Bounded, LinkInv, Link
<1>2. LinksRevoked[t].uses <= p
  BY <1>1, RevokedLinksAreLinks DEF LinkFits
<1>3. role = "CUSTOMER" => LinksRevoked[t].state = "none"
  BY <1>1, RevokedLinksAreLinks DEF LinkFits
<1>4. LinksRevoked[t].uses <= 1 /\ (LinksRevoked[t].state = "none" => LinksRevoked[t].uses = 0)
  BY <1>1, RevokedLinksAreLinks DEF LinkFits
<1>5. QED
  BY <1>2, <1>3, <1>4, RevokedLinksAreLinks DEF LinkFits

(* The links before it are revoked and a new one is made.                    *)
LEMMA LinkIsMade ==
  ASSUME Bounded, PasswordInv, LinkInv, UNCHANGED <<role, password>>, role = "STAFF", NEW x,
         link' = [LinksRevoked EXCEPT ![x] = [state |-> "open", password |-> password, uses |-> 0]]
  PROVE  LinkInv'
<1> DEFINE row == [state |-> "open", password |-> password, uses |-> 0]
<1>1. row \in Link
  BY DEF Link, PasswordInv, Passwords, Bounded
<1>2. LinkFits(row, password)
  BY DEF LinkFits, PasswordInv, Passwords
<1>3. link' = [LinksRevoked EXCEPT ![x] = row]
  OBVIOUS
<1> HIDE DEF row
<1>4. \A t \in Links : LinkFits(LinksRevoked[t], password)
  BY RevokedLinksFit
<1>5. \A t \in Links : LinkFits(link'[t], password)
  BY <1>2, <1>3, <1>4, RevokedLinksAreLinks
<1>6. link' \in [Links -> Link]
  BY <1>1, <1>3, RevokedLinksAreLinks
<1>7. QED
  BY <1>5, <1>6 DEF LinkInv, LinkFits

(* An open link is revoked: it could not be mailed, or it expires.           *)
LEMMA LinkIsRevoked ==
  ASSUME Bounded, LinkInv, UNCHANGED <<role, password>>, NEW t, link[t].state = "open",
         link' = [link EXCEPT ![t].state = "revoked", ![t].password = 0]
  PROVE  LinkInv'
<1> DEFINE row == [link[t] EXCEPT !.state = "revoked", !.password = 0]
<1>1. link' = [link EXCEPT ![t] = row]
  OBVIOUS
<1>2. ASSUME t \in Links PROVE row \in Link /\ LinkFits(row, password)
  <2>1. link[t] \in Link /\ LinkFits(link[t], password)
    BY <1>2 DEF LinkInv
  <2>2. 0 \in Passwords
    BY DEF Passwords, Bounded
  <2>3. row \in Link /\ row.state = "revoked" /\ row.uses = link[t].uses
    BY <2>1, <2>2 DEF Link
  <2>4. role # "CUSTOMER"
    BY <2>1 DEF LinkFits
  <2>5. QED
    BY <2>1, <2>3, <2>4 DEF LinkFits
<1> HIDE DEF row
<1>3. QED
  BY <1>1, <1>2 DEF LinkInv, LinkFits

(* A change of the password revokes the open links; for customers, who have  *)
(* none, nothing is done.                                                    *)
LEMMA LinksEndWithChange ==
  ASSUME Bounded, PasswordInv, LinkInv, UNCHANGED role, password' = password + 1,
         \/ link' = LinksRevoked
         \/ role = "CUSTOMER" /\ UNCHANGED link
  PROVE  LinkInv'
<1>1. link' = LinksRevoked
  <2>1. ASSUME role = "CUSTOMER", UNCHANGED link PROVE link' = LinksRevoked
    <3>1. \A t \in Links : link[t].state # "open"
      BY <2>1 DEF LinkInv, LinkFits
    <3>2. QED
      BY Zenon, <2>1, <3>1 DEF LinkInv, LinksRevoked
  <2>2. QED
    BY <2>1
<1>2. \A t \in Links : LinkFits(LinksRevoked[t], password + 1)
  BY RevokedLinksFit
<1>3. QED
  BY <1>1, <1>2, RevokedLinksAreLinks DEF LinkInv, LinkFits

(* The password is changed with a link.                                      *)
LEMMA LinkIsSpent ==
  ASSUME Bounded, PasswordInv, LinkInv, UNCHANGED role, NEW t, link[t].state = "open",
         password < MaxPasswords, password' = password + 1,
         link' = [LinksRevoked EXCEPT ![t].state = "used", ![t].uses = link[t].uses + 1]
  PROVE  LinkInv'
<1> DEFINE row == [LinksRevoked[t] EXCEPT !.state = "used", !.uses = link[t].uses + 1]
<1>1. link' = [LinksRevoked EXCEPT ![t] = row]
  BY RevokedLinksAreLinks
<1>2. ASSUME t \in Links PROVE row \in Link /\ LinkFits(row, password + 1)
  <2>1. link[t].uses = 0 /\ role # "CUSTOMER"
    BY <1>2 DEF LinkInv, LinkFits
  <2>2. password \in Nat /\ 1 \in 0..MaxPasswords
    BY DEF PasswordInv, Passwords, Bounded
  <2>3. LinksRevoked[t] \in Link
    BY <1>2, RevokedLinksAreLinks
  <2> DEFINE old == LinksRevoked[t]
  <2>4. row = [old EXCEPT !.state = "used", !.uses = 1]
    BY <2>1
  <2> HIDE DEF old, row
  <2>6. old \in Link
    BY <2>3 DEF old
  <2>7. row \in Link /\ row.state = "used" /\ row.uses = 1
    BY <2>2, <2>4, <2>6 DEF Link
  <2>5. QED
    BY <2>1, <2>2, <2>7 DEF LinkFits
<1> HIDE DEF row
<1>3. \A u \in Links : LinkFits(LinksRevoked[u], password + 1)
  BY RevokedLinksFit
<1>4. link' \in [Links -> Link]
  BY <1>1, <1>2, RevokedLinksAreLinks
<1>5. \A u \in Links : LinkFits(link'[u], password + 1)
  BY <1>1, <1>2, <1>3, RevokedLinksAreLinks
<1>6. QED
  BY <1>4, <1>5 DEF LinkInv, LinkFits

-----------------------------------------------------------------------------
(* Requests, and the password itself.                                        *)

(* A request goes on to its next statement.                                  *)
LEMMA RequestGoes ==
  ASSUME RequestInv, NEW r,
         NEW pc \in {"idle", "login", "createCode", "sendCode", "resetByCode", "reread", "mailLink",
                     "resetByLink", "change"},
         NEW row \in Sessions \cup Codes \cup Links \cup {"none"}, NEW known \in Passwords,
         Go(r, pc, row, known)
  PROVE  RequestInv'
BY DEF RequestInv, Go, Request

(* A request ends.                                                           *)
LEMMA RequestEnds ==
  ASSUME Bounded, RequestInv, NEW r, End(r)
  PROVE  RequestInv'
<1>1. Idle \in Request
  BY DEF Idle, Request, Passwords, Bounded
<1>2. QED
  BY <1>1 DEF RequestInv, End

(* No request goes on.                                                       *)
LEMMA RequestsStay ==
  ASSUME RequestInv, UNCHANGED request
  PROVE  RequestInv'
BY DEF RequestInv

(* The password is not changed.                                              *)
LEMMA PasswordStays ==
  ASSUME PasswordInv, UNCHANGED <<role, password, reset>>
  PROVE  PasswordInv'
BY DEF PasswordInv

(* The password is changed once, with a staff code or without.               *)
LEMMA PasswordChanges ==
  ASSUME Bounded, PasswordInv, UNCHANGED role, password < MaxPasswords, password' = password + 1,
         reset' \in {reset, password'}
  PROVE  PasswordInv'
BY DEF PasswordInv, Passwords, Bounded

-----------------------------------------------------------------------------
(* The first password, nobody logged in.                                     *)
LEMMA InitEstablishes == ASSUME Bounded, Init PROVE RecoveryInv
<1>1. 0 \in Passwords
  BY DEF Passwords, Bounded
<1>2. PasswordInv
  BY <1>1 DEF Init, PasswordInv, Passwords
<1>3. SessionInv
  BY <1>1 DEF Init, SessionInv, SessionFits, Session
<1>4. CodeInv
  BY <1>1 DEF Init, CodeInv, CodeFits, Code, Passwords
<1>5. LinkInv
  BY <1>1 DEF Init, LinkInv, LinkFits, Link, Passwords
<1>6. RequestInv
  BY <1>1 DEF Init, RequestInv, Request, Idle
<1>7. QED
  BY <1>2, <1>3, <1>4, <1>5, <1>6 DEF RecoveryInv

(* The actions, each by what it does to the four tables.                     *)

(* Logging in and out, and giving up.                                        *)
LEMMA SessionSteps ==
  ASSUME Bounded, RecoveryInv,
         \/ \E r \in Requests : Login(r) \/ CreateSession(r) \/ Abort(r)
         \/ \E s \in Sessions : Logout(s)
  PROVE  RecoveryInv'
<1> USE DEF RecoveryInv
<1>1. ASSUME NEW r \in Requests, Login(r) PROVE RecoveryInv'
  <2>1. RequestInv'
    BY <1>1, RequestGoes DEF Login, PasswordInv
  <2>2. QED
    BY <1>1, <2>1, PasswordStays, SessionsStay, CodesStay, LinksStay DEF Login, tables
<1>2. ASSUME NEW r \in Requests, CreateSession(r) PROVE RecoveryInv'
  <2> DEFINE known == request[r].password
             row == [state |-> "live", password |-> known,
                     late |-> IF known = password THEN "no" ELSE "yes"]
  <2>1. known \in Passwords
    BY DEF RequestInv, Request
  <2>2. row \in Session /\ SessionFits(row, password)
    BY <2>1 DEF Session, SessionFits
  <2>3. session' = [session EXCEPT ![Unused(session)] = row]
    BY <1>2 DEF CreateSession
  <2> HIDE DEF known, row
  <2>4. SessionInv'
    BY <1>2, <2>2, <2>3, OneSessionSet DEF CreateSession
  <2>5. RequestInv'
    BY <1>2, RequestEnds DEF CreateSession
  <2>6. QED
    BY <1>2, <2>4, <2>5, PasswordStays, CodesStay, LinksStay DEF CreateSession
<1>3. ASSUME NEW r \in Requests, Abort(r) PROVE RecoveryInv'
  <2>1. RequestInv'
    BY <1>3, RequestEnds DEF Abort
  <2>2. QED
    BY <1>3, <2>1, PasswordStays, SessionsStay, CodesStay, LinksStay DEF Abort, tables
<1>4. ASSUME NEW s \in Sessions, Logout(s) PROVE RecoveryInv'
  <2> DEFINE row == [state |-> "revoked", password |-> 0, late |-> "no"]
  <2>1. row \in Session /\ SessionFits(row, password)
    BY ClosedSession
  <2>2. session' = [session EXCEPT ![s] = row]
    BY <1>4 DEF Logout
  <2> HIDE DEF row
  <2>3. SessionInv'
    BY <1>4, <2>1, <2>2, OneSessionSet DEF Logout
  <2>4. QED
    BY <1>4, <2>3, PasswordStays, CodesStay, LinksStay, RequestsStay DEF Logout
<1>5. QED
  BY <1>1, <1>2, <1>3, <1>4

(* Codes are asked for, sent, handed in wrongly and expire.                  *)
LEMMA CodeSteps ==
  ASSUME Bounded, RecoveryInv,
         \/ \E r \in Requests :
              RequestCode(r) \/ CreateCode(r) \/ SendCode(r) \/ SubmitCode(r) \/ WrongCode(r)
         \/ \E c \in Codes : CodeExpires(c)
  PROVE  RecoveryInv'
<1> USE DEF RecoveryInv
<1>1. 0 \in Passwords
  BY DEF Passwords, Bounded
<1>2. ASSUME NEW r \in Requests, RequestCode(r) PROVE RecoveryInv'
  <2>1. RequestInv'
    BY <1>1, <1>2, RequestGoes DEF RequestCode
  <2>2. CodeInv'
    BY <1>2, CodesAreClosed DEF RequestCode
  <2>3. QED
    BY <1>2, <2>1, <2>2, PasswordStays, SessionsStay, LinksStay DEF RequestCode
<1>3. ASSUME NEW r \in Requests, CreateCode(r) PROVE RecoveryInv'
  <2>1. Unused(code) \in Codes
    BY <1>3 DEF CreateCode, HasUnused, Unused, CodeInv
  <2>2. RequestInv'
    BY <1>1, <1>3, <2>1, RequestGoes DEF CreateCode
  <2>3. CodeInv'
    BY <1>3, CodeIsMade DEF CreateCode
  <2>4. QED
    BY <1>3, <2>2, <2>3, PasswordStays, SessionsStay, LinksStay DEF CreateCode
<1>4. ASSUME NEW r \in Requests, SendCode(r) PROVE RecoveryInv'
  <2>1. RequestInv'
    BY <1>4, RequestEnds DEF SendCode
  <2>2. \/ UNCHANGED code
        \/ \E closed : code' = CodesClosed(closed)
        \/ \E c \in Unconsumed, state \in {"sent", "failed"} : code' = [code EXCEPT ![c].state = state]
    BY <1>4 DEF SendCode
  <2>3. CodeInv'
    BY <1>4, <2>2, CodesStay, CodesAreClosed, CodeIsDelivered DEF SendCode
  <2>4. QED
    BY <1>4, <2>1, <2>3, PasswordStays, SessionsStay, LinksStay DEF SendCode
<1>5. ASSUME NEW r \in Requests, SubmitCode(r) PROVE RecoveryInv'
  <2>1. RequestInv'
    BY <1>1, <1>5, RequestGoes DEF SubmitCode
  <2>2. QED
    BY <1>5, <2>1, PasswordStays, SessionsStay, CodesStay, LinksStay DEF SubmitCode, tables
<1>6. ASSUME NEW r \in Requests, WrongCode(r) PROVE RecoveryInv'
  <2>1. RequestInv'
    BY <1>6, RequestEnds DEF WrongCode
  <2>2. CodeInv'
    BY <1>6, CodesStay, CodesAreClosed DEF WrongCode
  <2>3. QED
    BY <1>6, <2>1, <2>2, PasswordStays, SessionsStay, LinksStay DEF WrongCode
<1>7. ASSUME NEW c \in Codes, CodeExpires(c) PROVE RecoveryInv'
  <2>1. CodeInv'
    BY <1>7, CodesAreClosed DEF CodeExpires
  <2>2. QED
    BY <1>7, <2>1, PasswordStays, SessionsStay, LinksStay, RequestsStay DEF CodeExpires
<1>8. QED
  BY <1>2, <1>3, <1>4, <1>5, <1>6, <1>7

(* Links are asked for, mailed, handed in and expire.                        *)
LEMMA LinkSteps ==
  ASSUME Bounded, RecoveryInv,
         \/ \E r \in Requests : RequestLink(r) \/ MailLink(r) \/ SubmitLink(r) \/ BeginChange(r)
         \/ \E t \in Links : LinkExpires(t)
  PROVE  RecoveryInv'
<1> USE DEF RecoveryInv
<1>1. 0 \in Passwords
  BY DEF Passwords, Bounded
<1>2. ASSUME NEW r \in Requests, RequestLink(r) PROVE RecoveryInv'
  <2>1. Unused(link) \in Links
    BY <1>2 DEF RequestLink, HasUnused, Unused, LinkInv
  <2>2. RequestInv'
    BY <1>1, <1>2, <2>1, RequestGoes DEF RequestLink
  <2>3. LinkInv'
    BY <1>2, LinkIsMade DEF RequestLink
  <2>4. QED
    BY <1>2, <2>2, <2>3, PasswordStays, SessionsStay, CodesStay DEF RequestLink
<1>3. ASSUME NEW r \in Requests, MailLink(r) PROVE RecoveryInv'
  <2>1. RequestInv'
    BY <1>3, RequestEnds DEF MailLink
  <2>2. LinkInv'
    BY <1>3, LinksStay, LinkIsRevoked DEF MailLink
  <2>3. QED
    BY <1>3, <2>1, <2>2, PasswordStays, SessionsStay, CodesStay DEF MailLink
<1>4. ASSUME NEW r \in Requests, SubmitLink(r) PROVE RecoveryInv'
  <2>1. RequestInv'
    BY <1>1, <1>4, RequestGoes DEF SubmitLink
  <2>2. QED
    BY <1>4, <2>1, PasswordStays, SessionsStay, CodesStay, LinksStay DEF SubmitLink, tables
<1>5. ASSUME NEW r \in Requests, BeginChange(r) PROVE RecoveryInv'
  <2>1. RequestInv'
    BY <1>1, <1>5, RequestGoes DEF BeginChange
  <2>2. QED
    BY <1>5, <2>1, PasswordStays, SessionsStay, CodesStay, LinksStay DEF BeginChange, tables
<1>6. ASSUME NEW t \in Links, LinkExpires(t) PROVE RecoveryInv'
  <2>1. LinkInv'
    BY <1>6, LinkIsRevoked DEF LinkExpires
  <2>2. QED
    BY <1>6, <2>1, PasswordStays, SessionsStay, CodesStay, RequestsStay DEF LinkExpires
<1>7. QED
  BY <1>2, <1>3, <1>4, <1>5, <1>6

(* The three ways to change the password.                                    *)
LEMMA ChangeSteps ==
  ASSUME Bounded, RecoveryInv,
         \E r \in Requests : ResetByCode(r) \/ ResetByLink(r) \/ ChangePassword(r)
  PROVE  RecoveryInv'
<1> USE DEF RecoveryInv
<1>1. ASSUME NEW r \in Requests, ResetByCode(r) PROVE RecoveryInv'
  <2> DEFINE c == request[r].row
  <2>1. /\ role = "STAFF" => c \in Unconsumed
        /\ password < MaxPasswords /\ password' = password + 1 /\ UNCHANGED role
        /\ session' = SessionsRevoked("none")
        /\ code' = [CodesClosed(ClosedByReset(c)) EXCEPT ![c].uses = @ + 1]
        /\ reset' = IF role = "STAFF" THEN password' ELSE reset
        /\ link' = LinksRevoked \/ (role = "CUSTOMER" /\ UNCHANGED link)
    BY <1>1 DEF ResetByCode, StillUsable, Usable, PasswordInv
  <2>2. RequestInv'
    <3>1. 0 \in Passwords
      BY DEF Passwords, Bounded
    <3>2. End(r) \/ Go(r, "reread", "none", 0)
      BY <1>1 DEF ResetByCode
    <3>3. QED
      BY <3>1, <3>2, RequestEnds, RequestGoes
  <2> HIDE DEF c
  <2>3. PasswordInv'
    BY <2>1, PasswordChanges
  <2>4. SessionInv'
    BY <2>1, SessionsChange
  <2>5. CodeInv'
    BY <2>1, CodeIsSpent
  <2>6. LinkInv'
    BY <2>1, LinksEndWithChange
  <2>7. QED
    BY <2>2, <2>3, <2>4, <2>5, <2>6
<1>2. ASSUME NEW r \in Requests, ResetByLink(r) PROVE RecoveryInv'
  <2>1. PasswordInv' /\ SessionInv' /\ CodeInv'
    BY <1>2, PasswordChanges, SessionsChange, CodesOutliveChange DEF ResetByLink
  <2>2. LinkInv'
    BY <1>2, LinkIsSpent DEF ResetByLink
  <2>3. RequestInv'
    BY <1>2, RequestEnds DEF ResetByLink
  <2>4. QED
    BY <2>1, <2>2, <2>3
<1>3. ASSUME NEW r \in Requests, ChangePassword(r) PROVE RecoveryInv'
  <2>1. PasswordInv' /\ SessionInv' /\ CodeInv'
    BY <1>3, PasswordChanges, SessionsChange, CodesOutliveChange DEF ChangePassword
  <2>2. LinkInv'
    BY <1>3, LinksEndWithChange DEF ChangePassword
  <2>3. RequestInv'
    BY <1>3, RequestEnds DEF ChangePassword
  <2>4. QED
    BY <2>1, <2>2, <2>3
<1>4. QED
  BY <1>1, <1>2, <1>3

(* Every state satisfies the invariant.                                      *)
THEOREM RecoveryKept == ASSUME Bounded PROVE Spec => []RecoveryInv
<1>1. Init => RecoveryInv
  BY InitEstablishes
<1>2. RecoveryInv /\ [Next]_vars => RecoveryInv'
  <2>1. ASSUME RecoveryInv, UNCHANGED vars PROVE RecoveryInv'
    BY <2>1, PasswordStays, SessionsStay, CodesStay, LinksStay, RequestsStay DEF RecoveryInv, vars
  <2>2. ASSUME RecoveryInv, Next PROVE RecoveryInv'
    BY <2>2, SessionSteps, CodeSteps, LinkSteps, ChangeSteps DEF Next
  <2>3. QED
    BY <2>1, <2>2
<1>3. QED
  BY <1>1, <1>2, PTL DEF Spec

(* Every row has its type, and no code or link counts more uses than there   *)
(* were changes of the password.                                             *)
THEOREM TypeCorrect == ASSUME Bounded PROVE Spec => []TypeOK
<1>1. RecoveryInv => TypeOK
  BY DEF RecoveryInv, PasswordInv, SessionInv, CodeInv, LinkInv, RequestInv, TypeOK
<1>2. QED
  BY <1>1, RecoveryKept, PTL

(* However many requests hand in one code or one link at the same moment,    *)
(* the password of a member of staff is changed once with it.                *)
THEOREM CodesAndLinksWorkOnce == ASSUME Bounded PROVE Spec => []RecoveredOnce
<1>1. RecoveryInv => RecoveredOnce
  BY DEF RecoveryInv, CodeInv, CodeFits, LinkInv, LinkFits, RecoveredOnce
<1>2. QED
  BY <1>1, RecoveryKept, PTL

(* After a change of the password nothing from before it is of use: no link, *)
(* after a reset with a code no other code, no session but a late one.       *)
THEOREM NothingOutlivesChange == ASSUME Bounded PROVE Spec => []ChangeEndsTheRest
<1>1. RecoveryInv => LinksEnd
  BY DEF RecoveryInv, LinkInv, LinkFits, LinksEnd
<1>2. RecoveryInv => CodesEnd
  BY DEF RecoveryInv, CodeInv, CodeFits, CodesEnd, Usable, Unconsumed
<1>3. RecoveryInv => SessionsEnd
  BY DEF RecoveryInv, SessionInv, SessionFits, SessionsEnd
<1>4. QED
  BY <1>1, <1>2, <1>3, RecoveryKept, PTL DEF ChangeEndsTheRest

-----------------------------------------------------------------------------
(* The rows, calls, requests and runs of every part keep their types.        *)
THEOREM TypesOfParts ==
  ASSUME Provider!Parameters, Meter!Parameters, Bounded, BillingParameters
  PROVE  PartsSpec => []TypesOK
<1>1. PartsSpec => []Repair!TypeOK
  BY PartsAreTheirSpecs, RepairTypeCorrect, PTL
<1>2. PartsSpec => []Provider!TypeOK
  BY PartsAreTheirSpecs, Provider!TypeCorrect, PTL
<1>3. PartsSpec => []TypeOK
  BY PartsAreTheirSpecs, TypeCorrect, PTL
<1>4. PartsSpec => []Meter!TypeOK
  BY PartsAreTheirSpecs, Meter!TypeCorrect, PTL
<1>5. PartsSpec => []Billing!TypeOK
  <2>1. Billing!Spec => []Billing!TypeOK
    BY Billing!TypeCorrect DEF BillingParameters
  <2>2. QED
    BY <2>1, PartsAreTheirSpecs, PTL
<1>6. Repair!TypeOK /\ Provider!TypeOK /\ TypeOK /\ Meter!TypeOK /\ Billing!TypeOK => TypesOK
  BY DEF TypesOK
<1>7. QED
  BY <1>1, <1>2, <1>3, <1>4, <1>5, <1>6, PTL
=============================================================================
