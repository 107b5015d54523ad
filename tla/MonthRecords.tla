---------------------------- MODULE MonthRecords ----------------------------
(***************************************************************************)
(* Who writes the energy of a month: the row of MonthlyEnergyRecord of one *)
(* system and one month, under its five writers -- the history sync of the *)
(* provider, by schedule or by staff, the aggregate of the daily records   *)
(* behind it, the closing job, and the entries of staff                    *)
(* (deye-history-sync, luxpower-connections, solarman-connections,         *)
(* monitor-sync and operational-data of the backend).                      *)
(*                                                                         *)
(* The table has two unique keys, (system, year, month) and                *)
(* (source, station, year, month), and the writers do not agree on the one *)
(* they upsert by.  The station of the system does not change here, and no *)
(* kWh are modelled: only whose they are.                                  *)
(***************************************************************************)
CONSTANTS
  Kinds,        \* the providers considered: SOLARMAN (web session), SOLARMAN_LEGACY,
                \* SEMS, DEYE and LUXPOWER
  Workers       \* who writes: the schedule of monitor-sync, the provider's own timer,
                \* staff who start a sync, the closing job, and the desk, where months
                \* are entered by hand

VARIABLES
  kind,     \* the provider of the system
  row,      \* the source of the month's row: "monthly" or "daily", of the provider,
            \* "manual" for MANUAL_ENTRY and CSV_IMPORT
  bill,     \* the month's MonthlyPvBilling: "locked" by a manual override
  daily,    \* the month has daily records with a positive sum
  work,     \* work[w]: where the sync, job or request w stands
  since     \* history: who was at work when the month was locked last

vars == <<kind, row, bill, daily, work, since>>

-----------------------------------------------------------------------------
Resting == {"idle", "refused"}
Stages == Resting \cup {"fetch", "look", "write", "month_bill", "aggregate", "bill", "entry_bill"}

Working == {w \in Workers : work[w] \notin Resting}

Goto(w, stage) == work' = [work EXCEPT ![w] = stage]

(* monthlyPvBillingsService.sync: kWh given by a user are an override, which  *)
(* later syncs leave in place.                                               *)
BilledBy(w) == IF bill = "locked" \/ w \in {"staff", "desk"} THEN "locked" ELSE "provider"

Init ==
  /\ kind \in Kinds
  /\ row = "none" /\ bill = "none" /\ daily = "no" /\ since = {}
  /\ work = [w \in Workers |-> "idle"]

-----------------------------------------------------------------------------
(* History: by schedule (syncHistory), by the timer of a connection, or by    *)
(* staff from its page.                                                      *)

HasMonths == {"SOLARMAN", "DEYE", "LUXPOWER"}      \* the provider is asked for months

BeginHistory(w) ==
  /\ w \in {"schedule", "timer", "staff"}
  /\ work[w] \in Resting
  /\ Goto(w, "fetch")
  /\ UNCHANGED <<kind, row, bill, daily, since>>

(* What follows the months: the schedule goes on to the daily records, unless *)
(* the web session's sync was all there was to do.                           *)
AfterMonths(w) ==
  IF w = "schedule" /\ kind # "SOLARMAN" THEN "aggregate" ELSE "idle"

(* The answer's days are stored; it may hold the month or not.                *)
StoreDays(w) ==
  /\ work[w] = "fetch"
  /\ daily' \in {daily, "yes"}
  /\ \/ Goto(w, AfterMonths(w))
     \/ /\ kind \in HasMonths
        /\ Goto(w, IF kind = "SOLARMAN" THEN "look" ELSE "write")
  /\ UNCHANGED <<kind, row, bill, since>>

RowIsManual == row = "manual"      \* faulty variant of ManuallyLocked
ManuallyLocked == row = "manual" \/ bill = "locked"

(* SOLARMAN: the month's row and its billing are read first.                 *)
Look(w) ==
  /\ work[w] = "look"
  /\ Goto(w, IF ManuallyLocked THEN AfterMonths(w) ELSE "write")
  /\ UNCHANGED <<kind, row, bill, daily, since>>

(* SOLARMAN upserts by system and month, whoever wrote the row last.  It sums *)
(* up days itself when the answer has any.                                   *)
WriteBySystem(w) ==
  /\ work[w] = "write" /\ kind = "SOLARMAN"
  /\ row' \in {"monthly", "daily"}
  /\ Goto(w, "month_bill") \/ Goto(w, AfterMonths(w))
  /\ UNCHANGED <<kind, bill, daily, since>>

(* Deye and LuxPower upsert by source, station and month.  A row of another   *)
(* source is not found, and the insert fails on the key of system and month, *)
(* which ends the sync.                                                      *)
WriteByStation(w) ==
  /\ work[w] = "write" /\ kind \in {"DEYE", "LUXPOWER"}
  /\ IF row \in {"none", "monthly"}
     THEN row' = "monthly" /\ (Goto(w, "month_bill") \/ Goto(w, AfterMonths(w)))
     ELSE UNCHANGED row /\ Goto(w, "refused")
  /\ UNCHANGED <<kind, bill, daily, since>>

(* A billing that cannot be synced is a warning, or nothing.                  *)
BillMonth(w) ==
  /\ work[w] = "month_bill"
  /\ bill' \in {bill, BilledBy(w)}
  /\ since' = IF bill' = "locked" THEN Working ELSE since
  /\ Goto(w, AfterMonths(w))
  /\ UNCHANGED <<kind, row, daily>>

-----------------------------------------------------------------------------
(* Daily records, summed up behind the scheduled history and at 23:55 and    *)
(* 00:05 by the closing job                                                  *)

BeginClosing ==
  /\ "closing" \in Workers /\ work["closing"] \in Resting
  /\ Goto("closing", "aggregate")
  /\ UNCHANGED <<kind, row, bill, daily, since>>

(* upsertMonthlyAggregateFromDaily: by system and month                      *)
Aggregate(w) ==
  /\ work[w] = "aggregate"
  /\ row' = IF daily = "yes" THEN "daily" ELSE row
  /\ Goto(w, "bill")
  /\ UNCHANGED <<kind, bill, daily, since>>

(* syncMonthlyBillingFromDaily: if it fails, so does the sync, after the row. *)
BillDays(w) ==
  /\ work[w] = "bill"
  /\ bill' \in (IF daily = "yes" THEN {bill, BilledBy(w)} ELSE {bill})
  /\ Goto(w, "idle")
  /\ UNCHANGED <<kind, row, daily, since>>

-----------------------------------------------------------------------------
(* Staff *)

(* upsertSystemRecord, for a form or for every row of a CSV or Excel file     *)
EnterMonth ==
  /\ "desk" \in Workers /\ work["desk"] \in Resting
  /\ row' = "manual" /\ since' = Working
  /\ Goto("desk", "entry_bill")
  /\ UNCHANGED <<kind, bill, daily>>

BillEntry ==
  /\ "desk" \in Workers /\ work["desk"] = "entry_bill"
  /\ bill' \in {bill, BilledBy("desk")}
  /\ since' = Working
  /\ Goto("desk", "idle")
  /\ UNCHANGED <<kind, row, daily>>

(* The kWh of the month's billing are corrected.                              *)
OverrideBilling ==
  /\ "desk" \in Workers /\ work["desk"] \in Resting
  /\ bill' = "locked" /\ since' = Working
  /\ UNCHANGED <<kind, row, daily, work>>

-----------------------------------------------------------------------------
HistoryStep(w) ==
  \/ BeginHistory(w) \/ StoreDays(w) \/ Look(w)
  \/ WriteBySystem(w) \/ WriteByStation(w) \/ BillMonth(w)
  \/ Aggregate(w) \/ BillDays(w)

Next ==
  \/ \E w \in Workers : HistoryStep(w)
  \/ BeginClosing
  \/ EnterMonth \/ BillEntry \/ OverrideBilling

Spec == Init /\ [][Next]_vars

-----------------------------------------------------------------------------
(* The tables and local states only take these values.                       *)
TypeOK ==
  /\ kind \in Kinds
  /\ row \in {"none", "manual", "monthly", "daily"}
  /\ bill \in {"none", "provider", "locked"}
  /\ daily \in {"no", "yes"}
  /\ work \in [Workers -> Stages]
  /\ since \subseteq Workers

(* No history sync writes over a month that staff entered, nor SOLARMAN's over *)
(* one whose billing has an override, unless staff did so while it was at    *)
(* work: what is locked is read one statement before it is written.          *)
HistoryKeepsManualMonths ==
  [][\A w \in Workers :
       /\ work[w] = "write" /\ work'[w] # "write" /\ row' # row
       /\ row = "manual" \/ (kind = "SOLARMAN" /\ bill = "locked")
       => w \in since]_vars

(* deploy-status.md: "CSV/manual/admin-sync/manual-override sources are locked *)
(* against provider overwrite".  That holds even of what was entered while no *)
(* sync was at work.                                                         *)
ManualMonthIsLocked == [][(row = "manual" /\ since = {}) => row' = "manual"]_vars

(* README.md, of Deye's history: it "upserts `MonthlyEnergyRecord`".  A sync   *)
(* that is repeated, without any other at work, is not refused by the unique *)
(* keys of the table.                                                        *)
HistoryIsUpserted == \A w \in Workers : work[w] # "refused"
=============================================================================
