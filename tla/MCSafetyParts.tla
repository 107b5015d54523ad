---------------------------- MODULE MCSafetyParts ----------------------------
(***************************************************************************)
(* Parts of the platform that share no rows, checked side by side: a       *)
(* behaviour is one of a single part, and the others rest.  No fairness is *)
(* assumed, so whatever is interchangeable is taken as symmetric.          *)
(***************************************************************************)
EXTENDS PasswordRecovery, TLC

CONSTANTS
  RepairMonths, Meanwhile,                                          \* MonthRepair
  Accounts, Calls, RequestsOfCall, MaxSessions, EditsInFlight,      \* ProviderSessions
  LastMonth, Loads, Readings, NoValue, MaxEntries, MaxFaults,       \* MeterReadings
  BilledInvoices, NoInvoice, Records, BillingJobs, MaxKwh           \* MonthlyBilling

VARIABLES
  part,
  energy, billing, invoice, tool,
  kind, account, made, alive, store, editing, call,
  meter, run, settled, entries, faults,
  billed, record, job, recorded, today

repairVars == <<energy, billing, invoice, tool>>
providerVars == <<kind, account, made, alive, store, editing, call>>
meterVars == <<meter, run, settled, entries, faults>>
billingVars == <<billed, record, job, recorded, today>>
allVars == <<part, repairVars, providerVars, vars, meterVars, billingVars>>

(* Three parts are taken with what is proved of them, for SafetyPartsProofs  *)
(* to cite.                                                                  *)
Repair == INSTANCE MonthRepair WITH Months <- RepairMonths
Provider == INSTANCE ProviderSessionsProofs WITH Requests <- RequestsOfCall
Meter == INSTANCE MeterReadingsProofs WITH row <- meter
Billing ==
  INSTANCE MonthlyBillingProofs
    WITH Invoices <- BilledInvoices, invoice <- billed, Procs <- BillingJobs, MaxTotal <- MaxKwh,
         MaxMonth <- LastMonth, energy <- recorded, now <- today, DaysInMonth <- 2,
         StableSource <- TRUE, AllowPeriodMove <- FALSE, JobsFail <- FALSE,
         PayDuringJobs <- FALSE, StaleReceipts <- FALSE

(* A part that rests has one initial state.                                  *)
PartsInit ==
  /\ part \in {"repair", "provider", "recovery", "meter", "billing"}
  /\ Repair!Init /\ Provider!Init /\ Init /\ Meter!Init /\ Billing!Init
  /\ part # "repair" =>
       \A m \in RepairMonths :
         /\ invoice[m] = "none" /\ billing[m].state = "none"
         /\ energy[m] = [state |-> "live", source |-> "manual", station |-> "other",
                         signature |-> "no", early |-> "no", edited |-> "no"]
  /\ part # "provider" => kind = "SEMS"
  /\ part # "recovery" => role = "STAFF"

PartsNext ==
  \/ /\ part = "repair" /\ Repair!Next
     /\ UNCHANGED <<part, providerVars, vars, meterVars, billingVars>>
  \/ /\ part = "provider" /\ Provider!Next
     /\ UNCHANGED <<part, repairVars, vars, meterVars, billingVars>>
  \/ /\ part = "recovery" /\ Next
     /\ UNCHANGED <<part, repairVars, providerVars, meterVars, billingVars>>
  \/ /\ part = "meter" /\ Meter!Next
     /\ UNCHANGED <<part, repairVars, providerVars, vars, billingVars>>
  \/ /\ part = "billing" /\ Billing!Next
     /\ UNCHANGED <<part, repairVars, providerVars, vars, meterVars>>

PartsSpec == PartsInit /\ [][PartsNext]_allVars

(* Calls and requests share their values: only one part moves.               *)
Symmetry == Permutations(Requests)

-----------------------------------------------------------------------------
(* The types of the part that is not at rest.                                *)
TypesOK ==
  /\ part = "repair" => Repair!TypeOK
  /\ part = "provider" => Provider!TypeOK
  /\ part = "recovery" => TypeOK
  /\ part = "meter" => Meter!TypeOK
  /\ part = "billing" => Billing!TypeOK

RepairIsWhole == Repair!RepairIsWhole
AuthoritativeDataStands == Repair!AuthoritativeDataStands

SessionFitsAccount == Provider!SessionFitsAccount
DeadSessionCostsALogin == Provider!DeadSessionCostsALogin

ReadingsChain == Meter!ReadingsChain
SettledReadingsStand == Meter!SettledReadingsStand

InvoiceShowsRecord == Billing!InvoiceShowsRecord
(* Billing!BilledByTheBook, in the form that costs TLC least: only billing    *)
(* steps change what a month stands at.                                      *)
BilledByTheBook ==
  /\ Billing!Book!BookInit
  /\ [][part = "billing" => Billing!Book!BookNext]_(Billing!Book!bookVars)
=============================================================================
