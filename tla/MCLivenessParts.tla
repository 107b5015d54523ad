--------------------------- MODULE MCLivenessParts ---------------------------
(***************************************************************************)
(* Parts of the platform that share no rows and have something to promise  *)
(* in the end, checked side by side: a behaviour is one of a single part,  *)
(* and the others rest.                                                    *)
(***************************************************************************)
EXTENDS MonitorSync

CONSTANTS
  LastMonth, Loads, Readings, NoValue, MaxEntries, MaxMeterFaults,    \* MeterReadings
  Tabs, Sessions                                                   \* BrowserSession

VARIABLES
  part,
  meter, run, settled, entries, meterFaults,
  store, access, alive, page, refresh, call, stream

meterVars == <<meter, run, settled, entries, meterFaults>>
browserVars == <<store, access, alive, page, refresh, call, stream>>
allVars == <<part, vars, meterVars, browserVars>>

(* Taken with what is proved about it, for LivenessPartsProofs to cite.      *)
Meter ==
  INSTANCE MeterReadingsProofs
    WITH row <- meter, MaxFaults <- MaxMeterFaults, faults <- meterFaults
Browser == INSTANCE BrowserSession

PartsInit ==
  /\ part \in {"sync", "meter", "browser"}
  /\ Init /\ Meter!Init /\ Browser!Init

SyncOnly(A) == part = "sync" /\ A /\ UNCHANGED <<part, meterVars, browserVars>>
MeterOnly(A) == part = "meter" /\ A /\ UNCHANGED <<part, vars, browserVars>>
BrowserOnly(A) == part = "browser" /\ A /\ UNCHANGED <<part, vars, meterVars>>

PartsNext == SyncOnly(Next) \/ MeterOnly(Meter!Next) \/ BrowserOnly(Browser!Next)

(* The fairness of every part, as its FairSpec states it.                    *)
PartsFairness ==
  /\ WF_allVars(SyncOnly(PassStep)) /\ WF_allVars(SyncOnly(TimesOut))
  /\ \A s \in Systems, k \in Scopes :
       WF_allVars(SyncOnly(NextComes(s, k))) /\ WF_allVars(SyncOnly(LastAges(s, k)))
  /\ WF_allVars(MeterOnly(Meter!RunHourlyRefresh))
  /\ \A x \in Meter!Runs : WF_allVars(MeterOnly(Meter!Proceed(x)))
  /\ \A t \in Tabs :
       /\ WF_allVars(BrowserOnly(Browser!CallStep(t)))
       /\ WF_allVars(BrowserOnly(Browser!RefreshStep(t)))
       /\ WF_allVars(BrowserOnly(Browser!Connect(t)))
       /\ SF_allVars(BrowserOnly(Browser!StreamRejected(t)))

PartsSpec == PartsInit /\ [][PartsNext]_allVars /\ PartsFairness

-----------------------------------------------------------------------------
TypesOK == TypeOK /\ Meter!TypeOK /\ Browser!TypeOK

NobodyWaitsAlone == Browser!NobodyWaitsAlone

ChainSettles == Meter!ChainSettles

CallsEnd == Browser!CallsEnd
DeadSessionIsLeft == Browser!DeadSessionIsLeft
=============================================================================
