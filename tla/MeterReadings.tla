---------------------------- MODULE MeterReadings ---------------------------
(***************************************************************************)
(* The chain of meter readings of one system (operational-data.service.ts, *)
(* operational-period.helper.ts): a month starts with the reading that the *)
(* month before ended with.  The chain is recalculated after every entry,  *)
(* whenever the records are listed, and by the hourly job                  *)
(* (portal-automation.service.ts): the rows are read in one statement and  *)
(* then updated one by one, outside any transaction.                       *)
(*                                                                         *)
(* The reading of a row is its column, or the one in its payload when the  *)
(* column is empty.  Prices, warnings and the sync of billing are left out.*)
(***************************************************************************)
EXTENDS Integers

CONSTANTS
  LastMonth,   \* the months are 1..LastMonth
  Loads,       \* the consumptions that are entered, in kWh
  Readings,    \* the readings that are entered
  NoValue,     \* an empty column
  MaxEntries,  \* bound on entries and provider writes
  MaxFaults    \* bound on failing statements and restarts

VARIABLES
  row,      \* the rows of monthlyEnergyRecord
  run,      \* the recalculations at work: of a request, and of the job
  settled,  \* "yes": the last one that was not disturbed is still true
  entries, faults

vars == <<row, run, settled, entries, faults>>

-----------------------------------------------------------------------------
History == 1..LastMonth
Runs == {"request", "job"}
Maybe == Nat \cup {NoValue}

(* load: loadConsumedKwh, entered as end - start it may be negative.         *)
Row == [state : {"absent", "present"}, load : Int \cup {NoValue}, start : Maybe, end : Maybe,
        reset : {"no", "yes"}]
NoRow == [state |-> "absent", load |-> NoValue, start |-> NoValue, end |-> NoValue, reset |-> "no"]

(* seen: the rows as they were read; carried: the end of the month before;   *)
(* disturbed: somebody else has changed a row since.                         *)
Run == [pc : {"idle", "read", "write"}, at : 1..LastMonth, carried : Maybe,
        seen : [History -> Row], disturbed : {"no", "yes"}]
Idle == [pc |-> "idle", at |-> 1, carried |-> NoValue, seen |-> [m \in History |-> NoRow],
         disturbed |-> "no"]

Greatest(a, b) == IF a > b THEN a ELSE b
Else(value, other) == IF value = NoValue THEN other ELSE value

(* What buildMeterContinuityLookups makes of a row after `carried`, and      *)
(* recalculateMeterReadings of that: a month after a confirmed reset, or the *)
(* first one, starts with its own reading.                                   *)
(* SettledReadingsStand needs that to be the one it has started with.        *)
StartAtEnd(r, carried) == IF carried = NoValue \/ r.reset = "yes" THEN Else(r.end, 0) ELSE carried
Start(r, carried) == IF carried = NoValue \/ r.reset = "yes" THEN Else(r.start, 0) ELSE carried

(* TypeOK: a consumption is not less than nothing.                           *)
ConsumptionUnfloored(r, start) ==
  IF r.load # NoValue THEN r.load ELSE IF r.end # NoValue THEN r.end - start ELSE 0
Consumption(r, start) ==
  IF r.load # NoValue THEN Greatest(r.load, 0)
  ELSE IF r.end # NoValue THEN Greatest(r.end - start, 0) ELSE 0

Chained(r, carried) ==
  LET start == Start(r, carried)
      used  == Consumption(r, start)
  IN  [r EXCEPT !.start = start, !.end = start + used,
                !.load = IF r.load = NoValue /\ r.end = NoValue /\ r.start = NoValue THEN NoValue ELSE used]

-----------------------------------------------------------------------------
(* upsertSystemRecord, of the administrator's form or of a line of an        *)
(* imported file: the row is written, then the chain is recalculated.        *)
Entered(load, start, end, reset) ==
  [state |-> "present", start |-> start, end |-> end, reset |-> reset,
   load |-> IF load = NoValue /\ start # NoValue /\ end # NoValue THEN end - start ELSE load]

Disturbed(runs, by) ==
  [x \in Runs |-> IF x # by /\ runs[x].pc = "write" THEN [runs[x] EXCEPT !.disturbed = "yes"]
                  ELSE runs[x]]

Enter(m, written) ==
  /\ run["request"].pc = "idle" /\ entries < MaxEntries
  /\ row' = [row EXCEPT ![m] = written]
  /\ run' = [Disturbed(run, "request") EXCEPT !["request"].pc = "read"]
  /\ settled' = "no" /\ entries' = entries + 1
  /\ UNCHANGED faults

(* A provider's month takes the row over, its payload too: the confirmation  *)
(* of a reset is gone.  Nothing is recalculated.                             *)
ProviderWrites(m, load) ==
  /\ entries < MaxEntries /\ entries' = entries + 1
  /\ row' = [row EXCEPT ![m] = [@ EXCEPT !.state = "present", !.load = load, !.reset = "no"]]
  /\ run' = Disturbed(run, "provider")
  /\ settled' = "no"
  /\ UNCHANGED faults

(* listSystemRecords                                                         *)
ListRecords ==
  /\ run["request"].pc = "idle"
  /\ run' = [run EXCEPT !["request"].pc = "read"]
  /\ UNCHANGED <<row, settled, entries, faults>>

(* The hour is over, and the last run of the job as well (isRunning).        *)
(* ChainSettles needs a run that failed to be over, too.                     *)
NeverAfterFailure == run["job"].pc = "idle" /\ faults = 0
JobMayRun == run["job"].pc = "idle"

RunHourlyRefresh ==
  /\ JobMayRun
  /\ run' = [run EXCEPT !["job"].pc = "read"]
  /\ UNCHANGED <<row, settled, entries, faults>>

-----------------------------------------------------------------------------
(* recalculateMeterReadings: all rows are read ...                           *)
Read(x) ==
  /\ run[x].pc = "read"
  /\ run' = [run EXCEPT ![x] = [pc |-> "write", at |-> 1, carried |-> NoValue, seen |-> row,
                                disturbed |-> "no"]]
  /\ UNCHANGED <<row, settled, entries, faults>>

(* ... and one after the other updated if what was read differs.             *)
(* ReadingsChain needs the carried reading to be the new one.                *)
CarriedAsRead(seen, chained) == seen.end
Carried(seen, chained) == chained.end

Written(x) ==
  LET m == run[x].at
      seen == run[x].seen[m]
      chained == Chained(seen, run[x].carried)
  IN  IF seen.state = "absent" \/ chained = seen THEN row[m]
      ELSE [row[m] EXCEPT !.start = chained.start, !.end = chained.end,
                          !.load = IF chained.load = NoValue THEN @ ELSE chained.load]

WriteRow(x) ==
  LET m == run[x].at
      seen == run[x].seen[m]
      carried == run[x].carried
  IN  /\ run[x].pc = "write" /\ m < LastMonth
      /\ row' = [row EXCEPT ![m] = Written(x)]
      /\ run' = [IF row' = row THEN run ELSE Disturbed(run, x) EXCEPT
                   ![x] = [@ EXCEPT !.at = m + 1, !.seen[m] = NoRow,
                             !.carried = IF seen.state = "absent" THEN carried
                                         ELSE Carried(seen, Chained(seen, carried))]]
      /\ settled' = IF row' = row THEN settled ELSE "no"
      /\ UNCHANGED <<entries, faults>>

(* The last row ends it.                                                     *)
WriteLastRow(x) ==
  /\ run[x].pc = "write" /\ run[x].at = LastMonth
  /\ row' = [row EXCEPT ![LastMonth] = Written(x)]
  /\ run' = [IF row' = row THEN run ELSE Disturbed(run, x) EXCEPT ![x] = Idle]
  /\ settled' = IF run[x].disturbed = "no" THEN "yes" ELSE IF row' = row THEN settled ELSE "no"
  /\ UNCHANGED <<entries, faults>>

(* A statement fails.  The job writes that down; the flag is given back.     *)
Fail(x) ==
  /\ run[x].pc \in {"read", "write"} /\ faults < MaxFaults
  /\ run' = [run EXCEPT ![x] = Idle]
  /\ faults' = faults + 1
  /\ UNCHANGED <<row, settled, entries>>

(* The process stops, for instance because the job's log cannot be written:  *)
(* nobody handles that rejection.  What was at work is gone, the flag too.   *)
Restart ==
  /\ faults < MaxFaults /\ faults' = faults + 1
  /\ run' = [x \in Runs |-> Idle]
  /\ UNCHANGED <<row, settled, entries>>

-----------------------------------------------------------------------------
Init ==
  /\ row = [m \in History |-> NoRow]
  /\ run = [x \in Runs |-> Idle]
  /\ settled = "yes" /\ entries = 0 /\ faults = 0

Entry ==
  \E m \in History, load \in Loads \cup {NoValue}, start, end \in Readings \cup {NoValue} :
    \/ \E reset \in {"no", "yes"} : Enter(m, Entered(load, start, end, reset))
    \/ start = NoValue /\ end = NoValue /\ ProviderWrites(m, load)

Proceed(x) == Read(x) \/ WriteRow(x) \/ WriteLastRow(x)

Next ==
  \/ Entry \/ ListRecords
  \/ RunHourlyRefresh
  \/ \E x \in Runs : Proceed(x) \/ Fail(x)
  \/ Restart

Spec == Init /\ [][Next]_vars

(* A request ends, and the hour passes.                                      *)
FairSpec ==
  Spec /\ WF_vars(RunHourlyRefresh) /\ \A x \in Runs : WF_vars(Proceed(x))

-----------------------------------------------------------------------------
TypeOK ==
  /\ row \in [History -> Row] /\ run \in [Runs -> Run]
  /\ settled \in {"no", "yes"}
  /\ entries \in 0..MaxEntries /\ faults \in 0..MaxFaults

Before(m) == {n \in 1..(m - 1) : row[n].state = "present"}
EndBefore(m) ==
  IF Before(m) = {} THEN NoValue
  ELSE row[CHOOSE n \in Before(m) : \A o \in Before(m) : o <= n].end

(* After a recalculation that nobody disturbed, and until something is       *)
(* written, every month starts where the last one ended unless its meter was *)
(* reset, and ends after what it consumed, whoever entered what before.      *)
ReadingsChain ==
  settled = "yes" =>
    \A m \in History : row[m].state = "present" =>
      /\ EndBefore(m) # NoValue /\ row[m].reset = "no" => row[m].start = EndBefore(m)
      /\ row[m].load # NoValue => row[m].end = row[m].start + row[m].load
      /\ row[m].load = NoValue => row[m].end = row[m].start

(* Recalculating a settled chain changes no reading: listing the records and *)
(* the hourly job leave them alone.                                          *)
SettledReadingsStand ==
  [][ \A x \in Runs :
        Proceed(x) /\ settled = "yes" /\ run[x].disturbed = "no" =>
          \A m \in History : row'[m].start = row[m].start /\ row'[m].end = row[m].end ]_vars

(* When nothing is entered any more the chain settles: recalculations that   *)
(* overlap do not undo one another for ever.                                 *)
ChainSettles == <>[](settled = "yes")
=============================================================================
