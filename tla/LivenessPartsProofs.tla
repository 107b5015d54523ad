-------------------------- MODULE LivenessPartsProofs --------------------------
(***************************************************************************)
(* The safety of the parts that the run LivenessParts checks, proved for   *)
(* all instances: the schedule of the syncs (the part without a name) and  *)
(* the session of the browser (Browser), proved about here, and the types  *)
(* of the meter readings (Meter), by the theorem of MeterReadingsProofs.   *)
(* What the parts promise in the end stays with that run.                  *)
(***************************************************************************)
EXTENDS MCLivenessParts, FiniteSetTheorems, TLAPS

(* Only one part moves, so every part behaves as its specification says.     *)
LEMMA PartsAreTheirSpecs == PartsSpec => Spec /\ Meter!Spec /\ Browser!Spec
<1>1. PartsInit => Init /\ Meter!Init /\ Browser!Init
  BY DEF PartsInit
<1>2. [PartsNext]_allVars => [Next]_vars /\ [Meter!Next]_Meter!vars /\ [Browser!Next]_Browser!vars
  BY DEF PartsNext, SyncOnly, MeterOnly, BrowserOnly, allVars, meterVars, browserVars,
         Meter!vars, Browser!vars
<1>3. QED
  BY <1>1, <1>2, PTL DEF PartsSpec, Spec, Meter!Spec, Browser!Spec

-----------------------------------------------------------------------------
(* The schedule of the syncs, for any number of systems and faults.          *)

(* What is written to a row.                                                 *)
LEMMA SucceededRow ==
  ASSUME NEW r \in Row, NEW k \in Scopes
  PROVE  /\ Succeeded(r, k) \in Row /\ Succeeded(r, k).status # "RUNNING"
         /\ \A j \in Scopes \ {k} : Succeeded(r, k).next[j] = r.next[j]
  BY DEF Succeeded, Row, Scopes

LEMMA FailedRow ==
  ASSUME NEW r \in Row, NEW k \in Scopes
  PROVE  /\ Failed(r, k) \in Row /\ Failed(r, k).status # "RUNNING"
         /\ \A j \in Scopes \ {k} : Failed(r, k).next[j] = r.next[j]
  BY DEF Failed, Row, Scopes

LEMMA StoredRow ==
  ASSUME NEW r \in Row, NEW scopes
  PROVE  Stored(r, scopes) \in Row /\ Stored(r, scopes).status = r.status
         /\ Stored(r, scopes).next = r.next
<1>1. \A k \in Scopes : r.last[k] \in {"old", "recent"}
  BY DEF Row
<1>2. QED
  BY <1>1 DEF Stored, Row, Scopes

LEMMA UnscheduledRow ==
  ASSUME NEW r \in Row, NEW does
  PROVE  /\ Unscheduled(r, does) \in Row
              /\ (Unscheduled(r, does).status = "RUNNING" => r.status = "RUNNING")
         /\ \A k \in Scopes : Unscheduled(r, does).next[k] = "null"
  BY DEF Unscheduled, Row, Scopes

LEMMA TimesOfRow ==
  ASSUME NEW r \in Row, NEW k \in Scopes
  PROVE  /\ [r EXCEPT !.next[k] = "due"] \in Row
         /\ [r EXCEPT !.next[k] = "due"].status = r.status
         /\ \A j \in Scopes : [r EXCEPT !.next[k] = "due"].next[j] \in {r.next[j], "due"}
         /\ [r EXCEPT !.last[k] = "old"] \in Row
         /\ [r EXCEPT !.last[k] = "old"].status = r.status
         /\ [r EXCEPT !.last[k] = "old"].next = r.next
  BY DEF Row, Scopes


(* One row changes, and it is still a row.                                   *)
LEMMA OneRow ==
  ASSUME TypeOK, NEW s \in Systems, NEW r \in Row, row' = [row EXCEPT ![s] = r]
  PROVE  row' \in [Systems -> Row] /\ row'[s] = r /\ \A o \in Systems \ {s} : row'[o] = row[o]
  BY DEF TypeOK

(* A plan that loses a step.                                                 *)
LEMMA PlanLess ==
  ASSUME TypeOK, NEW s \in Systems, NEW step, Done(s, step)
  PROVE  /\ plan' \in [Systems -> SUBSET Steps]
         /\ plan'[s] = plan[s] \ {step} /\ \A o \in Systems \ {s} : plan'[o] = plan[o]
  BY DEF TypeOK, Done

(* What is inductive: no step puts off a sync that stays in the plan, and a  *)
(* system is stranded by a fault alone.                                      *)
SyncInv == TypeOK /\ BackoffKept

StrandedKept ==
  Stranded' \subseteq IF faults' = faults THEN Stranded ELSE Stranded \cup {at}

(* A system whose row keeps its status, or gets another than RUNNING, is not *)
(* stranded while the pass works as before, or not at all.                   *)
LEMMA NobodyStranded ==
  ASSUME \A s \in Systems : row'[s].status = "RUNNING" => row[s].status = "RUNNING",
         \A s \in Systems : AtWork(s) => AtWork(s)' \/ row'[s].status # "RUNNING"
  PROVE  StrandedKept
  BY DEF StrandedKept, Stranded

LEMMA PassSteps ==
  ASSUME SyncInv, PassStep
  PROVE  SyncInv' /\ faults' = faults /\ StrandedKept
<1> USE DEF SyncInv
<1>1. CASE StartPass
  <2>1. plan' \in [Systems -> SUBSET Steps]
    BY <1>1 DEF StartPass, StepsFor, Syncs, Resets, Steps
  <2>2. TypeOK'
    BY <1>1, <2>1 DEF StartPass, TypeOK
  <2>3. ASSUME NEW s \in Systems, NEW k \in Scopes, k \in plan'[s]
        PROVE  row'[s].next[k] # "later"
    <3>1. k \in StepsFor(s)
      BY <1>1, <2>3 DEF StartPass
    <3>2. IsDue(row[s], k)
      BY <3>1 DEF StepsFor, Syncs, Resets, Scopes
    <3>3. QED
      BY <1>1, <3>2 DEF StartPass, IsDue
  <2>4. StrandedKept
    BY <1>1, NobodyStranded DEF StartPass, AtWork
  <2>5. QED
    BY <1>1, <2>2, <2>3, <2>4 DEF BackoffKept, StartPass
<1>2. CASE EndPass
  BY <1>2, NobodyStranded DEF EndPass, TypeOK, BackoffKept, AtWork
<1>3. CASE Reset
  <2>1. PICK s \in Turn, does \in {"reset", "reset_error"} :
          /\ row' = [row EXCEPT ![s] = Unscheduled(row[s], does)]
          /\ at' = s /\ Done(s, does)
    BY <1>3 DEF Reset
  <2>2. s \in Systems /\ row[s] \in Row
    BY DEF Turn, TypeOK
  <2>3. PICK r : r = Unscheduled(row[s], does)
    OBVIOUS
  <2>4. /\ r \in Row /\ (r.status = "RUNNING" => row[s].status = "RUNNING")
        /\ \A k \in Scopes : r.next[k] = "null"
    BY <2>2, <2>3, UnscheduledRow
  <2>5. /\ row' \in [Systems -> Row] /\ row'[s] = r
        /\ \A o \in Systems \ {s} : row'[o] = row[o]
    BY <2>1, <2>2, <2>3, <2>4, OneRow
  <2>6. /\ plan' \in [Systems -> SUBSET Steps]
        /\ plan'[s] = plan[s] \ {does} /\ \A o \in Systems \ {s} : plan'[o] = plan[o]
    BY <2>1, <2>2, PlanLess
  <2>7. pass = "list" /\ UNCHANGED <<pass, stray, closing, faults>>
    BY <1>3 DEF Reset
  <2>8. TypeOK'
    BY <2>1, <2>2, <2>5, <2>6, <2>7 DEF TypeOK
  <2>9. BackoffKept'
    BY <2>4, <2>5, <2>6 DEF BackoffKept
  <2>10. StrandedKept
    BY <2>4, <2>5, <2>7, NobodyStranded DEF AtWork
  <2>11. QED
    BY <2>7, <2>8, <2>9, <2>10
<1>4. CASE StartSync
  <2>1. PICK s \in Turn : row' = [row EXCEPT ![s].status = "RUNNING"] /\ at' = s
    BY <1>4 DEF StartSync
  <2>2. s \in Systems /\ row[s] \in Row
    BY DEF Turn, TypeOK
  <2>3. PICK r : r = [row[s] EXCEPT !.status = "RUNNING"]
    OBVIOUS
  <2>4. r \in Row /\ r.next = row[s].next
    BY <2>2, <2>3 DEF Row
  <2>5. /\ row' \in [Systems -> Row] /\ row'[s] = r
        /\ \A o \in Systems \ {s} : row'[o] = row[o]
    BY <2>1, <2>2, <2>3, <2>4, OneRow
  <2>6. pass = "list" /\ pass' = "working" /\ UNCHANGED <<plan, stray, closing, faults>>
    BY <1>4 DEF StartSync
  <2>7. TypeOK'
    BY <2>1, <2>2, <2>5, <2>6 DEF TypeOK
  <2>8. BackoffKept'
    BY <2>4, <2>5, <2>6 DEF BackoffKept
  <2>9. StrandedKept
    BY <2>1, <2>5, <2>6 DEF StrandedKept, Stranded, AtWork
  <2>10. QED
    BY <2>6, <2>7, <2>8, <2>9
<1>5. QED
  BY <1>1, <1>2, <1>3, <1>4 DEF PassStep

(* The sync that the pass works on comes to an end: its row is r.            *)
LEMMA SyncEnds ==
  ASSUME SyncInv, NEW r \in Row, r.status # "RUNNING",
         \A j \in Scopes \ {Scope} : r.next[j] = row[at].next[j],
         pass' = "list", row' = [row EXCEPT ![at] = r], Done(at, Scope),
         stray' \subseteq Systems \X Scopes, UNCHANGED <<at, closing, faults>>
  PROVE  SyncInv' /\ StrandedKept
<1>1. TypeOK /\ BackoffKept /\ at \in Systems
  BY DEF SyncInv, TypeOK
<1>2. /\ row' \in [Systems -> Row] /\ row'[at] = r
      /\ \A o \in Systems \ {at} : row'[o] = row[o]
  BY <1>1, OneRow
<1>3. /\ plan' \in [Systems -> SUBSET Steps]
      /\ plan'[at] = plan[at] \ {Scope} /\ \A o \in Systems \ {at} : plan'[o] = plan[o]
  BY <1>1, PlanLess
<1>4. TypeOK'
  BY <1>1, <1>2, <1>3 DEF TypeOK
<1>5. BackoffKept'
  BY <1>1, <1>2, <1>3 DEF BackoffKept
<1>6. StrandedKept
  BY <1>2, NobodyStranded DEF AtWork
<1>7. QED
  BY <1>4, <1>5, <1>6 DEF SyncInv

LEMMA SyncSteps ==
  ASSUME SyncInv, SyncStores \/ SyncSucceeds \/ SyncFails \/ TimesOut
  PROVE  SyncInv' /\ faults' = faults /\ StrandedKept
<1>1. /\ TypeOK /\ BackoffKept /\ at \in Systems /\ row[at] \in Row
      /\ Scope \in Scopes /\ stray \subseteq Systems \X Scopes
  BY DEF SyncInv, TypeOK, Scope, Scopes
<1>2. CASE SyncStores
  <2>1. PICK scopes : row' = [row EXCEPT ![at] = Stored(row[at], scopes)]
    BY <1>2 DEF SyncStores
  <2>2. PICK r : r = Stored(row[at], scopes)
    OBVIOUS
  <2>3. r \in Row /\ r.status = row[at].status /\ r.next = row[at].next
    BY <1>1, <2>2, StoredRow
  <2>4. /\ row' \in [Systems -> Row] /\ row'[at] = r
        /\ \A o \in Systems \ {at} : row'[o] = row[o]
    BY <1>1, <2>1, <2>2, <2>3, OneRow
  <2>5. pass = "working" /\ pass' = "stored" /\ UNCHANGED <<at, plan, stray, closing, faults>>
    BY <1>2 DEF SyncStores
  <2>6. TypeOK' /\ BackoffKept'
    BY <1>1, <2>3, <2>4, <2>5 DEF TypeOK, BackoffKept
  <2>7. StrandedKept
    BY <2>3, <2>4, <2>5, NobodyStranded DEF AtWork
  <2>8. QED
    BY <2>5, <2>6, <2>7 DEF SyncInv
<1>3. CASE SyncSucceeds
  BY <1>1, <1>3, SyncEnds, SucceededRow DEF SyncSucceeds
<1>4. CASE SyncFails
  BY <1>1, <1>4, SyncEnds, FailedRow DEF SyncFails
<1>5. CASE TimesOut
  <2>1. /\ row' = [row EXCEPT ![at] = Failed(row[at], Scope)]
        /\ stray' = stray \cup {<<at, Scope>>}
        /\ pass' = "list" /\ Done(at, Scope) /\ UNCHANGED <<at, closing, faults>>
    BY <1>5 DEF TimesOut
  <2>2. stray' \subseteq Systems \X Scopes
    BY <1>1, <2>1
  <2>3. QED
    BY <1>1, <2>1, <2>2, SyncEnds, FailedRow
<1>6. QED
  BY <1>2, <1>3, <1>4, <1>5

(* A row changes beside the pass, its next times at most to due.             *)
LEMMA RowBesidePass ==
  ASSUME SyncInv, NEW s \in Systems, NEW r \in Row, row' = [row EXCEPT ![s] = r],
         r.status = "RUNNING" => row[s].status = "RUNNING",
         \A k \in Scopes : r.next[k] \in {row[s].next[k], "due"},
         stray' \subseteq Systems \X Scopes, closing' \subseteq Systems,
         UNCHANGED <<pass, at, plan, faults>>
  PROVE  SyncInv' /\ StrandedKept
<1>1. TypeOK /\ BackoffKept
  BY DEF SyncInv
<1>2. /\ row' \in [Systems -> Row] /\ row'[s] = r
      /\ \A o \in Systems \ {s} : row'[o] = row[o]
  BY <1>1, OneRow
<1>3. TypeOK'
  BY <1>1, <1>2 DEF TypeOK
<1>4. BackoffKept'
  BY <1>1, <1>2 DEF BackoffKept
<1>5. StrandedKept
  BY <1>2, NobodyStranded DEF AtWork
<1>6. QED
  BY <1>3, <1>4, <1>5 DEF SyncInv

LEMMA StepsBesidePass ==
  ASSUME SyncInv,
         \/ StrayEnds \/ StartClosing
         \/ \E s \in Systems : Close(s) \/ Rebind(s)
         \/ \E s \in Systems, k \in Scopes : NextComes(s, k) \/ LastAges(s, k)
  PROVE  SyncInv' /\ faults' = faults /\ StrandedKept
<1>1. /\ TypeOK /\ BackoffKept /\ row \in [Systems -> Row]
      /\ stray \subseteq Systems \X Scopes /\ closing \subseteq Systems /\ Closing \subseteq Systems
  BY MonitorSyncAssumption DEF SyncInv, TypeOK
<1>2. CASE StrayEnds
  <2>1. PICK task \in stray, scopes \in SUBSET Scopes :
          row' = [row EXCEPT ![task[1]] = Stored(row[task[1]], scopes)]
    BY <1>2 DEF StrayEnds, Scopes
  <2>2. stray' \subseteq stray /\ UNCHANGED <<pass, at, plan, closing, faults>>
    BY <1>2 DEF StrayEnds
  <2>3. PICK s : s = task[1]
    OBVIOUS
  <2>4. s \in Systems /\ row[s] \in Row
    BY <1>1, <2>3
  <2>5. PICK r : r = Stored(row[s], scopes)
    OBVIOUS
  <2>6. r \in Row /\ r.status = row[s].status /\ r.next = row[s].next
    BY <2>4, <2>5, StoredRow
  <2>7. row' = [row EXCEPT ![s] = r]
    BY <2>1, <2>3, <2>5
  <2>8. QED
    BY <1>1, <2>2, <2>4, <2>6, <2>7, RowBesidePass
<1>3. CASE StartClosing
  BY <1>1, <1>3, NobodyStranded DEF StartClosing, SyncInv, TypeOK, BackoffKept, AtWork
<1>4. ASSUME NEW s \in Systems, Close(s) PROVE SyncInv' /\ faults' = faults /\ StrandedKept
  <2>1. /\ row' \in {row, [row EXCEPT ![s].status = "ERROR"]} /\ closing' \subseteq closing
        /\ UNCHANGED <<pass, at, plan, stray, faults>>
    BY <1>4 DEF Close
  <2>2. CASE row' = row
    BY <1>1, <2>1, <2>2, NobodyStranded DEF SyncInv, TypeOK, BackoffKept, AtWork
  <2>3. CASE row' = [row EXCEPT ![s].status = "ERROR"]
    <3>1. PICK r : r = [row[s] EXCEPT !.status = "ERROR"]
      OBVIOUS
    <3>2. r \in Row /\ r.status = "ERROR" /\ r.next = row[s].next
      BY <1>1, <3>1 DEF Row
    <3>3. row' = [row EXCEPT ![s] = r]
      BY <2>3, <3>1
    <3>4. QED
      BY <1>1, <2>1, <3>2, <3>3, RowBesidePass
  <2>4. QED
    BY <2>1, <2>2, <2>3
<1>5. ASSUME NEW s \in Systems, Rebind(s) PROVE SyncInv' /\ faults' = faults /\ StrandedKept
  <2>1. PICK r : r = [row[s] EXCEPT !.bound = IF row[s].bound = "bound" THEN "unbound" ELSE "bound"]
    OBVIOUS
  <2>2. r \in Row /\ r.status = row[s].status /\ r.next = row[s].next
    BY <1>1, <2>1 DEF Row
  <2>3. row' = [row EXCEPT ![s] = r] /\ UNCHANGED <<pass, at, plan, stray, closing, faults>>
    BY <1>5, <2>1 DEF Rebind
  <2>4. QED
    BY <1>1, <2>2, <2>3, RowBesidePass
<1>6. ASSUME NEW s \in Systems, NEW k \in Scopes, NextComes(s, k) \/ LastAges(s, k)
      PROVE  SyncInv' /\ faults' = faults /\ StrandedKept
  <2>1. row[s] \in Row
    BY <1>1
  <2>2. CASE NextComes(s, k)
    <3>1. PICK r : r = [row[s] EXCEPT !.next[k] = "due"]
      OBVIOUS
    <3>2. r \in Row /\ r.status = row[s].status
          /\ \A j \in Scopes : r.next[j] \in {row[s].next[j], "due"}
      BY <2>1, <3>1, TimesOfRow
    <3>3. row' = [row EXCEPT ![s] = r] /\ UNCHANGED <<pass, at, plan, stray, closing, faults>>
      BY <2>2, <3>1 DEF NextComes
    <3>4. QED
      BY <1>1, <3>2, <3>3, RowBesidePass
  <2>3. CASE LastAges(s, k)
    <3>1. PICK r : r = [row[s] EXCEPT !.last[k] = "old"]
      OBVIOUS
    <3>2. r \in Row /\ r.status = row[s].status /\ r.next = row[s].next
      BY <2>1, <3>1, TimesOfRow
    <3>3. row' = [row EXCEPT ![s] = r] /\ UNCHANGED <<pass, at, plan, stray, closing, faults>>
      BY <2>3, <3>1 DEF LastAges
    <3>4. QED
      BY <1>1, <3>2, <3>3, RowBesidePass
  <2>4. QED
    BY <1>6, <2>2, <2>3
<1>7. QED
  BY <1>2, <1>3, <1>4, <1>5, <1>6

(* A fault ends the pass, and strands the system it worked on.               *)
LEMMA FaultSteps ==
  ASSUME SyncInv, PassFails \/ Restart
  PROVE  SyncInv' /\ faults' = faults + 1 /\ StrandedKept
<1>1. /\ TypeOK /\ BackoffKept /\ faults \in Nat /\ MaxFaults \in Nat /\ faults < MaxFaults
      /\ faults' = faults + 1 /\ pass' = "idle" /\ plan' = Nothing /\ UNCHANGED <<row, at>>
      /\ closing' \subseteq closing
  BY MonitorSyncAssumption DEF SyncInv, TypeOK, PassFails, Restart
<1>2. stray' \subseteq Systems \X Scopes
  <2>1. <<at, Scope>> \in Systems \X Scopes
    BY <1>1 DEF TypeOK, Scope, Scopes
  <2>2. stray \subseteq Systems \X Scopes
    BY <1>1 DEF TypeOK
  <2>3. QED
    BY <2>1, <2>2 DEF PassFails, Restart
<1>3. SyncInv'
  <2>1. plan' \in [Systems -> SUBSET Steps] /\ \A s \in Systems : plan'[s] = {}
    BY <1>1 DEF Nothing
  <2>2. faults' \in 0..MaxFaults
    BY <1>1
  <2>3. QED
    BY <1>1, <1>2, <2>1, <2>2 DEF SyncInv, TypeOK, BackoffKept
<1>4. StrandedKept
  BY <1>1 DEF StrandedKept, Stranded, AtWork
<1>5. QED
  BY <1>1, <1>3, <1>4

LEMMA SyncStep ==
  ASSUME SyncInv, [Next]_vars
  PROVE  SyncInv' /\ faults' \in {faults, faults + 1} /\ StrandedKept
<1>1. CASE UNCHANGED vars
  <2>1. SyncInv' /\ faults' = faults
    BY <1>1 DEF vars, SyncInv, TypeOK, BackoffKept
  <2>2. StrandedKept
    BY <1>1, NobodyStranded DEF vars, AtWork
  <2>3. QED
    BY <2>1, <2>2
<1>2. CASE Next
  BY <1>2, PassSteps, SyncSteps, StepsBesidePass, FaultSteps DEF Next
<1>3. QED
  BY <1>1, <1>2

LEMMA SyncInit == ASSUME Init PROVE SyncInv /\ faults = 0 /\ Stranded = {}
<1>1. \A s \in Systems : row[s] \in Row /\ row[s].status = "none"
  BY DEF Init, NewRow, Row
<1>2. row = [s \in Systems |-> row[s]]
  BY DEF Init
<1>3. row \in [Systems -> Row]
  BY <1>1, <1>2
<1>4. plan \in [Systems -> SUBSET Steps] /\ \A s \in Systems : plan[s] = {}
  BY DEF Init, Nothing
<1>5. faults \in 0..MaxFaults
  BY MonitorSyncAssumption DEF Init
<1>6. QED
  BY <1>1, <1>3, <1>4, <1>5 DEF Init, SyncInv, TypeOK, BackoffKept, Stranded

LEMMA SyncKept == Spec => []SyncInv
<1>1. Init => SyncInv
  BY SyncInit
<1>2. SyncInv /\ [Next]_vars => SyncInv'
  BY SyncStep
<1>3. QED
  BY <1>1, <1>2, PTL DEF Spec

(* The stranded systems are finitely many, and not more than before unless   *)
(* there was a fault.                                                        *)
LEMMA StrandedCounted ==
  ASSUME SyncInv, StrandedByFaults, [Next]_vars
  PROVE  StrandedByFaults'
<1>1. /\ StrandedKept /\ faults' \in {faults, faults + 1} /\ faults \in Nat
      /\ IsFiniteSet(Systems)
  BY SyncStep, MonitorSyncAssumption DEF SyncInv, TypeOK
<1>2. PICK before : before = Stranded
  OBVIOUS
<1>3. PICK after : after = Stranded'
  OBVIOUS
<1>4. IsFiniteSet(before)
  BY <1>1, <1>2, FS_Subset DEF Stranded
<1>5. /\ Cardinality(before) \in Nat /\ IsFiniteSet(before \cup {at})
      /\ Cardinality(before \cup {at}) <= Cardinality(before) + 1
      /\ Cardinality(before \cup {at}) \in Nat
  BY <1>4, FS_AddElement, FS_CardinalityType
<1>6. Cardinality(before) <= faults
  BY <1>2 DEF StrandedByFaults
<1>7. CASE faults' = faults
  <2>1. after \subseteq before
    BY <1>1, <1>2, <1>3, <1>7 DEF StrandedKept
  <2>2. Cardinality(after) <= Cardinality(before) /\ Cardinality(after) \in Nat
    BY <1>4, <2>1, FS_Subset, FS_CardinalityType
  <2>3. QED
    BY <1>1, <1>3, <1>5, <1>6, <1>7, <2>2 DEF StrandedByFaults
<1>8. CASE faults' # faults
  <2>1. after \subseteq before \cup {at} /\ faults' = faults + 1
    BY <1>1, <1>2, <1>3, <1>8 DEF StrandedKept
  <2>2. Cardinality(after) <= Cardinality(before \cup {at}) /\ Cardinality(after) \in Nat
    BY <1>5, <2>1, FS_Subset, FS_CardinalityType
  <2>3. QED
    BY <1>1, <1>3, <1>5, <1>6, <2>1, <2>2 DEF StrandedByFaults
<1>9. QED
  BY <1>7, <1>8

(* A sync that has been put off is not tried again before its time, though   *)
(* the pass works by rows that it read before its first sync.                *)
THEOREM PutOffSyncsWait == PartsSpec => []BackoffKept
<1>1. SyncInv => BackoffKept
  BY DEF SyncInv
<1>2. QED
  BY <1>1, SyncKept, PartsAreTheirSpecs, PTL

(* At most one system for each restart or failed statement says RUNNING      *)
(* while nobody works on it.                                                 *)
THEOREM FaultsStrandOneEach == PartsSpec => []StrandedByFaults
<1>1. Init => StrandedByFaults
  BY SyncInit, FS_EmptySet DEF StrandedByFaults
<1>2. SyncInv /\ StrandedByFaults /\ [Next]_vars => StrandedByFaults'
  BY StrandedCounted
<1>3. Spec => []StrandedByFaults
  BY <1>1, <1>2, SyncKept, PTL DEF Spec
<1>4. QED
  BY <1>3, PartsAreTheirSpecs, PTL

-----------------------------------------------------------------------------
(* The session in the browser, for any number of tabs and sessions.          *)
BrowserInv == Browser!TypeOK /\ NobodyWaitsAlone

(* What a tab has in flight beside what the others have.                     *)
LEMMA TabMoves ==
  ASSUME BrowserInv, NEW t \in Tabs,
         NEW c \in Browser!Call, NEW s \in Browser!Stream, NEW r \in Sessions \cup {"none"},
         NEW p \in {"portal", "leaving", "login"},
         call' = [call EXCEPT ![t] = c], stream' = [stream EXCEPT ![t] = s],
         refresh' = [refresh EXCEPT ![t] = r], page' = [page EXCEPT ![t] = p],
         c.pc = "waiting" \/ s.pc = "waiting" => r # "none",
         store' \in Sessions \cup {"none"}, access' \in {"good", "old"}, alive' \subseteq Sessions
  PROVE  BrowserInv'
<1>1. /\ call \in [Tabs -> Browser!Call] /\ stream \in [Tabs -> Browser!Stream]
      /\ refresh \in [Tabs -> Sessions \cup {"none"}]
      /\ page \in [Tabs -> {"portal", "leaving", "login"}]
  BY DEF BrowserInv, Browser!TypeOK, Browser!None
<1>2. Browser!TypeOK'
  BY <1>1 DEF Browser!TypeOK, Browser!None
<1>3. ASSUME NEW u \in Tabs, call'[u].pc = "waiting" \/ stream'[u].pc = "waiting"
      PROVE  refresh'[u] # "none"
  <2>1. CASE u = t
    BY <1>1, <1>3, <2>1
  <2>2. CASE u # t
    <3>1. call'[u] = call[u] /\ stream'[u] = stream[u] /\ refresh'[u] = refresh[u]
      BY <1>1, <2>2
    <3>2. QED
      BY <1>3, <3>1 DEF BrowserInv, NobodyWaitsAlone, Browser!NobodyWaitsAlone, Browser!None
  <2>3. QED
    BY <2>1, <2>2
<1>4. QED
  BY <1>2, <1>3 DEF BrowserInv, NobodyWaitsAlone, Browser!NobodyWaitsAlone, Browser!None

(* What a tab has in flight by itself.                                       *)
LEMMA TabHas ==
  ASSUME BrowserInv, NEW t \in Tabs
  PROVE  /\ call[t] \in Browser!Call /\ stream[t] \in Browser!Stream
         /\ refresh[t] \in Sessions \cup {"none"} /\ page[t] \in {"portal", "leaving", "login"}
         /\ store \in Sessions \cup {"none"} /\ access \in {"good", "old"}
         /\ alive \subseteq Sessions
         /\ call[t].pc = "waiting" \/ stream[t].pc = "waiting" => refresh[t] # "none"
         /\ call = [call EXCEPT ![t] = call[t]] /\ stream = [stream EXCEPT ![t] = stream[t]]
         /\ refresh = [refresh EXCEPT ![t] = refresh[t]] /\ page = [page EXCEPT ![t] = page[t]]
  BY DEF BrowserInv, Browser!TypeOK, NobodyWaitsAlone, Browser!NobodyWaitsAlone, Browser!None

LEMMA RequestsFit ==
  /\ Browser!NoCall \in Browser!Call /\ Browser!NoStream \in Browser!Stream
  /\ Browser!Waiting \in Browser!Call /\ Browser!Waiting \in Browser!Stream
  /\ Browser!NoCall.pc # "waiting" /\ Browser!NoStream.pc # "waiting"
  /\ \A c \in Browser!Call : Browser!Woken(c) \in Browser!Call /\ Browser!Woken(c).pc # "waiting"
  /\ \A s \in Browser!Stream :
       /\ Browser!Woken(s) \in Browser!Stream /\ Browser!Woken(s).pc # "waiting"
       /\ Browser!Unmounted(s) \in Browser!Stream
       /\ Browser!Unmounted(s).pc = "waiting" => s.pc = "waiting"
BY DEF Browser!NoCall, Browser!NoStream, Browser!Waiting, Browser!Woken, Browser!Unmounted,
       Browser!Call, Browser!Stream, Browser!Tokens

(* The same when its refresh goes on and nobody else begins to wait.         *)
LEMMA TabMovesBesideRefresh ==
  ASSUME BrowserInv, NEW t \in Tabs,
         NEW c \in Browser!Call, NEW s \in Browser!Stream, NEW p \in {"portal", "leaving", "login"},
         call' = [call EXCEPT ![t] = c], stream' = [stream EXCEPT ![t] = s],
         page' = [page EXCEPT ![t] = p], UNCHANGED refresh,
         c.pc = "waiting" => call[t].pc = "waiting", s.pc = "waiting" => stream[t].pc = "waiting",
         store' \in Sessions \cup {"none"}, access' \in {"good", "old"}, alive' \subseteq Sessions
  PROVE  BrowserInv'
<1>1. PICK r \in Sessions \cup {"none"} :
        refresh' = [refresh EXCEPT ![t] = r] /\ (c.pc = "waiting" \/ s.pc = "waiting" => r # "none")
  BY TabHas
<1>2. QED
  BY <1>1, TabMoves

(* A tab signs out, alone or with its refresh.                               *)
LEMMA SigningOut ==
  ASSUME BrowserInv, NEW t \in Tabs,
         NEW c \in Browser!Call, NEW s \in Browser!Stream, NEW r \in Sessions \cup {"none"},
         Browser!SignOut(t, c, s), refresh' = [refresh EXCEPT ![t] = r],
         c.pc = "waiting" \/ s.pc = "waiting" => r # "none",
         access' \in {"good", "old"}, UNCHANGED alive
  PROVE  BrowserInv'
<1>1. PICK u \in Browser!Stream : u = Browser!Unmounted(s) /\ (u.pc = "waiting" => s.pc = "waiting")
  BY RequestsFit
<1>2. /\ store' = "none" /\ page' = [page EXCEPT ![t] = "leaving"]
      /\ call' = [call EXCEPT ![t] = c] /\ stream' = [stream EXCEPT ![t] = u]
  BY <1>1 DEF Browser!SignOut, Browser!None
<1>3. alive' \subseteq Sessions
  BY TabHas
<1>4. QED
  BY <1>1, <1>2, <1>3, TabMoves

(* Who asks for the refresh begins it if there is none in flight.            *)
LEMMA Asking ==
  ASSUME BrowserInv, NEW t \in Tabs, NEW c \in Browser!Call, NEW s \in Browser!Stream,
         Browser!AskForRefresh(t, c, s), UNCHANGED <<access, alive>>
  PROVE  BrowserInv'
<1>1. PICK r : r = IF refresh[t] = "none" THEN store ELSE refresh[t]
  OBVIOUS
<1>2. r \in Sessions \cup {"none"} /\ r # "none"
  BY <1>1, TabHas DEF Browser!AskForRefresh, Browser!None
<1>3. /\ refresh' = [refresh EXCEPT ![t] = r] /\ call' = [call EXCEPT ![t] = c]
      /\ stream' = [stream EXCEPT ![t] = s] /\ UNCHANGED <<store, page, access, alive>>
  BY <1>1 DEF Browser!AskForRefresh, Browser!None
<1>4. QED
  BY <1>2, <1>3, TabHas, TabMoves

LEMMA CallSteps ==
  ASSUME BrowserInv, NEW t \in Tabs, Browser!Send(t) \/ Browser!CallStep(t)
  PROVE  BrowserInv'
<1>1. CASE Browser!Send(t)
  <2>1. PICK c : c = [pc |-> "first", token |-> Browser!Token]
    OBVIOUS
  <2>2. c \in Browser!Call /\ c.pc # "waiting"
    BY <2>1, TabHas DEF Browser!Call, Browser!Tokens, Browser!Token
  <2>3. call' = [call EXCEPT ![t] = c] /\ UNCHANGED <<store, access, alive, page, refresh, stream>>
    BY <1>1, <2>1 DEF Browser!Send
  <2>4. /\ stream[t] \in Browser!Stream /\ stream' = [stream EXCEPT ![t] = stream[t]]
        /\ page[t] \in {"portal", "leaving", "login"} /\ page' = [page EXCEPT ![t] = page[t]]
        /\ store' \in Sessions \cup {"none"} /\ access' \in {"good", "old"}
        /\ alive' \subseteq Sessions
    BY <2>3, TabHas
  <2>5. QED
    BY <2>2, <2>3, <2>4, TabMovesBesideRefresh
<1>2. ASSUME call' = [call EXCEPT ![t] = Browser!NoCall],
             UNCHANGED <<store, access, alive, page, refresh, stream>>
      PROVE  BrowserInv'
  <2>1. /\ stream[t] \in Browser!Stream /\ stream' = [stream EXCEPT ![t] = stream[t]]
        /\ page[t] \in {"portal", "leaving", "login"} /\ page' = [page EXCEPT ![t] = page[t]]
        /\ store' \in Sessions \cup {"none"} /\ access' \in {"good", "old"}
        /\ alive' \subseteq Sessions
    BY <1>2, TabHas
  <2>2. Browser!NoCall \in Browser!Call /\ Browser!NoCall.pc # "waiting"
    BY RequestsFit
  <2>3. QED
    BY <1>2, <2>1, <2>2, TabMovesBesideRefresh
<1>4. CASE Browser!CallRejected(t)
  <2>1. CASE Browser!Repeated(call[t])
    <3>1. call[t].pc # "waiting" /\ UNCHANGED <<access, alive>>
      BY <1>4 DEF Browser!CallRejected
    <3>2. CASE Browser!AskForRefresh(t, Browser!Waiting, stream[t])
      BY <3>1, <3>2, TabHas, RequestsFit, Asking
    <3>3. CASE Browser!NothingToRefresh(t, Browser!NoCall, stream[t])
      <4>1. Browser!SignOut(t, Browser!NoCall, stream[t]) /\ UNCHANGED refresh
        BY <3>3 DEF Browser!NothingToRefresh
      <4>2. QED
        BY <3>1, <4>1, TabHas, RequestsFit, SigningOut
    <3>4. QED
      BY <1>4, <2>1, <3>2, <3>3 DEF Browser!CallRejected
  <2>2. CASE ~Browser!Repeated(call[t])
    BY <1>2, <1>4, <2>2 DEF Browser!CallRejected
  <2>3. QED
    BY <2>1, <2>2
<1>5. QED
  BY <1>1, <1>2, <1>4 DEF Browser!CallStep, Browser!CallEnds

LEMMA RefreshSteps ==
  ASSUME BrowserInv, NEW t \in Tabs, Browser!RefreshStep(t)
  PROVE  BrowserInv'
<1>1. CASE Browser!RefreshAnswers(t)
  <2>1. /\ refresh[t] \in Sessions /\ refresh' = [refresh EXCEPT ![t] = "none"] /\ access' = "good"
        /\ alive' \subseteq Sessions /\ UNCHANGED alive
    BY <1>1, TabHas DEF Browser!RefreshAnswers, Browser!None
  <2>2. CASE stream[t].pc = "waiting" /\ page[t] # "portal"
    <3>1. Browser!SignOut(t, Browser!Woken(call[t]), Browser!NoStream)
      BY <1>1, <2>2 DEF Browser!RefreshAnswers
    <3>2. QED
      BY <2>1, <3>1, TabHas, RequestsFit, SigningOut
  <2>3. CASE ~(stream[t].pc = "waiting" /\ page[t] # "portal")
    <3>1. /\ store' = refresh[t] /\ UNCHANGED page
          /\ call' = [call EXCEPT ![t] = Browser!Woken(call[t])]
          /\ stream' = [stream EXCEPT ![t] = Browser!Woken(stream[t])]
      BY <1>1, <2>3 DEF Browser!RefreshAnswers
    <3>2. QED
      BY <2>1, <3>1, TabHas, RequestsFit, TabMoves
  <2>4. QED
    BY <2>2, <2>3
<1>2. CASE Browser!RefreshFails(t)
  <2>1. PICK c : c = IF call[t].pc = "waiting" THEN Browser!NoCall ELSE call[t]
    OBVIOUS
  <2>2. PICK s : s = IF stream[t].pc = "waiting" THEN Browser!NoStream ELSE stream[t]
    OBVIOUS
  <2>3. /\ c \in Browser!Call /\ c.pc # "waiting" /\ s \in Browser!Stream /\ s.pc # "waiting"
    BY <2>1, <2>2, TabHas, RequestsFit
  <2>4. /\ Browser!SignOut(t, c, s) /\ refresh' = [refresh EXCEPT ![t] = "none"]
        /\ UNCHANGED <<access, alive>>
    BY <1>2, <2>1, <2>2 DEF Browser!RefreshFails, Browser!Refused, Browser!None
  <2>5. QED
    BY <2>3, <2>4, TabHas, SigningOut
<1>3. QED
  BY <1>1, <1>2 DEF Browser!RefreshStep

(* The stream is connected, opened, ended or stopped: it is s.               *)
LEMMA StreamMoves ==
  ASSUME BrowserInv, NEW t \in Tabs, NEW s \in Browser!Stream, s.pc # "waiting",
         stream' = [stream EXCEPT ![t] = s],
         UNCHANGED <<store, access, alive, page, refresh, call>>
  PROVE  BrowserInv'
<1>1. /\ call[t] \in Browser!Call /\ call' = [call EXCEPT ![t] = call[t]]
      /\ page[t] \in {"portal", "leaving", "login"} /\ page' = [page EXCEPT ![t] = page[t]]
      /\ store' \in Sessions \cup {"none"} /\ access' \in {"good", "old"}
      /\ alive' \subseteq Sessions
  BY TabHas
<1>2. QED
  BY <1>1, TabMovesBesideRefresh

LEMMA StreamSteps ==
  ASSUME BrowserInv, NEW t \in Tabs,
         \/ Browser!Connect(t) \/ Browser!StreamOpens(t) \/ Browser!StreamEnds(t)
         \/ Browser!StreamStops(t) \/ Browser!StreamRejected(t) \/ Browser!StreamForbidden(t)
  PROVE  BrowserInv'
<1>1. CASE Browser!Connect(t)
  <2>1. PICK s : s = [pc |-> IF store = "none" THEN "stopped" ELSE "first", token |-> Browser!Token]
    OBVIOUS
  <2>2. s \in Browser!Stream /\ s.pc # "waiting"
    BY <2>1, TabHas DEF Browser!Stream, Browser!Tokens, Browser!Token
  <2>3. QED
    BY <1>1, <2>1, <2>2, StreamMoves DEF Browser!Connect, Browser!None
<1>2. CASE Browser!StreamOpens(t) \/ Browser!StreamEnds(t) \/ Browser!StreamStops(t)
  <2>1. PICK p \in {"open", "timer", "stopped"} :
          /\ stream' = [stream EXCEPT ![t] = [pc |-> p, token |-> "none"]]
          /\ UNCHANGED <<store, access, alive, page, refresh, call>>
    BY <1>2 DEF Browser!StreamOpens, Browser!StreamEnds, Browser!StreamStops
  <2>2. PICK s : s = [pc |-> p, token |-> "none"]
    OBVIOUS
  <2>3. s \in Browser!Stream /\ s.pc # "waiting"
    BY <2>2 DEF Browser!Stream, Browser!Tokens
  <2>4. QED
    BY <2>1, <2>2, <2>3, StreamMoves
<1>3. ASSUME Browser!SignOut(t, call[t], Browser!NoStream), UNCHANGED <<access, alive, refresh>>
      PROVE  BrowserInv'
  BY <1>3, TabHas, RequestsFit, SigningOut
<1>4. CASE Browser!StreamRejected(t)
  <2>1. UNCHANGED <<access, alive>>
    BY <1>4 DEF Browser!StreamRejected
  <2>2. CASE Browser!AskForRefresh(t, call[t], Browser!Waiting)
    BY <2>1, <2>2, TabHas, RequestsFit, Asking
  <2>3. CASE Browser!NothingToRefresh(t, call[t], Browser!NoStream)
    BY <1>3, <2>1, <2>3 DEF Browser!NothingToRefresh
  <2>4. QED
    BY <1>3, <1>4, <2>1, <2>2, <2>3 DEF Browser!StreamRejected
<1>5. CASE Browser!StreamForbidden(t)
  BY <1>3, <1>5 DEF Browser!StreamForbidden
<1>6. QED
  BY <1>1, <1>2, <1>4, <1>5

LEMMA PageSteps ==
  ASSUME BrowserInv, NEW t \in Tabs, Browser!Logout(t) \/ Browser!PageLoads(t) \/ Browser!Login(t)
  PROVE  BrowserInv'
<1>1. CASE Browser!Logout(t)
  BY <1>1, TabHas, SigningOut DEF Browser!Logout
<1>2. CASE Browser!PageLoads(t)
  BY <1>2, TabHas, RequestsFit, TabMoves DEF Browser!PageLoads, Browser!None
<1>3. CASE Browser!Login(t)
  <2>1. /\ alive' \subseteq Sessions /\ store' \in Sessions
    BY <1>3, TabHas DEF Browser!Login
  <2>2. /\ access' = "good" /\ page' = [page EXCEPT ![t] = "portal"]
        /\ UNCHANGED <<refresh, call, stream>>
    BY <1>3 DEF Browser!Login
  <2>3. /\ call[t] \in Browser!Call /\ call' = [call EXCEPT ![t] = call[t]]
        /\ stream[t] \in Browser!Stream /\ stream' = [stream EXCEPT ![t] = stream[t]]
    BY <2>2, TabHas
  <2>4. store' \in Sessions \cup {"none"} /\ access' \in {"good", "old"}
    BY <2>1, <2>2
  <2>5. QED
    BY <2>1, <2>2, <2>3, <2>4, TabMovesBesideRefresh
<1>4. QED
  BY <1>1, <1>2, <1>3

LEMMA BrowserStep ==
  ASSUME BrowserInv, [Browser!Next]_Browser!vars
  PROVE  BrowserInv'
<1>1. ASSUME UNCHANGED <<store, page, refresh, call, stream>>, access' \in {"good", "old"},
             alive' \subseteq Sessions
      PROVE  BrowserInv'
  BY <1>1 DEF BrowserInv, Browser!TypeOK, NobodyWaitsAlone, Browser!NobodyWaitsAlone
<1>2. access \in {"good", "old"} /\ alive \subseteq Sessions
  BY DEF BrowserInv, Browser!TypeOK
<1>3. CASE Browser!AccessExpires \/ UNCHANGED Browser!vars \/ \E n \in Sessions : Browser!Revoke(n)
  BY <1>1, <1>2, <1>3 DEF Browser!AccessExpires, Browser!vars, Browser!Revoke
<1>4. QED
  BY <1>3, CallSteps, RefreshSteps, StreamSteps, PageSteps DEF Browser!Next

LEMMA BrowserKept == Browser!Spec => []BrowserInv
<1>1. Browser!Init => BrowserInv
  BY RequestsFit DEF Browser!Init, BrowserInv, Browser!TypeOK, NobodyWaitsAlone,
                     Browser!NobodyWaitsAlone, Browser!None
<1>2. BrowserInv /\ [Browser!Next]_Browser!vars => BrowserInv'
  BY BrowserStep
<1>3. QED
  BY <1>1, <1>2, PTL DEF Browser!Spec

(* Whoever waits for a refresh in a tab, the call or the stream, waits for   *)
(* one that is in flight.                                                    *)
THEOREM WaitersAreServed == PartsSpec => []NobodyWaitsAlone
<1>1. BrowserInv => NobodyWaitsAlone
  BY DEF BrowserInv
<1>2. QED
  BY <1>1, BrowserKept, PartsAreTheirSpecs, PTL

-----------------------------------------------------------------------------
(* Every part keeps its types, for every value of the constants.             *)
THEOREM TypesOfParts ==
  ASSUME Meter!Parameters
  PROVE  PartsSpec => []TypesOK
<1>1. SyncInv /\ Meter!TypeOK /\ BrowserInv => TypesOK
  BY DEF TypesOK, SyncInv, BrowserInv
<1>2. PartsSpec => []Meter!TypeOK
  BY PartsAreTheirSpecs, Meter!TypeCorrect, PTL
<1>3. QED
  BY <1>1, <1>2, SyncKept, BrowserKept, PartsAreTheirSpecs, PTL
=============================================================================
