----------------------------- MODULE MonitorSync -----------------------------
(***************************************************************************)
(* The schedule of the provider syncs:                                     *)
(* backend/src/monitor-sync/monitor-sync.service.ts.  Once a minute        *)
(* processAutoSyncQueue lists the systems and works through them, one      *)
(* after the other, with a realtime and a history sync for each that is    *)
(* due.  A sync is a promise raced against a timer; when the timer wins,   *)
(* the sync is given up but not stopped: it goes on as a stray.            *)
(*                                                                         *)
(* Times are compared with now only: a next time is null, due or later, a  *)
(* last time is old (an interval has passed since, or it is null) or       *)
(* recent.  The interval itself, which depends on the tier, is left out;   *)
(* so are the log rows, which no decision reads.  What a sync fetches and  *)
(* stores is not modelled, except the times it writes itself.              *)
(***************************************************************************)
EXTENDS Naturals, FiniteSets

CONSTANTS
  Systems,    \* the solar systems that are not deleted
  Movable,    \* those whose binding an administrator changes
  Storing,    \* those whose provider's sync writes the last times itself
  Closing,    \* those the closing job finds
  MaxFaults   \* bound on restarts and on statements that fail outside a try

ASSUME MonitorSyncAssumption ==
  /\ IsFiniteSet(Systems) /\ Systems # {}
  /\ Movable \subseteq Systems /\ Storing \subseteq Systems /\ Closing \subseteq Systems
  /\ MaxFaults \in Nat

VARIABLES
  row,      \* row[s]: the scheduling columns of SolarSystem s
  pass,     \* where processAutoSyncQueue is; idle: queueRunning is false
  at,       \* the system the pass works on, or worked on last
  plan,     \* plan[s]: what the pass has still to do with s, by the row as it was listed
  stray,    \* syncs that were given up and still go on
  closing,  \* systems the closing job has still to close; closingRunning
  faults    \* restarts and failed statements so far

vars == <<row, pass, at, plan, stray, closing, faults>>

-----------------------------------------------------------------------------
Scopes == {"REALTIME", "HISTORY"}
Row == [bound  : {"bound", "unbound"},
        status : {"none", "RUNNING", "SUCCESS", "ERROR"},
        next   : [Scopes -> {"null", "due", "later"}],
        last   : [Scopes -> {"old", "recent"}]]
NewRow(b) == [bound  |-> b,
              status |-> "none",
              next   |-> [k \in Scopes |-> "null"],
              last   |-> [k \in Scopes |-> "old"]]

Steps == Scopes \cup {"reset", "reset_error"}
Nothing == [s \in Systems |-> {}]

(* EveryDueSyncIsServed needs that a row left RUNNING is not taken to be at  *)
(* work.                                                                     *)
IsDueUnlessRunning(r, k) ==
  /\ r.status # "RUNNING"
  /\ r.next[k] = "due" \/ (r.next[k] = "null" /\ r.last[k] = "old")
(* BackoffKept needs the next time to be asked first.                        *)
IsDueByLast(r, k) == r.last[k] = "old"
(* isRealtimeDue, isHistoryDue                                               *)
IsDue(r, k) == r.next[k] = "due" \/ (r.next[k] = "null" /\ r.last[k] = "old")

Resets(r) ==
  CASE r.status = "ERROR" -> {"reset_error"}
    [] r.status # "ERROR" /\ \E k \in Scopes : r.next[k] # "null" -> {"reset"}
    [] OTHER -> {}
Syncs(r) == {k \in Scopes : IsDue(r, k)}
StepsFor(s) == IF row[s].bound = "bound" THEN Syncs(row[s]) ELSE Resets(row[s])

(* A system that is begun is finished first; realtime comes before history.  *)
Turn == IF plan[at] # {} THEN {at} ELSE {s \in Systems : plan[s] # {}}
Scope == IF "REALTIME" \in plan[at] THEN "REALTIME" ELSE "HISTORY"
Done(s, step) == plan' = [plan EXCEPT ![s] = @ \ {step}]

-----------------------------------------------------------------------------
(* @Interval(60_000): a tick while queueRunning is set does nothing.  The    *)
(* order of the list is that of updatedAt, which every write moves.          *)
StartPass ==
  /\ pass = "idle"
  /\ pass' = "list"
  /\ at' \in Systems
  /\ plan' = [s \in Systems |-> StepsFor(s)]
  /\ UNCHANGED <<row, stray, closing, faults>>

EndPass ==
  /\ pass = "list" /\ plan = Nothing
  /\ pass' = "idle"
  /\ UNCHANGED <<row, at, plan, stray, closing, faults>>

(* resetUnschedulableState; the system may have been bound since the list.   *)
Unscheduled(r, does) ==
  [r EXCEPT !.next   = [k \in Scopes |-> "null"],
            !.status = IF does = "reset_error" THEN "none" ELSE @]
Reset ==
  /\ pass = "list"
  /\ \E s \in Turn, does \in {"reset", "reset_error"} :
       /\ does \in plan[s]
       /\ row' = [row EXCEPT ![s] = Unscheduled(@, does)]
       /\ at' = s /\ Done(s, does)
  /\ UNCHANGED <<pass, stray, closing, faults>>

(* runSync up to the sync itself.                                            *)
StartSync ==
  /\ pass = "list" /\ pass' = "working"
  /\ \E s \in Turn :
       /\ plan[s] \cap Scopes # {}
       /\ row' = [row EXCEPT ![s].status = "RUNNING"]
       /\ at' = s
  /\ UNCHANGED <<plan, stray, closing, faults>>

(* The sync of Deye writes both last times, that of LuxPower the realtime    *)
(* one.                                                                      *)
Stored(r, scopes) == [r EXCEPT !.last = [k \in Scopes |-> IF k \in scopes THEN "recent" ELSE @[k]]]
SyncStores ==
  /\ pass = "working" /\ at \in Storing
  /\ \E scopes \in {{"REALTIME"}, Scopes} :
       row' = [row EXCEPT ![at] = Stored(@, scopes)]
  /\ pass' = "stored"
  /\ UNCHANGED <<at, plan, stray, closing, faults>>

Succeeded(r, k) ==
  [r EXCEPT !.status = "SUCCESS", !.next[k] = "later", !.last[k] = "recent"]
SyncSucceeds ==
  /\ pass \in {"working", "stored"}
  /\ row' = [row EXCEPT ![at] = Succeeded(@, Scope)]
  /\ pass' = "list" /\ Done(at, Scope)
  /\ UNCHANGED <<at, stray, closing, faults>>

(* StrandedByFaults needs the failure to say so.                             *)
FailedSilently(r, k) == [r EXCEPT !.next[k] = "later"]
(* markSyncFailure                                                           *)
Failed(r, k) == [r EXCEPT !.status = "ERROR", !.next[k] = "later"]
SyncFails ==
  /\ pass \in {"working", "stored"}
  /\ row' = [row EXCEPT ![at] = Failed(@, Scope)]
  /\ pass' = "list" /\ Done(at, Scope)
  /\ UNCHANGED <<at, stray, closing, faults>>

(* EveryDueSyncIsServed needs the timer.                                   *)
TimesOutNever == FALSE /\ UNCHANGED vars
(* runSyncWithTimeout: the timer wins.                                       *)
TimesOut ==
  /\ pass \in {"working", "stored"}
  /\ row' = [row EXCEPT ![at] = Failed(@, Scope)]
  /\ stray' = stray \cup {<<at, Scope>>}
  /\ pass' = "list" /\ Done(at, Scope)
  /\ UNCHANGED <<at, closing, faults>>

(* What has been given up comes to its end after all, or never; another of   *)
(* its kind may still go on.                                                 *)
StrayEnds ==
  /\ \E task \in stray :
       /\ stray' \in {stray, stray \ {task}}
       /\ \E scopes \in {{}} \cup IF task[1] \in Storing THEN {{"REALTIME"}, Scopes} ELSE {} :
            row' = [row EXCEPT ![task[1]] = Stored(@, scopes)]
  /\ UNCHANGED <<pass, at, plan, closing, faults>>

-----------------------------------------------------------------------------
(* runClosingJob, twice a night: its own flag, the same rows.  What it       *)
(* writes when all goes well (the month's aggregate and bill) is elsewhere.  *)
StartClosing ==
  /\ closing = {}
  /\ closing' = {s \in Closing : row[s].bound = "bound"}
  /\ UNCHANGED <<row, pass, at, plan, stray, faults>>

Close(s) ==
  /\ s \in closing
  /\ closing' = closing \ {s}
  /\ row' \in {row, [row EXCEPT ![s].status = "ERROR"]}
  /\ UNCHANGED <<pass, at, plan, stray, faults>>

(* A statement outside the try of runSync fails, one of markSyncFailure for  *)
(* instance: the finally of processAutoSyncQueue ends the pass.              *)
PassFails ==
  /\ faults < MaxFaults /\ pass # "idle"
  /\ pass' = "idle" /\ plan' = Nothing
  /\ stray' \in {stray, IF pass = "list" THEN stray ELSE stray \cup {<<at, Scope>>}}
  /\ faults' = faults + 1
  /\ UNCHANGED <<row, at, closing>>

Restart ==
  /\ faults < MaxFaults
  /\ pass' = "idle" /\ plan' = Nothing /\ stray' = {} /\ closing' = {}
  /\ faults' = faults + 1
  /\ UNCHANGED <<row, at>>

(* An administrator binds a system to a provider's plant, or unbinds it.     *)
Rebind(s) ==
  /\ s \in Movable
  /\ row' = [row EXCEPT ![s].bound = IF @ = "bound" THEN "unbound" ELSE "bound"]
  /\ UNCHANGED <<pass, at, plan, stray, closing, faults>>

NextComes(s, k) ==
  /\ row[s].next[k] = "later"
  /\ row' = [row EXCEPT ![s].next[k] = "due"]
  /\ UNCHANGED <<pass, at, plan, stray, closing, faults>>

LastAges(s, k) ==
  /\ row[s].last[k] = "recent"
  /\ row' = [row EXCEPT ![s].last[k] = "old"]
  /\ UNCHANGED <<pass, at, plan, stray, closing, faults>>

-----------------------------------------------------------------------------
Init ==
  /\ row = [s \in Systems |-> NewRow(IF s \in Movable THEN "unbound" ELSE "bound")]
  /\ pass = "idle" /\ at \in Systems /\ plan = Nothing /\ stray = {} /\ closing = {} /\ faults = 0

PassStep == StartPass \/ EndPass \/ Reset \/ StartSync
Next ==
  \/ PassStep
  \/ SyncStores \/ SyncSucceeds \/ SyncFails \/ TimesOut \/ StrayEnds
  \/ StartClosing \/ PassFails \/ Restart
  \/ \E s \in Systems : Close(s) \/ Rebind(s)
  \/ \E s \in Systems, k \in Scopes : NextComes(s, k) \/ LastAges(s, k)

Spec == Init /\ [][Next]_vars

(* The interval ticks and the pass goes on while the process runs; timers    *)
(* fire; time passes.  Nothing is assumed of providers, nor of strays.       *)
FairSpec ==
  /\ Spec /\ WF_vars(PassStep) /\ WF_vars(TimesOut)
  /\ \A s \in Systems, k \in Scopes : WF_vars(NextComes(s, k)) /\ WF_vars(LastAges(s, k))

-----------------------------------------------------------------------------
(* The rows, the pass and what was given up keep their types.                *)
TypeOK ==
  /\ row \in [Systems -> Row]
  /\ pass \in {"idle", "list", "working", "stored"}
  /\ at \in Systems /\ plan \in [Systems -> SUBSET Steps]
  /\ stray \subseteq Systems \X Scopes
  /\ closing \subseteq Systems
  /\ faults \in 0..MaxFaults

(* A sync that has failed, or succeeded, is not tried again before its next  *)
(* time, though the pass goes by rows that it has read long ago: whatever    *)
(* puts a sync off takes it from the plan.                                   *)
BackoffKept == \A s \in Systems, k \in Scopes : k \in plan[s] => row[s].next[k] # "later"

(* Every sync that is begun says how it ended; each restart, or statement    *)
(* that fails outside, leaves at most one system RUNNING with nobody at work *)
(* on it.                                                                    *)
AtWork(s) == pass \in {"working", "stored"} /\ at = s
Stranded == {s \in Systems : row[s].status = "RUNNING" /\ ~AtWork(s)}
StrandedByFaults == Cardinality(Stranded) <= faults

(* A sync of a bound system whose time has come, or that was never given one *)
(* and is old, is made, or its failure is recorded, though its provider may  *)
(* never answer, restarts leave RUNNING behind, and strays and new bindings  *)
(* come in between: nothing holds up the pass.                               *)
InTime(r, k) == r.next[k] = "later" \/ (r.next[k] = "null" /\ r.last[k] = "recent")
EveryDueSyncIsServed ==
  \A s \in Systems, k \in Scopes :
    (row[s].bound = "bound" /\ ~InTime(row[s], k))
      ~> (row[s].bound = "unbound" \/ InTime(row[s], k))
==============================================================================
