--------------------------- MODULE ProviderSessions -------------------------
(***************************************************************************)
(* Logging in at the providers that have no rotating tokens: SEMS+         *)
(* (sems-plus-session.manager.ts), LuxPower (luxpower-client.service.ts)   *)
(* and Deye (deye-auth.service.ts).  A session is kept and used by every   *)
(* call until the provider rejects it; the call that is rejected logs in   *)
(* again and repeats all its requests, once.  Nothing keeps two calls from *)
(* logging in at the same time.                                            *)
(*                                                                         *)
(* SEMS+ keeps sessions in memory, by account and password; LuxPower in    *)
(* memory, by connection; Deye in the row of the connection.  What the     *)
(* requests fetch is left out: a call makes Requests of them.              *)
(***************************************************************************)
EXTENDS Naturals, Sequences

CONSTANTS
  Accounts,      \* the credentials a connection may have, one after the other
  Calls,
  Requests,      \* requests of a call
  MaxSessions,   \* bound on the sessions made
  EditsInFlight  \* a connection is edited while calls are at work

VARIABLES
  kind,          \* the provider
  account,       \* the credentials of the connection
  made,          \* made[n]: the account that session n was made for
  alive,         \* the sessions that the provider still accepts
  store,         \* the kept session, by key
  editing,       \* the row has been edited, the session is not yet cleared
  call           \* local state of the calls

vars == <<kind, account, made, alive, store, editing, call>>

-----------------------------------------------------------------------------
Kinds == {"SEMS", "LUXPOWER", "DEYE"}
SessionIds == 1..MaxSessions
None == 0

(* SessionFitsAccount needs that other credentials are another key.          *)
KeyOfConnection(k, a) == "connection"
(* cacheKey of SEMS+; a LuxPower or Deye session belongs to the connection.  *)
Key(k, a) == IF k = "SEMS" THEN a ELSE "connection"
Keys == Accounts \cup {"connection"}

(* tries: 2 in the last try; request: the requests that were answered;       *)
(* skipped: one of them failed and was left out; disturbed: a session has    *)
(* died since the call began.                                                *)
Call ==
  [pc : {"idle", "look", "login", "keep", "request", "ok", "rejected", "broken"},
   op : {"none", "sync", "discover", "test"}, account : Accounts, session : SessionIds \cup {None},
   tries : 1..2, request : 0..Requests, skipped : {"no", "broken", "rejected"},
   disturbed : {"no", "yes"}]
Idle(a) ==
  [pc |-> "idle", op |-> "none", account |-> a, session |-> None, tries |-> 1,
   request |-> 0, skipped |-> "no", disturbed |-> "no"]

AtWork(p) == call[p].pc \in {"look", "login", "keep", "request"}
(* What is left of a call is how it ended.                                   *)
Ended(c, how) ==
  [Idle(CHOOSE a \in Accounts : TRUE) EXCEPT
     !.pc = how, !.op = IF how = "ok" THEN c.op ELSE @,
     !.skipped = IF how = "ok" THEN c.skipped ELSE @,
     !.disturbed = IF how = "rejected" THEN c.disturbed ELSE @]
Step(p, c) == call' = [call EXCEPT ![p] = c]

Disturb(calls) ==
  [p \in Calls |-> [calls[p] EXCEPT !.disturbed = IF AtWork(p) THEN "yes" ELSE @]]

-----------------------------------------------------------------------------
(* The connection is read.  Deye finds the token in the same row; a test of  *)
(* the connection logs in first and is not repeated.  forceRelogin of        *)
(* LuxPower is a call that finds no session.                                 *)
Ops(k) ==
  CASE k = "SEMS" -> {"discover"} [] k = "LUXPOWER" -> {"sync", "discover"}
    [] k = "DEYE" -> {"sync", "test"}
Begin(p, op) ==
  /\ ~AtWork(p) /\ op \in Ops(kind)
  /\ EditsInFlight \/ editing = "no"
  /\ LET c == [Idle(account) EXCEPT !.op = op]
     IN  \/ kind # "DEYE" /\ Step(p, [c EXCEPT !.pc = "look"])
         \/ /\ kind = "DEYE" /\ op # "test"
            /\ LET kept == store[Key(kind, account)]
               IN  Step(p, [c EXCEPT !.session = kept,
                                     !.pc = IF kept = None THEN "login" ELSE "request"])
         \/ op = "test" /\ Step(p, [c EXCEPT !.pc = "login", !.tries = 2])
  /\ UNCHANGED <<kind, account, made, alive, store, editing>>

ForceRelogin(p) ==
  /\ kind = "LUXPOWER" /\ call[p].pc = "look"
  /\ store' = [store EXCEPT !["connection"] = None]
  /\ Step(p, [call[p] EXCEPT !.pc = "login"])
  /\ UNCHANGED <<kind, account, made, alive, editing>>

(* getOrCreateSession                                                        *)
GetOrCreateSession(p) ==
  /\ call[p].pc = "look"
  /\ LET kept == store[Key(kind, call[p].account)]
     IN  Step(p, [call[p] EXCEPT !.session = kept,
                                 !.pc = IF kept = None THEN "login" ELSE "request"])
  /\ UNCHANGED <<kind, account, made, alive, store, editing>>

(* The login succeeds and its session is kept; a provider may let it replace *)
(* the older ones.  Deye's statement follows in the next action.             *)
LoginAnswers(p) ==
  /\ call[p].pc = "login" /\ Len(made) < MaxSessions
  /\ LET n == Len(made) + 1
     IN  /\ made' = Append(made, call[p].account)
         /\ \/ alive' = alive \cup {n} /\ call' = [call EXCEPT ![p].session = n, ![p].pc = "keep"]
            \/ /\ alive' = {n}
               /\ call' = [Disturb(call) EXCEPT ![p].session = n, ![p].pc = "keep"]
  /\ UNCHANGED <<kind, account, store, editing>>

(* sessionCache.set, or the update of the row, whatever is kept by now.      *)
KeepSession(p) ==
  /\ call[p].pc = "keep"
  /\ store' = [store EXCEPT ![Key(kind, call[p].account)] = call[p].session]
  /\ Step(p, [call[p] EXCEPT !.pc = "request", !.request = 0, !.skipped = "no"])
  /\ UNCHANGED <<kind, account, made, alive, editing>>

LoginFails(p) ==
  /\ call[p].pc = "login"
  /\ Step(p, Ended(call[p], "broken"))
  /\ UNCHANGED <<kind, account, made, alive, store, editing>>

-----------------------------------------------------------------------------
(* The requests, one after the other.                                        *)
Answered(c) ==
  IF c.request + 1 = Requests THEN Ended(c, "ok")
  ELSE [c EXCEPT !.request = @ + 1]

Accepted(p) ==
  /\ call[p].pc = "request" /\ call[p].session \in alive
  /\ Step(p, Answered(call[p]))
  /\ UNCHANGED <<kind, account, made, alive, store, editing>>

(* The catch around the requests for single plants: that of SEMS+ and those  *)
(* of a LuxPower sync let a rejection through, that of LuxPower's list of    *)
(* plants does not.                                                          *)
LeavesOutRejected(c) == kind = "LUXPOWER" /\ c.op = "discover" /\ c.request > 0
LeavesOutBroken(c) == kind # "DEYE" /\ c.request > 0

(* DeadSessionCostsALogin needs the kept session to be dropped.                  *)
DroppedNot(p) == store
Dropped(p) ==
  IF kind = "DEYE" THEN store ELSE [store EXCEPT ![Key(kind, call[p].account)] = None]
(* What the second try works with: whatever is kept now; Deye is forced to   *)
(* log in, and reads the row again when it was called with an id.            *)
TryAgain(p) ==
  \E a \in IF kind = "DEYE" THEN {call[p].account, account} ELSE {call[p].account} :
    LET kept == IF kind = "DEYE" THEN None ELSE Dropped(p)[Key(kind, a)]
    IN  /\ store' = Dropped(p)
        /\ Step(p, [call[p] EXCEPT !.account = a, !.tries = 2, !.request = 0,
                                   !.skipped = "no", !.session = kept,
                                   !.pc = IF kept = None THEN "login" ELSE "request"])

Rejected(p) ==
  /\ call[p].pc = "request" /\ call[p].session \notin alive
  /\ \/ /\ LeavesOutRejected(call[p])
        /\ Step(p, Answered([call[p] EXCEPT !.skipped = "rejected"]))
        /\ UNCHANGED store
     \/ ~LeavesOutRejected(call[p]) /\ call[p].tries = 1 /\ TryAgain(p)
     \/ /\ ~LeavesOutRejected(call[p]) /\ call[p].tries = 2
        /\ Step(p, Ended(call[p], "rejected"))
        /\ UNCHANGED store
  /\ UNCHANGED <<kind, account, made, alive, editing>>

(* Any other failure, a time-out among them; SEMS+ is asked three times when *)
(* it answers 429 or 5xx.                                                    *)
Broken(p) ==
  /\ call[p].pc = "request"
  /\ Step(p, IF LeavesOutBroken(call[p])
             THEN Answered([call[p] EXCEPT !.skipped = IF @ = "no" THEN "broken" ELSE @])
             ELSE Ended(call[p], "broken"))
  /\ UNCHANGED <<kind, account, made, alive, store, editing>>

-----------------------------------------------------------------------------
(* The provider forgets a session; what is kept has grown old.               *)
SessionDies(n) ==
  /\ n \in alive
  /\ alive' = alive \ {n}
  /\ call' = Disturb(call)
  /\ UNCHANGED <<kind, account, made, store, editing>>

KeptGrowsOld(k) ==
  /\ store[k] # None
  /\ store' = [store EXCEPT ![k] = None]
  /\ UNCHANGED <<kind, account, made, alive, editing, call>>

(* update(): other credentials.  Deye drops the token in the same statement, *)
(* LuxPower the session after it.                                            *)
Edit ==
  /\ editing = "no"
  /\ kind = "SEMS" \/ EditsInFlight \/ \A p \in Calls : ~AtWork(p)
  /\ account' \in Accounts \ {account}
  /\ store' = IF kind = "DEYE" THEN [store EXCEPT !["connection"] = None] ELSE store
  /\ editing' = IF kind = "LUXPOWER" THEN "yes" ELSE "no"
  /\ UNCHANGED <<kind, made, alive, call>>

ClearSession ==
  /\ editing = "yes" /\ editing' = "no"
  /\ store' = [store EXCEPT !["connection"] = None]
  /\ UNCHANGED <<kind, account, made, alive, call>>

-----------------------------------------------------------------------------
Init ==
  /\ kind \in Kinds
  /\ account = CHOOSE a \in Accounts : TRUE
  /\ made = <<>> /\ alive = {}
  /\ store = [k \in Keys |-> None]
  /\ editing = "no"
  /\ call = [p \in Calls |-> Idle(account)]

Proceed(p) ==
  \/ GetOrCreateSession(p) \/ LoginAnswers(p) \/ KeepSession(p) \/ LoginFails(p)
  \/ Accepted(p) \/ Rejected(p) \/ Broken(p)

Next ==
  \/ \E p \in Calls : Proceed(p) \/ ForceRelogin(p) \/ \E op \in Ops(kind) : Begin(p, op)
  \/ \E n \in SessionIds : SessionDies(n)
  \/ \E k \in Keys : KeptGrowsOld(k)
  \/ Edit \/ ClearSession

Spec == Init /\ [][Next]_vars

-----------------------------------------------------------------------------
TypeOK ==
  /\ kind \in Kinds /\ account \in Accounts
  /\ made \in Seq(Accounts) /\ Len(made) <= MaxSessions
  /\ alive \subseteq 1..Len(made)
  /\ store \in [Keys -> 0..Len(made)]
  /\ editing \in {"no", "yes"}
  /\ call \in [Calls -> Call]

(* Data is fetched with the credentials that the call has read: a session    *)
(* of an account that the connection had before is not used after the edit.  *)
SessionFitsAccount ==
  \A p \in Calls : call[p].pc = "request" => made[call[p].session] = call[p].account

(* A dead session costs one more login and nothing else, whatever others     *)
(* have left in the store, or stored over a newer one: a call is rejected    *)
(* for good only when a session died while it was at work, and no part of    *)
(* what it fetches is left out because of it.  LuxPower's list of plants is  *)
(* the exception.                                                            *)
DeadSessionCostsALogin ==
  \A p \in Calls :
    /\ call[p].pc = "rejected" => call[p].disturbed = "yes"
    /\ call[p].pc = "ok" /\ (kind = "LUXPOWER" => call[p].op # "discover") =>
         call[p].skipped # "rejected"
=============================================================================
