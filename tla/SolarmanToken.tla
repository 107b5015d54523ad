---------------------------- MODULE SolarmanToken ---------------------------
(***************************************************************************)
(* Access to one SOLARMAN account in the mode WEB_OAUTH_REFRESH_TOKEN:      *)
(* backend/src/solarman-connections/solarman-web-oauth-token.service.ts,    *)
(* the lock of solarman-connection-lock.service.ts, the retry of            *)
(* solarman-web-oauth.provider.ts and the statements with which             *)
(* solarman-connections.service.ts writes the same row without the lock.    *)
(*                                                                          *)
(* Workers share one row of SolarmanConnection and each caches the access   *)
(* token in memory.  A refresh is a transaction that takes an advisory      *)
(* lock, exchanges the refresh token at SOLARMAN over HTTP and stores what  *)
(* came back.  Tokens are numbered in the order SOLARMAN issues them; an    *)
(* exchange issues an access and a refresh token of the same number, and 0  *)
(* is no token.  The time of an event is the number of tokens issued by     *)
(* then, which orders lastSuccessfulRefreshAt and operationStartedAt as the *)
(* clock of the code does.                                                  *)
(***************************************************************************)
EXTENDS Naturals

CONSTANTS
  Workers,          \* processes of the backend
  Procs,            \* calls in flight together
  WorkerOf,         \* the worker that runs a call
  NoCall,           \* nobody holds the advisory lock
  MaxTokens,        \* tokens SOLARMAN issues
  Edits,            \* administrators edit the row
  LockLost,         \* a transaction can pass its 30 s or lose its connection
  Authorizations    \* administrators paste refresh tokens

ASSUME SolarmanTokenAssumption ==
  /\ WorkerOf \in [Procs -> Workers]
  /\ NoCall \notin Procs
  /\ MaxTokens \in Nat \ {0}

VARIABLES
  row,       \* the row of SolarmanConnection
  lock,      \* the call whose transaction holds the advisory lock
  cache,     \* accessTokenCache of every worker
  call,      \* local state of every call
  issued,    \* number of tokens SOLARMAN has issued
  access,    \* access[n]: what SOLARMAN and the clock make of access token n
  refresh    \* refresh[n]: what SOLARMAN makes of refresh token n

vars == <<row, lock, cache, call, issued, access, refresh>>

-----------------------------------------------------------------------------
Tokens == 1..MaxTokens
Token == 0..MaxTokens

(* aging: accepted, but within the margin before expiry in which isUsable    *)
(* no longer hands it out; revoked: refused although it has not expired.     *)
AccessState == {"none", "good", "aging", "revoked", "expired"}
(* spent: exchanged for a newer token, and the answer reached the backend.   *)
RefreshState == {"none", "live", "spent", "revoked"}

Row ==
  [access : Token, refresh : Token, status : {"CONFIGURED", "VERIFIED", "ERROR", "AUTH_REQUIRED"}]

Outcome == {"none", "ok", "denied", "unreachable", "rejected"}

(* mode: what the call is in: getValidSession, refreshAfterRejection or      *)
(* authorize.  token: the access token in use, or the one just rejected.     *)
Call ==
  [pc : {"idle", "get", "wait", "reuse", "exchange", "persist", "use", "mark", "report", "edit"},
   mode : {"get", "retry", "authorize"}, started : Token, token : Token, sent : Token,
   newAccess : Token, newRefresh : Token, seen : Row, outcome : Outcome]

EmptyRow == [access |-> 0, refresh |-> 0, status |-> "CONFIGURED"]

Idle ==
  [pc |-> "idle", mode |-> "get", started |-> 0, token |-> 0, sent |-> 0,
   newAccess |-> 0, newRefresh |-> 0, seen |-> EmptyRow, outcome |-> "none"]

(* isUsable, of a token in the cache or in the row *)
Usable(n) == n # 0 /\ access[n] \in {"good", "revoked"}
Accepted(n) == access[n] \in {"good", "aging"}

Failed(c, outcome) ==
  [Idle EXCEPT !.pc = "mark", !.mode = c.mode, !.started = c.started, !.outcome = outcome]
Ended(c, outcome) ==
  [Idle EXCEPT !.pc = "report", !.mode = c.mode, !.started = c.started, !.outcome = outcome]

Become(p, state) == call' = [call EXCEPT ![p] = state]
Cache(p, n) == cache' = [cache EXCEPT ![WorkerOf[p]] = n]
Unlock(p) == lock' = IF lock = p THEN NoCall ELSE lock

Provider == <<issued, access, refresh>>

-----------------------------------------------------------------------------
(* getValidSession: from the cache, else under the lock. *)
Get(p) ==
  LET cached == cache[WorkerOf[p]] IN
  /\ call[p].pc \in {"idle", "get"}
  /\ IF Usable(cached)
     THEN Become(p, [Idle EXCEPT !.pc = "use", !.token = cached])
     ELSE Become(p, [Idle EXCEPT !.pc = "wait", !.started = issued])
  /\ UNCHANGED <<row, lock, cache, Provider>>

(* authorize, with the refresh token n that an administrator has pasted. *)
Authorize(p, n) ==
  /\ Authorizations /\ call[p] = Idle
  /\ Become(p, [Idle EXCEPT !.pc = "wait", !.mode = "authorize", !.started = issued, !.sent = n])
  /\ Cache(p, 0)
  /\ UNCHANGED <<row, lock, Provider>>

ReusableAtFirst(c) == c.mode = "get" /\ Usable(row.access)   \* faulty variant of Reusable

(* The row has a usable access token, and not the one that was rejected. *)
Reusable(c) ==
  /\ c.mode # "authorize" /\ Usable(row.access)
  /\ c.mode = "retry" => row.access # c.token

AcquireShared(p) ==     \* faulty variant of Acquire: the lock excludes nobody
  LET c == call[p]
      sent == IF c.mode = "authorize" THEN c.sent ELSE row.refresh
  IN
  /\ c.pc = "wait"
  /\ \/ /\ Reusable(c)
        /\ Become(p, [c EXCEPT !.pc = "reuse", !.seen = row])
        /\ lock' = p
     \/ /\ ~Reusable(c) /\ sent # 0
        /\ Become(p, [c EXCEPT !.pc = "exchange", !.seen = row, !.sent = sent])
        /\ lock' = p
     \/ /\ ~Reusable(c) /\ sent = 0
        /\ Become(p, Failed(c, "denied"))
        /\ UNCHANGED lock
  /\ UNCHANGED <<row, cache, Provider>>

(* withRefreshLock and readConnection.  Without any refresh token the call   *)
(* fails at once and the transaction ends.                                   *)
Acquire(p) ==
  LET c == call[p]
      sent == IF c.mode = "authorize" THEN c.sent ELSE row.refresh
  IN
  /\ c.pc = "wait" /\ lock = NoCall
  /\ \/ /\ Reusable(c)
        /\ Become(p, [c EXCEPT !.pc = "reuse", !.seen = row])
        /\ lock' = p
     \/ /\ ~Reusable(c) /\ sent # 0
        /\ Become(p, [c EXCEPT !.pc = "exchange", !.seen = row, !.sent = sent])
        /\ lock' = p
     \/ /\ ~Reusable(c) /\ sent = 0
        /\ Become(p, Failed(c, "denied"))
        /\ UNCHANGED lock
  /\ UNCHANGED <<row, cache, Provider>>

(* The wait for the lock counts in the time a transaction has.  The failure *)
(* is none of SOLARMAN's and is not noted.                                   *)
WaitTimesOut(p) ==
  /\ LockLost
  /\ call[p].pc = "wait"
  /\ Become(p, Ended(call[p], "unreachable"))
  /\ UNCHANGED <<row, lock, cache, Provider>>

Reuse(p) ==
  LET c == call[p] IN
  /\ c.pc = "reuse"
  /\ Cache(p, c.seen.access)
  /\ Become(p, [Idle EXCEPT !.pc = "use", !.mode = c.mode, !.token = c.seen.access])
  /\ Unlock(p)
  /\ UNCHANGED <<row, Provider>>

-----------------------------------------------------------------------------
(* refreshLocked.  SOLARMAN takes the refresh token and may rotate it; or it *)
(* refuses it; or there is no answer, before or after it took the token.     *)

ExchangeTaken(p, rotate) ==
  LET c == call[p]
      n == issued + 1
  IN
  /\ c.pc = "exchange" /\ refresh[c.sent] = "live" /\ issued < MaxTokens
  /\ issued' = n
  /\ access' = [access EXCEPT ![n] = "good"]
  /\ refresh' = IF rotate THEN [refresh EXCEPT ![c.sent] = "spent", ![n] = "live"] ELSE refresh
  /\ Become(p, [c EXCEPT !.pc = "persist", !.newAccess = n,
                         !.newRefresh = IF rotate THEN n ELSE c.sent])
  /\ UNCHANGED <<row, lock, cache>>

ExchangeFailsLocked(p, outcome) ==   \* faulty variant: the lock is not released
  LET c == call[p] IN
  /\ c.pc = "exchange"
  /\ \/ outcome = "denied" /\ refresh[c.sent] # "live" /\ UNCHANGED refresh
     \/ outcome = "unreachable" /\ UNCHANGED refresh
     \/ outcome = "unreachable" /\ refresh[c.sent] = "live"
        /\ refresh' = [refresh EXCEPT ![c.sent] = "revoked"]
  /\ Become(p, Failed(c, outcome))
  /\ UNCHANGED <<row, lock, cache, issued, access>>

ExchangeFails(p, outcome) ==
  LET c == call[p] IN
  /\ c.pc = "exchange"
  /\ \/ outcome = "denied" /\ refresh[c.sent] # "live" /\ UNCHANGED refresh
     \/ outcome = "unreachable" /\ UNCHANGED refresh
     \/ outcome = "unreachable" /\ refresh[c.sent] = "live"
        /\ refresh' = [refresh EXCEPT ![c.sent] = "revoked"]
  /\ Become(p, Failed(c, outcome))
  /\ Unlock(p)
  /\ UNCHANGED <<row, cache, issued, access>>

(* Faulty variant of Persist: the rotated refresh token is not stored. *)
PersistAccessOnly(p) ==
  LET c == call[p] IN
  /\ c.pc = "persist" /\ lock = p
  /\ row' = [access |-> c.newAccess, refresh |-> c.sent, status |-> c.seen.status]
  /\ Cache(p, c.newAccess)
  /\ Become(p, [Idle EXCEPT !.pc = "use", !.mode = c.mode, !.token = c.newAccess])
  /\ lock' = NoCall
  /\ UNCHANGED Provider

(* The update and the commit.  The status is the one read under the lock;    *)
(* after an authorization it is CONFIGURED and the connection is tested.     *)
Persist(p) ==
  LET c == call[p]
      stored == [access |-> c.newAccess, refresh |-> c.newRefresh,
                 status |-> IF c.mode = "authorize" THEN "CONFIGURED" ELSE c.seen.status]
  IN
  /\ c.pc = "persist" /\ lock = p
  /\ row' = stored
  /\ Cache(p, c.newAccess)
  /\ IF c.mode = "authorize" THEN Become(p, [Idle EXCEPT !.pc = "get"])
     ELSE Become(p, [Idle EXCEPT !.pc = "use", !.mode = c.mode, !.token = c.newAccess])
  /\ lock' = NoCall
  /\ UNCHANGED Provider

(* The transaction is gone while its call is still at the provider: nothing  *)
(* is stored, the lock is free, and the update fails when it is reached.     *)
LoseLock(p) ==
  /\ LockLost
  /\ lock = p /\ call[p].pc \in {"exchange", "persist"}
  /\ lock' = NoCall
  /\ UNCHANGED <<row, cache, call, Provider>>

PersistFails(p) ==
  /\ call[p].pc = "persist" /\ lock # p
  /\ Become(p, Failed(call[p], "unreachable"))
  /\ UNCHANGED <<row, lock, cache, Provider>>

-----------------------------------------------------------------------------
FailureStatus(outcome) == IF outcome = "unreachable" THEN "ERROR" ELSE "AUTH_REQUIRED"

(* withFailureStatus: note the failure in a transaction of its own, unless a *)
(* refresh has succeeded since the call started.                             *)
Mark(p) ==
  LET c == call[p] IN
  /\ c.pc = "mark" /\ lock = NoCall
  /\ row' = IF row.access > c.started THEN row ELSE [row EXCEPT !.status = FailureStatus(c.outcome)]
  /\ Become(p, Ended(c, c.outcome))
  /\ UNCHANGED <<lock, cache, Provider>>

(* withTokenRetry: use the session; one rejection leads to                  *)
(* refreshAfterRejection, which forgets the cached token.                    *)
Use(p) ==
  LET c == call[p] IN
  /\ c.pc = "use"
  /\ \/ /\ Accepted(c.token)
        /\ Become(p, Ended(c, "ok")) /\ UNCHANGED cache
     \/ /\ ~Accepted(c.token) /\ c.mode = "get"
        /\ Become(p, [Idle EXCEPT !.pc = "wait", !.mode = "retry", !.started = issued,
                                  !.token = c.token])
        /\ Cache(p, 0)
     \/ /\ ~Accepted(c.token) /\ c.mode = "retry"
        /\ Become(p, Ended(c, "rejected")) /\ UNCHANGED cache
  /\ UNCHANGED <<row, lock, Provider>>

(* testConnection, syncSingleConnection and authorizeWebOAuth write the      *)
(* status when they end, without lock or condition; fetchSystemRealtime does  *)
(* so only when it succeeds.                                                 *)
Report(p) ==
  LET c == call[p]
      status == IF c.outcome = "ok" THEN "VERIFIED" ELSE FailureStatus(c.outcome)
  IN
  /\ c.pc = "report"
  /\ \/ row' = [row EXCEPT !.status = status]
     \/ c.outcome # "ok" /\ c.mode # "authorize" /\ UNCHANGED row
  /\ Become(p, Idle)
  /\ UNCHANGED <<lock, cache, Provider>>

-----------------------------------------------------------------------------
(* update: the row is read, and every token column is written back as it was *)
(* read; with another account, user name or provider type they are cleared.  *)

EditRead(p) ==
  /\ Edits /\ call[p] = Idle
  /\ Become(p, [Idle EXCEPT !.pc = "edit", !.seen = row])
  /\ UNCHANGED <<row, lock, cache, Provider>>

EditWrite(p, reset) ==
  /\ call[p].pc = "edit"
  /\ row' = IF reset THEN EmptyRow ELSE call[p].seen
  /\ IF reset THEN Cache(p, 0) ELSE UNCHANGED cache
  /\ Become(p, Idle)
  /\ UNCHANGED <<lock, Provider>>

-----------------------------------------------------------------------------
(* SOLARMAN and the clock *)

(* Somebody signs in with a browser: a refresh token to paste. *)
SignIn ==
  /\ Authorizations /\ issued < MaxTokens
  /\ issued' = issued + 1
  /\ refresh' = [refresh EXCEPT ![issued + 1] = "live"]
  /\ UNCHANGED <<row, lock, cache, call, access>>

Age(n) ==
  /\ \/ access[n] = "good" /\ access' = [access EXCEPT ![n] = "aging"]
     \/ access[n] \in {"aging", "revoked"} /\ access' = [access EXCEPT ![n] = "expired"]
  /\ UNCHANGED <<row, lock, cache, call, issued, refresh>>

RevokeAccess(n) ==
  /\ access[n] = "good"
  /\ access' = [access EXCEPT ![n] = "revoked"]
  /\ UNCHANGED <<row, lock, cache, call, issued, refresh>>

RevokeRefresh(n) ==
  /\ refresh[n] = "live"
  /\ refresh' = [refresh EXCEPT ![n] = "revoked"]
  /\ UNCHANGED <<row, lock, cache, call, issued, access>>

-----------------------------------------------------------------------------
(* The connection has been authorized; the workers have just started. *)
Init ==
  /\ row = [access |-> 1, refresh |-> 1, status |-> "VERIFIED"]
  /\ lock = NoCall
  /\ cache = [w \in Workers |-> 0]
  /\ call = [p \in Procs |-> Idle]
  /\ issued = 1
  /\ access = [n \in Tokens |-> IF n = 1 THEN "good" ELSE "none"]
  /\ refresh = [n \in Tokens |-> IF n = 1 THEN "live" ELSE "none"]

(* What a call does on its own once it has begun *)
Proceed(p) ==
  \/ call[p].pc = "get" /\ Get(p)
  \/ Reuse(p)
  \/ \E rotate \in BOOLEAN : ExchangeTaken(p, rotate)
  \/ \E outcome \in {"denied", "unreachable"} : ExchangeFails(p, outcome)
  \/ Persist(p)
  \/ PersistFails(p)
  \/ Use(p)
  \/ Report(p)

Begin(p) ==
  \/ call[p].pc = "idle" /\ Get(p)
  \/ \E n \in 1..issued : Authorize(p, n)
  \/ EditRead(p)

Environment ==
  \/ SignIn
  \/ \E n \in Tokens : Age(n) \/ RevokeAccess(n) \/ RevokeRefresh(n)

Next ==
  \/ \E p \in Procs :
       \/ Begin(p) \/ Proceed(p) \/ Acquire(p) \/ Mark(p)
       \/ LoseLock(p) \/ WaitTimesOut(p)
       \/ \E reset \in BOOLEAN : EditWrite(p, reset)
  \/ Environment

Spec == Init /\ [][Next]_vars

(* Awaits come back: the HTTP call is aborted after its timeout.  Waiters    *)
(* for a PostgreSQL advisory lock queue up, so one that waits gets it.       *)
Fairness ==
  \A p \in Procs : WF_vars(Proceed(p)) /\ SF_vars(Acquire(p)) /\ SF_vars(Mark(p))

-----------------------------------------------------------------------------
(* Properties *)

TypeOK ==
  /\ row \in Row
  /\ lock \in Procs \cup {NoCall}
  /\ cache \in [Workers -> Token]
  /\ call \in [Procs -> Call]
  /\ issued \in Tokens
  /\ access \in [Tokens -> AccessState]
  /\ refresh \in [Tokens -> RefreshState]

(* A rotated refresh token replaces the previous one: between two refreshes *)
(* the row never holds a token that has already been exchanged for a newer  *)
(* one, whichever worker exchanged it.  A row that does can only be repaired *)
(* by signing in again.                                                     *)
NoSpentTokenStored ==
  lock = NoCall /\ row.refresh # 0 => refresh[row.refresh] # "spent"

(* Edits without the lock, pasted tokens and transactions that end under    *)
(* their call never leave the lock with a call that has gone on to          *)
(* something else, where nobody would release it.                           *)
LockIsAtWork == lock # NoCall => call[lock].pc \in {"reuse", "exchange", "persist"}

AtProvider(p) == call[p].pc \in {"exchange", "persist"}

(* Two calls never have the stored refresh token at SOLARMAN together. *)
OneExchangeAtATime ==
  \A p, q \in Procs : p # q /\ AtProvider(p) /\ AtProvider(q) => call[p].sent # call[q].sent

(* When many calls are rejected with one access token, or find it expired,  *)
(* one of them refreshes and the others take what it stored: nobody is at   *)
(* SOLARMAN for a new token while the row holds a usable one, other than    *)
(* the one this very call was rejected with.                                *)
NoTokenWasted ==
  \A p \in Procs :
    /\ AtProvider(p) /\ call[p].mode # "authorize" /\ Usable(row.access)
    => call[p].mode = "retry" /\ row.access = call[p].token

(* A failure that is older than the latest successful refresh does not      *)
(* change the status: another worker may have refreshed meanwhile.  Mark    *)
(* keeps to this, Report does not.                                          *)
NewerSuccessStands ==
  [][\A p \in Procs :
       /\ call[p].pc \in {"mark", "report"} /\ call'[p] # call[p]
       /\ call[p].outcome \in {"denied", "unreachable"}
       /\ row.access > call[p].started
       => row'.status = row.status]_vars

(* Every call ends: the lock is given back by everyone who gets it, also on *)
(* the way through a failure, a rejection and a second attempt.             *)
CallsEnd == \A p \in Procs : call[p].pc \notin {"idle", "edit"} ~> call[p].pc = "idle"
=============================================================================
