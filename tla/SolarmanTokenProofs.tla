-------------------------- MODULE SolarmanTokenProofs --------------------------
(***************************************************************************)
(* Proofs about SolarmanToken, for any number of workers, calls and tokens.*)
(***************************************************************************)
EXTENDS SolarmanToken, TLAPS

(* The records the initial state is made of.                                 *)
LEMMA IdleIsCall == Idle \in Call /\ EmptyRow \in Row
  BY SolarmanTokenAssumption DEF Idle, Call, EmptyRow, Row, Token, Outcome

(* What is left of a call that has ended.                                    *)
LEMMA EndsAreCalls ==
  ASSUME NEW c \in Call, NEW outcome \in Outcome
  PROVE  Failed(c, outcome) \in Call /\ Ended(c, outcome) \in Call
<1>1. c.mode \in {"get", "retry", "authorize"} /\ c.started \in Token
  BY DEF Call
<1>2. Idle \in Call
  BY IdleIsCall
<1>3. Failed(c, outcome) \in Call
  BY <1>1, <1>2 DEF Failed, Call
<1>4. Ended(c, outcome) \in Call
  BY <1>1, <1>2 DEF Ended, Call
<1>5. QED
  BY <1>3, <1>4

(* Local states that calls reach: to wait, and to use a token.               *)
LEMMA NextCalls ==
  ASSUME NEW t \in Token, NEW s \in Token, NEW mode \in {"get", "retry", "authorize"},
         NEW seen \in Row
  PROVE  /\ [Idle EXCEPT !.pc = "use", !.mode = mode, !.token = t] \in Call
         /\ [Idle EXCEPT !.pc = "use", !.token = t] \in Call
         /\ [Idle EXCEPT !.pc = "wait", !.started = s] \in Call
         /\ [Idle EXCEPT !.pc = "wait", !.mode = mode, !.started = s, !.sent = t] \in Call
         /\ [Idle EXCEPT !.pc = "wait", !.mode = mode, !.started = s, !.token = t] \in Call
         /\ [Idle EXCEPT !.pc = "get"] \in Call
         /\ [Idle EXCEPT !.pc = "edit", !.seen = seen] \in Call
<1>1. Idle \in Call
  BY IdleIsCall
<1>2. [Idle EXCEPT !.pc = "use", !.mode = mode, !.token = t] \in Call
  BY <1>1 DEF Call
<1>3. [Idle EXCEPT !.pc = "use", !.token = t] \in Call
  BY <1>1 DEF Call
<1>4. [Idle EXCEPT !.pc = "wait", !.started = s] \in Call
  BY <1>1 DEF Call
<1>5. [Idle EXCEPT !.pc = "wait", !.mode = mode, !.started = s, !.sent = t] \in Call
  BY <1>1 DEF Call
<1>6. [Idle EXCEPT !.pc = "wait", !.mode = mode, !.started = s, !.token = t] \in Call
  BY <1>1 DEF Call
<1>7. [Idle EXCEPT !.pc = "get"] \in Call
  BY <1>1 DEF Call
<1>8. [Idle EXCEPT !.pc = "edit", !.seen = seen] \in Call
  BY <1>1 DEF Call
<1>9. QED
  BY <1>2, <1>3, <1>4, <1>5, <1>6, <1>7, <1>8

(* What becomes of a call that holds the lock.                               *)
LEMMA LockedCalls ==
  ASSUME NEW c \in Call, NEW seen \in Row, NEW t \in Token, NEW n \in Token
  PROVE  /\ [c EXCEPT !.pc = "reuse", !.seen = seen] \in Call
         /\ [c EXCEPT !.pc = "exchange", !.seen = seen, !.sent = t] \in Call
         /\ [c EXCEPT !.pc = "persist", !.newAccess = n, !.newRefresh = t] \in Call
  BY DEF Call

(* What these states say of where the call is.                               *)
LEMMA WhereNextCallsAre ==
  /\ Idle.pc = "idle"
  /\ \A t, mode : [Idle EXCEPT !.pc = "use", !.mode = mode, !.token = t].pc = "use"
  /\ \A t : [Idle EXCEPT !.pc = "use", !.token = t].pc = "use"
  /\ \A s : [Idle EXCEPT !.pc = "wait", !.started = s].pc = "wait"
  /\ \A t, s, mode : [Idle EXCEPT !.pc = "wait", !.mode = mode, !.started = s, !.sent = t].pc = "wait"
  /\ \A t, s, mode : [Idle EXCEPT !.pc = "wait", !.mode = mode, !.started = s, !.token = t].pc = "wait"
  /\ [Idle EXCEPT !.pc = "get"].pc = "get"
  /\ \A seen : [Idle EXCEPT !.pc = "edit", !.seen = seen].pc = "edit"
  /\ \A c, outcome : Failed(c, outcome).pc = "mark" /\ Ended(c, outcome).pc = "report"
  BY DEF Idle, Failed, Ended

(* The row, the lock, caches, calls and tokens keep their types.             *)
THEOREM TypeCorrect == Spec => []TypeOK
<1>1. Init => TypeOK
  BY IdleIsCall, SolarmanTokenAssumption
  DEF Init, TypeOK, Row, Token, Tokens, AccessState, RefreshState
<1>2. TypeOK /\ [Next]_vars => TypeOK'
  <2> SUFFICES ASSUME TypeOK, [Next]_vars PROVE TypeOK'
    OBVIOUS
  <2> USE IdleIsCall, SolarmanTokenAssumption
  <2>1. /\ row \in Row /\ lock \in Procs \cup {NoCall} /\ cache \in [Workers -> Token]
        /\ call \in [Procs -> Call] /\ issued \in Tokens
        /\ access \in [Tokens -> AccessState] /\ refresh \in [Tokens -> RefreshState]
    BY DEF TypeOK
  <2>2. 0 \in Token /\ Tokens \subseteq Token /\ 1..issued \subseteq Token
    BY <2>1 DEF Token, Tokens
  <2>3. row.access \in Token /\ row.refresh \in Token
    BY <2>1 DEF Row
  <2>4. ASSUME NEW p \in Procs, NEW c \in Call, Become(p, c) PROVE call' \in [Procs -> Call]
    BY <2>1, <2>4 DEF Become
  <2>5. ASSUME NEW p \in Procs, NEW t \in Token, Cache(p, t) PROVE cache' \in [Workers -> Token]
    BY <2>1, <2>5 DEF Cache
  <2>6. ASSUME NEW p \in Procs, Unlock(p) PROVE lock' \in Procs \cup {NoCall}
    BY <2>1, <2>6 DEF Unlock
  <2>7. \A p \in Procs :
          /\ call[p] \in Call /\ cache[WorkerOf[p]] \in Token
          /\ call[p].token \in Token /\ call[p].sent \in Token /\ call[p].started \in Token
          /\ call[p].newAccess \in Token /\ call[p].newRefresh \in Token
          /\ call[p].seen \in Row /\ call[p].seen.access \in Token
          /\ call[p].mode \in {"get", "retry", "authorize"}
          /\ call[p].outcome \in Outcome
    BY <2>1 DEF Call, Row
  <2>8. \A status \in {"CONFIGURED", "VERIFIED", "ERROR", "AUTH_REQUIRED"} :
          [row EXCEPT !.status = status] \in Row
    BY <2>1 DEF Row
  <2>9. \A outcome \in Outcome : FailureStatus(outcome) \in {"ERROR", "AUTH_REQUIRED"}
    BY DEF FailureStatus
  <2>10. {"denied", "unreachable", "ok", "rejected"} \subseteq Outcome
    BY DEF Outcome
  <2>11. ASSUME NEW p \in Procs, Get(p) PROVE TypeOK'
    <3>1. call' \in [Procs -> Call]
      BY <2>1, <2>2, <2>4, <2>7, <2>11, NextCalls DEF Get
    <3>2. QED
      BY <2>1, <2>11, <3>1 DEF Get, TypeOK, Provider
  <2>12. ASSUME NEW p \in Procs, NEW n \in 1..issued, Authorize(p, n) PROVE TypeOK'
    <3>1. call' \in [Procs -> Call]
      BY <2>1, <2>2, <2>4, <2>12, NextCalls DEF Authorize
    <3>2. QED
      BY <2>1, <2>2, <2>5, <2>12, <3>1 DEF Authorize, TypeOK, Provider
  <2>13. ASSUME NEW p \in Procs, Acquire(p) PROVE TypeOK'
    <3>1. call' \in [Procs -> Call]
      <4>1. CASE Become(p, [call[p] EXCEPT !.pc = "reuse", !.seen = row])
        BY <2>1, <2>4, <2>7, <4>1, LockedCalls
      <4>2. CASE Become(p, Failed(call[p], "denied"))
        BY <2>4, <2>7, <2>10, <4>2, EndsAreCalls
      <4>3. ASSUME NEW t \in Token,
                   Become(p, [call[p] EXCEPT !.pc = "exchange", !.seen = row, !.sent = t])
            PROVE  call' \in [Procs -> Call]
        BY <2>1, <2>4, <2>7, <4>3, LockedCalls
      <4>4. QED
        BY <2>3, <2>7, <2>13, <4>1, <4>2, <4>3 DEF Acquire
    <3>2. QED
      BY <2>1, <2>13, <3>1 DEF Acquire, TypeOK, Provider
  <2>14. ASSUME NEW p \in Procs, WaitTimesOut(p) PROVE TypeOK'
    <3>1. call' \in [Procs -> Call]
      BY <2>4, <2>7, <2>10, <2>14, EndsAreCalls DEF WaitTimesOut
    <3>2. QED
      BY <2>1, <2>14, <3>1 DEF WaitTimesOut, TypeOK, Provider
  <2>15. ASSUME NEW p \in Procs, Reuse(p) PROVE TypeOK'
    <3>1. call' \in [Procs -> Call]
      BY <2>1, <2>4, <2>7, <2>15, NextCalls DEF Reuse
    <3>2. QED
      BY <2>1, <2>5, <2>6, <2>7, <2>15, <3>1 DEF Reuse, TypeOK, Provider
  <2>16. ASSUME NEW p \in Procs, NEW rotate \in BOOLEAN, ExchangeTaken(p, rotate) PROVE TypeOK'
    <3>1. issued + 1 \in Tokens
      BY <2>1, <2>16 DEF ExchangeTaken, Tokens
    <3>2. (IF rotate THEN issued + 1 ELSE call[p].sent) \in Token
      BY <2>2, <2>7, <3>1
    <3>3. call' \in [Procs -> Call]
      BY <2>2, <2>4, <2>7, <2>16, <3>1, <3>2, LockedCalls DEF ExchangeTaken
    <3>4. access' \in [Tokens -> AccessState] /\ refresh' \in [Tokens -> RefreshState]
      BY <2>1, <2>16 DEF ExchangeTaken, AccessState, RefreshState
    <3>5. QED
      BY <2>1, <2>16, <3>1, <3>3, <3>4 DEF ExchangeTaken, TypeOK
  <2>17. ASSUME NEW p \in Procs, NEW outcome \in {"denied", "unreachable"},
                ExchangeFails(p, outcome)
         PROVE  TypeOK'
    <3>1. call' \in [Procs -> Call]
      BY <2>4, <2>7, <2>10, <2>17, EndsAreCalls DEF ExchangeFails
    <3>2. refresh' \in [Tokens -> RefreshState]
      BY <2>1, <2>17 DEF ExchangeFails, RefreshState
    <3>3. QED
      BY <2>1, <2>6, <2>17, <3>1, <3>2 DEF ExchangeFails, TypeOK
  <2>18. ASSUME NEW p \in Procs, Persist(p) PROVE TypeOK'
    <3>1. call' \in [Procs -> Call]
      BY <2>1, <2>2, <2>4, <2>7, <2>18, NextCalls DEF Persist
    <3>2. row' \in Row
      BY <2>7, <2>18 DEF Persist, Row
    <3>3. QED
      BY <2>1, <2>5, <2>7, <2>18, <3>1, <3>2 DEF Persist, TypeOK, Provider
  <2>19. ASSUME NEW p \in Procs, LoseLock(p) PROVE TypeOK'
    BY <2>1, <2>19 DEF LoseLock, TypeOK, Provider
  <2>20. ASSUME NEW p \in Procs, PersistFails(p) PROVE TypeOK'
    <3>1. call' \in [Procs -> Call]
      BY <2>4, <2>7, <2>10, <2>20, EndsAreCalls DEF PersistFails
    <3>2. QED
      BY <2>1, <2>20, <3>1 DEF PersistFails, TypeOK, Provider
  <2>21. ASSUME NEW p \in Procs, Mark(p) PROVE TypeOK'
    <3>1. call' \in [Procs -> Call]
      BY <2>4, <2>7, <2>21, EndsAreCalls DEF Mark
    <3>2. row' \in Row
      BY <2>1, <2>7, <2>8, <2>9, <2>21 DEF Mark
    <3>3. QED
      BY <2>1, <2>21, <3>1, <3>2 DEF Mark, TypeOK, Provider
  <2>22. ASSUME NEW p \in Procs, Use(p) PROVE TypeOK'
    <3>1. call' \in [Procs -> Call]
      BY <2>1, <2>2, <2>4, <2>7, <2>10, <2>22, EndsAreCalls, NextCalls DEF Use
    <3>2. cache' \in [Workers -> Token]
      BY <2>1, <2>2, <2>5, <2>22 DEF Use
    <3>3. QED
      BY <2>1, <2>22, <3>1, <3>2 DEF Use, TypeOK, Provider
  <2>23. ASSUME NEW p \in Procs, Report(p) PROVE TypeOK'
    <3>1. call' \in [Procs -> Call]
      BY <2>4, <2>23 DEF Report
    <3>2. row' \in Row
      BY <2>1, <2>7, <2>8, <2>9, <2>23 DEF Report
    <3>3. QED
      BY <2>1, <2>23, <3>1, <3>2 DEF Report, TypeOK, Provider
  <2>24. ASSUME NEW p \in Procs, EditRead(p) PROVE TypeOK'
    <3>1. call' \in [Procs -> Call]
      BY <2>1, <2>2, <2>4, <2>24, NextCalls DEF EditRead
    <3>2. QED
      BY <2>1, <2>24, <3>1 DEF EditRead, TypeOK, Provider
  <2>25. ASSUME NEW p \in Procs, NEW reset \in BOOLEAN, EditWrite(p, reset) PROVE TypeOK'
    <3>1. call' \in [Procs -> Call]
      BY <2>4, <2>25 DEF EditWrite
    <3>2. cache' \in [Workers -> Token]
      BY <2>1, <2>2, <2>5, <2>25 DEF EditWrite
    <3>3. QED
      BY <2>1, <2>7, <2>25, <3>1, <3>2 DEF EditWrite, TypeOK, Provider
  <2>26. CASE SignIn
    BY <2>1, <2>26 DEF SignIn, TypeOK, Tokens, RefreshState
  <2>27. ASSUME NEW n \in Tokens, Age(n) \/ RevokeAccess(n) \/ RevokeRefresh(n) PROVE TypeOK'
    BY <2>1, <2>27 DEF Age, RevokeAccess, RevokeRefresh, TypeOK, AccessState, RefreshState
  <2>28. CASE UNCHANGED vars
    BY <2>1, <2>28 DEF vars, TypeOK
  <2>29. QED
    BY <2>11, <2>12, <2>13, <2>14, <2>15, <2>16, <2>17, <2>18, <2>19, <2>20, <2>21, <2>22,
       <2>23, <2>24, <2>25, <2>26, <2>27, <2>28
    DEF Next, Begin, Proceed, Environment
<1>3. QED
  BY <1>1, <1>2, PTL DEF Spec

-----------------------------------------------------------------------------
(* Whatever disturbs the calls, the lock is never left with one that has     *)
(* gone on to something else.                                                *)
THEOREM LockAlwaysAtWork == Spec => []LockIsAtWork
<1>1. Init => LockIsAtWork
  BY DEF Init, LockIsAtWork
<1>2. TypeOK /\ LockIsAtWork /\ [Next]_vars => LockIsAtWork'
  <2> SUFFICES ASSUME TypeOK, LockIsAtWork, [Next]_vars, lock' # NoCall
               PROVE  call'[lock'].pc \in {"reuse", "exchange", "persist"}
    BY DEF LockIsAtWork
  <2> DEFINE work == {"reuse", "exchange", "persist"}
  <2>1. lock \in Procs \cup {NoCall} /\ call \in [Procs -> Call]
    BY DEF TypeOK
  <2>2. lock # NoCall => lock \in Procs /\ call[lock].pc \in work
    BY <2>1 DEF LockIsAtWork
  <2>3. ASSUME NEW p \in Procs, NEW c, Become(p, c), lock' = lock, call[p].pc \notin work
        PROVE  call'[lock'].pc \in work
    BY <2>1, <2>2, <2>3 DEF Become
  <2>4. ASSUME NEW p \in Procs, NEW c, Become(p, c), lock' = lock \/ lock' = p, c.pc \in work
        PROVE  call'[lock'].pc \in work
    BY <2>1, <2>2, <2>4 DEF Become
  <2>5. ASSUME NEW p \in Procs, NEW c, Become(p, c), Unlock(p)
        PROVE  call'[lock'].pc \in work
    BY <2>1, <2>2, <2>5 DEF Become, Unlock
  <2>6. \A p \in Procs : call[p] \in Call
    BY <2>1
  <2>7. ASSUME NEW p \in Procs,
               \/ Get(p) \/ (\E n \in 1..issued : Authorize(p, n)) \/ EditRead(p)
               \/ (\E reset \in BOOLEAN : EditWrite(p, reset))
               \/ WaitTimesOut(p) \/ Mark(p) \/ Use(p) \/ Report(p)
        PROVE  call'[lock'].pc \in work
    <3>1. lock' = lock /\ call[p].pc \notin work
      BY <2>7, WhereNextCallsAre
      DEF Get, Authorize, EditRead, EditWrite, WaitTimesOut, Mark, Use, Report
    <3>2. \E c : Become(p, c)
      BY <2>7 DEF Get, Authorize, EditRead, EditWrite, WaitTimesOut, Mark, Use, Report
    <3>3. QED
      BY <2>3, <3>1, <3>2
  <2>8. ASSUME NEW p \in Procs, Acquire(p) PROVE call'[lock'].pc \in work
    <3>1. /\ [call[p] EXCEPT !.pc = "reuse", !.seen = row].pc = "reuse"
          /\ \A t : [call[p] EXCEPT !.pc = "exchange", !.seen = row, !.sent = t].pc = "exchange"
      BY <2>6 DEF Call
    <3>2. QED
      BY <2>3, <2>4, <2>8, <3>1 DEF Acquire
  <2>9. ASSUME NEW p \in Procs, NEW rotate \in BOOLEAN, ExchangeTaken(p, rotate)
        PROVE  call'[lock'].pc \in work
    <3>1. \A n, t : [call[p] EXCEPT !.pc = "persist", !.newAccess = n, !.newRefresh = t].pc = "persist"
      BY <2>6 DEF Call
    <3>2. QED
      BY <2>4, <2>9, <3>1 DEF ExchangeTaken
  <2>10. ASSUME NEW p \in Procs,
                Reuse(p) \/ (\E outcome \in {"denied", "unreachable"} : ExchangeFails(p, outcome))
         PROVE  call'[lock'].pc \in work
    BY <2>5, <2>10 DEF Reuse, ExchangeFails
  <2>11. ASSUME NEW p \in Procs, PersistFails(p) PROVE call'[lock'].pc \in work
    BY <2>1, <2>2, <2>11 DEF PersistFails, Become
  <2>12. ASSUME NEW p \in Procs, Persist(p) \/ LoseLock(p) PROVE FALSE
    BY <2>12 DEF Persist, LoseLock
  <2>13. CASE Environment \/ UNCHANGED vars
    BY <2>2, <2>13 DEF Environment, SignIn, Age, RevokeAccess, RevokeRefresh, vars
  <2>14. QED
    BY <2>7, <2>8, <2>9, <2>10, <2>11, <2>12, <2>13 DEF Next, Begin, Proceed
<1>3. QED
  BY <1>1, <1>2, TypeCorrect, PTL DEF Spec

-----------------------------------------------------------------------------
(* As long as no transaction ends under its call and nobody edits the row:   *)
(* who is past the lock holds it ...                                         *)
AtWorkHoldsLock ==
  \A p \in Procs : call[p].pc \in {"reuse", "exchange", "persist"} => lock = p
NobodyEdits == \A p \in Procs : call[p].pc # "edit"
(* ... so that a stored token that is spent has its successor with the call  *)
(* that holds the lock ...                                                   *)
StoredIsIssued ==
  /\ row.access <= issued
  /\ \A p \in Procs : call[p].pc = "persist" => call[p].newAccess <= issued
SpentIsReplaced ==
  /\ row.refresh # 0 /\ refresh[row.refresh] = "spent" => \E p \in Procs : call[p].pc = "persist"
  /\ \A p \in Procs :
       call[p].pc = "persist" /\ call[p].newRefresh # 0 => refresh[call[p].newRefresh] # "spent"

(* ... and the stored access token, as it was judged under the lock, is      *)
(* replaced by nobody else, and never becomes usable again.                  *)
TokenInv ==
  TypeOK /\ AtWorkHoldsLock /\ NobodyEdits /\ StoredIsIssued /\ SpentIsReplaced /\ NoTokenWasted

(* A call that stays out of the lock or leaves it, and stores no token.      *)
LEMMA LeaveStep ==
  ASSUME TokenInv, TypeOK', NEW p \in Procs, NEW c, Become(p, c), call[p].pc # "persist",
         c.pc \notin {"reuse", "exchange", "persist", "edit"},
         lock' = lock \/ Unlock(p),
         row'.access = row.access, row'.refresh = row.refresh,
         issued' = issued, access' = access,
         \A n \in Tokens : refresh'[n] = "spent" => refresh[n] = "spent"
  PROVE  TokenInv'
<1> USE DEF TokenInv
<1>1. /\ call' = [call EXCEPT ![p] = c] /\ call \in [Procs -> Call]
      /\ row \in Row /\ refresh \in [Tokens -> RefreshState]
  BY DEF Become, TypeOK
<1>2. call'[p] = c /\ \A q \in Procs : q # p => call'[q] = call[q]
  BY <1>1
<1>3. AtWorkHoldsLock'
  BY <1>2 DEF AtWorkHoldsLock, Unlock
<1>4. NobodyEdits'
  BY <1>2 DEF NobodyEdits
<1>5. StoredIsIssued'
  BY <1>2 DEF StoredIsIssued
<1>6. \A n \in Token : n # 0 => n \in Tokens
  BY DEF Token, Tokens
<1>7. SpentIsReplaced'
  <2>1. row.refresh \in Token /\ \A q \in Procs : call[q].newRefresh \in Token
    BY <1>1 DEF Row, Call
  <2>2. QED
    BY <1>2, <1>6, <2>1 DEF SpentIsReplaced
<1>8. NoTokenWasted'
  BY <1>2 DEF NoTokenWasted, AtProvider, Usable
<1>9. QED
  BY <1>3, <1>4, <1>5, <1>7, <1>8

(* A call takes the lock and finds the row as it is now.                     *)
LEMMA AcquireStep ==
  ASSUME TokenInv, TypeOK', NEW p \in Procs, Acquire(p)
  PROVE  TokenInv'
<1> USE DEF TokenInv
<1>1. /\ call \in [Procs -> Call] /\ call[p] \in Call
      /\ row' = row /\ cache' = cache /\ issued' = issued /\ access' = access /\ refresh' = refresh
      /\ call[p].pc = "wait" /\ lock = NoCall
  BY DEF TypeOK, Acquire, Provider
<1>2. \A q \in Procs : call[q].pc \notin {"reuse", "exchange", "persist"}
  BY <1>1, SolarmanTokenAssumption DEF AtWorkHoldsLock
<1>3. CASE Become(p, Failed(call[p], "denied")) /\ lock' = lock
  <2>1. Failed(call[p], "denied").pc = "mark"
    BY DEF Failed, Idle
  <2>2. QED
    BY <1>1, <1>3, <2>1, LeaveStep
<1>4. ASSUME NEW c, Become(p, c), lock' = p, c.pc \in {"reuse", "exchange"},
             c.mode = call[p].mode, c.token = call[p].token,
             c.pc = "exchange" => ~Reusable(call[p])
      PROVE  TokenInv'
  <2>1. call'[p] = c /\ \A q \in Procs : q # p => call'[q] = call[q]
    BY <1>1, <1>4 DEF Become
  <2>2. AtWorkHoldsLock' /\ NobodyEdits' /\ StoredIsIssued'
    BY <1>1, <1>2, <1>4, <2>1 DEF AtWorkHoldsLock, NobodyEdits, StoredIsIssued
  <2>3. SpentIsReplaced'
    BY <1>1, <1>2, <1>4, <2>1 DEF SpentIsReplaced
  <2>4. call[p].mode \in {"get", "retry", "authorize"}
    BY <1>1 DEF Call
  <2>5. NoTokenWasted'
    BY <1>1, <1>2, <1>4, <2>1, <2>4 DEF NoTokenWasted, AtProvider, Reusable, Usable
  <2>6. QED
    BY <2>2, <2>3, <2>5
<1>5. /\ [call[p] EXCEPT !.pc = "reuse", !.seen = row].pc = "reuse"
      /\ [call[p] EXCEPT !.pc = "reuse", !.seen = row].mode = call[p].mode
      /\ [call[p] EXCEPT !.pc = "reuse", !.seen = row].token = call[p].token
  BY <1>1 DEF Call
<1>6. \A t : /\ [call[p] EXCEPT !.pc = "exchange", !.seen = row, !.sent = t].pc = "exchange"
             /\ [call[p] EXCEPT !.pc = "exchange", !.seen = row, !.sent = t].mode = call[p].mode
             /\ [call[p] EXCEPT !.pc = "exchange", !.seen = row, !.sent = t].token = call[p].token
  BY <1>1 DEF Call
<1>7. QED
  BY <1>3, <1>4, <1>5, <1>6 DEF Acquire

(* The provider exchanges the stored refresh token.                          *)
LEMMA ExchangeStep ==
  ASSUME TokenInv, TypeOK', NEW p \in Procs, NEW rotate \in BOOLEAN, ExchangeTaken(p, rotate)
  PROVE  TokenInv'
<1> USE DEF TokenInv
<1> DEFINE n == issued + 1
           t == IF rotate THEN n ELSE call[p].sent
           c == [call[p] EXCEPT !.pc = "persist", !.newAccess = n, !.newRefresh = t]
<1>1. /\ call \in [Procs -> Call] /\ call[p] \in Call /\ row \in Row /\ issued \in Tokens
      /\ refresh \in [Tokens -> RefreshState] /\ access \in [Tokens -> AccessState]
      /\ row' = row /\ lock' = lock /\ issued' = n /\ n \in Tokens
      /\ access' = [access EXCEPT ![n] = "good"]
      /\ refresh' = IF rotate THEN [refresh EXCEPT ![call[p].sent] = "spent", ![n] = "live"]
                    ELSE refresh
      /\ call[p].pc = "exchange" /\ refresh[call[p].sent] = "live" /\ Become(p, c)
  BY SolarmanTokenAssumption DEF TypeOK, ExchangeTaken, Tokens
<1>2. c.pc = "persist" /\ c.newAccess = n /\ c.newRefresh = t
      /\ c.mode = call[p].mode /\ c.token = call[p].token
  BY <1>1 DEF Call
<1> HIDE DEF c
<1>3. call'[p] = c /\ \A q \in Procs : q # p => call'[q] = call[q]
  BY <1>1 DEF Become
<1>4. lock = p /\ \A q \in Procs : q # p => call[q].pc \notin {"reuse", "exchange", "persist"}
  BY <1>1 DEF AtWorkHoldsLock
<1>5. AtWorkHoldsLock' /\ NobodyEdits'
  BY <1>1, <1>2, <1>3, <1>4 DEF AtWorkHoldsLock, NobodyEdits
<1>6. issued \in Nat /\ n \in Nat /\ row.access \in Nat /\ n \notin 0..issued
  BY <1>1, SolarmanTokenAssumption DEF Tokens, Row, Token
<1>7. StoredIsIssued'
  BY <1>1, <1>2, <1>3, <1>4, <1>6 DEF StoredIsIssued
<1>8. SpentIsReplaced'
  <2>1. call'[p].pc = "persist" /\ call'[p].newRefresh = t
    BY <1>2, <1>3
  <2>2. t # 0 => refresh'[t] # "spent"
    <3>1. CASE rotate
      BY <1>1, <3>1 DEF RefreshState
    <3>2. CASE ~rotate
      BY <1>1, <3>2
    <3>3. QED
      BY <3>1, <3>2
  <2>3. QED
    BY <1>3, <1>4, <2>1, <2>2 DEF SpentIsReplaced
<1>9. NoTokenWasted'
  <2>1. row.access # n /\ row.access \in Token
    BY <1>1, <1>6 DEF StoredIsIssued, Row
  <2>2. Usable(row.access)' => Usable(row.access)
    BY <1>1, <2>1 DEF Usable, Token, Tokens
  <2>3. QED
    BY <1>1, <1>2, <1>3, <1>4, <2>2 DEF NoTokenWasted, AtProvider
<1>10. QED
  BY <1>5, <1>7, <1>8, <1>9

(* What the exchange has brought is stored, and the lock given back.         *)
LEMMA PersistStep ==
  ASSUME TokenInv, TypeOK', NEW p \in Procs, Persist(p)
  PROVE  TokenInv'
<1> USE DEF TokenInv
<1>1. /\ call \in [Procs -> Call] /\ call[p].pc = "persist" /\ lock = p /\ lock' = NoCall
      /\ row'.access = call[p].newAccess /\ row'.refresh = call[p].newRefresh
      /\ issued' = issued /\ access' = access /\ refresh' = refresh
  BY DEF TypeOK, Persist, Provider
<1>2. PICK c : Become(p, c) /\ c.pc \in {"get", "use"}
  <2>1. CASE call[p].mode = "authorize"
    <3>1. Become(p, [Idle EXCEPT !.pc = "get"])
      BY <2>1 DEF Persist
    <3>2. QED
      BY <3>1, WhereNextCallsAre
  <2>2. CASE call[p].mode # "authorize"
    <3> DEFINE c == [Idle EXCEPT !.pc = "use", !.mode = call[p].mode, !.token = call[p].newAccess]
    <3>1. Become(p, c)
      BY <2>2 DEF Persist
    <3>2. c.pc = "use"
      BY WhereNextCallsAre
    <3>3. QED
      BY <3>1, <3>2
  <2>3. QED
    BY <2>1, <2>2
<1>3. call'[p] = c /\ \A q \in Procs : q # p => call'[q] = call[q]
  BY <1>1, <1>2 DEF Become
<1>4. \A q \in Procs : q # p => call[q].pc \notin {"reuse", "exchange", "persist"}
  BY <1>1 DEF AtWorkHoldsLock
<1>5. AtWorkHoldsLock' /\ NobodyEdits'
  BY <1>2, <1>3, <1>4 DEF AtWorkHoldsLock, NobodyEdits
<1>6. StoredIsIssued' /\ SpentIsReplaced' /\ NoTokenWasted'
  BY <1>1, <1>2, <1>3, <1>4 DEF StoredIsIssued, SpentIsReplaced, NoTokenWasted, AtProvider
<1>7. QED
  BY <1>5, <1>6

(* Somebody signs in at SOLARMAN; tokens age and are revoked.                *)
LEMMA EnvironmentStep ==
  ASSUME TokenInv, TypeOK', Environment
  PROVE  TokenInv'
<1> USE DEF TokenInv
<1>1. /\ row' = row /\ lock' = lock /\ call' = call /\ call \in [Procs -> Call]
      /\ row \in Row /\ issued \in Tokens
      /\ access \in [Tokens -> AccessState] /\ refresh \in [Tokens -> RefreshState]
  BY DEF Environment, SignIn, Age, RevokeAccess, RevokeRefresh, TypeOK
<1>2. issued' \in Nat /\ issued \in Nat /\ issued <= issued'
  BY <1>1, SolarmanTokenAssumption DEF Environment, SignIn, Age, RevokeAccess, RevokeRefresh, Tokens
<1>3. \A n \in Tokens : refresh'[n] = "spent" => refresh[n] = "spent"
  BY <1>1 DEF Environment, SignIn, Age, RevokeAccess, RevokeRefresh
<1>4. \A n \in Tokens : access'[n] \in {"good", "revoked"} => access[n] \in {"good", "revoked"}
  BY <1>1 DEF Environment, SignIn, Age, RevokeAccess, RevokeRefresh
<1>5. /\ row.access \in Token /\ row.refresh \in Token /\ row.access \in Nat
      /\ \A p \in Procs : call[p].newRefresh \in Token /\ call[p].newAccess \in Nat
      /\ \A n \in Token : n # 0 => n \in Tokens
  BY <1>1, SolarmanTokenAssumption DEF Row, Call, Token, Tokens
<1>6. AtWorkHoldsLock' /\ NobodyEdits'
  BY <1>1 DEF AtWorkHoldsLock, NobodyEdits
<1>7. StoredIsIssued'
  BY <1>1, <1>2, <1>5 DEF StoredIsIssued
<1>8. SpentIsReplaced'
  BY <1>1, <1>3, <1>5 DEF SpentIsReplaced
<1>9. NoTokenWasted'
  BY <1>1, <1>4, <1>5 DEF NoTokenWasted, AtProvider, Usable
<1>10. QED
  BY <1>6, <1>7, <1>8, <1>9

(* Every state satisfies the invariant, as long as the lock is not lost and  *)
(* nobody edits the connection.                                              *)
THEOREM TokensKept ==
  ASSUME ~LockLost, ~Edits
  PROVE  Spec => []TokenInv
<1>1. Init => TokenInv
  <2> SUFFICES ASSUME Init PROVE TokenInv
    OBVIOUS
  <2>1. TypeOK
    BY IdleIsCall, SolarmanTokenAssumption
    DEF Init, TypeOK, Row, Token, Tokens, AccessState, RefreshState
  <2>2. \A p \in Procs : call[p].pc = "idle"
    BY DEF Init, Idle
  <2>3. row.access = 1 /\ row.refresh = 1 /\ issued = 1 /\ refresh[1] = "live"
    BY SolarmanTokenAssumption DEF Init, Tokens
  <2>4. QED
    BY <2>1, <2>2, <2>3
    DEF TokenInv, AtWorkHoldsLock, NobodyEdits, StoredIsIssued, SpentIsReplaced, NoTokenWasted,
        AtProvider
<1>2. TokenInv /\ TypeOK' /\ [Next]_vars => TokenInv'
  <2> SUFFICES ASSUME TokenInv, TypeOK', [Next]_vars PROVE TokenInv'
    OBVIOUS
  <2> DEFINE kept == /\ row'.access = row.access /\ row'.refresh = row.refresh
                     /\ issued' = issued /\ access' = access
                     /\ \A n \in Tokens : refresh'[n] = "spent" => refresh[n] = "spent"
  <2>1. call \in [Procs -> Call] /\ row \in Row /\ refresh \in [Tokens -> RefreshState]
    BY DEF TokenInv, TypeOK
  <2>2. \A status : [row EXCEPT !.status = status].access = row.access
                    /\ [row EXCEPT !.status = status].refresh = row.refresh
    BY <2>1 DEF Row
  <2>3. \A c, outcome : Failed(c, outcome).pc = "mark" /\ Ended(c, outcome).pc = "report"
    BY WhereNextCallsAre
  <2>4. ASSUME NEW p \in Procs, Get(p) PROVE TokenInv'
    <3>1. ASSUME NEW c, Become(p, c), c.pc \in {"use", "wait"} PROVE TokenInv'
      BY <2>4, <3>1, LeaveStep DEF Get, Provider
    <3>2. CASE Become(p, [Idle EXCEPT !.pc = "use", !.token = cache[WorkerOf[p]]])
      <4> DEFINE c == [Idle EXCEPT !.pc = "use", !.token = cache[WorkerOf[p]]]
      <4>1. Become(p, c) /\ c.pc = "use"
        BY <3>2, WhereNextCallsAre
      <4> HIDE DEF c
      <4>2. QED
        BY <3>1, <4>1
    <3>3. CASE Become(p, [Idle EXCEPT !.pc = "wait", !.started = issued])
      <4> DEFINE c == [Idle EXCEPT !.pc = "wait", !.started = issued]
      <4>1. Become(p, c) /\ c.pc = "wait"
        BY <3>3, WhereNextCallsAre
      <4> HIDE DEF c
      <4>2. QED
        BY <3>1, <4>1
    <3>4. QED
      BY <2>4, <3>2, <3>3 DEF Get
  <2>5. ASSUME NEW p \in Procs, NEW n \in 1..issued, Authorize(p, n) PROVE TokenInv'
    BY <2>5, WhereNextCallsAre, LeaveStep DEF Authorize, Provider
  <2>6. ASSUME NEW p \in Procs, Reuse(p) PROVE TokenInv'
    BY <2>6, WhereNextCallsAre, LeaveStep DEF Reuse, Provider
  <2>7. ASSUME NEW p \in Procs, NEW outcome \in {"denied", "unreachable"}, ExchangeFails(p, outcome)
        PROVE  TokenInv'
    <3>1. kept
      BY <2>1, <2>7 DEF ExchangeFails
    <3>2. QED
      BY <2>3, <2>7, <3>1, LeaveStep DEF ExchangeFails
  <2>8. ASSUME NEW p \in Procs, Mark(p) PROVE TokenInv'
    BY <2>2, <2>3, <2>8, LeaveStep DEF Mark, Provider
  <2>9. ASSUME NEW p \in Procs, Use(p) PROVE TokenInv'
    <3>1. ASSUME NEW c, Become(p, c), c.pc \in {"wait", "report"} PROVE TokenInv'
      BY <2>9, <3>1, LeaveStep DEF Use, Provider
    <3>2. CASE \E outcome : Become(p, Ended(call[p], outcome))
      BY <2>3, <3>1, <3>2
    <3> DEFINE retry == [Idle EXCEPT !.pc = "wait", !.mode = "retry", !.started = issued,
                                     !.token = call[p].token]
    <3>3. CASE Become(p, retry)
      <4>1. retry.pc = "wait"
        BY WhereNextCallsAre
      <4> HIDE DEF retry
      <4>2. QED
        BY <3>1, <3>3, <4>1
    <3>4. QED
      BY <2>9, <3>2, <3>3 DEF Use
  <2>10. ASSUME NEW p \in Procs, Report(p) PROVE TokenInv'
    <3>1. kept
      BY <2>2, <2>10 DEF Report, Provider
    <3>2. QED
      BY <2>10, <3>1, WhereNextCallsAre, LeaveStep DEF Report
  <2>11. ASSUME NEW p \in Procs, PersistFails(p) PROVE FALSE
    BY <2>11 DEF PersistFails, TokenInv, AtWorkHoldsLock
  <2>12. ASSUME NEW p \in Procs, NEW reset \in BOOLEAN, EditWrite(p, reset) PROVE FALSE
    BY <2>12 DEF EditWrite, TokenInv, NobodyEdits
  <2>13. CASE UNCHANGED vars
    BY <2>13
    DEF vars, TokenInv, TypeOK, AtWorkHoldsLock, NobodyEdits, StoredIsIssued, SpentIsReplaced,
        NoTokenWasted, AtProvider, Usable
  <2>14. QED
    BY <2>4, <2>5, <2>6, <2>7, <2>8, <2>9, <2>10, <2>11, <2>12, <2>13,
       AcquireStep, ExchangeStep, PersistStep, EnvironmentStep
    DEF Next, Begin, Proceed, EditRead, LoseLock, WaitTimesOut
<1>3. QED
  BY <1>1, <1>2, TypeCorrect, PTL DEF Spec

(* Two calls never have one refresh token at SOLARMAN together, whichever    *)
(* workers they run on and whoever pastes tokens.                            *)
THEOREM ExchangesExclude ==
  ASSUME ~LockLost, ~Edits
  PROVE  Spec => []OneExchangeAtATime
<1>1. TokenInv => OneExchangeAtATime
  BY DEF TokenInv, AtWorkHoldsLock, OneExchangeAtATime, AtProvider
<1>2. QED
  BY <1>1, TokensKept, PTL

(* The row holds a spent refresh token only while the call that has its      *)
(* successor holds the lock.                                                 *)
THEOREM SpentTokensAreReplaced ==
  ASSUME ~LockLost, ~Edits
  PROVE  Spec => []NoSpentTokenStored
<1>1. TokenInv => NoSpentTokenStored
  BY SolarmanTokenAssumption DEF TokenInv, AtWorkHoldsLock, SpentIsReplaced, NoSpentTokenStored
<1>2. QED
  BY <1>1, TokensKept, PTL

(* Nobody is at SOLARMAN for a token while a usable one is stored that this  *)
(* call was not rejected with.                                               *)
THEOREM UsableTokensAreReused ==
  ASSUME ~LockLost, ~Edits
  PROVE  Spec => []NoTokenWasted
<1>1. TokenInv => NoTokenWasted
  BY DEF TokenInv
<1>2. QED
  BY <1>1, TokensKept, PTL
=============================================================================
