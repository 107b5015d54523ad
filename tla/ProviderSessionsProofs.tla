----------------------- MODULE ProviderSessionsProofs ------------------------
(***************************************************************************)
(* Proofs about ProviderSessions, for any number of calls, requests,       *)
(* accounts and sessions, when a connection is edited between calls.       *)
(***************************************************************************)
EXTENDS ProviderSessions, TLAPS

(* What the constants are.                                                   *)
Parameters ==
  Accounts # {} /\ Requests \in Nat \ {0} /\ MaxSessions \in Nat /\ EditsInFlight = FALSE

Working == {"look", "login", "keep", "request"}

(* Session n was made for account a.                                         *)
MadeFor(n, a) == n \in 1..Len(made) /\ made[n] = a

(* A call has requests left, works with the credentials of the connection,   *)
(* which is not being edited (SEMS+ keeps a session per account, and may be  *)
(* edited at any time), and with a session made for them.                    *)
CallFits(c) ==
  /\ c \in Call
  /\ c.pc \in {"look", "request"} => c.request < Requests
  /\ kind # "SEMS" /\ c.pc \in Working => c.account = account /\ editing = "no"
  /\ c.pc \in {"keep", "request"} => MadeFor(c.session, c.account)

(* What is kept was made for the account it is found by.                     *)
KeptFits(k, n) ==
  /\ n \in 0..Len(made)
  /\ n # None =>
       IF kind = "SEMS" THEN MadeFor(n, k)
       ELSE k = "connection" /\ editing = "no" => MadeFor(n, account)

TableInv ==
  /\ kind \in Kinds /\ account \in Accounts /\ editing \in {"no", "yes"}
  /\ kind = "SEMS" => editing = "no"
  /\ made \in Seq(Accounts) /\ Len(made) <= MaxSessions /\ alive \subseteq 1..Len(made)
CallInv == DOMAIN call = Calls /\ call = [p \in Calls |-> call[p]] /\ \A p \in Calls : CallFits(call[p])
StoreInv == store = [k \in Keys |-> store[k]] /\ \A k \in Keys : KeptFits(k, store[k])

SessionsInv == TableInv /\ CallInv /\ StoreInv

-----------------------------------------------------------------------------
(* The state of a call, and what is kept, as long as nothing is edited and   *)
(* nobody logs in.                                                           *)

(* One call moves on.                                                        *)
LEMMA OneCall ==
  ASSUME SessionsInv, UNCHANGED <<kind, account, made, alive, editing>>,
         NEW p, NEW c, CallFits(c), Step(p, c)
  PROVE  TableInv' /\ CallInv'
BY DEF SessionsInv, TableInv, CallInv, CallFits, MadeFor, Step

(* One session is kept, or dropped.                                          *)
LEMMA OneKept ==
  ASSUME SessionsInv, UNCHANGED <<kind, account, made, alive, editing>>,
         NEW k, NEW n, KeptFits(k, n), store' = [store EXCEPT ![k] = n]
  PROVE  StoreInv'
BY DEF SessionsInv, StoreInv, KeptFits, MadeFor

(* What is kept stays.                                                       *)
LEMMA StoreStays ==
  ASSUME SessionsInv, UNCHANGED <<kind, account, made, alive, editing, store>>
  PROVE  StoreInv'
BY DEF SessionsInv, StoreInv, KeptFits, MadeFor

(* Keeping nothing is always right.                                          *)
LEMMA NothingKept ==
  ASSUME SessionsInv, NEW k
  PROVE  KeptFits(k, None)
BY DEF SessionsInv, TableInv, KeptFits, None

(* What a call finds was made for its account.                               *)
LEMMA KeptIsOurs ==
  ASSUME SessionsInv, NEW a \in Accounts, kind = "SEMS" \/ (a = account /\ editing = "no")
  PROVE  LET kept == store[Key(kind, a)]
         IN  kept \in 0..Len(made) /\ (kept # None => MadeFor(kept, a))
BY DEF SessionsInv, StoreInv, KeptFits, Key, Keys

(* A call that has ended has nothing to fit.                                 *)
LEMMA EndedFits ==
  ASSUME Parameters, SessionsInv, NEW c \in Call, NEW how \in {"ok", "rejected", "broken"}
  PROVE  CallFits(Ended(c, how))
<1> DEFINE idle == Idle(CHOOSE a \in Accounts : TRUE)
<1>1. (CHOOSE a \in Accounts : TRUE) \in Accounts
  BY DEF Parameters
<1>2. idle \in Call
  BY <1>1 DEF Idle, Call, Parameters, SessionIds
<1> HIDE DEF idle
<1>3. Ended(c, how) \in Call /\ Ended(c, how).pc = how
  <2>1. /\ c.op \in {"none", "sync", "discover", "test"} /\ c.skipped \in {"no", "broken", "rejected"}
        /\ c.disturbed \in {"no", "yes"}
    BY DEF Call
  <2> DEFINE op == IF how = "ok" THEN c.op ELSE idle.op
             skipped == IF how = "ok" THEN c.skipped ELSE idle.skipped
             disturbed == IF how = "rejected" THEN c.disturbed ELSE idle.disturbed
  <2>2. /\ op \in {"none", "sync", "discover", "test"} /\ skipped \in {"no", "broken", "rejected"}
        /\ disturbed \in {"no", "yes"}
    BY <1>2, <2>1 DEF Call
  <2>3. Ended(c, how) =
          [idle EXCEPT !.pc = how, !.op = op, !.skipped = skipped, !.disturbed = disturbed]
    BY DEF Ended, idle
  <2> HIDE DEF op, skipped, disturbed
  <2>4. QED
    BY <1>2, <2>2, <2>3 DEF Call
<1>4. QED
  BY <1>3 DEF CallFits, Working

(* Nobody has logged in yet.                                                 *)
LEMMA InitEstablishes == ASSUME Parameters, Init PROVE SessionsInv
<1>1. account \in Accounts
  <2>1. (CHOOSE a \in Accounts : TRUE) \in Accounts
    BY DEF Parameters
  <2>2. QED
    BY <2>1 DEF Init
<1>7. made = <<>> /\ Len(made) = 0 /\ made \in Seq(Accounts) /\ alive = {}
  <2>1. made = <<>> /\ alive = {}
    BY DEF Init
  <2>2. QED
    BY <2>1
<1>2. Idle(account) \in Call /\ Idle(account).pc = "idle"
  BY <1>1 DEF Idle, Call, Parameters, SessionIds
<1>3. CallInv
  <2>1. call = [p \in Calls |-> Idle(account)]
    BY DEF Init
  <2>2. CallFits(Idle(account))
    BY <1>2 DEF CallFits, Working
  <2>3. QED
    BY <2>1, <2>2 DEF CallInv
<1>4. StoreInv
  <2>1. store = [k \in Keys |-> None]
    BY DEF Init
  <2>2. \A k \in Keys : KeptFits(k, None)
    BY <1>7 DEF KeptFits, None
  <2>3. QED
    BY <2>1, <2>2 DEF StoreInv
<1>5. TableInv
  <2>1. kind \in Kinds /\ editing = "no"
    BY DEF Init
  <2>2. QED
    BY <1>1, <1>7, <2>1 DEF TableInv, Parameters
<1>6. QED
  BY <1>3, <1>4, <1>5 DEF SessionsInv

-----------------------------------------------------------------------------
(* A call that works with the session it has found, or logs in.              *)
LEMMA LookingFits ==
  ASSUME Parameters, SessionsInv, NEW c \in Call, NEW kept,
         kept = store[Key(kind, c.account)], c.request < Requests,
         kind # "SEMS" => c.account = account /\ editing = "no"
  PROVE  CallFits([c EXCEPT !.session = kept, !.pc = IF kept = None THEN "login" ELSE "request"])
<1> DEFINE pc == IF kept = None THEN "login" ELSE "request"
           d == [c EXCEPT !.session = kept, !.pc = pc]
<1>1. c.account \in Accounts
  BY DEF Call
<1>2. kept \in 0..Len(made) /\ (kept # None => MadeFor(kept, c.account))
  BY <1>1, KeptIsOurs
<1>3. kept \in SessionIds \cup {None}
  BY <1>2 DEF SessionsInv, TableInv, SessionIds, None, Parameters
<1>4. pc \in {"login", "request"} /\ (pc = "request" => kept # None)
  OBVIOUS
<1> HIDE DEF pc
<1>5. d \in Call /\ d.pc = pc /\ d.session = kept /\ d.account = c.account /\ d.request = c.request
  BY <1>3, <1>4 DEF Call
<1> HIDE DEF d
<1>6. CallFits(d)
  BY <1>2, <1>4, <1>5 DEF CallFits, Working, Parameters
<1>7. QED
  BY <1>6 DEF d, pc

(* A call that is answered has one request less to make, or has ended.       *)
LEMMA AnsweredFits ==
  ASSUME Parameters, SessionsInv, NEW c, CallFits(c), c.pc = "request",
         NEW skipped \in {"no", "broken", "rejected"}
  PROVE  CallFits(Answered([c EXCEPT !.skipped = skipped])) /\ CallFits(Answered(c))
<1>1. ASSUME NEW d, CallFits(d), d.pc = "request" PROVE CallFits(Answered(d))
  <2>1. CASE d.request + 1 = Requests
    BY <1>1, <2>1, EndedFits DEF Answered, CallFits
  <2>2. CASE d.request + 1 # Requests
    <3>1. d \in Call /\ d.request \in Nat /\ d.request + 1 \in 0..Requests /\ d.request + 1 < Requests
      BY <1>1, <2>2 DEF CallFits, Call, Parameters
    <3> DEFINE next == d.request + 1
               e == [d EXCEPT !.request = next]
    <3>2. Answered(d) = e
      BY <2>2 DEF Answered
    <3>3. next \in 0..Requests /\ next < Requests
      BY <3>1
    <3> HIDE DEF next
    <3>4. e \in Call /\ e.pc = d.pc /\ e.request = next /\ e.session = d.session /\ e.account = d.account
      BY <3>1, <3>3 DEF Call
    <3> HIDE DEF e
    <3>5. QED
      BY <1>1, <3>2, <3>3, <3>4 DEF CallFits
  <2>3. QED
    BY <2>1, <2>2
<1> DEFINE d == [c EXCEPT !.skipped = skipped]
<1>2. c \in Call
  BY DEF CallFits
<1>3. /\ d \in Call /\ d.pc = c.pc /\ d.request = c.request /\ d.session = c.session
      /\ d.account = c.account
  BY <1>2 DEF Call
<1> HIDE DEF d
<1>4. CallFits(d)
  BY <1>3 DEF CallFits
<1>5. QED
  BY <1>1, <1>3, <1>4 DEF d

-----------------------------------------------------------------------------
(* The calls read, look for a session, keep one, fetch and end.              *)
LEMMA BeginStep ==
  ASSUME Parameters, SessionsInv, NEW p \in Calls, NEW op \in Ops(kind), Begin(p, op)
  PROVE  SessionsInv'
<1> DEFINE c == [Idle(account) EXCEPT !.op = op]
<1>1. /\ UNCHANGED <<kind, account, made, alive, store, editing>> /\ editing = "no"
      /\ \/ Step(p, [c EXCEPT !.pc = "look"])
         \/ LET kept == store[Key(kind, account)]
            IN  Step(p, [c EXCEPT !.session = kept, !.pc = IF kept = None THEN "login" ELSE "request"])
         \/ Step(p, [c EXCEPT !.pc = "login", !.tries = 2])
  BY DEF Begin, Parameters
<1>2. op \in {"sync", "discover", "test"}
  BY DEF SessionsInv, TableInv, Kinds, Ops
<1>3. account \in Accounts
  BY DEF SessionsInv, TableInv
<1>4. c \in Call /\ c.account = account /\ c.request = 0 /\ 0 < Requests
  BY <1>2, <1>3 DEF Idle, Call, Parameters, SessionIds
<1> HIDE DEF c
<1>5. CallFits([c EXCEPT !.pc = "look"])
  BY <1>1, <1>4 DEF CallFits, Call
<1>8. CallFits([c EXCEPT !.pc = "login", !.tries = 2])
  <2> DEFINE d == [c EXCEPT !.pc = "login", !.tries = 2]
  <2>1. d \in Call /\ d.pc = "login" /\ d.account = account
    <3> DEFINE second == 2
    <3>1. second \in 1..2
      OBVIOUS
    <3>2. d = [c EXCEPT !.pc = "login", !.tries = second]
      OBVIOUS
    <3> HIDE DEF second, d
    <3>3. QED
      BY <1>4, <3>1, <3>2 DEF Call
  <2> HIDE DEF d
  <2>2. QED
    BY <1>1, <1>4, <2>1 DEF CallFits, d
<1>6. TableInv' /\ CallInv'
  BY <1>1, <1>4, <1>5, <1>8, LookingFits, OneCall
<1>7. QED
  BY <1>1, <1>6, StoreStays DEF SessionsInv

(* A call looks, keeps its session, is answered or fails.                    *)
LEMMA QuietSteps ==
  ASSUME Parameters, SessionsInv, NEW p \in Calls,
         \/ ForceRelogin(p) \/ GetOrCreateSession(p) \/ KeepSession(p) \/ LoginFails(p)
         \/ Accepted(p) \/ Broken(p)
  PROVE  SessionsInv'
<1> DEFINE c == call[p]
<1>1. CallFits(c) /\ c \in Call
  BY DEF SessionsInv, CallInv, CallFits
<1>2. ASSUME ForceRelogin(p) PROVE SessionsInv'
  <2>1. CallFits([c EXCEPT !.pc = "login"])
    BY <1>1, <1>2 DEF ForceRelogin, CallFits, Call, Working
  <2>2. QED
    BY <1>2, <2>1, OneCall, OneKept, NothingKept DEF ForceRelogin, SessionsInv
<1>3. ASSUME GetOrCreateSession(p) PROVE SessionsInv'
  <2>1. c.request < Requests /\ (kind # "SEMS" => c.account = account /\ editing = "no")
    BY <1>1, <1>3 DEF GetOrCreateSession, CallFits, Working
  <2>2. QED
    BY <1>1, <1>3, <2>1, LookingFits, OneCall, StoreStays DEF GetOrCreateSession, SessionsInv
<1>4. ASSUME KeepSession(p) PROVE SessionsInv'
  <2>1. c.pc = "keep" /\ MadeFor(c.session, c.account)
        /\ (kind # "SEMS" => c.account = account /\ editing = "no")
    BY <1>1, <1>4 DEF KeepSession, CallFits, Working
  <2>2. KeptFits(Key(kind, c.account), c.session)
    BY <2>1 DEF KeptFits, Key, MadeFor
  <2>3. CallFits([c EXCEPT !.pc = "request", !.request = 0, !.skipped = "no"])
    <3>1. 0 \in 0..Requests /\ 0 < Requests
      BY DEF Parameters
    <3>2. QED
      BY <1>1, <2>1, <3>1 DEF CallFits, Call, Working
  <2>4. QED
    BY <1>4, <2>2, <2>3, OneCall, OneKept DEF KeepSession, SessionsInv
<1>5. ASSUME LoginFails(p) PROVE SessionsInv'
  BY <1>1, <1>5, EndedFits, OneCall, StoreStays DEF LoginFails, SessionsInv
<1>6. ASSUME Accepted(p) PROVE SessionsInv'
  BY <1>1, <1>6, AnsweredFits, OneCall, StoreStays DEF Accepted, SessionsInv
<1>7. ASSUME Broken(p) PROVE SessionsInv'
  <2> DEFINE skipped == IF c.skipped = "no" THEN "broken" ELSE c.skipped
  <2>1. skipped \in {"no", "broken", "rejected"}
    BY <1>1 DEF Call
  <2>2. \/ Step(p, Answered([c EXCEPT !.skipped = skipped]))
        \/ Step(p, Ended(c, "broken"))
    BY <1>7 DEF Broken
  <2> HIDE DEF skipped
  <2>3. QED
    BY <1>1, <1>7, <2>1, <2>2, AnsweredFits, EndedFits, OneCall, StoreStays DEF Broken, SessionsInv
<1>8. QED
  BY <1>2, <1>3, <1>4, <1>5, <1>6, <1>7

(* The second try finds nothing: what was kept has been dropped, and Deye    *)
(* does not look.                                                            *)
LEMMA TryAgainStep ==
  ASSUME Parameters, SessionsInv, NEW p \in Calls, call[p].pc = "request", TryAgain(p),
         UNCHANGED <<kind, account, made, alive, editing>>
  PROVE  SessionsInv'
<1> DEFINE c == call[p]
<1>1. /\ CallFits(c) /\ c \in Call /\ c.account \in Accounts
      /\ kind # "SEMS" => c.account = account /\ editing = "no"
  BY DEF SessionsInv, CallInv, CallFits, Call, Working
<1>2. PICK a \in Accounts :
        LET kept == IF kind = "DEYE" THEN None ELSE Dropped(p)[Key(kind, a)]
        IN  /\ a = c.account /\ store' = Dropped(p)
            /\ Step(p, [c EXCEPT !.account = a, !.tries = 2, !.request = 0, !.skipped = "no",
                                 !.session = kept, !.pc = IF kept = None THEN "login" ELSE "request"])
  BY <1>1 DEF TryAgain
<1>3. kind # "DEYE" => Dropped(p)[Key(kind, a)] = None
  <2>1. Key(kind, c.account) \in Keys
    BY <1>1 DEF Key, Keys
  <2>2. QED
    BY <1>2, <2>1 DEF Dropped, SessionsInv, StoreInv
<1> DEFINE second == 2
           d == [c EXCEPT !.account = a, !.tries = second, !.request = 0, !.skipped = "no",
                          !.session = None, !.pc = "login"]
<1>4. Step(p, d)
  BY <1>2, <1>3
<1>5. CallFits(d)
  <2>1. second \in 1..2 /\ 0 \in 0..Requests
    BY DEF Parameters
  <2> HIDE DEF second
  <2>2. d \in Call /\ d.pc = "login" /\ d.account = a
    BY <1>1, <2>1 DEF Call
  <2> HIDE DEF d
  <2>3. QED
    BY <1>1, <1>2, <2>2 DEF CallFits
<1> HIDE DEF d
<1>6. TableInv' /\ CallInv'
  BY <1>4, <1>5, OneCall
<1>7. StoreInv'
  BY <1>2, StoreStays, OneKept, NothingKept DEF Dropped
<1>8. QED
  BY <1>6, <1>7 DEF SessionsInv

(* A rejected call tries again, leaves the request out, or ends.             *)
LEMMA RejectedStep ==
  ASSUME Parameters, SessionsInv, NEW p \in Calls, Rejected(p)
  PROVE  SessionsInv'
<1> DEFINE c == call[p]
<1>1. CallFits(c) /\ c \in Call /\ c.pc = "request" /\ UNCHANGED <<kind, account, made, alive, editing>>
  BY DEF SessionsInv, CallInv, CallFits, Rejected
<1>2. CASE TryAgain(p)
  BY <1>1, <1>2, TryAgainStep
<1>3. CASE UNCHANGED store /\ Step(p, Answered([c EXCEPT !.skipped = "rejected"]))
  BY <1>1, <1>3, AnsweredFits, OneCall, StoreStays DEF SessionsInv
<1>4. CASE UNCHANGED store /\ Step(p, Ended(c, "rejected"))
  BY <1>1, <1>4, EndedFits, OneCall, StoreStays DEF SessionsInv
<1>5. QED
  BY <1>2, <1>3, <1>4 DEF Rejected

-----------------------------------------------------------------------------
(* What is noted on the calls when a session dies does not matter here.      *)
LEMMA DisturbedFit ==
  ASSUME NEW p \in Calls, CallFits(call[p])
  PROVE  CallFits(Disturb(call)[p])
<1> DEFINE disturbed == IF AtWork(p) THEN "yes" ELSE call[p].disturbed
           c == call[p]
           d == [c EXCEPT !.disturbed = disturbed]
<1>1. Disturb(call)[p] = d
  BY DEF Disturb
<1>2. c \in Call /\ disturbed \in {"no", "yes"}
  BY DEF CallFits, Call
<1> HIDE DEF disturbed
<1>3. d \in Call /\ d.pc = c.pc /\ d.request = c.request /\ d.session = c.session /\ d.account = c.account
  BY <1>2 DEF Call
<1> HIDE DEF d
<1>4. QED
  BY <1>1, <1>3 DEF CallFits

(* A login adds a session made for the account of the call.                  *)
LEMMA LoginStep ==
  ASSUME Parameters, SessionsInv, NEW p \in Calls, LoginAnswers(p)
  PROVE  SessionsInv'
<1> DEFINE c == call[p]
           n == Len(made) + 1
<1>1. /\ c.pc = "login" /\ Len(made) < MaxSessions
      /\ made' = Append(made, c.account) /\ UNCHANGED <<kind, account, store, editing>>
      /\ alive' \in {alive \cup {n}, {n}}
  BY DEF LoginAnswers
<1>2. PICK calls \in {call, Disturb(call)} : call' = [calls EXCEPT ![p].session = n, ![p].pc = "keep"]
  BY DEF LoginAnswers
<1>3. /\ made \in Seq(Accounts) /\ Len(made) \in Nat /\ alive \subseteq 1..Len(made)
      /\ kind \in Kinds /\ account \in Accounts /\ editing \in {"no", "yes"}
      /\ kind = "SEMS" => editing = "no"
  BY DEF SessionsInv, TableInv
<1>4. \A q \in Calls : CallFits(call[q]) /\ CallFits(calls[q])
  BY <1>2, DisturbedFit DEF SessionsInv, CallInv
<1>5. calls = [q \in Calls |-> calls[q]]
  BY <1>2 DEF SessionsInv, CallInv, Disturb
<1>6. calls[p].pc = "login" /\ calls[p].account = c.account /\ c.account \in Accounts /\ calls[p] \in Call
  BY <1>1, <1>2, <1>4 DEF CallFits, Call, Disturb
<1>7. made' \in Seq(Accounts) /\ Len(made') = n /\ made'[n] = c.account
      /\ \A m \in 1..Len(made) : made'[m] = made[m]
  BY <1>1, <1>3, <1>6
<1>8. n \in 1..n /\ n \in SessionIds /\ n <= MaxSessions
  BY <1>1, <1>3 DEF SessionIds, Parameters
<1>9. TableInv'
  BY <1>1, <1>3, <1>7, <1>8 DEF TableInv
<1> HIDE DEF n
(* What a session was made for stays.                                        *)
<1>10. \A m, a : MadeFor(m, a) => MadeFor(m, a)'
  BY <1>3, <1>7 DEF MadeFor, n
<1>12. CallFits(call[p])'
  <2> DEFINE b == calls[p]
             d == [b EXCEPT !.session = n, !.pc = "keep"]
  <2>1. call'[p] = d
    BY <1>2, <1>5
  <2>2. d \in Call /\ d.pc = "keep" /\ d.session = n /\ d.account = c.account
    BY <1>6, <1>8 DEF Call
  <2> HIDE DEF d
  <2>3. kind # "SEMS" => c.account = account /\ editing = "no"
    BY <1>1, <1>4 DEF CallFits, Working
  <2>4. call'[p].session \in 1..Len(made') /\ made'[call'[p].session] = call'[p].account
    BY <1>7, <1>8, <2>1, <2>2
  <2>5. QED
    BY <1>1, <2>1, <2>2, <2>3, <2>4 DEF CallFits, MadeFor
<1>13. CallInv'
  <2>1. ASSUME NEW q \in Calls PROVE CallFits(call[q])'
    <3>1. CASE q = p
      BY <1>12, <3>1
    <3>2. CASE q # p
      <4>1. call'[q] = calls[q]
        BY <1>2, <1>5, <3>2
      <4>2. CallFits(call'[q])
        BY <1>4, <4>1
      <4>3. QED
        BY <1>1, <1>10, <4>2 DEF CallFits
    <3>3. QED
      BY <3>1, <3>2
  <2>2. call' = [q \in Calls |-> call'[q]]
    BY <1>2, <1>5
  <2>3. QED
    BY <2>1, <2>2 DEF CallInv
<1>14. StoreInv'
  <2>1. \A k, m : KeptFits(k, m) => KeptFits(k, m)'
    BY <1>1, <1>3, <1>7, <1>10 DEF KeptFits, n
  <2>2. QED
    BY <1>1, <2>1 DEF SessionsInv, StoreInv
<1>15. QED
  BY <1>9, <1>13, <1>14 DEF SessionsInv

(* The provider forgets a session, and what is kept grows old.               *)
LEMMA ProviderSteps ==
  ASSUME Parameters, SessionsInv,
         (\E n \in SessionIds : SessionDies(n)) \/ (\E k \in Keys : KeptGrowsOld(k))
  PROVE  SessionsInv'
<1>1. ASSUME NEW n \in SessionIds, SessionDies(n) PROVE SessionsInv'
  <2>1. /\ alive' = alive \ {n} /\ call' = Disturb(call)
        /\ UNCHANGED <<kind, account, made, store, editing>>
    BY <1>1 DEF SessionDies
  <2>2. TableInv'
    BY <2>1 DEF SessionsInv, TableInv
  <2>3. StoreInv'
    BY <2>1 DEF SessionsInv, StoreInv, KeptFits, MadeFor
  <2>4. \A p \in Calls : CallFits(call'[p])
    BY <2>1, DisturbedFit DEF SessionsInv, CallInv
  <2>5. call' = [p \in Calls |-> call'[p]]
    BY <2>1 DEF Disturb
  <2>6. CallInv'
    BY <2>1, <2>4, <2>5 DEF CallInv, CallFits, MadeFor
  <2>7. QED
    BY <2>2, <2>3, <2>6 DEF SessionsInv
<1>2. ASSUME NEW k \in Keys, KeptGrowsOld(k) PROVE SessionsInv'
  <2>1. StoreInv'
    BY <1>2, OneKept, NothingKept DEF KeptGrowsOld
  <2>2. TableInv' /\ CallInv'
    BY <1>2 DEF KeptGrowsOld, SessionsInv, TableInv, CallInv, CallFits, MadeFor
  <2>3. QED
    BY <2>1, <2>2 DEF SessionsInv
<1>3. QED
  BY <1>1, <1>2

(* The connection gets other credentials, while no call is at work (SEMS+:   *)
(* at any time, its calls and sessions go by their own account).  Deye's     *)
(* token goes in the same statement; LuxPower's session goes before anything *)
(* is fetched again.                                                         *)
LEMMA EditSteps ==
  ASSUME Parameters, SessionsInv, Edit \/ ClearSession
  PROVE  SessionsInv'
<1>1. ASSUME Edit PROVE SessionsInv'
  <2>1. /\ editing = "no" /\ account' \in Accounts /\ UNCHANGED <<kind, made, alive, call>>
        /\ kind = "SEMS" \/ \A p \in Calls : call[p].pc \notin Working
        /\ store' = IF kind = "DEYE" THEN [store EXCEPT !["connection"] = None] ELSE store
        /\ editing' = IF kind = "LUXPOWER" THEN "yes" ELSE "no"
    BY <1>1 DEF Edit, Parameters, AtWork, Working
  <2>2. TableInv'
    BY <2>1 DEF SessionsInv, TableInv
  <2>3. CallInv'
    BY <2>1 DEF SessionsInv, CallInv, CallFits, MadeFor
  <2>4. StoreInv'
    <3>1. store' = [k \in Keys |-> store'[k]]
      BY <2>1 DEF SessionsInv, StoreInv
    <3>2. \A k \in Keys : store'[k] = store[k] \/ store'[k] = None
      BY <2>1 DEF SessionsInv, StoreInv
    <3>3. kind \notin {"SEMS", "LUXPOWER"} => store'["connection"] = None
      BY <2>1 DEF SessionsInv, TableInv, StoreInv, Kinds, Keys
    <3>4. QED
      BY <2>1, <3>1, <3>2, <3>3 DEF SessionsInv, TableInv, StoreInv, KeptFits, MadeFor, None
  <2>5. QED
    BY <2>2, <2>3, <2>4 DEF SessionsInv
<1>2. ASSUME ClearSession PROVE SessionsInv'
  <2>1. /\ editing = "yes" /\ editing' = "no" /\ UNCHANGED <<kind, account, made, alive, call>>
        /\ store' = [store EXCEPT !["connection"] = None]
    BY <1>2 DEF ClearSession
  <2>2. kind # "SEMS"
    BY <2>1 DEF SessionsInv, TableInv
  <2>3. TableInv' /\ CallInv'
    BY <2>1 DEF SessionsInv, TableInv, CallInv, CallFits, MadeFor
  <2>4. StoreInv'
    <3>1. \A k \in Keys : store'[k] = store[k] \/ store'[k] = None
      BY <2>1 DEF SessionsInv, StoreInv
    <3>2. store'["connection"] = None /\ store' = [k \in Keys |-> store'[k]]
      BY <2>1 DEF SessionsInv, StoreInv, Keys
    <3>3. QED
      BY <2>1, <2>2, <3>1, <3>2 DEF SessionsInv, TableInv, StoreInv, KeptFits, MadeFor, None
  <2>5. QED
    BY <2>3, <2>4 DEF SessionsInv
<1>3. QED
  BY <1>1, <1>2

-----------------------------------------------------------------------------
(* Every state satisfies the invariant.                                      *)
THEOREM SessionsKept == ASSUME Parameters PROVE Spec => []SessionsInv
<1>1. Init => SessionsInv
  BY InitEstablishes
<1>2. SessionsInv /\ [Next]_vars => SessionsInv'
  <2>1. ASSUME SessionsInv, Next PROVE SessionsInv'
    BY <2>1, BeginStep, QuietSteps, RejectedStep, LoginStep, ProviderSteps, EditSteps DEF Next, Proceed
  <2>2. ASSUME SessionsInv, UNCHANGED vars PROVE SessionsInv'
    BY <2>2 DEF vars, SessionsInv, TableInv, CallInv, StoreInv, CallFits, KeptFits, MadeFor
  <2>3. QED
    BY <2>1, <2>2
<1>3. QED
  BY <1>1, <1>2, PTL DEF Spec

(* The sessions, the store and the calls have their types.                   *)
THEOREM TypeCorrect == ASSUME Parameters PROVE Spec => []TypeOK
<1>1. SessionsInv => TypeOK
  BY DEF SessionsInv, TableInv, CallInv, StoreInv, CallFits, KeptFits, TypeOK
<1>2. QED
  BY <1>1, SessionsKept, PTL

(* At SEMS+, LuxPower and Deye alike, with any number of calls that look,    *)
(* log in, store over each other and try again: nothing is fetched with a    *)
(* session of another account than the call has read, when a LuxPower or     *)
(* Deye connection is edited while no call is at work.                       *)
THEOREM SessionsFitTheirAccounts == ASSUME Parameters PROVE Spec => []SessionFitsAccount
<1>1. SessionsInv => SessionFitsAccount
  BY DEF SessionsInv, CallInv, CallFits, MadeFor, SessionFitsAccount
<1>2. QED
  BY <1>1, SessionsKept, PTL

-----------------------------------------------------------------------------
(* What a dead session costs.  The last try has logged in itself: as long as *)
(* no session dies, its own is alive.                                        *)
TriesFit(c) ==
  /\ c.pc = "look" => c.tries = 1
  /\ c.tries = 2 /\ c.pc \in {"keep", "request"} /\ c.disturbed = "no" => c.session \in alive
  /\ c.skipped = "rejected" => kind = "LUXPOWER" /\ c.op = "discover"
  /\ c.pc = "rejected" => c.disturbed = "yes"
TriesInv == \A p \in Calls : TriesFit(call[p])

(* One call moves on.                                                        *)
LEMMA OneTry ==
  ASSUME SessionsInv, TriesInv, UNCHANGED <<kind, alive>>, NEW p, NEW c, TriesFit(c), Step(p, c)
  PROVE  TriesInv'
BY DEF SessionsInv, CallInv, TriesInv, TriesFit, Step

(* How a call ends: rejected only when it was disturbed.                     *)
LEMMA EndedTriesFit ==
  ASSUME Parameters, NEW c \in Call, NEW how \in {"ok", "rejected", "broken"}, TriesFit(c),
         how = "rejected" => c.disturbed = "yes"
  PROVE  TriesFit(Ended(c, how))
<1> DEFINE idle == Idle(CHOOSE a \in Accounts : TRUE)
           e == Ended(c, how)
<1>1. (CHOOSE a \in Accounts : TRUE) \in Accounts
  BY DEF Parameters
<1>2. idle \in Call /\ idle.skipped = "no"
  BY <1>1 DEF Idle, Call, Parameters, SessionIds
<1> HIDE DEF idle
<1>3. /\ e.pc = how
      /\ e.skipped = (IF how = "ok" THEN c.skipped ELSE idle.skipped)
      /\ how = "ok" => e.op = c.op
      /\ how = "rejected" => e.disturbed = c.disturbed
  BY <1>2 DEF Ended, Call, idle
<1> HIDE DEF e
<1>4. TriesFit(e)
  BY <1>2, <1>3 DEF TriesFit
<1>5. QED
  BY <1>4 DEF e

(* An answer is one request less, or the end.                                *)
LEMMA AnsweredTriesFit ==
  ASSUME Parameters, SessionsInv, NEW c \in Call, TriesFit(c), c.pc = "request"
  PROVE  TriesFit(Answered(c))
<1>1. CASE c.request + 1 = Requests
  BY <1>1, EndedTriesFit DEF Answered
<1>2. CASE c.request + 1 # Requests
  <2> DEFINE d == [c EXCEPT !.request = @ + 1]
  <2>1. /\ d.pc = c.pc /\ d.tries = c.tries /\ d.disturbed = c.disturbed /\ d.session = c.session
        /\ d.skipped = c.skipped /\ d.op = c.op
    BY DEF Call
  <2>2. Answered(c) = d
    BY <1>2 DEF Answered
  <2> HIDE DEF d
  <2>3. QED
    BY <2>1, <2>2 DEF TriesFit
<1>3. QED
  BY <1>1, <1>2

(* A rejected call tries again, and logs in for it; the last try is rejected *)
(* only when a session has died.                                             *)
LEMMA RejectedTry ==
  ASSUME Parameters, SessionsInv, TriesInv, NEW p \in Calls, Rejected(p)
  PROVE  TriesInv'
<1> DEFINE c == call[p]
<1>1. /\ TriesFit(c) /\ c \in Call /\ c.pc = "request" /\ c.session \notin alive
      /\ UNCHANGED <<kind, alive>>
  BY DEF TriesInv, SessionsInv, CallInv, CallFits, Rejected
<1>2. ASSUME LeavesOutRejected(c), Step(p, Answered([c EXCEPT !.skipped = "rejected"]))
      PROVE  TriesInv'
  <2> DEFINE d == [c EXCEPT !.skipped = "rejected"]
  <2>1. d \in Call /\ d.pc = "request" /\ d.skipped = "rejected" /\ d.op = c.op
        /\ d.tries = c.tries /\ d.disturbed = c.disturbed /\ d.session = c.session
    BY <1>1 DEF Call
  <2> HIDE DEF d
  <2>2. TriesFit(d)
    BY <1>1, <1>2, <2>1 DEF TriesFit, LeavesOutRejected
  <2>3. QED
    BY <1>1, <1>2, <2>1, <2>2, AnsweredTriesFit, OneTry DEF d
<1>3. ASSUME TryAgain(p) PROVE TriesInv'
  <2>1. c.account \in Accounts /\ account \in Accounts
    BY <1>1 DEF Call, SessionsInv, TableInv
  <2>2. PICK a \in Accounts :
          LET kept == IF kind = "DEYE" THEN None ELSE Dropped(p)[Key(kind, a)]
          IN  /\ kind # "DEYE" => a = c.account
              /\ Step(p, [c EXCEPT !.account = a, !.tries = 2, !.request = 0, !.skipped = "no",
                                   !.session = kept, !.pc = IF kept = None THEN "login" ELSE "request"])
    BY <1>3, <2>1 DEF TryAgain
  <2>3. kind # "DEYE" => Dropped(p)[Key(kind, a)] = None
    BY <2>1, <2>2 DEF Dropped, Key, Keys, SessionsInv, StoreInv
  <2> DEFINE d == [c EXCEPT !.account = a, !.tries = 2, !.request = 0, !.skipped = "no",
                            !.session = None, !.pc = "login"]
  <2>4. Step(p, d)
    BY <2>2, <2>3
  <2>5. d.pc = "login" /\ d.skipped = "no"
    BY <1>1 DEF Call
  <2> HIDE DEF d
  <2>6. TriesFit(d)
    BY <2>5 DEF TriesFit
  <2>7. QED
    BY <1>1, <2>4, <2>6, OneTry
<1>4. ASSUME c.tries = 2, Step(p, Ended(c, "rejected")) PROVE TriesInv'
  <2>1. c.disturbed = "yes"
    BY <1>1, <1>4 DEF TriesFit, Call
  <2>2. QED
    BY <1>1, <1>4, <2>1, EndedTriesFit, OneTry
<1>5. QED
  BY <1>2, <1>3, <1>4 DEF Rejected

(* A login gives the call a session that is alive; one that replaces the     *)
(* older sessions disturbs the calls that may use them.                      *)
LEMMA LoginTry ==
  ASSUME Parameters, SessionsInv, TriesInv, NEW p \in Calls, LoginAnswers(p)
  PROVE  TriesInv'
<1> DEFINE n == Len(made) + 1
<1>1. ASSUME NEW q \in Calls PROVE call[q] \in Call /\ TriesFit(call[q])
  BY DEF SessionsInv, CallInv, CallFits, TriesInv
<1>2. CASE alive' = alive \cup {n} /\ call' = [call EXCEPT ![p].session = n, ![p].pc = "keep"]
  <2>1. ASSUME NEW q \in Calls, q # p PROVE call'[q] = call[q]
    BY <1>2, <2>1 DEF SessionsInv, CallInv
  <2>2. call'[p].pc = "keep" /\ call'[p].session = n /\ call'[p].skipped = call[p].skipped
        /\ call'[p].op = call[p].op
    BY <1>1, <1>2 DEF SessionsInv, CallInv, Call
  <2>3. kind' = kind
    BY DEF LoginAnswers
  <2>5. n \in alive' /\ \A m \in alive : m \in alive'
    BY <1>2
  <2> HIDE DEF n
  <2>6. TriesFit(call[p])'
    BY <1>1, <2>2, <2>3, <2>5 DEF TriesFit
  <2>7. ASSUME NEW q \in Calls, q # p PROVE TriesFit(call[q])'
    BY <1>1, <2>1, <2>3, <2>5, <2>7 DEF TriesFit
  <2>8. QED
    BY <2>6, <2>7 DEF TriesInv
<1>3. CASE alive' = {n} /\ call' = [Disturb(call) EXCEPT ![p].session = n, ![p].pc = "keep"]
  <2>1. ASSUME NEW q \in Calls, q # p
        PROVE  /\ call'[q].pc = call[q].pc /\ call'[q].tries = call[q].tries
               /\ call'[q].skipped = call[q].skipped /\ call'[q].op = call[q].op
               /\ AtWork(q) => call'[q].disturbed = "yes"
               /\ ~AtWork(q) => call'[q].disturbed = call[q].disturbed
    BY <1>1, <1>3, <2>1 DEF Disturb, Call
  <2>2. call'[p].pc = "keep" /\ call'[p].session = n /\ call'[p].skipped = call[p].skipped
        /\ call'[p].op = call[p].op
    BY <1>1, <1>3 DEF Disturb, Call
  <2>3. kind' = kind
    BY DEF LoginAnswers
  <2>5. n \in alive'
    BY <1>3
  <2> HIDE DEF n
  <2>6. TriesFit(call[p])'
    BY <1>1, <2>2, <2>3, <2>5 DEF TriesFit
  <2>7. ASSUME NEW q \in Calls, q # p PROVE TriesFit(call[q])'
    BY <1>1, <2>1, <2>3, <2>7 DEF TriesFit, AtWork
  <2>8. QED
    BY <2>6, <2>7 DEF TriesInv
<1>4. QED
  BY <1>2, <1>3 DEF LoginAnswers

(* A session that dies disturbs the calls at work.                           *)
LEMMA DyingTry ==
  ASSUME Parameters, SessionsInv, TriesInv, NEW n \in SessionIds, SessionDies(n)
  PROVE  TriesInv'
<1>1. ASSUME NEW q \in Calls PROVE TriesFit(call[q])'
  <2>1. call[q] \in Call /\ TriesFit(call[q]) /\ kind' = kind
    BY DEF SessionsInv, CallInv, CallFits, TriesInv, SessionDies
  <2>2. /\ call'[q].pc = call[q].pc /\ call'[q].tries = call[q].tries
        /\ call'[q].skipped = call[q].skipped /\ call'[q].op = call[q].op
        /\ AtWork(q) => call'[q].disturbed = "yes"
        /\ ~AtWork(q) => call'[q].disturbed = call[q].disturbed
    BY <2>1 DEF SessionDies, Disturb, Call
  <2>3. QED
    BY <2>1, <2>2 DEF TriesFit, AtWork
<1>2. QED
  BY <1>1 DEF TriesInv

(* The other steps of a call.                                                *)
LEMMA QuietTries ==
  ASSUME Parameters, SessionsInv, TriesInv, NEW p \in Calls,
         \/ ForceRelogin(p) \/ GetOrCreateSession(p) \/ KeepSession(p) \/ LoginFails(p)
         \/ Accepted(p) \/ Broken(p)
  PROVE  TriesInv'
<1> DEFINE c == call[p]
<1>1. c \in Call /\ TriesFit(c)
  BY DEF SessionsInv, CallInv, CallFits, TriesInv
<1>2. UNCHANGED <<kind, alive>>
  BY DEF ForceRelogin, GetOrCreateSession, KeepSession, LoginFails, Accepted, Broken
<1>3. ASSUME ForceRelogin(p) PROVE TriesInv'
  <2>1. TriesFit([c EXCEPT !.pc = "login"])
    BY <1>1 DEF TriesFit, Call
  <2>2. QED
    BY <1>2, <1>3, <2>1, OneTry DEF ForceRelogin
<1>4. ASSUME GetOrCreateSession(p) PROVE TriesInv'
  <2>1. ASSUME NEW kept, NEW pc \in {"login", "request"}, c.pc = "look",
               Step(p, [c EXCEPT !.session = kept, !.pc = pc])
        PROVE  TriesInv'
    <3>1. TriesFit([c EXCEPT !.session = kept, !.pc = pc])
      BY <1>1, <2>1 DEF TriesFit, Call
    <3>2. QED
      BY <1>2, <2>1, <3>1, OneTry
  <2> DEFINE kept == store[Key(kind, c.account)]
             pc == IF kept = None THEN "login" ELSE "request"
  <2>2. c.pc = "look" /\ Step(p, [c EXCEPT !.session = kept, !.pc = pc]) /\ pc \in {"login", "request"}
    BY <1>4 DEF GetOrCreateSession
  <2> HIDE DEF kept, pc
  <2>3. QED
    BY <2>1, <2>2
<1>5. ASSUME KeepSession(p) PROVE TriesInv'
  <2>1. c.pc = "keep" /\ Step(p, [c EXCEPT !.pc = "request", !.request = 0, !.skipped = "no"])
    BY <1>5 DEF KeepSession
  <2>2. TriesFit([c EXCEPT !.pc = "request", !.request = 0, !.skipped = "no"])
    BY <1>1, <2>1 DEF TriesFit, Call
  <2>3. QED
    BY <1>2, <2>1, <2>2, OneTry
<1>6. ASSUME LoginFails(p) PROVE TriesInv'
  BY <1>1, <1>2, <1>6, EndedTriesFit, OneTry DEF LoginFails
<1>7. ASSUME Accepted(p) PROVE TriesInv'
  BY <1>1, <1>2, <1>7, AnsweredTriesFit, OneTry DEF Accepted
<1>8. ASSUME Broken(p) PROVE TriesInv'
  <2> DEFINE skipped == IF c.skipped = "no" THEN "broken" ELSE c.skipped
             d == [c EXCEPT !.skipped = skipped]
  <2>1. skipped \in {"no", "broken", "rejected"} /\ (skipped = "rejected" => c.skipped = "rejected")
    BY <1>1 DEF Call
  <2>2. c.pc = "request" /\ (Step(p, Answered(d)) \/ Step(p, Ended(c, "broken")))
    BY <1>8 DEF Broken
  <2> HIDE DEF skipped
  <2>3. d \in Call /\ d.pc = "request" /\ d.skipped = skipped /\ d.op = c.op
        /\ d.tries = c.tries /\ d.disturbed = c.disturbed /\ d.session = c.session
    BY <1>1, <2>1, <2>2 DEF Call
  <2> HIDE DEF d
  <2>4. TriesFit(d)
    BY <1>1, <2>1, <2>2, <2>3 DEF TriesFit
  <2>5. QED
    BY <1>1, <1>2, <2>2, <2>3, <2>4, AnsweredTriesFit, EndedTriesFit, OneTry
<1>9. QED
  BY <1>3, <1>4, <1>5, <1>6, <1>7, <1>8

(* The first try; a test of the connection has no other.                     *)
LEMMA BeginTry ==
  ASSUME Parameters, SessionsInv, TriesInv, NEW p \in Calls, NEW op \in Ops(kind), Begin(p, op)
  PROVE  TriesInv'
<1> DEFINE c == [Idle(account) EXCEPT !.op = op]
<1>1. UNCHANGED <<kind, alive>>
  BY DEF Begin
<1>2. c.pc = "idle" /\ c.tries = 1 /\ c.skipped = "no"
  BY DEF Idle
<1>3. op \in {"sync", "discover", "test"} /\ account \in Accounts
  BY DEF SessionsInv, TableInv, Kinds, Ops
<1>4. c \in Call
  BY <1>3 DEF Idle, Call, Parameters, SessionIds
<1>5. \/ Step(p, [c EXCEPT !.pc = "look"])
      \/ LET kept == store[Key(kind, account)]
         IN  Step(p, [c EXCEPT !.session = kept, !.pc = IF kept = None THEN "login" ELSE "request"])
      \/ Step(p, [c EXCEPT !.pc = "login", !.tries = 2])
  BY DEF Begin
<1> HIDE DEF c
<1>6. CASE Step(p, [c EXCEPT !.pc = "look"])
  <2>1. TriesFit([c EXCEPT !.pc = "look"])
    BY <1>2, <1>4 DEF TriesFit, Call
  <2>2. QED
    BY <1>1, <1>6, <2>1, OneTry
<1>7. ASSUME NEW kept, NEW pc \in {"login", "request"}, Step(p, [c EXCEPT !.session = kept, !.pc = pc])
      PROVE  TriesInv'
  <2>1. TriesFit([c EXCEPT !.session = kept, !.pc = pc])
    BY <1>2, <1>4 DEF TriesFit, Call
  <2>2. QED
    BY <1>1, <1>7, <2>1, OneTry
<1>8. CASE LET kept == store[Key(kind, account)]
           IN  Step(p, [c EXCEPT !.session = kept, !.pc = IF kept = None THEN "login" ELSE "request"])
  <2> DEFINE kept == store[Key(kind, account)]
             pc == IF kept = None THEN "login" ELSE "request"
  <2>1. Step(p, [c EXCEPT !.session = kept, !.pc = pc]) /\ pc \in {"login", "request"}
    BY <1>8
  <2> HIDE DEF kept, pc
  <2>2. QED
    BY <1>7, <2>1
<1>9. CASE Step(p, [c EXCEPT !.pc = "login", !.tries = 2])
  <2>1. TriesFit([c EXCEPT !.pc = "login", !.tries = 2])
    BY <1>2, <1>4 DEF TriesFit, Call
  <2>2. QED
    BY <1>1, <1>9, <2>1, OneTry
<1>10. QED
  BY <1>5, <1>6, <1>8, <1>9

(* A dead session costs one more login and nothing else: with any number of  *)
(* calls that store over each other, one is rejected for good only when a    *)
(* session died while it was at work, and leaves nothing out for it, unless  *)
(* it lists LuxPower's plants.                                               *)
THEOREM DeadSessionsCostALogin == ASSUME Parameters PROVE Spec => []DeadSessionCostsALogin
<1>1. Init => TriesInv
  BY DEF Init, TriesInv, TriesFit, Idle
<1>2. SessionsInv /\ TriesInv /\ [Next]_vars => TriesInv'
  <2> SUFFICES ASSUME SessionsInv, TriesInv, [Next]_vars PROVE TriesInv'
    OBVIOUS
  <2>1. ASSUME Edit \/ ClearSession \/ (\E k \in Keys : KeptGrowsOld(k)) \/ UNCHANGED vars
        PROVE  TriesInv'
    BY <2>1 DEF Edit, ClearSession, KeptGrowsOld, vars, TriesInv, TriesFit
  <2>2. QED
    BY <2>1, BeginTry, QuietTries, RejectedTry, LoginTry, DyingTry DEF Next, Proceed
<1>3. SessionsInv /\ TriesInv => DeadSessionCostsALogin
  BY DEF SessionsInv, CallInv, CallFits, TriesInv, TriesFit, DeadSessionCostsALogin
<1>4. QED
  BY <1>1, <1>2, <1>3, SessionsKept, PTL DEF Spec
=============================================================================
