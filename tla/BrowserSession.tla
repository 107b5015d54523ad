---------------------------- MODULE BrowserSession ---------------------------
(***************************************************************************)
(* The session as the browser keeps it (frontend/src/lib/auth.ts, api.ts,  *)
(* components/portal-live-provider.tsx, portal-shell.tsx, the login page): *)
(* one entry of the storage that all tabs share, with an access token that *)
(* is renewed when a call is answered 401, by one refresh per tab for all  *)
(* that wait for it.                                                       *)
(*                                                                         *)
(* A tab makes one call at a time beside its live stream.  An access token *)
(* outlives its session at the server until it expires; the refresh is     *)
(* refused as soon as the session is revoked.  Roles are left out, and     *)
(* what a page that is being left does when it gets a session once more.   *)
(***************************************************************************)
CONSTANTS
  Tabs,
  Sessions    \* rows of authSession at the server, used again when nothing is left of one

VARIABLES
  store,   \* the stored session, or None
  access,  \* its access token
  alive,   \* the sessions that the server has not revoked
  page,    \* what a tab shows; leaving: until the next page is loaded
  refresh, \* the session of a tab's refreshSessionPromise
  call, stream

vars == <<store, access, alive, page, refresh, call, stream>>

-----------------------------------------------------------------------------
None == "none"

(* Call and stream: first and second are in flight, with the token that was  *)
(* stored and with the refreshed one; waiting: for the refresh; timer: for   *)
(* the next try to connect; stopped: until the page is loaded again.         *)
Tokens == {"none", "good", "old"}
Call == [pc : {"idle", "first", "waiting", "second"}, token : Tokens]
Stream == [pc : {"off", "first", "waiting", "second", "open", "timer", "stopped"}, token : Tokens]
NoCall == [pc |-> "idle", token |-> "none"]
NoStream == [pc |-> "off", token |-> "none"]
Waiting == [pc |-> "waiting", token |-> "none"]

Token == IF store = None THEN "none" ELSE access
(* A good token may expire on its way.                                       *)
Accepts(request) == request.pc \in {"first", "second"} /\ request.token = "good"

(* PortalLiveProvider is unmounted.  One that waits goes on waiting.         *)
Unmounted(s) == IF s.pc = "waiting" THEN s ELSE NoStream

(* expireSession in tab t: the storage is emptied, and the shell of this tab *)
(* leaves for the login page.                                                *)
SignOut(t, c, s) ==
  /\ store' = None
  /\ page' = [page EXCEPT ![t] = "leaving"]
  /\ call' = [call EXCEPT ![t] = c]
  /\ stream' = [stream EXCEPT ![t] = Unmounted(s)]

(* refreshSessionRequest, for the call or the stream: the refresh in flight  *)
(* is shared, whoever it was begun for.                                      *)
AskForRefresh(t, c, s) ==
  /\ store # None
  /\ refresh' = [refresh EXCEPT ![t] = IF @ = None THEN store ELSE @]
  /\ call' = [call EXCEPT ![t] = c] /\ stream' = [stream EXCEPT ![t] = s]
  /\ UNCHANGED <<store, page>>
(* Nothing is stored to refresh: who asks gives up.                          *)
NothingToRefresh(t, c, s) == store = None /\ SignOut(t, c, s) /\ UNCHANGED refresh

-----------------------------------------------------------------------------
(* apiFetch                                                                  *)
Send(t) ==
  /\ page[t] = "portal" /\ call[t].pc = "idle"
  /\ call' = [call EXCEPT ![t] = [pc |-> "first", token |-> Token]]
  /\ UNCHANGED <<store, access, alive, page, refresh, stream>>

(* Any answer but 401; or none, and the call is aborted after its time.      *)
CallEnds(t) ==
  /\ call[t].pc \in {"first", "second"}
  /\ call' = [call EXCEPT ![t] = NoCall]
  /\ UNCHANGED <<store, access, alive, page, refresh, stream>>

(* CallsEnd needs that a call is repeated once.                              *)
RepeatedAlways(c) == TRUE
Repeated(c) == c.pc = "first"
CallRejected(t) ==
  /\ call[t].pc \in {"first", "second"}
  /\ IF Repeated(call[t])
     THEN AskForRefresh(t, Waiting, stream[t]) \/ NothingToRefresh(t, NoCall, stream[t])
     ELSE call' = [call EXCEPT ![t] = NoCall] /\ UNCHANGED <<store, page, refresh, stream>>
  /\ UNCHANGED <<access, alive>>

-----------------------------------------------------------------------------
(* The refresh is answered: the new tokens are saved and used by whoever     *)
(* waits.  A provider that was unmounted meanwhile signs out.                *)
Woken(r) == IF r.pc = "waiting" THEN [pc |-> "second", token |-> "good"] ELSE r
RefreshAnswers(t) ==
  /\ refresh[t] \in alive
  /\ refresh' = [refresh EXCEPT ![t] = None] /\ access' = "good"
  /\ IF stream[t].pc = "waiting" /\ page[t] # "portal"
     THEN SignOut(t, Woken(call[t]), NoStream)
     ELSE /\ store' = refresh[t]
          /\ call' = [call EXCEPT ![t] = Woken(@)] /\ stream' = [stream EXCEPT ![t] = Woken(@)]
          /\ UNCHANGED page
  /\ UNCHANGED alive

(* NobodyWaitsAlone needs a refusal to reach the stream, too.                *)
RefusedToCall(t) == SignOut(t, NoCall, stream[t])
(* DeadSessionIsLeft needs a refused refresh to end the session.             *)
RefusedIgnored(t) ==
  /\ call' = [call EXCEPT ![t] = IF @.pc = "waiting" THEN NoCall ELSE @]
  /\ stream' = [stream EXCEPT ![t] = IF @.pc = "waiting" THEN [NoStream EXCEPT !.pc = "timer"] ELSE @]
  /\ UNCHANGED <<store, page>>
Refused(t) ==
  SignOut(t, IF call[t].pc = "waiting" THEN NoCall ELSE call[t],
          IF stream[t].pc = "waiting" THEN NoStream ELSE stream[t])
(* Refused, or not answered: the session is revoked, or the network failed.  *)
RefreshFails(t) ==
  /\ refresh[t] # None
  /\ refresh' = [refresh EXCEPT ![t] = None]
  /\ Refused(t)
  /\ UNCHANGED <<access, alive>>

-----------------------------------------------------------------------------
(* connect, at first and when the timer rings.                               *)
Connect(t) ==
  /\ page[t] = "portal" /\ stream[t].pc \in {"off", "timer"}
  /\ stream' = [stream EXCEPT ![t] = [pc |-> IF store = None THEN "stopped" ELSE "first", token |-> Token]]
  /\ UNCHANGED <<store, access, alive, page, refresh, call>>

StreamOpens(t) ==
  /\ Accepts(stream[t])
  /\ stream' = [stream EXCEPT ![t] = [pc |-> "open", token |-> "none"]]
  /\ UNCHANGED <<store, access, alive, page, refresh, call>>

(* It ends, or the server fails: a timer is set.                             *)
StreamEnds(t) ==
  /\ stream[t].pc \in {"first", "second", "open"}
  /\ stream' = [stream EXCEPT ![t] = [pc |-> "timer", token |-> "none"]]
  /\ UNCHANGED <<store, access, alive, page, refresh, call>>

(* Another 4xx.                                                              *)
StreamStops(t) ==
  /\ Accepts(stream[t])
  /\ stream' = [stream EXCEPT ![t] = [pc |-> "stopped", token |-> "none"]]
  /\ UNCHANGED <<store, access, alive, page, refresh, call>>

(* 401; the second time it is the end, as 403 is at once.                    *)
StreamRejected(t) ==
  /\ stream[t].pc \in {"first", "second"}
  /\ IF stream[t].pc = "first"
     THEN AskForRefresh(t, call[t], Waiting) \/ NothingToRefresh(t, call[t], NoStream)
     ELSE SignOut(t, call[t], NoStream) /\ UNCHANGED refresh
  /\ UNCHANGED <<access, alive>>

StreamForbidden(t) ==
  /\ Accepts(stream[t])
  /\ SignOut(t, call[t], NoStream)
  /\ UNCHANGED <<access, alive, refresh>>

-----------------------------------------------------------------------------
(* logout                                                                    *)
Logout(t) ==
  /\ page[t] = "portal"
  /\ SignOut(t, call[t], stream[t])
  /\ UNCHANGED <<access, alive, refresh>>

(* The login page replaces itself by the portal if there is a session.       *)
PageLoads(t) ==
  /\ page[t] = "leaving"
  /\ page' = [page EXCEPT ![t] = IF store = None THEN "login" ELSE "portal"]
  /\ call' = [call EXCEPT ![t] = NoCall] /\ stream' = [stream EXCEPT ![t] = NoStream]
  /\ refresh' = [refresh EXCEPT ![t] = None]
  /\ UNCHANGED <<store, access, alive>>

Login(t) ==
  /\ page[t] = "login"
  /\ \E s \in Sessions \ (alive \cup {store} \cup {refresh[u] : u \in Tabs}) :
       alive' = alive \cup {s} /\ store' = s
  /\ access' = "good"
  /\ page' = [page EXCEPT ![t] = "portal"]
  /\ UNCHANGED <<refresh, call, stream>>

(* The server ends a session: the password was changed, or its time is over. *)
Revoke(s) ==
  /\ s \in alive
  /\ alive' = alive \ {s}
  /\ UNCHANGED <<store, access, page, refresh, call, stream>>

AccessExpires ==
  /\ access = "good" /\ access' = "old"
  /\ UNCHANGED <<store, alive, page, refresh, call, stream>>

-----------------------------------------------------------------------------
Init ==
  /\ store = None /\ access = "old" /\ alive = {}
  /\ page = [t \in Tabs |-> "login"] /\ refresh = [t \in Tabs |-> None]
  /\ call = [t \in Tabs |-> NoCall] /\ stream = [t \in Tabs |-> NoStream]

CallStep(t) == CallEnds(t) \/ CallRejected(t)
RefreshStep(t) == RefreshAnswers(t) \/ RefreshFails(t)

Next ==
  \/ \E t \in Tabs :
       \/ Send(t) \/ CallStep(t) \/ RefreshStep(t)
       \/ Connect(t) \/ StreamOpens(t) \/ StreamEnds(t) \/ StreamStops(t)
       \/ StreamRejected(t) \/ StreamForbidden(t)
       \/ Logout(t) \/ PageLoads(t) \/ Login(t)
  \/ \E s \in Sessions : Revoke(s)
  \/ AccessExpires

Spec == Init /\ [][Next]_vars

(* A request comes to an end; the timer rings; a stream that is tried again  *)
(* and again is answered in the end.                                         *)
FairSpec ==
  /\ Spec
  /\ \A t \in Tabs :
       /\ WF_vars(CallStep(t)) /\ WF_vars(RefreshStep(t)) /\ WF_vars(Connect(t))
       /\ SF_vars(StreamRejected(t))

-----------------------------------------------------------------------------
TypeOK ==
  /\ store \in Sessions \cup {None} /\ access \in {"good", "old"}
  /\ alive \subseteq Sessions
  /\ page \in [Tabs -> {"portal", "leaving", "login"}]
  /\ refresh \in [Tabs -> Sessions \cup {None}]
  /\ call \in [Tabs -> Call] /\ stream \in [Tabs -> Stream]

(* Whoever waits, waits for a refresh that is in flight: nobody is left      *)
(* behind when it is answered, refused or lost, when another tab signs out   *)
(* meanwhile, or when the provider of the stream is gone.                    *)
NobodyWaitsAlone ==
  \A t \in Tabs : (call[t].pc = "waiting" \/ stream[t].pc = "waiting") => refresh[t] # None

(* Every call comes to an end: it does not take turns with the refresh for   *)
(* ever when the server rejects the new token, too.                          *)
CallsEnd == \A t \in Tabs : call[t].pc # "idle" ~> call[t].pc = "idle"

(* A browser with a live stream does not stay in a session that the server   *)
(* has ended once its access token has expired: connecting and refreshing do *)
(* not go round for ever.  (A stream that is open needs no token any more.)  *)
Trying(t) == stream[t].pc \in {"first", "waiting", "second", "timer"}
DeadSessionIsLeft ==
  \A t \in Tabs, s \in Sessions :
    (Trying(t) /\ page[t] = "portal" /\ store = s /\ s \notin alive /\ access = "old")
      ~> (store # s \/ access = "good" \/ page[t] # "portal" \/ stream[t].pc \in {"open", "stopped"})
=============================================================================
