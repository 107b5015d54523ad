------------------------------ MODULE ZaloToken ------------------------------
(***************************************************************************)
(* Zalo's access token: how a message is sent with it, renewed and sent    *)
(* again (sendTemplatePayload, handleProviderFailure and what they call in *)
(* backend/src/zalo-notifications/zalo-notifications.service.ts), and the  *)
(* row of settings it is kept in (zalo-settings.service.ts).               *)
(*                                                                         *)
(* Tokens are numbered as Zalo issues them, an access token and a refresh  *)
(* token together; a refresh token works once.  There is no lock: senders  *)
(* and an edit of the settings meet in the row.  App ID and secret are     *)
(* stored, and nothing comes from the environment.                         *)
(***************************************************************************)
EXTENDS Naturals

CONSTANTS
  Sends,        \* messages in flight together
  MaxToken      \* tokens issued in a behaviour; at least 1

VARIABLES
  row,          \* the row of ZaloProviderConfig
  token,        \* at Zalo: the access tokens
  spent,        \* at Zalo: the refresh tokens that have been exchanged
  send,         \* local state of every message
  edit,         \* local state of updateSettings
  excused,      \* messages that met another one, an edit, or trouble at Zalo
  lost          \* whether the successor of a spent refresh token got lost

vars == <<row, token, spent, send, edit, excused, lost>>

-----------------------------------------------------------------------------
Tokens == 1..MaxToken
Stored == 0..MaxToken                  \* 0 is null; an expiry is that of the token

Row == [access : Stored, refresh : Stored, expiry : Stored, status : {"null", "AVAILABLE", "REJECTED"}]

Resting(pc, outcome) ==
  [pc |-> pc, access |-> 0, refresh |-> 0, expiry |-> 0, fresh |-> 0, tries |-> 0, outcome |-> outcome]
Idle == Resting("idle", "none")
End(outcome) == Resting("log", outcome)
Send ==
  [pc : {"idle", "refresh", "failed", "persist", "verify", "send", "reject", "accept", "log"},
   access : Stored, refresh : Stored, expiry : Stored, fresh : Stored, tries : 0..2,
   outcome : {"none", "SENT", "FAILED"}]
NoEdit == [pc |-> "idle", access |-> 0, refresh |-> 0, expiry |-> 0]
Edit == [pc : {"idle", "write"}, access : Stored, refresh : Stored, expiry : Stored]

Fresh == {n \in Tokens : token[n] = "unissued" /\ \A m \in Tokens : m < n => token[m] # "unissued"}
Working == {m \in Sends : send[m] # Idle}

Become(m, state) == send' = [send EXCEPT ![m] = state]

-----------------------------------------------------------------------------
(* resolveAccessTokenState *)
TokenState ==
  IF row.access = 0 THEN "MISSING"
  ELSE IF row.expiry # 0 /\ token[row.expiry] = "expired" THEN "EXPIRED"
  ELSE IF row.status = "REJECTED" THEN "REJECTED" ELSE "AVAILABLE"

(* shouldForceRefresh; rejected: the access token that Zalo has just refused, *)
(* or 0.                                                                     *)
MustRefreshAsStored(state, access, rejected) ==     \* faulty variant: by the row alone
  state # "AVAILABLE"
MustRefresh(state, access, rejected) ==
  state # "AVAILABLE" \/ (rejected # 0 /\ access = rejected)

(* A message begins with resolveConfig, and keeps what it has read.          *)
Begin(m) ==
  /\ send[m] = Idle
  /\ Become(m, [Idle EXCEPT !.pc = IF MustRefresh(TokenState, row.access, 0) THEN "refresh" ELSE "send",
                            !.access = row.access, !.refresh = row.refresh, !.expiry = row.expiry])
  /\ excused' =
       LET company == Working # {} \/ edit # NoEdit IN
       IF company THEN excused \cup Working \cup {m}
       ELSE IF row.refresh \in spent \cup {0} THEN excused \cup {m} ELSE excused
  /\ UNCHANGED <<row, token, spent, edit, lost>>

(* tryRefreshAccessToken: the exchange.  Zalo's answer may be lost.          *)
Exchange(m) ==
  /\ send[m].pc = "refresh" /\ send[m].refresh \notin spent \cup {0}
  /\ \E n \in Fresh :
       /\ token' = [token EXCEPT ![n] = "good"]
       /\ spent' = spent \cup {send[m].refresh}
       /\ \/ /\ Become(m, [send[m] EXCEPT !.pc = "persist", !.fresh = n])
             /\ UNCHANGED <<excused, lost>>
          \/ /\ Become(m, [send[m] EXCEPT !.pc = "failed"])
             /\ excused' = excused \cup {m}
             /\ lost' = "yes"
  /\ UNCHANGED <<row, edit>>

(* Zalo refuses, always so when the token is spent, or is out of reach.       *)
ExchangeRefused(m) ==
  /\ send[m].pc = "refresh"
  /\ Become(m, [send[m] EXCEPT !.pc = "failed"])
  /\ excused' = IF send[m].refresh \in spent THEN excused ELSE excused \cup {m}
  /\ UNCHANGED <<row, token, spent, edit, lost>>

(* recordRefreshResult *)
RecordFailure(m) ==
  /\ send[m].pc = "failed"
  /\ row' = [row EXCEPT !.status = "REJECTED"]
  /\ Become(m, End("FAILED"))
  /\ UNCHANGED <<token, spent, edit, excused, lost>>

(* persistRefreshedTokens; an answer may name no expiry.                      *)
Persist(m) ==
  LET n == send[m].fresh IN
  /\ send[m].pc = "persist"
  /\ \E expiry \in {0, n} :
       row' = [access |-> n, refresh |-> n, expiry |-> expiry, status |-> "AVAILABLE"]
  /\ lost' = "no"
  /\ Become(m, [send[m] EXCEPT !.pc = "verify"])
  /\ UNCHANGED <<token, spent, edit, excused>>

(* The row is read again, and a message does not go on with a token of others. *)
Verify(m) ==
  /\ send[m].pc = "verify"
  /\ Become(m, IF row.access = send[m].fresh
               THEN [send[m] EXCEPT !.pc = "send", !.access = row.access, !.refresh = row.refresh,
                                    !.expiry = row.expiry, !.fresh = 0]
               ELSE End("FAILED"))
  /\ UNCHANGED <<row, token, spent, edit, excused, lost>>

(* performProviderSend: Zalo takes the message, refuses the token, or refuses *)
(* the message for another reason; without an answer the request ends.        *)
Deliver(m) ==
  LET s == [send[m] EXCEPT !.tries = @ + 1] IN
  /\ send[m].pc = "send"
  /\ \/ /\ token[s.access] = "good"
        /\ Become(m, [s EXCEPT !.pc = "accept"])
        /\ UNCHANGED excused
     \/ /\ token[s.access] # "good"
        /\ Become(m, [s EXCEPT !.pc = "reject"])
        /\ UNCHANGED excused
     \/ /\ Become(m, End("FAILED"))
        /\ excused' = excused \cup {m}
  /\ UNCHANGED <<row, token, spent, edit, lost>>

(* recordTokenStatus, with the expiry that the message knows of               *)
Accept(m) ==
  /\ send[m].pc = "accept"
  /\ row' = [row EXCEPT !.status = "AVAILABLE",
                        !.expiry = IF send[m].expiry # 0 THEN send[m].expiry ELSE @]
  /\ Become(m, End("SENT"))
  /\ UNCHANGED <<token, spent, edit, excused, lost>>

(* handleProviderFailure: the token is noted as rejected; the first time it   *)
(* is replaced, the second time the message has failed.                       *)
Reject(m) ==
  LET s == send[m] IN
  /\ s.pc = "reject"
  /\ row' = [row EXCEPT !.status = "REJECTED",
                        !.expiry = IF s.tries = 2 /\ s.expiry # 0 THEN s.expiry ELSE @]
  /\ Become(m, IF s.tries = 2 THEN End("FAILED")
               ELSE [s EXCEPT !.pc = IF MustRefresh("AVAILABLE", s.access, s.access)
                                     THEN "refresh" ELSE "send"])
  /\ UNCHANGED <<token, spent, edit, excused, lost>>

(* logAndReturnResult *)
Log(m) ==
  /\ send[m].pc = "log"
  /\ Become(m, Idle)
  /\ excused' = excused \ {m}
  /\ UNCHANGED <<row, token, spent, edit, lost>>

(* A statement fails, Zalo cannot be reached, or the backend restarts.        *)
Stop(m) ==
  /\ send[m] # Idle
  /\ Become(m, Idle)
  /\ excused' = excused \ {m}
  /\ lost' = IF send[m].pc = "persist" THEN "yes" ELSE lost
  /\ UNCHANGED <<row, token, spent, edit>>

-----------------------------------------------------------------------------
(* updateSettings: the row is read, and written back with what is pasted.     *)
BeginEdit ==
  /\ edit = NoEdit
  /\ edit' = [pc |-> "write", access |-> row.access, refresh |-> row.refresh, expiry |-> row.expiry]
  /\ excused' = excused \cup Working
  /\ UNCHANGED <<row, token, spent, send, lost>>

Write(pasted) ==
  /\ edit.pc = "write"
  /\ \E n \in IF pasted = {} THEN {0} ELSE Fresh :
       /\ token' = [m \in Tokens |-> IF m = n THEN "good" ELSE token[m]]
       /\ row' = [access |-> IF "access" \in pasted THEN n ELSE edit.access,
                  refresh |-> IF "refresh" \in pasted THEN n ELSE edit.refresh,
                  expiry |-> IF "access" \in pasted THEN 0 ELSE edit.expiry,
                  status |-> IF "access" \in pasted THEN "AVAILABLE" ELSE row.status]
       /\ lost' = IF row'.refresh \in spent THEN "yes" ELSE "no"
  /\ edit' = NoEdit
  /\ UNCHANGED <<spent, send, excused>>

-----------------------------------------------------------------------------
(* A token expires, or Zalo revokes it.                                       *)
TokenDies(n, state) ==
  /\ token[n] = "good"
  /\ token' = [token EXCEPT ![n] = state]
  /\ excused' = excused \cup Working
  /\ UNCHANGED <<row, spent, send, edit, lost>>

-----------------------------------------------------------------------------
(* An administrator has pasted the first pair, or the refresh token alone.    *)
Init ==
  /\ row \in {[access |-> a, refresh |-> 1, expiry |-> 0, status |-> "null"] : a \in {0, 1}}
  /\ token = [n \in Tokens |-> IF n = 1 THEN "good" ELSE "unissued"]
  /\ spent = {}
  /\ send = [m \in Sends |-> Idle]
  /\ edit = NoEdit
  /\ excused = {}
  /\ lost = "no"

Next ==
  \/ \E m \in Sends :
       \/ Begin(m) \/ Exchange(m) \/ ExchangeRefused(m) \/ RecordFailure(m) \/ Persist(m)
       \/ Verify(m) \/ Deliver(m) \/ Accept(m) \/ Reject(m) \/ Log(m) \/ Stop(m)
  \/ BeginEdit
  \/ \E pasted \in SUBSET {"access", "refresh"} : Write(pasted)
  \/ \E n \in Tokens, state \in {"expired", "revoked"} : TokenDies(n, state)

Spec == Init /\ [][Next]_vars

-----------------------------------------------------------------------------
(* Properties *)

TypeOK ==
  /\ row \in Row
  /\ token \in [Tokens -> {"unissued", "good", "expired", "revoked"}]
  /\ spent \subseteq Tokens
  /\ send \in [Sends -> Send]
  /\ edit \in Edit
  /\ excused \subseteq Sends
  /\ lost \in {"yes", "no"}

(* Whatever the row says of the access token, and whatever has become of it   *)
(* at Zalo, a message that meets nobody is sent, with a new token where that  *)
(* is needed.  This takes the refresh token, which is never a spent one: its  *)
(* successor is at hand, unless an answer or a stop has lost it, or an edit   *)
(* has put the old one back.                                                  *)
DeadTokensAreReplaced ==
  /\ \A m \in Sends : send[m].outcome = "FAILED" => m \in excused
  /\ row.refresh \in spent =>
       lost = "yes" \/ \E m \in Sends : send[m].pc = "persist" /\ send[m].refresh = row.refresh
=============================================================================
