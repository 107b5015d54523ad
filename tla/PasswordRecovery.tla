-------------------------- MODULE PasswordRecovery --------------------------
(***************************************************************************)
(* One user's password and what hangs on it: the sessions of his logins,   *)
(* the one-time codes and the mailed links that reset it                   *)
(* (auth.service.ts for customers, staff-password.service.ts for staff).   *)
(*                                                                         *)
(* A password is the number of changes made so far.  Counting wrong        *)
(* passwords, rate limits, registration and signing in with a code are     *)
(* left out; an action is one statement or one transaction.                *)
(***************************************************************************)
EXTENDS Naturals

CONSTANTS
  Requests,     \* the requests at work at one time
  Sessions,     \* rows of authSession
  Codes,        \* rows of otpRequest
  Links,        \* rows of staffPasswordResetToken
  MaxPasswords  \* bound on the changes of the password

VARIABLES
  role,      \* "STAFF" or "CUSTOMER"
  password,  \* the changes made so far
  reset,     \* the last change made with a staff code
  session, code, link,
  request    \* local state of the requests

vars == <<role, password, reset, session, code, link, request>>
tables == <<session, code, link>>

-----------------------------------------------------------------------------
Passwords == 0..MaxPasswords

(* password: the one that its user has proved to know, 0 once it is revoked; *)
(* late: another one was set while the login was at work.                    *)
Session == [state : {"none", "live", "revoked"}, password : Passwords, late : {"no", "yes"}]

(* state: sendStatus, or "consumed" when consumedAt is set, whatever is sent *)
(* after that; password: the one it was made under, 0 once it is closed;     *)
(* uses: the changes made with it.                                           *)
Code == [state : {"none", "pending", "sent", "failed", "consumed"},
         password : Passwords, uses : 0..MaxPasswords]
Link == [state : {"none", "open", "used", "revoked"}, password : Passwords, uses : 0..MaxPasswords]

Request ==
  [pc : {"idle", "login", "createCode", "sendCode", "resetByCode", "reread", "mailLink",
         "resetByLink", "change"},
   row : Sessions \cup Codes \cup Links \cup {"none"}, password : Passwords]
Idle == [pc |-> "idle", row |-> "none", password |-> 0]

Go(r, pc, row, known) ==
  request' = [request EXCEPT ![r] = [pc |-> pc, row |-> row, password |-> known]]
End(r) == request' = [request EXCEPT ![r] = Idle]

(* A new row is one that was not used before.                                *)
HasUnused(rows) == \E x \in DOMAIN rows : rows[x].state = "none"
Unused(rows) == CHOOSE x \in DOMAIN rows : rows[x].state = "none"

CodesClosed(closed) ==
  [c \in Codes |-> IF c \in closed THEN [code[c] EXCEPT !.state = "consumed", !.password = 0]
                   ELSE code[c]]
Unconsumed == {c \in Codes : code[c].state \in {"pending", "sent", "failed"}}

(* ChangeEndsTheRest needs a reset of staff to close every code.             *)
OnlyTheCode(c) == {c}
ClosedByReset(c) == IF role = "STAFF" THEN Unconsumed ELSE {c}

LinksRevoked ==
  [t \in Links |-> IF link[t].state = "open" THEN [link[t] EXCEPT !.state = "revoked", !.password = 0]
                   ELSE link[t]]

(* Every session but the one that changes the password.                      *)
SessionsRevoked(kept) ==
  [s \in Sessions |->
     IF session[s].state # "live" THEN session[s]
     ELSE IF s = kept THEN [session[s] EXCEPT !.password = password + 1, !.late = "no"]
     ELSE [state |-> "revoked", password |-> 0, late |-> "no"]]

-----------------------------------------------------------------------------
(* login: the row is read and the password compared ...                      *)
Login(r) ==
  /\ request[r].pc \in {"idle", "reread"}
  /\ Go(r, "login", "none", password)
  /\ UNCHANGED <<role, password, reset, tables>>

(* ... and the session is created (buildAuthResponse).                       *)
CreateSession(r) ==
  /\ request[r].pc = "login" /\ HasUnused(session)
  /\ session' = [session EXCEPT ![Unused(session)] =
       [state |-> "live", password |-> request[r].password,
        late |-> IF request[r].password = password THEN "no" ELSE "yes"]]
  /\ End(r)
  /\ UNCHANGED <<role, password, reset, code, link>>

Logout(s) ==
  /\ session[s].state = "live"
  /\ session' = [session EXCEPT ![s] = [state |-> "revoked", password |-> 0, late |-> "no"]]
  /\ UNCHANGED <<role, password, reset, code, link, request>>

-----------------------------------------------------------------------------
(* requestPasswordResetOtp: the codes before it are closed, a code is made   *)
(* and sent.                                                                 *)
RequestCode(r) ==
  /\ request[r].pc = "idle"
  /\ code' = CodesClosed(Unconsumed)
  /\ Go(r, "createCode", "none", 0)
  /\ UNCHANGED <<role, password, reset, session, link>>

CreateCode(r) ==
  /\ request[r].pc = "createCode" /\ HasUnused(code)
  /\ LET c == Unused(code)
     IN  /\ code' = [code EXCEPT ![c] = [state |-> "pending", password |-> password, uses |-> 0]]
         /\ Go(r, "sendCode", c, 0)
  /\ UNCHANGED <<role, password, reset, session, link>>

(* Sent or not; a staff code that was not delivered is closed.               *)
SendCode(r) ==
  /\ request[r].pc = "sendCode"
  /\ LET c == request[r].row
     IN  \/ code' = IF c \in Unconsumed THEN [code EXCEPT ![c].state = "sent"] ELSE code
         \/ role = "STAFF" /\ code' = CodesClosed({c})
         \/ role = "CUSTOMER" /\ c \in Unconsumed /\ code' = [code EXCEPT ![c].state = "failed"]
  /\ End(r)
  /\ UNCHANGED <<role, password, reset, session, link>>

(* A code can be handed in while it is unconsumed; staff's only when its     *)
(* delivery has been written down.                                           *)
Usable(c) == c \in Unconsumed /\ (role = "STAFF" => code[c].state = "sent")

(* resetPasswordWithOtp: the row is read, the code compared.                 *)
SubmitCode(r) ==
  /\ request[r].pc = "idle"
  /\ \E c \in Codes : Usable(c) /\ Go(r, "resetByCode", c, 0)
  /\ UNCHANGED <<role, password, reset, tables>>

(* A wrong code is counted; the last try closes it.                          *)
WrongCode(r) ==
  /\ request[r].pc = "resetByCode"
  /\ code' \in {code, CodesClosed({request[r].row})}
  /\ End(r)
  /\ UNCHANGED <<role, password, reset, session, link>>

(* RecoveredOnce needs the code to be looked at again.                       *)
AsItWasRead(c) == TRUE
StillUsable(c) == Usable(c)

(* The transaction.  Staff's is given up when the code is no longer usable;  *)
(* the customer's is not conditional, and a login follows it.                *)
ResetByCode(r) ==
  LET c == request[r].row
  IN  /\ request[r].pc = "resetByCode"
      /\ role = "STAFF" => StillUsable(c)
      /\ password < MaxPasswords /\ password' = password + 1
      /\ session' = SessionsRevoked("none")
      /\ code' = [CodesClosed(ClosedByReset(c)) EXCEPT ![c].uses = @ + 1]
      /\ IF role = "STAFF"
         THEN reset' = password' /\ link' = LinksRevoked /\ End(r)
         ELSE UNCHANGED <<reset, link>> /\ Go(r, "reread", "none", 0)
      /\ UNCHANGED role

-----------------------------------------------------------------------------
(* requestPasswordReset: one transaction revokes the links before it and     *)
(* makes one, which is mailed.                                               *)
RequestLink(r) ==
  /\ role = "STAFF" /\ request[r].pc = "idle" /\ HasUnused(link)
  /\ LET t == Unused(link)
     IN  /\ link' = [LinksRevoked EXCEPT ![t] = [state |-> "open", password |-> password, uses |-> 0]]
         /\ Go(r, "mailLink", t, 0)
  /\ UNCHANGED <<role, password, reset, session, code>>

MailLink(r) ==
  /\ request[r].pc = "mailLink"
  /\ LET t == request[r].row
     IN  \/ UNCHANGED link
         \/ link[t].state = "open" /\ link' = [link EXCEPT ![t].state = "revoked", ![t].password = 0]
  /\ End(r)
  /\ UNCHANGED <<role, password, reset, session, code>>

SubmitLink(r) ==
  /\ request[r].pc = "idle"
  /\ \E t \in Links : link[t].state = "open" /\ Go(r, "resetByLink", t, 0)
  /\ UNCHANGED <<role, password, reset, tables>>

ResetByLink(r) ==
  LET t == request[r].row
  IN  /\ request[r].pc = "resetByLink" /\ link[t].state = "open"
      /\ password < MaxPasswords /\ password' = password + 1
      /\ session' = SessionsRevoked("none")
      /\ link' = [LinksRevoked EXCEPT ![t].state = "used", ![t].uses = link[t].uses + 1]
      /\ End(r)
      /\ UNCHANGED <<role, reset, code>>

(* changePassword: by a session, whose access token may outlive its          *)
(* revocation, with the current password.                                    *)
BeginChange(r) ==
  /\ role = "STAFF" /\ request[r].pc = "idle"
  /\ \E s \in Sessions : session[s].state # "none" /\ Go(r, "change", s, 0)
  /\ UNCHANGED <<role, password, reset, tables>>

ChangePassword(r) ==
  /\ request[r].pc = "change"
  /\ password < MaxPasswords /\ password' = password + 1
  /\ session' = SessionsRevoked(request[r].row)
  /\ link' = LinksRevoked
  /\ End(r)
  /\ UNCHANGED <<role, reset, code>>

-----------------------------------------------------------------------------
(* expiresAt passes: the row is as good as closed.                           *)
CodeExpires(c) ==
  /\ c \in Unconsumed
  /\ code' = CodesClosed({c})
  /\ UNCHANGED <<role, password, reset, session, link, request>>

LinkExpires(t) ==
  /\ link[t].state = "open"
  /\ link' = [link EXCEPT ![t].state = "revoked", ![t].password = 0]
  /\ UNCHANGED <<role, password, reset, session, code, request>>

(* The statement fails, the request is refused (a transaction of staff whose *)
(* code or link is no longer usable among them), or the backend stops.       *)
Abort(r) ==
  /\ request[r].pc # "idle"
  /\ End(r)
  /\ UNCHANGED <<role, password, reset, tables>>

Init ==
  /\ role \in {"STAFF", "CUSTOMER"}
  /\ password = 0 /\ reset = 0
  /\ session = [s \in Sessions |-> [state |-> "none", password |-> 0, late |-> "no"]]
  /\ code = [c \in Codes |-> [state |-> "none", password |-> 0, uses |-> 0]]
  /\ link = [t \in Links |-> [state |-> "none", password |-> 0, uses |-> 0]]
  /\ request = [r \in Requests |-> Idle]

Next ==
  \/ \E r \in Requests :
       \/ Login(r) \/ CreateSession(r)
       \/ RequestCode(r) \/ CreateCode(r) \/ SendCode(r)
       \/ SubmitCode(r) \/ WrongCode(r) \/ ResetByCode(r)
       \/ RequestLink(r) \/ MailLink(r) \/ SubmitLink(r) \/ ResetByLink(r)
       \/ BeginChange(r) \/ ChangePassword(r) \/ Abort(r)
  \/ \E s \in Sessions : Logout(s)
  \/ \E c \in Codes : CodeExpires(c)
  \/ \E t \in Links : LinkExpires(t)

Spec == Init /\ [][Next]_vars

-----------------------------------------------------------------------------
TypeOK ==
  /\ role \in {"STAFF", "CUSTOMER"} /\ password \in Passwords /\ reset \in Passwords
  /\ session \in [Sessions -> Session]
  /\ code \in [Codes -> Code] /\ link \in [Links -> Link]
  /\ request \in [Requests -> Request]

(* Handing in one code or one link twice at the same moment changes the      *)
(* password of a member of staff once.                                       *)
RecoveredOnce ==
  role = "STAFF" =>
    (\A c \in Codes : code[c].uses <= 1) /\ (\A t \in Links : link[t].uses <= 1)

(* After a change nothing from before it is of use: no link mailed under an  *)
(* earlier password, however it was changed; after a reset with a code no    *)
(* other code, one that is being sent at that moment included; and no        *)
(* session, except that of a login that had compared the password before the *)
(* change and created its session after it.                                  *)
LinksEnd == \A t \in Links : link[t].state = "open" => link[t].password = password
CodesEnd == role = "STAFF" => \A c \in Codes : Usable(c) => code[c].password >= reset
SessionsEnd ==
  \A s \in Sessions :
    session[s].state = "live" /\ session[s].late = "no" => session[s].password = password
ChangeEndsTheRest == LinksEnd /\ CodesEnd /\ SessionsEnd
=============================================================================
