---------------------------- MODULE SupportTickets ----------------------------
(***************************************************************************)
(* A support ticket between its customer and staff:                        *)
(* backend/src/support-tickets/support-tickets.service.ts.                 *)
(*                                                                         *)
(* A request loads the ticket, takes the time, writes its message and the  *)
(* ticket, without a transaction.  Whether a side has something unread is  *)
(* computed from the times in the ticket; the message rows, the assignee,  *)
(* closedAt and notifications, from which no step reads, are left out.  A  *)
(* time is the number of times taken by then, and 0 is null.               *)
(***************************************************************************)
EXTENDS Naturals

CONSTANTS
  Requests,     \* requests in flight together
  MaxTime       \* times taken, the creation's included; at least 1

VARIABLES
  ticket,      \* the row of SupportTicket
  request,     \* local state of every request
  now,         \* the latest time taken
  crossed,     \* requests that met another of those that can undo their writes
  heard        \* the sides whose latest word nobody has answered or looked at since

vars == <<ticket, request, now, crossed, heard>>

-----------------------------------------------------------------------------
Times == 0..MaxTime
Status == {"OPEN", "IN_PROGRESS", "RESOLVED", "CLOSED"}
Ticket ==
  [status : Status, lastCustomerMessageAt : Times, customerLastReadAt : Times,
   lastStaffMessageAt : Times, staffLastReadAt : Times]

OfCustomer == {"customer_reply", "customer_read"}
OfStaff == {"reply", "note", "status", "assign", "read"}
Words == {"customer_reply", "reply", "status"}     \* what the other side is to notice

Idle == [kind |-> "idle", at |-> 0, status |-> "OPEN", lastStaff |-> 0]
Request ==
  [kind : {"idle"} \cup OfCustomer \cup OfStaff, at : Times, status : Status, lastStaff : Times]

Side(kind) == IF kind \in OfCustomer THEN "customer" ELSE "staff"

(* The other side's requests touch what this one writes; a note puts back    *)
(* what it has loaded.                                                       *)
CanUndo(kind, other) ==
  kind # "idle" /\ other # "idle" /\ (Side(kind) # Side(other) \/ "note" \in {kind, other})

-----------------------------------------------------------------------------
(* requireTicket, and the time the request works with.  An internal note     *)
(* works with the loaded status and lastStaffMessageAt; status: the one that *)
(* updateStatus is asked for.                                                *)
Begin(r, kind, status) ==
  /\ request[r] = Idle /\ now < MaxTime
  /\ kind # "status" => status = ticket.status
  /\ request' =
       [request EXCEPT ![r] =
          [kind |-> kind, at |-> now + 1,
           status |-> IF kind \in {"status", "note"} THEN status ELSE "OPEN",
           lastStaff |-> IF kind = "note" THEN ticket.lastStaffMessageAt ELSE 0]]
  /\ now' = now + 1
  /\ LET met == {q \in Requests : CanUndo(kind, request[q].kind)} IN
     crossed' = (crossed \ {r}) \cup met \cup (IF met # {} THEN {r} ELSE {})
  /\ heard' = heard \cap {Side(kind)}
  /\ UNCHANGED ticket

NextStatusOfStaff(q) ==      \* faulty variant of NextStatus: customers do not reopen
  CASE q.kind = "reply" -> "IN_PROGRESS"
    [] q.kind \in {"note", "status"} -> q.status
    [] OTHER -> ticket.status

NextStatus(q) ==
  CASE q.kind = "customer_reply" -> "OPEN"
    [] q.kind = "reply" -> "IN_PROGRESS"
    [] q.kind \in {"note", "status"} -> q.status
    [] OTHER -> ticket.status

(* The update of the ticket, by reply, updateStatus, assign and markRead      *)
Written(q) ==
  [ticket EXCEPT
     !.status = NextStatus(q),
     !.lastCustomerMessageAt = IF q.kind = "customer_reply" THEN q.at ELSE @,
     !.customerLastReadAt = IF q.kind \in OfCustomer THEN q.at ELSE @,
     !.lastStaffMessageAt = IF q.kind \in {"reply", "status"} THEN q.at
                            ELSE IF q.kind = "note" THEN q.lastStaff ELSE @,
     !.staffLastReadAt = IF q.kind \in OfStaff THEN q.at ELSE @]

Write(r) ==
  /\ request[r] # Idle
  /\ ticket' = Written(request[r])
  /\ request' = [request EXCEPT ![r] = Idle]
  /\ LET side == Side(request[r].kind) IN
     heard' = IF r \in crossed THEN heard \ {side}
              ELSE IF request[r].kind \in Words THEN heard \cup {side} ELSE heard
  /\ UNCHANGED <<now, crossed>>

(* The message is written, or not, and the ticket is not.                     *)
Fails(r) ==
  /\ request[r] # Idle
  /\ request' = [request EXCEPT ![r] = Idle]
  /\ UNCHANGED <<ticket, now, crossed, heard>>

-----------------------------------------------------------------------------
(* create: the first message is the customer's. *)
Init ==
  /\ ticket = [status |-> "OPEN", lastCustomerMessageAt |-> 1, customerLastReadAt |-> 1,
               lastStaffMessageAt |-> 0, staffLastReadAt |-> 0]
  /\ request = [r \in Requests |-> Idle]
  /\ now = 1
  /\ crossed = {}
  /\ heard = {"customer"}

Next ==
  \E r \in Requests :
    \/ \E kind \in OfCustomer \cup OfStaff, status \in Status : Begin(r, kind, status)
    \/ Write(r)
    \/ Fails(r)

Spec == Init /\ [][Next]_vars

-----------------------------------------------------------------------------
(* getUnreadSummary *)
UnreadByStaff == ticket.lastCustomerMessageAt > ticket.staffLastReadAt
UnreadByCustomer == ticket.lastStaffMessageAt > ticket.customerLastReadAt

(* The row and the requests have their types. *)
TypeOK ==
  /\ ticket \in Ticket
  /\ request \in [Requests -> Request]
  /\ now \in 1..MaxTime
  /\ crossed \subseteq Requests
  /\ heard \subseteq {"customer", "staff"}

(* What one side has said last, the other side finds unread until it does    *)
(* something about the ticket, and what the customer has said reopens the    *)
(* ticket: whatever the speaker's own side does meanwhile and afterwards.    *)
(* Only a request that has met one of the other side's, or an internal note, *)
(* while it was at work can undo this: its times are old when it writes.     *)
NoWordIsMissed ==
  /\ "customer" \in heard => UnreadByStaff /\ ticket.status = "OPEN"
  /\ "staff" \in heard => UnreadByCustomer
=============================================================================
