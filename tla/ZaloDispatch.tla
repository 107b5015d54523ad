---------------------------- MODULE ZaloDispatch ----------------------------
(***************************************************************************)
(* Zalo messages about invoices: the automation                            *)
(* (backend/src/zalo-notifications/zalo-automation.service.ts), which runs *)
(* every 15 minutes or on request, the finalize job of                     *)
(* billing-lifecycle.service.ts, which announces the invoices it issues,   *)
(* and staff, who send by hand.  All of them end in                        *)
(* sendInvoiceNotification of zalo-notifications.service.ts.               *)
(*                                                                         *)
(* There is no outbox: whether a message may be sent is read from          *)
(* ZaloMessageLog, whose row is written after Zalo has answered.  Rows of  *)
(* dry runs are left out, since no live query reads them; a message to a   *)
(* customer without a phone number is logged as such a row.  The access    *)
(* token of Zalo and its refresh are part of whether Zalo accepts.         *)
(***************************************************************************)
EXTENDS Naturals, Sequences, FiniteSets

CONSTANTS
  MaxInvoice,     \* invoices are 1..MaxInvoice, in the order they are issued
  NoPhone,        \* invoices of customers without a phone number
  BatchSize,      \* ZALO_AUTOMATION_BATCH_SIZE
  Runs,           \* calls of the automation: the schedule, an administrator
  OtherSenders,   \* the finalize job and staff
  Finalizer,      \* the finalize job among them
  Restarts,       \* the backend can restart
  AnswersLost     \* a message can arrive although the send seems to have failed

ASSUME ZaloDispatchAssumption ==
  /\ MaxInvoice \in Nat \ {0} /\ BatchSize \in Nat \ {0}
  /\ NoPhone \subseteq 1..MaxInvoice
  /\ Runs \cap OtherSenders = {}

VARIABLES
  status,      \* status[i]: status of invoice i
  log,         \* log[i, t]: what the live rows of ZaloMessageLog say
  delivered,   \* delivered[i, t]: messages the customer got: 2 for more than one,
               \* 1 for any number of reminders
  running,     \* the flag of the automation
  queue,       \* queue[s]: messages that sender s still has to attempt
  send         \* send[s]: the attempt that sender s is in

vars == <<status, log, delivered, running, queue, send>>

-----------------------------------------------------------------------------
InvoiceIds == 1..MaxInvoice
Templates == {"INVOICE", "REMINDER", "PAID"}
Senders == Runs \cup OtherSenders
Unpaid == {"ISSUED", "PARTIAL", "OVERDUE"}
InvoiceStatus == {"DRAFT", "PAID"} \cup Unpaid

(* sent: a row says SENT; latest: what the latest row says; recent: it is    *)
(* younger than the cooldown.                                                *)
LogRow == [sent : {"no", "yes"}, latest : {"none", "sent", "failed"}, recent : {"no", "yes"}]
NoLog == [sent |-> "no", latest |-> "none", recent |-> "no"]

Idle == [pc |-> "idle", read |-> "DRAFT"]
Send == [pc : {"idle", "next", "read", "check", "http", "log_sent", "log_failed"}, read : InvoiceStatus]

Message(s) == Head(queue[s])
Step(s, pc) == send' = [send EXCEPT ![s].pc = pc]

(* The attempt is over; the automation goes on with its queue and clears the *)
(* flag behind the last one.                                                 *)
Finish(s) ==
  LET rest == Tail(queue[s]) IN
  /\ queue' = [queue EXCEPT ![s] = rest]
  /\ send' = [send EXCEPT ![s] = IF rest = <<>> THEN Idle ELSE [Idle EXCEPT !.pc = "next"]]
  /\ running' = IF s \in Runs /\ rest = <<>> THEN "no" ELSE running

-----------------------------------------------------------------------------
(* run: unless a run is under way, load what there is to send. *)

OneTime(i, t) == log[<<i, t>>].sent = "no" /\ log[<<i, t>>].recent = "no"

ToAnnounce == {i \in InvoiceIds : status[i] = "ISSUED" /\ OneTime(i, "INVOICE")}
ToConfirm == {i \in InvoiceIds : status[i] = "PAID" /\ OneTime(i, "PAID")}
(* near: the invoices whose due date is close enough by now *)
ToRemind(near) ==
  {i \in near : status[i] \in Unpaid /\ log[<<i, "REMINDER">>].recent = "no"}

(* take: batchSize, the oldest first (paid invoices: by the time of payment, *)
(* taken to be the same order): older than the n-th are those before it.     *)
Batch(S, t) ==
  LET size == IF Cardinality(S) > BatchSize THEN BatchSize ELSE Cardinality(S)
  IN {b \in [1..size -> S \X {t}] :
        \A n \in 1..size : \A i \in S : i < b[n][1] <=> \E k \in 1..(n - 1) : b[k][1] = i}

NotRunning(r) == send[r] = Idle      \* faulty variant of MayRun
MayRun(r) == running = "no" /\ send[r] = Idle

Load(r, near) ==
  /\ MayRun(r)
  /\ running' = "yes"
  /\ \E announced \in Batch(ToAnnounce, "INVOICE"), reminded \in Batch(ToRemind(near), "REMINDER"),
        confirmed \in Batch(ToConfirm, "PAID") :
       queue' = [queue EXCEPT ![r] = announced \o reminded \o confirmed]
  /\ queue'[r] # <<>>
  /\ Step(r, "next")
  /\ UNCHANGED <<status, log, delivered>>

AttemptOnce(i, t) == log[<<i, t>>].latest = "none"      \* faulty variant of ShouldAttempt

(* shouldAttempt *)
ShouldAttempt(i, t) ==
  \/ log[<<i, t>>].latest = "none"
  \/ /\ t # "REMINDER" => log[<<i, t>>].latest # "sent"
     /\ log[<<i, t>>].recent = "no"

Attempt(r) ==
  /\ r \in Runs /\ send[r].pc = "next"
  /\ IF ShouldAttempt(Message(r)[1], Message(r)[2])
     THEN Step(r, "read") /\ UNCHANGED <<queue, running>>
     ELSE Finish(r)
  /\ UNCHANGED <<status, log, delivered>>

(* The query of shouldAttempt fails, which ends the run; failures inside a   *)
(* send are caught and end only that message.                                *)
RunFails(r) ==
  /\ r \in Runs /\ send[r].pc = "next"
  /\ running' = "no"
  /\ queue' = [queue EXCEPT ![r] = <<>>]
  /\ send' = [send EXCEPT ![r] = Idle]
  /\ UNCHANGED <<status, log, delivered>>

-----------------------------------------------------------------------------
(* sendInvoiceNotification *)

Read(s) ==
  /\ send[s].pc = "read"
  /\ send' = [send EXCEPT ![s] = [pc |-> "check", read |-> status[Message(s)[1]]]]
  /\ UNCHANGED <<status, log, delivered, running, queue>>

ByJob(s) == s \in Runs \cup {Finalizer}

(* skipIfAlreadySent: asked for by the automation and by the finalize job,   *)
(* not for reminders.                                                        *)
AlreadySent(s) ==
  ByJob(s) /\ Message(s)[2] # "REMINDER" /\ log[Message(s)].sent = "yes"

(* MISSING_PHONE: the message is BLOCKED, in a row that counts as dry.  Staff *)
(* can give a number.                                                        *)
MissingPhone(s) == ByJob(s) /\ Message(s)[1] \in NoPhone

Check(s) ==
  /\ send[s].pc = "check"
  /\ IF AlreadySent(s) \/ MissingPhone(s)
     THEN Finish(s)
     ELSE Step(s, "http") /\ UNCHANGED <<queue, running>>
  /\ UNCHANGED <<status, log, delivered>>

Deliver(m) ==
  delivered' = [delivered EXCEPT ![m] = IF @ = 0 \/ m[2] = "REMINDER" THEN 1 ELSE 2]

Accepted(s) ==
  /\ send[s].pc = "http"
  /\ Deliver(Message(s))
  /\ Step(s, "log_sent")
  /\ UNCHANGED <<status, log, running, queue>>

Refused(s) ==
  /\ send[s].pc = "http"
  /\ Step(s, "log_failed")
  /\ UNCHANGED <<status, log, delivered, running, queue>>

(* fetch throws: nothing is logged, the next run tries again. *)
Unreachable(s) ==
  /\ send[s].pc = "http"
  /\ Finish(s)
  /\ UNCHANGED <<status, log, delivered>>

(* The connection breaks, or a write fails, when Zalo has the message. *)
AnswerLost(s) ==
  /\ AnswersLost
  /\ send[s].pc = "http"
  /\ Deliver(Message(s))
  /\ Finish(s)
  /\ UNCHANGED <<status, log>>

(* Faulty variants of WriteLog: whatever Zalo said, the row says SENT; the   *)
(* row holds another word than the queries look for.                         *)
WriteLogSent(s) ==
  /\ send[s].pc \in {"log_sent", "log_failed"}
  /\ log' = [log EXCEPT ![Message(s)] = [sent |-> "yes", latest |-> "sent", recent |-> "yes"]]
  /\ Finish(s)
  /\ UNCHANGED <<status, delivered>>

WriteLogRaw(s) ==
  /\ send[s].pc \in {"log_sent", "log_failed"}
  /\ log' = [log EXCEPT ![Message(s)].latest = send[s].pc, ![Message(s)].recent = "yes"]
  /\ Finish(s)
  /\ UNCHANGED <<status, delivered>>

WriteLog(s) ==
  /\ send[s].pc \in {"log_sent", "log_failed"}
  /\ log' = [log EXCEPT ![Message(s)] =
               IF send[s].pc = "log_sent" THEN [sent |-> "yes", latest |-> "sent", recent |-> "yes"]
               ELSE [@ EXCEPT !.latest = "failed", !.recent = "yes"]]
  /\ Finish(s)
  /\ UNCHANGED <<status, delivered>>

-----------------------------------------------------------------------------
(* The finalize job announces an invoice that it found issued; staff send    *)
(* any message.                                                              *)
SendOne(s, i, t) ==
  /\ s \in OtherSenders /\ send[s] = Idle
  /\ s = Finalizer => t = "INVOICE" /\ status[i] = "ISSUED"
  /\ queue' = [queue EXCEPT ![s] = <<<<i, t>>>>]
  /\ Step(s, "read")
  /\ UNCHANGED <<status, log, delivered, running>>

(* A restart: the flag and the queues were in memory. *)
Crash ==
  /\ Restarts
  /\ running' = "no"
  /\ queue' = [s \in Senders |-> <<>>]
  /\ send' = [s \in Senders |-> Idle]
  /\ UNCHANGED <<status, log, delivered>>

CooldownPasses(m) ==
  /\ log[m].recent = "yes"
  /\ log' = [log EXCEPT ![m].recent = "no"]
  /\ UNCHANGED <<status, delivered, running, queue, send>>

(* Invoices are issued, paid in parts and become overdue elsewhere. *)
InvoiceMoves(i) ==
  /\ \/ /\ status[i] = "DRAFT" /\ \A j \in 1..(i - 1) : status[j] # "DRAFT"
        /\ status' = [status EXCEPT ![i] = "ISSUED"]
     \/ /\ status[i] \in Unpaid
        /\ \E next \in {"PARTIAL", "OVERDUE", "PAID"} : status' = [status EXCEPT ![i] = next]
  /\ UNCHANGED <<log, delivered, running, queue, send>>

-----------------------------------------------------------------------------
Init ==
  /\ status = [i \in InvoiceIds |-> "DRAFT"]
  /\ log = [m \in InvoiceIds \X Templates |-> NoLog]
  /\ delivered = [m \in InvoiceIds \X Templates |-> 0]
  /\ running = "no"
  /\ queue = [s \in Senders |-> <<>>]
  /\ send = [s \in Senders |-> Idle]

Proceed(s) ==
  Attempt(s) \/ Read(s) \/ Check(s) \/ Accepted(s) \/ Refused(s) \/ Unreachable(s)
    \/ WriteLog(s)

Next ==
  \/ \E r \in Runs, near \in SUBSET InvoiceIds : Load(r, near)
  \/ \E s \in Senders : Proceed(s) \/ AnswerLost(s)
  \/ \E r \in Runs : RunFails(r)
  \/ \E s \in OtherSenders, i \in InvoiceIds, t \in Templates : SendOne(s, i, t)
  \/ Crash
  \/ \E m \in InvoiceIds \X Templates : CooldownPasses(m)
  \/ \E i \in InvoiceIds : InvoiceMoves(i)

Spec == Init /\ [][Next]_vars

Attempts(r, m) == queue[r] # <<>> /\ Message(r) = m /\ Attempt(r)
Accepts(s, m) == queue[s] # <<>> /\ Message(s) = m /\ Accepted(s)

(* The cron starts a run again and again and every await comes back; time    *)
(* passes; the database does not fail at, and Zalo does not refuse, the same *)
(* announcement for ever.                                                    *)
Fairness ==
  /\ \A r \in Runs : WF_vars(\E near \in SUBSET InvoiceIds : Load(r, near))
  /\ \A s \in Senders : WF_vars(Proceed(s))
  /\ \A m \in InvoiceIds \X {"INVOICE"} :
       /\ WF_vars(CooldownPasses(m))
       /\ SF_vars(\E r \in Runs : Attempts(r, m))
       /\ SF_vars(\E s \in Senders : Accepts(s, m))

-----------------------------------------------------------------------------
(* Properties *)

TypeOK ==
  /\ status \in [InvoiceIds -> InvoiceStatus]
  /\ log \in [InvoiceIds \X Templates -> LogRow]
  /\ delivered \in [InvoiceIds \X Templates -> 0..2]
  /\ running \in {"no", "yes"}
  /\ queue \in [Senders -> Seq(InvoiceIds \X Templates)]
  /\ send \in [Senders -> Send]

(* What customers got from the automation they do not get again, however     *)
(* often runs are started, refused, repeated and overlap: no second INVOICE  *)
(* or PAID message, and no reminder within the cooldown of the latest, also  *)
(* when the list to remind is from before that one.                          *)
RunsRepeatNothing ==
  [][\A r \in Runs :
       send[r].pc = "http" /\ send'[r].pc = "log_sent" =>
         IF Message(r)[2] = "REMINDER" THEN log[Message(r)].recent = "no"
         ELSE delivered[Message(r)] = 0]_vars

(* A row that says SENT stands for a message that arrived: what the          *)
(* deduplication relies on is true, in every order of answers and restarts.  *)
SentMeansDelivered ==
  \A m \in InvoiceIds \X Templates : log[m].sent = "yes" => delivered[m] > 0

(* Customers are asked for money only for invoices that were still unpaid    *)
(* when the message was put together.  Read does not look, so an invoice     *)
(* that is paid after Load is still asked for.                               *)
AskOnlyWhatIsOwed ==
  \A r \in Runs :
    send[r].pc = "http" /\ Message(r)[2] \in {"INVOICE", "REMINDER"} => send[r].read # "PAID"

(* An issued invoice is announced, unless it moves on before: the automation *)
(* gets to every customer it can reach, and a run that fails half-way does   *)
(* not keep those after it from starting.                                    *)
EveryInvoiceAnnounced ==
  \A i \in InvoiceIds \ NoPhone :
    status[i] = "ISSUED" ~> delivered[i, "INVOICE"] > 0 \/ status[i] # "ISSUED"
=============================================================================
