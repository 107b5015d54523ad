-------------------------- MODULE ZaloDispatchProofs --------------------------
(***************************************************************************)
(* Proofs about the senders of Zalo messages, for any number of invoices,  *)
(* runs and other senders, any batch size and any customers without a      *)
(* phone number.                                                           *)
(***************************************************************************)
EXTENDS MCZaloDispatch, SequenceTheorems, FiniteSetTheorems, TLAPS

AllMessages == InvoiceIds \X Templates

(* The tables; and the senders, of whom those at work have a message to      *)
(* attempt.                                                                  *)
TablesInv ==
  /\ status \in [InvoiceIds -> InvoiceStatus]
  /\ log \in [AllMessages -> LogRow]
  /\ delivered \in [AllMessages -> 0..2]
SendersInv ==
  /\ queue \in [Senders -> Seq(AllMessages)]
  /\ send \in [Senders -> Send]
  /\ running \in {"no", "yes"}
  /\ \A s \in Senders : send[s].pc = "idle" <=> queue[s] = <<>>

(* Between Zalo's answer and the row that logs it.                           *)
AnsweredInv ==
  \A s \in Senders : send[s].pc = "log_sent" => delivered[Message(s)] > 0

ZaloInv == TablesInv /\ SendersInv /\ AnsweredInv /\ SentMeansDelivered

-----------------------------------------------------------------------------
(* What a run loads is a sequence of messages.                               *)
LEMMA BatchIsSequence ==
  ASSUME NEW S \in SUBSET InvoiceIds, NEW t \in Templates, NEW b \in Batch(S, t)
  PROVE  b \in Seq(AllMessages)
<1>1. IsFiniteSet(S) /\ Cardinality(S) \in Nat
  <2>1. IsFiniteSet(1..MaxInvoice)
    BY FS_Interval, ZaloDispatchAssumption
  <2>2. IsFiniteSet(S)
    BY <2>1, FS_Subset DEF InvoiceIds
  <2>3. QED
    BY <2>2, FS_CardinalityType
<1>2. PICK n \in Nat : b \in [1..n -> S \X {t}]
  BY <1>1, ZaloDispatchAssumption DEF Batch
<1>3. b \in [1..n -> AllMessages]
  BY <1>2 DEF AllMessages
<1>4. QED
  BY <1>3, SeqDef

LEMMA LoadedIsSequence ==
  ASSUME NEW near \in SUBSET InvoiceIds,
         NEW announced \in Batch(ToAnnounce, "INVOICE"),
         NEW reminded \in Batch(ToRemind(near), "REMINDER"),
         NEW confirmed \in Batch(ToConfirm, "PAID")
  PROVE  announced \o reminded \o confirmed \in Seq(AllMessages)
<1>1. /\ ToAnnounce \in SUBSET InvoiceIds /\ ToRemind(near) \in SUBSET InvoiceIds
      /\ ToConfirm \in SUBSET InvoiceIds
  BY DEF ToAnnounce, ToRemind, ToConfirm
<1>2. /\ announced \in Seq(AllMessages) /\ reminded \in Seq(AllMessages)
      /\ confirmed \in Seq(AllMessages)
  BY <1>1, BatchIsSequence DEF Templates
<1>3. QED
  BY <1>2, ConcatProperties

(* The message of a sender that is at work.                                  *)
LEMMA MessageAtWork ==
  ASSUME SendersInv, NEW s \in Senders, send[s].pc # "idle"
  PROVE  /\ Message(s) \in AllMessages /\ Tail(queue[s]) \in Seq(AllMessages)
         /\ Message(s)[1] \in InvoiceIds /\ Message(s)[2] \in Templates
         /\ Message(s) = <<Message(s)[1], Message(s)[2]>>
<1>1. queue[s] \in Seq(AllMessages) /\ queue[s] # <<>>
  BY DEF SendersInv
<1>2. Message(s) \in AllMessages /\ Tail(queue[s]) \in Seq(AllMessages)
  BY <1>1, HeadTailProperties DEF Message
<1>3. QED
  BY <1>2 DEF AllMessages

(* An attempt that is over.                                                  *)
LEMMA FinishStep ==
  ASSUME SendersInv, NEW s \in Senders, send[s].pc # "idle", Finish(s)
  PROVE  /\ SendersInv'
         /\ send'[s].pc \in {"idle", "next"}
         /\ \A x \in Senders \ {s} : send'[x] = send[x] /\ queue'[x] = queue[x]
<1> DEFINE rest == Tail(queue[s])
           after == IF rest = <<>> THEN Idle ELSE [Idle EXCEPT !.pc = "next"]
<1>1. /\ queue \in [Senders -> Seq(AllMessages)] /\ send \in [Senders -> Send]
      /\ running \in {"no", "yes"} /\ rest \in Seq(AllMessages)
  BY MessageAtWork DEF SendersInv
<1>2. /\ after \in Send /\ after.pc \in {"idle", "next"}
      /\ after.pc = "idle" <=> rest = <<>>
  BY DEF Idle, Send, InvoiceStatus
<1>3. /\ queue' = [queue EXCEPT ![s] = rest] /\ send' = [send EXCEPT ![s] = after]
      /\ running' \in {"no", "yes"}
  BY <1>1 DEF Finish
<1> HIDE DEF rest, after
<1>4. /\ queue'[s] = rest /\ send'[s] = after
      /\ \A x \in Senders \ {s} : send'[x] = send[x] /\ queue'[x] = queue[x]
  BY <1>1, <1>3
<1>5. queue' \in [Senders -> Seq(AllMessages)] /\ send' \in [Senders -> Send]
  BY <1>1, <1>2, <1>3
<1>6. \A x \in Senders : send'[x].pc = "idle" <=> queue'[x] = <<>>
  BY <1>2, <1>4 DEF SendersInv
<1>7. QED
  BY <1>2, <1>3, <1>4, <1>5, <1>6 DEF SendersInv

(* An attempt that goes on.                                                  *)
LEMMA GoOnStep ==
  ASSUME SendersInv, NEW s \in Senders, send[s].pc # "idle",
         NEW next \in Send, next.pc # "idle",
         send' = [send EXCEPT ![s] = next], queue' = queue, running' = running
  PROVE  /\ SendersInv' /\ send'[s] = next
         /\ \A x \in Senders \ {s} : send'[x] = send[x]
BY DEF SendersInv

LEMMA PcStep ==
  ASSUME SendersInv, NEW s \in Senders, send[s].pc # "idle",
         NEW pc \in {"next", "read", "check", "http", "log_sent", "log_failed"},
         Step(s, pc), queue' = queue, running' = running
  PROVE  /\ SendersInv' /\ send'[s].pc = pc /\ send'[s].read = send[s].read
         /\ \A x \in Senders \ {s} : send'[x] = send[x]
<1>1. PICK next : next = [send[s] EXCEPT !.pc = pc]
  OBVIOUS
<1>2. send[s] \in Send
  BY DEF SendersInv
<1>3. next \in Send /\ next.pc = pc /\ next.read = send[s].read
  BY <1>1, <1>2 DEF Send
<1>4. send' = [send EXCEPT ![s] = next]
  BY <1>1 DEF Step
<1>5. QED
  BY <1>3, <1>4, GoOnStep

(* A message that arrives.                                                   *)
LEMMA DeliverStep ==
  ASSUME TablesInv, NEW m \in AllMessages, Deliver(m)
  PROVE  /\ delivered' \in [AllMessages -> 0..2] /\ delivered'[m] > 0
         /\ \A n \in AllMessages : delivered[n] > 0 => delivered'[n] > 0
         /\ \A n \in AllMessages \ {m} : delivered'[n] = delivered[n]
<1>1. PICK count : count = IF delivered[m] = 0 \/ m[2] = "REMINDER" THEN 1 ELSE 2
  OBVIOUS
<1>2. delivered' = [delivered EXCEPT ![m] = count] /\ count \in 1..2
  BY <1>1 DEF Deliver
<1>3. delivered \in [AllMessages -> 0..2]
  BY DEF TablesInv
<1>4. QED
  BY <1>2, <1>3

(* A row that logs an answer: SENT stays SENT.                               *)
LEMMA LogStep ==
  ASSUME TablesInv, SendersInv, NEW s \in Senders, WriteLog(s)
  PROVE  /\ log' \in [AllMessages -> LogRow]
         /\ log'[Message(s)].latest # "none"
         /\ log'[Message(s)].sent =
              IF send[s].pc = "log_sent" THEN "yes" ELSE log[Message(s)].sent
         /\ \A n \in AllMessages \ {Message(s)} : log'[n] = log[n]
<1>1. send[s].pc # "idle"
  BY DEF WriteLog
<1>2. PICK m \in AllMessages : m = Message(s)
  BY <1>1, MessageAtWork
<1>3. PICK new : new = IF send[s].pc = "log_sent"
                       THEN [sent |-> "yes", latest |-> "sent", recent |-> "yes"]
                       ELSE [log[m] EXCEPT !.latest = "failed", !.recent = "yes"]
  OBVIOUS
<1>4. log' = [log EXCEPT ![m] = new]
  BY <1>2, <1>3 DEF WriteLog
<1>5. log[m] \in LogRow /\ log \in [AllMessages -> LogRow]
  BY DEF TablesInv
<1>6. /\ new \in LogRow /\ new.latest # "none"
      /\ new.sent = IF send[s].pc = "log_sent" THEN "yes" ELSE log[m].sent
  BY <1>3, <1>5 DEF LogRow
<1>7. log' \in [AllMessages -> LogRow] /\ log'[m] = new
      /\ \A n \in AllMessages \ {m} : log'[n] = log[n]
  BY <1>4, <1>5, <1>6
<1>8. QED
  BY <1>2, <1>6, <1>7

-----------------------------------------------------------------------------
(* The senders' own steps.                                                   *)
LEMMA LoadSenders ==
  ASSUME SendersInv, NEW r \in Runs, NEW near \in SUBSET InvoiceIds, Load(r, near)
  PROVE  /\ SendersInv' /\ running = "no" /\ running' = "yes"
         /\ send[r].pc = "idle" /\ send'[r].pc = "next"
         /\ \A x \in Senders \ {r} : send'[x] = send[x] /\ queue'[x] = queue[x]
<1>1. PICK messages \in Seq(AllMessages) : queue' = [queue EXCEPT ![r] = messages]
  <2>1. PICK announced \in Batch(ToAnnounce, "INVOICE"),
             reminded \in Batch(ToRemind(near), "REMINDER"),
             confirmed \in Batch(ToConfirm, "PAID") :
               queue' = [queue EXCEPT ![r] = announced \o reminded \o confirmed]
    BY DEF Load
  <2>2. QED
    BY <2>1, LoadedIsSequence
<1>2. r \in Senders /\ send[r] = Idle /\ send[r] \in Send
  BY DEF Load, MayRun, Senders, SendersInv
<1>3. PICK next : next = [send[r] EXCEPT !.pc = "next"]
  OBVIOUS
<1>4. next \in Send /\ next.pc = "next"
  BY <1>2, <1>3 DEF Send
<1>5. send' = [send EXCEPT ![r] = next] /\ queue'[r] # <<>>
  BY <1>3 DEF Load, Step
<1>6. /\ queue'[r] = messages /\ send'[r] = next
      /\ \A x \in Senders \ {r} : send'[x] = send[x] /\ queue'[x] = queue[x]
      /\ queue' \in [Senders -> Seq(AllMessages)] /\ send' \in [Senders -> Send]
  BY <1>1, <1>2, <1>4, <1>5 DEF SendersInv
<1>7. \A x \in Senders : send'[x].pc = "idle" <=> queue'[x] = <<>>
  BY <1>4, <1>5, <1>6 DEF SendersInv
<1>8. running = "no" /\ running' = "yes" /\ send[r].pc = "idle"
  BY <1>2 DEF Load, MayRun, Idle
<1>9. QED
  BY <1>4, <1>6, <1>7, <1>8 DEF SendersInv

LEMMA SendOneSenders ==
  ASSUME SendersInv, NEW s \in OtherSenders, NEW i \in InvoiceIds, NEW t \in Templates,
         SendOne(s, i, t)
  PROVE  /\ SendersInv' /\ send'[s].pc = "read"
         /\ \A x \in Senders \ {s} : send'[x] = send[x] /\ queue'[x] = queue[x]
<1>1. s \in Senders /\ send[s] \in Send
  BY DEF Senders, SendersInv
<1>2. PICK next : next = [send[s] EXCEPT !.pc = "read"]
  OBVIOUS
<1>3. next \in Send /\ next.pc = "read"
  BY <1>1, <1>2 DEF Send
<1>4. PICK one : one = <<<<i, t>>>>
  OBVIOUS
<1>5. one \in Seq(AllMessages) /\ one # <<>>
  BY <1>4 DEF AllMessages
<1>6. send' = [send EXCEPT ![s] = next] /\ queue' = [queue EXCEPT ![s] = one] /\ running' = running
  BY <1>2, <1>4 DEF SendOne, Step
<1>7. /\ queue'[s] = one /\ send'[s] = next
      /\ \A x \in Senders \ {s} : send'[x] = send[x] /\ queue'[x] = queue[x]
      /\ queue' \in [Senders -> Seq(AllMessages)] /\ send' \in [Senders -> Send]
  BY <1>1, <1>3, <1>5, <1>6 DEF SendersInv
<1>8. \A x \in Senders : send'[x].pc = "idle" <=> queue'[x] = <<>>
  BY <1>3, <1>5, <1>7 DEF SendersInv
<1>9. QED
  BY <1>3, <1>6, <1>7, <1>8 DEF SendersInv

LEMMA RunFailsSenders ==
  ASSUME SendersInv, NEW r \in Runs, RunFails(r)
  PROVE  /\ SendersInv' /\ send'[r].pc = "idle"
         /\ \A x \in Senders \ {r} : send'[x] = send[x] /\ queue'[x] = queue[x]
<1>1. r \in Senders /\ Idle \in Send /\ Idle.pc = "idle" /\ <<>> \in Seq(AllMessages)
  BY DEF Senders, Idle, Send, InvoiceStatus
<1>2. /\ queue'[r] = <<>> /\ send'[r] = Idle /\ running' = "no"
      /\ \A x \in Senders \ {r} : send'[x] = send[x] /\ queue'[x] = queue[x]
      /\ queue' \in [Senders -> Seq(AllMessages)] /\ send' \in [Senders -> Send]
  BY <1>1 DEF RunFails, SendersInv
<1>3. QED
  BY <1>1, <1>2 DEF SendersInv

LEMMA CrashSenders ==
  ASSUME Crash
  PROVE  SendersInv' /\ \A x \in Senders : send'[x].pc = "idle"
<1>1. Idle \in Send /\ Idle.pc = "idle" /\ <<>> \in Seq(AllMessages)
  BY DEF Idle, Send, InvoiceStatus
<1>2. QED
  BY <1>1 DEF Crash, SendersInv

(* A sender that proceeds leaves the others alone, and the tables as well    *)
(* but for the message it is about.                                          *)
LEMMA ProceedSenders ==
  ASSUME TablesInv, SendersInv, NEW s \in Senders, Proceed(s) \/ AnswerLost(s)
  PROVE  /\ SendersInv' /\ send[s].pc # "idle" /\ status' = status
         /\ \A x \in Senders \ {s} : send'[x] = send[x] /\ queue'[x] = queue[x]
<1>1. CASE Attempt(s)
  <2>1. CASE Finish(s)
    BY <1>1, <2>1, FinishStep DEF Attempt
  <2>2. CASE ~Finish(s)
    BY <1>1, <2>2, PcStep DEF Attempt
  <2>3. QED
    BY <2>1, <2>2
<1>2. CASE Read(s)
  <2>1. PICK next : next = [pc |-> "check", read |-> status[Message(s)[1]]]
    OBVIOUS
  <2>2. send[s].pc # "idle" /\ send' = [send EXCEPT ![s] = next] /\ queue' = queue
        /\ running' = running /\ status' = status
    BY <1>2, <2>1 DEF Read
  <2>3. next \in Send /\ next.pc # "idle"
    BY <2>1, <2>2, MessageAtWork DEF TablesInv, Send
  <2>4. QED
    BY <2>2, <2>3, GoOnStep
<1>3. CASE Check(s)
  <2>1. CASE Finish(s)
    BY <1>3, <2>1, FinishStep DEF Check
  <2>2. CASE ~Finish(s)
    BY <1>3, <2>2, PcStep DEF Check
  <2>3. QED
    BY <2>1, <2>2
<1>4. CASE Accepted(s)
  BY <1>4, PcStep DEF Accepted
<1>5. CASE Refused(s)
  BY <1>5, PcStep DEF Refused
<1>6. CASE Unreachable(s)
  BY <1>6, FinishStep DEF Unreachable
<1>7. CASE AnswerLost(s)
  BY <1>7, FinishStep DEF AnswerLost
<1>8. CASE WriteLog(s)
  BY <1>8, FinishStep DEF WriteLog
<1>9. QED
  BY <1>1, <1>2, <1>3, <1>4, <1>5, <1>6, <1>7, <1>8 DEF Proceed

(* Whose logging a row is waiting for, and whether it is right.              *)
LEMMA ProceedStep ==
  ASSUME ZaloInv, NEW s \in Senders, Proceed(s) \/ AnswerLost(s)
  PROVE  ZaloInv'
<1>1. /\ SendersInv' /\ send[s].pc # "idle" /\ status' = status
      /\ \A x \in Senders \ {s} : send'[x] = send[x] /\ queue'[x] = queue[x]
  BY ProceedSenders DEF ZaloInv
<1>2. Message(s) \in AllMessages
  BY <1>1, MessageAtWork DEF ZaloInv
<1>3. \A x \in Senders \ {s} : Message(x)' = Message(x)
  BY <1>1 DEF Message
(* Three kinds of step. *)
<1>4. ASSUME UNCHANGED <<log, delivered>>, send'[s].pc # "log_sent"
      PROVE  ZaloInv'
  BY <1>1, <1>3, <1>4 DEF ZaloInv, TablesInv, AnsweredInv, SentMeansDelivered, AllMessages
<1>5. ASSUME log' = log, Deliver(Message(s)), queue'[s] = queue[s] \/ send'[s].pc # "log_sent"
      PROVE  ZaloInv'
  <2>1. /\ delivered' \in [AllMessages -> 0..2] /\ delivered'[Message(s)] > 0
        /\ \A n \in AllMessages : delivered[n] > 0 => delivered'[n] > 0
    BY <1>2, <1>5, DeliverStep DEF ZaloInv
  <2>2. TablesInv' /\ SentMeansDelivered'
    BY <1>1, <1>5, <2>1 DEF ZaloInv, TablesInv, SentMeansDelivered, AllMessages
  <2>3. ASSUME NEW x \in Senders, send'[x].pc = "log_sent" PROVE delivered'[Message(x)'] > 0
    <3>1. CASE x = s
      BY <1>5, <2>1, <2>3, <3>1 DEF Message
    <3>2. CASE x # s
      <4>1. send[x].pc = "log_sent" /\ Message(x)' = Message(x)
        BY <1>1, <1>3, <2>3, <3>2
      <4>2. Message(x) \in AllMessages /\ delivered[Message(x)] > 0
        BY <4>1, MessageAtWork DEF ZaloInv, AnsweredInv
      <4>3. QED
        BY <2>1, <4>1, <4>2
    <3>3. QED
      BY <3>1, <3>2
  <2>4. QED
    BY <1>1, <2>2, <2>3 DEF ZaloInv, AnsweredInv
<1>6. ASSUME WriteLog(s)
      PROVE  ZaloInv'
  <2>1. /\ log' \in [AllMessages -> LogRow] /\ delivered' = delivered
        /\ log'[Message(s)].sent = IF send[s].pc = "log_sent" THEN "yes" ELSE log[Message(s)].sent
        /\ \A n \in AllMessages \ {Message(s)} : log'[n] = log[n]
    <3>1. delivered' = delivered
      BY <1>6 DEF WriteLog
    <3>2. QED
      BY <1>6, <3>1, LogStep DEF ZaloInv
  <2>2. send[s].pc = "log_sent" => delivered[Message(s)] > 0
    BY DEF ZaloInv, AnsweredInv
  <2>3. SentMeansDelivered'
    <3>1. ASSUME NEW m \in AllMessages, log'[m].sent = "yes" PROVE delivered'[m] > 0
      BY <1>2, <2>1, <2>2, <3>1 DEF ZaloInv, SentMeansDelivered, AllMessages
    <3>2. QED
      BY <3>1 DEF SentMeansDelivered, AllMessages
  <2>4. send'[s].pc # "log_sent"
    <3>1. Finish(s)
      BY <1>6 DEF WriteLog
    <3>2. QED
      BY <1>1, <3>1, FinishStep DEF ZaloInv
  <2>5. QED
    BY <1>1, <1>3, <2>1, <2>3, <2>4 DEF ZaloInv, TablesInv, AnsweredInv
<1>7. ASSUME Finish(s) PROVE send'[s].pc # "log_sent"
  BY <1>1, <1>7, FinishStep DEF ZaloInv
<1>8. ASSUME NEW pc \in {"next", "read", "check", "http", "log_sent", "log_failed"}, Step(s, pc)
      PROVE  send'[s].pc = pc
  <2>1. send \in [Senders -> Send]
    BY DEF ZaloInv, SendersInv
  <2>2. QED
    BY <1>8, <2>1 DEF Step, Send
<1>9. CASE Attempt(s)
  BY <1>4, <1>7, <1>8, <1>9 DEF Attempt
<1>10. CASE Read(s)
  BY <1>4, <1>10 DEF Read, ZaloInv, SendersInv
<1>11. CASE Check(s)
  BY <1>4, <1>7, <1>8, <1>11 DEF Check
<1>12. CASE Accepted(s)
  BY <1>5, <1>12 DEF Accepted
<1>13. CASE Refused(s)
  BY <1>4, <1>8, <1>13 DEF Refused
<1>14. CASE Unreachable(s)
  BY <1>4, <1>7, <1>14 DEF Unreachable
<1>15. CASE AnswerLost(s)
  BY <1>5, <1>7, <1>15 DEF AnswerLost
<1>16. QED
  BY <1>6, <1>9, <1>10, <1>11, <1>12, <1>13, <1>14, <1>15 DEF Proceed

-----------------------------------------------------------------------------
LEMMA ZaloInvInit == Init => ZaloInv
<1> SUFFICES ASSUME Init PROVE ZaloInv
  OBVIOUS
<1>1. Idle \in Send /\ Idle.pc = "idle" /\ <<>> \in Seq(AllMessages) /\ NoLog \in LogRow
      /\ NoLog.sent = "no"
  BY DEF Idle, Send, InvoiceStatus, NoLog, LogRow
<1>2. SendersInv
  BY <1>1 DEF Init, SendersInv
<1>3. TablesInv
  BY <1>1 DEF Init, TablesInv, AllMessages, InvoiceStatus
<1>4. AnsweredInv /\ SentMeansDelivered
  BY <1>1 DEF Init, AnsweredInv, SentMeansDelivered
<1>5. QED
  BY <1>2, <1>3, <1>4 DEF ZaloInv

LEMMA ZaloInvStep == ZaloInv /\ [Next]_vars => ZaloInv'
<1> SUFFICES ASSUME ZaloInv, [Next]_vars PROVE ZaloInv'
  OBVIOUS
(* The tables stay, and nobody gets to log_sent.                             *)
<1>1. ASSUME SendersInv', TablesInv', UNCHANGED <<log, delivered>>,
             \A x \in Senders : \/ send'[x].pc # "log_sent"
                                \/ send'[x] = send[x] /\ queue'[x] = queue[x]
      PROVE  ZaloInv'
  <2>1. SentMeansDelivered' /\ AnsweredInv'
    BY <1>1 DEF ZaloInv, SentMeansDelivered, AnsweredInv, Message
  <2>2. QED
    BY <1>1, <2>1 DEF ZaloInv
<1>2. ASSUME NEW r \in Runs, NEW near \in SUBSET InvoiceIds, Load(r, near) PROVE ZaloInv'
  <2>1. UNCHANGED <<status, log, delivered>>
    BY <1>2 DEF Load
  <2>2. QED
    BY <1>1, <1>2, <2>1, LoadSenders DEF ZaloInv, TablesInv
<1>3. ASSUME NEW r \in Runs, RunFails(r) PROVE ZaloInv'
  <2>1. UNCHANGED <<status, log, delivered>>
    BY <1>3 DEF RunFails
  <2>2. QED
    BY <1>1, <1>3, <2>1, RunFailsSenders DEF ZaloInv, TablesInv
<1>4. ASSUME NEW s \in OtherSenders, NEW i \in InvoiceIds, NEW t \in Templates, SendOne(s, i, t)
      PROVE  ZaloInv'
  <2>1. UNCHANGED <<status, log, delivered>>
    BY <1>4 DEF SendOne
  <2>2. QED
    BY <1>1, <1>4, <2>1, SendOneSenders DEF ZaloInv, TablesInv
<1>5. CASE Crash
  <2>1. UNCHANGED <<status, log, delivered>>
    BY <1>5 DEF Crash
  <2>2. QED
    BY <1>1, <1>5, <2>1, CrashSenders DEF ZaloInv, TablesInv
<1>6. ASSUME NEW m \in InvoiceIds \X Templates, CooldownPasses(m) PROVE ZaloInv'
  <2>1. PICK new : new = [log[m] EXCEPT !.recent = "no"]
    OBVIOUS
  <2>2. log' = [log EXCEPT ![m] = new] /\ UNCHANGED <<status, delivered, running, queue, send>>
    BY <1>6, <2>1 DEF CooldownPasses
  <2>3. m \in AllMessages /\ log \in [AllMessages -> LogRow] /\ log[m] \in LogRow
    BY DEF ZaloInv, TablesInv, AllMessages
  <2>4. new \in LogRow /\ new.sent = log[m].sent
    BY <2>1, <2>3 DEF LogRow
  <2>5. log' \in [AllMessages -> LogRow] /\ \A n \in AllMessages : log'[n].sent = log[n].sent
    BY <2>2, <2>3, <2>4
  <2>6. QED
    BY <2>2, <2>5 DEF ZaloInv, TablesInv, SendersInv, AnsweredInv, SentMeansDelivered, AllMessages,
                      Message
<1>7. ASSUME NEW i \in InvoiceIds, InvoiceMoves(i) PROVE ZaloInv'
  <2>1. UNCHANGED <<log, delivered, running, queue, send>>
    BY <1>7 DEF InvoiceMoves
  <2>2. status' \in [InvoiceIds -> InvoiceStatus]
    BY <1>7 DEF InvoiceMoves, ZaloInv, TablesInv, InvoiceStatus, Unpaid
  <2>3. QED
    BY <2>1, <2>2 DEF ZaloInv, TablesInv, SendersInv, AnsweredInv, SentMeansDelivered, Message
<1>8. CASE UNCHANGED vars
  BY <1>8 DEF vars, ZaloInv, TablesInv, SendersInv, AnsweredInv, SentMeansDelivered, Message
<1>9. QED
  BY <1>2, <1>3, <1>4, <1>5, <1>6, <1>7, <1>8, ProceedStep DEF Next

(* The tables, queues and attempts keep their types.                         *)
THEOREM TypeCorrect == Spec => []TypeOK
<1>1. ZaloInv => TypeOK
  BY DEF ZaloInv, TablesInv, SendersInv, AllMessages, TypeOK
<1>2. QED
  BY <1>1, ZaloInvInit, ZaloInvStep, PTL DEF Spec

(* A row that says SENT stands for a message that arrived: runs, staff and   *)
(* the finalize job interleave, answers get lost and the backend restarts,   *)
(* and the log never claims a delivery that deduplication would then rely    *)
(* on.                                                                       *)
THEOREM SentWasDelivered == Spec => []SentMeansDelivered
<1>1. ZaloInv => SentMeansDelivered
  BY DEF ZaloInv
<1>2. QED
  BY <1>1, ZaloInvInit, ZaloInvStep, PTL DEF Spec

-----------------------------------------------------------------------------
(* Runs alone (RunsSpec): nobody sends by hand, and every answer is logged.  *)

(* One run at a time is at work.                                             *)
OneRun ==
  \A r \in Runs :
    send[r].pc # "idle" => running = "yes" /\ \A x \in Runs \ {r} : send[x].pc = "idle"

(* What was delivered once and for all is logged, or is about to be.         *)
DeliveredIsLogged ==
  \A m \in AllMessages :
    m[2] # "REMINDER" /\ delivered[m] > 0 =>
      log[m].sent = "yes" \/ \E r \in Runs : send[r].pc = "log_sent" /\ Message(r) = m

UntriedIsOld == \A m \in AllMessages : log[m].latest = "none" => log[m].recent = "no"

(* What a run is about to send is due, from its reading of the log on.       *)
AttemptIsDue ==
  \A r \in Runs :
    /\ send[r].pc \in {"read", "check", "http"} /\ Message(r)[2] = "REMINDER" =>
         log[Message(r)].recent = "no"
    /\ send[r].pc = "http" /\ Message(r)[2] # "REMINDER" => log[Message(r)].sent = "no"

RunsInv == OneRun /\ DeliveredIsLogged /\ UntriedIsOld /\ AttemptIsDue

LEMMA RunsInvInit == Init => RunsInv
<1> SUFFICES ASSUME Init PROVE RunsInv
  OBVIOUS
<1>1. Idle.pc = "idle" /\ NoLog.recent = "no"
  BY DEF Idle, NoLog
<1>2. /\ \A r \in Runs : send[r].pc = "idle"
      /\ \A m \in AllMessages : delivered[m] = 0 /\ log[m].recent = "no"
  BY <1>1 DEF Init, AllMessages, Senders
<1>3. QED
  BY <1>2 DEF RunsInv, OneRun, DeliveredIsLogged, UntriedIsOld, AttemptIsDue

(* The step of one run, while the others rest, by where it gets.             *)
LEMMA RunStep ==
  ASSUME ZaloInv, RunsInv, NEW r \in Runs, Proceed(r)
  PROVE  RunsInv'
<1>1. /\ r \in Senders /\ send[r].pc # "idle" /\ running = "yes"
      /\ SendersInv' /\ status' = status
      /\ \A x \in Runs \ {r} : send'[x].pc = "idle" /\ send[x].pc = "idle"
  BY ProceedSenders DEF ZaloInv, RunsInv, OneRun, Senders
<1>2. PICK m \in AllMessages : m = Message(r)
  BY <1>1, MessageAtWork DEF ZaloInv
<1>3. m = <<m[1], m[2]>> /\ m[2] \in Templates /\ log[m] \in LogRow /\ delivered[m] \in 0..2
      /\ send[r] \in Send
  BY <1>1, <1>2, MessageAtWork DEF ZaloInv, TablesInv, SendersInv
<1>4. ASSUME NEW pc \in {"next", "read", "check", "http", "log_sent", "log_failed"}, Step(r, pc)
      PROVE  send'[r].pc = pc
  BY <1>1, <1>4 DEF Step, Send, ZaloInv, SendersInv
<1>5. ASSUME Finish(r)
      PROVE  send'[r].pc \in {"idle", "next"} /\ OneRun'
  <2>1. send'[r].pc \in {"idle", "next"} /\ (send'[r].pc = "idle" \/ running' = running)
    <3>1. send'[r] = IF Tail(queue[r]) = <<>> THEN Idle ELSE [Idle EXCEPT !.pc = "next"]
      BY <1>1, <1>5 DEF Finish, ZaloInv, SendersInv
    <3>2. QED
      BY <1>5, <3>1 DEF Finish, Idle
  <2>2. QED
    BY <1>1, <2>1 DEF OneRun
<1>6. ASSUME running' = running
      PROVE  OneRun'
  BY <1>1, <1>6 DEF OneRun
(* The log and the deliveries stay.                                          *)
<1>7. ASSUME UNCHANGED <<log, delivered>>, send[r].pc # "log_sent"
      PROVE  DeliveredIsLogged' /\ UntriedIsOld'
  BY <1>1, <1>7 DEF RunsInv, DeliveredIsLogged, UntriedIsOld
<1>8. ASSUME OneRun', DeliveredIsLogged', UntriedIsOld',
             send'[r].pc \notin {"read", "check", "http"}
      PROVE  RunsInv'
  BY <1>1, <1>8 DEF RunsInv, AttemptIsDue
<1>9. ASSUME OneRun', DeliveredIsLogged', UntriedIsOld', UNCHANGED <<log, queue>>,
             m[2] = "REMINDER" => log[m].recent = "no",
             send'[r].pc = "http" /\ m[2] # "REMINDER" => log[m].sent = "no"
      PROVE  RunsInv'
  BY <1>1, <1>2, <1>9 DEF RunsInv, AttemptIsDue, Message
<1>10. CASE Attempt(r)
  <2>1. UNCHANGED <<log, delivered>> /\ send[r].pc = "next"
    BY <1>10 DEF Attempt
  <2>2. CASE Finish(r)
    BY <1>5, <1>7, <1>8, <2>1, <2>2
  <2>3. CASE ~Finish(r)
    <3>1. ShouldAttempt(m[1], m[2]) /\ Step(r, "read") /\ UNCHANGED <<queue, running>>
      BY <1>2, <1>10, <2>3 DEF Attempt
    <3>2. send'[r].pc = "read"
      BY <1>4, <3>1
    <3>3. m[2] = "REMINDER" => log[m].recent = "no"
      BY <1>3, <3>1 DEF ShouldAttempt, RunsInv, UntriedIsOld
    <3>4. QED
      BY <1>6, <1>7, <1>9, <2>1, <3>1, <3>2, <3>3
  <2>4. QED
    BY <2>2, <2>3
<1>11. CASE Read(r)
  <2>1. UNCHANGED <<log, delivered, running, queue>> /\ send[r].pc = "read"
    BY <1>11 DEF Read
  <2>2. send'[r].pc = "check"
    BY <1>1, <1>11 DEF Read, ZaloInv, SendersInv
  <2>3. m[2] = "REMINDER" => log[m].recent = "no"
    BY <1>2, <2>1 DEF RunsInv, AttemptIsDue
  <2>4. QED
    BY <1>6, <1>7, <1>9, <2>1, <2>2, <2>3
<1>12. CASE Check(r)
  <2>1. UNCHANGED <<log, delivered>> /\ send[r].pc = "check"
    BY <1>12 DEF Check
  <2>2. CASE Finish(r)
    BY <1>5, <1>7, <1>8, <2>1, <2>2
  <2>3. CASE ~Finish(r)
    <3>1. ~AlreadySent(r) /\ UNCHANGED <<queue, running>>
      BY <1>12, <2>3 DEF Check
    <3>2. m[2] # "REMINDER" => log[m].sent = "no"
      BY <1>2, <1>3, <3>1 DEF AlreadySent, ByJob, LogRow
    <3>3. m[2] = "REMINDER" => log[m].recent = "no"
      BY <1>2, <2>1 DEF RunsInv, AttemptIsDue
    <3>4. QED
      BY <1>6, <1>7, <1>9, <2>1, <3>1, <3>2, <3>3
  <2>4. QED
    BY <2>2, <2>3
<1>13. CASE Accepted(r)
  <2>1. /\ UNCHANGED <<log, running, queue>> /\ Deliver(m) /\ Step(r, "log_sent")
        /\ send[r].pc = "http"
    BY <1>2, <1>13 DEF Accepted
  <2>2. send'[r].pc = "log_sent" /\ Message(r)' = m
    BY <1>2, <1>4, <2>1 DEF Message
  <2>3. \A n \in AllMessages \ {m} : delivered'[n] = delivered[n]
    BY <2>1, DeliverStep DEF ZaloInv
  <2>4. DeliveredIsLogged'
    <3>1. ASSUME NEW n \in AllMessages, n[2] # "REMINDER", delivered'[n] > 0
          PROVE  log'[n].sent = "yes" \/ \E x \in Runs : send'[x].pc = "log_sent" /\ Message(x)' = n
      <4>1. CASE n = m
        BY <2>2, <4>1
      <4>2. CASE n # m
        BY <1>1, <2>1, <2>3, <3>1, <4>2 DEF RunsInv, DeliveredIsLogged
      <4>3. QED
        BY <4>1, <4>2
    <3>2. QED
      BY <3>1 DEF DeliveredIsLogged
  <2>5. UntriedIsOld'
    BY <2>1 DEF RunsInv, UntriedIsOld
  <2>6. QED
    BY <1>6, <1>8, <2>1, <2>2, <2>4, <2>5
<1>14. CASE Refused(r)
  BY <1>4, <1>6, <1>7, <1>8, <1>14 DEF Refused
<1>15. CASE Unreachable(r)
  BY <1>5, <1>7, <1>8, <1>15 DEF Unreachable
<1>16. CASE WriteLog(r)
  <2>1. /\ send[r].pc \in {"log_sent", "log_failed"} /\ delivered' = delivered /\ Finish(r)
    BY <1>16 DEF WriteLog
  <2>2. /\ log'[m].latest # "none"
        /\ log'[m].sent = IF send[r].pc = "log_sent" THEN "yes" ELSE log[m].sent
        /\ \A n \in AllMessages \ {m} : log'[n] = log[n]
    BY <1>1, <1>2, <1>16, LogStep DEF ZaloInv
  <2>3. UntriedIsOld'
    BY <2>2 DEF RunsInv, UntriedIsOld
  <2>4. DeliveredIsLogged'
    <3>1. ASSUME NEW n \in AllMessages, n[2] # "REMINDER", delivered'[n] > 0
          PROVE  log'[n].sent = "yes"
      <4>1. log[n].sent = "yes" \/ (send[r].pc = "log_sent" /\ n = m)
        BY <1>1, <1>2, <2>1, <3>1 DEF RunsInv, DeliveredIsLogged
      <4>2. QED
        BY <2>2, <4>1
    <3>2. QED
      BY <3>1 DEF DeliveredIsLogged
  <2>5. QED
    BY <1>5, <1>8, <2>1, <2>3, <2>4
<1>17. QED
  BY <1>10, <1>11, <1>12, <1>13, <1>14, <1>15, <1>16 DEF Proceed

LEMMA RunsInvStep ==
  ASSUME ZaloInv, RunsInv, [RunsNext]_vars
  PROVE  RunsInv'
(* The log stays but for cooldowns, and runs rest or are where they were.    *)
<1>1. ASSUME OneRun', delivered' = delivered,
             \A m \in AllMessages :
               /\ log'[m].sent = log[m].sent /\ log'[m].latest = log[m].latest
               /\ log[m].recent = "no" => log'[m].recent = "no",
             \A x \in Runs : \/ send'[x].pc \in {"idle", "next"} /\ send[x].pc \in {"idle", "next"}
                             \/ send'[x] = send[x] /\ queue'[x] = queue[x]
      PROVE  RunsInv'
  <2>1. UntriedIsOld'
    BY <1>1 DEF RunsInv, UntriedIsOld
  <2>2. DeliveredIsLogged'
    BY <1>1 DEF RunsInv, DeliveredIsLogged, Message
  <2>3. ASSUME NEW x \in Runs, send'[x].pc \in {"read", "check", "http"}
        PROVE  /\ send[x].pc = send'[x].pc /\ Message(x)' = Message(x)
               /\ Message(x) \in AllMessages
    <3>1. send'[x] = send[x] /\ queue'[x] = queue[x]
      BY <1>1, <2>3
    <3>2. Message(x) \in AllMessages
      BY <2>3, <3>1, MessageAtWork DEF ZaloInv, Senders
    <3>3. QED
      BY <3>1, <3>2 DEF Message
  <2>4. AttemptIsDue'
    BY <1>1, <2>3 DEF RunsInv, AttemptIsDue
  <2>5. QED
    BY <1>1, <2>1, <2>2, <2>4 DEF RunsInv
<1>2. CASE UNCHANGED vars
  BY <1>1, <1>2 DEF vars, RunsInv, OneRun
<1>3. ASSUME NEW r \in Runs, NEW near \in SUBSET InvoiceIds, Load(r, near) PROVE RunsInv'
  <2>1. UNCHANGED <<status, log, delivered>>
    BY <1>3 DEF Load
  <2>2. /\ running = "no" /\ running' = "yes" /\ send[r].pc = "idle" /\ send'[r].pc = "next"
        /\ \A x \in Senders \ {r} : send'[x] = send[x] /\ queue'[x] = queue[x]
    BY <1>3, LoadSenders DEF ZaloInv
  <2>3. OneRun'
    BY <2>2 DEF RunsInv, OneRun, Senders
  <2>4. QED
    BY <1>1, <2>1, <2>2, <2>3 DEF Senders
<1>4. ASSUME NEW r \in Runs, RunFails(r) PROVE RunsInv'
  <2>1. UNCHANGED <<status, log, delivered>> /\ send[r].pc = "next"
    BY <1>4 DEF RunFails
  <2>2. /\ send'[r].pc = "idle"
        /\ \A x \in Senders \ {r} : send'[x] = send[x] /\ queue'[x] = queue[x]
    BY <1>4, RunFailsSenders DEF ZaloInv
  <2>3. OneRun'
    BY <2>1, <2>2 DEF RunsInv, OneRun, Senders
  <2>4. QED
    BY <1>1, <2>1, <2>2, <2>3 DEF Senders
<1>5. ASSUME NEW m \in InvoiceIds \X Templates, CooldownPasses(m) PROVE RunsInv'
  <2>1. PICK new : new = [log[m] EXCEPT !.recent = "no"]
    OBVIOUS
  <2>2. log' = [log EXCEPT ![m] = new] /\ UNCHANGED <<status, delivered, running, queue, send>>
    BY <1>5, <2>1 DEF CooldownPasses
  <2>3. m \in AllMessages /\ log \in [AllMessages -> LogRow] /\ log[m] \in LogRow
    BY DEF ZaloInv, TablesInv, AllMessages
  <2>4. new.sent = log[m].sent /\ new.latest = log[m].latest /\ new.recent = "no"
    BY <2>1, <2>3 DEF LogRow
  <2>5. \A n \in AllMessages :
          /\ log'[n].sent = log[n].sent /\ log'[n].latest = log[n].latest
          /\ log[n].recent = "no" => log'[n].recent = "no"
    BY <2>2, <2>3, <2>4
  <2>6. OneRun'
    BY <2>2 DEF RunsInv, OneRun
  <2>7. QED
    BY <1>1, <2>2, <2>5, <2>6
<1>6. ASSUME NEW i \in InvoiceIds, InvoiceMoves(i) PROVE RunsInv'
  <2>1. UNCHANGED <<log, delivered, running, queue, send>>
    BY <1>6 DEF InvoiceMoves
  <2>2. OneRun'
    BY <2>1 DEF RunsInv, OneRun
  <2>3. QED
    BY <1>1, <2>1, <2>2
<1>7. CASE RunsNext
  <2>1. OtherSenders = {} /\ ~Restarts /\ ~AnswersLost /\ Next
    BY <1>7 DEF RunsNext
  <2>2. Senders = Runs /\ ~Crash /\ \A s \in Senders : ~AnswerLost(s)
    BY <2>1 DEF Senders, Crash, AnswerLost
  <2>3. QED
    BY <1>3, <1>4, <1>5, <1>6, <2>1, <2>2, RunStep DEF Next
<1>8. QED
  BY <1>2, <1>7

(* Runs that are started, refused, repeated and overlap never send a         *)
(* customer a second INVOICE or PAID message, nor a reminder within the      *)
(* cooldown of the latest: at most one run is at work, and what it has read  *)
(* of the log holds until it has sent.                                       *)
THEOREM NothingIsRepeated == RunsSpec => RunsRepeatNothing
<1> DEFINE Repeats ==
      \A r \in Runs :
        send[r].pc = "http" /\ send'[r].pc = "log_sent" =>
          IF Message(r)[2] = "REMINDER" THEN log[Message(r)].recent = "no"
          ELSE delivered[Message(r)] = 0
<1>1. ZaloInv /\ RunsInv => Repeats
  <2> SUFFICES ASSUME ZaloInv, RunsInv, NEW r \in Runs, send[r].pc = "http",
                      Message(r)[2] # "REMINDER"
               PROVE  delivered[Message(r)] = 0
    BY DEF RunsInv, AttemptIsDue
  <2>1. r \in Senders /\ Message(r) \in AllMessages /\ delivered[Message(r)] \in 0..2
    BY MessageAtWork DEF ZaloInv, TablesInv, Senders
  <2>2. log[Message(r)].sent = "no" /\ \A x \in Runs : send[x].pc # "log_sent"
    BY DEF RunsInv, OneRun, AttemptIsDue
  <2>3. QED
    BY <2>1, <2>2 DEF RunsInv, DeliveredIsLogged
<1>2. [RunsNext]_vars => [Next]_vars
  BY DEF RunsNext
<1>3. ZaloInv /\ [RunsNext]_vars => ZaloInv'
  BY <1>2, ZaloInvStep
<1>4. ZaloInv /\ RunsInv /\ [RunsNext]_vars => RunsInv'
  BY RunsInvStep
<1>5. ZaloInv /\ RunsInv /\ [RunsNext]_vars => [Repeats]_vars
  BY <1>1
<1>6. QED
  BY <1>3, <1>4, <1>5, ZaloInvInit, RunsInvInit, PTL DEF RunsSpec, RunsRepeatNothing
=============================================================================
