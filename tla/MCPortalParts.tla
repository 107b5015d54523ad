---------------------------- MODULE MCPortalParts ----------------------------
(***************************************************************************)
(* Parts of the portal, checked side by side: two requests at the payment  *)
(* desk, the senders of Zalo messages, the access token they share, the    *)
(* writers of a month's energy, the plants of a Deye account, and a        *)
(* support ticket.  A behaviour is one of a single part, and the others    *)
(* rest; no fairness is assumed.                                           *)
(***************************************************************************)
EXTENDS Payments, TLC

CONSTANTS
  i1, c1, c2,                                                          \* Payments
  MaxInvoice, ExtraSenders,                                            \* ZaloDispatch
  Messages, MaxZaloToken,                                              \* ZaloToken
  Providers, Writers,                                                  \* MonthRecords
  Plants, Systems, SystemRequests, NoPlant, NoSystem,                  \* PlantBinding
  TicketRequests, MaxTime                                              \* SupportTickets

VARIABLES
  part,
  status, log, delivered, running, queue, send,
  settings, token, spent, message, edit, excused, lost,
  kind, row, bill, daily, work, since,
  system, device, systemRequest, moved, unsettled,
  ticket, ticketRequest, now, crossed, heard

zaloVars == <<status, log, delivered, running, queue, send>>
tokenVars == <<settings, token, spent, message, edit, excused, lost>>
monthVars == <<kind, row, bill, daily, work, since>>
plantVars == <<system, device, systemRequest, moved, unsettled>>
ticketVars == <<ticket, ticketRequest, now, crossed, heard>>
allVars == <<part, vars, zaloVars, tokenVars, monthVars, plantVars, ticketVars>>

MCOwner == [i \in Invoices |-> c1]

(* Taken with what is proved about it, for PortalPartsProofs to cite.        *)
Zalo ==
  INSTANCE ZaloDispatchProofs
    WITH NoPhone <- {}, BatchSize <- 1, Runs <- {"schedule"}, OtherSenders <- ExtraSenders,
         Finalizer <- "finalizer", Restarts <- TRUE, AnswersLost <- TRUE

Token ==
  INSTANCE ZaloToken
    WITH Sends <- Messages, MaxToken <- MaxZaloToken, row <- settings, send <- message

Month == INSTANCE MonthRecords WITH Kinds <- Providers, Workers <- Writers

Plant == INSTANCE PlantBinding WITH Requests <- SystemRequests, request <- systemRequest

Support == INSTANCE SupportTickets WITH Requests <- TicketRequests, request <- ticketRequest

(* A part that rests has one initial state.                                  *)
PartsInit ==
  /\ part \in {"desk", "zalo", "token", "month", "plant", "support"}
  /\ Init /\ Zalo!Init /\ Token!Init /\ Month!Init /\ Plant!Init /\ Support!Init
  /\ part # "desk" => \A i \in Invoices : invoice[i] = [status |-> "DRAFT", total |-> 1, paid |-> 0, month |-> 1]
  /\ part # "token" => settings.access = 1
  /\ part # "month" => kind = "SEMS"

PartsNext ==
  \/ /\ part = "desk" /\ Next
     /\ UNCHANGED <<part, zaloVars, tokenVars, monthVars, plantVars, ticketVars>>
  \/ /\ part = "zalo" /\ Zalo!Next
     /\ UNCHANGED <<part, vars, tokenVars, monthVars, plantVars, ticketVars>>
  \/ /\ part = "token" /\ Token!Next
     /\ UNCHANGED <<part, vars, zaloVars, monthVars, plantVars, ticketVars>>
  \/ /\ part = "month" /\ Month!Next
     /\ UNCHANGED <<part, vars, zaloVars, tokenVars, plantVars, ticketVars>>
  \/ /\ part = "plant" /\ Plant!Next
     /\ UNCHANGED <<part, vars, zaloVars, tokenVars, monthVars, ticketVars>>
  \/ /\ part = "support" /\ Support!Next
     /\ UNCHANGED <<part, vars, zaloVars, tokenVars, monthVars, plantVars>>

PartsSpec == PartsInit /\ [][PartsNext]_allVars

(* Rows and requests that are interchangeable.  Parts share the values of    *)
(* Procs and Receipts, since only one of them moves.                         *)
Symmetry == Permutations(Procs) \cup Permutations(Receipts)

-----------------------------------------------------------------------------
(* The types of the part that is not at rest.                                *)
TypesOK ==
  /\ part = "desk" => TypeOK
  /\ part = "zalo" => Zalo!TypeOK
  /\ part = "token" => Token!TypeOK
  /\ part = "month" => Month!TypeOK
  /\ part = "plant" => Plant!TypeOK
  /\ part = "support" => Support!TypeOK

SentMeansDelivered == Zalo!SentMeansDelivered

DeadTokensAreReplaced == Token!DeadTokensAreReplaced

HistoryKeepsManualMonths == Month!HistoryKeepsManualMonths

DevicesFollowPlant == Plant!DevicesFollowPlant

NoWordIsMissed == Support!NoWordIsMissed
=============================================================================
