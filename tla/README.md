# Moka Solar: a TLA+ model of the billing platform

This directory models the parts of the Moka Solar platform that decide about
money, energy data, access to providers, messages and sessions, checks them
with TLC, and proves the most important results with TLAPS. All paths below are
relative to the repository; `backend/src/` is left out of file names where it is
clear.

## 1. The system

The backend is a NestJS application over PostgreSQL (Prisma). It reads energy
data of solar plants from provider portals (SOLARMAN, LuxPower, Deye, SEMS+),
turns a month of energy into a billing record and an invoice, takes receipts
for payments and reviews them, and sends messages through Zalo. There is no
queue and no outbox, and billing uses no database transaction: a request or a
scheduled job is a chain of statements joined by `await`, and everything else
can happen between two of them. The transactions there are (the review of a
receipt, the refresh of a SOLARMAN token, the repair of months, the reset of a
password, the import of a plant) are mostly entered with data read before them.
PM2 (`ecosystem.config.js`) runs one backend process; the SOLARMAN token code is
written for several workers and is modelled with several.

### Components

| component | state | operations | talks to | what makes it correct |
|---|---|---|---|---|
| Payment desk (`payments`) | `Payment`, `Invoice.paidAmount/status` | mock payment, submit receipt, review receipt | invoices, files, notifications | status agrees with money; one receipt waits and fits; decided once; acknowledged money stays |
| Monthly billing (`monthly-pv-billings`) | `MonthlyPvBilling`, draft invoices | sync, update, remove, refresh of the lifecycle, generateInvoice | energy records, invoices, contracts | one invoice per month, only closed months, invoice shows the record, manual override holds, an invoice being paid is left alone |
| Invoices (`invoices`) | `Invoice` | create, update, remove, overdue sweep | payments, billing | as above |
| Billing lifecycle (`billing-lifecycle`) | none of its own | cron jobs: refresh, finalize, retry, mark errors | billing, Zalo | a failure never undoes what has been issued |
| Energy records of a month (`monitor-sync`, `operational-data`, provider modules) | `MonthlyEnergyRecord`, `EnergyRecord` | history sync, aggregate of the days, closing job, entry by hand or file | billing | what staff entered is not written over; a sync can be repeated |
| Meter readings (`operational-data`, `portal-automation`) | readings in `MonthlyEnergyRecord`, `isRunning` flag | entry, recalculation on listing and by the hourly job | | readings continue from month to month, and settle |
| Month repair (`data-repair`) | none of its own | plan, apply in one transaction | energy, billing, invoices | locked invoices and manual data stand; nothing half repaired |
| Monitor sync (`monitor-sync`) | scheduling columns of `SolarSystem`, two flags | queue pass, sync with time-out, closing job | all providers | back-off kept, nobody starves, RUNNING is resolved |
| SOLARMAN tokens (`solarman-connections`) | row `SolarmanConnection`, per-worker cache, advisory lock | get session, refresh, retry after rejection, authorize, edit | SOLARMAN over HTTP | a rotating refresh token is used once and not lost; the lock comes back |
| LuxPower, SEMS+ and Deye sessions | caches in memory, Deye's row | login, retry after a rejection, edit of the connection, test | provider HTTP APIs | no data is fetched with another account's session; a dead session costs one login |
| Provider discovery (`systems/provider-discovery`, `deye-station-sync`) | `SolarSystem` bindings, `Device` | list plants, import, link, sync, bind another plant, create, remove | providers, monitor sync | a plant is bound to one system, its devices follow |
| Zalo dispatch (`zalo-notifications`) | `ZaloMessageLog`, `running` flag | automation run, send, log | Zalo over HTTP, lifecycle jobs | one announcement, spaced reminders, everyone reachable is told |
| Zalo token (`zalo-notifications`, `zalo-settings`) | row of tokens in the settings | renewal, second attempt, marks, edit | Zalo over HTTP | a dead access token is replaced; the refresh token is not lost |
| Support tickets (`support-tickets`) | tickets, times of last messages and readings | create, reply, note, status, assign, read | notifications, realtime events | what one side says is unread for the other until it acts |
| Password recovery (`auth`) | users, sessions, one-time codes, mailed links | login, logout, reset by code and by link, change | mail, Zalo | a code works once; a change ends codes, links and sessions |
| Browser session (`frontend`) | entry of the storage, one refresh per tab, live stream | call, refresh, retry, stream, logout, login | API | calls end; a dead session is left |
| Users, customers, contracts, packages, web content | one row each | CRUD | | permissions |
| Reports, AI, notifications, audit log | append-only or derived | reads, appends | | not part of any decision modelled here |
| Web pages, deployment | none | | API | |

### Where it is hard

* *Stale reads.* Reviewing a receipt, submitting one, recalculating a month or a
  chain of readings, planning a repair, replying to a ticket and editing a
  connection all judge a row in one statement and write it several awaits later.
* *Half-done chains.* A draft invoice is created and then linked; an invoice is
  issued and then its record updated; a message is delivered and then logged; a
  plant is bound and then its devices are moved. A stop in between leaves the
  first half.
* *Several actors on the same rows.* Administrators, the finalize job, the
  overdue sweep (which runs on every reading of the invoice list), customers
  and the repair tool write invoices; two senders announce the same invoice and
  renew the same token; five writers with two different unique keys write the
  row of a month.
* *Providers.* A token rotates when it is used; an answer can be lost; a session
  dies between two requests of one call; a sync that was given up keeps running
  and writes later.
* *Liveness.* In-memory flags (`running`, `queueRunning`, `closingRunning`,
  `isRunning`) must come back, a batch must not be filled by the same hopeless
  entries, a provider that never answers must not hold up the others, a browser
  must not refresh and be rejected for ever.

`PROJECT.json` lists every hazard at its line with the properties that cover it.

## 2. Modules

| module | models | abstract data |
|---|---|---|
| `InvoiceTable` | rows of `Invoice` as payments and billing share them, status sets, overdue sweep | money is 0..MaxTotal, months 1..MaxMonth |
| `Payments` | `payments.service.ts`, statement by statement | proof files, notices, audit rows |
| `ReceiptLedger` | abstract specification: what a customer and a reviewer believe the desk does | no requests, no snapshots, no statuses |
| `MonthlyBilling` | `monthly-pv-billings.service.ts`: sync, update, remove, refreshes, `syncLinkedInvoice`, `generateInvoice`; `markPeriodError` of the lifecycle | a kWh costs one unit of money |
| `MonthBook` | abstract specification: what billing promises to a customer | no records, jobs, drafts or keys; one account for each month |
| `MonthRecords` | the writers of a month's energy: history syncs, aggregate, closing job, entry by hand | no kWh, only whose they are |
| `MeterReadings` | the chain of readings and its recalculation | one system, readings are small numbers |
| `MonthRepair` | the repair tool against the platform | one month of one system |
| `MonitorSync` | the queue, due times, time-outs, strays, closing job | a time is null, due, later / long ago, recent |
| `SolarmanToken` | the token service, the lock, the retry, edits and authorizations | tokens are numbers in order of issue |
| `ProviderSessions` | logins and retries at SEMS+, LuxPower and Deye | what the requests fetch |
| `PlantBinding` | import, link, syncs and binding of Deye plants, creation and removal of systems | a plant has one device |
| `ZaloDispatch` | automation, finalize job and staff down to the log rows | texts, templates, access token |
| `ZaloToken` | the access token that `ZaloDispatch` leaves out | tokens are numbers in order of issue |
| `SupportTickets` | requests about one ticket | a time is the number of times taken |
| `PasswordRecovery` | one user's password, sessions, codes and links | a password is the number of changes |
| `BrowserSession` | the session in the browser's storage, calls, refresh, live stream | a call is any request |
| `...Proofs` of `MonthlyBilling`, `SolarmanToken`, `ProviderSessions`, `MeterReadings`, `ZaloDispatch` | theorems and their lemmas | |
| `SafetyPartsProofs`, `PortalPartsProofs`, `LivenessPartsProofs` | theorems about the compositions, with the proofs of the parts that have no proof module of their own (among them `PasswordRecovery` in the first and `Payments` in the second) | |
| `MCPayments`, `MCMonthlyBilling`, `MCSolarmanToken`, `MCZaloDispatch` | instances for TLC: symmetry and constant functions | |
| `MCSafetyParts`, `MCPortalParts`, `MCLivenessParts` | several parts in one run | see below |

### How the modules meet

`Payments` and `MonthlyBilling` extend `InvoiceTable`; each has the other's
effect on an invoice as an action of its own (`PaymentLands`, the statuses in
which `Payments` finds invoices). `MonthRecords` ends where `MonthlyBilling`
begins: its `BillMonth`, `BillDays` and `BillEntry` are calls of
`MonthlyBilling`'s sync. `MonthRepair` repeats in `Platform` what billing does
to one month. `MonitorSync` calls what `ProviderSessions`, `PlantBinding` and
`MonthRecords` describe from inside.

The three `Parts` modules put components that share no rows into one run. A
behaviour there is one of a single part: the variable `part` names it, and the
others keep their initial state. So such a run checks several specifications,
and its states are the sum of theirs, not the product. Nothing is
claimed in them about two parts together. Parts share model values, so that one
permutation of them is a symmetry of several parts.

### Conventions

* One action is one database statement, one `$transaction`, or one HTTP answer.
  Between two awaits Node.js runs a handler alone, so nothing finer is needed.
  A Prisma read with `include` is one statement.
* What a handler has read is in its local record (`request`, `job`, `call`,
  `send`, `tool`, `run`), with a field `pc` for the await it stands at.
  Decisions use these snapshots where the code does, and the tables where the
  code reads them.
* `Abort` (`Crash`, `Restart`, `Quit`, `Fails`, `Stop`) is a failing await or a
  restart: what has been written stays, the local record is gone. A guard that
  throws ends the handler: there `Payments` uses `Abort`, `MonthlyBilling` has
  `Refused`, so that its runs without failures (`JobsFail = FALSE`) still leave
  the guards.
* Two-valued columns are the strings "yes"/"no" where theorems are proved.
* A definition called "faulty variant of D" is a plausible bug of D. It is not
  used by any specification: `PROJECT.json` pairs it with D and the property
  that finds it, and it shows what the property is able to notice.
* History variables (`since`, `moved`, `unsettled`, `crossed`, `excused`,
  `disturbed`, `settled`) record who met whom. They guard nothing; properties
  use them to except exactly the overlaps that the code does not handle.

### Payments

`invoice` and `payment` are the tables. `createMockPayment` is `MockRead`,
`MockCreate`, `MockUpdate`: three statements with no transaction.
`submitManualPayment` is `SubmitRead` (invoice, owner, outstanding amount),
`SubmitCheck` (look for a waiting receipt; judge the amount by the older
reading), `SubmitCreate`. `reviewManualPayment` is `ReviewRead`, then the
transaction `ReviewAccept` or `ReviewReject`, which repeats no check.
`RefreshOverdue` takes any set of ISSUED and PARTIAL invoices as late, since due
dates lie anywhere. Invoices start as billing leaves them, unpaid.

### MonthlyBilling

`record` is the table of billing records of one system, `energy[m]` the days of
month m with data, `now` the current month. sync is `SyncRead`, `SyncAmounts`,
`SyncUpdate` or `SyncInsert` (the upsert), then the refresh (`RefreshLoad`,
`RefreshAssess`, `RefreshWrite`) and `SyncLinkedInvoice`. update and remove are
built the same way. generateInvoice is `GenerateInvoice` (guards), the refresh,
`GenerateCheck`, `WriteDraft`, `LinkDraft`, `IssueInvoice`, `RecordInvoiced`.
The lifecycle jobs call the refresh and generateInvoice; when a call fails,
`PeriodFails`, `MarkPeriodError` and `PeriodError` are their catch, which can put
the record of an issued invoice into error.
`PaymentLands`, `RefreshOverdue`, `EnergyArrives` and `NextMonth` are the rest
of the platform. Whether meter readings continue is edited elsewhere, so each
assessment may find either answer. `manual = 0` stands for a null override.
`Account` maps this state to that of `MonthBook`: a month stands where the
invoice stands that its record links to (`BillsOf`, `AccountOf`); drafts, jobs and
unlinked invoices are not seen.
Constants switch single behaviours on, so that a run can ask about one hazard:
`AllowPeriodMove` (update with another month), `JobsFail`, `PayDuringJobs`,
`StaleReceipts` (a receipt is accepted whatever its invoice has become since it was
sent, or if nobody has issued it), `StableSource`.

### MonthRecords

`row` is the source of the month's `MonthlyEnergyRecord`, `bill` its billing,
`daily` whether the month has days with a positive sum. A history sync
(`BeginHistory`) fetches, stores days, and for each month looks at the row
(`Look`) and writes it by one of the two unique keys: `WriteBySystem` (SOLARMAN,
SEMS+ and the older SOLARMAN account) or `WriteByStation` (Deye, LuxPower), which
inserts when the row has another source, and is then refused by the other key.
`BillMonth` is the call of billing, `Aggregate` and `BillDays` are what the
schedule and the closing job do after it, `EnterMonth` and `BillEntry` the form
and the import of files, `OverrideBilling` an edit of the billing record.

### MeterReadings

`row[m]` has the readings and the consumption of month m. An entry (`Enter`,
`ProviderWrites`) writes a row and starts a recalculation, as do listing the
records (`ListRecords`) and the hourly job (`RunHourlyRefresh`). A recalculation
reads all rows in one statement (`Read`) and then writes them one by one from
that reading (`WriteRow`, `WriteLastRow`). `Chained` is the helper that derives a
month's start, end and consumption from the end carried over. `settled` says that
the last recalculation met nobody and nothing was written since.

### MonthRepair and MonitorSync

`MonthRepair` starts from every combination of energy record, billing record
and invoice that the platform can have left. `ReadEnergy`, `ReadBillings` and
`Apply` are the tool's three accesses; `Apply` addresses rows by id as the
transaction does. One month is enough: no definition relates two months.

`MonitorSync` keeps of each time only how it compares with now. `plan[s]` is what
the pass has still to do with system s by the row as it was listed, since the code
goes on deciding by those rows. A system that is begun is finished before the
next one (`Turn`); which one that is, is left open, because the list is sorted by
`updatedAt`. `TimesOut` gives a sync up and leaves it in `stray`, whose later
writes `StrayEnds` makes. A stray that never ends is one that takes no step; one
that ends may stay, since there may be another of the same system and scope.

### SolarmanToken and ProviderSessions

`Get` is getValidSession up to the lock, `Acquire` the transaction with the
advisory lock and the reading of the row, `Reuse` the way out when another call
has refreshed, `ExchangeTaken`/`ExchangeFails` the HTTP request, `Persist` the
update with the commit, `Mark` withFailureStatus, `Use` the provider request
with its single retry, `Report` the status that the caller writes without the
lock. `LoseLock` ends the transaction under a call still at SOLARMAN
(interactive transactions are closed after 30 s). Time is counted in tokens
issued, which orders the time stamps that the code compares.

`ProviderSessions` has the three providers without rotating tokens in one
module, because their control is the same and they differ in where a session is
kept (`Key`): SEMS+ by account and password, LuxPower by connection, Deye in
the row. `kind` picks the provider. A call (`Begin`) gets a session from the
store or logs in (`GetOrCreateSession`, `LoginAnswers`, `KeepSession`), makes its
requests (`Accepted`, `Rejected`, `Broken`), logs in and repeats all of them once
(`TryAgain`); `LeavesOutRejected` and `LeavesOutBroken` are the places where a
provider's code drops a part and goes on. `Edit` is a change of credentials,
after which `ClearSession` follows where the code has it.

### PlantBinding

`system[s]` is a row with its plant, `device[p]` the device of plant p with the
system it belongs to. `Import` and `Link` are transactions. A sync looks for the
plant's system (`Look`), stores the system (`Store`) and the device
(`StoreDevice`); the binding of another plant checks (`CheckBind`), binds, clears
the old devices and claims its own (`Bind`, `ClearOld`, `OwnDevice`). `Create` and
`Remove` are those of systems. `unsettled` are the plants whose device an
overlap or a stop has left behind.

### ZaloDispatch and ZaloToken

`Load` is the query for candidates, `Attempt` shouldAttempt, `Read`, `Check`,
the HTTP outcomes and `WriteLog` are sendInvoiceNotification. Rows of dry runs
are left out because no live query reads them. Refusal covers every answer of
Zalo that is not success, a refused access token included.

`ZaloToken` opens that refusal: `Begin` reads the row and decides whether the
token must be renewed (`MustRefresh`), `Exchange` is the HTTP request after which
the old refresh token is spent, `Persist` the write, `Deliver` the sending,
`Reject` the answer that starts the one second attempt. `BeginEdit` and `Write`
are an edit of the settings, `TokenDies` what happens at Zalo. `lost` says that a
new refresh token was lost with an answer, a stop or an overlapping edit.

### SupportTickets, PasswordRecovery, BrowserSession

A request about a ticket is `Begin` (load the ticket, take the time) and `Write`
(all columns it computes from what it loaded). `heard` are the sides whose last
word is waiting for the other side.

`PasswordRecovery` counts changes of the password; sessions, codes and links
carry the password they were made under. Resets by code are `SubmitCode`
(compare), then the transaction `ResetByCode`, whose conditional update of the
code is what makes it single-use; links alike. Customers' and staff's
transactions differ, `role` picks one.

`BrowserSession` has the storage that all tabs share, and per tab a call, the
live stream, the page and the session of the one refresh that both wait for.
`Revoke` ends a session at the server, `AccessExpires` the access token.

## 3. What the runs show

A run is one module with one `.cfg`. Eight runs pass:

| run | question | result |
|---|---|---|
| PaymentsOneRequest | one request at a time, failing anywhere | one receipt waits and fits, is decided once, money is never taken back, and the desk implements `ReceiptLedger` |
| BillingOneJob | one job, stopping anywhere, payments meanwhile, two records, two invoices | a month is billed once and only when it is over; an invoice that is out is linked; a record's claims are backed; jobs without an actor issue only months assessed OK |
| TokenCalls | two calls on two workers, fairness | one refresh token is never sent by two at once, never lost after rotation, nobody refreshes while a usable token is stored, every call ends |
| TokenEverything | edits, pasted tokens, lost transactions | the lock is never left with a call that has moved on |
| ZaloRuns | scheduled and manual runs, a customer without phone number, fairness | one announcement, reminders keep their distance, every issued invoice is announced or moves on |
| SafetyParts | repair, provider sessions, password recovery, meter readings, billing with corrections | see the next table |
| PortalParts | desk with two requests, Zalo senders, Zalo token, month records, plants, tickets | see the next table |
| LivenessParts | schedule of syncs, meter readings, browser; fairness | see the next table |

| part | with | result |
|---|---|---|
| repair (SafetyParts) | nobody else works on the month | locked invoices and manual data stand (`AuthoritativeDataStands`), no orphan draft, nothing left over (`RepairIsWhole`) |
| provider (SafetyParts) | two calls, two accounts, sessions that die | no call uses a session of an account its connection had before (`SessionFitsAccount`); a call fails for good, or drops data as rejected, only when a session died while it was at work (`DeadSessionCostsALogin`) |
| recovery (SafetyParts) | two requests, codes and links that expire, aborts | a code or link changes a staff password once (`RecoveredOnce`); a change leaves no link, code or session from before it, except the session of a login in flight (`ChangeEndsTheRest`) |
| meter (SafetyParts) | overlapping recalculations, a failure, a restart | after an undisturbed recalculation the readings continue and add up (`ReadingsChain`), and another one changes nothing (`SettledReadingsStand`) |
| billing (SafetyParts) | corrections and part payments between jobs, no failures | an invoice shows its record's month and kWh (`InvoiceShowsRecord`); a month is asked for when it is over, corrected or withdrawn only while nobody pays it, and its money stays with it when the bill is withdrawn and drawn up anew: billing implements `MonthBook` (`BilledByTheBook`) |
| desk (PortalParts) | two requests interleave at every await, mock payment on | the status of an invoice agrees with its money all the same (`StatusMatchesMoney`) |
| zalo (PortalParts) | automation, finalize job, restarts, lost answers, failing queries | a SENT row means that the message was delivered (`SentMeansDelivered`) |
| token (PortalParts) | two messages, an edit, tokens that die or expire, stops | a message that meets nobody is sent although its token is dead, and the stored refresh token is never a spent one unless its successor was lost (`DeadTokensAreReplaced`) |
| month (PortalParts) | five kinds of provider, four writers | no history sync writes over a month that was manual, or overridden for SOLARMAN, before it began (`HistoryKeepsManualMonths`) |
| plant (PortalParts) | two plants, two systems, two requests that stop anywhere | the device of a plant belongs to the system of the plant (`DevicesFollowPlant`) |
| support (PortalParts) | two requests, both sides | what one side said last is unread for the other until it acts, and reopens the ticket (`NoWordIsMissed`) |
| sync (LivenessParts) | time-outs, strays, restarts, rebinding, closing | a due sync is served though a provider never answers (`EveryDueSyncIsServed`); a pass does not start what has been put off since it read the rows (`BackoffKept`); each fault leaves at most one system RUNNING with nobody at work (`StrandedByFaults`) |
| meter (LivenessParts) | the same overlaps, and a restart after an unhandled rejection | the chain settles when nothing is entered any more (`ChainSettles`) |
| browser (LivenessParts) | a session that ends at the server, tokens that expire | calls end (`CallsEnd`); a browser with a live stream leaves a dead session (`DeadSessionIsLeft`); a call or stream that waits for the tab's refresh waits for one in flight (`NobodyWaitsAlone`) |

Four runs are expected to find a violation, a disagreement between the code and
a message, a document or a test of the repository that needs neither a failure
nor a race; `findings` in `PROJECT.json` quotes both sides with their lines.

| run | violated | in short |
|---|---|---|
| BillingOverrideLost | `ManualOverrideHolds` | an automatic sync bills the provider's kWh and keeps the override column |
| BillingTotalAfterMoney | `ReceivedMoneyFixesTotal` | PARTIAL becomes OVERDUE, which counts as mutable, and the total changes under the money received |
| MonthOverwritten | `ManualMonthIsLocked` | a month entered by hand loses its source to the aggregate of the next hourly sync (monitor-sync.service.ts:450), against deploy-status.md:11 |
| MonthRefused | `HistoryIsUpserted` | the aggregate renames the row that Deye's history sync upserts by its source (deye-history-sync.service.ts:225); the next sync is refused by the table, against README.md:127; LuxPower (luxpower-connections.service.ts:1972) has the same key |

### Where the assumptions of the passing runs are needed

Each passing run says under which assumption the code keeps a promise. The
constants let one drop the assumption; TLC then finds a counterexample of a few
steps. These are real orders of events, and several contradict a document:

| property | change | what happens |
|---|---|---|
| `LedgerSpec`, and so `DecidedOnce` | `Procs = {p1, p2}`, mock off | two reviewers read PENDING (payments.service.ts:344), both write (350): a rejection overwrites an acceptance whose money stays |
| `OneFittingReceipt` | `Procs = {p1, p2}`, mock off | two submissions look for a waiting receipt (218) before either creates one |
| `OneFittingReceipt`, `LedgerSpec` | `MockEnabled = TRUE` | a mock payment covers an invoice whose receipt still waits |
| `BilledOncePerMonth` | `Procs = {p1, p2}` | the finalize job and an administrator both find the month without invoice (monthly-pv-billings.service.ts:1869) |
| `OnlyClosedMonthsBilled`, `BilledByTheBook` | `AllowPeriodMove = TRUE` | update() (monthly-pv-billings.service.ts:341) moves the record of an issued invoice into the running month |
| `BilledByTheBook`, `PaidInvoiceIsKept` (in no run) | `PayDuringJobs = TRUE` | a payment accepted between ensureRecordIsMutable (1419) and the write is overwritten with the older status |
| `IssuedInvoiceIsLinked`, `BilledOncePerMonth`, `BilledByTheBook` | `StaleReceipts = TRUE` | the review does not look at the invoice again (payments.service.ts:350): a draft that a stopped job left unlinked is paid, a bill back in review is settled |
| the paid amount never falls (no property) | `StaleReceipts = TRUE`, `MaxTotal = 3` | 2 of 3 are paid, the invoice is overdue and corrected to 1, a second receipt is accepted: Math.min (371) writes 1 over the 2 received |
| `OneExchangeAtATime` | `LockLost = TRUE` | the lock ends with its transaction after 30 s (solarman-connection-lock.service.ts:22), the HTTP request goes on; docs/integrations/solarman-network-map.md:84 promises otherwise |
| `NoSpentTokenStored` | `Edits = TRUE` | update() of a connection (solarman-connections.service.ts:220) writes back a refresh token that has been rotated |
| `NewerSuccessStands` (in no run) | `Authorizations = TRUE`, `MaxTokens = 3` | the catch of the caller (770) reports an old failure over a newer success, which solarman-web-oauth-token.service.ts:282 is careful to avoid |
| `SessionFitsAccount` | `EditsInFlight = TRUE` | a login that was under way when the connection was edited stores its session after the edit has cleared the cache |
| `RunsRepeatNothing` | `OtherSenders = {finalizer}` | finalize job (00:15 on the 2nd) and automation (every 15 minutes) both find no SENT row |
| `EveryInvoiceAnnounced` | `BatchSize = 1` | customers without a phone number (a BLOCKED row that counts as dry, zalo-notifications.service.ts:479) fill every batch |
| `AskOnlyWhatIsOwed` (in no run) | none | the status is not looked at again before the message is sent (363) |
| `AuthoritativeDataStands` | `Meanwhile = TRUE` | an invoice issued after the plan was made is cancelled (repair-provider-months.cli.ts:154), against PROVIDER_MONTH_HISTORY_REPAIR.md:69 |

### Bounds and why they are enough

* *Payments*: one request with two invoices, three receipts and amounts to 2;
  two requests with one invoice, two receipts and amounts to 3. Two requests
  suffice for every stale read, since a snapshot is spoiled by one other writer;
  amounts to 2 or 3 allow a part payment, the exact rest, and one unit too many.
* *Billing*: two invoices (a second one is what a wrong draft would be), one or
  two records, two months (one closed, one open), one job beside the rest of the
  platform, kWh to 1 or 2. When all keys of a table are used the creating statement
  is refused; this is marked `bound` in `Refused`. In
  SafetyParts amounts go to 2, so that a part payment can come before the rest.
  `BilledByTheBook` has been checked with jobs that stop as well (640 000 states);
  the theorem has them.
* *SOLARMAN token*: two calls, on two workers or sharing one, and two tokens, so
  that one rotation happens: a call that refreshes, one that comes too late, a
  rejection and a second attempt of each. `ExchangeTaken` stops when no number is
  left; then only the outcomes without a new token remain.
* *Zalo*: two invoices, the first of them of a customer without a phone number,
  and a batch with room for both; one invoice where restarts and lost answers
  are added. `delivered` counts to 2. Staff sends (`SendOne` by a sender other
  than `Finalizer`) are in the module but in no run: they multiply the states
  by more than twenty.
* *Zalo token*: two messages, two tokens, so one renewal. Three tokens (a renewal
  by each message, and a second attempt after it) have been checked too, together
  with the invariant of the proof, and are not in the run because of their number
  (2.1 million states).
* *Repair*: one month, all 96 energy rows with all billing rows and invoices.
* *Provider sessions*: two calls of two requests each (a session dies between
  them), two accounts, three logins: the two that two calls make at once, and
  one more after an edit or a rejection.
* *Password recovery*: two requests, and two sessions, codes and links (the one
  in use and the one it must end), two changes of the password. A row is
  not used twice.
* *Meter readings*: two months (the chain has one joint), a request, the hourly
  job and two entries, consumption 1 and readings 0 and 2, so that a
  reading can be ahead of, behind, or equal to what was carried; one failure.
  For the liveness property entries are consumptions only.
* *Month records*: one month of one system; the writers of different months
  share nothing.
* *Plants*: two plants, two systems, two requests: a link needs two systems, a
  changed binding two plants. A third request could disturb only a request that
  two can disturb.
* *Tickets*: two requests at a time and five points of time: a word of each
  side, a later word, and one that was loaded before.
* *Sync*: one system with its two syncs, every disturbance and two faults (a
  fault during the recovery from another). What waits for a provider is the
  rest of the pass, and the second sync of a system is such a rest; systems
  share no other state. The safety properties are proved for any number of
  systems, and have been checked with two, one fault and no closing job (too
  many states for a run).
* *Browser*: one tab (tabs share only the storage; what two of them do to one
  another is described in section 5), two sessions, so that a login after the
  first session is a new one.

Deadlock is checked, except in `PaymentsOneRequest`, `ZaloRuns` and
`PortalParts`: a payment desk whose invoices are all settled, an automation with
nothing left to send, and a ticket or a token whose bound is used up stop for
good.

### Fairness

* `SolarmanToken`: weak fairness of `Proceed(p)`, since HTTP requests carry a
  time-out and awaits come back; strong fairness of `Acquire(p)` and `Mark(p)`,
  since PostgreSQL queues those who wait for an advisory lock. Nothing is
  assumed of what SOLARMAN answers.
* `ZaloDispatch`: weak fairness of `Load` (the cron repeats every quarter of an
  hour), of `Proceed`, and of `CooldownPasses`; strong fairness, for each
  invoice's message, of its being tried and being accepted, that is, Zalo does not
  refuse the same message for ever. With a batch that customers without phone
  number fill, `EveryInvoiceAnnounced` fails under this very fairness.
* `MonitorSync`: weak fairness of `PassStep` (the interval and the code between
  awaits), of `TimesOut` (the timer) and of the clock (`NextComes`,
  `LastAges`). Nothing is assumed of providers, of strays or of the closing job.
  Failing statements and restarts are finitely many (`MaxFaults`).
* `MeterReadings`: weak fairness of the hourly job (`RunHourlyRefresh`) and of the
  statements of a recalculation (`Proceed`). Entries and failures are bounded;
  listings are not.
* `BrowserSession`: weak fairness of answers and timers (`CallStep`,
  `RefreshStep`, `Connect`), since fetch settles; strong fairness of
  `StreamRejected`, that is, a stream with a token that is not good is not cut
  off by the network every time before the server rejects it.
* The other modules state no liveness: their handlers run on request.

## 4. What is proved

`tlapm` checks the eight proof modules to the last leaf, for every number of
invoices, receipts, records, months, amounts, calls, tokens, sessions, senders,
plants, systems, messages and requests. The only assumptions are the `ASSUME`s
of the modules (positive bounds, owners are customers, `NoInvoice` is no
invoice, a month's energy fits the amounts) and what a theorem's own `ASSUME`
names. `Bounded` and the definitions called `...Parameters` and `TicketTimes`
say of the constants of modules without an `ASSUME` that bounds are numbers and
that the values for "nothing" are none of the real ones. Three of them say more:
`ProviderSessions` is proved for connections that are edited between calls,
`ZaloDispatch` for extra senders that are not the schedule, and the part billing
of `MCSafetyParts` for the one job at a time it is instantiated with.

Every safety property that a passing run checks is stated by a theorem.
Some theorems state what no run lists because another property of the run implies
it: `DecidedOnce` follows from `LedgerSpec`, `PaidInvoiceIsKept` is
`BilledByTheBook` for one invoice, and types are checked where a part
is interesting for TLC (`TypesOK`) and proved of every module.
`PROJECT.json` lists the theorems with the properties they state.

**Payments** (`PortalPartsProofs`)

* `TypeCorrect`.
* `StatusAlwaysMatchesMoney`: no assumption on the number of requests.
  `StatusMatchesMoney` alone is not inductive: `ReviewAccept` writes what the
  snapshot in `request[p]` implies. `MoneyInv` adds that totals are positive,
  that waiting receipts state a positive amount, and that the total in every
  snapshot is still the invoice's (`SnapshotOfTotal`; nobody in this module
  changes a total). The snapshot of `paid` may be old, which is why money can be
  lost without the status ever disagreeing with it.
* `ReceiptsFit`, `ReceiptsDecidedOnce`, `MoneyIsNeverTakenBack`,
  `ImplementsLedger`: for one request at a time and mock payment off. `DeskInv`
  adds that every snapshot is current (`SnapshotIsCurrent`); with two requests
  it is not (section 3). The
  refinement maps `owed`, `credited` and `receipt` to columns; every step is a
  ledger step or a stutter.

**Monthly billing** (`MonthlyBillingProofs`)

The invariants build on each other: `TypeOK`, `MonthInv`, `LinkInv`, `ClaimInv`,
`BookInv`, `ShowInv`.

* `TypeCorrect`.
* `OnlyClosedMonths`: any number of jobs stopping anywhere, if no record is
  moved to another month. generateInvoice checks the month once and writes many
  awaits later. `MonthInv` says why this is safe: invoices and the records that
  link them lie in the past (`BillsArePast`, `BilledRowsArePast`), and each job
  still knows the month of its record (`JobKnowsMonth`), because that month
  never changes. Section 3 says what happens without the assumption.
* `IssuedInvoicesAreLinked` and `NoMonthIsBilledTwice`: one job at a time that
  can stop anywhere, no moved records, and receipts accepted only while they
  could still be sent (`~StaleReceipts`: a draft that a stopped job left unlinked
  would become an invoice that is out). `LinkInv` adds `OneRecordPerMonth` and what a job
  in the middle of generateInvoice holds (`JobHoldsLink`). The first follows;
  the second follows from it: two invoices out for a month are linked from
  records of that month, which are one record, which has one link.
* `RecordsClaimWhatIsTrue`, `JobsIssueCleanMonths`: the same assumptions. A
  record's workflow and its `finalizedAt` are written from an assessment that is
  three awaits old, while payments, the overdue sweep and the calendar go on.
  `ClaimInv` says what each await of a job may rely on (`JobBacksClaims`): a
  status that was out when it was read is out for good, the draft a job carries
  is nobody else's, and a row whose removal is being written has no link. That
  no two records link the same invoice (`LinksAreUnique`) is needed so that a
  step for one record says nothing false of another one.
* `PaidInvoicesAreKept`: one job that can stop anywhere, payments between jobs
  (`~PayDuringJobs`; section 3 has the counterexample without it). The job that
  is about to write an invoice has seen that it is being paid (`PayingIsSeen`)
  and therefore leaves it alone.
* `MonthsAreBilledByTheBook`: the same assumptions; each of the four is needed
  (section 3, and two jobs bill twice). `BookInv` adds `UnlinkedUnpaid`: an
  invoice that no record links to has taken no money, so that the draft which a
  stopped job left behind, or which a later job links, adds nothing to a month.
  The map to `MonthBook` picks the bill of a month; that there is one at most
  (`TheBill`) needs all of `ClaimInv`. Three lemmas then do the work for every
  step: a step that writes no linked invoice and adds no link changes no account
  (`AccountSame`), one that writes a linked invoice changes the account of one
  month (`AccountWritten`), and no job takes a link back (`RecordSteps`). Six
  statements are left, each a step of the book or a stutter (`SyncLinkedBook`,
  `WriteDraftBook`, `LinkDraftBook`, `IssueBook`, `PaymentBook`, `OverdueBook`).
* `InvoicesShowTheirRecords`: in addition, jobs run to their end (`~JobsFail`).
  While a job is under way one record may be ahead of its invoice, the one the
  job has written and will carry over (`Carries`). That it gets there needs that
  ensureRecordIsMutable, which it asked before it wrote the record, still holds
  several awaits later (`Correctable` in `JobShows`).

**SOLARMAN tokens** (`SolarmanTokenProofs`)

* `LockAlwaysAtWork`: any number of workers and tokens, no assumption.
* `ExchangesExclude`, `SpentTokensAreReplaced`, `UsableTokensAreReused`: no
  transaction loses its lock and nobody edits the connection (`~LockLost`,
  `~Edits`), sign-ins allowed. None of the three is inductive alone: that a
  call at SOLARMAN is alone follows from the lock (`AtWorkHoldsLock`), that the
  stored token is not spent needs that only the holder exchanges what is stored
  (`StoredIsIssued`, `SpentIsReplaced`), and that a usable one is not exchanged
  needs that the row the holder has looked at is the row.

**Provider sessions** (`ProviderSessionsProofs`)

* `SessionsFitTheirAccounts`: any number of calls, accounts and sessions, edits
  between calls. `KeptFits` says the same of the store: what is found under a
  key was made for the account that looks there. SEMS+ gets this from its key,
  LuxPower and Deye from the edit, which clears the store before anybody looks.
* `DeadSessionsCostALogin`: the same calls. The last try has logged in itself
  and its session lives as long as none dies (`TriesFit`); what others store
  meanwhile it does not use.

**Password recovery** (`SafetyPartsProofs`)

* `CodesAndLinksWorkOnce`, `NothingOutlivesChange`: any number of requests,
  sessions, codes and links. The invariant is one of rows (`SessionFits`,
  `CodeFits`, `LinkFits`), each against the password of the moment, so that a
  change of it has to be shown harmless for every row of three tables at once.
  What is added to the properties: a code or link that is not closed has not
  been used, and customers have no links.

**Zalo dispatch** (`ZaloDispatchProofs`)

* `TypeCorrect`: with restarts, lost answers and failing queries. What a run
  loads is a sequence of messages whatever the batch size (`BatchIsSequence`),
  and a sender is idle exactly when its queue is empty.
* `SentWasDelivered`: the same. A sender between Zalo's answer and the log row
  holds a message that arrived (`AnsweredInv`); a restart in between loses the
  row, never the message, which is why the implication goes in this direction
  only.
* `NothingIsRepeated`: about `RunsSpec`, the specification of the run `ZaloRuns`:
  no restarts, no lost answers, and nobody but runs sends. `RunsInv` says why one
  flag is enough: one run at a time is at work (`OneRun`), what was delivered is
  logged or about to be (`DeliveredIsLogged`), so what a run has found due when it
  read the log is due until it sends (`AttemptIsDue`).

**Safety parts** (`SafetyPartsProofs`)

`PartsAreTheirSpecs` says that a behaviour of the composition is one of each
part (the parts that are not at work stutter); so what is proved of a module
holds in the run. `TypesOfParts` collects the types.

* *Billing*, *provider*: `InvoicesShowTheirRecords`, `MonthsAreBilledByTheBook`,
  `SessionsFitAccounts`, `DeadSessionsCostLogins` carry the theorems above over.
* *Repair*: `NothingHalfRepaired`, `AuthoritativeDataIsSpared`: any set of
  months, while the platform stands still (`~Meanwhile`; with it the runs of
  section 3 show the loss). `SnapshotIsCurrent` is what the assumption buys:
  what the tool has read outside its transaction is still so inside it.
* *Meter readings* (proved in `MeterReadingsProofs`): `SettledReadingsChain`, `RecalculationIsIdempotent`: any
  number of months, values, entries and failures, any overlap of the two ways to
  recalculate. A recalculation writes month after month from one reading that is
  as old as the whole of it. `MeterInv` says of one that nobody has disturbed
  (`RunFits`) that the months behind it are chained, that the months before it
  are as it has read them, and that the value it carries is the end of the month
  behind it: so a chain that holds up to a month is carried one month on, and
  `settled` is set when the last month is reached. Chaining a row that is chained
  already changes nothing (`ChainedStands`), which is the second theorem.

**Portal parts** (`PortalPartsProofs`)

* *Desk*, *Zalo*: `DeskShowsItsMoney`, `SentWasDelivered`, carried over.
* *Month records*: `ManualMonthsAreKept`: any set of writers of any provider, no
  assumption. The property is about the step that writes, its reason lies
  earlier: a SOLARMAN sync that is about to write a locked month was at work when
  it was locked (`WriterLooked`), and the other providers do not find such a row
  by their key. Billing the sum of the days could lock a month as well;
  `DaysAreBilledUnasked` says that only the schedule and the closing job do it,
  which leave the lock alone.
* *Support tickets*: `WordsAreNoticed`: any number of requests. Two requests that
  can undo each other's writes have both noted it (`MeetingsAreNoted`); so one
  that has met nobody is later than all the other side has read, and a note that
  has met nobody puts back what is there (`AloneIsCurrent`); while a side is
  heard the other one is not at work (`HeardInSilence`).
* *Plants*: `DevicesFollowTheirPlants`: any plants, systems and requests. The
  unique key gives a plant one system (`RowsFit`), what a request has read has
  not gone (`RequestsFit`; removed rows stay in the table), and a request that is
  about to store a device still stands for the plant's system unless it has noted
  that the system was bound elsewhere meanwhile (`WritersFollowPlant`). Each
  change of a system's plant therefore has to mark every request it takes the
  ground from and every device it leaves behind, for all four actions that make
  one.
* *Zalo token*: `DeadTokensAreAlwaysReplaced`: any number of messages and tokens.
  That nobody holds a token before Zalo issues it (`OnlyIssued`) and that a new
  refresh token is one message's until it is stored (`SuccessorsUnshared`) make
  "spent" stable; `MeetsNobody` follows a message that overlaps nobody through
  both attempts (`Undisturbed`), and `SuccessorAtHand` says that the row of a spent
  refresh token waits for the message that spent it, unless the new one was lost.
* `TypesOfParts`.

**Liveness parts** (`LivenessPartsProofs`)

What these parts promise under fairness is TLC's, what they promise at every
moment is proved.

* *Sync schedule*: `PutOffSyncsWait`, `FaultsStrandOneEach`: any finite number of
  systems, strays and faults. `SyncInv` is inductive with `TypeOK` and
  `BackoffKept`: that a planned sync is due although its row was read long ago
  holds because only the end of that same sync puts its next time off, and takes
  it from the plan with the same step, while strays, the closing job and new
  bindings leave next times alone, and a reset empties them. `StrandedKept` says how one step can
  move the set of systems that are RUNNING without anybody at work: only by a
  fault, and then by the one system the pass stood at; the rest is counting with
  the theorems on finite sets.
* *Browser*: `WaitersAreServed`: any number of tabs and sessions. `TabMoves` is
  the one argument for all actions of a tab: what the others have in flight is
  untouched, and this tab may wait only if its refresh goes on. That a refusal
  wakes the stream as well as the call, and that a stream which is unmounted while
  it waits goes on waiting, are the two cases where it is not obvious.
* `TypesOfParts`, with the types of the meter readings from `MeterReadingsProofs`.

Row lemmas (`CreditedRow`, `SyncedRow`, `CodeIsSpent`, `ChainedRow`, `BoundRow`,
...) say once what each statement writes; everything else uses them instead of
the record expressions.

### Only model-checked

* Liveness, which is outside the reach of the prover: `CallsEnd` of calls at
  SOLARMAN and of the browser, `EveryInvoiceAnnounced`, `EveryDueSyncIsServed`,
  `ChainSettles`, `DeadSessionIsLeft`.
* What the theorems assume away: edits in flight, lost transactions, two requests
  at the payment desk (beyond the status), several billing jobs. Section 3 shows
  the counterexamples.

No module that is proved about, or that it uses, declares a recursive operator,
and no proof uses induction over data.

## 5. What is not modelled

Whole components are listed with reasons in `PROJECT.json`. This section says
what the modelled ones leave out, and which effects of the code their properties
except, so that nobody takes a passing run for more than it is.

* *Payments, invoices*: soft-deleted invoices, the administrator's create,
  update and remove, VAT and rounding.
* *Monthly billing*: other systems (months of two systems share no row but the
  number generator), the provider history batches, PDF and reports, the retry of
  history by the lifecycle jobs. A draft that a stopped job leaves unlinked stays
  in the customer's list of invoices (invoices.service.ts:49); the run assumes
  that nobody pays it.
* *Month records*: the timer of a connection behaves like staff without the lock
  and is not in the run. Quarantined rows are revived by every writer, so state
  "none" stands for them. A sync that staff start counts as a manual override of
  billing (monthly-pv-billings.service.ts:221), which locks the month against
  SOLARMAN's later syncs. The station of the system stays as it is.
* *Meter readings*: a recalculation that was disturbed can overwrite an entered
  consumption; months entered out of order derive different consumptions; a month
  without data gets consumption 0 at the second recalculation; a provider's write
  drops the confirmation of a reset. These are excepted, not excluded: the chain
  settles after them. CHANGELOG_BILLING_CONTINUITY_2026-04-16.md states the rule
  `ReadingsChain` checks. Prices, warnings and the sync of billing are left out.
* *SOLARMAN tokens*: the cookie and official API modes, migration of plaintext
  columns, removal of the connection, the PAUSED status an edit can ask for, 412
  challenge pages that look like rejections, a commit that fails after the
  cache has been filled.
* *Provider sessions*: which regional origin of SEMS+ is asked, the parsing of
  answers, and the choice among payloads of LuxPower. LuxPower's list of plants
  leaves out plants whose request was rejected, with a warning; the property
  excepts it.
* *LuxPower's sync*: beyond the month it writes nothing is modelled. Its latest
  month is picked by comparing texts of year and month, in which October to
  December sort before September.
* *Plants*: the discovery for SOLARMAN and LuxPower, older matches of SOLARMAN
  by another column, the mark DISCONNECTED, owners and prices, and the rows of
  measurements that a link moves. Contracts and billing count only as a possible
  refusal of a link. Not claimed: a removed system keeps its unique key, so the
  next sync of Deye fails at its plant and stops for every station after it, and
  an import "creates" by updating the removed row; a sync writes back the
  capacity and prices it has read.
* *Zalo*: dry runs, templates, one-time codes, the sixty days after which
  candidates are given up, the different orders of the three batches, and that
  the batch is read once, so that an invoice may be paid before its turn comes
  (zalo-notifications.service.ts:363). That a crash between Zalo's answer and the
  log row repeats a message is in the model (`AnswersLost`, `Restarts`) and is
  why `RunsRepeatNothing` is asked only where both are off. Staff sends do not
  deduplicate, by design.
* *Zalo token*: tokens, app ID and secret from the environment. Not claimed: the
  loser of two renewals at once fails its message; an edit that overlaps a renewal
  can put a spent refresh token back, and an answer or a stop can lose the new
  one: `excused` and `lost` mark these. A late REJECTED on a fresh token, or an
  older expiry written back, costs one more renewal.
* *Repair*: other years and systems than the tool's scope, backups, the report.
* *Monitor sync*: the length of intervals and the tiers, log rows, presence and
  retention, the snapshots that syncs store (a stray may overwrite a newer one,
  monitor-sync.service.ts:963), statuses that provider discovery writes, the
  metadata column.
* *Tickets*: attachments, participants, notifications, lists, the assignee.
  Excepted: requests of both sides that overlap. A reply of a customer that
  overlaps a staff request can end up unnoticed; an internal note writes back the
  status and the time it has loaded; a slow reply overwrites newer times;
  a message row can be left without the update of its ticket.
* *Password recovery*: registration, signing in with a code, counters of wrong
  passwords, rate limits, the number of tries of a code (overlapping wrong tries
  can exceed it). The customers' reset is unconditional, so a code handed in twice
  at the same moment works twice; staff's claims the code in the same transaction,
  and `RecoveredOnce` is about staff.
* *Browser*: roles, pages, and the requests themselves. Not claimed: a refresh in
  flight at logout stores the session again until the page is left; with two tabs
  an older tab's failing refresh wipes a fresh login; a provider of the live
  stream that is unmounted during a refresh signs out; logout never tells the
  server; a stream stopped by another 4xx answer stays stopped.

The remaining components are reads, forms and single rows. `users.remove` is two
statements where `customers.remove` is one transaction, and the customer's
monthly trend takes the oldest twelve of the periods it has sorted newest first;
no rule of the repository says what they should do, so no property is stated.

## 6. Plan

Done: inventory; the core (`InvoiceTable`, `Payments`, `ReceiptLedger`,
`MonthlyBilling`, `MonthBook`) with its theorems; providers (`SolarmanToken`,
`ProviderSessions`, `PlantBinding`, `MonitorSync`); energy data (`MonthRecords`,
`MeterReadings`, `MonthRepair`); messages (`ZaloDispatch`, `ZaloToken`); people
(`SupportTickets`, `PasswordRecovery`, `BrowserSession`).

Modules to come, in this order:

1. `BillingSystem`: composes `Payments` and `MonthlyBilling` over one
   `InvoiceTable`; invoices created, updated and removed by administrators;
   receipts that outlive what they were sent for. Runs: an unlinked draft that
   is paid, an overpaid invoice whose receipt is cut off.
2. The retry of missing history by the lifecycle jobs, on top of `MonthRecords`.
3. Discovery for SOLARMAN and LuxPower as further kinds of `PlantBinding`, and
   LuxPower's choice of the month and snapshot it shows.
4. Accounts: users, customers and contracts, as far as their removal touches
   systems and billing.
5. The customer's aggregate and the operational period as operators, checked
   against reference definitions.

Theorems to come: the properties of billing with several jobs for the months they
do not share, and the invariants of the modules to come.

## 7. Running it

    tlc -config PaymentsOneRequest.cfg MCPayments
    tlapm PortalPartsProofs.tla     (and so on for the other seven)

`PROJECT.json` names module, configuration and expectation of every run.
