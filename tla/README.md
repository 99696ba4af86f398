# Afriserve: TLA+ models and proofs

Afriserve is a microfinance back end: an Express API and a worker on one
Postgres database, with a mobile-money provider and a message broker at its
edges. These modules model the parts of it where several requests, jobs and
callbacks meet on the same rows, check them with TLC on small instances, and
prove the main invariants with TLAPS for instances of any size.

Source paths below are relative to the repository (`src/services/...`).

## 1. The system

| Part | State | Operations | Hard because |
|---|---|---|---|
| Loan lifecycle (`loanLifecycle/operations`) | `loans.status`, approver, tranches, finalisation journal | `approveLoan`, `rejectLoan`, `disburseLoan` | read-then-write at READ COMMITTED; partial disbursements; a cent of tolerance |
| Origination (`loanService`) | `loans`, `clients` | `createLoan` | the in-flight check only sees disbursed loans |
| High-risk approvals (`approvalWorkflowService`, `reviewHighRisk`, `executeHelpers`) | `approval_requests`, `loans` | request, approve and execute, reject, expire | two checkers; a loan that changed since the request; expiry |
| Repayments (`repaymentService`) | `repayments`, `loans.balance`, instalments | record a repayment | resubmission, guarded update of the totals |
| Mobile money B2C (`mobileMoneyService`, `mobileMoneyProvider`) | `mobile_money_b2c_disbursements` | wallet request, callback, reversal request | the provider acts first, the loan is booked afterwards; lost answers, callbacks in any order |
| B2C core job (`jobs/b2cCoreDisbursement`) | the same rows | scan, claim, retry | races with the request and the callbacks |
| Mobile money C2B and STK | `mobile_money_c2b_events` | webhook, manual reconciliation | duplicated webhooks, manual and automatic at once and in opposite lock orders |
| Domain-event outbox (`domainEventService`, `domainEventDispatch`) | `domain_events` | publish in the transaction, dispatch, retry | at-least-once delivery, no claim on a row, attempt limit |
| Consumers (`RabbitMqConsumer`, `OutboxEventBus`, `AccountingGlSubscriber`) | broker queue, `gl_journals` | consume, ack, nack, post | redelivery, swallowed errors |
| Overdue sync, penalties, accrual (`overdueSync`, `penaltyEngine`, `interestAccrualEngine`) | `loans`, instalments, accrual events | nightly runs | they load and save whole rows beside repayments |
| General ledger | journals | `postJournal` | uniqueness of the reference |
| Accounting batches (`accountingBatchService`, `accountingPeriodClose`) | `gl_accounting_batches`, `gl_batch_runs`, locks, snapshots | `runBatch`, the nightly job | every server has the job; one row for a type and a date; retry of what failed |
| Circuit breaker | state, failures, probe flag | `execute` | its timeout decides whether an answer is lost; no call from before it opened is out when it probes (15 s against 30 s) |
| Auth (`tokenRotation`, `tokenBlacklist`, `authSessionCache`) | tokens, caches | rotate, revoke | stale caches |
| Capital transactions, suspense, FX, COA | their tables | bookkeeping | mostly one transaction each |
| Reports, onboarding, underwriting, permissions, rate limits, backup, HTTP, front ends | | | reading, validation, I/O |

How they interact: the routes call the services; `disburseLoanToWallet` and the
B2C job call `disburseLoan`; the lifecycle writes journals, contract versions
and outbox events inside its transactions; the dispatch job sends outbox events
to the broker and subscribers post to the ledger; jobs and requests share
nothing but the database (and, within a process, the breaker and caches).
Transactions are opened with Prisma's defaults, so they run at READ COMMITTED:
a statement sees what is committed when it runs.

What makes each part correct, in words: money leaves only behind an approval,
not twice, and not beyond the principal; an active loan is a funded loan; a
wallet row tells the truth about the provider and about the loan and does not
get stuck; a request is executed once, against the loan it was made for; totals
of a loan survive the jobs; every event reaches its consumer, and posting it
twice books once. `PROJECT.json` lists the components and, under `hazards`, the
lines at which each of these could go wrong.

## 2. The modules

| Module | Models | Proofs |
|---|---|---|
| `LoanBook` | what the record of a loan promises (abstract) | |
| `LoanLifecycle` | `createLoan`, `approveLoan`, `rejectLoan`, `disburseLoan` as concurrent requests; failures and crashes; implements `LoanBook` | `LoanLifecycle_Proofs` |
| `B2CDisbursement` (extends `LoanLifecycle`) | `disburseLoanToWallet`, the provider, `handleB2CCallback`, the core retry job, the retry routes, crashes | `B2CDisbursement_Proofs` |
| `LoanServicing` | a disbursed loan's row and receivable beside repayments, the penalty engine and the overdue job | in `ApprovalWorkflow_Proofs` |
| `AtomicApprovals` (extends `LoanServicing`) | the same workflow with every review in one step (abstract) | |
| `ApprovalWorkflow` (extends `LoanServicing`) | requests for write-off, restructure, top-up, refinance and term extension; expiry, rejection, approval and execution; rollbacks and crashes; implements `AtomicApprovals` | `ApprovalWorkflow_Proofs`, `AtomicApprovals_Proofs` |
| `EventDelivery` | what the outbox promises (abstract) | |
| `EventOutbox` | `publishDomainEvent`, `dispatchPendingEvents`, the dispatch jobs of several servers, their cached channels | in `EventConsumer_Proofs` |
| `EventConsumer` (extends `EventOutbox`) | the broker's queue and `RabbitMqConsumer`; implements `EventDelivery` | `EventConsumer_Proofs` |
| `PaymentLedger` | what everybody who books payments promises (abstract) | |
| `Collections` | `recordRepayment`, the C2B webhook and the reconciliation desk, with their locks; implements `PaymentLedger` | `Collections_Proofs` |
| `AccountingBatches` | `runBatch` and the period-close job | `AccountingBatches_Proofs` |
| `MC*` | instances for TLC | |

`LoanLifecycle`, `B2CDisbursement`, `LoanServicing` and `ApprovalWorkflow` follow
a loan through its life; the events they publish are the `Events` of the
outbox, and the repayment that is one step in `LoanServicing` is taken apart
in `Collections`.

### LoanLifecycle

A caller (an HTTP request, the wallet request or a retry) is a process with a
program counter `pc` and a record `call` of what it read. `disburseLoan` is cut
where another request can come in between: the look at the loan outside the
transaction (`StartDisburse`), the status inside it (`Recheck`), the sum a
statement later (`SizeDisbursement`), the highest tranche number
(`NumberTranche`), and the writes, visible at once at the commit (`CommitTranche`,
`CommitFinal`). Two inserts of one tranche number meet in the unique index: the
loser fails (`LoseToOther`), as does a final disbursement whose guarded update
finds no approved loan or whose finalisation journal exists. `FailDisbursement` is
a failed statement, a transaction timeout, or an exception after the commit, which
the caller cannot tell apart. `approveLoan` and `rejectLoan` read and check first
and update by id later (`ReadForDecision`, then `ApproveLoan` or `RejectLoan`).
`createLoan` refuses a client with a loan in flight unless the configuration lets
clients have several (`AllowConcurrentLoans`, off in the runs as by default).

Amounts are in cents. The code's tolerance of 0.01 is compared in binary floating
point, so a difference of exactly one cent may fall on either side: `Resolutions`
allows both. One tranche stands for the rows its transaction writes with it
(transaction, journal, contract version, event). Blockers, KYC and scope of
people are preconditions that only turn requests away.

`LoanBook` is what is left when the requests are forgotten: who approved a loan,
what was paid out in how many parts, and how often it was completed. A part is
paid behind an approval and within `Limit`; the completing one finds the loan
approved, brings out the remainder to a cent, and is not repeated where it books
interest or fees. A decision may fall on a loan in any state, as in the code.
`Limit` is the overdraft the code leaves room for: the principal plus a cent, times
the number of callers that may be in flight (`OverdrawBounded`).

### B2CDisbursement

A wallet request inserts a row, asks the provider, records the answer, calls
`disburseLoan` for the remaining principal, and reconciles the row; each
guarded `updateMany` is one action, with its guard on the status as a set.
The provider is external: it may act on a request whose caller timed out, posts
its result any number of times (`notices` only grows), and may report a queue
timeout as a failure before it settles. A callback for a row whose
`provider_request_id` is not yet recorded is dropped. The retry job scans, claims
by status and `updated_at` (`fresh` says whether the row is still as scanned),
and retries without a user role, so without a branch in scope (`RetryInScope`).
`B2CCrash` forgets every request and the run of the job; the job's timer starts
again with the process, requests do not.

### LoanServicing and ApprovalWorkflow

`LoanServicing` has the columns of a loan that everybody writes (status, balance,
expected total; the repaid total is their difference in every statement) and
the balance of the receivable over its journals. A repayment is its one guarded
`UPDATE` with the journal of the same transaction; the penalty engine reads an
instalment and charges later; the overdue job loads the loan as an aggregate and
saves every column as loaded (`LoadForSync`, `SaveOverdue`).

`ApprovalWorkflow` adds the high-risk operations. A maker reads the loan
(`ReadForRequest`) and inserts a request with that snapshot later
(`CreateRequest`; the partial unique index is part of `MayInsert`). Each
operation starts by expiring what is past its time, one `UPDATE` that waits for
rows others hold (`NothingToWaitFor`, `Expired`). A checker's review looks at the
request (`StartReview`) and rejects it, or opens a transaction: approve the row
(`FinalizeRequest`), compare the snapshot (`PreCheck`), read the loan and, for
write-off and restructure, compare again (`ReadLoan`), update the loan if it is
still as read (`UpdateLoan`), publish the event on another connection
(`Announce`), commit. What the transaction writes is visible at `CommitReview`;
its row locks are explicit (`holder` for the loan, `Locked` for the request),
because whom they make wait is part of the behaviour. `RollBack` is a failed
statement or the transaction's 20 seconds; `Crash` ends requests and jobs.

The comparison with the snapshot is the code's, in cents: the status is the same,
and balance, expected total and repaid total differ by 0.01 at most
(`Differences`, `MayMatch`). At exactly one cent binary floating point decides, so a
row a cent off may match and another time not (`MayDiffer`). A review can thus run
after a repayment or a penalty of a cent, but not after more, even if it comes a
cent at a time: every comparison is with the request's snapshot. The update itself
compares exactly with the row just read (`StillAsRead`). What is promised is
therefore the status to the letter and the balance to the cent
(`ExecutedAsRequested`), and `AtomicApprovals` asks for no more (`MayHappen`).

Terms and rates are data, and so is their comparison with the snapshot, which the
code makes besides: the model executes where the code may refuse. An execution
gives the loan one of the `Totals` a contract may come to. `Posted` is what its
journals debit to the receivable; a restructure posts none, which
`ReceivableMatchesBalance` therefore leaves out.

`AtomicApprovals` is what the transaction and its guarded update are for: an
approved operation happens at once (`Execute`), on the loan as it is at that
moment, if that is as its maker saw it to the cent, together with the decision on
its request. It has no locks, no reads and no roll-backs; a step in which the
clock takes requests along names them (`gone`). `ReviewsAreAtomic` says that
`ApprovalWorkflow` implements it, with the lock of the loan's row hidden.

### EventOutbox, EventConsumer, EventDelivery

A row of `domain_events` appears with its transaction's commit
(`RecordInTransaction`), so not always in the order of the ids, or is inserted
by a request that goes on to dispatch an event inline (`RecordAndDispatch`). A
dispatcher selects rows (`Select`, the oldest `BatchSize` that are pending or
failed and have attempts left), and for each counts the attempt, publishes and
marks (`CountAttempt`, `SendToBroker`, `MarkPublished`, `MarkFailed`), each a
statement of its own. Nothing claims a row, so dispatchers of several servers
hold the same ones. A server keeps one channel in a field and never renews it:
once it is `broken`, every publish of that process throws (`SendThrows`) until
`Restart`. A publish is not confirmed: `SendAndLose` is a message that was in
the socket's buffer.

`EventConsumer` runs in one server (`Home`). Channels have prefetch 1 and manual
acknowledgement; the broker requeues what a closing channel held (`Requeued`). A
handler runs on while its channel closes; `HandlerEnds` acknowledges on the
channel that is current then, by the old delivery's tag (`Acknowledge`): nothing
happens without a channel, the wrong message is acknowledged if it has the same
tag, and the broker closes the channel if none has. A lost connection schedules
one reconnection per event handler that sees it (`Reconnects`), so several
channels may be open. A connection attempt that fails is made again later and
clears the field too (`ConnectFails`). A message that waits in the queue for
longer than its time to live becomes a dead letter (`Expire`, `dead`), which
nobody reads. Registered subscribers swallow the errors of their handlers, so the
branch that returns a message to the queue is not reached; an event without a
subscriber is acknowledged at once, and counts as handled by nobody. RabbitMQ
itself is external.

`EventDelivery` is the promise: recorded, then sent, then marked and handled, any
number of times, and marks may be taken back.

### Collections and PaymentLedger

A call is one transaction at READ COMMITTED, cut at its statements; what it
writes appears in `Commit`, and the locks it holds on its way are read off its
program counter (`HasEvent`, `HasKey`, `HasLoan`, `HasReceipt`: rows and the
entries of unique indexes that others wait for). `WaitsFor` says who waits for
whom. The webhook locks event, then loan; the desk loan, then event;
`Deadlocked` is a cycle of such waits, in which PostgreSQL ends one
transaction. `Interrupt` is any other reason to roll back, a crash included. A
teller submits the repayments of `SubmissionsOf`, any number of times, as a
client does whose answer was lost (`Commit` without `Confirm`).

Three things the code does that a reader may not expect are in the model as
they are. The webhook marks an event rejected and throws inside one
transaction, so the mark rolls back and the event stays `received` (`RollBack`).
A redelivered webhook looks at a rejected event and leaves it (`FindDone`); only
the desk resolves it. A key that two requests race for is lost by the second,
which is refused, not replayed (`KeyLost`). A repayment with neither key nor receipt
is protected by nothing; none is submitted (`CollectionsAssumption`). A loan is
collectible until its balance is zero; other statuses are in `LoanServicing`.

`PaymentLedger` is the promise: a receipt or a key is booked once, against the
balance there is, and what is settled is booked and final.

### AccountingBatches

`runBatch` for one day by the jobs of several processes. Its SERIALIZABLE
transactions are one step each (`Reserve`, `LoseReservation`), the rows of
`gl_accounting_batches` and `gl_batch_runs` are one to a type and date. Of the
transaction that stores the trial balance, the period's lock is what later steps
look at (`TakeSnapshot`). A crash
leaves a batch `processing`, and the job never returns to an earlier day.

## 3. The runs

| Run | Result | Shows |
|---|---|---|
| `lifecycle` | pass | one loan of 10 cents, 2 concurrent callers, amounts 4, 9, 11 and the remainder, four staff (creator, officer, colleague, admin), one fault: `TypeOK`, `ActiveImpliesFunded`, `ChargedOnce`, `MoneyBehindApproval`, `OkMeansBooked`, `OverdrawBounded`, `KeepsTheBook` |
| `lifecycle_overdraw` | violation | `PrincipalNeverOverdrawn` with two callers: both sum the tranches before either appends one |
| `lifecycle_rejected` | violation | `RejectedIsTerminal`: a late approval brings a rejected loan back |
| `b2c` | pass | a wallet request, a cash disbursement, the job, an admin retry, a reversal request, one fault or crash: `B2CTypeOK`, `CoreDisbursedIsBooked`, `CoreFollowsAcceptance`, `CompletedIsPaid`, `CompletedNeverFails`, `OrphansSurface`, `RequestsEnd` |
| `b2c_retry` | violation | `RetryRecovers`: what the runbook promises of a `core_failed` row |
| `approvals` | pass | one loan, a maker and two checkers, two requests to write off, restructure or top up, repayments: `ApprovalTypeOK`, `ExecutedAsRequested`, `ReceivableMatchesBalance`, `OnePending`, `DecisionIsFinal`, `ReviewsAreAtomic`, `ReviewsEnd` |
| `approvals_jobs` | pass | an admin who makes and checks, two requests to write off, the overdue job, a penalty of two cents, one fault or crash: `OtherEyes`, `ExecutedAsRequested`, `WrittenOffOnce` |
| `approvals_overwritten` | violation | `WrittenOffIsFinal`: the overdue job saves a row it loaded before the write-off |
| `approvals_event` | violation | `EventsAreFacts`: the event of a write-off that rolled back |
| `outbox` | pass | two events, the job of one server, an inline dispatch and the consumer on another, one fault, break or crash: `PipelineTypeOK`, `AttemptsBounded`, `CopiesCounted`, `MarksRace`, `NoMessageVanishes`, `KeepsThePromise`, `EventsGetOut`, `QueuedIsHandled` |
| `collections` | pass | two tellers, the webhook, the desk and the penalty engine on two loans, one receipt, one key: `CollectionsTypeOK`, `ReconciledIsBooked`, `ConfirmedIsBooked`, `CreditAtPayoff`, `OnlyDesksDeadlock`, `BooksOnce`, `CallsEnd` |
| `batch_retry` | violation | `FailedIsRetried`: what the test of `runBatch` says of a failed batch |

Bounds. Amounts 9 and 11 are the two sides of the tolerance of a 10 cent loan, 4
a real part, so two partial tranches, a final one within tolerance and an
overdraft are all reachable. Two callers suffice for every race of two
statements; the theorems say the same of any number. `MaxFaults` bounds failed
statements and crashes: one is enough to interrupt each sequence at each point.
`MaxReversals` bounds a counter nothing reads. Two wallet requests for one loan
beside all the rest are more than a run can explore with its temporal properties;
the state invariants hold for any number of them by the theorems. Deadlock is
checked for the lifecycle, where requests come again; in the wallet instances
the requests are finitely many and end, so it is off there.

In the approval runs a contract comes to one cent (`Totals`), or two after a
top-up (`MaxTotal`, which also bounds how far the receivable may stray): enough
for a balance to change between the request, the reads and the update, and for
the loan to close. There a loan differs from a snapshot by a cent, within the
tolerance, or by owing nothing. In `approvals_jobs` the penalty is two cents and
`MaxTotal` three, so a loan can also differ by more than the tolerance and still
owe something: without the comparison the run finds `ExecutedAsRequested`
violated. Two requests are enough for a duplicate, for two types on one
loan and for a second write-off; two checkers for a race on one request. The
fourth and fifth type (refinance, term extension) take the arm of `Outcomes`
that restructure takes. Requests are not used again, but listing the pending ones is
always possible, so deadlock is checked.

In `outbox` two attempts and two dispatchers are what it takes to exceed the limit
and to take back a mark; three channels (`MaxChannels`) allow a reconnection that
replaces another, and an old tag that meets a new delivery. With one fault a
connection attempt fails only before the first channel; that one also fails while
another is open takes two, and is left to the theorems. Once the attempts are
used up everything stops, so deadlock is off. In `collections` loan `l1` owes 2
and is paid 1 or 3 under one key, so replay, refusal for the amount, overpayment
and the race for the key occur; the receipt reaches `l1` by its reference, no loan,
or `l2` by a teller or the desk. `MaxTotal` lets each loan reach 2, one penalty for
`l2`. Calls come again, so deadlock is checked. In `batch_retry` one fault fails
the first run, and no later one has an excuse.

Fairness (`FairB2CSpec`). A wallet request goes on until it answers: its statements
return, `disburseLoan` is bounded by its transaction timeout, the provider call
by the breaker's timeout, which is why `CallThrows` needs no help from the
provider. A run of the job goes on likewise. `Scan` is strongly fair: the timer
starts a run after every run and the scan takes rows by age, so a row that is
eligible again and again is taken. Nothing is assumed of the provider, of
tellers, admins or deciders.

Fairness (`FairApprovalSpec`). A checker's review goes on while its process lives.
It may have to wait for the row locks of other transactions, which repayments
and jobs also take: Postgres queues those who wait for a row in order of
arrival, so one that waits while the lock is free again and again gets it, which
is strong fairness of `ReviewStep`. Nothing is assumed of makers, borrowers, jobs
or the passing of time.

Fairness of the others. `FairPipelineSpec`: the dispatch job's timer starts a run
after every run and its statements return (weak fairness of a job's steps); the
broker delivers, a scheduled reconnection is made, a handler ends. Nothing is
assumed of requests, connections or restarts. `FairCollectionsSpec`: a call goes
on while its process lives; waits for locks are queued, so it is strong fairness
for each caller. `FairBatchesSpec`: the period-close timer fires and the batch's
statements return.

## 4. The proofs

`TypeCorrect` and `B2CTypeCorrect` give the types the rest stands on.

- *Active loans are funded.* `ActiveImpliesFunded` is not inductive: the commit
  of a final tranche relies on a sum read earlier. `FundedInv` adds that what a
  call saw still bounds what is in the database (`SnapshotHolds`): tranches are
  only added, so the sum seen is at most the present one, and the amount of a
  final call covers the principal from it, to a cent.
- *Success is booked, charged loans finalise once* (`BookedInv`). An active loan
  has a final tranche, and for charged loans their number is tied to the
  journal.
- *Money is approved* (`ApprovalInv`). An approver stays recorded once set, and
  every call past its first look found an approved loan.
- *The overdraft is bounded* (`OverdraftIsBounded`). A call asks for what remained
  when it looked, so of the calls in flight on a loan the last one to look saw
  what was out then, and each of the others adds at most the principal and a cent:
  in all the principal plus a cent, times the number of callers. `RoomInv` keeps
  that count: there is a caller whose own tranche and what is out leave room for
  every other call still in flight (`RoomLeft`). With one caller it is the
  principal and a cent (`SequentialNeverOverdraws`); run `lifecycle_overdraw`
  shows that two do exceed it.
- *The book is kept* (`LifecycleKeepsTheBook`). `LifecycleInv` joins the invariants
  above; a commit is a `PayPart` or `Complete` by what they say of the call that
  commits, and every other step changes nothing the book shows.
- *The composition.* `B2CStepIsLifecycleStep`: whatever the wallet code does to
  loans is a step of the lifecycle or none, so the invariants, the overdraft's
  bound and the book carry over (`B2CLifecycle`, `WalletOverdraftIsBounded`,
  `WalletKeepsTheBook`). On top, `PaymentInv` gives `CoreFollowsAcceptance` and
  `CompletedIsPaid` (before the call there is no payout; ids and retries belong
  to accepted transfers), and `LinkInv` gives `CoreDisbursedIsBooked` (a core call
  is for the row's loan and the whole remainder, and a booked final tranche
  stays).
- *The ways of a row.* `RowsMoveByTheTable` lists for each status of a wallet row the
  ones it may come from (`Before`), for every writer: the request, callbacks,
  the job, an admin's retry. It needs `FreshInv`: a retry whose row is still as it
  was scanned (`fresh`) finds it in a status a retry may claim. `completed` is no
  way to `failed`, hence `CompletedRowsNeverFail`.

- *Approvals.* The proofs stand on two lemmas that say what any step can do to
  one request (`RequestEffect`: nothing, expire it, create it, or decide it as a
  certain user) and to one review (`ReviewEffect`); with them an invariant has
  a case per effect instead of twenty per step. `ApprovalTypeCorrect` includes who
  holds which row lock. `EyesInv` (a review is a checker's who is not the maker)
  gives `MakerChecker`. `LockInv` (the lock of a request's row has one holder and
  a pending request) gives `DecidedOnce`: expiry and rejection wait for the lock,
  and a second approval finds the row decided. `HeldInv` follows a transaction
  from the read it executes on to its end: a write-off or restructure read a
  row that was the snapshot's to the cent (`ToTheCent`), from the update on the row
  stays as it was compared,
  because every other writer of `LoanServicing` waits for the lock
  (`RowsHeld`), and no write-off of the loan was booked. It gives `RanAsRequested`
  and `BookedOnce`, with any number of jobs and faults, and `LedgerMatches`.
  The last assumes that neither the overdue job nor the penalty engine runs:
  both are known to break it (section 5).
- *Reviews look atomic* (`TransactionsLookAtomic`). With the same `EyesInv`,
  `LockInv` and `HeldInv`, the commit of an approved review is the one `Execute`:
  its loan is as it was compared, so to the cent as its maker saw it, its request
  still open and nobody else's, its maker another user. Every step before it, and
  every roll-back, changes nothing the abstract workflow shows. The overdue job
  and the penalty engine are included: what they do wrong, they do to the atomic
  workflow too.

- *Events.* `OnlySentTravels` (what is about to be marked, lies on the broker or
  is in a handler was sent) makes every step of the pipeline a step of
  `EventDelivery` or none: `PipelineKeepsThePromise`. The counts need who is about
  to do what: every dispatcher between counting and marking has an attempt of its
  own (`TriesCounted`), which gives `MarksRaceOnly`; the attempts plus the
  dispatchers that hold the row and have not counted yet stay within the limit
  (`HoldersBounded`), which gives `AttemptsAreBounded`; the messages, dead letters
  included, plus the dispatchers about to send stay within the attempts
  (`CopiesAndSenders`), which gives `CopiesAreCounted`. A running handler's
  message is found under its channel and tag or is gone (`Tagged`); with one
  channel opened the tag is its own, hence `NothingVanishes`. All for any number
  of servers, dispatchers, events and faults.
- *Payments.* `CallInv` says what a call knows by the locks it holds (`CallBooks`:
  its key is unused, its loan's balance covers what it applies, its receipt is not
  booked, from the statement on that took the lock) and that no two calls hold the
  same (`Exclusive`). It makes `Commit` a `Book` of `PaymentLedger`
  (`CollectionsBookOnce`), and gives `ReconciledEventsAreBooked`,
  `ConfirmedSubmissionsAreBooked` and `CreditsPayOff`, for any number of callers,
  loans and amounts.
- *Deadlocks need a desk* (`OnlyDesksMeetInDeadlock`). Webhook and tellers take
  their locks in one order (`WaitsGoUp`: who waits for somebody other than a desk
  stands lower in that order), so a circle of waits has no way back down without
  a desk, for any number of callers.
- *Batches.* `BatchesRunAlone` and `ClosedStaysClosed` state `OneCloser`,
  `CompletedIsLocked` and `CompletedIsFinal`, which are in `AccountingBatches_Proofs`:
  no two processes run a batch, a completed one has its lock, and nothing takes it
  back. `BatchesInv` adds who has a batch reserved and what holds at each place of
  `runBatch` (`ReservedInv`). The only run of the module is the one that ends in a
  violation, so these have no run of their own.

The constants' assumptions are `ConstantsAssumption`, `CallersAssumption` (callers
are finitely many, which `Limit` counts), `B2CAssumption`, `ServicingAssumption`,
`ApprovalAssumption`, `OutboxAssumption`, `ConsumerAssumption` and
`CollectionsAssumption`. `DayAssumption` (a day has at least one batch) is a
hypothesis of the theorems about `AccountingBatches`; `LedgerMatches` has the
hypothesis that there are no jobs, `SequentialNeverOverdraws` that there is at most
one caller.

Only model-checked: the liveness properties `RequestsEnd`, `OrphansSurface`,
`ReviewsEnd`, `EventsGetOut`, `QueuedIsHandled` and `CallsEnd` (the prover does
not reason about fairness and ENABLED) and the properties of the runs that end
in a violation. Nothing here needs induction over data or recursive operators.

## 5. Findings

1. `disburseLoan` can exceed the principal (`lifecycle_overdraw`): the sum is read
   without a lock on the loan.
2. A rejected loan can come back (`lifecycle_rejected`): decisions update by id
   without the status they checked.
3. The automatic core retry cannot succeed (`b2c_retry`): it calls `disburseLoan`
   without a role, which no branch is in scope of.
4. The overdue job undoes what was committed since it loaded a loan
   (`approvals_overwritten`): a write-off here, a repayment likewise.
5. `loan.written_off` and `loan.restructured` are published before the review's
   transaction commits (`approvals_event`), contrary to the comment beside them.
6. A period-close batch that failed once can never be retried (`batch_retry`): the
   second run's row of `gl_batch_runs` meets the unique index that the test's
   harness does not have.

Seen while modelling and contradicting no document: a restructure changes the
balance without a journal; a penalty charged to a loan that was written off
meanwhile reaches the receivable but not the loan. A C2B event whose repayment was
refused stays `received`, and nothing looks for such events. A server whose
channel to RabbitMQ was lost uses up the attempts of every event it selects until
it restarts. A message may be acknowledged in place of another after a
reconnection, and is lost: `NoMessageVanishes` and `QueuedIsHandled` hold until a
second channel is opened, and no property covers what comes after but
`CopiesCounted`. A message that expires is in a queue nobody reads. A subscriber's
handler rethrows "so the broker can nack" (`AccountingGlSubscriber.ts:374-376`),
but its registration catches the error (133-136). A crash leaves an accounting
batch `processing` for good.

## 6. Not modelled, and what is left

Within the parts that are modelled: blockers, KYC and the scope of people
(preconditions that only turn requests away); allocation of a payment to
instalments, terms and rates (data); back-off and ages of rows (time); signatures
and freshness of webhooks; the STK push, which moves no money by itself; the Kafka
provider, unreadable messages and graceful stop of the consumer; the trial balance
a batch stores. `createLoan`'s check for a loan in flight is in `LoanLifecycle`;
two loans of one client beside two callers are more than a run can explore, so no
property is about it.

What could come next, in this order:

1. Accrual, with the period locks that the close sets and `postJournal` reads.
2. Capital transactions: a second maker-checker workflow, at SERIALIZABLE.
3. `tokenRotation` and the caches of revocations.

The circuit breaker has no module of its own: a call times out after 15 s and the
circuit probes after 30 s, so no late answer meets a probe, and what remains
(refusal and timeout) is in `B2CDisbursement`. Reports, onboarding, underwriting,
front ends, backup and rendering keep no state that others race for. The
components in `PROJECT.json` give each reason.
