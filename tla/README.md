# Obolus / OpenShelf: a TLA+ verification of the money paths

Obolus sells short passages of books and agent-written documents. A buyer (a
person or a public agent) funds a *research job*, an orchestrator pays for the
job's documents one by one through Pay.sh and x402 on Solana, contributors earn
on what is sold, and every balance, fence and payout is kept by one Rust ledger
over SQLite or PostgreSQL. The part that is hard to test is what happens to the
money when requests time out, processes overlap or die, and RPC origins
disagree. This directory models that part in TLA+, checks it with TLC and proves
its central safety properties with TLAPS.

Files:

| Module | What it is |
|---|---|
| `ResearchPayment.tla` | the ledger's research jobs, the runner, the reconciler and the chain |
| `PaidOnce.tla` | the abstract budget that `ResearchPayment` implements |
| `OneTransfer.tla` | the abstract payment that `PayoutClaims` and `X402Settlement` implement |
| `PayoutClaims.tla` | a payout or refund claim, the workers that pay it, and the chain |
| `OpenCall.tla` | the escrow of a funded open call: reservations, answers, reuse, disputes, cancellation, account deletion |
| `SettlementProgram.tla` | the on-chain escrow program: one invoice, its deadlines and its vault |
| `X402Settlement.tla` | the gateway's x402 routes: fence, settlement, durable record, retries, reconciler; document or bundle funding and prepaid top-up |
| `MC*.tla` | instances of the five for TLC, with the `.cfg` files that start with the name of the module |
| `*_proofs.tla` | theorems about the five and about `OneTransfer`; those about `ResearchPayment` are in two modules, `ResearchPayment_proofs` (types, the owner, released attempts) and `ResearchBudget_proofs` (the money) |

`PROJECT.json` gives the source lines of every definition, every run, the hazards,
findings and theorems.

## 1. Inventory

| Part | Source | State | Operations that change it |
|---|---|---|---|
| Research-job ledger | `backend/src/store.rs` | `payment_bundle_quotes` (status, `payment_attempt_id`, funding), `payment_quotes`, `pay_sh_quote_fences`, `research_payment_attempts`, `prepaid_ledger` | plan, begin, prepare, hold, fail, complete, list, defer, release, settle |
| Research runner | `agent-orchestrator/src/runner.ts`, `durable-pay-client.ts`, `main.ts` | where a run of `runResearchJob` stands, one attempt id per document | poll runnable jobs, verify, begin, sign, store, send, re-read, hold / fail / complete |
| Pay.sh reconciler | `agent-orchestrator/src/pay-sh-reconciler.ts` | the row it listed | scan finalized transactions at each origin, ask for the blockhash, settle / release / defer |
| Refund and payout claims | `store.rs` (`payout_claims`), `refunds.ts`, `payment-gateway/src/payout-*.ts` | claim status, lease, signed transaction, absence time, attempt count | lease, prepare, complete, fail, observe on chain |
| Settlement program | `programs/obulus-settlement` | escrow account, its clock windows, the vault | create and fund, acknowledge, settle, dispute, resolve, refund |
| Prepaid credit and bundle funding | `store.rs`, gateway top-up | `prepaid_ledger`, reservations, `chain_payment_attempts`, `chain_settlements` | claim and release an attempt, record a chain settlement, deposit, reserve, release, withdraw |
| Open-call escrow | `store.rs` | `open_calls`, `open_call_reservations`, memory entries, dispute events, earning events | fund, reserve, answer, reuse, dispute, restore, cancel, delete the account |
| Payment gateway | `payment-gateway/src` | in memory: verified attempts, settled quotes, pending settlements, top-up quotes; outside: Cloud Tasks queue, direct attempts | verify, fence, settle, hold or release the response, record, retry, reconcile; proxy a Pay.sh request |
| AI orchestration fence | `orchestrator.rs`, `store.rs` | a generation's lease | claim, heartbeat, finish, take over |
| Others | search, quality, API routing, web client, MCP, edge proxy, scripts | none that is authoritative | pure functions, formats, forwarding |

How they interact. The orchestrator polls the ledger for runnable jobs; every
further step of a run is an HTTP request to the ledger, with a 20 s timeout and no
knowledge of whether a timed-out request will still be executed. The paid
request itself goes to Pay.sh, which submits the buyer's signed transfer to
Solana. The runner never settles: a reconciler compares each uncertain attempt
with the finalized chain at several RPC origins and tells the ledger to settle or
release it. The ledger's own guard is one mutex per process
(`backend/src/db.rs`); over PostgreSQL several processes share the tables.

What is hard, and what makes each part correct:

* **Ledger and runner**: overlapping runners, late or duplicated requests, crashes
  between storing and sending a signed transaction. Correct when each document's
  price leaves the budget at most once (as one landed transfer or one refund), a
  job in flight names exactly the attempt that is open, and nothing closed opens
  again.
* **Reconciler**: the transaction scan and the blockhash question are two calls at
  two moments, an origin may lag or lie, passes overlap. Correct when a released
  attempt never lands, a delivered document was paid, and no attempt stays
  uncertain for ever.
* **Payout claims**: leases that expire under a slow worker, a signed transaction
  that may be resubmitted, absence decided in two passes. Correct when one claim
  pays once and evidence that can still land is never discarded.
* **Settlement program**: deadlines that touch, two ways to end an escrow.
  Correct when exactly one of payee and payer receives the vault.
* **Payment gateway**: the same signed transfer or another one arrives while the first is
  under way, the facilitator's word is no evidence, an instance dies between the landing of
  a transfer and its record. Correct when a quote is paid at most once, money that moved is
  recorded, a response leaves only for a finalized transfer, and no fence stays for ever.
* **Prepaid credit**: concurrent reservations and withdrawals. Correct when the
  balance never goes below zero and each release happens once.
* **Open calls**: answers, the memory agent, late restorations, cancellation and
  account deletion compete for the last slot and the escrow. Correct when every unit of
  the funding is paid once or returned once, no contributor earns twice, and a slot that
  is offered can be paid.

The hazards are listed one by one, with their lines and the properties that
cover them, in `PROJECT.json`.

## 2. Plan

The order is by the weight of what can go wrong.

1. `ResearchPayment` with `PaidOnce` and its proofs: **done**, section 3.
2. `PayoutClaims` and its proofs: **done**, section 4.
3. `SettlementProgram` and its proofs: **done**, section 6.
4. `X402Settlement` and its proofs: **done**, section 7. It funds the job that
   `ResearchPayment` starts with and the call that `OpenCall` starts with.
5. `OpenCall` and its proofs: **done**, section 5.
6. `PrepaidLedger`: deposit, reservation, release and withdrawal of one balance. Then its
   composition with modules 1, 4 and 5, which are its customers, and with module 2, which
   pays its withdrawals.
7. `DirectPayment`: public agents' attempts through Pay.sh, with a reconciler like that of
   module 1.
8. `GenerationFence`: the lease on an AI generation.

Modules 2 and 4 implement one abstract specification, `OneTransfer`: a worker that pays a
claim out and a gateway that takes a buyer's transfer keep the same promise with different
means (evidence stored before the broadcast; a fence claimed before the settlement). Every
safety property that a run checks is also a theorem (section 8). Theorems left for the modules to come: that
`PrepaidLedger` conserves a balance together with its customers.

## 3. ResearchPayment

### State

| Variable | In the code |
|---|---|
| `job`, `owner`, `funding` | `payment_bundle_quotes.status`, `.payment_attempt_id`, `.funding_source` |
| `quote[d]` | the rail-bound `payment_quotes` row of document d: none, live, expired, delivered |
| `fence[d]` | the attempt id in `pay_sh_quote_fences` |
| `refunds[d]` | rows of `prepaid_ledger` / `payout_claims` that return the price of d |
| `status`, `doc`, `lastValid`, `absent` of an attempt | `research_payment_attempts` columns |
| `calls` | requests the ledger has not executed yet; `open` while the caller still waits |
| `runner[r]` | the await at which a run of `runResearchJob` stands |
| `rec[k]` | a pass of `processResearchPaymentAttempts`, with the row as it was read |
| `height`, `view[o]` | the slot the chain is producing, the highest slot finalized at an honest origin |
| `sent`, `slot[a]` | credentials that left the process, the slot their transfer landed in |

### Actions

* `ServePlan` … `ServeComplete` are the ledger's handlers, one per endpoint.
  `research_job_plan` drops the connection between its read of pending documents
  and its quotes, so it is two actions (`ServePlan`, `ServeQuotes`).
  `fail_research_job` is one action when one API process owns the ledger
  (`AtomicFail = TRUE`). With `AtomicFail = FALSE` it is two (`ServeFail`,
  `ServeRefund`), because the job is read outside the transaction and written by
  id only.
* `StartRun`, `Begin`, `VerifyFails`, `Sign`, `FetchFails`, `SendPaid`,
  `PaidReturns` are the runner between two awaits; `CallFailed` is its `catch`
  block. `GiveUp` is a timeout, `Duplicate` a repeated request, `Crash` a dead
  process.
* `List`, `Scan`, `CheckBlockhash`, `Defer`, `Release`, `Settle`, `Abort` are one
  attempt of a reconciliation pass; between `List` and the end the ledger and the
  chain move freely.
* `Tick`, `Land`, `Finalize` are the chain; `QuoteExpires` and `FinalizeRefund` are
  timers and the refund worker seen from the job.

### What is abstracted

* Time is nondeterministic: every timer (quote TTL, claim deadline, retry delay)
  may fire or not fire at every step, so the checks do not depend on durations,
  with the one exception named under *Trusted* below.
* A call that is lost is a call that stays in `calls` for ever.
* A transfer that failed on chain moves no money and is treated as absent.
* On the public proxy path the gateway settles an attempt before it returns the body
  (`payment-gateway/README.md:122-130`). In the model the runner waits at `paid` meanwhile and a
  reconciler's pass settles: the same steps, with no promise that they come first.
* Reasons for which `prepare_research_payment` may refuse (a rollback hold, a
  challenge bound to another quote) are one nondeterministic refusal.
* One rail-bound quote exists per document, as the unique index on the rail
  binding enforces. Amounts are equal and counted in documents.
* The job starts funded; how it is funded is module 4.
* `Finished` is a stutter in a job that has ended, so that TLC reports every other
  deadlock.
* With `AtomicFail = FALSE` only `fail_research_job` is split. The other handlers
  re-read under a row lock what they write, or are guarded by a conditional
  update, and stay atomic; their finer interleavings are not modelled.
* `Trusted`. `isBlockhashValid` answers false for an expired blockhash and also for
  one the origin has not reached. The release is safe because a second absence is
  needed: either an origin that is asked always knows the blockhash
  (`"blockhash"`), or the time between the two absences outlasts the transaction's
  lifetime and the lag of an honest origin (`"delay"`). Both are checked, and the
  theorem covers both. The ledger asks for the age of the first absence when it releases
  (`store.rs:13139`), the model when the pass lists the row. An attempt that was deferred is
  listed again after five minutes (`store.rs:13040`), when its absence is old enough either way;
  only a hold brings it forward (`store.rs:13447`), and then the delay assumed is the two
  minutes less the time the pass takes from its listing to its release.

### Runs

| Run | Question | Result |
|---|---|---|
| `ResearchPayment_runners` | Two runners on one job, two attempts, one fault (timeout, duplicate, crash), one origin of two lying: `TypeOK`, `OneOwner`, `MoneyMovesOnce`, `DeliveredIffPaid`, `NeverReopened` | holds, 3.1 M states |
| `ResearchPayment_passes` | Two overlapping passes, a liar, a laggard, origins that may not know the blockhash, several API processes: `ReleasedNeverLands`, `PrepaidRefundedOnce` | holds, 570 k states |
| `ResearchPayment_documents` | Two documents, one runner, two attempts, honest origins, no fault, under `FairSpec`: `ClosedAccounts`, the refinement of `PaidOnce`, and the liveness properties `AttemptsEnd`, `PaidIsDelivered` | holds |
| `ResearchPayment_race` | Several API processes: `MoneyMovesOnce` | violated, see the finding |

Why the bounds are enough. Two runners and two attempts are what a double payment
of one document needs; two documents are what the partial refund needs; two
passes and two origins (the minimum the code accepts) are what stale rows and
disagreement need. One fault per run already creates a late call beside a live
one, because an abandoned request stays executable for ever. `Lifetime` of 0 or 1
makes a signed transaction outlive a scan; heights beyond its end change nothing,
so `Tick` stops when every signed transaction has expired everywhere.
Symmetry over runners, attempts and passes is used in safety runs only.

Fairness. `FairSpec` assumes of the chain that it and the honest origins advance,
and of the reconciler that its passes are started for ever (`setInterval` in
`main.ts`) and their calls executed, and that the origins are not for ever unable
to answer (strong fairness of a conclusive scan and of a conclusive blockhash
answer: an outage may recur, but not at every attempt). Nothing is assumed of the
runners: they may all be dead, which is the case the reconciler exists for. The
run `documents`, which checks liveness, has only honest origins, since a liar can stall
a unanimous decision for ever.

### Finding

It needs several API processes over PostgreSQL, where `transaction()` is a plain
`BEGIN` (`db.rs:173`). `fail_research_job` reads the job before its transaction
(`store.rs:13281`) and updates it by id. Two fails of an agent-funded job that both
read it before either wrote insert a refund claim each. A prepaid job is protected
by the unique key of `prepaid_ledger` (`PrepaidRefundedOnce`). Through the same gap a
`begin_research_payment` of another process may commit in between, and the budget is
given back while the attempt it claimed may still land.

## 4. PayoutClaims

One row of `payout_claims` and the workers that pay it. Both workers follow the same
steps: the orchestrator's refund poller (`refunds.ts`) and the gateway's payout poller
(`payout-worker.ts` with `payout-reconciliation.ts`). Claims share no state, so one is
modelled.

### State

| Variable | In the code |
|---|---|
| `claim.status`, `.owner`, `.tx`, `.count` | `status`, `lease_owner`, `transaction_signature`, `attempt_count` |
| `claim.live` | `lease_expires_at` lies in the future |
| `claim.raw` | `signed_transaction_base64` is stored |
| `claim.absence` | `absence_observed_at`: none, fresh, or two minutes old ("ripe") |
| `claim.done` | `confirmed_at` is set |
| `calls` | requests the ledger has not executed yet; `open` while the worker still waits |
| `worker[w]` | the await at which the worker stands, the transfer in its hands |
| `height`, `view`, `valid`, `sent`, `slot` | the chain: height, finalized height at each honest origin, last valid height, broadcast transfers, the slot each landed in |

`late` of a worker or a call is a ghost: it says that the worker began to ask for its
transfer when all honest origins had passed its lifetime. Only `AbsenceRipens` reads it.

### Actions

* `ServeLease`, `ServePrepare`, `ServeComplete`, `ServeAbandon` and `ServeFail` are the
  four endpoints; `fail_payout_claim` with `abandonPreparedTransaction` is
  `ServeAbandon`. With `AtomicApi` each is one step. Without it each is a read and a
  write by id (`ServeTake`, `ServeStore`, `ServeConfirm`, `ServeWipe`, `ServeNote`,
  `ServeDrop`), since none of the reads takes a row lock. An expired lease is freed by an
  UPDATE before the SELECT, which locks the row, so that lease stays one step.
* `StartPass`, `Sign`, `SignFails`, `Broadcast`, `BroadcastFails`, `TimesOut`,
  `AskStatuses`, `AskHeights` are a worker between two awaits; `Thrown` is its `catch`
  block, which sends a fail. Statuses and heights are two rounds of calls, so the chain
  moves in between.
* `LeaseExpires` and `AbsenceRipens` are time; `GiveUp`, `Duplicate`, `Crash` the faults.

### What is abstracted

* A transfer that landed with an error moves no money and counts as absent. What the two
  workers do with a status that is not final (go on watching, or stop the pass) is one
  answer, `"other"`.
* A rollback hold that refuses a preparation is a nondeterministic refusal; `prepared_at`
  only keeps an absence from being noted too early, which the model allows.
* The parent job of a refund is closed in the transaction of `complete` and has no
  variable here (`FinalizeRefund` in module 1).
* A lease may expire in the middle of a pass, but not inside one database transaction.
* `AbsenceRipens` is where durations count. A pass asks, broadcasts, watches and
  reports within 115 s by its own timeouts (10 + 10 + 10 + 45 + 20 + 20), and a
  transfer outlives its signing by about one minute, against the two minutes of
  `PAYOUT_ABSENCE_CONFIRMATION_MS`. So when an absence is ripe, no pass over another
  transfer is going on, the transfer on record has expired for the honest origins, and an
  abandonment that is still under way was decided on a question asked after that.

### Runs

| Run | Question | Result |
|---|---|---|
| `PayoutClaims_workers` | Two workers under one worker id, leases that expire at any moment, one fault, one origin of two lying: `TypeOK`, `PaidOnce`, `OnRecord`, `ConfirmedIsPaid`, `EvidenceKept`, the refinement of `OneTransfer` | holds, 1.2 M states |
| `PayoutClaims_halves` | Several API processes, one fault: `ConfirmedAfterPayment` | holds, 4.2 M states |
| `PayoutClaims_live` | `PaidIsConfirmed`, `WorkEnds` under `FairSpec` | holds, 84 k states |
| `PayoutClaims_race` | Several API processes, no fault: `PaidOnce` | violated, see the finding |

Bounds. Two workers and two transfers are what a double payment needs; two origins are
the minimum the code accepts; a budget of two attempts (ten in the code) has a first, a
middle and a last state. The workers share one id, the weaker assumption: `main.ts:84`
builds it from a process id, which overlapping containers share.

Fairness. `FairSpec` assumes that workers poll for ever, that requests are executed, that
the chain, the leases and the absences advance, and that the origins are not for ever
unable to answer. A lease of ten minutes outlives a pass of two (`OutlivesPass`): it
expires only under a worker that is gone. `WorkEnds` holds for behaviours in which the
origins decide about expired transfers from some time on, since an undecided claim is
broadcast again for ever.

### Finding

Several API processes over PostgreSQL: two leases of one pending claim both pass their
SELECT, both preparations find it leased, and the second UPDATE by id replaces the stored
transfer of the first. Both are broadcast, both land.

The same split lets an abandonment that read the row before another one discarded the
evidence write `prepared` over a row without evidence, which no lease takes again. That
hazard is listed without a property.

## 5. OpenCall

One funded call for `Target` answers and everybody who touches it. Calls share no state
but the accounts of their contributors, so one is modelled.

### State

| Variable | In the code |
|---|---|
| `call.status`, `.answered`, `.mode` | `open_calls.status`, `.answered`, `.escrow_mode` |
| `call.units` | `escrow_remaining_krw` in unit prices |
| `call.total`, `.remaining` | the funded and the remaining USDC atomic amount |
| `call.paid`, `call.refunded` | sums of the earning claims, and of the refund claims or prepaid credits, of the call |
| `agents` | where `run_call_agents` stands for this call |
| `entry[u]` | the memory entry of u for this call: voided (a strike), settled, reuse, deleted |
| `dispute[u]`, `earned[u]`, `resv` | the dispute event, the earning events, the live reservations |
| `owner`, `seen` | the owner's account and what `delete_account` has read as left |

### Actions

* `Reserve`, `Unreserve` (release or expiry), `AnswerSettles` and `AnswerVoided` (the two
  outcomes of `submit_answer`), `SubmitDispute`, `Approve`, `Reject` (`review_dispute`),
  `Cancel`, `ContributorDeletes`. Each loads the call with a row lock in one transaction
  and is one step.
* `AgentMatch` is one iteration of the memory agent, in the transaction that follows the
  publication of the call; the row stays locked until `EndAgents` (`Unlocked`).
* `DeletionReads` and `DeletionWrites` are the two halves of `delete_account` of the
  owner: the first takes no lock on the call. With `OneProcess` the connection's mutex
  keeps everybody else out in between. With several processes a handler that only locks
  the call gets through. One that must insert a notification for the owner waits for the
  owner's row (`CanNotify`): the foreign key of `contributor_notifications` needs it, and
  the deletion holds it `FOR UPDATE`.
* `Accept` is the part that answers, reuse and restorations have in common: the
  conditional update, the share of the escrow, the earning.

### What is abstracted

* What makes an answer good, a memory similar or a reviewer convinced is a
  nondeterministic choice; so are profile, wallet and rate refusals.
* The call is published already. How it is funded belongs to module 4.
* `TotalsAssumption`: an on-chain total is at least one atomic unit per answer. An
  answer costs at least one won (`validate_open_call`), which is an atomic unit or more at
  any exchange rate below a million KRW per USDC.
* A contributor answers once: the entry is unique per author and call. An entry that its
  author deleted is not answered again, since the account is gone.
* A closed call with nobody left is the end, so deadlock is not checked.

### Runs

| Run | Question | Result |
|---|---|---|
| `OpenCall_escrow` | Everything in any order, one API process: `TypeOK`, `Conserved`, `SlotsAreFunded`, `AnswersPaidOnce`, `HoldersFit`, `ClosedIsFinal` | holds, 89 k states up to symmetry |

Bounds. Three answers have a first, a middle and a last one; the totals 3, 4 and 5 leave
a remainder of 0, 1 and 2 when they are divided. Four contributors are one more than the
slots, and two of them have a memory agent, so that answers, agents and restorations can
compete for the last slot. The number of atomic units plays no part beyond the remainder, which
the theorems confirm.

### What the code does not promise

Three things that a reader of the documents or of the handlers might expect:

* A reservation does not hold its slot against everybody. `backend/README.md:235` says that
  opening the interview reserves a slot for ten minutes, but `review_dispute` takes a slot
  without looking at the reservations (`store.rs:7977`), and so does the memory agent. A holder
  whose slot went that way is refused with "this open call is already full". What does
  hold is `HoldersFit`: among contributors who reserve and answer the slots are never
  overbooked, and the holders exceed the slots by no more than the slots so taken.
* With `OneProcess = FALSE`, `Conserved` fails: `delete_account` reads the remainder of a
  call without a lock (`store.rs:9342`), another process cancels the call and refunds it, and
  the deletion inserts a refund claim for the amount it read. `README.md:201` says that
  cancellation or deletion "returns the exact unused remainder"; here it is returned twice.
* `submit_answer` does not ask whether the call is open (`store.rs:5366`). An answer to a
  cancelled call is refused by the conditional update or by the empty escrow behind it, with
  another error than the one that would explain it.

## 6. SettlementProgram

One invoice of the Solana program `programs/obulus-settlement`. A transaction is atomic, so
each of its six instructions is one action.

| Variable | In the code |
|---|---|
| `invoice` | the invoice account: status, arguments, `delivered_at`, `settled_at` |
| `escrow` | balance of the token account owned by the invoice's derived address |
| `paid`, `refunded`, `donated` | what left or entered the escrow account, by receiver or sender |
| `closed` | token accounts, of recipients or the buyer's refund account, that no longer unpack |
| `verdict` | the resolver's decisions (a ghost, read by `NoFreeRefund` only) |
| `now` | the clock sysvar |

`CreateAndFund`, `AcknowledgeDelivery`, `Dispute`, `ResolveDispute`, `Settle` and `Refund` are the
instructions; `Tick`, `CloseAccount` and `Donate` are the chain around them.
`ValidArgs` is the program's check of an invoice with its saturating multiplication at
width `MaxU64`; `LibraryAccepts` is the browser library's check of the same
arguments. Only the program compares the expiry with its clock. The other way round, the
program takes any `i64` for `expires_at` (`state.rs:120`), while the library takes a JavaScript
number and refuses one that is not a safe integer (`obulusSettlementProgram.ts:212`).
`ValidatorsAgree` says that of the invoices the program accepts these are the only ones the
library refuses. Key derivation, owners, mints and signatures only tell one address from another
and are assumed to be right.

| Run | Question | Result |
|---|---|---|
| `SettlementProgram` | Every valid invoice of one or two line items, any order of instructions and deadlines: `TypeOK`, `OneSideIsPaid`, `NoFreeRefund`, `DeadlinesDisjoint`, `ValidatorsAgree`, `InvoiceEnds` | holds |

Left out: the program does not forbid a line item that names the escrow token account itself as
its recipient (`processor.rs:93-101`), and such an item would be transferred from the account to
itself and stay there. `Accounts` does not contain it, so `OneSideIsPaid` says nothing
about such an invoice. A closed account stays closed; if somebody opens it again at the same
address, an invoice that was stuck can end after all.

Bounds. The totals and amounts hold fees exactly at the cap of a tenth, just above it, and
totals large enough for the multiplication to saturate at `MaxU64 = 40000`. The windows go
one below and one above what the program admits, and the latest expiry is one above `MaxSafe`. `MaxTime` lies behind the last
deadline an accepted invoice can have, and one donation is enough to tell an emptied
escrow from a debited one.

Fairness. Settlement and refund need no signature of an interested party, so whoever is owed
can have them executed; the resolver answers; time passes. Nothing is assumed of the buyer or
the delivering agent. `InvoiceEnds` has two exceptions, which are in the code (`Stuck`). A
recipient who closed its token account makes every settlement fail as a whole, and a
delivered invoice moves otherwise only by a dispute within the window. A buyer who closed the
refund account makes every refund fail (`processor.rs:359`), even if the escrow is empty,
and an expired or refundable invoice moves in no other way. The property says that
whatever does not end stays in one of these two states for ever, so each exception is
charged to the side that caused it.

## 7. X402Settlement

One quote that is paid over x402, on either of two routes. On the *ledger* route (a
document, a bundle, an open call) a row of `chain_payment_attempts` fences the quote
and a reconciler repairs what was interrupted. On the *top-up* route everything but the
final credit is kept in the memory of one gateway instance.

| Variable | In the code |
|---|---|
| `route`, `retry` | which route the quote belongs to, how the client repeats a payment; chosen at the start |
| `quote`, `fence`, `absent`, `booked` | the ledger: the quote's row, the active attempt, its `absence_observed_at`, the settlements or deposits |
| `queue` | settlement tasks in Cloud Tasks |
| `held`, `tracked`, `settledAt`, `pending` | the memory of an instance: `topUpQuotes`, `VerifiedPaymentAttemptTracker`, `SettlementReplayGuard`, `pendingSettlements` and `pendingTopUpDeposits` |
| `req[r]` | the await at which a paid request stands |
| `rec[g]` | an instance's reconciliation cycle, with the row it listed and what it saw on chain |
| `chain`, `dead` | what has become of each signed transfer, and whether its blockhash has expired |

A signed transfer is its own attempt id, since the id is its hash. `Verify` … `Book` are
the hooks of the resource servers in their order. `Claim` and `Remember` are two actions,
because an await lies between them, as are `Settle`, `Facilitator` and `Poll`. A call to
the ledger may be executed and its answer lost. `RetryPending`, `Deliver`, `Scan`,
`ReconcileSettled` and `ReconcileAbsent` are the timers and the queue. `Crash` empties an
instance's memory. The quote's amount, receiver and memo are taken to be right: a transfer
that does not pay the quote exactly is rejected by verification.

`retry = "patient"` is a client that signs a new payment only after a refusal, or sends one
again only when the gateway refused it before any settlement. The repository's own web client
is of this kind: it repeats a request only when no transaction was signed
(`src/lib/x402.ts:531-535`). `"eager"` is any other client, and the gateway invites it:
a held response says "Retry this same resource without signing again."
(`verified-settlement.ts:110`).

Left out: attempts written before the signed transaction was stored with them, the pruning
of rows a day old, a permanent refusal of a deposit (a 4xx answer, after which
`retryPendingTopUpDeposits` drops it), rate limits, and the rollback hold beyond one more reason
for a refusal. `dead` means that the blockhash has expired: that `isBlockhashValid` is also
false for a blockhash the RPC has not seen yet is modelled in `ResearchPayment` (`Unknown`) and not
here. What stands against it in the code are durations: an attempt is listed one minute after
it was fenced at the earliest (`reconcile_after`, `store.rs:4414`), and
`release_reconciled_payment_attempt` wants five minutes between its two observations. So
`PaidAtMostOnce` and `FenceStands` assume of at least one RPC that it lags by less than that.

| Run | Question | Result |
|---|---|---|
| `X402Settlement_gateway` | Both routes, both kinds of client, two transfers, two requests, a crash, a queue: `TypeOK`, `FenceStands`, `PaidAtMostOnce`, `OnlyFinal`, the refinement of `OneTransfer`, `MovedIsBooked`, `FenceEnds`, `CreditedUnlessCrashed` | holds, 151 k states |
| `X402Settlement_retry` | An eager client, two instances, no crash: `FenceKept` | violated, see the finding |

Bounds. Two transfers are what paying a quote twice needs, and two requests let them, or one
of them twice, overlap. One instance and one crash already separate the memory from the
ledger. A second instance adds only that requests meet at the ledger instead of in memory; the
safety theorems cover any number. The top-up quote of a killed instance is unknown to every
other one, which `held` expresses with one instance as well.

Fairness. `setInterval` runs the retries and the reconciliation of every instance for ever, Cloud
Tasks repeats a task until it is accepted, the RPCs and the ledger are not out of reach for ever, blockhashes
expire and landed transfers are finalized. Nothing is assumed of clients, of the
facilitator or of the requests: they may stop anywhere.

### Finding

`onAfterVerify` claims the fence and then remembers the attempt (`main.ts:982-990`). If the
same payload comes again while the first request is under way, the claim
converges (the same transfer is the same attempt), the tracker throws, and the `catch`
releases the fence by its attempt id: the fence of the first request, whose transfer may be
broadcast already. `main.ts:1014` asks for the opposite. The transfer then
lands without a record, no reconciliation lists it, and the quote can be paid again.
`FenceStands` is the same property for patient clients, and that one is proved.

### What a top-up does not promise

`CreditedUnlessCrashed` carries its main exception in its name, so it is about lost calls and
failed answers, not about the crash itself. The credit of a settled top-up exists
only in the memory of the instance until the ledger has it (`main.ts:1340`), and a response
that is held, because finality came too late, leaves nothing that would look for the transfer
again: `onSettleFailure` logs "prepaid top-up attempt retained for reconciliation"
(`main.ts:1259`), but the reconciler lists the ledger's attempts only. The web client
tells its user after a network failure: "Retry; anything already paid credits your balance
without paying twice." (`src/lib/x402.ts:185`). A retry prepares another quote and another
transfer, and the first is credited only if neither of the above happened.

## 8. What is proved

`ResearchPayment_proofs.tla` holds for every number of documents, runners,
attempts, passes and origins:

* `TypeCorrect`: `Spec => []TypeOK`.
* `OneOwnerCorrect`: with `AtomicFail`, `Spec => []OneOwner`. `OneOwner` together with
  `TypeOK` is inductive. The assumption is needed: the gap of the finding breaks it.
* `ReleasedNeverLandsCorrect`: `Spec => []ReleasedNeverLands`, for either value of
  `Trusted` and of `AtomicFail`, any set of lying origins that leaves one honest.

The last argument needs the inductive invariant
`ReleaseInv == ChainInv /\ AbsenceInv /\ PassInv`. `ChainInv`: a landed transfer landed
within its lifetime and before the chain's height, and only a sent one with stored evidence
lands. `AbsenceInv`: an attempt with a recorded absence has expired by an honest
origin's view (with `"blockhash"`), so nothing of it can land any more *after* the
record; `PassInv` says the same of a pass that stands between its steps. One pass is not
enough: the scan precedes the blockhash answer, and the transfer may land in between.
The second scan starts after the first absence was recorded, when the transfer
either has landed at a height the honest origin has passed, and the scan finds it,
or never will. Each lemma of the module treats one action or a group that leaves the same
variables alone (`Frame`).

`ResearchBudget_proofs.tla` proves of the same instances what happens to the money:

* `DeliveredIffPaidCorrect` and `PrepaidRefundedOnceCorrect`, for one API process or several.
* With `AtomicFail`: `ClosedAccountsCorrect`, `MoneyMovesOnceCorrect`, the action property
  `NeverReopenedCorrect`, and `ImplementsPaidOnceCorrect`, the refinement of `PaidOnce`.
  The assumption is needed: the finding of section 3 breaks `MoneyMovesOnce` without it.

`DeliveredIffPaid` rests on `BookInv`: an attempt that was settled landed, and its
document is delivered; a delivered document has such an attempt; a pass about to settle
has seen the landed transfer. The rest needs `BudgetInv` as well, beside `TypeOK`, `OneOwner` and
`ReleaseInv`. `OpenUnspent`: while a job is open nothing was given back.
`ClosedAccounts` is a part of the invariant. `OwnerUndelivered`: what the fence's owner pays for is not delivered
yet. `SettledOnce`: a document has one settled attempt. Two transfers for one document would
need a second attempt while the first may land: it can begin only when the first was
settled (then the document is delivered) or released (then, by `ReleaseInv`, it
never lands). For the refinement each action is shown to be of one kind: it leaves the budget
alone, lands, settles, or closes the job.
`PrepaidRefundedOnce` is a case split: with `AtomicFail` it follows from `BudgetInv`, without
it from the unique key of `prepaid_ledger` alone.

`PayoutClaims_proofs.tla` holds for every number of workers, transfers and origins, for
shared or distinct worker ids, and any number of faults:

* `TypeCorrect`: `Spec => []TypeOK`, for one API process or several. The inductive
  `IndType` adds to the types (`Typed`) that a worker has at most one open request, that this
  is the one it waits for, and that stored bytes have a signature. With `AtomicApi`, `TypeOK`
  also says that the columns of the claim agree with its status (`Shaped`): evidence and an
  absence belong to a prepared row, a lease to a leased or prepared one. That part comes from
  `Inv` below, and the torn row of section 4 is why it needs the assumption.
* With `AtomicApi`: `OnRecordCorrect`, `PaidOnceCorrect`, `ConfirmedIsPaidCorrect`,
  `EvidenceKeptCorrect`. The assumption is needed: the finding of section 4 breaks
  `PaidOnce` without it.

They rest on one inductive invariant, `IndType /\ Inv`. A transfer is *dead* when its
lifetime has passed and it has not landed, which is stable. `RecordInv`: whatever was
sent, and whatever a worker in its pass has in hand, is on record or dead. To keep that
when evidence is discarded, `RipeInv` says that a ripe absence concerns the transfer
everybody has in hand, and `LateInv` that a question asked late finds a transfer absent
only if it is dead: the honest origin has passed its lifetime and still does not have it.
`PaidInv` says that a completion is asked only for a transfer that landed. `StepKeeps`
proves preservation once, for any step that displaces only dead transfers (`Displaced`),
moves workers and sends requests as described (`Moves`, `Requests`) and lets the chain
move on (`Onward`); each action is then shown to be such a step.

* With `AtomicApi` also `ImplementsOneTransferCorrect`, from the same invariant. The
  transfer on record is the one on offer; what is sent, unexpired and not landed is live.
  A handler that changes the transfer on record finds none there, or discards a
  dead one; a broadcast makes a transfer live only if it is on record; a landing pays, a tick may end
  a life, and every other step stutters.
* Without `AtomicApi`: `ConfirmedAfterPaymentCorrect`. `PaymentInv` says that a request to
  confirm, whole or in its second half, names a transfer that landed. It is kept because a
  worker sends such a request only after every origin, the honest one among them, reported
  the transfer finalized, and because landing is for ever.

`OneTransfer_proofs.tla` proves what the implementations thereby promise: `OnePays`, at most one
transfer moves money, and `ClosedForGood`, a recorded payment keeps the transfer that paid it
and never changes.

`OpenCall_proofs.tla` holds for every target, every total, every price and any
contributors:

* `TypeCorrect`, `AnswersPaidOnceCorrect` and `HoldersFitCorrect`, with one API process or
  several.
* With `OneProcess`: `ConservedCorrect`, `SlotsAreFundedCorrect`, `ClosedIsFinalCorrect`.
  The assumption is needed: without it `Conserved` does not hold (section 5).

`HoldersFit` is inductive together with the finiteness of the two sets it counts
(`FitInv`), whatever the number of contributors: the number of reservations and that of the answers
that overtook them change by one at most, and `SlotFor` looks at the other holders only.

The last three share one inductive invariant, `EscrowInv`. `Left` says that what an open
call has left is the price of the answers still to come (`Owed`): the quotient for each,
and a unit more for those below the remainder. `OwedStep` shows that the next answer's
price is exactly what `Owed` loses, that it is positive, and that nothing is owed after
the last; `EscrowInit` that the whole total is owed at the start. `SeenLeft` says that
what a deletion has read is still what is left when it writes.

`SettlementProgram_proofs.tla` holds for any accounts, documents, amounts, windows, width of
the arithmetic and time bound:

* `TypeCorrect`, `OneSideIsPaidAlways`, `NoFreeRefundAlways`, `DeadlinesAlwaysDisjoint`,
  `ValidatorsAlwaysAgree`.

Their inductive invariant is `IInv == TypeOK /\ OneSideIsPaid /\ InvoiceFacts`.
`ValidatorsAlwaysAgree` names the exception of `ValidatorsAgree` in both directions: of
what the program stores the library accepts exactly the invoices with a safe expiry.
`InvoiceFacts` remembers what `ValidArgs` established when the invoice was created, above all
that the line items add up to the total, without which `Settle` could not be shown to
leave only donations behind. `FeeCap` shows that a fee within a saturated product is within the exact
one, so that the program's fee cap is never laxer than the library's.

`X402Settlement_proofs.tla` holds for any number of transfers, requests, instances and crashes, with
and without the queue:

* `TypeCorrect`; `OnlyFinalAlways`; for patient clients `FenceStandsAlways`,
  `PaidAtMostOnceAlways` and `ImplementsOneTransferAlways`.

`OnlyFinal` follows from `TypeOK /\ Evidence /\ OneBooked`: every copy of a settlement, in the
queue, in an instance's memory, in a reconciliation cycle or in the hands of a
request, was made from a finalized transfer, and finality is stable; and the ledger
books a second transfer for nobody. The fence needs
`FenceInv == TypeOK /\ OneBooked /\ Absence /\ PatientSends /\ FenceStands`. `Absence` says
that an absence on record, or carried by a cycle, concerns a transfer whose blockhash
has expired, and that a transfer seen absent in a *second* cycle, after that, never
landed. `PatientSends` says that a patient client has one live request for each transfer and that nothing
is broadcast before such a request asks for it, so a request that backs out
releases a fence nobody else relies on. It is what the finding of section 7 breaks.
`PaidAtMostOnce` is then the uniqueness of the fence together with that of the record.
The refinement of `OneTransfer` needs `FenceInv` and `Evidence` together. The fenced
transfer is the one on offer until something is booked, and then the booked one is. No step changes
the ledger and the network at once (`OnePart`), so the ledger's steps offer, withdraw or
close, the network's release, pay or lapse, and the condition of the theorem, a patient
client on a ledger route, is fixed at the start: on any other the mapping is constant.

Model-checked only: the liveness properties (`AttemptsEnd`, `PaidIsDelivered`,
`PaidIsConfirmed`, `WorkEnds`, `InvoiceEnds`, `MovedIsBooked`, `FenceEnds`,
`CreditedUnlessCrashed`), because fairness and ENABLED are outside the prover. Every invariant and
every action property of the passing runs is a theorem, and so are the three
refinements. The three runs that end in a violation show that
`AtomicFail`, `AtomicApi` and the patient client are needed. No theorem is about a recursive definition,
and no module has one. Sums in `SettlementProgram` are folds of the community modules; the proofs use
only that the same sum is the same, never what it is.

## 9. Not modelled

* Modules 6 to 8 of the plan. The prepaid balance appears only as a source of funding
  (`ResearchPayment`, `OpenCall`) and as the credit at the end of a top-up. The funding
  quote of an open call goes through the ledger route of `X402Settlement`, but the two modules are not composed.
* Direct attempts of public agents through Pay.sh: their pass is that of
  `ResearchPayment`, over rows without a job.
* Search, ranking, text quality, formats, routing, authentication, the web client, the
  local agent, the MCP server, the edge proxy and the operations scripts. They keep no
  money, they are sequential, and their tests reach them. They are also most of the repository's
  lines: pages, components, translations and scripts. The share of the source
  these modules stand for is therefore small (about one line in twenty without the ledger), although they
  cover most of the steps at which money changes its state.
* The rollback audit is an operator's tool over a stopped system.
