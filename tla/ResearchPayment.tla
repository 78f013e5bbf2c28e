--------------------------- MODULE ResearchPayment ---------------------------
(***************************************************************************)
(* One funded research job of the Rust ledger (backend/src/store.rs), the   *)
(* orchestrator processes that pay its documents through Pay.sh             *)
(* (agent-orchestrator/src/runner.ts, durable-pay-client.ts), the           *)
(* reconcilers that settle or release uncertain payments                    *)
(* (agent-orchestrator/src/pay-sh-reconciler.ts) and the Solana chain they  *)
(* observe through several RPC origins.                                     *)
(*                                                                          *)
(* Every call of a runner to the ledger is a record of `calls`.  The runner *)
(* may stop waiting for it, or die, and the ledger may still execute it     *)
(* later, or never: that is how a timed-out HTTP request behaves.           *)
(***************************************************************************)
EXTENDS Integers, FiniteSets

CONSTANTS
    NDocs,          \* documents of the job, numbered by their rank
    Runners,        \* orchestrator processes that may run the job
    Attempts,       \* payment attempt ids the runners can draw (a bound)
    NoAttempt,      \* the NULL of payment_attempt_id and of a free fence
    Reconcilers,    \* reconciliation passes that may overlap
    Origins,        \* RPC origins a reconciler asks
    Faulty,         \* origins whose answers may be wrong
    Lifetime,       \* heights a signed transaction stays valid after signing
    Trusted,        \* what the second absence check can rely on, see below
    AtomicFail,     \* fail_research_job runs under the lock of one API process
    MaxFaults       \* bound on timeouts, duplicated calls and crashes

ASSUME NDocsAssumption == NDocs \in Nat \ {0}
ASSUME NoAttemptAssumption == NoAttempt \notin Attempts
ASSUME OriginsAssumption == Faulty \subseteq Origins /\ Origins \ Faulty # {}
ASSUME LifetimeAssumption == Lifetime \in Nat
ASSUME TrustedAssumption == Trusted \in {"blockhash", "delay"}
ASSUME AtomicFailAssumption == AtomicFail \in BOOLEAN
ASSUME MaxFaultsAssumption == MaxFaults \in Nat

VARIABLES
    job,            \* payment_bundle_quotes.status
    owner,          \* payment_bundle_quotes.payment_attempt_id
    funding,        \* payment_bundle_quotes.funding_source
    quote,          \* the one rail-bound payment_quotes row of each document
    fence,          \* pay_sh_quote_fences
    refunds,        \* how often each document's price was given back
    status,         \* research_payment_attempts.status
    doc,            \* ... .quote_id, as the document it quotes
    lastValid,      \* last height the prepared transaction can land at
    absent,         \* ... .absence_observed_at is set
    calls,          \* requests the ledger has not answered yet
    runner,         \* where each run of runResearchJob stands
    rec,            \* where each reconciliation of an attempt stands
    height,         \* slot the chain is producing
    view,           \* highest slot each honest origin has finalized
    sent,           \* attempts whose paid request left the process
    slot,           \* slot an attempt's transfer landed in, 0 before
    faults          \* faults used up so far

jobVars   == <<job, owner, funding, quote, fence, refunds>>
attVars   == <<status, doc, lastValid, absent>>
chainVars == <<height, view, sent, slot>>
vars      == <<jobVars, attVars, calls, runner, rec, chainVars, faults>>

Docs    == 1..NDocs
NoDoc   == 0
Honest  == Origins \ Faulty

InFlight == {"payment_in_progress", "payment_reconciliation"}
Runnable == {"funded", "processing"}
Closed   == {"completed", "refund_pending", "balance_refunded"}
Active   == {"claimed", "prepared", "ambiguous"}

Undelivered == {d \in Docs : quote[d] # "delivered"}

-----------------------------------------------------------------------------
(* Calls: `open` while the caller still waits for the answer.               *)

Call(op, r, d, a, lv, pend) ==
    [op |-> op, by |-> r, doc |-> d, att |-> a, lv |-> lv, pend |-> pend,
     open |-> TRUE]

\* "quotes" and "refund" are second halves of "plan" and "fail".
Ops == {"plan", "quotes", "begin", "prepare", "hold", "fail", "complete"}
          \cup (IF AtomicFail THEN {} ELSE {"refund"})

Calls == {c \in [op : Ops, by : Runners, doc : Docs \cup {NoDoc},
                 att : Attempts \cup {NoAttempt}, lv : Nat,
                 pend : SUBSET Docs, open : BOOLEAN] :
             c.op = "begin" => c.doc \in Docs /\ c.att \in Attempts}

SimpleCall(op, r) == Call(op, r, NoDoc, NoAttempt, 0, {})
OpenCalls(r) == {c \in calls : c.by = r /\ c.open}

RunnerIdle == [pc |-> "idle", doc |-> NoDoc, att |-> NoAttempt]

At(r, pc) == [runner EXCEPT ![r] =
                 IF pc = "idle" THEN RunnerIdle ELSE [@ EXCEPT !.pc = pc]]

\* The runner asks the ledger and waits at pc; pending are the other calls.
Ask(r, pc, pending, c) ==
    /\ runner' = At(r, pc)
    /\ calls' = pending \cup {c}

\* The catch block of runResearchJob: which request follows a failed one.
CallFailed(r, pending) ==
    IF runner[r].pc \in {"planning", "beginning", "completing"}
    THEN Ask(r, "failing", pending, SimpleCall("fail", r))
    ELSE IF runner[r].pc = "reloading"
    THEN Ask(r, "holding", pending, SimpleCall("hold", r))
    ELSE                 \* preparing (nothing was sent), holding, failing
         /\ runner' = At(r, "idle")
         /\ calls' = pending

\* The ledger refused call c.
Refuse(c) ==
    IF c.open THEN CallFailed(c.by, calls \ {c})
              ELSE calls' = calls \ {c} /\ UNCHANGED runner

\* The ledger answered call c; its caller, when still there, goes on at pc.
Answer(c, pc) ==
    /\ calls' = calls \ {c}
    /\ runner' = IF c.open THEN At(c.by, pc) ELSE runner

-----------------------------------------------------------------------------
(* The ledger: research_job_plan, its two halves.  The connection lock is   *)
(* dropped between the read of the pending handles and the quotes.          *)

ServePlan(c) ==
    /\ c.op = "plan"
    /\ IF job \in Runnable
       THEN /\ job' = "processing"
            /\ calls' = (calls \ {c})
                  \cup {[c EXCEPT !.op = "quotes", !.pend = Undelivered]}
            /\ UNCHANGED runner
       ELSE Refuse(c) /\ UNCHANGED job
    /\ UNCHANGED <<owner, funding, quote, fence, refunds, attVars, rec,
                   chainVars, faults>>

\* payment_quote returns a delivered or fenced quote first, then a live one,
\* and otherwise creates one; a second quote cannot be bound to the rail.
Unquotable(d) == quote[d] = "expired" /\ fence[d] = NoAttempt

First(d, S) == \A e \in S : d <= e

\* The top of runResearchJob's loop, with a fresh plan in hand.
Proceed(r, pending, pend) ==
    IF pend = {}
    THEN Ask(r, "completing", pending, SimpleCall("complete", r))
    ELSE /\ \E d \in pend :
            /\ First(d, pend)
            /\ runner' = [runner EXCEPT
                  ![r] = [pc |-> "verifying", doc |-> d, att |-> NoAttempt]]
         /\ calls' = pending

ServeQuotes(c) ==
    /\ c.op = "quotes"
    /\ IF \E d \in c.pend : Unquotable(d)
       THEN Refuse(c) /\ UNCHANGED quote
       ELSE /\ quote' = [d \in Docs |->
                  IF d \in c.pend /\ quote[d] = "none" THEN "live"
                                                       ELSE quote[d]]
            /\ IF ~c.open
               THEN calls' = calls \ {c} /\ UNCHANGED runner
               ELSE IF runner[c.by].pc = "reloading"
                       /\ runner[c.by].doc \in c.pend
               THEN Ask(c.by, "holding", calls \ {c}, SimpleCall("hold", c.by))
               ELSE Proceed(c.by, calls \ {c}, c.pend)
    /\ UNCHANGED <<job, owner, funding, fence, refunds, attVars, rec,
                   chainVars, faults>>

\* A mutated guard: any job that is not being paid may begin.
PayableAnyStatus(c) ==
    /\ job \notin InFlight
    /\ quote[c.doc] = "live"
    /\ fence[c.doc] = NoAttempt
    /\ status[c.att] = "none"

Payable(c) ==
    /\ job = "processing"
    /\ quote[c.doc] = "live"
    /\ fence[c.doc] = NoAttempt
    /\ status[c.att] = "none"

Owned(c) == job = "payment_in_progress" /\ owner = c.att

(* begin_research_payment: one transaction under the query and job locks.   *)
ServeBegin(c) ==
    /\ c.op = "begin"
    /\ \/ /\ Owned(c)
          /\ Answer(c, "paying")
          /\ UNCHANGED <<job, owner, fence, status, doc>>
       \/ /\ Payable(c)
          /\ job' = "payment_in_progress"
          /\ owner' = c.att
          /\ fence' = [fence EXCEPT ![c.doc] = c.att]
          /\ status' = [status EXCEPT ![c.att] = "claimed"]
          /\ doc' = [doc EXCEPT ![c.att] = c.doc]
          /\ Answer(c, "paying")
       \/ /\ ~Owned(c) /\ ~Payable(c)
          /\ Refuse(c)
          /\ UNCHANGED <<job, owner, fence, status, doc>>
    /\ UNCHANGED <<funding, quote, refunds, lastValid, absent, rec, chainVars,
                   faults>>

(* prepare_research_payment: stores the signed transaction before it is     *)
(* sent.  The attempt row is locked; a repeat of the same evidence is       *)
(* answered; a rollback hold or a challenge bound elsewhere, neither of     *)
(* them modelled, may refuse it.                                            *)
ServePrepare(c) ==
    /\ c.op = "prepare"
    /\ \/ /\ status[c.att] = "prepared" /\ lastValid[c.att] = c.lv
          /\ Answer(c, "sending")
          /\ UNCHANGED <<status, lastValid>>
       \/ /\ status[c.att] = "claimed"
          /\ Owned(c)
          /\ status' = [status EXCEPT ![c.att] = "prepared"]
          /\ lastValid' = [lastValid EXCEPT ![c.att] = c.lv]
          /\ Answer(c, "sending")
       \/ Refuse(c) /\ UNCHANGED <<status, lastValid>>
    /\ UNCHANGED <<jobVars, doc, absent, rec, chainVars, faults>>

(* hold_research_job: it never looks at which attempt its caller meant.     *)
ServeHold(c) ==
    /\ c.op = "hold"
    /\ IF job \in InFlight
       THEN /\ job' = "payment_reconciliation"
            /\ status' = [status EXCEPT ![owner] =
                             IF @ = "prepared" THEN "ambiguous" ELSE @]
       ELSE UNCHANGED <<job, status>>
    /\ Answer(c, "idle")
    /\ UNCHANGED <<owner, funding, quote, fence, refunds, doc, lastValid,
                   absent, rec, chainVars, faults>>

\* Mutated forms: the sign of the credit is wrong; the whole budget goes back.
GiveBackNegated(S) ==
    /\ refunds' = [d \in Docs |-> refunds[d] - (IF d \in S THEN 1 ELSE 0)]
    /\ job' = IF funding = "prepaid" THEN "balance_refunded"
              ELSE IF S = {} THEN "completed" ELSE "refund_pending"

GiveBackAll(S) ==
    /\ refunds' = [d \in Docs |-> refunds[d] + 1]
    /\ job' = IF funding = "prepaid" THEN "balance_refunded"
              ELSE "refund_pending"

(* The writing half of fail_research_job: back goes what was undelivered    *)
(* when the job was read.  UNIQUE(kind, reference_id) of prepaid_ledger     *)
(* rejects a second release of the same job; payout_claims has no such key. *)
GiveBack(S) ==
    /\ refunds' = [d \in Docs |-> refunds[d] + (IF d \in S THEN 1 ELSE 0)]
    /\ job' = IF funding = "prepaid" THEN "balance_refunded"
              ELSE IF S = {} THEN "completed" ELSE "refund_pending"

\* A mutated form: the ledger of releases has no unique key.
RejectedNever(c) == FALSE

Rejected(c) ==
    funding = "prepaid" /\ c.pend # {} /\ \E d \in Docs : refunds[d] > 0

\* A mutated guard: a payment in flight does not stop the refund.
FailableInFlight == job \notin Closed

Failable == job \in Runnable

ServeFail(c) ==
    /\ c.op = "fail"
    /\ IF Failable
       THEN IF AtomicFail
            THEN GiveBack(Undelivered) /\ Answer(c, "idle")
            ELSE /\ calls' = (calls \ {c})
                       \cup {[c EXCEPT !.op = "refund", !.pend = Undelivered]}
                 /\ UNCHANGED <<job, refunds, runner>>
       ELSE Answer(c, "idle") /\ UNCHANGED <<job, refunds>>
    /\ UNCHANGED <<owner, funding, quote, fence, attVars, rec, chainVars,
                   faults>>

\* PostgreSQL with several API processes: the job is written by id only.
ServeRefund(c) ==
    /\ c.op = "refund"
    /\ IF Rejected(c)
       THEN UNCHANGED <<job, refunds>>
       ELSE GiveBack(c.pend)
    /\ Answer(c, "idle")
    /\ UNCHANGED <<owner, funding, quote, fence, attVars, rec, chainVars,
                   faults>>

(* complete_research_job                                                    *)
ServeComplete(c) ==
    /\ c.op = "complete"
    /\ IF Undelivered = {} /\ job \in {"processing", "completed"}
       THEN job' = "completed" /\ Answer(c, "idle")
       ELSE Refuse(c) /\ UNCHANGED job
    /\ UNCHANGED <<owner, funding, quote, fence, refunds, attVars, rec,
                   chainVars, faults>>

Serve ==
    \E c \in calls :
        \/ ServePlan(c) \/ ServeQuotes(c) \/ ServeBegin(c) \/ ServePrepare(c)
        \/ ServeHold(c) \/ ServeFail(c) \/ ServeRefund(c) \/ ServeComplete(c)

\* The TTL of a quote passes (expires_at <= now).
QuoteExpires(d) ==
    /\ quote[d] = "live"
    /\ quote' = [quote EXCEPT ![d] = "expired"]
    /\ UNCHANGED <<job, owner, funding, fence, refunds, attVars, calls, runner,
                   rec, chainVars, faults>>

\* finalize_research_refund_job: the refund claim was paid on chain.
FinalizeRefund ==
    /\ job = "refund_pending"
    /\ job' = "balance_refunded"
    /\ UNCHANGED <<owner, funding, quote, fence, refunds, attVars, calls,
                   runner, rec, chainVars, faults>>

-----------------------------------------------------------------------------
(* A run of runResearchJob.                                                 *)

\* reconcile() polls the runnable jobs; a process runs a job once at a time.
StartRun(r) ==
    /\ runner[r].pc = "idle"
    /\ job \in Runnable
    /\ Ask(r, "planning", calls, SimpleCall("plan", r))
    /\ UNCHANGED <<jobVars, attVars, rec, chainVars, faults>>

FreshAttempt(a) ==
    /\ status[a] = "none"
    /\ \A r \in Runners : runner[r].att # a
    /\ \A c \in calls : c.att # a

\* verifyPayShChallenge accepted the offer: claim the attempt.
Begin(r) ==
    /\ runner[r].pc = "verifying"
    /\ \E a \in Attempts :
        /\ FreshAttempt(a)
        /\ runner' = [runner EXCEPT ![r].pc = "beginning", ![r].att = a]
        /\ calls' = calls \cup {Call("begin", r, runner[r].doc, a, 0, {})}
    /\ UNCHANGED <<jobVars, attVars, rec, chainVars, faults>>

\* The challenge was refused on every retry.
VerifyFails(r) ==
    /\ runner[r].pc = "verifying"
    /\ Ask(r, "failing", calls, SimpleCall("fail", r))
    /\ UNCHANGED <<jobVars, attVars, rec, chainVars, faults>>

\* The 402 challenge is signed and offered to prepare() before it is sent.
Sign(r) ==
    /\ runner[r].pc = "paying"
    /\ Ask(r, "preparing", calls,
           Call("prepare", r, runner[r].doc, runner[r].att,
                height + Lifetime, {}))
    /\ UNCHANGED <<jobVars, attVars, rec, chainVars, faults>>

\* The request ended before any credential was made.
FetchFails(r) ==
    /\ runner[r].pc = "paying"
    /\ Ask(r, "reloading", calls, SimpleCall("plan", r))
    /\ UNCHANGED <<jobVars, attVars, rec, chainVars, faults>>

\* originalFetch: the credential leaves the process.
SendPaid(r) ==
    /\ runner[r].pc = "sending"
    /\ sent' = sent \cup {runner[r].att}
    /\ runner' = At(r, "paid")
    /\ UNCHANGED <<jobVars, attVars, calls, rec, height, view, slot, faults>>

\* A response, an error or the 60 s timeout: the plan is read again once.  The
\* public proxy settles before it returns the body; that is a reconciler's pass
\* while the runner stands at "paid".
PaidReturns(r) ==
    /\ runner[r].pc = "paid"
    /\ Ask(r, "reloading", calls, SimpleCall("plan", r))
    /\ UNCHANGED <<jobVars, attVars, rec, chainVars, faults>>

Orphaned(cs) == {[c EXCEPT !.open = FALSE] : c \in cs}

\* internalJson times out after 20 s; the ledger may still run the request.
GiveUp(r) ==
    /\ OpenCalls(r) # {}
    /\ faults < MaxFaults
    /\ faults' = faults + 1
    /\ CallFailed(r, (calls \ OpenCalls(r)) \cup Orphaned(OpenCalls(r)))
    /\ UNCHANGED <<jobVars, attVars, rec, chainVars>>

\* The same request reaches the ledger twice.
Duplicate(c) ==
    /\ c.open
    /\ faults < MaxFaults
    /\ faults' = faults + 1
    /\ calls' = calls \cup Orphaned({c})
    /\ UNCHANGED <<jobVars, attVars, runner, rec, chainVars>>

\* The process dies; a restarted one starts idle.
Crash(r) ==
    /\ runner[r].pc # "idle"
    /\ faults < MaxFaults
    /\ faults' = faults + 1
    /\ runner' = At(r, "idle")
    /\ calls' = (calls \ OpenCalls(r)) \cup Orphaned(OpenCalls(r))
    /\ UNCHANGED <<jobVars, attVars, rec, chainVars>>

-----------------------------------------------------------------------------
(* The chain.  Heights matter only relative to the lifetime of a signed     *)
(* transaction, so the chain advances only while one has not expired for    *)
(* every origin.                                                            *)

Signed == {lastValid[a] : a \in {b \in Attempts : status[b] \in
              {"prepared", "ambiguous", "settled", "released"}}}
          \cup {c.lv : c \in {d \in calls : d.op = "prepare"}}

Tick ==
    /\ \E lv \in Signed : height <= lv + 1
    /\ height' = height + 1
    /\ UNCHANGED <<jobVars, attVars, calls, runner, rec, view, sent, slot,
                   faults>>

\* The transfer is included: only a sent credential, only while it is valid.
Land(a) ==
    /\ a \in sent
    /\ slot[a] = 0
    /\ height <= lastValid[a]
    /\ slot' = [slot EXCEPT ![a] = height]
    /\ UNCHANGED <<jobVars, attVars, calls, runner, rec, height, view, sent,
                   faults>>

\* An honest origin finalizes one more slot; it may lag arbitrarily.  What a
\* faulty one says is not tied to any view.
Finalize(o) ==
    /\ view[o] + 1 < height
    /\ view' = [view EXCEPT ![o] = @ + 1]
    /\ UNCHANGED <<jobVars, attVars, calls, runner, rec, height, sent, slot,
                   faults>>

-----------------------------------------------------------------------------
(* One attempt of processResearchPaymentAttempts.                           *)

Listed(a) == status[a] \in Active /\ owner = a

Resting == [pc |-> "idle", att |-> NoAttempt, st |-> "none", abs |-> FALSE]

(* isBlockhashValid is false for an expired blockhash, and for one the      *)
(* origin has not seen yet, so an absence can be recorded too early.  Either*)
(* an origin that is asked always knows the blockhash ("blockhash"), or the *)
(* wait between the two absence observations outlasts the lifetime of the   *)
(* transaction and the lag of an honest origin ("delay").                   *)
Outlived(o, a) == view[o] > lastValid[a]
Unknown(o, a)  == view[o] + Lifetime < lastValid[a]

\* A mutated form: no wait between the two observations.
ConfirmableAtOnce(a) == absent[a]

Confirmable(a) ==
    /\ absent[a]
    /\ Trusted = "delay" => \A o \in Honest : Outlived(o, a)

MayExpire(o, a) ==
    o \in Honest => \/ Outlived(o, a)
                    \/ Trusted = "delay" /\ Unknown(o, a)

\* research_payment_reconciliations: the row as it was read.  An absence
\* that is not old enough is refused by the release: nothing comes of it.
\* The ledger asks for the age at the release, the model here: an attempt is
\* listed five minutes after a deferral, unless a hold brings it forward.
List(k) ==
    /\ rec[k].pc = "idle"
    /\ \E a \in Attempts :
        /\ Listed(a)
        /\ rec' = [rec EXCEPT ![k] =
                [pc  |-> IF status[a] = "claimed" THEN "release" ELSE "scan",
                 att |-> a, st |-> status[a], abs |-> Confirmable(a)]]
    /\ UNCHANGED <<jobVars, attVars, calls, runner, chainVars, faults>>

RecAt(k, pc) == [rec EXCEPT ![k].pc = pc]
RecIdle(k) == [rec EXCEPT ![k] = Resting]

ScanResults == {"settled", "absent", "inconclusive"}

\* What scanFinalizedTransactions can return at origin o: a finalized
\* transfer or its absence, or nothing usable.  A failed transfer moves no
\* money and is handled as an absent one.
MayScan(o, a, res) ==
    o \in Honest =>
        \/ res = "inconclusive"
        \/ res = "settled" /\ slot[a] # 0 /\ slot[a] <= view[o]
        \/ res = "absent" /\ ~(slot[a] # 0 /\ slot[a] <= view[o])

\* Mutated forms: one origin is enough to settle, or to look for absence.
VerdictOfOne(res) ==
    IF \E o \in Origins : res[o] = "settled" THEN "settle"
    ELSE IF \E o \in Origins : res[o] # "absent" THEN "defer"
    ELSE "blockhash"

VerdictAbsentOnce(res) ==
    IF \A o \in Origins : res[o] = "settled" THEN "settle"
    ELSE IF \A o \in Origins : res[o] # "absent" THEN "defer"
    ELSE "blockhash"

\* unanimousSettlementSignature, and what the pass does next.
Verdict(res) ==
    IF \A o \in Origins : res[o] = "settled"
    THEN IF Cardinality(Origins) >= 2 THEN "settle" ELSE "defer"
    ELSE IF \E o \in Origins : res[o] # "absent" THEN "defer"
    ELSE "blockhash"

Scan(k) ==
    /\ rec[k].pc = "scan"
    /\ \E res \in [Origins -> ScanResults] :
        /\ \A o \in Origins : MayScan(o, rec[k].att, res[o])
        /\ rec' = RecAt(k, Verdict(res))
    /\ UNCHANGED <<jobVars, attVars, calls, runner, chainVars, faults>>

\* isBlockhashValid at every origin, after the scans.
CheckBlockhash(k) ==
    /\ rec[k].pc = "blockhash"
    /\ \E expired \in [Origins -> BOOLEAN] :
        /\ \A o \in Origins : expired[o] => MayExpire(o, rec[k].att)
        /\ rec' = RecAt(k,
              IF Cardinality(Origins) < 2 \/ \E o \in Origins : ~expired[o]
              THEN "defer"
              ELSE IF rec[k].abs THEN "release" ELSE "defer_absent")
    /\ UNCHANGED <<jobVars, attVars, calls, runner, chainVars, faults>>

\* defer_research_payment_reconciliation; the retry timer is not modelled.
Defer(k) ==
    /\ rec[k].pc \in {"defer", "defer_absent"}
    /\ absent' = IF rec[k].pc = "defer_absent"
                    /\ status[rec[k].att] \in Active
                 THEN [absent EXCEPT ![rec[k].att] = TRUE] ELSE absent
    /\ rec' = RecIdle(k)
    /\ UNCHANGED <<jobVars, status, doc, lastValid, calls, runner, chainVars,
                   faults>>

\* A mutated form: the fence of the document stays.
FreeOwnerOnly(a) ==
    /\ job' = "processing"
    /\ owner' = NoAttempt
    /\ fence' = fence

\* The job is runnable again and the document's fence is gone.
FreeOwner(a) ==
    /\ job' = "processing"
    /\ owner' = NoAttempt
    /\ fence' = [fence EXCEPT ![doc[a]] = NoAttempt]

\* A mutated guard: a held attempt cannot be released.
CanReleaseUnheld(a, st) ==
    /\ status[a] = st
    /\ st = "claimed" \/ (st = "prepared" /\ absent[a])
    /\ job \in InFlight /\ owner = a

CanRelease(a, st) ==
    /\ status[a] = st
    /\ st = "claimed" \/ absent[a]
    /\ job \in InFlight /\ owner = a

\* release_research_payment; a refusal is deferred.
Release(k) ==
    /\ rec[k].pc = "release"
    /\ LET a == rec[k].att IN
       IF CanRelease(a, rec[k].st)
       THEN /\ FreeOwner(a)
            /\ status' = [status EXCEPT ![a] = "released"]
            /\ rec' = RecIdle(k)
       ELSE /\ rec' = RecAt(k, "defer")
            /\ UNCHANGED <<job, owner, status, fence>>
    /\ UNCHANGED <<funding, quote, refunds, doc, lastValid, absent, calls,
                   runner, chainVars, faults>>

\* A mutated form: every document of the job is marked delivered.
DeliverAll(a) == quote' = [d \in Docs |-> "delivered"]

Deliver(a) == quote' = [quote EXCEPT ![doc[a]] = "delivered"]

\* A mutated guard: a held attempt cannot settle.
CanSettleUnheld(a) ==
    /\ status[a] = "prepared"
    /\ job \in InFlight /\ owner = a
    /\ fence[doc[a]] = a

CanSettle(a) ==
    /\ status[a] \in {"prepared", "ambiguous"}
    /\ job \in InFlight /\ owner = a
    /\ fence[doc[a]] = a

\* settle_research_payment and deliver_pay_sh_quote.
Settle(k) ==
    /\ rec[k].pc = "settle"
    /\ LET a == rec[k].att IN
       IF CanSettle(a)
       THEN /\ Deliver(a)
            /\ status' = [status EXCEPT ![a] = "settled"]
            /\ FreeOwner(a)
            /\ rec' = RecIdle(k)
       ELSE /\ rec' = IF status[a] = "settled" THEN RecIdle(k)
                                               ELSE RecAt(k, "defer")
            /\ UNCHANGED <<quote, status, fence, job, owner>>
    /\ UNCHANGED <<funding, refunds, doc, lastValid, absent, calls, runner,
                   chainVars, faults>>

\* The reconciler's process dies, or a call of it is never answered.
Abort(k) ==
    /\ rec[k].pc # "idle"
    /\ faults < MaxFaults
    /\ faults' = faults + 1
    /\ rec' = RecIdle(k)
    /\ UNCHANGED <<jobVars, attVars, calls, runner, chainVars>>

-----------------------------------------------------------------------------

Init ==
    /\ job = "funded"
    /\ owner = NoAttempt
    /\ funding \in {"prepaid", "agent_direct"}
    /\ quote = [d \in Docs |-> "none"]
    /\ fence = [d \in Docs |-> NoAttempt]
    /\ refunds = [d \in Docs |-> 0]
    /\ status = [a \in Attempts |-> "none"]
    /\ doc = [a \in Attempts |-> NoDoc]
    /\ lastValid = [a \in Attempts |-> 0]
    /\ absent = [a \in Attempts |-> FALSE]
    /\ calls = {}
    /\ runner = [r \in Runners |-> RunnerIdle]
    /\ rec = [k \in Reconcilers |-> Resting]
    /\ height = 1
    /\ view = [o \in Honest |-> 0]
    /\ sent = {}
    /\ slot = [a \in Attempts |-> 0]
    /\ faults = 0

RunnerStep(r) ==
    \/ StartRun(r) \/ Begin(r) \/ VerifyFails(r) \/ Sign(r) \/ FetchFails(r)
    \/ SendPaid(r) \/ PaidReturns(r)

ReconcilerStep(k) ==
    \/ List(k) \/ Scan(k) \/ CheckBlockhash(k) \/ Defer(k) \/ Release(k)
    \/ Settle(k)

Fault ==
    \/ \E r \in Runners : GiveUp(r) \/ Crash(r)
    \/ \E c \in calls : Duplicate(c)
    \/ \E k \in Reconcilers : Abort(k)

Chain ==
    \/ Tick
    \/ \E a \in Attempts : Land(a)
    \/ \E o \in Honest : Finalize(o)

\* Nothing is left to do for a job that was paid for or paid back.
Finished == job \in {"completed", "balance_refunded"} /\ UNCHANGED vars

Next ==
    \/ Serve
    \/ \E d \in Docs : QuoteExpires(d)
    \/ FinalizeRefund
    \/ \E r \in Runners : RunnerStep(r)
    \/ \E k \in Reconcilers : ReconcilerStep(k)
    \/ Fault
    \/ Chain
    \/ Finished

Spec == Init /\ [][Next]_vars

(* Fairness: the scheduler starts reconciliation passes for ever, a call of *)
(* a pass is executed, the chain and its honest origins advance, and the    *)
(* origins are not for ever unable to answer either question of a pass.     *)
(* Nothing is assumed of the runners or of their calls.                     *)
ConclusiveScan(k) == Scan(k) /\ rec'[k].pc # "defer"
ConclusiveBlockhash(k) == CheckBlockhash(k) /\ rec'[k].pc # "defer"

Fairness ==
    /\ WF_vars(Tick)
    /\ \A o \in Honest : WF_vars(Finalize(o))
    /\ \A k \in Reconcilers :
        /\ WF_vars(ReconcilerStep(k))
        /\ SF_vars(ConclusiveScan(k))
        /\ SF_vars(ConclusiveBlockhash(k))

FairSpec == Spec /\ Fairness

-----------------------------------------------------------------------------
(* Properties                                                               *)

Statuses == {"none", "claimed", "prepared", "ambiguous", "settled",
             "released"}

Pcs == {"idle", "planning", "verifying", "beginning", "paying", "preparing",
        "sending", "paid", "reloading", "holding", "failing", "completing"}

RecPcs == {"idle", "scan", "blockhash", "settle", "defer", "defer_absent",
           "release"}

JobType ==
    /\ job \in InFlight \cup Runnable \cup Closed
    /\ owner \in Attempts \cup {NoAttempt}
    /\ funding \in {"prepaid", "agent_direct"}
    /\ quote \in [Docs -> {"none", "live", "expired", "delivered"}]
    /\ fence \in [Docs -> Attempts \cup {NoAttempt}]
    /\ refunds \in [Docs -> Nat]

AttemptType ==
    /\ status \in [Attempts -> Statuses]
    /\ doc \in [Attempts -> Docs \cup {NoDoc}]
    /\ lastValid \in [Attempts -> Nat]
    /\ absent \in [Attempts -> BOOLEAN]

CallType == calls \subseteq Calls

RunnerStates == {s \in [pc : Pcs, doc : Docs \cup {NoDoc},
                        att : Attempts \cup {NoAttempt}] :
                    s.pc = "verifying" => s.doc \in Docs}

RunnerType == runner \in [Runners -> RunnerStates]

RecType ==
    rec \in [Reconcilers -> [pc : RecPcs, att : Attempts \cup {NoAttempt},
                             st : {"none"} \cup Active, abs : BOOLEAN]]

ChainType ==
    /\ height \in Nat \ {0}
    /\ view \in [Honest -> Nat]
    /\ sent \subseteq Attempts \cup {NoAttempt}
    /\ slot \in [Attempts -> Nat]

(* The type of every variable: the columns of payment_bundle_quotes,        *)
(* payment_quotes and research_payment_attempts and where each actor stands.*)
TypeOK ==
    /\ JobType /\ AttemptType
    /\ CallType /\ RunnerType /\ RecType
    /\ ChainType
    /\ faults \in Nat

Landed(a) == slot[a] # 0
Payments(d) == {a \in Attempts : doc[a] = d /\ Landed(a)}

(* The job names exactly one attempt while it is in flight: the one whose   *)
(* status is active and which holds its document's fence.  Without it an    *)
(* attempt would drop out of the reconciliation list with its payment open. *)
OneOwner ==
    /\ job \in InFlight <=> owner # NoAttempt
    /\ \A a \in Attempts :
        status[a] \in Active <=> owner = a
    /\ \A d \in Docs, a \in Attempts :
        fence[d] = a <=> owner = a /\ doc[a] = d

(* An attempt that was released, so that its document may be paid again,    *)
(* never lands: the two absence passes proved it (pay-sh-reconciler.ts).    *)
ReleasedNeverLands == \A a \in Attempts : status[a] = "released" => ~Landed(a)

(* For each document money leaves the budget at most once: as one transfer  *)
(* that landed or as one refund, whatever ran twice, late or not at all.    *)
MoneyMovesOnce ==
    \A d \in Docs : Cardinality(Payments(d)) + refunds[d] <= 1

(* A document is delivered exactly when an attempt for it was settled, and  *)
(* that one had landed (deliver_pay_sh_quote).                              *)
DeliveredIffPaid ==
    \A d \in Docs :
        quote[d] = "delivered" <=>
            \E a \in Payments(d) : status[a] = "settled"

(* A closed job accounts for every document: delivered, or refunded once,   *)
(* never both (complete_research_job, fail_research_job).                   *)
ClosedAccounts ==
    job \in Closed =>
        \A d \in Docs : refunds[d] = IF quote[d] = "delivered" THEN 0 ELSE 1

(* Settled and released attempts, closed jobs and delivered documents never *)
(* change again, whatever arrives late (the guards of begin, fail, release  *)
(* and settle and the triggers on research_payment_attempts).               *)
NeverReopened ==
    [][/\ \A a \in Attempts :
            status[a] \in {"settled", "released"} => status'[a] = status[a]
       /\ job \in Closed => job' \in Closed /\ refunds' = refunds
       /\ \A d \in Docs : quote[d] = "delivered" => quote'[d] = quote[d]]_vars

(* Where the price of a document is, in terms of the abstract budget.       *)
Money == [d \in Docs |->
    CASE refunds[d] > 0 -> "returned"
      [] refunds[d] = 0 /\ quote[d] = "delivered" -> "delivered"
      [] refunds[d] = 0 /\ quote[d] # "delivered" ->
            IF Payments(d) # {} THEN "spent" ELSE "held"]

Budget == INSTANCE PaidOnce WITH money <- Money, closed <- job \in Closed

(* Ledger, runners, reconcilers and chain together keep the promise of      *)
(* PaidOnce: a transfer lands only while the job is open and no other is    *)
(* open, and the remainder goes back in one step, once.                     *)
ImplementsPaidOnce == Budget!Spec

(* The remainder of a job is given back at most once.                       *)
RefundedOnce == \A d \in Docs : refunds[d] <= 1

(* ... of a prepaid job, even when several API processes fail it at once:   *)
(* the second release is rejected by the unique key of prepaid_ledger.      *)
PrepaidRefundedOnce == funding = "prepaid" => RefundedOnce

(* Every attempt that was claimed is settled or released in the end.        *)
AttemptsEnd ==
    \A a \in Attempts :
        status[a] \in Active ~> status[a] \in {"settled", "released"}

(* A transfer that landed is delivered in the end.                          *)
PaidIsDelivered ==
    \A a \in Attempts : Landed(a) ~> status[a] = "settled"
=============================================================================
