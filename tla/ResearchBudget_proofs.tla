------------------------- MODULE ResearchBudget_proofs -------------------------
(***************************************************************************)
(* The budget of a research job: what is delivered was paid, and the price  *)
(* of a document leaves the budget once.  ResearchPayment implements        *)
(* PaidOnce.  Proved for any number of documents, runners, attempts, passes *)
(* and origins.                                                             *)
(***************************************************************************)
EXTENDS ResearchPayment_proofs, FiniteSetTheorems

-----------------------------------------------------------------------------
(* What is delivered was paid, and what was settled is delivered.           *)

\* A pass that is about to settle saw the transfer at an honest origin.
SettleOf(p) == p.pc = "settle" => p.att \in Attempts /\ Landed(p.att)

\* The attempts and the documents they pay for.
BookInv ==
    /\ \A a \in Attempts : status[a] # "none" => doc[a] \in Docs
    /\ \A a \in Attempts :
          status[a] = "settled" => Landed(a) /\ quote[doc[a]] = "delivered"
    /\ \A d \in Docs :
          quote[d] = "delivered" =>
              \E a \in Attempts : status[a] = "settled" /\ doc[a] = d
    /\ \A k \in Reconcilers : SettleOf(rec[k])

\* What no step undoes: an end of an attempt, the document it pays for, its
\* place on the chain, a delivery.
Lasting ==
    /\ \A a \in Attempts :
          /\ status[a] \in {"settled", "released"} => status'[a] = status[a]
          /\ status[a] # "none" => status'[a] # "none" /\ doc'[a] = doc[a]
          /\ Landed(a) => Landed(a)'
    /\ \A d \in Docs : quote[d] = "delivered" => quote'[d] = "delivered"

\* ... and a step that settles, delivers or claims nothing.
Unsettling ==
    /\ \A a \in Attempts :
          /\ status'[a] = "settled" => status[a] = "settled"
          /\ status'[a] # "none" => status[a] # "none" \/ doc'[a] \in Docs
    /\ \A d \in Docs : quote'[d] = "delivered" => quote[d] = "delivered"

\* The ledger settles nothing, whatever it is asked and however late.
LEMMA ServeLasts ==
    ASSUME TypeOK, NEW c \in calls,
           \/ ServePlan(c) \/ ServeQuotes(c) \/ ServeBegin(c)
           \/ ServePrepare(c) \/ ServeHold(c) \/ ServeFail(c)
           \/ ServeRefund(c) \/ ServeComplete(c)
    PROVE  Lasting /\ Unsettling /\ rec' = rec
<1> USE DEF Lasting, Unsettling, Landed, attVars, jobVars, chainVars, TypeOK,
            AttemptType, JobType
<1>1. CASE \/ ServePlan(c) \/ ServeFail(c) \/ ServeRefund(c)
           \/ ServeComplete(c)
  BY <1>1 DEF ServePlan, ServeFail, ServeRefund, ServeComplete
<1>2. CASE ServeQuotes(c)
  BY <1>2 DEF ServeQuotes
<1>3. CASE ServeBegin(c)
  <2>1. c.att \in Attempts /\ c.doc \in Docs
    BY <1>3 DEF ServeBegin, CallType, Calls
  <2> QED BY <1>3, <2>1 DEF ServeBegin, Payable
<1>4. CASE ServePrepare(c)
  BY <1>4 DEF ServePrepare
<1>5. CASE ServeHold(c)
  BY <1>5 DEF ServeHold
<1> QED BY <1>1, <1>2, <1>3, <1>4, <1>5

\* Nor does a reading pass, and a release ends only what was active.
LEMMA PassLasts ==
    ASSUME TypeOK, ReleaseInv, NEW k \in Reconcilers,
           \/ List(k) \/ Scan(k) \/ CheckBlockhash(k) \/ Defer(k)
           \/ Release(k) \/ Abort(k)
    PROVE  Lasting /\ Unsettling
<1> USE DEF Lasting, Unsettling, Landed, attVars, jobVars, chainVars, TypeOK,
            AttemptType, JobType
<1>1. CASE List(k) \/ Scan(k) \/ CheckBlockhash(k) \/ Defer(k) \/ Abort(k)
  BY <1>1 DEF List, Scan, CheckBlockhash, Defer, Abort
<1>2. CASE Release(k)
  <2>1. CASE CanRelease(rec[k].att, rec[k].st)
    <3>1. rec[k].att \in Attempts => status[rec[k].att] \in Active
      BY <2>1 DEF CanRelease, RecType, ReleaseInv, ChainInv, PastClaim, Active
    <3> QED BY <1>2, <2>1, <3>1 DEF Release, Active
  <2>2. CASE ~CanRelease(rec[k].att, rec[k].st)
    BY <1>2, <2>2 DEF Release
  <2> QED BY <2>1, <2>2
<1> QED BY <1>1, <1>2

\* Nor does a runner, a clock, the chain or a fault.
LEMMA OtherLasts ==
    ASSUME TypeOK,
           \/ \E d \in Docs : QuoteExpires(d)
           \/ FinalizeRefund
           \/ \E r \in Runners : RunnerStep(r) \/ GiveUp(r) \/ Crash(r)
           \/ \E c \in calls : Duplicate(c)
           \/ Chain
           \/ UNCHANGED vars
    PROVE  Lasting /\ Unsettling /\ rec' = rec
<1> USE DEF Lasting, Unsettling, Landed, attVars, jobVars, chainVars, TypeOK,
            AttemptType, JobType, ChainType
<1>1. CASE (\E d \in Docs : QuoteExpires(d)) \/ FinalizeRefund
  BY <1>1 DEF QuoteExpires, FinalizeRefund
<1>2. ASSUME NEW r \in Runners, RunnerStep(r) \/ GiveUp(r) \/ Crash(r)
      PROVE  Lasting /\ Unsettling /\ rec' = rec
  BY <1>2 DEF RunnerStep, StartRun, Begin, VerifyFails, Sign, FetchFails,
              SendPaid, PaidReturns, GiveUp, Crash
<1>3. CASE (\E c \in calls : Duplicate(c)) \/ UNCHANGED vars
  BY <1>3 DEF Duplicate, vars
<1>4. CASE Chain
  BY <1>4 DEF Chain, Tick, Land, Finalize
<1> QED BY <1>1, <1>2, <1>3, <1>4

\* A settlement delivers the document of the attempt the pass saw landed.
LEMMA SettleSettles ==
    ASSUME TypeOK, BookInv, NEW k \in Reconcilers, Settle(k),
           CanSettle(rec[k].att)
    PROVE  LET a == rec[k].att IN
           /\ a \in Attempts /\ doc[a] \in Docs /\ Landed(a)
           /\ status[a] \in Active /\ owner = a /\ job \in InFlight
           /\ status' = [status EXCEPT ![a] = "settled"]
           /\ quote' = [quote EXCEPT ![doc[a]] = "delivered"]
           /\ job' = "processing" /\ owner' = NoAttempt
           /\ UNCHANGED <<doc, refunds, slot, height, lastValid>>
<1>1. rec[k].att \in Attempts /\ Landed(rec[k].att)
  BY DEF Settle, BookInv, SettleOf
<1>2. doc[rec[k].att] \in Docs
  BY <1>1 DEF CanSettle, BookInv
<1> QED BY <1>1, <1>2
    DEF Settle, CanSettle, Deliver, FreeOwner, Active, chainVars

\* A refused settlement changes nothing but the pass.
LEMMA SettleRefused ==
    ASSUME TypeOK, NEW k \in Reconcilers, Settle(k), ~CanSettle(rec[k].att)
    PROVE  /\ UNCHANGED <<jobVars, attVars, calls, runner, chainVars, faults>>
           /\ rec'[k].pc \in {"idle", "defer"}
BY DEF Settle, jobVars, attVars, RecAt, RecIdle, Resting, TypeOK, RecType

\* So an end is an end.
LEMMA SettleLasts ==
    ASSUME TypeOK, BookInv, NEW k \in Reconcilers, Settle(k)
    PROVE  Lasting
<1> USE DEF Lasting, Landed, TypeOK, AttemptType, JobType
<1>1. CASE CanSettle(rec[k].att)
  BY <1>1, SettleSettles DEF Active
<1>2. CASE ~CanSettle(rec[k].att)
  BY <1>2, SettleRefused DEF attVars, jobVars, chainVars
<1> QED BY <1>1, <1>2

\* A settling pass goes on from an origin that tells the truth.
LEMMA SettlingPass ==
    ASSUME TypeOK, ReleaseInv, BookInv, Lasting, NEW k \in Reconcilers,
           ReconcilerStep(k) \/ Abort(k), NEW j \in Reconcilers
    PROVE  SettleOf(rec[j])'
<1> USE DEF TypeOK, RecType, Lasting
<1>1. ASSUME j # k
      PROVE  rec'[j] = rec[j]
  BY <1>1 DEF ReconcilerStep, List, Scan, CheckBlockhash, Defer, Release,
              Settle, Abort, RecAt, RecIdle
<1>2. CASE rec'[j] = rec[j]
  BY <1>2 DEF BookInv, SettleOf
<1>3. CASE Scan(k) /\ j = k
  <2>1. PICK res \in [Origins -> ScanResults] :
          /\ \A o \in Origins : MayScan(o, rec[k].att, res[o])
          /\ rec' = RecAt(k, Verdict(res))
    BY <1>3 DEF Scan
  <2>2. PICK o \in Origins : o \in Honest
    BY OriginsAssumption DEF Honest
  <2>3. Verdict(res) = "settle" => res[o] = "settled"
    BY DEF Verdict
  <2>4. rec[k].att \in Attempts
    BY <1>3 DEF Scan, ReleaseInv, PassInv, PassOf
  <2>5. res[o] = "settled" => Landed(rec[k].att)
    BY <2>1, <2>2 DEF MayScan, Landed
  <2> QED BY <1>3, <2>1, <2>3, <2>4, <2>5 DEF SettleOf, RecAt
<1>4. CASE /\ j = k
           /\ \/ List(k) \/ CheckBlockhash(k) \/ Defer(k) \/ Release(k)
              \/ Settle(k) \/ Abort(k)
  <2>1. rec'[k].pc # "settle"
    BY <1>4 DEF List, CheckBlockhash, Defer, Release, Settle, Abort, RecAt,
                RecIdle, Resting
  <2> QED BY <1>4, <2>1 DEF SettleOf
<1> QED BY <1>1, <1>2, <1>3, <1>4 DEF ReconcilerStep

\* A step that settles nothing keeps the books.
LEMMA BookStays ==
    ASSUME TypeOK, TypeOK', BookInv, Lasting, Unsettling,
           \A j \in Reconcilers : SettleOf(rec[j])'
    PROVE  BookInv'
<1> USE DEF Lasting, Unsettling, BookInv, TypeOK, AttemptType, JobType
<1>1. ASSUME NEW a \in Attempts, status'[a] # "none"
      PROVE  doc'[a] \in Docs
  BY <1>1
<1>2. ASSUME NEW a \in Attempts, status'[a] = "settled"
      PROVE  Landed(a)' /\ quote'[doc'[a]] = "delivered"
  BY <1>2
<1>3. ASSUME NEW d \in Docs, quote'[d] = "delivered"
      PROVE  \E a \in Attempts : status'[a] = "settled" /\ doc'[a] = d
  BY <1>3
<1> QED BY <1>1, <1>2, <1>3

\* The attempts and the documents they pay for are consistent for ever.
LEMMA BookInvCorrect == Spec => []BookInv
<1>1. Init => BookInv
  BY DEF Init, BookInv, SettleOf, Resting
<1>2. TypeOK /\ TypeOK' /\ ReleaseInv /\ BookInv /\ [Next]_vars => BookInv'
  <2> SUFFICES ASSUME TypeOK, TypeOK', ReleaseInv, BookInv, [Next]_vars
               PROVE  BookInv'
    OBVIOUS
  <2>1. ASSUME rec' = rec, Lasting
        PROVE  \A j \in Reconcilers : SettleOf(rec[j])'
    BY <2>1 DEF BookInv, SettleOf, Lasting
  <2>2. CASE Serve
    BY <2>1, <2>2, ServeLasts, BookStays DEF Serve
  <2>3. CASE \/ \E d \in Docs : QuoteExpires(d)
             \/ FinalizeRefund
             \/ \E r \in Runners : RunnerStep(r) \/ GiveUp(r) \/ Crash(r)
             \/ \E c \in calls : Duplicate(c)
             \/ Chain
             \/ UNCHANGED vars
    BY <2>1, <2>3, OtherLasts, BookStays
  <2>4. ASSUME NEW k \in Reconcilers,
               \/ List(k) \/ Scan(k) \/ CheckBlockhash(k) \/ Defer(k)
               \/ Release(k) \/ Abort(k)
        PROVE  BookInv'
    BY <2>4, PassLasts, SettlingPass, BookStays DEF ReconcilerStep
  <2>5. ASSUME NEW k \in Reconcilers, Settle(k)
        PROVE  BookInv'
    <3>1. Lasting /\ \A j \in Reconcilers : SettleOf(rec[j])'
      BY <2>5, SettleLasts, SettlingPass DEF ReconcilerStep
    <3>2. CASE CanSettle(rec[k].att)
      <4> USE DEF TypeOK, AttemptType, JobType, BookInv
      <4> DEFINE a == rec[k].att
      <4>1. /\ a \in Attempts /\ doc[a] \in Docs /\ Landed(a)
            /\ status' = [status EXCEPT ![a] = "settled"]
            /\ quote' = [quote EXCEPT ![doc[a]] = "delivered"]
            /\ UNCHANGED <<doc, slot>>
        BY <2>5, <3>2, SettleSettles
      <4> HIDE DEF a
      <4>2. ASSUME NEW b \in Attempts
            PROVE  /\ status'[b] # "none" => doc'[b] \in Docs
                   /\ status'[b] = "settled" =>
                          Landed(b)' /\ quote'[doc'[b]] = "delivered"
        BY <4>1 DEF Landed
      <4>3. ASSUME NEW d \in Docs, quote'[d] = "delivered"
            PROVE  \E b \in Attempts : status'[b] = "settled" /\ doc'[b] = d
        BY <4>1, <4>3
      <4> QED BY <3>1, <4>2, <4>3
    <3>3. CASE ~CanSettle(rec[k].att)
      <4>1. Unsettling
        BY <2>5, <3>3, SettleRefused
        DEF Unsettling, attVars, jobVars, TypeOK, AttemptType, BookInv
      <4> QED BY <3>1, <4>1, BookStays
    <3> QED BY <3>2, <3>3
  <2> QED BY <2>2, <2>3, <2>4, <2>5
      DEF Next, ReconcilerStep, Fault, Finished
<1> QED BY <1>1, <1>2, TypeCorrect, ReleaseInvCorrect, PTL DEF Spec

(* A document is delivered exactly when an attempt for it was settled, and  *)
(* that one had landed: whatever a minority or a majority of the origins    *)
(* say, and whether or not fail_research_job runs under a lock.             *)
THEOREM DeliveredIffPaidCorrect == Spec => []DeliveredIffPaid
<1>1. TypeOK /\ BookInv => DeliveredIffPaid
  BY DEF BookInv, DeliveredIffPaid, Payments, TypeOK, AttemptType
<1> QED BY <1>1, TypeCorrect, BookInvCorrect, PTL

-----------------------------------------------------------------------------
(* The budget, when the ledger runs fail_research_job under its lock.       *)

\* Nothing goes back while the job is open.
OpenUnspent == job \notin Closed => \A d \in Docs : refunds[d] = 0

\* The attempt in flight pays for a document that is not delivered.
OwnerUndelivered ==
    \A a \in Attempts :
        owner = a => doc[a] \in Docs /\ quote[doc[a]] # "delivered"

\* A document was settled by one attempt.
SettledOnce ==
    \A a, b \in Attempts :
        status[a] = "settled" /\ status[b] = "settled" /\ doc[a] = doc[b]
            => a = b

BudgetInv == OpenUnspent /\ ClosedAccounts /\ OwnerUndelivered /\ SettledOnce

\* A transfer that landed belongs to an attempt that is signed or settled.
LEMMA LandedIsSigned ==
    ASSUME TypeOK, ReleaseInv, NEW a \in Attempts, Landed(a)
    PROVE  status[a] \in {"prepared", "ambiguous", "settled"}
BY DEF ReleaseInv, ChainInv, PastClaim, Dead, Landed, TypeOK, AttemptType,
       ChainType, Statuses

\* A step that closes nothing, begins nothing and gives nothing back.
LEMMA BudgetStays ==
    ASSUME TypeOK, OneOwner, BudgetInv, Lasting, Unsettling,
           owner' \in {owner, NoAttempt}, refunds' = refunds,
           job' \in Closed <=> job \in Closed
    PROVE  BudgetInv'
<1> USE DEF Lasting, Unsettling, BudgetInv
<1>1. OpenUnspent' /\ ClosedAccounts'
  BY DEF OpenUnspent, ClosedAccounts
<1>2. OwnerUndelivered'
  <2>1. ASSUME NEW a \in Attempts, owner' = a
        PROVE  /\ owner = a /\ status[a] # "none"
    BY <2>1, NoAttemptAssumption DEF OneOwner, Active
  <2> QED BY <2>1 DEF OwnerUndelivered
<1>3. SettledOnce'
  BY DEF SettledOnce
<1> QED BY <1>1, <1>2, <1>3

\* begin_research_payment takes a document that is not delivered.
LEMMA BeginBudget ==
    ASSUME TypeOK, OneOwner, BudgetInv, NEW c \in calls, ServeBegin(c)
    PROVE  BudgetInv'
<1>1. Lasting /\ Unsettling
  BY ServeLasts
<1>2. CASE UNCHANGED <<job, owner>>
  BY <1>1, <1>2, BudgetStays DEF ServeBegin
<1>3. CASE ~UNCHANGED <<job, owner>>
  <2>1. /\ Payable(c) /\ c.op = "begin"
        /\ job' = "payment_in_progress" /\ owner' = c.att
        /\ doc' = [doc EXCEPT ![c.att] = c.doc]
        /\ UNCHANGED <<quote, refunds>>
    BY <1>3 DEF ServeBegin
  <2>2. c.att \in Attempts /\ c.doc \in Docs
    BY <2>1 DEF TypeOK, CallType, Calls
  <2>3. job \notin Closed /\ job' \notin Closed
    BY <2>1 DEF Payable, Closed
  <2>4. OpenUnspent' /\ ClosedAccounts'
    BY <2>1, <2>3 DEF BudgetInv, OpenUnspent, ClosedAccounts
  <2>5. OwnerUndelivered'
    BY <2>1, <2>2 DEF OwnerUndelivered, Payable, TypeOK, AttemptType
  <2>6. SettledOnce'
    BY <1>1 DEF BudgetInv, SettledOnce, Lasting, Unsettling
  <2> QED BY <2>4, <2>5, <2>6 DEF BudgetInv
<1> QED BY <1>2, <1>3

\* The job ends: the undelivered documents are paid back, once.
LEMMA GiveBackBudget ==
    ASSUME TypeOK, OneOwner, BudgetInv, Lasting, Unsettling,
           job \in Runnable, GiveBack(Undelivered),
           UNCHANGED <<owner, quote>>
    PROVE  BudgetInv'
<1>1. job \notin Closed /\ job \notin InFlight /\ job' \in Closed
  BY DEF Runnable, Closed, InFlight, GiveBack
<1>2. ASSUME NEW d \in Docs
      PROVE  refunds'[d] = IF quote'[d] = "delivered" THEN 0 ELSE 1
  BY <1>1 DEF GiveBack, Undelivered, BudgetInv, OpenUnspent
<1>3. OpenUnspent' /\ ClosedAccounts'
  BY <1>1, <1>2 DEF OpenUnspent, ClosedAccounts
<1>4. owner' = NoAttempt
  BY <1>1, NoOwner
<1>5. OwnerUndelivered' /\ SettledOnce'
  BY <1>4, NoAttemptAssumption
  DEF BudgetInv, OwnerUndelivered, SettledOnce, Lasting, Unsettling
<1> QED BY <1>3, <1>5 DEF BudgetInv

\* complete_research_job closes a job whose documents are all delivered.
LEMMA CompleteBudget ==
    ASSUME TypeOK, OneOwner, BudgetInv, NEW c \in calls, ServeComplete(c)
    PROVE  BudgetInv'
<1>1. Lasting /\ Unsettling
  BY ServeLasts
<1>2. CASE job' \in Closed <=> job \in Closed
  BY <1>1, <1>2, BudgetStays DEF ServeComplete
<1>3. CASE ~(job' \in Closed <=> job \in Closed)
  <2>1. /\ Undelivered = {} /\ job = "processing" /\ job' = "completed"
        /\ UNCHANGED <<owner, refunds, quote>>
    BY <1>3 DEF ServeComplete, Closed
  <2>2. OpenUnspent' /\ ClosedAccounts'
    BY <2>1 DEF BudgetInv, OpenUnspent, ClosedAccounts, Closed, Undelivered
  <2>3. OwnerUndelivered' /\ SettledOnce'
    BY <1>1, <2>1, NoOwner, NoAttemptAssumption
    DEF BudgetInv, OwnerUndelivered, SettledOnce, Lasting, Unsettling,
        InFlight
  <2> QED BY <2>2, <2>3 DEF BudgetInv
<1> QED BY <1>2, <1>3

\* A settlement delivers a document that no other attempt was settled for.
LEMMA SettleBudget ==
    ASSUME TypeOK, OneOwner, BookInv, BudgetInv, NEW k \in Reconcilers,
           Settle(k), CanSettle(rec[k].att)
    PROVE  BudgetInv'
<1> DEFINE a == rec[k].att
<1>1. /\ a \in Attempts /\ doc[a] \in Docs
      /\ owner = a /\ job \in InFlight
      /\ status' = [status EXCEPT ![a] = "settled"]
      /\ job' = "processing" /\ owner' = NoAttempt
      /\ UNCHANGED <<doc, refunds>>
  BY SettleSettles
<1> HIDE DEF a
<1>2. job \notin Closed /\ job' \notin Closed
  BY <1>1 DEF InFlight, Closed
<1>3. OpenUnspent' /\ ClosedAccounts'
  BY <1>1, <1>2 DEF BudgetInv, OpenUnspent, ClosedAccounts
<1>4. OwnerUndelivered'
  BY <1>1, NoAttemptAssumption DEF OwnerUndelivered
<1>5. ASSUME NEW b \in Attempts, status[b] = "settled"
      PROVE  doc[b] # doc[a]
  BY <1>1, <1>5 DEF BookInv, BudgetInv, OwnerUndelivered
<1>6. SettledOnce'
  BY <1>1, <1>5 DEF BudgetInv, SettledOnce, TypeOK, AttemptType
<1> QED BY <1>3, <1>4, <1>6 DEF BudgetInv

\* No other step spends or returns anything.
LEMMA QuietBudget ==
    ASSUME AtomicFail, TypeOK, OneOwner, ReleaseInv, BookInv, BudgetInv,
           \/ \E c \in calls :
                 \/ ServePlan(c) \/ ServeQuotes(c) \/ ServePrepare(c)
                 \/ ServeHold(c) \/ (ServeFail(c) /\ ~Failable)
           \/ \E d \in Docs : QuoteExpires(d)
           \/ FinalizeRefund
           \/ \E r \in Runners : RunnerStep(r) \/ GiveUp(r) \/ Crash(r)
           \/ \E c \in calls : Duplicate(c)
           \/ Chain
           \/ \E k \in Reconcilers :
                 \/ List(k) \/ Scan(k) \/ CheckBlockhash(k) \/ Defer(k)
                 \/ Release(k) \/ Abort(k)
                 \/ Settle(k) /\ ~CanSettle(rec[k].att)
           \/ UNCHANGED vars
    PROVE  /\ Lasting /\ Unsettling
           /\ owner' \in {owner, NoAttempt} /\ refunds' = refunds
           /\ job' \in Closed <=> job \in Closed
<1> USE DEF attVars, jobVars, chainVars
<1>1. ASSUME NEW c \in calls,
             \/ ServePlan(c) \/ ServeQuotes(c) \/ ServePrepare(c)
             \/ ServeHold(c) \/ (ServeFail(c) /\ ~Failable)
      PROVE  /\ owner' \in {owner, NoAttempt} /\ refunds' = refunds
             /\ job' \in Closed <=> job \in Closed
  BY <1>1 DEF ServePlan, ServeQuotes, ServePrepare, ServeHold, ServeFail,
              Runnable, Closed, InFlight
<1>2. CASE FinalizeRefund
  BY <1>2, OtherLasts DEF FinalizeRefund, Closed
<1>3. CASE \/ \E d \in Docs : QuoteExpires(d)
           \/ \E r \in Runners : RunnerStep(r) \/ GiveUp(r) \/ Crash(r)
           \/ \E c \in calls : Duplicate(c)
           \/ Chain
           \/ UNCHANGED vars
  <2>1. UNCHANGED <<job, owner, refunds>>
    BY <1>3
    DEF QuoteExpires, RunnerStep, StartRun, Begin, VerifyFails, Sign,
        FetchFails, SendPaid, PaidReturns, GiveUp, Crash, Duplicate, Chain,
        Tick, Land, Finalize, vars
  <2> QED BY <1>3, <2>1, OtherLasts
<1>4. ASSUME NEW k \in Reconcilers,
             \/ List(k) \/ Scan(k) \/ CheckBlockhash(k) \/ Defer(k)
             \/ Release(k) \/ Abort(k)
      PROVE  /\ owner' \in {owner, NoAttempt} /\ refunds' = refunds
             /\ job' \in Closed <=> job \in Closed
  BY <1>4 DEF List, Scan, CheckBlockhash, Defer, Release, Abort, CanRelease,
              FreeOwner, InFlight, Closed
<1>5. ASSUME NEW k \in Reconcilers, Settle(k), ~CanSettle(rec[k].att)
      PROVE  /\ Lasting /\ Unsettling
             /\ owner' \in {owner, NoAttempt} /\ refunds' = refunds
             /\ job' \in Closed <=> job \in Closed
  BY <1>5, SettleRefused, SettleLasts
  DEF Unsettling, TypeOK, AttemptType, BookInv
<1> QED BY <1>1, <1>2, <1>3, <1>4, <1>5, ServeLasts, PassLasts

\* The steps that matter to the budget, and all others.
Quiet ==
    /\ Lasting /\ Unsettling
    /\ owner' \in {owner, NoAttempt} /\ refunds' = refunds
    /\ job' \in Closed <=> job \in Closed

Closing ==
    \E c \in calls :
        \/ ServeFail(c) /\ Failable /\ GiveBack(Undelivered)
        \/ ServeComplete(c)

Settling ==
    \E k \in Reconcilers : Settle(k) /\ CanSettle(rec[k].att)

\* Every step is one of them.
LEMMA BudgetSteps ==
    ASSUME AtomicFail, TypeOK, OneOwner, ReleaseInv, BookInv, BudgetInv,
           [Next]_vars
    PROVE  Quiet \/ Closing \/ Settling \/ \E c \in calls : ServeBegin(c)
<1>1. ASSUME NEW c \in calls, ServeFail(c), Failable
      PROVE  Closing
  BY <1>1 DEF Closing, ServeFail
<1>2. ASSUME NEW c \in calls
      PROVE  ~ServeRefund(c)
  BY DEF ServeRefund, TypeOK, CallType, Calls, Ops
<1>3. CASE Serve
  <2>1. PICK c \in calls :
          \/ ServePlan(c) \/ ServeQuotes(c) \/ ServeBegin(c)
          \/ ServePrepare(c) \/ ServeHold(c) \/ ServeFail(c)
          \/ ServeRefund(c) \/ ServeComplete(c)
    BY <1>3 DEF Serve
  <2>2. CASE \/ ServePlan(c) \/ ServeQuotes(c) \/ ServePrepare(c)
             \/ ServeHold(c) \/ (ServeFail(c) /\ ~Failable)
    BY <2>2, QuietBudget DEF Quiet
  <2>3. CASE ServeBegin(c) \/ ServeComplete(c)
    BY <2>3 DEF Closing
  <2>4. CASE ServeFail(c) /\ Failable
    BY <1>1, <2>4
  <2>5. CASE ServeRefund(c)
    BY <1>2, <2>5
  <2> QED BY <2>1, <2>2, <2>3, <2>4, <2>5
<1>4. CASE \E k \in Reconcilers : ReconcilerStep(k)
  BY <1>4, QuietBudget DEF ReconcilerStep, Quiet, Settling
<1>5. CASE \/ \E d \in Docs : QuoteExpires(d)
           \/ FinalizeRefund
           \/ \E r \in Runners : RunnerStep(r)
           \/ Fault \/ Chain
           \/ UNCHANGED vars
  BY <1>5, QuietBudget DEF Fault, Quiet
<1> QED BY <1>3, <1>4, <1>5 DEF Next, Finished

\* The budget is accounted for in every reachable state.
LEMMA BudgetInvCorrect ==
    ASSUME AtomicFail
    PROVE  Spec => []BudgetInv
<1>1. Init => BudgetInv
  BY NoAttemptAssumption
  DEF Init, BudgetInv, OpenUnspent, ClosedAccounts, OwnerUndelivered,
      SettledOnce, Closed
<1>2. /\ TypeOK /\ OneOwner /\ ReleaseInv /\ BookInv /\ BudgetInv
      /\ [Next]_vars
      => BudgetInv'
  <2> SUFFICES ASSUME TypeOK, OneOwner, ReleaseInv, BookInv, BudgetInv,
                      [Next]_vars
               PROVE  BudgetInv'
    OBVIOUS
  <2>1. CASE Quiet
    BY <2>1, BudgetStays DEF Quiet
  <2>2. CASE Closing
    <3>1. ASSUME NEW c \in calls, ServeFail(c), Failable, GiveBack(Undelivered)
          PROVE  BudgetInv'
      <4>1. UNCHANGED <<owner, quote>>
        BY <3>1 DEF ServeFail
      <4> QED BY <3>1, <4>1, ServeLasts, GiveBackBudget DEF Failable
    <3> QED BY <2>2, <3>1, CompleteBudget DEF Closing
  <2>3. CASE Settling
    BY <2>3, SettleBudget DEF Settling
  <2>4. CASE \E c \in calls : ServeBegin(c)
    BY <2>4, BeginBudget
  <2> QED BY <2>1, <2>2, <2>3, <2>4, BudgetSteps
<1> QED BY <1>1, <1>2, TypeCorrect, OneOwnerCorrect, ReleaseInvCorrect,
           BookInvCorrect, PTL DEF Spec

(* A closed job accounts for every document: delivered, or refunded once.   *)
THEOREM ClosedAccountsCorrect ==
    ASSUME AtomicFail
    PROVE  Spec => []ClosedAccounts
<1>1. BudgetInv => ClosedAccounts
  BY DEF BudgetInv
<1> QED BY <1>1, BudgetInvCorrect, PTL

\* Two transfers for one document cannot both have landed.
LEMMA OnePayment ==
    ASSUME TypeOK, OneOwner, ReleaseInv, BookInv, BudgetInv,
           NEW d \in Docs, NEW a \in Payments(d), NEW b \in Payments(d)
    PROVE  a = b
<1>1. /\ a \in Attempts /\ b \in Attempts
      /\ doc[a] = d /\ doc[b] = d
      /\ status[a] \in Active \/ status[a] = "settled"
      /\ status[b] \in Active \/ status[b] = "settled"
  BY LandedIsSigned DEF Payments, Active
<1>2. CASE status[a] \in Active /\ status[b] \in Active
  BY <1>1, <1>2 DEF OneOwner
<1>3. CASE status[a] = "settled" /\ status[b] = "settled"
  BY <1>1, <1>3 DEF BudgetInv, SettledOnce
<1>4. ASSUME NEW e \in {a, b}, status[e] \in Active,
             NEW f \in {a, b}, status[f] = "settled"
      PROVE  FALSE
  BY <1>1, <1>4 DEF OneOwner, BookInv, BudgetInv, OwnerUndelivered
<1> QED BY <1>1, <1>2, <1>3, <1>4

\* In a closed job only settled attempts have landed.
LEMMA ClosedPayment ==
    ASSUME TypeOK, OneOwner, ReleaseInv, BookInv, job \in Closed,
           NEW d \in Docs, NEW a \in Payments(d)
    PROVE  quote[d] = "delivered"
<1>1. a \in Attempts /\ doc[a] = d /\ Landed(a)
  BY DEF Payments
<1>2. status[a] \notin Active
  BY <1>1, NoOwner DEF Closed, InFlight
<1> QED BY <1>1, <1>2, LandedIsSigned DEF Active, BookInv

(* For each document money leaves the budget at most once, as one landed    *)
(* transfer or as one refund, whatever ran twice, late or not at all, as    *)
(* long as fail_research_job runs under one process's lock.                 *)
THEOREM MoneyMovesOnceCorrect ==
    ASSUME AtomicFail
    PROVE  Spec => []MoneyMovesOnce
<1>1. TypeOK /\ OneOwner /\ ReleaseInv /\ BookInv /\ BudgetInv
        => MoneyMovesOnce
  <2> SUFFICES ASSUME TypeOK, OneOwner, ReleaseInv, BookInv, BudgetInv,
                      NEW d \in Docs
               PROVE  Cardinality(Payments(d)) + refunds[d] <= 1
    BY DEF MoneyMovesOnce
  <2>1. CASE Payments(d) = {}
    <3>1. Cardinality(Payments(d)) = 0
      BY <2>1, FS_EmptySet
    <3>2. refunds[d] \in {0, 1}
      BY DEF BudgetInv, OpenUnspent, ClosedAccounts
    <3> QED BY <3>1, <3>2
  <2>2. CASE Payments(d) # {}
    <3>1. PICK a : a \in Payments(d)
      BY <2>2
    <3>2. Payments(d) = {a}
      BY <3>1, OnePayment
    <3>3. Cardinality(Payments(d)) = 1
      BY <3>2, FS_Singleton
    <3>4. refunds[d] = 0
      BY <3>1, ClosedPayment DEF BudgetInv, OpenUnspent, ClosedAccounts
    <3> QED BY <3>3, <3>4
  <2> QED BY <2>1, <2>2
<1> QED BY <1>1, TypeCorrect, OneOwnerCorrect, ReleaseInvCorrect,
           BookInvCorrect, BudgetInvCorrect, PTL

\* Settled and released attempts and delivered documents never change again.
LEMMA AlwaysLasting ==
    ASSUME TypeOK, ReleaseInv, BookInv, [Next]_vars
    PROVE  Lasting
<1>1. CASE Serve
  BY <1>1, ServeLasts DEF Serve
<1>2. ASSUME NEW k \in Reconcilers, ReconcilerStep(k) \/ Abort(k)
      PROVE  Lasting
  BY <1>2, PassLasts, SettleLasts DEF ReconcilerStep
<1>3. CASE \/ \E d \in Docs : QuoteExpires(d)
           \/ FinalizeRefund
           \/ \E r \in Runners : RunnerStep(r) \/ GiveUp(r) \/ Crash(r)
           \/ \E c \in calls : Duplicate(c)
           \/ Chain
           \/ UNCHANGED vars
  BY <1>3, OtherLasts
<1> QED BY <1>1, <1>2, <1>3 DEF Next, Fault, Finished

\* A job that was closed stays closed and gives nothing more back.
LEMMA ClosedStays ==
    ASSUME AtomicFail, TypeOK, OneOwner, ReleaseInv, BookInv, BudgetInv,
           [Next]_vars, job \in Closed
    PROVE  job' \in Closed /\ refunds' = refunds
<1>1. ASSUME NEW c \in calls, ServeBegin(c)
      PROVE  job' \in Closed /\ refunds' = refunds
  BY <1>1 DEF ServeBegin, Owned, Payable, Closed
<1>2. CASE Closing
  BY <1>2 DEF Closing, ServeComplete, Failable, Runnable, Closed
<1>3. CASE Settling
  BY <1>3, SettleSettles DEF Settling, InFlight, Closed
<1> QED BY <1>1, <1>2, <1>3, BudgetSteps DEF Quiet

(* Settled and released attempts, closed jobs and delivered documents never *)
(* change again, whatever arrives late, as long as fail_research_job runs   *)
(* under one process's lock.                                                *)
THEOREM NeverReopenedCorrect ==
    ASSUME AtomicFail
    PROVE  Spec => NeverReopened
<1> DEFINE A == /\ \A a \in Attempts :
                     status[a] \in {"settled", "released"} =>
                         status'[a] = status[a]
                /\ job \in Closed => job' \in Closed /\ refunds' = refunds
                /\ \A d \in Docs :
                     quote[d] = "delivered" => quote'[d] = quote[d]
<1>1. /\ TypeOK /\ OneOwner /\ ReleaseInv /\ BookInv /\ BudgetInv
      /\ [Next]_vars
      => [A]_vars
  BY AlwaysLasting, ClosedStays DEF Lasting
<1>2. Spec => [][A]_vars
  BY <1>1, TypeCorrect, OneOwnerCorrect, ReleaseInvCorrect, BookInvCorrect,
     BudgetInvCorrect, PTL DEF Spec
<1> QED BY <1>2 DEF NeverReopened

-----------------------------------------------------------------------------
(* Several API processes: the unique key of prepaid_ledger.                 *)

\* A second release of a prepaid job is rejected, or gives nothing back.
LEMMA PrepaidStays ==
    ASSUME ~AtomicFail, TypeOK, PrepaidRefundedOnce, [Next]_vars
    PROVE  PrepaidRefundedOnce'
<1> USE DEF TypeOK, JobType, PrepaidRefundedOnce, RefundedOnce, attVars,
            jobVars, chainVars
<1>1. CASE UNCHANGED <<funding, refunds>>
  BY <1>1
<1>2. ASSUME NEW c \in calls, ServeFail(c) \/ ServeRefund(c)
      PROVE  PrepaidRefundedOnce'
  <2>1. CASE UNCHANGED <<funding, refunds>>
    BY <1>1, <2>1
  <2>2. CASE ~UNCHANGED <<funding, refunds>>
    <3>1. funding' = funding /\ GiveBack(c.pend) /\ ~Rejected(c)
      BY <1>2, <2>2 DEF ServeFail, ServeRefund
    <3>2. CASE funding = "prepaid"
      BY <3>1, <3>2 DEF Rejected, GiveBack
    <3> QED BY <3>1, <3>2
  <2> QED BY <2>1, <2>2
<1>3. ASSUME NEW c \in calls,
             \/ ServePlan(c) \/ ServeQuotes(c) \/ ServeBegin(c)
             \/ ServePrepare(c) \/ ServeHold(c) \/ ServeComplete(c)
      PROVE  UNCHANGED <<funding, refunds>>
  BY <1>3 DEF ServePlan, ServeQuotes, ServeBegin, ServePrepare, ServeHold,
              ServeComplete
<1>4. ASSUME NEW r \in Runners, RunnerStep(r) \/ GiveUp(r) \/ Crash(r)
      PROVE  UNCHANGED <<funding, refunds>>
  BY <1>4 DEF RunnerStep, StartRun, Begin, VerifyFails, Sign, FetchFails,
              SendPaid, PaidReturns, GiveUp, Crash
<1>5. ASSUME NEW k \in Reconcilers, ReconcilerStep(k) \/ Abort(k)
      PROVE  UNCHANGED <<funding, refunds>>
  BY <1>5 DEF ReconcilerStep, List, Scan, CheckBlockhash, Defer, Release,
              Settle, Abort
<1>6. CASE \/ \E d \in Docs : QuoteExpires(d)
           \/ FinalizeRefund
           \/ \E c \in calls : Duplicate(c)
           \/ Chain
           \/ UNCHANGED vars
  BY <1>6 DEF QuoteExpires, FinalizeRefund, Duplicate, Chain, Tick, Land,
              Finalize, vars
<1> QED BY <1>1, <1>2, <1>3, <1>4, <1>5, <1>6
    DEF Next, Serve, Fault, Finished

(* The remainder of a prepaid job is given back at most once, with one API  *)
(* process or with several that fail it at the same time.                   *)
THEOREM PrepaidRefundedOnceCorrect == Spec => []PrepaidRefundedOnce
<1>1. CASE AtomicFail
  <2>1. BudgetInv => PrepaidRefundedOnce
    BY DEF BudgetInv, OpenUnspent, ClosedAccounts, PrepaidRefundedOnce,
           RefundedOnce
  <2> QED BY <1>1, <2>1, BudgetInvCorrect, PTL
<1>2. CASE ~AtomicFail
  <2>1. Init => PrepaidRefundedOnce
    BY DEF Init, PrepaidRefundedOnce, RefundedOnce
  <2>2. TypeOK /\ PrepaidRefundedOnce /\ [Next]_vars => PrepaidRefundedOnce'
    BY <1>2, PrepaidStays
  <2> QED BY <2>1, <2>2, TypeCorrect, PTL DEF Spec
<1> QED BY <1>1, <1>2

-----------------------------------------------------------------------------
(* ResearchPayment implements PaidOnce: a landing is Spend, a settlement    *)
(* Deliver, the end of the job Close, and every other step a stutter.       *)

\* Where the price of document d is.
Place(d) ==
    IF refunds[d] > 0 THEN "returned"
    ELSE IF quote[d] = "delivered" THEN "delivered"
    ELSE IF Payments(d) # {} THEN "spent" ELSE "held"

\* Money says it of every document, before and after a step.
LEMMA MoneyPlaces ==
    ASSUME TypeOK, TypeOK'
    PROVE  /\ Money = [d \in Docs |-> Place(d)]
           /\ Money' = [d \in Docs |-> Place(d)']
<1>1. Money = [d \in Docs |-> Place(d)]
  BY DEF Money, Place, TypeOK, JobType
<1>2. Money' = [d \in Docs |-> Place(d)']
  BY DEF Money, Place, TypeOK, JobType
<1> QED BY <1>1, <1>2

\* A step that moves the price of one document.
LEMMA MoneyMoves ==
    ASSUME TypeOK, TypeOK', NEW e \in Docs, NEW p,
           \A d \in Docs : Place(d)' = IF d = e THEN p ELSE Place(d)
    PROVE  Money' = [Money EXCEPT ![e] = p]
BY MoneyPlaces

\* A spent price is that of an attempt under way.
LEMMA SpentIsActive ==
    ASSUME TypeOK, ReleaseInv, BookInv, NEW d \in Docs, Place(d) = "spent"
    PROVE  \E a \in Payments(d) : a \in Attempts /\ status[a] \in Active
<1>1. quote[d] # "delivered" /\ Payments(d) # {}
  BY DEF Place
<1>2. PICK a \in Payments(d) : TRUE
  BY <1>1
<1>3. a \in Attempts /\ Landed(a) /\ doc[a] = d
  BY DEF Payments
<1>4. status[a] # "settled"
  BY <1>1, <1>3 DEF BookInv
<1> QED BY <1>3, <1>4, LandedIsSigned DEF Active

\* Where a price is, is decided by refunds, deliveries and landings.
LEMMA MoneyStays ==
    ASSUME TypeOK, TypeOK', ReleaseInv, Lasting, Unsettling, slot' = slot,
           refunds' = refunds
    PROVE  Money' = Money
<1>1. ASSUME NEW d \in Docs
      PROVE  Place(d)' = Place(d)
  <2>1. ASSUME NEW a \in Attempts, Landed(a)
        PROVE  doc'[a] = doc[a]
    BY <2>1, LandedIsSigned DEF Lasting
  <2>2. Payments(d)' = Payments(d)
    BY <2>1 DEF Payments, Landed
  <2>3. quote'[d] = "delivered" <=> quote[d] = "delivered"
    BY DEF Lasting, Unsettling
  <2> QED BY <2>2, <2>3 DEF Place
<1> QED BY <1>1, MoneyPlaces

\* The transfer that lands is the one of the attempt in flight.
LEMMA LandSpends ==
    ASSUME TypeOK, TypeOK', OneOwner, ReleaseInv, BookInv, BudgetInv,
           NEW a \in Attempts, Land(a)
    PROVE  doc[a] \in Docs /\ Budget!Spend(doc[a])
<1> USE DEF attVars, jobVars
<1>1. /\ slot[a] = 0 /\ height <= lastValid[a]
      /\ slot' = [slot EXCEPT ![a] = height]
      /\ UNCHANGED <<job, refunds, quote, doc>>
  BY DEF Land
<1>2. status[a] \in Active
  BY <1>1 DEF ReleaseInv, ChainInv, PastClaim, Dead, BookInv, Landed, Active,
              TypeOK, AttemptType, ChainType, Statuses
<1>3. owner = a /\ job \notin Closed
  BY <1>2, NoAttemptAssumption DEF OneOwner, InFlight, Closed
<1>4. /\ doc[a] \in Docs /\ quote[doc[a]] # "delivered"
      /\ \A d \in Docs : refunds[d] = 0
  BY <1>3 DEF BudgetInv, OwnerUndelivered, OpenUnspent
<1>5. ASSUME NEW d \in Docs
      PROVE  Place(d) # "spent"
  BY <1>1, <1>3, SpentIsActive DEF OneOwner, Payments, Landed
<1>6. Place(doc[a]) = "held"
  BY <1>4, <1>5 DEF Place
<1>7. ASSUME NEW d \in Docs
      PROVE  Payments(d)' = IF d = doc[a] THEN Payments(d) \cup {a}
                                          ELSE Payments(d)
  BY <1>1 DEF Payments, Landed, TypeOK, ChainType
<1>8. ASSUME NEW d \in Docs
      PROVE  Place(d)' = IF d = doc[a] THEN "spent" ELSE Place(d)
  <2>1. CASE d = doc[a]
    <3>1. refunds'[d] = 0 /\ quote'[d] # "delivered" /\ Payments(d)' # {}
      BY <1>1, <1>4, <1>7, <2>1
    <3> QED BY <2>1, <3>1 DEF Place
  <2>2. CASE d # doc[a]
    BY <1>1, <1>7, <2>2 DEF Place
  <2> QED BY <2>1, <2>2
<1>9. Money' = [Money EXCEPT ![doc[a]] = "spent"]
  BY <1>4, <1>8, MoneyMoves
<1> QED BY <1>1, <1>3, <1>4, <1>5, <1>6, <1>9, MoneyPlaces
    DEF Budget!Spend, Budget!Settled

\* A settlement delivers what was spent.
LEMMA SettleDelivers ==
    ASSUME TypeOK, TypeOK', OneOwner, ReleaseInv, BookInv, BudgetInv,
           Settling
    PROVE  \E d \in Docs : Budget!Deliver(d)
<1>1. PICK k \in Reconcilers : Settle(k) /\ CanSettle(rec[k].att)
  BY DEF Settling
<1> DEFINE a == rec[k].att
<1>2. /\ a \in Attempts /\ doc[a] \in Docs /\ Landed(a)
      /\ owner = a /\ job \in InFlight
      /\ quote' = [quote EXCEPT ![doc[a]] = "delivered"]
      /\ job' = "processing"
      /\ UNCHANGED <<doc, refunds, slot>>
  BY <1>1, SettleSettles
<1> HIDE DEF a
<1>3. job \notin Closed /\ job' \notin Closed
  BY <1>2 DEF InFlight, Closed
<1>4. /\ a \in Payments(doc[a]) /\ quote[doc[a]] # "delivered"
      /\ refunds[doc[a]] = 0
  BY <1>2, <1>3 DEF Payments, BudgetInv, OwnerUndelivered, OpenUnspent
<1>5. Money[doc[a]] = "spent"
  BY <1>2, <1>4, MoneyPlaces DEF Place
<1>6. ASSUME NEW d \in Docs
      PROVE  Place(d)' = IF d = doc[a] THEN "delivered" ELSE Place(d)
  <2>1. Payments(d)' = Payments(d)
    BY <1>2 DEF Payments, Landed
  <2>2. quote'[d] = IF d = doc[a] THEN "delivered" ELSE quote[d]
    BY <1>2 DEF TypeOK, JobType
  <2> QED BY <1>2, <1>4, <2>1, <2>2 DEF Place
<1>7. Money' = [Money EXCEPT ![doc[a]] = "delivered"]
  BY <1>2, <1>6, MoneyMoves
<1>8. Budget!Deliver(doc[a])
  BY <1>3, <1>5, <1>7 DEF Budget!Deliver
<1> QED BY <1>2, <1>8

\* An open job without an attempt under way may close.
LEMMA MayClose ==
    ASSUME TypeOK, TypeOK', OneOwner, ReleaseInv, BookInv, BudgetInv,
           job \in Runnable
    PROVE  job \notin Closed /\ Budget!Settled
<1>1. job \notin Closed /\ job \notin InFlight
  BY DEF Runnable, Closed, InFlight
<1>2. ASSUME NEW d \in Docs
      PROVE  Place(d) # "spent"
  BY <1>1, NoOwner, SpentIsActive
<1> QED BY <1>1, <1>2, MoneyPlaces DEF Budget!Settled

\* fail_research_job returns what is still held.
LEMMA FailCloses ==
    ASSUME TypeOK, TypeOK', OneOwner, ReleaseInv, BookInv, BudgetInv,
           NEW c \in calls, ServeFail(c), Failable, GiveBack(Undelivered)
    PROVE  Budget!Close
<1>1. /\ job \in Runnable /\ job' \in Closed
      /\ UNCHANGED <<doc, slot, quote>>
  BY DEF ServeFail, Failable, GiveBack, Closed, attVars, chainVars
<1>2. job \notin Closed /\ Budget!Settled
  BY <1>1, MayClose
<1>3. ASSUME NEW d \in Docs
      PROVE  Place(d)' = IF Place(d) = "held" THEN "returned" ELSE Place(d)
  <2>1. refunds[d] = 0
    BY <1>2 DEF BudgetInv, OpenUnspent
  <2>2. refunds'[d] = IF quote[d] = "delivered" THEN 0 ELSE 1
    BY <2>1 DEF GiveBack, Undelivered
  <2>3. Place(d) # "spent"
    BY <1>2, MoneyPlaces DEF Budget!Settled
  <2> QED BY <1>1, <2>1, <2>2, <2>3 DEF Place
<1>4. Money' = [d \in Docs |->
                   IF Money[d] = "held" THEN "returned" ELSE Money[d]]
  BY <1>3, MoneyPlaces
<1> QED BY <1>1, <1>2, <1>4 DEF Budget!Close

\* complete_research_job closes a job with nothing left, or repeats itself.
LEMMA CompleteCloses ==
    ASSUME TypeOK, TypeOK', OneOwner, ReleaseInv, BookInv, BudgetInv,
           NEW c \in calls, ServeComplete(c)
    PROVE  Budget!Close \/ UNCHANGED Budget!vars
<1>1. UNCHANGED <<refunds, slot>> /\ Lasting /\ Unsettling
  BY ServeLasts DEF ServeComplete, chainVars
<1>2. Money' = Money
  BY <1>1, MoneyStays
<1>3. CASE job' \in Closed <=> job \in Closed
  BY <1>2, <1>3 DEF Budget!vars
<1>4. CASE ~(job' \in Closed <=> job \in Closed)
  <2>1. job \in Runnable /\ job' \in Closed /\ Undelivered = {}
    BY <1>4 DEF ServeComplete, Closed, Runnable
  <2>2. ASSUME NEW d \in Docs
        PROVE  Money[d] # "held"
    BY <2>1, MoneyPlaces DEF Place, Undelivered
  <2>3. Money' = [d \in Docs |->
                     IF Money[d] = "held" THEN "returned" ELSE Money[d]]
    BY <1>2, <2>2, MoneyPlaces
  <2> QED BY <2>1, <2>3, MayClose DEF Budget!Close
<1> QED BY <1>3, <1>4

\* Only a landing moves a transfer's slot.
LEMMA SlotStays ==
    ASSUME [Next]_vars, \A a \in Attempts : ~Land(a)
    PROVE  slot' = slot
BY DEF Next, Serve, ServePlan, ServeQuotes, ServeBegin, ServePrepare,
       ServeHold, ServeFail, ServeRefund, ServeComplete, QuoteExpires,
       FinalizeRefund, RunnerStep, StartRun, Begin, VerifyFails, Sign,
       FetchFails, SendPaid, PaidReturns, ReconcilerStep, List, Scan,
       CheckBlockhash, Defer, Release, Settle, Fault, GiveUp, Crash,
       Duplicate, Abort, Chain, Tick, Finalize, Finished, vars, chainVars

\* Every step of the ledger, the runners, the passes and the chain is a step
\* of PaidOnce or leaves the budget alone.
LEMMA BudgetStep ==
    ASSUME AtomicFail, TypeOK, TypeOK', OneOwner, ReleaseInv, BookInv,
           BudgetInv, [Next]_vars
    PROVE  [Budget!Next]_(Budget!vars)
<1>1. ASSUME NEW a \in Attempts, Land(a)
      PROVE  Budget!Next
  BY <1>1, LandSpends DEF Budget!Next
<1>2. CASE (\A a \in Attempts : ~Land(a)) /\ Quiet
  <2>1. Money' = Money
    BY <1>2, SlotStays, MoneyStays DEF Quiet
  <2> QED BY <1>2, <2>1 DEF Quiet, Budget!vars
<1>3. CASE Closing
  BY <1>3, FailCloses, CompleteCloses DEF Closing, Budget!Next
<1>4. CASE Settling
  BY <1>4, SettleDelivers DEF Budget!Next
<1>5. ASSUME NEW c \in calls, ServeBegin(c)
      PROVE  UNCHANGED Budget!vars
  <2>1. Money' = Money
    BY <1>5, ServeLasts, MoneyStays DEF ServeBegin, chainVars
  <2>2. job' \in Closed <=> job \in Closed
    BY <1>5 DEF ServeBegin, Payable, Closed
  <2> QED BY <2>1, <2>2 DEF Budget!vars
<1> QED BY <1>1, <1>2, <1>3, <1>4, <1>5, BudgetSteps

(* Ledger, runners, reconcilers and chain together keep the promise of      *)
(* PaidOnce, as long as fail_research_job runs under one process's lock: a  *)
(* transfer lands only while the job is open and no other is open, and the  *)
(* remainder goes back in one step, once.                                   *)
THEOREM ImplementsPaidOnceCorrect ==
    ASSUME AtomicFail
    PROVE  Spec => ImplementsPaidOnce
<1>1. Init => Budget!Init
  BY DEF Init, Budget!Init, Money, Payments, Landed, Closed
<1>2. /\ TypeOK /\ TypeOK' /\ OneOwner /\ ReleaseInv /\ BookInv /\ BudgetInv
      /\ [Next]_vars
      => [Budget!Next]_(Budget!vars)
  BY BudgetStep
<1> QED BY <1>1, <1>2, TypeCorrect, OneOwnerCorrect, ReleaseInvCorrect,
           BookInvCorrect, BudgetInvCorrect, PTL
        DEF Spec, ImplementsPaidOnce, Budget!Spec
===============================================================================
