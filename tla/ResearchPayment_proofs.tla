------------------------ MODULE ResearchPayment_proofs ------------------------
(***************************************************************************)
(* Proofs about ResearchPayment for any number of documents, runners,       *)
(* attempts, reconciliation passes and origins.                             *)
(***************************************************************************)
EXTENDS ResearchPayment, TLAPS

-----------------------------------------------------------------------------
(* Type correctness.                                                        *)

\* The runner stays well typed wherever it is sent.
LEMMA AtType ==
    ASSUME RunnerType, NEW r \in Runners, NEW pc \in Pcs \ {"verifying"}
    PROVE  At(r, pc) \in [Runners -> RunnerStates]
<1>1. RunnerIdle \in RunnerStates
  BY DEF RunnerIdle, RunnerStates, Pcs
<1>2. [runner[r] EXCEPT !.pc = pc] \in RunnerStates
  BY DEF RunnerType, RunnerStates
<1> QED BY <1>1, <1>2 DEF RunnerType, At

\* So do the calls when one is added (internalJson).
LEMMA AskType ==
    ASSUME RunnerType, NEW r \in Runners, NEW pc \in Pcs \ {"verifying"},
           NEW pending \in SUBSET Calls, NEW c \in Calls,
           Ask(r, pc, pending, c)
    PROVE  RunnerType' /\ CallType'
BY AtType DEF Ask, RunnerType, CallType

\* The requests without arguments are calls.
LEMMA SimpleCallType ==
    ASSUME NEW op \in Ops \ {"begin"}, NEW r \in Runners
    PROVE  SimpleCall(op, r) \in Calls
BY DEF SimpleCall, Call, Calls

\* The catch block of runResearchJob keeps the types.
LEMMA CallFailedType ==
    ASSUME RunnerType, NEW r \in Runners, NEW pending \in SUBSET Calls,
           CallFailed(r, pending)
    PROVE  RunnerType' /\ CallType'
<1>1. SimpleCall("fail", r) \in Calls /\ SimpleCall("hold", r) \in Calls
  BY SimpleCallType DEF Ops
<1>2. "failing" \in Pcs /\ "holding" \in Pcs /\ "idle" \in Pcs
  BY DEF Pcs
<1>3. CASE runner[r].pc \in {"planning", "beginning", "completing"}
  BY <1>1, <1>2, <1>3, AskType DEF CallFailed
<1>4. CASE runner[r].pc = "reloading"
  BY <1>1, <1>2, <1>4, AskType DEF CallFailed
<1>5. CASE runner[r].pc \notin
             {"planning", "beginning", "completing", "reloading"}
  <2>1. runner' = At(r, "idle") /\ calls' = pending
    BY <1>5 DEF CallFailed
  <2> QED BY <2>1, <1>2, AtType DEF RunnerType, CallType
<1> QED BY <1>3, <1>4, <1>5

\* A refusal keeps the types.
LEMMA RefuseType ==
    ASSUME RunnerType, CallType, NEW c \in calls, Refuse(c)
    PROVE  RunnerType' /\ CallType'
<1>1. c \in Calls /\ c.by \in Runners /\ calls \ {c} \in SUBSET Calls
  BY DEF CallType, Calls
<1>2. CASE c.open
  BY <1>1, <1>2, CallFailedType DEF Refuse
<1>3. CASE ~c.open
  BY <1>1, <1>3 DEF Refuse, RunnerType, CallType
<1> QED BY <1>2, <1>3

\* An answer keeps the types.
LEMMA AnswerType ==
    ASSUME RunnerType, CallType, NEW c \in calls, NEW pc \in Pcs \ {"verifying"},
           Answer(c, pc)
    PROVE  RunnerType' /\ CallType'
<1>1. c \in Calls /\ c.by \in Runners /\ calls \ {c} \in SUBSET Calls
  BY DEF CallType, Calls
<1> QED BY <1>1, AtType DEF Answer, RunnerType, CallType

\* Every handler of the ledger keeps the types.
LEMMA ServeType ==
    ASSUME TypeOK, NEW c \in calls,
           \/ ServePlan(c) \/ ServeQuotes(c) \/ ServeBegin(c)
           \/ ServePrepare(c) \/ ServeHold(c) \/ ServeFail(c)
           \/ ServeRefund(c) \/ ServeComplete(c)
    PROVE  TypeOK'
<1> USE DEF TypeOK
<1>c. /\ c \in Calls /\ c.by \in Runners /\ c.lv \in Nat
      /\ c.att \in Attempts \cup {NoAttempt} /\ c.doc \in Docs \cup {NoDoc}
      /\ c.pend \in SUBSET Docs /\ calls \ {c} \in SUBSET Calls
  BY DEF CallType, Calls
<1>p. /\ "idle" \in Pcs /\ "paying" \in Pcs /\ "sending" \in Pcs
      /\ "holding" \in Pcs /\ "completing" \in Pcs /\ "verifying" \in Pcs
  BY DEF Pcs
<1>1. CASE ServePlan(c)
  <2>1. job' \in InFlight \cup Runnable \cup Closed
    BY <1>1 DEF ServePlan, JobType, Runnable
  <2>2. CASE job \in Runnable
    <3>1. [c EXCEPT !.op = "quotes", !.pend = Undelivered] \in Calls
      BY <1>c DEF Calls, Ops, Undelivered
    <3> QED BY <1>1, <1>c, <2>1, <2>2, <3>1
        DEF ServePlan, JobType, AttemptType, attVars, chainVars, CallType,
            RunnerType, RecType, ChainType
  <2>3. CASE job \notin Runnable
    <3>1. RunnerType' /\ CallType'
      BY <1>1, <2>3, RefuseType DEF ServePlan
    <3> QED BY <1>1, <2>1, <3>1
        DEF ServePlan, JobType, AttemptType, attVars, chainVars, RecType,
            ChainType
  <2> QED BY <2>2, <2>3
<1>2. CASE ServeQuotes(c)
  <2>1. quote' \in [Docs -> {"none", "live", "expired", "delivered"}]
    BY <1>2 DEF ServeQuotes, JobType
  <2>2. RunnerType' /\ CallType'
    <3>1. CASE \E d \in c.pend : Unquotable(d)
      BY <1>2, <3>1, RefuseType DEF ServeQuotes
    <3>2. CASE ~(\E d \in c.pend : Unquotable(d)) /\ ~c.open
      BY <1>2, <1>c, <3>2 DEF ServeQuotes, RunnerType, CallType
    <3>3. CASE /\ ~(\E d \in c.pend : Unquotable(d)) /\ c.open
               /\ runner[c.by].pc = "reloading" /\ runner[c.by].doc \in c.pend
      <4>1. Ask(c.by, "holding", calls \ {c}, SimpleCall("hold", c.by))
        BY <1>2, <3>3 DEF ServeQuotes
      <4> QED BY <4>1, <1>c, <1>p, AskType, SimpleCallType DEF Ops
    <3>4. CASE /\ ~(\E d \in c.pend : Unquotable(d)) /\ c.open
               /\ ~(/\ runner[c.by].pc = "reloading"
                    /\ runner[c.by].doc \in c.pend)
      <4>1. Proceed(c.by, calls \ {c}, c.pend)
        BY <1>2, <3>4 DEF ServeQuotes
      <4>2. CASE c.pend = {}
        BY <4>1, <4>2, <1>c, <1>p, AskType, SimpleCallType DEF Ops, Proceed
      <4>3. CASE c.pend # {}
        <5>1. PICK d \in c.pend : runner' = [runner EXCEPT
                 ![c.by] = [pc |-> "verifying", doc |-> d, att |-> NoAttempt]]
          BY <4>1, <4>3 DEF Proceed
        <5>2. [pc |-> "verifying", doc |-> d, att |-> NoAttempt]
                \in RunnerStates
          BY <1>c, <1>p DEF RunnerStates
        <5>3. calls' = calls \ {c}
          BY <4>1, <4>3 DEF Proceed
        <5> QED BY <5>1, <5>2, <5>3, <1>c DEF RunnerType, CallType
      <4> QED BY <4>2, <4>3
    <3> QED BY <3>1, <3>2, <3>3, <3>4
  <2> QED BY <1>2, <2>1, <2>2
      DEF ServeQuotes, JobType, AttemptType, attVars, chainVars, RecType,
          ChainType
<1>3. CASE ServeBegin(c)
  <2>1. RunnerType' /\ CallType'
    BY <1>3, <1>p, AnswerType, RefuseType DEF ServeBegin
  <2>2. JobType' /\ AttemptType'
    BY <1>3, <1>c DEF ServeBegin, JobType, AttemptType, Statuses, InFlight
  <2> QED BY <1>3, <2>1, <2>2 DEF ServeBegin, chainVars, RecType, ChainType
<1>4. CASE ServePrepare(c)
  <2>1. RunnerType' /\ CallType'
    BY <1>4, <1>p, AnswerType, RefuseType DEF ServePrepare
  <2>2. AttemptType'
    BY <1>4, <1>c DEF ServePrepare, AttemptType, Statuses
  <2> QED BY <1>4, <2>1, <2>2
      DEF ServePrepare, jobVars, chainVars, JobType, RecType, ChainType
<1>5. CASE ServeHold(c)
  <2>1. RunnerType' /\ CallType'
    BY <1>5, <1>p, AnswerType DEF ServeHold
  <2>2. JobType' /\ AttemptType'
    BY <1>5 DEF ServeHold, JobType, AttemptType, Statuses, InFlight
  <2> QED BY <1>5, <2>1, <2>2 DEF ServeHold, chainVars, RecType, ChainType
<1>g. ASSUME NEW S \in SUBSET Docs, GiveBack(S)
      PROVE  /\ refunds' \in [Docs -> Nat]
             /\ job' \in InFlight \cup Runnable \cup Closed
  BY <1>g DEF GiveBack, JobType, Closed
<1>6. CASE ServeFail(c)
  <2>1. CASE Failable /\ AtomicFail
    <3>1. RunnerType' /\ CallType'
      BY <1>6, <1>p, <2>1, AnswerType DEF ServeFail
    <3>2. JobType'
      BY <1>6, <2>1, <1>g DEF ServeFail, JobType, Undelivered
    <3> QED BY <1>6, <3>1, <3>2
        DEF ServeFail, attVars, chainVars, AttemptType, RecType, ChainType
  <2>2. CASE Failable /\ ~AtomicFail
    <3>1. [c EXCEPT !.op = "refund", !.pend = Undelivered] \in Calls
      BY <1>c, <2>2 DEF Calls, Ops, Undelivered
    <3> QED BY <1>6, <1>c, <2>2, <3>1
        DEF ServeFail, JobType, AttemptType, attVars, chainVars, CallType,
            RunnerType, RecType, ChainType
  <2>3. CASE ~Failable
    <3>1. RunnerType' /\ CallType'
      BY <1>6, <1>p, <2>3, AnswerType DEF ServeFail
    <3> QED BY <1>6, <2>3, <3>1
        DEF ServeFail, JobType, attVars, chainVars, AttemptType, RecType,
            ChainType
  <2> QED BY <2>1, <2>2, <2>3
<1>7. CASE ServeRefund(c)
  <2>1. RunnerType' /\ CallType'
    BY <1>7, <1>p, AnswerType DEF ServeRefund
  <2>2. JobType'
    BY <1>7, <1>c, <1>g DEF ServeRefund, JobType
  <2> QED BY <1>7, <2>1, <2>2
      DEF ServeRefund, attVars, chainVars, AttemptType, RecType, ChainType
<1>8. CASE ServeComplete(c)
  <2>1. RunnerType' /\ CallType'
    BY <1>8, <1>p, AnswerType, RefuseType DEF ServeComplete
  <2>2. JobType'
    BY <1>8 DEF ServeComplete, JobType, Closed
  <2> QED BY <1>8, <2>1, <2>2
      DEF ServeComplete, attVars, chainVars, AttemptType, RecType, ChainType
<1> QED BY <1>1, <1>2, <1>3, <1>4, <1>5, <1>6, <1>7, <1>8

\* So does every step of a run of runResearchJob.
LEMMA RunnerStepType ==
    ASSUME TypeOK, NEW r \in Runners, RunnerStep(r)
    PROVE  TypeOK'
<1> USE DEF TypeOK, jobVars, attVars, chainVars
<1>r. /\ runner[r].doc \in Docs \cup {NoDoc}
      /\ runner[r].att \in Attempts \cup {NoAttempt}
      /\ runner[r].pc = "verifying" => runner[r].doc \in Docs
  BY DEF RunnerType, RunnerStates
<1>p. /\ "planning" \in Pcs /\ "failing" \in Pcs /\ "preparing" \in Pcs
      /\ "reloading" \in Pcs /\ "paid" \in Pcs /\ "beginning" \in Pcs
  BY DEF Pcs
<1>c. calls \in SUBSET Calls
  BY DEF CallType
<1>a. ASSUME RunnerType' /\ CallType',
             UNCHANGED <<jobVars, attVars, rec, chainVars, faults>>
      PROVE  TypeOK'
  BY <1>a DEF JobType, AttemptType, RecType, ChainType
<1>1. CASE StartRun(r)
  BY <1>1, <1>a, <1>p, <1>c, AskType, SimpleCallType DEF StartRun, Ops
<1>2. CASE Begin(r)
  <2>1. PICK a \in Attempts :
          /\ runner' = [runner EXCEPT ![r].pc = "beginning", ![r].att = a]
          /\ calls' = calls
                \cup {Call("begin", r, runner[r].doc, a, 0, {})}
    BY <1>2 DEF Begin
  <2>2. Call("begin", r, runner[r].doc, a, 0, {}) \in Calls
    BY <1>2, <1>r DEF Begin, Call, Calls, Ops
  <2>3. [runner[r] EXCEPT !.pc = "beginning", !.att = a] \in RunnerStates
    BY <1>p DEF RunnerType, RunnerStates
  <2>4. RunnerType'
    BY <2>1, <2>3 DEF RunnerType
  <2> QED BY <1>2, <1>a, <1>c, <2>1, <2>2, <2>4 DEF Begin, CallType
<1>3. CASE VerifyFails(r)
  BY <1>3, <1>a, <1>p, <1>c, AskType, SimpleCallType DEF VerifyFails, Ops
<1>4. CASE Sign(r)
  <2>1. height + Lifetime \in Nat
    BY LifetimeAssumption DEF ChainType
  <2>2. Call("prepare", r, runner[r].doc, runner[r].att, height + Lifetime, {})
          \in Calls
    BY <1>r, <2>1 DEF Call, Calls, Ops
  <2> QED BY <1>4, <1>a, <1>p, <1>c, <2>2, AskType DEF Sign
<1>5. CASE FetchFails(r)
  BY <1>5, <1>a, <1>p, <1>c, AskType, SimpleCallType DEF FetchFails, Ops
<1>6. CASE SendPaid(r)
  <2>1. RunnerType'
    BY <1>6, <1>p, AtType DEF SendPaid, RunnerType
  <2>2. sent' \subseteq Attempts \cup {NoAttempt}
    BY <1>6, <1>r DEF SendPaid, ChainType
  <2> QED BY <1>6, <2>1, <2>2
      DEF SendPaid, JobType, AttemptType, CallType, RecType, ChainType
<1>7. CASE PaidReturns(r)
  BY <1>7, <1>a, <1>p, <1>c, AskType, SimpleCallType DEF PaidReturns, Ops
<1> QED BY <1>1, <1>2, <1>3, <1>4, <1>5, <1>6, <1>7 DEF RunnerStep

\* So does every step of a reconciliation pass.
LEMMA ReconcilerStepType ==
    ASSUME TypeOK, NEW k \in Reconcilers, ReconcilerStep(k)
    PROVE  TypeOK'
<1> USE DEF TypeOK, jobVars, attVars, chainVars
<1>r. ASSUME NEW pc \in RecPcs
      PROVE  RecAt(k, pc) \in [Reconcilers ->
                [pc : RecPcs, att : Attempts \cup {NoAttempt},
                 st : {"none"} \cup Active, abs : BOOLEAN]]
  BY DEF RecType, RecAt
<1>i. RecIdle(k) \in [Reconcilers ->
                [pc : RecPcs, att : Attempts \cup {NoAttempt},
                 st : {"none"} \cup Active, abs : BOOLEAN]]
  BY DEF RecType, RecIdle, Resting, RecPcs
<1>a. rec[k].att \in Attempts \cup {NoAttempt}
  BY DEF RecType
<1>1. CASE List(k)
  <2>1. PICK a \in Attempts :
          /\ Listed(a)
          /\ rec' = [rec EXCEPT ![k] =
                [pc  |-> IF status[a] = "claimed" THEN "release" ELSE "scan",
                 att |-> a, st |-> status[a], abs |-> Confirmable(a)]]
    BY <1>1 DEF List
  <2>2. Confirmable(a) \in BOOLEAN /\ status[a] \in Active
    BY <2>1 DEF Confirmable, AttemptType, Listed
  <2>3. RecType'
    BY <2>1, <2>2 DEF RecType, RecPcs
  <2> QED BY <1>1, <2>3
      DEF List, JobType, AttemptType, CallType, RunnerType, ChainType
<1>2. CASE Scan(k)
  <2>1. PICK res \in [Origins -> ScanResults] : rec' = RecAt(k, Verdict(res))
    BY <1>2 DEF Scan
  <2>2. Verdict(res) \in RecPcs
    BY DEF Verdict, RecPcs
  <2>3. RecType'
    BY <2>1, <2>2, <1>r DEF RecType
  <2> QED BY <1>2, <2>3
      DEF Scan, JobType, AttemptType, CallType, RunnerType, ChainType
<1>3. CASE CheckBlockhash(k)
  <2>1. PICK pc \in RecPcs : rec' = RecAt(k, pc)
    BY <1>3 DEF CheckBlockhash, RecPcs
  <2>2. RecType'
    BY <2>1, <1>r DEF RecType
  <2> QED BY <1>3, <2>2
      DEF CheckBlockhash, JobType, AttemptType, CallType, RunnerType,
          ChainType
<1>4. CASE Defer(k)
  <2>1. RecType'
    BY <1>4, <1>i DEF Defer, RecType
  <2>2. absent' \in [Attempts -> BOOLEAN]
    BY <1>4 DEF Defer, AttemptType
  <2> QED BY <1>4, <2>1, <2>2
      DEF Defer, JobType, AttemptType, CallType, RunnerType, ChainType
<1>5. CASE Release(k)
  <2>1. RecType'
    BY <1>5, <1>i, <1>r DEF Release, RecType, RecPcs
  <2>2. JobType' /\ AttemptType'
    BY <1>5, <1>a DEF Release, FreeOwner, JobType, AttemptType, Statuses,
                      Runnable
  <2> QED BY <1>5, <2>1, <2>2 DEF Release, CallType, RunnerType, ChainType
<1>6. CASE Settle(k)
  <2>1. RecType'
    BY <1>6, <1>i, <1>r DEF Settle, RecType, RecPcs
  <2>2. JobType' /\ AttemptType'
    BY <1>6, <1>a DEF Settle, FreeOwner, Deliver, JobType, AttemptType,
                      Statuses, Runnable
  <2> QED BY <1>6, <2>1, <2>2 DEF Settle, CallType, RunnerType, ChainType
<1> QED BY <1>1, <1>2, <1>3, <1>4, <1>5, <1>6 DEF ReconcilerStep

\* A call its caller gave up is still a call.
LEMMA OrphanedType ==
    ASSUME NEW cs \in SUBSET Calls
    PROVE  Orphaned(cs) \subseteq Calls
<1>1. ASSUME NEW c \in Calls
      PROVE  [c EXCEPT !.open = FALSE] \in Calls
  BY DEF Calls
<1> QED BY <1>1 DEF Orphaned

\* So do timeouts, repeated requests, crashes and the chain.
LEMMA FaultType ==
    ASSUME TypeOK, Fault
    PROVE  TypeOK'
<1> USE DEF TypeOK, jobVars, attVars, chainVars
<1>p. "idle" \in Pcs
  BY DEF Pcs
<1>o. ASSUME NEW r \in Runners
      PROVE  (calls \ OpenCalls(r)) \cup Orphaned(OpenCalls(r)) \in SUBSET Calls
  BY OrphanedType DEF OpenCalls, CallType
<1>1. ASSUME NEW r \in Runners, GiveUp(r)
      PROVE  TypeOK'
  <2>1. RunnerType' /\ CallType'
    BY <1>1, <1>o, CallFailedType DEF GiveUp
  <2> QED BY <1>1, <2>1
      DEF GiveUp, JobType, AttemptType, RecType, ChainType
<1>2. ASSUME NEW r \in Runners, Crash(r)
      PROVE  TypeOK'
  <2>1. RunnerType' /\ CallType'
    BY <1>2, <1>p, <1>o, AtType DEF Crash, RunnerType, CallType
  <2> QED BY <1>2, <2>1
      DEF Crash, JobType, AttemptType, RecType, ChainType
<1>3. ASSUME NEW c \in calls, Duplicate(c)
      PROVE  TypeOK'
  <2>1. CallType'
    BY <1>3, OrphanedType DEF Duplicate, CallType
  <2> QED BY <1>3, <2>1
      DEF Duplicate, JobType, AttemptType, RunnerType, RecType, ChainType
<1>4. ASSUME NEW k \in Reconcilers, Abort(k)
      PROVE  TypeOK'
  <2>1. RecType'
    BY <1>4 DEF Abort, RecType, RecIdle, Resting, RecPcs
  <2> QED BY <1>4, <2>1
      DEF Abort, JobType, AttemptType, CallType, RunnerType, ChainType
<1> QED BY <1>1, <1>2, <1>3, <1>4 DEF Fault

LEMMA ChainStepType ==
    ASSUME TypeOK, Chain
    PROVE  TypeOK'
<1> USE DEF TypeOK, jobVars, attVars, JobType, AttemptType, CallType,
            RunnerType, RecType, ChainType
<1>1. CASE Tick
  BY <1>1 DEF Tick
<1>2. ASSUME NEW a \in Attempts, Land(a)
      PROVE  TypeOK'
  BY <1>2 DEF Land
<1>3. ASSUME NEW o \in Honest, Finalize(o)
      PROVE  TypeOK'
  BY <1>3 DEF Finalize
<1> QED BY <1>1, <1>2, <1>3 DEF Chain

(* Every reachable state is well typed.                                     *)
THEOREM TypeCorrect == Spec => []TypeOK
<1>1. Init => TypeOK
  BY DEF Init, TypeOK, JobType, AttemptType, CallType, RunnerType, RecType,
         ChainType, Runnable, Statuses, RunnerIdle, RunnerStates, Resting, Pcs,
         RecPcs, Honest
<1>2. TypeOK /\ [Next]_vars => TypeOK'
  <2> SUFFICES ASSUME TypeOK, [Next]_vars
               PROVE  TypeOK'
    OBVIOUS
  <2>1. CASE Serve
    BY <2>1, ServeType DEF Serve
  <2>2. ASSUME NEW d \in Docs, QuoteExpires(d)
        PROVE  TypeOK'
    BY <2>2 DEF QuoteExpires, TypeOK, JobType, AttemptType, CallType,
                RunnerType, RecType, ChainType, attVars, chainVars
  <2>3. CASE FinalizeRefund
    BY <2>3 DEF FinalizeRefund, TypeOK, JobType, AttemptType, CallType,
                RunnerType, RecType, ChainType, attVars, chainVars, Closed
  <2>4. ASSUME NEW r \in Runners, RunnerStep(r)
        PROVE  TypeOK'
    BY <2>4, RunnerStepType
  <2>5. ASSUME NEW k \in Reconcilers, ReconcilerStep(k)
        PROVE  TypeOK'
    BY <2>5, ReconcilerStepType
  <2>6. CASE Fault
    BY <2>6, FaultType
  <2>7. CASE Chain
    BY <2>7, ChainStepType
  <2>8. CASE UNCHANGED vars
    BY <2>8 DEF vars, jobVars, attVars, chainVars, TypeOK, JobType,
                AttemptType, CallType, RunnerType, RecType, ChainType
  <2> QED BY <2>1, <2>2, <2>3, <2>4, <2>5, <2>6, <2>7, <2>8
      DEF Next, Finished
<1> QED BY <1>1, <1>2, PTL DEF Spec

-----------------------------------------------------------------------------
(* One attempt owns a job in flight.  With the types, OneOwner is inductive *)
(* as it stands: each handler checks the job or the attempt before it       *)
(* writes the other, in one transaction.                                    *)

\* What OneOwner reads, and nothing else, decides it.
LEMMA OneOwnerStutters ==
    ASSUME OneOwner, status' = status, owner' = owner, fence' = fence,
           doc' = doc, job' \in InFlight <=> job \in InFlight
    PROVE  OneOwner'
BY DEF OneOwner

\* A runnable or closed job has no owner, active attempt or fence.
LEMMA NoOwner ==
    ASSUME TypeOK, OneOwner, job \notin InFlight
    PROVE  /\ owner = NoAttempt
           /\ \A a \in Attempts : status[a] \notin Active
           /\ \A d \in Docs, a \in Attempts : fence[d] # a
BY NoAttemptAssumption DEF TypeOK, JobType, OneOwner

\* Release and settle hand the job back (FreeOwner).
LEMMA FreeOwnerKeeps ==
    ASSUME TypeOK, OneOwner, NEW a \in Attempts, owner = a, FreeOwner(a),
           NEW st \in {"settled", "released"},
           status' = [status EXCEPT ![a] = st], doc' = doc
    PROVE  OneOwner'
<1>1. job' \notin InFlight /\ owner' = NoAttempt
  BY DEF FreeOwner, InFlight
<1>2. ASSUME NEW b \in Attempts
      PROVE  status'[b] \notin Active
  BY <1>2 DEF TypeOK, AttemptType, OneOwner, Active
<1>3. ASSUME NEW d \in Docs, NEW b \in Attempts
      PROVE  fence'[d] # b
  <2>1. fence[d] = b => b = a /\ doc[a] = d
    BY DEF OneOwner
  <2> QED BY <2>1, NoAttemptAssumption DEF FreeOwner, TypeOK, JobType
<1> QED BY <1>1, <1>2, <1>3, NoAttemptAssumption DEF OneOwner

\* A new attempt takes a job that nobody owns (begin_research_payment).
LEMMA BeginKeeps ==
    ASSUME TypeOK, OneOwner, NEW c \in calls, ServeBegin(c)
    PROVE  OneOwner'
<1>1. CASE Payable(c) /\ ~UNCHANGED <<job, owner, fence, status, doc>>
  <2>1. /\ job' = "payment_in_progress" /\ owner' = c.att
        /\ fence' = [fence EXCEPT ![c.doc] = c.att]
        /\ status' = [status EXCEPT ![c.att] = "claimed"]
        /\ doc' = [doc EXCEPT ![c.att] = c.doc]
        /\ c.op = "begin"
    BY <1>1 DEF ServeBegin
  <2>2. c.att \in Attempts /\ c.doc \in Docs
    BY <2>1 DEF TypeOK, CallType, Calls
  <2>3. job \notin InFlight
    BY <1>1 DEF Payable, InFlight
  <2>4. job' \in InFlight /\ owner' # NoAttempt
    BY <2>1, <2>2, NoAttemptAssumption DEF InFlight
  <2>5. ASSUME NEW b \in Attempts
        PROVE  status'[b] \in Active <=> owner' = b
    BY <2>1, <2>2, <2>3, NoOwner DEF TypeOK, AttemptType, Active
  <2>6. ASSUME NEW d \in Docs, NEW b \in Attempts
        PROVE  fence'[d] = b <=> owner' = b /\ doc'[b] = d
    BY <2>1, <2>2, <2>3, NoOwner DEF TypeOK, JobType, AttemptType
  <2> QED BY <2>4, <2>5, <2>6 DEF OneOwner
<1>2. CASE UNCHANGED <<job, owner, fence, status, doc>>
  BY <1>2, OneOwnerStutters
<1> QED BY <1>1, <1>2 DEF ServeBegin

\* No other handler of the ledger changes who owns the job.
LEMMA ServeKeeps ==
    ASSUME AtomicFail, TypeOK, OneOwner, NEW c \in calls,
           \/ ServePlan(c) \/ ServeQuotes(c) \/ ServeBegin(c)
           \/ ServePrepare(c) \/ ServeHold(c) \/ ServeFail(c)
           \/ ServeRefund(c) \/ ServeComplete(c)
    PROVE  OneOwner'
<1> USE DEF attVars, jobVars
<1>1. CASE ServePlan(c)
  BY <1>1, OneOwnerStutters DEF ServePlan, Runnable, InFlight
<1>2. CASE ServeQuotes(c)
  BY <1>2, OneOwnerStutters DEF ServeQuotes
<1>3. CASE ServeBegin(c)
  BY <1>3, BeginKeeps
<1>4. CASE ServePrepare(c)
  <2>1. ASSUME NEW b \in Attempts
        PROVE  status'[b] \in Active <=> status[b] \in Active
    BY <1>4 DEF ServePrepare, Active, TypeOK, AttemptType
  <2> QED BY <1>4, <2>1 DEF ServePrepare, OneOwner
<1>5. CASE ServeHold(c)
  <2>1. ASSUME NEW b \in Attempts
        PROVE  status'[b] \in Active <=> status[b] \in Active
    BY <1>5 DEF ServeHold, Active, TypeOK, AttemptType
  <2>2. job' \in InFlight <=> job \in InFlight
    BY <1>5 DEF ServeHold, InFlight
  <2> QED BY <1>5, <2>1, <2>2 DEF ServeHold, OneOwner
<1>6. CASE ServeFail(c)
  <2>1. job' \in InFlight <=> job \in InFlight
    BY <1>6 DEF ServeFail, Failable, GiveBack, Runnable, InFlight
  <2> QED BY <1>6, <2>1, OneOwnerStutters DEF ServeFail
<1>7. CASE ServeRefund(c)
  BY <1>7 DEF ServeRefund, TypeOK, CallType, Calls, Ops
<1>8. CASE ServeComplete(c)
  BY <1>8, OneOwnerStutters DEF ServeComplete, InFlight
<1> QED BY <1>1, <1>2, <1>3, <1>4, <1>5, <1>6, <1>7, <1>8

\* A pass ends an attempt only when it owns the job.
LEMMA ReconcilerKeeps ==
    ASSUME TypeOK, OneOwner, NEW k \in Reconcilers, ReconcilerStep(k)
    PROVE  OneOwner'
<1> USE DEF attVars, jobVars
<1>1. CASE List(k) \/ Scan(k) \/ CheckBlockhash(k)
  BY <1>1, OneOwnerStutters DEF List, Scan, CheckBlockhash
<1>2. CASE Defer(k)
  BY <1>2, OneOwnerStutters DEF Defer
<1>3. CASE Release(k)
  <2>1. CASE CanRelease(rec[k].att, rec[k].st)
    <3>1. rec[k].att \in Attempts /\ owner = rec[k].att
      BY <2>1 DEF CanRelease, TypeOK, RecType, OneOwner
    <3> QED BY <1>3, <2>1, <3>1, FreeOwnerKeeps DEF Release
  <2>2. CASE ~CanRelease(rec[k].att, rec[k].st)
    BY <1>3, <2>2, OneOwnerStutters DEF Release
  <2> QED BY <2>1, <2>2
<1>4. CASE Settle(k)
  <2>1. CASE CanSettle(rec[k].att)
    <3>1. rec[k].att \in Attempts /\ owner = rec[k].att
      BY <2>1 DEF CanSettle, TypeOK, RecType, OneOwner
    <3> QED BY <1>4, <2>1, <3>1, FreeOwnerKeeps DEF Settle
  <2>2. CASE ~CanSettle(rec[k].att)
    BY <1>4, <2>2, OneOwnerStutters DEF Settle
  <2> QED BY <2>1, <2>2
<1> QED BY <1>1, <1>2, <1>3, <1>4 DEF ReconcilerStep

(* When the ledger runs fail_research_job under its lock, a job in flight   *)
(* names exactly the attempt that is active and fenced: no attempt drops    *)
(* out of the reconciliation list with its payment open.                    *)
THEOREM OneOwnerCorrect ==
    ASSUME AtomicFail
    PROVE  Spec => []OneOwner
<1>1. Init => OneOwner
  BY NoAttemptAssumption DEF Init, OneOwner, InFlight, Active
<1>2. TypeOK /\ OneOwner /\ [Next]_vars => OneOwner'
  <2> SUFFICES ASSUME TypeOK, OneOwner, [Next]_vars
               PROVE  OneOwner'
    OBVIOUS
  <2> USE DEF attVars, jobVars
  <2>1. CASE Serve
    BY <2>1, ServeKeeps DEF Serve
  <2>2. ASSUME NEW d \in Docs, QuoteExpires(d)
        PROVE  OneOwner'
    BY <2>2, OneOwnerStutters DEF QuoteExpires
  <2>3. CASE FinalizeRefund
    BY <2>3, OneOwnerStutters DEF FinalizeRefund, InFlight
  <2>4. ASSUME NEW r \in Runners, RunnerStep(r)
        PROVE  OneOwner'
    BY <2>4, OneOwnerStutters
    DEF RunnerStep, StartRun, Begin, VerifyFails, Sign, FetchFails, SendPaid,
        PaidReturns
  <2>5. ASSUME NEW k \in Reconcilers, ReconcilerStep(k)
        PROVE  OneOwner'
    BY <2>5, ReconcilerKeeps
  <2>6. CASE Fault \/ Chain
    BY <2>6, OneOwnerStutters
    DEF Fault, GiveUp, Crash, Duplicate, Abort, Chain, Tick, Land, Finalize
  <2>7. CASE UNCHANGED vars
    BY <2>7, OneOwnerStutters DEF vars
  <2> QED BY <2>1, <2>2, <2>3, <2>4, <2>5, <2>6, <2>7 DEF Next, Finished
<1> QED BY <1>1, <1>2, TypeCorrect, PTL DEF Spec

-----------------------------------------------------------------------------
(* A released attempt never lands.  Two passes are needed because an origin *)
(* is asked for the transaction before it is asked for the blockhash: only  *)
(* the scan of the second pass is known to be later than the expiry.        *)

\* prepare_research_payment ran, or the attempt ended without it: its
\* deadline is final.
PastClaim(a) == status[a] \notin {"none", "claimed"}

\* Every honest origin has finalized a slot the transaction is too late for.
Expired(a) == \A o \in Honest : Outlived(o, a)

\* It has not landed and it is too late for it to land.
Dead(a) == slot[a] = 0 /\ height > lastValid[a]

\* Attempts and chain: what was not signed cannot land, what landed was valid.
ChainInv ==
    /\ \A a \in Attempts : ~PastClaim(a) => lastValid[a] = 0 /\ ~absent[a]
    /\ \A a \in Attempts : slot[a] <= lastValid[a]
    /\ \A o \in Honest : view[o] < height
    /\ \A a \in Attempts : status[a] = "released" => Dead(a)

\* An absence on record can be trusted when the next pass reads it.
AbsenceInv ==
    \A a \in Attempts : Trusted = "blockhash" /\ absent[a] => Expired(a)

\* What a pass in progress has established.
PassOf(p) ==
    /\ p.pc \in {"scan", "blockhash", "defer_absent"}
          => p.att \in Attempts /\ PastClaim(p.att)
    /\ p.pc \in {"scan", "blockhash"} /\ p.abs => Expired(p.att)
    /\ p.pc = "blockhash" /\ p.abs => Dead(p.att)
    /\ p.pc = "defer_absent" /\ Trusted = "blockhash" => Expired(p.att)
    /\ p.pc = "release" =>
          /\ p.att \in Attempts
          /\ p.st = "claimed" \/ (PastClaim(p.att) /\ Dead(p.att))

PassInv == \A k \in Reconcilers : PassOf(rec[k])

ReleaseInv == ChainInv /\ AbsenceInv /\ PassInv

\* A signed attempt keeps its deadline, and what is dead stays dead.
Onward ==
    /\ \A a \in Attempts :
          PastClaim(a) => /\ PastClaim(a)'
                          /\ lastValid'[a] = lastValid[a]
                          /\ Dead(a) => Dead(a)'
    /\ \A o \in Honest : view'[o] >= view[o]

\* Then an expiry that was seen stays true.
LEMMA ExpiredStays ==
    ASSUME TypeOK, TypeOK', Onward, NEW a \in Attempts, PastClaim(a),
           Expired(a)
    PROVE  Expired(a)'
BY DEF Onward, Expired, Outlived, TypeOK, ChainType, AttemptType

\* What a pass established stays true.
LEMMA PassStays ==
    ASSUME TypeOK, TypeOK', Onward, NEW k \in Reconcilers, PassOf(rec[k]),
           rec'[k] = rec[k]
    PROVE  PassOf(rec[k])'
BY ExpiredStays DEF PassOf, Onward

\* So do the absences on record.
LEMMA AbsenceStays ==
    ASSUME TypeOK, TypeOK', Onward, ChainInv, AbsenceInv, absent' = absent
    PROVE  AbsenceInv'
BY ExpiredStays DEF AbsenceInv, ChainInv

\* A step that leaves the absences and the passes alone.
LEMMA Frame ==
    ASSUME TypeOK, TypeOK', ReleaseInv, Onward, ChainInv',
           absent' = absent, rec' = rec
    PROVE  ReleaseInv'
BY PassStays, AbsenceStays DEF ReleaseInv, PassInv

\* What ReleaseInv reads, and nothing else, decides it.
LEMMA ReleaseInvStutters ==
    ASSUME TypeOK, ReleaseInv,
           UNCHANGED <<status, lastValid, absent, rec, height, view, slot>>
    PROVE  ReleaseInv'
BY DEF ReleaseInv, ChainInv, AbsenceInv, PassInv, PassOf, PastClaim, Expired,
       Outlived, Dead

\* The handlers that touch an attempt: begin, prepare and hold.
LEMMA ServeReleases ==
    ASSUME TypeOK, TypeOK', ReleaseInv, NEW c \in calls,
           ServeBegin(c) \/ ServePrepare(c) \/ ServeHold(c)
    PROVE  ReleaseInv'
<1> USE DEF TypeOK, AttemptType, ChainType
<1>0. /\ absent' = absent /\ rec' = rec
      /\ height' = height /\ view' = view /\ slot' = slot
  BY DEF ServeBegin, ServePrepare, ServeHold, chainVars
<1>1. ASSUME NEW a \in Attempts
      PROVE  /\ PastClaim(a) => PastClaim(a)' /\ lastValid'[a] = lastValid[a]
             /\ status'[a] = "released" => status[a] = "released"
             /\ ~PastClaim(a)' => lastValid'[a] = lastValid[a]
             /\ slot[a] = 0 \/ lastValid'[a] = lastValid[a]
  <2>1. CASE ServeBegin(c)
    BY <2>1 DEF ServeBegin, Payable, PastClaim
  <2>2. CASE ServePrepare(c)
    <3>1. ~PastClaim(a) => slot[a] = 0
      BY DEF ReleaseInv, ChainInv
    <3> QED BY <2>2, <3>1 DEF ServePrepare, PastClaim
  <2>3. CASE ServeHold(c)
    BY <2>3 DEF ServeHold, PastClaim
  <2> QED BY <2>1, <2>2, <2>3
<1>2. Onward
  BY <1>0, <1>1 DEF Onward, Dead
<1>3. ChainInv'
  <2>1. ASSUME NEW a \in Attempts, ~PastClaim(a)'
        PROVE  lastValid'[a] = 0 /\ ~absent'[a]
    BY <1>0, <1>1, <2>1 DEF ReleaseInv, ChainInv
  <2>2. ASSUME NEW a \in Attempts
        PROVE  slot'[a] <= lastValid'[a]
    BY <1>0, <1>1 DEF ReleaseInv, ChainInv
  <2>3. ASSUME NEW a \in Attempts, status'[a] = "released"
        PROVE  Dead(a)'
    BY <1>0, <1>1, <2>3 DEF ReleaseInv, ChainInv, Dead, PastClaim
  <2> QED BY <1>0, <2>1, <2>2, <2>3 DEF ReleaseInv, ChainInv
<1> QED BY <1>0, <1>2, <1>3, Frame

\* The chain: a transfer lands while it is valid, and origins lag behind.
LEMMA ChainReleases ==
    ASSUME TypeOK, TypeOK', ReleaseInv, Chain
    PROVE  ReleaseInv'
<1> USE DEF TypeOK, AttemptType, ChainType
<1>0. UNCHANGED <<status, lastValid, absent, rec>>
  BY DEF Chain, Tick, Land, Finalize, attVars
<1>1. Onward /\ ChainInv'
  <2>1. CASE Tick
    BY <1>0, <2>1 DEF Tick, Onward, ReleaseInv, ChainInv, Dead, PastClaim
  <2>2. ASSUME NEW b \in Attempts, Land(b)
        PROVE  Onward /\ ChainInv'
    <3>1. ~Dead(b) /\ height' = height /\ view' = view
      BY <2>2 DEF Land, Dead
    <3>2. ASSUME NEW a \in Attempts
          PROVE  /\ Dead(a) => Dead(a)'
                 /\ slot'[a] <= lastValid[a]
      BY <1>0, <2>2, <3>1 DEF Land, Dead, ReleaseInv, ChainInv
    <3> QED BY <1>0, <3>1, <3>2
        DEF Onward, ReleaseInv, ChainInv, PastClaim
  <2>3. ASSUME NEW p \in Honest, Finalize(p)
        PROVE  Onward /\ ChainInv'
    <3>1. \A o \in Honest : view'[o] >= view[o] /\ view'[o] < height
      BY <2>3 DEF Finalize, ReleaseInv, ChainInv
    <3> QED BY <1>0, <2>3, <3>1
        DEF Finalize, Onward, ReleaseInv, ChainInv, Dead, PastClaim
  <2> QED BY <2>1, <2>2, <2>3 DEF Chain
<1> QED BY <1>0, <1>1, Frame

\* One origin that tells the truth is enough: with the transaction expired
\* there, an absence it reports is final.
LEMMA AbsenceIsFinal ==
    ASSUME TypeOK, ChainInv, NEW a \in Attempts, Expired(a),
           NEW res \in [Origins -> ScanResults],
           \A o \in Origins : MayScan(o, a, res[o]),
           \A o \in Origins : res[o] = "absent"
    PROVE  Dead(a)
<1>1. PICK o \in Honest : o \in Origins
  BY OriginsAssumption DEF Honest
<1>2. ~(slot[a] # 0 /\ slot[a] <= view[o])
  BY <1>1 DEF MayScan
<1>3. view[o] > lastValid[a] /\ slot[a] <= lastValid[a] /\ view[o] < height
  BY <1>1 DEF Expired, Outlived, ChainInv
<1> QED BY <1>1, <1>2, <1>3 DEF Dead, TypeOK, AttemptType, ChainType

\* A reading step of a pass establishes what it goes on with.
LEMMA ReadReleases ==
    ASSUME TypeOK, TypeOK', ReleaseInv, NEW k \in Reconcilers,
           List(k) \/ Scan(k) \/ CheckBlockhash(k)
    PROVE  ReleaseInv'
<1> USE DEF TypeOK, AttemptType, ChainType, RecType
<1>0. UNCHANGED <<status, lastValid, absent, height, view, slot>>
  BY DEF List, Scan, CheckBlockhash, attVars, chainVars
<1>1. Onward /\ ChainInv'
  BY <1>0 DEF Onward, ReleaseInv, ChainInv, PastClaim, Dead
<1>2. ASSUME NEW j \in Reconcilers \ {k}
      PROVE  rec'[j] = rec[j]
  BY DEF List, Scan, CheckBlockhash, RecAt
<1>3. PassOf(rec[k])
  BY DEF ReleaseInv, PassInv
<1>4. PassOf(rec'[k])
  <2>1. CASE List(k)
    <3>1. PICK a \in Attempts :
            /\ Listed(a)
            /\ rec'[k] =
                 [pc  |-> IF status[a] = "claimed" THEN "release" ELSE "scan",
                  att |-> a, st |-> status[a], abs |-> Confirmable(a)]
      BY <2>1 DEF List
    <3>2. Confirmable(a) => Expired(a)
      BY TrustedAssumption DEF Confirmable, Expired, ReleaseInv, AbsenceInv
    <3>3. status[a] # "claimed" => PastClaim(a)
      BY <3>1 DEF Listed, Active, PastClaim
    <3> QED BY <3>1, <3>2, <3>3 DEF PassOf
  <2>2. CASE Scan(k)
    <3>1. PICK res \in [Origins -> ScanResults] :
            /\ \A o \in Origins : MayScan(o, rec[k].att, res[o])
            /\ rec' = RecAt(k, Verdict(res))
      BY <2>2 DEF Scan
    <3>2. rec[k].att \in Attempts /\ PastClaim(rec[k].att)
      BY <1>3, <2>2 DEF Scan, PassOf
    <3>3. rec[k].abs => Expired(rec[k].att)
      BY <1>3, <2>2 DEF Scan, PassOf
    <3>4. Verdict(res) = "blockhash" => \A o \in Origins : res[o] = "absent"
      BY DEF Verdict
    <3>5. Verdict(res) = "blockhash" /\ rec[k].abs => Dead(rec[k].att)
      BY <3>1, <3>2, <3>3, <3>4, AbsenceIsFinal DEF ReleaseInv
    <3>6. Verdict(res) \in {"settle", "defer", "blockhash"}
      BY DEF Verdict
    <3> QED BY <3>1, <3>2, <3>3, <3>5, <3>6 DEF PassOf, RecAt
  <2>3. CASE CheckBlockhash(k)
    <3>1. PICK expired \in [Origins -> BOOLEAN] :
            /\ \A o \in Origins : expired[o] => MayExpire(o, rec[k].att)
            /\ rec' = RecAt(k,
                 IF Cardinality(Origins) < 2 \/ \E o \in Origins : ~expired[o]
                 THEN "defer"
                 ELSE IF rec[k].abs THEN "release" ELSE "defer_absent")
      BY <2>3 DEF CheckBlockhash
    <3>2. /\ rec[k].att \in Attempts /\ PastClaim(rec[k].att)
          /\ rec[k].abs => Dead(rec[k].att)
      BY <1>3, <2>3 DEF CheckBlockhash, PassOf
    <3>3. CASE rec'[k].pc = "defer_absent" /\ Trusted = "blockhash"
      <4>1. \A o \in Origins : expired[o]
        BY <3>1, <3>3 DEF RecAt
      <4>2. Expired(rec[k].att)
        BY <3>1, <3>3, <4>1 DEF Expired, MayExpire, Honest
      <4> QED BY <3>1, <3>2, <3>3, <4>2 DEF PassOf, RecAt
    <3>4. CASE ~(rec'[k].pc = "defer_absent" /\ Trusted = "blockhash")
      BY <3>1, <3>2, <3>4 DEF PassOf, RecAt
    <3> QED BY <3>3, <3>4
  <2> QED BY <2>1, <2>2, <2>3
<1>5. PassOf(rec[k])'
  BY <1>0, <1>4 DEF PassOf, PastClaim, Dead, Expired, Outlived
<1>6. PassInv'
  BY <1>1, <1>2, <1>5, PassStays DEF PassInv, ReleaseInv
<1> QED BY <1>0, <1>1, <1>6, AbsenceStays DEF ReleaseInv

\* An absence is recorded only for an attempt that no origin can include.
LEMMA DeferReleases ==
    ASSUME TypeOK, TypeOK', ReleaseInv, NEW k \in Reconcilers, Defer(k)
    PROVE  ReleaseInv'
<1> USE DEF TypeOK, AttemptType, ChainType, RecType
<1>0. UNCHANGED <<status, lastValid, height, view, slot>>
  BY DEF Defer, chainVars
<1>1. PassOf(rec[k])
  BY DEF ReleaseInv, PassInv
<1>2. ASSUME NEW a \in Attempts, absent'[a] # absent[a]
      PROVE  /\ PastClaim(a)
             /\ Trusted = "blockhash" => Expired(a)
  <2>1. rec[k].pc = "defer_absent" /\ a = rec[k].att
    BY <1>2 DEF Defer
  <2> QED BY <1>1, <2>1 DEF PassOf
<1>3. Onward
  BY <1>0 DEF Onward, PastClaim, Dead
<1>4. ChainInv'
  BY <1>0, <1>2 DEF ReleaseInv, ChainInv, PastClaim, Dead
<1>5. AbsenceInv'
  BY <1>0, <1>2 DEF ReleaseInv, AbsenceInv, Expired, Outlived
<1>6. PassOf(rec[k])'
  BY DEF Defer, RecIdle, Resting, PassOf
<1>7. ASSUME NEW j \in Reconcilers \ {k}
      PROVE  rec'[j] = rec[j]
  BY DEF Defer, RecIdle
<1>8. PassInv'
  BY <1>3, <1>6, <1>7, PassStays DEF PassInv, ReleaseInv
<1> QED BY <1>4, <1>5, <1>8 DEF ReleaseInv

\* An attempt is released only when it is dead: it was never signed, or the
\* pass has proved it.
LEMMA EndReleases ==
    ASSUME TypeOK, TypeOK', ReleaseInv, NEW k \in Reconcilers,
           Release(k) \/ Settle(k)
    PROVE  ReleaseInv'
<1> USE DEF TypeOK, AttemptType, ChainType, RecType
<1>0. UNCHANGED <<lastValid, absent, height, view, slot>>
  BY DEF Release, Settle, chainVars
<1>1. PassOf(rec[k])
  BY DEF ReleaseInv, PassInv
<1>2. ASSUME NEW a \in Attempts, status'[a] # status[a]
      PROVE  /\ status'[a] \in {"settled", "released"}
             /\ status'[a] = "released" => Dead(a)
  <2>1. CASE Release(k)
    <3>1. /\ rec[k].pc = "release" /\ a = rec[k].att
          /\ CanRelease(a, rec[k].st) /\ status'[a] = "released"
      BY <1>2, <2>1 DEF Release
    <3>2. status[a] = "claimed" => Dead(a)
      BY DEF ReleaseInv, ChainInv, PastClaim, Dead
    <3> QED BY <1>1, <3>1, <3>2 DEF PassOf, CanRelease
  <2>2. CASE Settle(k)
    BY <1>2, <2>2 DEF Settle
  <2> QED BY <2>1, <2>2
<1>3. Onward /\ ChainInv'
  <2>1. ASSUME NEW a \in Attempts
        PROVE  /\ PastClaim(a) => PastClaim(a)'
               /\ ~PastClaim(a)' => ~PastClaim(a)
               /\ Dead(a) => Dead(a)'
               /\ status'[a] = "released" => Dead(a)
    <3>1. CASE status'[a] = status[a]
      BY <1>0, <3>1 DEF PastClaim, Dead, ReleaseInv, ChainInv
    <3>2. CASE status'[a] # status[a]
      BY <1>0, <1>2, <3>2 DEF PastClaim, Dead
    <3> QED BY <3>1, <3>2
  <2>2. Onward
    BY <1>0, <2>1 DEF Onward
  <2>3. ChainInv'
    BY <1>0, <2>1 DEF ReleaseInv, ChainInv, Dead
  <2> QED BY <2>2, <2>3
<1>4. AbsenceInv'
  BY <1>0, <1>3, AbsenceStays DEF ReleaseInv
<1>5. PassOf(rec[k])'
  <2>1. rec'[k].pc \in {"idle", "defer"}
    BY DEF Release, Settle, RecAt, RecIdle, Resting
  <2> QED BY <2>1 DEF PassOf
<1>6. ASSUME NEW j \in Reconcilers \ {k}
      PROVE  rec'[j] = rec[j]
  BY DEF Release, Settle, RecAt, RecIdle
<1>7. PassInv'
  BY <1>3, <1>5, <1>6, PassStays DEF PassInv, ReleaseInv
<1> QED BY <1>3, <1>4, <1>7 DEF ReleaseInv

\* A pass that dies has established nothing.
LEMMA AbortReleases ==
    ASSUME TypeOK, ReleaseInv, NEW k \in Reconcilers, Abort(k)
    PROVE  ReleaseInv'
<1>0. UNCHANGED <<status, lastValid, absent, height, view, slot>>
  BY DEF Abort, attVars, chainVars
<1>1. ChainInv' /\ AbsenceInv'
  BY <1>0 DEF ReleaseInv, ChainInv, AbsenceInv, PastClaim, Expired, Outlived,
              Dead
<1>2. ASSUME NEW j \in Reconcilers
      PROVE  PassOf(rec[j])'
  <2>1. CASE j = k
    BY <2>1 DEF Abort, RecIdle, Resting, PassOf, TypeOK, RecType
  <2>2. CASE j # k
    <3>1. rec'[j] = rec[j]
      BY <2>2 DEF Abort, RecIdle, TypeOK, RecType
    <3> QED BY <1>0, <3>1
        DEF ReleaseInv, PassInv, PassOf, PastClaim, Expired, Outlived, Dead
  <2> QED BY <2>1, <2>2
<1> QED BY <1>1, <1>2 DEF ReleaseInv, PassInv

\* What release_research_payment relies on holds in every reachable state.
LEMMA ReleaseInvCorrect == Spec => []ReleaseInv
<1>1. Init => ReleaseInv
  BY DEF Init, ReleaseInv, ChainInv, AbsenceInv, PassInv, PassOf, PastClaim,
         Expired, Resting
<1>2. TypeOK /\ TypeOK' /\ ReleaseInv /\ [Next]_vars => ReleaseInv'
  <2> SUFFICES ASSUME TypeOK, TypeOK', ReleaseInv, [Next]_vars
               PROVE  ReleaseInv'
    OBVIOUS
  <2> USE DEF attVars, chainVars
  <2>1. ASSUME NEW c \in calls,
               ServeBegin(c) \/ ServePrepare(c) \/ ServeHold(c)
        PROVE  ReleaseInv'
    BY <2>1, ServeReleases
  <2>2. ASSUME NEW c \in calls,
               \/ ServePlan(c) \/ ServeQuotes(c) \/ ServeFail(c)
               \/ ServeRefund(c) \/ ServeComplete(c)
        PROVE  ReleaseInv'
    BY <2>2, ReleaseInvStutters
    DEF ServePlan, ServeQuotes, ServeFail, ServeRefund, ServeComplete
  <2>3. CASE FinalizeRefund \/ \E d \in Docs : QuoteExpires(d)
    BY <2>3, ReleaseInvStutters DEF FinalizeRefund, QuoteExpires
  <2>4. ASSUME NEW r \in Runners, RunnerStep(r)
        PROVE  ReleaseInv'
    BY <2>4, ReleaseInvStutters
    DEF RunnerStep, StartRun, Begin, VerifyFails, Sign, FetchFails, SendPaid,
        PaidReturns
  <2>5. ASSUME NEW k \in Reconcilers, ReconcilerStep(k)
        PROVE  ReleaseInv'
    BY <2>5, ReadReleases, DeferReleases, EndReleases DEF ReconcilerStep
  <2>6. ASSUME NEW k \in Reconcilers, Abort(k)
        PROVE  ReleaseInv'
    BY <2>6, AbortReleases
  <2>7. ASSUME NEW r \in Runners, GiveUp(r) \/ Crash(r)
        PROVE  ReleaseInv'
    BY <2>7, ReleaseInvStutters DEF GiveUp, Crash
  <2>8. ASSUME NEW c \in calls, Duplicate(c)
        PROVE  ReleaseInv'
    BY <2>8, ReleaseInvStutters DEF Duplicate
  <2>9. CASE Chain
    BY <2>9, ChainReleases
  <2>10. CASE UNCHANGED vars
    BY <2>10, ReleaseInvStutters DEF vars
  <2> QED BY <2>1, <2>2, <2>3, <2>4, <2>5, <2>6, <2>7, <2>8, <2>9, <2>10
      DEF Next, Serve, Fault, Finished
<1> QED BY <1>1, <1>2, TypeCorrect, PTL DEF Spec

(* An attempt that two passes released never lands, in either reading of    *)
(* what the second pass can rely on, however many passes overlap and as     *)
(* long as one origin tells the truth.                                      *)
THEOREM ReleasedNeverLandsCorrect == Spec => []ReleasedNeverLands
<1>1. ReleaseInv => ReleasedNeverLands
  BY DEF ReleaseInv, ChainInv, ReleasedNeverLands, Dead, Landed
<1> QED BY <1>1, ReleaseInvCorrect, PTL
===============================================================================
