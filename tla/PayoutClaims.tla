----------------------------- MODULE PayoutClaims -----------------------------
(***************************************************************************)
(* One payout claim of the Rust ledger (payout_claims in                    *)
(* backend/src/store.rs): a contributor's share, an answer's bounty or a    *)
(* refund, and the worker processes that lease it, sign a transfer for it,  *)
(* store the signed transfer, broadcast it and watch it on the chain        *)
(* (agent-orchestrator/src/refunds.ts and, with the same steps,             *)
(* payment-gateway/src/payout-worker.ts).                                   *)
(*                                                                          *)
(* A call of a worker to the ledger is a record of `calls`.  The worker may *)
(* stop waiting for it, or die, and the ledger may still execute it.        *)
(***************************************************************************)
EXTENDS Integers, FiniteSets

CONSTANTS
    Workers,        \* payout worker processes
    Nobody,         \* a NULL lease_owner
    SharedName,     \* the workers run under one workerId
    Txs,            \* transfers the workers can sign (a bound)
    NoTx,           \* a NULL transaction_signature
    Origins,        \* RPC origins a worker asks
    Faulty,         \* origins whose answers may be wrong
    Lifetime,       \* heights a signed transfer stays valid after signing
    MaxCount,       \* attempt_count at which a claim is no longer leased
    AtomicApi,      \* one API process: its lock covers every handler
    MaxFaults       \* bound on timeouts, duplicated calls and crashes

ASSUME NamesAssumption ==
    Nobody \notin Workers /\ NoTx \notin Txs /\ SharedName \in BOOLEAN
ASSUME OriginsAssumption == Faulty \subseteq Origins /\ Origins \ Faulty # {}
ASSUME BoundsAssumption ==
    Lifetime \in Nat /\ MaxCount \in Nat /\ MaxFaults \in Nat
ASSUME AtomicApiAssumption == AtomicApi \in BOOLEAN

VARIABLES
    claim,          \* the row of payout_claims
    calls,          \* requests the ledger has not answered yet
    worker,         \* where each worker stands, and with which transfer
    height,         \* block height the chain is producing
    view,           \* highest block height each honest origin has finalized
    valid,          \* last height a signed transfer can land at, 0 unsigned
    sent,           \* transfers handed to an RPC origin
    slot,           \* height a transfer landed at, 0 before
    faults          \* faults used up so far

chainVars == <<height, view, valid, sent, slot>>
vars      == <<claim, calls, worker, chainVars, faults>>

Honest == Origins \ Faulty

-----------------------------------------------------------------------------
(* The row.  `live` is lease_expires_at > now, `raw` that the signed bytes  *)
(* are stored, `absence` the age of absence_observed_at against the two     *)
(* minutes of PAYOUT_ABSENCE_CONFIRMATION_MS, `done` that confirmed_at is   *)
(* set.                                                                     *)

NewClaim == [status |-> "pending", owner |-> Nobody, live |-> FALSE,
             tx |-> NoTx, raw |-> FALSE, absence |-> "none", count |-> 0,
             done |-> FALSE]

\* require_active_payout_lease compares worker ids, not processes.
Owns(w) ==
    /\ claim.live
    /\ claim.owner # Nobody
    /\ SharedName \/ claim.owner = w

Unleased(row) == [row EXCEPT !.owner = Nobody, !.live = FALSE]

(* The writes of the handlers, each an UPDATE ... WHERE id.                 *)

Leased(row, w) ==
    [row EXCEPT !.status = IF row.raw THEN "prepared" ELSE "leased",
                !.owner = w, !.live = TRUE]

\* A mutated form: the attempt is counted only when it fails.
StoredUncounted(row, t) ==
    [row EXCEPT !.status = "prepared", !.tx = t, !.raw = TRUE,
                !.absence = "none"]

Stored(row, t) ==
    [row EXCEPT !.status = "prepared", !.tx = t, !.raw = TRUE,
                !.absence = "none", !.count = @ + 1]

Confirmed(row) ==
    [Unleased(row) EXCEPT !.status = "confirmed", !.raw = FALSE,
                          !.absence = "none", !.done = TRUE]

Abandoned(row) ==
    [Unleased(row) EXCEPT !.status = "failed", !.tx = NoTx, !.raw = FALSE,
                          !.absence = "none"]

Noted(row) ==
    [Unleased(row) EXCEPT !.status = "prepared",
                          !.absence = IF @ = "none" THEN "fresh" ELSE @]

\* Mutated forms: the prepared evidence is dropped with the failed pass; a
\* failure before signing costs nothing.
FailedFree(row) ==
    [Unleased(row) EXCEPT
        !.status = IF row.raw THEN "prepared" ELSE "failed",
        !.absence = "none"]

FailedForgetful(row) ==
    [Unleased(row) EXCEPT !.status = "failed", !.tx = NoTx, !.raw = FALSE,
                          !.absence = "none", !.count = @ + 1]

Failed(row) ==
    [Unleased(row) EXCEPT
        !.status = IF row.raw THEN "prepared" ELSE "failed",
        !.absence = "none",
        !.count = IF row.raw THEN @ ELSE @ + 1]

-----------------------------------------------------------------------------
(* Calls.  tx is the transfer the caller has in hand; fail sends no         *)
(* signature, so the ledger must not look at it there.  late says that the  *)
(* caller began to look for tx after it had expired: only time uses it.     *)

Call(op, w, t, late) ==
    [op |-> op, by |-> w, tx |-> t, late |-> late, open |-> TRUE]

\* The second halves: the UPDATE of a handler that already read the row.
Writes == {"take", "store", "confirm", "wipe", "note", "drop"}

Ops == {"lease", "prepare", "complete", "abandon", "fail"}
          \cup (IF AtomicApi THEN {} ELSE Writes)

Calls == [op : Ops, by : Workers, tx : Txs \cup {NoTx}, late : BOOLEAN,
          open : BOOLEAN]

OpenCalls(w) == {c \in calls : c.by = w /\ c.open}

Idle == [pc |-> "idle", tx |-> NoTx, late |-> FALSE]

At(w, pc) ==
    [worker EXCEPT ![w] = IF pc = "idle" THEN Idle ELSE [@ EXCEPT !.pc = pc]]

\* Worker w sends the ledger the request op and waits at pc.
Ask(w, pc, pending, op) ==
    /\ worker' = At(w, pc)
    /\ calls' = pending \cup {Call(op, w, worker[w].tx, worker[w].late)}

\* The catch block around one claim; a failing fail is swallowed.
Thrown(w, pending) ==
    IF worker[w].pc \in {"leasing", "failing"}
    THEN worker' = At(w, "idle") /\ calls' = pending
    ELSE Ask(w, "failing", pending, "fail")

Refuse(c) ==
    /\ IF c.open THEN Thrown(c.by, calls \ {c})
                 ELSE calls' = calls \ {c} /\ UNCHANGED worker
    /\ UNCHANGED claim

Answer(c, pc) ==
    /\ calls' = calls \ {c}
    /\ worker' = IF c.open THEN At(c.by, pc) ELSE worker

(* What a worker does with the row it leased: sign, resume, or give up on a *)
(* row with partial evidence (validatePayoutClaim).                         *)
AnswerLease(c, row) ==
    IF ~c.open
    THEN calls' = calls \ {c} /\ UNCHANGED worker
    ELSE IF row.status = "leased" /\ row.tx # NoTx
    THEN Ask(c.by, "failing", calls \ {c}, "fail")
    ELSE /\ calls' = calls \ {c}
         /\ worker' = [worker EXCEPT ![c.by] =
               [pc |-> IF row.status = "leased" THEN "signing" ELSE "resuming",
                tx |-> row.tx, late |-> FALSE]]

(* One API process holds its lock from the read to the commit.  Several     *)
(* over PostgreSQL interleave between a handler's SELECT and its UPDATE.    *)
Later(c, write) ==
    /\ calls' = (calls \ {c}) \cup {[c EXCEPT !.op = write]}
    /\ UNCHANGED <<claim, worker>>

-----------------------------------------------------------------------------
(* lease_payout_claims: an expired unsigned lease is freed first; that      *)
(* UPDATE locks the row, so the rest of the transaction is atomic then.     *)

LeaseExpired == claim.status = "leased" /\ ~claim.live

Freed ==
    IF LeaseExpired
    THEN [Unleased(claim) EXCEPT
            !.status = IF claim.raw THEN "prepared" ELSE "pending"]
    ELSE claim

\* A mutated guard: a prepared claim is left to the worker that signed it.
LeasableUnprepared(row) ==
    /\ ~row.done /\ row.count < MaxCount
    /\ row.owner = Nobody \/ ~row.live
    /\ row.status \in {"pending", "failed"}
    /\ row.tx = NoTx /\ ~row.raw /\ row.absence = "none"

Leasable(row) ==
    /\ ~row.done /\ row.count < MaxCount
    /\ row.owner = Nobody \/ ~row.live
    /\ \/ /\ row.status \in {"pending", "failed"}
          /\ row.tx = NoTx /\ ~row.raw /\ row.absence = "none"
       \/ row.status = "prepared" /\ row.tx # NoTx /\ row.raw /\ row.count > 0

ServeLease(c) ==
    /\ c.op = "lease"
    /\ IF ~Leasable(Freed)
       THEN claim' = Freed /\ Answer(c, "idle")
       ELSE IF AtomicApi \/ LeaseExpired
       THEN claim' = Leased(Freed, c.by) /\ AnswerLease(c, claim')
       ELSE Later(c, "take")
    /\ UNCHANGED <<chainVars, faults>>

ServeTake(c) ==
    /\ c.op = "take"
    /\ claim' = Leased(claim, c.by)
    /\ AnswerLease(c, claim')
    /\ UNCHANGED <<chainVars, faults>>

\* The same evidence is on record already.
Repeated(c) == Owns(c.by) /\ claim.status = "prepared" /\ claim.tx = c.tx

(* prepare_payout_claim; a rollback hold, not modelled, may refuse it.      *)
ServePrepare(c) ==
    /\ c.op = "prepare"
    /\ \/ /\ Repeated(c)
          /\ Answer(c, "sending")
          /\ UNCHANGED claim
       \/ /\ Owns(c.by) /\ claim.status = "leased"
          /\ IF AtomicApi
             THEN claim' = Stored(claim, c.tx) /\ Answer(c, "sending")
             ELSE Later(c, "store")
       \/ /\ ~Repeated(c)
          /\ Refuse(c)
    /\ UNCHANGED <<chainVars, faults>>

ServeStore(c) ==
    /\ c.op = "store"
    /\ claim' = Stored(claim, c.tx)
    /\ Answer(c, "sending")
    /\ UNCHANGED <<chainVars, faults>>

Completable(c) ==
    /\ Owns(c.by)
    /\ claim.status = "prepared" /\ claim.tx = c.tx

(* complete_payout_claim; the parent job of a refund is closed with it.     *)
ServeComplete(c) ==
    /\ c.op = "complete"
    /\ IF claim.status = "confirmed" /\ claim.tx = c.tx
       THEN Answer(c, "idle") /\ UNCHANGED claim
       ELSE IF ~Completable(c)
       THEN Refuse(c)
       ELSE IF AtomicApi
       THEN claim' = Confirmed(claim) /\ Answer(c, "idle")
       ELSE Later(c, "confirm")
    /\ UNCHANGED <<chainVars, faults>>

ServeConfirm(c) ==
    /\ c.op = "confirm"
    /\ claim' = Confirmed(claim)
    /\ Answer(c, "idle")
    /\ UNCHANGED <<chainVars, faults>>

\* A mutated guard: one observed absence is enough.
ConfirmedAbsenceAtOnce == claim.absence # "none"

ConfirmedAbsence == claim.absence = "ripe"

(* fail_payout_claim with abandonPreparedTransaction: the first absence is  *)
(* noted, a second one after two minutes discards the evidence.             *)
ServeAbandon(c) ==
    /\ c.op = "abandon"
    /\ IF ~Owns(c.by)
       THEN Refuse(c)
       ELSE IF claim.status = "confirmed"
       THEN Answer(c, "idle") /\ UNCHANGED claim
       ELSE IF claim.status # "prepared" \/ claim.tx = NoTx \/ ~claim.raw
       THEN Refuse(c)
       ELSE IF AtomicApi
       THEN /\ claim' = IF ConfirmedAbsence THEN Abandoned(claim)
                                            ELSE Noted(claim)
            /\ Answer(c, "idle")
       ELSE Later(c, IF ConfirmedAbsence THEN "wipe" ELSE "note")
    /\ UNCHANGED <<chainVars, faults>>

ServeWipe(c) ==
    /\ c.op = "wipe"
    /\ claim' = Abandoned(claim)
    /\ Answer(c, "idle")
    /\ UNCHANGED <<chainVars, faults>>

ServeNote(c) ==
    /\ c.op = "note"
    /\ claim' = Noted(claim)
    /\ Answer(c, "idle")
    /\ UNCHANGED <<chainVars, faults>>

(* fail_payout_claim after any error: signed evidence stays on the row.     *)
ServeFail(c) ==
    /\ c.op = "fail"
    /\ IF ~Owns(c.by)
       THEN Refuse(c)
       ELSE IF claim.status = "confirmed"
       THEN Answer(c, "idle") /\ UNCHANGED claim
       ELSE IF AtomicApi
       THEN claim' = Failed(claim) /\ Answer(c, "idle")
       ELSE Later(c, "drop")
    /\ UNCHANGED <<chainVars, faults>>

ServeDrop(c) ==
    /\ c.op = "drop"
    /\ claim' = Failed(claim)
    /\ Answer(c, "idle")
    /\ UNCHANGED <<chainVars, faults>>

ServeRead(c) ==
    \/ ServeLease(c) \/ ServePrepare(c) \/ ServeComplete(c)
    \/ ServeAbandon(c) \/ ServeFail(c)

ServeWrite(c) ==
    \/ ServeTake(c) \/ ServeStore(c) \/ ServeConfirm(c) \/ ServeWipe(c)
    \/ ServeNote(c) \/ ServeDrop(c)

Serve == \E c \in calls : ServeRead(c) \/ ServeWrite(c)

\* A request whose caller is gone is executed.
ServeLate == \E c \in calls : ~c.open /\ (ServeRead(c) \/ ServeWrite(c))

\* lease_expires_at passes, before the worker's pass is over or after; only a
\* single transaction is short against the ten minutes of a lease.
LeaseExpires ==
    /\ claim.live
    /\ \A c \in calls : c.op \notin Writes
    /\ claim' = [claim EXCEPT !.live = FALSE]
    /\ UNCHANGED <<calls, worker, chainVars, faults>>

-----------------------------------------------------------------------------
(* The chain.                                                               *)

Outlived(o, t) == view[o] > valid[t]
OutlivedByAll(t) == \A o \in Honest : Outlived(o, t)

\* Heights matter only against the lifetime of a signed transfer.
Tick ==
    /\ \E t \in Txs : valid[t] # 0 /\ height <= valid[t] + 1
    /\ height' = height + 1
    /\ UNCHANGED <<claim, calls, worker, view, valid, sent, slot, faults>>

\* Only a broadcast transfer lands, and only while its blockhash is valid.
Land(t) ==
    /\ t \in sent
    /\ slot[t] = 0
    /\ height <= valid[t]
    /\ slot' = [slot EXCEPT ![t] = height]
    /\ UNCHANGED <<claim, calls, worker, height, view, valid, sent, faults>>

\* An honest origin finalizes one more block; it may lag arbitrarily.
Finalize(o) ==
    /\ view[o] + 1 < height
    /\ view' = [view EXCEPT ![o] = @ + 1]
    /\ UNCHANGED <<claim, calls, worker, height, valid, sent, slot, faults>>

-----------------------------------------------------------------------------
(* A pass of a worker over one claim (processRefundClaims, processClaim).   *)

Resume == {"resuming", "resume_heights"}
Watch  == {"watching", "watch_heights"}
Asking == {"resume_heights", "watch_heights", "abandoning"}

\* The pollers lease one claim at a time.
StartPass(w) ==
    /\ worker[w].pc = "idle"
    /\ Ask(w, "leasing", calls, "lease")
    /\ UNCHANGED <<claim, chainVars, faults>>

\* A fresh blockhash, a transfer, a signature: offered to the ledger first.
Sign(w) ==
    /\ worker[w].pc = "signing"
    /\ \E t \in Txs :
        /\ valid[t] = 0
        /\ valid' = [valid EXCEPT ![t] = height + Lifetime]
        /\ worker' = [worker EXCEPT ![w].pc = "preparing", ![w].tx = t]
        /\ calls' = calls \cup {Call("prepare", w, t, FALSE)}
    /\ UNCHANGED <<claim, height, view, sent, slot, faults>>

\* The mint, the blockhash or the key service is unavailable.
SignFails(w) ==
    /\ worker[w].pc = "signing"
    /\ Thrown(w, calls)
    /\ UNCHANGED <<claim, chainVars, faults>>

\* sendTransaction with the bytes on record.
Broadcast(w) ==
    /\ worker[w].pc = "sending"
    /\ sent' = sent \cup {worker[w].tx}
    /\ worker' = At(w, "watching")
    /\ UNCHANGED <<claim, calls, height, view, valid, slot, faults>>

\* It throws or times out: the transfer may have reached the origin or not.
BroadcastFails(w) ==
    /\ worker[w].pc = "sending"
    /\ sent' \in {sent, sent \cup {worker[w].tx}}
    /\ Thrown(w, calls)
    /\ UNCHANGED <<claim, height, view, valid, slot, faults>>

\* PAYOUT_CONFIRMATION_BUDGET_MS is used up.
TimesOut(w) ==
    /\ worker[w].pc = "watching"
    /\ Thrown(w, calls)
    /\ UNCHANGED <<claim, chainVars, faults>>

(* observePreparedPayout: each origin is asked for the signature first and  *)
(* for its finalized block height afterwards.  "other" is an error or a     *)
(* transfer seen but not final.                                             *)
Statuses == {"finalized", "absent", "other"}

MayAnswer(o, t, res) ==
    o \in Honest =>
        \/ res = "other"
        \/ res = "finalized" /\ slot[t] # 0 /\ slot[t] <= view[o]
        \/ res = "absent" /\ ~(slot[t] # 0 /\ slot[t] <= view[o])

\* Mutated forms: one origin is enough to confirm, or to suspect absence.
VerdictOfOne(res) ==
    IF \E o \in Origins : res[o] = "finalized" THEN "confirmed"
    ELSE IF \E o \in Origins : res[o] # "absent" THEN "inconclusive"
    ELSE "heights"

VerdictAbsentOnce(res) ==
    IF \A o \in Origins : res[o] = "finalized" THEN "confirmed"
    ELSE IF \A o \in Origins : res[o] # "absent" THEN "inconclusive"
    ELSE "heights"

Verdict(res) ==
    IF Cardinality(Origins) < 2 THEN "inconclusive"
    ELSE IF \A o \in Origins : res[o] = "finalized" THEN "confirmed"
    ELSE IF \E o \in Origins : res[o] # "absent" THEN "inconclusive"
    ELSE "heights"

\* Nothing can be said: broadcast (again), or go on watching.
Inconclusive(w) ==
    /\ worker' = [worker EXCEPT
            ![w].pc = IF @ \in Resume THEN "sending" ELSE "watching",
            ![w].late = FALSE]
    /\ calls' = calls

AskStatuses(w) ==
    /\ worker[w].pc \in {"resuming", "watching"}
    /\ \E res \in [Origins -> Statuses] :
        /\ \A o \in Origins : MayAnswer(o, worker[w].tx, res[o])
        /\ \/ /\ Verdict(res) = "confirmed"
              /\ Ask(w, "completing", calls, "complete")
           \/ /\ Verdict(res) = "inconclusive"
              /\ Inconclusive(w)
           \/ /\ Verdict(res) = "heights"
              /\ worker' = [worker EXCEPT
                    ![w].pc = IF @ \in Resume THEN "resume_heights"
                                              ELSE "watch_heights",
                    ![w].late = OutlivedByAll(worker[w].tx)]
              /\ calls' = calls
    /\ UNCHANGED <<claim, chainVars, faults>>

MayBePast(o, t, past) == o \in Honest /\ past => Outlived(o, t)

AskHeights(w) ==
    /\ worker[w].pc \in {"resume_heights", "watch_heights"}
    /\ \E past \in [Origins -> BOOLEAN] :
        /\ \A o \in Origins : MayBePast(o, worker[w].tx, past[o])
        /\ IF \A o \in Origins : past[o]
           THEN Ask(w, "abandoning", calls, "abandon")
           ELSE Inconclusive(w)
    /\ UNCHANGED <<claim, chainVars, faults>>

(* Two minutes since the absence was noted.  A pass asks, broadcasts,       *)
(* watches and reports within 115 s by its own timeouts, and a transfer     *)
(* outlives its signing by about one minute: so no pass over an older       *)
(* transfer is still going on, the transfer has expired for the honest      *)
(* origins, and it had when a question that is still open was asked.        *)
Pass == Resume \cup Watch \cup {"sending", "abandoning"}

AbsenceRipens ==
    /\ claim.absence = "fresh" /\ claim.tx # NoTx
    /\ OutlivedByAll(claim.tx)
    /\ \A w \in Workers :
        /\ worker[w].pc \in Pass => worker[w].tx = claim.tx
        /\ worker[w].pc \in Asking => worker[w].late
    /\ \A c \in calls : c.op = "abandon" => c.tx = claim.tx /\ c.late
    /\ claim' = [claim EXCEPT !.absence = "ripe"]
    /\ UNCHANGED <<calls, worker, chainVars, faults>>

-----------------------------------------------------------------------------
(* Faults.                                                                  *)

Orphaned(cs) == {[c EXCEPT !.open = FALSE] : c \in cs}

\* internalJson times out after 20 s; the ledger may still run the request.
GiveUp(w) ==
    /\ OpenCalls(w) # {}
    /\ faults < MaxFaults
    /\ faults' = faults + 1
    /\ Thrown(w, (calls \ OpenCalls(w)) \cup Orphaned(OpenCalls(w)))
    /\ UNCHANGED <<claim, chainVars>>

\* The same request reaches the ledger twice.
Duplicate(c) ==
    /\ c.open
    /\ faults < MaxFaults
    /\ faults' = faults + 1
    /\ calls' = calls \cup Orphaned({c})
    /\ UNCHANGED <<claim, worker, chainVars>>

\* The process dies; a restarted one starts idle.
Crash(w) ==
    /\ worker[w].pc # "idle"
    /\ faults < MaxFaults
    /\ faults' = faults + 1
    /\ worker' = At(w, "idle")
    /\ calls' = (calls \ OpenCalls(w)) \cup Orphaned(OpenCalls(w))
    /\ UNCHANGED <<claim, chainVars>>

-----------------------------------------------------------------------------

Init ==
    /\ claim = NewClaim
    /\ calls = {}
    /\ worker = [w \in Workers |-> Idle]
    /\ height = 1
    /\ view = [o \in Honest |-> 0]
    /\ valid = [t \in Txs |-> 0]
    /\ sent = {}
    /\ slot = [t \in Txs |-> 0]
    /\ faults = 0

WorkerStep(w) ==
    \/ StartPass(w) \/ Sign(w) \/ SignFails(w) \/ Broadcast(w)
    \/ BroadcastFails(w) \/ TimesOut(w) \/ AskStatuses(w) \/ AskHeights(w)

Fault ==
    \/ \E w \in Workers : GiveUp(w) \/ Crash(w)
    \/ \E c \in calls : Duplicate(c)

Chain ==
    \/ Tick
    \/ \E t \in Txs : Land(t)
    \/ \E o \in Honest : Finalize(o)

Next ==
    \/ Serve
    \/ LeaseExpires \/ AbsenceRipens
    \/ \E w \in Workers : WorkerStep(w)
    \/ Fault
    \/ Chain

Spec == Init /\ [][Next]_vars

(* Fairness: workers poll for ever and requests are executed; the chain and *)
(* its honest origins advance, leases and absences age, and the origins are *)
(* not for ever unable to answer.  A lease of ten minutes outlives a pass,  *)
(* which takes two at most, unless its worker died.                         *)
OutlivesPass ==
    claim.live /\ claim' = [claim EXCEPT !.live = FALSE] =>
        worker[claim.owner].pc \in {"idle", "leasing"}

Fairness ==
    /\ WF_vars(Serve) /\ WF_vars(ServeLate)
    /\ WF_vars(AbsenceRipens) /\ WF_vars(Tick)
    /\ WF_vars(LeaseExpires /\ OutlivesPass)
    /\ \A o \in Honest : WF_vars(Finalize(o))
    /\ \A w \in Workers :
        /\ WF_vars(WorkerStep(w))
        /\ SF_vars(/\ AskStatuses(w)
                   /\ worker'[w].pc \in {"completing"} \cup Asking)
        /\ SF_vars(AskHeights(w) /\ worker'[w].pc = "abandoning")

FairSpec == Init /\ [][Next /\ OutlivesPass]_vars /\ Fairness

\* The origins answer when a resumed pass asks for an expired transfer.
Decides ==
    \A w \in Workers :
        worker[w].pc \in Resume /\ OutlivedByAll(worker[w].tx) =>
            worker'[w].pc # "sending"

-----------------------------------------------------------------------------
(* Properties                                                               *)

Rows == [status : {"pending", "leased", "prepared", "failed", "confirmed"},
         owner : Workers \cup {Nobody}, live : BOOLEAN,
         tx : Txs \cup {NoTx}, raw : BOOLEAN,
         absence : {"none", "fresh", "ripe"}, count : Nat, done : BOOLEAN]

Pcs == {"idle", "leasing", "signing", "preparing", "sending", "completing",
        "abandoning", "failing"} \cup Resume \cup Watch

WorkerType ==
    /\ worker \in [Workers -> [pc : Pcs, tx : Txs \cup {NoTx},
                               late : BOOLEAN]]
    /\ \A w \in Workers :
        worker[w].pc \in Pass \cup {"preparing", "completing"} =>
            worker[w].tx \in Txs

ChainType ==
    /\ height \in Nat \ {0}
    /\ view \in [Honest -> Nat]
    /\ valid \in [Txs -> Nat]
    /\ sent \subseteq Txs
    /\ slot \in [Txs -> Nat]

\* Every variable has its type.
Typed ==
    /\ claim \in Rows
    /\ calls \subseteq Calls
    /\ WorkerType
    /\ ChainType
    /\ faults \in Nat

\* What the columns of a row say of each other: evidence and an absence belong
\* to a prepared row, a lease to a leased or prepared one, and the evidence was
\* counted as an attempt.
Shaped(row) ==
    /\ row.status \in {"pending", "leased", "failed"} =>
         row.tx = NoTx /\ ~row.raw /\ row.absence = "none" /\ ~row.done
    /\ row.status = "prepared" =>
         row.tx \in Txs /\ row.raw /\ row.count > 0 /\ ~row.done
    /\ row.status = "confirmed" =>
         row.tx \in Txs /\ ~row.raw /\ row.absence = "none" /\ row.done
    /\ row.status = "leased" => row.owner # Nobody
    /\ row.owner # Nobody => row.status \in {"leased", "prepared"}
    /\ row.live => row.owner # Nobody

(* Every variable has its type; and as long as one API process owns the     *)
(* ledger, status, signature, lease, absence and attempt count agree the    *)
(* way lease_payout_claims asks for them column by column.  A row out of    *)
(* shape would never be leased again.                                       *)
TypeOK == Typed /\ (AtomicApi => Shaped(claim))

Landed(t) == slot[t] # 0

\* t moved money, or still may: it left a worker, or is about to.
MayPay(t) ==
    \/ Landed(t)
    \/ /\ height <= valid[t]
       /\ \/ t \in sent
          \/ \E w \in Workers : worker[w].pc = "sending" /\ worker[w].tx = t

(* A claim is paid at most once, whatever leases expire, calls are late or  *)
(* repeated, workers die, and origins lie (exact-payout-v1).                *)
PaidOnce == Cardinality({t \in Txs : Landed(t)}) <= 1

(* Only the transfer on record has moved money or still may: a discarded    *)
(* one never lands, and a second one is never signed over it.               *)
OnRecord == \A t \in Txs : MayPay(t) => claim.tx = t

(* A claim is confirmed only with a transfer that landed.                   *)
ConfirmedIsPaid == claim.done => claim.tx \in Txs /\ Landed(claim.tx)

(* Even when several API processes interleave, a claim is confirmed only    *)
(* after a transfer for it landed (the unanimous finalized views).          *)
ConfirmedAfterPayment == claim.done => \E t \in Txs : Landed(t)

(* A confirmed claim never changes again, and signed evidence leaves the    *)
(* row only by a confirmation or by an absence noted before.                *)
EvidenceKept ==
    [][/\ claim.done => claim' = claim
       /\ claim.raw /\ ~claim'.raw =>
            claim'.done \/ claim.absence = "ripe"]_vars

(* The claim in terms of the abstract payment: the transfer on record is on *)
(* offer, and what is sent, unexpired and not landed may still move money.  *)
Live == {t \in sent : height <= valid[t] /\ ~Landed(t)}
Paid == {t \in Txs : Landed(t)}

Transfer == INSTANCE OneTransfer WITH
    offer <- claim.tx, live <- Live, paid <- Paid, closed <- claim.done

(* Ledger, workers and chain together keep the promise of OneTransfer: only *)
(* the transfer on record is ever sent alive, it is replaced only when it   *)
(* can never land, and the claim is confirmed once, by the one that landed  *)
(* (exact-payout-v1: prepare before broadcast, abandon after two absences). *)
ImplementsOneTransfer == Transfer!Spec

(* A transfer that landed is recorded in the end, unless the work budget of *)
(* the claim was used up before (attempt_count < 10 in the lease query).    *)
PaidIsConfirmed ==
    \A t \in Txs : Landed(t) ~> claim.done \/ claim.count >= MaxCount

(* When the origins answer about expired transfers from some time on, no    *)
(* claim is worked on for ever: it is confirmed or its work budget is used  *)
(* up, and the backlog query then reports it as blocked.                    *)
WorkEnds ==
    <>[][Decides]_vars => <>(claim.done \/ claim.count >= MaxCount)
===============================================================================
