---------------------------- MODULE X402Settlement ----------------------------
(***************************************************************************)
(* The payment gateway's x402 routes (payment-gateway/src/main.ts): gateway*)
(* instances take signed transfers for one quote, fence it in the ledger,  *)
(* have the facilitator broadcast the transfer, hold the paid response     *)
(* until the chain has finalized it, and record it.  The ledger routes     *)
(* (document, bundle, open call) are fenced by chain_payment_attempts and  *)
(* repaired by a reconciler; the prepaid top-up route keeps everything but *)
(* the credit in the memory of one instance.                               *)
(*                                                                         *)
(* A fully signed transfer is its own attempt id (its hash), so a payload  *)
(* stands for both.                                                        *)
(***************************************************************************)
EXTENDS Naturals, FiniteSets

CONSTANTS
    MaxPayloads,    \* bound: signed transfers that pay the quote
    MaxRequests,    \* bound: paid HTTP requests
    Gateways,       \* gateway instances
    Routes,         \* "ledger" and "topup": the resource servers considered
    Retries,        \* "patient", "eager": when a client sends a payload again
    Queue,          \* whether the Cloud Tasks queue is configured
    MaxCrashes      \* bound: how often an instance dies

ASSUME BoundsAssumption == MaxPayloads \in Nat /\ MaxRequests \in Nat
ASSUME RoutesAssumption == Routes \subseteq {"ledger", "topup"}
ASSUME RetriesAssumption == Retries \subseteq {"patient", "eager"}
ASSUME QueueAssumption == Queue \in BOOLEAN
ASSUME CrashesAssumption == MaxCrashes \in Nat

Payloads == 1..MaxPayloads      \* in the order they are first sent
Requests == 1..MaxRequests      \* in the order they arrive
None == 0                       \* no payload

VARIABLES
    route,      \* the resource server the quote belongs to
    retry,      \* the client's habit
    quote,      \* quoted, expired or settled: the ledger's row
    fence,      \* the attempt in chain_payment_attempts, or None
    absent,     \* its absence_observed_at is set
    booked,     \* transfers in chain_settlements, or credited deposits
    queue,      \* settlement tasks in Cloud Tasks
    held,       \* top-up quotes: the instances that still have it
    tracked,    \* VerifiedPaymentAttemptTracker of each instance
    settledAt,  \* instances whose SettlementReplayGuard names the quote
    pending,    \* pendingSettlements / pendingTopUpDeposits of each instance
    req,        \* where each request stands
    rec,        \* where each instance's reconciliation cycle stands
    chain,      \* what has become of each transfer
    dead,       \* transfers whose blockhash no finalized block accepts
    crashes     \* crashes so far

ledger  == <<quote, fence, absent, booked>>
memory  == <<held, tracked, settledAt, pending>>
network == <<chain, dead>>
choices == <<route, retry>>
vars == <<choices, ledger, queue, memory, req, rec, network, crashes>>

-----------------------------------------------------------------------------
(* The ledger's operations (store.rs)                                       *)

\* Mutant: an attempt in progress does not stop another one.
ClaimableOver(p) == fence = p \/ quote = "quoted"

\* claim_payment_attempt: the same signed transaction converges whatever the
\* quote has become; another one needs a payable quote and no fence.
Claimable(p) == fence = p \/ (fence = None /\ quote = "quoted")

Fence(p) == fence' = p /\ absent' = (fence = p /\ absent)

\* Mutant: the observed absence outlives the row.
UnfenceOnly(p) == fence' = (IF fence = p THEN None ELSE fence) /\ UNCHANGED absent

\* release_payment_attempt, release_reconciled_payment_attempt
Unfence(p) ==
    /\ fence' = IF fence = p THEN None ELSE fence
    /\ absent' = (fence # p /\ absent)

\* Mutant: a settlement that arrives after the quote expired is refused.
RecordableWhileQuoted(p) == route = "topup" \/ (fence = p /\ quote = "quoted")

\* record_*_chain_settlement: an exact replay is accepted, a new settlement
\* needs its active attempt; a deposit needs nothing.
Recordable(p) ==
    \/ route = "topup"
    \/ (p \in booked /\ fence \in {p, None})
    \/ (booked = {} /\ fence = p)

Record(p) ==
    /\ booked' = booked \cup {p}
    /\ IF route = "ledger"
       THEN quote' = "settled" /\ fence' = None /\ absent' = FALSE
       ELSE UNCHANGED <<quote, fence, absent>>

\* Mutant: the volatile copy goes whatever became of the settlement.
PersistOnce(g, p, queued, answer) ==
    /\ queued => Queue /\ route = "ledger"
    /\ IF answer = "error" THEN UNCHANGED ledger
                           ELSE Recordable(p) /\ Record(p)
    /\ queue' = IF queued THEN queue \cup {p} ELSE queue
    /\ pending' = [pending EXCEPT ![g] = @ \ {p}]

\* persistSettlementDurably at instance g, or a deposit: the queue takes the
\* settlement or not, and the ledger's answer arrives, is lost or is an error.
\* The volatile copy goes once either has accepted it.
Persist(g, p, queued, answer) ==
    /\ queued => Queue /\ route = "ledger"
    /\ IF answer = "error" THEN UNCHANGED ledger
                           ELSE Recordable(p) /\ Record(p)
    /\ queue' = IF queued THEN queue \cup {p} ELSE queue
    /\ pending' = [pending EXCEPT ![g] =
            IF queued \/ answer = "ok" THEN @ \ {p} ELSE @ \cup {p}]

Answers == {"ok", "lost", "error"}
Forget(g, p) == tracked' = [tracked EXCEPT ![g] = IF @ = p THEN None ELSE @]

-----------------------------------------------------------------------------
(* A paid request                                                           *)

At(r, pc) == req' = [req EXCEPT ![r].pc = pc]
Is(r, pc) == req[r].pc = pc

\* The payer signs again only when it must; one that waits sends the same
\* payload again only when the gateway refused it before any settlement.
MaySend(p) ==
    /\ retry = "patient" =>
        \A r \in Requests : req[r].p = p => Is(r, "refused")
    /\ \A q \in 1..(p - 1) : \E r \in Requests : req[r].p = q

\* getQuote, getTopUpQuoteForIdentity
Payable(g) ==
    /\ g \notin settledAt
    /\ IF route = "ledger" THEN quote = "quoted"
                           ELSE quote = "quoted" /\ g \in held

\* The facilitator verifies the transfer, which has not been executed yet,
\* and onAfterVerify finds the quote payable.
Verify(r) ==
    /\ Is(r, "new") /\ \A q \in 1..(r - 1) : ~Is(q, "new")
    /\ \E g \in Gateways, p \in Payloads :
        /\ MaySend(p) /\ Payable(g)
        /\ chain[p] \in {"signed", "sent"} /\ p \notin dead
        /\ req' = [req EXCEPT ![r] = [pc |-> "verified", p |-> p, g |-> g]]
    /\ UNCHANGED <<choices, ledger, queue, memory, rec, network, crashes>>

\* claimPaymentAttempt; the caller may never hear of a fence that stands,
\* because the answer is lost or the rollback audit is down.
Claim(r) ==
    /\ Is(r, "verified") /\ route = "ledger"
    /\ LET p == req[r].p IN
        \/ /\ Claimable(p) /\ Fence(p)
           /\ \/ At(r, "claimed")
              \/ At(r, "refused")
        \/ /\ ~Claimable(p) /\ At(r, "refused")
           /\ UNCHANGED <<fence, absent>>
    /\ UNCHANGED <<choices, quote, booked, queue, memory, rec, network,
                   crashes>>

\* verifiedPaymentAttempts.remember throws when this instance already has an
\* attempt for the quote.
Remember(r) ==
    /\ Is(r, IF route = "ledger" THEN "claimed" ELSE "verified")
    /\ LET g == req[r].g IN
        IF tracked[g] = None
        THEN /\ tracked' = [tracked EXCEPT ![g] = req[r].p]
             /\ At(r, "handling")
        ELSE /\ At(r, IF route = "ledger" THEN "undoing" ELSE "refused")
             /\ UNCHANGED tracked
    /\ UNCHANGED <<choices, ledger, queue, held, settledAt, pending, rec,
                   network, crashes>>

\* ... and then the fence is released again, unless that call is lost.
Undo(r) ==
    /\ Is(r, "undoing") /\ At(r, "refused")
    /\ Unfence(req[r].p) \/ UNCHANGED <<fence, absent>>
    /\ UNCHANGED <<choices, quote, booked, queue, memory, rec, network,
                   crashes>>

\* The protected handler builds the paid response, or fails.
Handle(r) ==
    /\ Is(r, "handling")
    /\ \/ (tracked[req[r].g] # None /\ At(r, "settling"))
       \/ At(r, "canceling")
    /\ UNCHANGED <<choices, ledger, queue, memory, rec, network, crashes>>

\* onVerifiedPaymentCanceled: releaseVerifiedPaymentAttempt.
Cancel(r) ==
    /\ Is(r, "canceling") /\ At(r, "refused")
    /\ LET p == req[r].p
           g == req[r].g
       IN /\ \/ tracked[g] = p /\ route = "ledger" /\ Unfence(p)
             \/ UNCHANGED <<fence, absent>>
          /\ Forget(g, p)
    /\ UNCHANGED <<choices, quote, booked, queue, held, settledAt, pending,
                   rec, network, crashes>>

\* loadAttempt: the attempt as the route keeps it.
Fenced(r) ==
    IF route = "ledger" THEN fence = req[r].p
                        ELSE tracked[req[r].g] = req[r].p

\* settleWithIndependentFinality calls the facilitator once.
Settle(r) ==
    /\ Is(r, "settling")
    /\ \/ /\ Fenced(r) /\ At(r, "asked")
          /\ chain' = [chain EXCEPT ![req[r].p] =
                            IF @ = "signed" THEN "sent" ELSE @]
       \/ (At(r, "held") /\ UNCHANGED chain)
    /\ UNCHANGED <<choices, ledger, queue, memory, rec, dead, crashes>>

\* The facilitator reports success, or it reports a failure or nothing that
\* can be understood in time; neither is evidence.
Facilitator(r) ==
    /\ Is(r, "asked")
    /\ At(r, "polling") \/ At(r, "held")
    /\ UNCHANGED <<choices, ledger, queue, memory, rec, network, crashes>>

\* Mutant: one RPC's view is enough.
FinalForOne(p) == chain[p] \in {"landed", "final"}

\* exactSettlementSignature: every RPC reproduces the finalized transfer.
Final(p) == chain[p] = "final"

\* The response is released when they do, and held when time runs out.
Poll(r) ==
    /\ Is(r, "polling")
    /\ \/ (Final(req[r].p) /\ At(r, "settled"))
       \/ At(r, "held")
    /\ UNCHANGED <<choices, ledger, queue, memory, rec, network, crashes>>

\* onAfterSettle: without its attempt the settlement is left to an operator;
\* a lost answer about it looks the same.
AfterSettle(r) ==
    /\ Is(r, "settled")
    /\ LET p == req[r].p
           g == req[r].g
       IN \/ /\ Fenced(r) /\ At(r, "booking")
             /\ settledAt' = settledAt \cup {g}
             /\ pending' = [pending EXCEPT ![g] = @ \cup {p}]
          \/ /\ Fenced(r) => route = "ledger"
             /\ At(r, "answered") /\ UNCHANGED <<settledAt, pending>>
    /\ UNCHANGED <<choices, ledger, queue, held, tracked, rec, network,
                   crashes>>

\* reconcileSettlement, creditPrepaidTopUp: then the response leaves.  A
\* top-up forgets its attempt and its quote whatever became of the credit.
Book(r) ==
    /\ Is(r, "booking") /\ At(r, "answered")
    /\ LET p == req[r].p
           g == req[r].g
       IN \E queued \in BOOLEAN, answer \in Answers :
            /\ Persist(g, p, queued, answer)
            /\ IF route = "topup" \/ queued \/ answer = "ok"
               THEN Forget(g, p) ELSE UNCHANGED tracked
            /\ held' = IF route = "topup" THEN held \ {g} ELSE held
    /\ UNCHANGED <<choices, settledAt, rec, network, crashes>>

RequestStep(r) ==
    \/ Claim(r) \/ Remember(r) \/ Undo(r) \/ Handle(r) \/ Cancel(r)
    \/ Settle(r) \/ Facilitator(r) \/ Poll(r) \/ AfterSettle(r) \/ Book(r)

-----------------------------------------------------------------------------
(* Background work of an instance, and the queue                            *)

\* retryPendingSettlements, retryPendingTopUpDeposits
RetryPending(g) ==
    \E p \in pending[g], queued \in BOOLEAN, answer \in Answers :
        /\ Persist(g, p, queued, answer)
        /\ IF queued \/ answer = "ok" THEN Forget(g, p)
                                      ELSE UNCHANGED tracked
        /\ UNCHANGED <<choices, held, settledAt, req, rec, network, crashes>>

\* Cloud Tasks delivers a task until the ledger accepts it.
Deliver(p) ==
    /\ p \in queue /\ Recordable(p) /\ Record(p)
    /\ queue' = queue \ {p}
    /\ UNCHANGED <<choices, memory, req, rec, network, crashes>>

Resting == [pc |-> "idle", p |-> None, final |-> FALSE, abs |-> FALSE]
RecIdle(g) == rec' = [rec EXCEPT ![g] = Resting]

\* reconcileDueChainAttempts lists the due attempt and scans the chain for it.
\* The RPCs agree on a finalized transfer, or on its absence (or failure); a
\* cycle in which they do not, or in which the ledger is out of reach, defers
\* the attempt to the next one and changes nothing.
Scan(g) ==
    /\ route = "ledger" /\ rec[g].pc = "idle" /\ fence # None
    /\ rec' = [rec EXCEPT ![g] =
            [pc |-> "scanned", p |-> fence, final |-> Final(fence),
             abs |-> absent]]
    /\ UNCHANGED <<choices, ledger, queue, memory, req, network, crashes>>

\* Unanimous finalized evidence is recorded; if no one takes it, the attempt
\* is due again later.
ReconcileSettled(g) ==
    LET p == rec[g].p IN
    /\ rec[g].pc = "scanned" /\ rec[g].final
    /\ \E queued \in BOOLEAN, answer \in Answers :
        /\ Persist(g, p, queued, answer)
        /\ IF queued \/ answer = "ok" THEN Forget(g, p)
                                      ELSE UNCHANGED tracked
    /\ RecIdle(g)
    /\ UNCHANGED <<choices, held, settledAt, req, network, crashes>>

\* Mutants: one absence is enough; an absence needs no expired blockhash.
DecisionAtOnce(g) == IF rec[g].p \in dead THEN "release" ELSE "defer"
DecisionUnexpired(g) == IF rec[g].abs THEN "release" ELSE "observe"

\* exactAbsenceDecision: the transfer was absent, its blockhash has expired
\* since, and both were so in an earlier cycle.  That an RPC also calls a
\* blockhash invalid which it has not seen yet is left to the wait before the
\* first cycle and between the two.
Decision(g) ==
    IF rec[g].p \notin dead THEN "defer"
    ELSE IF rec[g].abs THEN "release" ELSE "observe"

\* defer_payment_attempt_reconciliation and release_reconciled_payment_attempt
\* change the row of this attempt only.
ReconcileAbsent(g) ==
    LET p == rec[g].p IN
    /\ rec[g].pc = "scanned" /\ ~rec[g].final
    /\ RecIdle(g)
    /\ IF Decision(g) = "release" /\ absent
       THEN Unfence(p)
       ELSE /\ absent' = (absent \/ (Decision(g) = "observe" /\ fence = p))
            /\ UNCHANGED fence
    /\ UNCHANGED <<choices, quote, booked, queue, memory, req, network,
                   crashes>>

Reconcile(g) == ReconcileSettled(g) \/ ReconcileAbsent(g)

-----------------------------------------------------------------------------
(* The chain, time and failures                                             *)

Move(p, from, to) ==
    /\ chain[p] \in from /\ chain' = [chain EXCEPT ![p] = to]
    /\ UNCHANGED <<choices, ledger, queue, memory, req, rec, dead, crashes>>

\* A broadcast transfer lands, or is executed and fails.
Land(p) == p \notin dead /\ \E to \in {"landed", "failed"} : Move(p, {"sent"}, to)

\* The last view finalizes it.
Finalize(p) == Move(p, {"landed"}, "final")

\* Its blockhash expires for every finalized view; a transfer that landed
\* before is then finalized for them too.
Expire(p) ==
    /\ p \notin dead /\ chain[p] # "landed" /\ dead' = dead \cup {p}
    /\ UNCHANGED <<choices, ledger, queue, memory, req, rec, chain, crashes>>

QuoteExpires ==
    /\ quote = "quoted" /\ quote' = "expired"
    /\ UNCHANGED <<choices, fence, absent, booked, queue, memory, req, rec,
                   network, crashes>>

Over == {"refused", "held", "answered", "lost"}

\* An instance dies and restarts: everything in its memory is gone.
Crash(g) ==
    /\ crashes < MaxCrashes /\ crashes' = crashes + 1
    /\ held' = held \ {g}
    /\ tracked' = [tracked EXCEPT ![g] = None]
    /\ settledAt' = settledAt \ {g}
    /\ pending' = [pending EXCEPT ![g] = {}]
    /\ rec' = [rec EXCEPT ![g] = Resting]
    /\ req' = [r \in Requests |->
            IF req[r].g = g /\ ~(req[r].pc \in Over \cup {"new"})
            THEN [req[r] EXCEPT !.pc = "lost"] ELSE req[r]]
    /\ UNCHANGED <<choices, ledger, queue, network>>

-----------------------------------------------------------------------------

NewRequest == [pc |-> "new", p |-> None, g |-> None]

Init ==
    /\ route \in Routes /\ retry \in Retries
    /\ quote = "quoted" /\ fence = None /\ absent = FALSE /\ booked = {}
    /\ queue = {}
    /\ IF route = "topup" THEN \E g \in Gateways : held = {g} ELSE held = {}
    /\ tracked = [g \in Gateways |-> None]
    /\ settledAt = {}
    /\ pending = [g \in Gateways |-> {}]
    /\ req = [r \in Requests |-> NewRequest]
    /\ rec = [g \in Gateways |-> Resting]
    /\ chain = [p \in Payloads |-> "signed"] /\ dead = {}
    /\ crashes = 0

Next ==
    \/ \E r \in Requests : Verify(r) \/ RequestStep(r)
    \/ \E g \in Gateways :
        RetryPending(g) \/ Scan(g) \/ Reconcile(g) \/ Crash(g)
    \/ \E p \in Payloads :
        Deliver(p) \/ Land(p) \/ Finalize(p) \/ Expire(p)
    \/ QuoteExpires

Spec == Init /\ [][Next]_vars

(* Fairness: setInterval runs the retries and reconciliation cycles of      *)
(* every instance for ever, neither the RPCs nor the ledger are for ever    *)
(* out of reach, blockhashes expire and landed transfers are finalized.     *)
(* Nothing is assumed of clients, of the facilitator or of the requests.    *)
Fairness ==
    /\ \A g \in Gateways :
        WF_vars(RetryPending(g)) /\ WF_vars(Scan(g)) /\ WF_vars(Reconcile(g))
    /\ \A p \in Payloads :
        WF_vars(Deliver(p)) /\ WF_vars(Finalize(p)) /\ WF_vars(Expire(p))

FairSpec == Spec /\ Fairness

-----------------------------------------------------------------------------
(* Properties                                                               *)

Pcs == {"new", "verified", "claimed", "undoing", "handling", "canceling",
        "settling", "asked", "polling", "settled", "booking"} \cup Over

PayloadOrNone == Payloads \cup {None}

(* The type of every variable: the ledger's rows, the gateways' memory and  *)
(* where requests, reconciliation cycles and transfers stand.               *)
TypeOK ==
    /\ route \in {"ledger", "topup"} /\ retry \in {"patient", "eager"}
    /\ quote \in {"quoted", "expired", "settled"}
    /\ fence \in PayloadOrNone /\ absent \in BOOLEAN
    /\ absent => fence # None
    /\ booked \subseteq Payloads /\ queue \subseteq Payloads
    /\ held \subseteq Gateways /\ settledAt \subseteq Gateways
    /\ tracked \in [Gateways -> PayloadOrNone]
    /\ pending \in [Gateways -> SUBSET Payloads]
    /\ req \in [Requests -> [pc : Pcs, p : PayloadOrNone,
                             g : Gateways \cup {None}]]
    /\ \A r \in Requests :
        ~Is(r, "new") => req[r].p \in Payloads /\ req[r].g \in Gateways
    /\ rec \in [Gateways -> [pc : {"idle", "scanned"}, p : PayloadOrNone,
                             final : BOOLEAN, abs : BOOLEAN]]
    /\ \A g \in Gateways :
        rec[g].pc = "scanned" => rec[g].p \in Payloads /\ route = "ledger"
    /\ chain \in [Payloads ->
                    {"signed", "sent", "landed", "failed", "final"}]
    /\ dead \subseteq Payloads
    /\ crashes \in Nat

\* p moved money, or still may.
Moved(p) == chain[p] \in {"landed", "final"}
MayMove(p) == Moved(p) \/ (chain[p] = "sent" /\ p \notin dead)

(* A transfer that has moved money, or still may, keeps its fence until it  *)
(* is recorded, so nobody can be asked to pay again (onSettleFailure: "Keep *)
(* the durable fence until reconciliation proves failure or records the     *)
(* transfer").                                                              *)
FenceKept ==
    route = "ledger" =>
        \A p \in Payloads : MayMove(p) => p \in booked \/ fence = p

(* ... as long as clients do not send a payload again while it may still be *)
(* settling.                                                                *)
FenceStands == retry = "patient" => FenceKept

(* Under the same condition at most one transfer ever moves money for the   *)
(* quote, over all payloads, instances, crashes and late settlements.       *)
PaidAtMostOnce ==
    route = "ledger" /\ retry = "patient" =>
        \A p, q \in Payloads : Moved(p) /\ Moved(q) => p = q

(* The quote in terms of the abstract payment, under the same condition:    *)
(* the fenced transfer is on offer, or the one the quote was settled by.    *)
Fencing == route = "ledger" /\ retry = "patient"

OnOffer ==
    IF ~Fencing THEN None
    ELSE IF booked = {} THEN fence ELSE CHOOSE p \in booked : TRUE
Alive == {p \in Payloads : Fencing /\ MayMove(p) /\ ~Moved(p)}
Spent == {p \in Payloads : Fencing /\ Moved(p)}

Transfer == INSTANCE OneTransfer WITH
    Txs <- Payloads, NoTx <- None,
    offer <- OnOffer, live <- Alive, paid <- Spent,
    closed <- Fencing /\ booked # {}

(* Gateways, reconciler, ledger and chain together keep the promise of      *)
(* OneTransfer: a transfer is broadcast only under its fence, the fence is  *)
(* lifted only when it cannot land, and the quote is settled by the one     *)
(* that landed (claim_payment_attempt, exactAbsenceDecision).               *)
ImplementsOneTransfer == Transfer!Spec

(* A paid response leaves a gateway, and a settlement or a credit is        *)
(* recorded, only for a finalized transfer, whatever the facilitator says   *)
(* (settleWithIndependentFinality); a quote is settled by one transfer.     *)
OnlyFinal ==
    /\ \A p \in booked : chain[p] = "final"
    /\ \A r \in Requests : Is(r, "answered") => chain[req[r].p] = "final"
    /\ route = "ledger" => \A p, q \in booked : p = q

(* Money that moved on a ledger route is recorded in the end, although      *)
(* instances crash, answers are lost and requests are abandoned.            *)
MovedIsBooked ==
    \A p \in Payloads :
        route = "ledger" /\ retry = "patient" /\ Moved(p) ~> p \in booked

(* No quote is fenced for ever: the reconciler records the transfer or      *)
(* proves twice that it can no longer land.                                 *)
FenceEnds == \A p \in Payloads : fence = p ~> fence # p

(* A top-up whose response was released is credited in the end, although    *)
(* the queue or the ledger fails and answers are lost.  Two exceptions: an  *)
(* instance that dies takes the deposit with it, since only its memory has  *)
(* it until then; and a deposit that the ledger refuses for good (a 4xx     *)
(* answer, not modelled) is dropped (retryPendingTopUpDeposits).            *)
CreditedUnlessCrashed ==
    \A r \in Requests :
        route = "topup" /\ Is(r, "answered") /\ crashes = 0
            ~> req[r].p \in booked \/ crashes > 0
=============================================================================
