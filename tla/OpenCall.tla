------------------------------- MODULE OpenCall -------------------------------
(***************************************************************************)
(* One funded open call of backend/src/store.rs: its owner pays for Target  *)
(* answers in advance, contributors hold slots and answer, an opted-in      *)
(* memory agent reuses old answers, an administrator restores a voided      *)
(* answer, and the owner cancels or deletes the account.                    *)
(*                                                                          *)
(* Every handler loads the call FOR UPDATE inside one transaction, so it is  *)
(* one action.  The memory agent's pass is a loop over its candidates in one *)
(* transaction: each iteration is an action, and the row stays locked until *)
(* EndAgents.  delete_account reads what is left of the owner's calls        *)
(* without a row lock and closes them later by a conditional update: two    *)
(* actions, which only the mutex of one process keeps together.             *)
(***************************************************************************)
EXTENDS Integers, FiniteSets

CONSTANTS
    Users,      \* contributors; the owner is none of them
    Agents,     \* those whose opted-in memory is close enough to the question
    Target,     \* answers the call pays for
    Totals,     \* USDC atomic totals an on-chain call may be funded with
    Unit,       \* USDC atomic price of an answer of a prepaid call
    OneProcess  \* one API process owns the ledger

ASSUME TargetAssumption == Target \in Nat \ {0}
ASSUME AgentsAssumption == Agents \subseteq Users
\* At any rate below 10^6 KRW per USDC an answer costs an atomic unit or more.
ASSUME TotalsAssumption == \A t \in Totals : t \in Nat /\ t >= Target
ASSUME UnitAssumption   == Unit \in Nat \ {0}
ASSUME ProcessAssumption == OneProcess \in BOOLEAN

VARIABLES
    call,       \* the row of open_calls, with what was paid and returned of it
    agents,     \* run_call_agents for this call: due, running, done
    entry,      \* the memory entry of each contributor for this call
    dispute,    \* its dispute event
    earned,     \* earning events (with their payout claims) of each contributor
    resv,       \* contributors with an unexpired reservation
    owner,      \* the owner's account: here, leaving (delete_account runs), gone
    seen        \* what the deletion read as left of the call

vars == <<call, agents, entry, dispute, earned, resv, owner, seen>>

-----------------------------------------------------------------------------
(* State *)

Calls == [mode : {"x402_solana_escrow", "prepaid"},
          status : {"open", "filled", "cancelled"},
          answered : 0 .. Target,
          units : 0 .. Target,      \* escrow_remaining_krw, in unit prices
          total : Nat, remaining : Nat,
          paid : Nat, refunded : Nat]

TypeOK ==
    /\ call \in Calls
    /\ agents \in {"due", "running", "done"}
    /\ entry \in [Users -> {"none", "voided", "settled", "reuse", "deleted"}]
    /\ dispute \in [Users -> {"none", "pending", "approved", "rejected"}]
    /\ earned \in [Users -> Nat]
    /\ resv \subseteq Users
    /\ owner \in {"here", "leaving", "gone"}
    /\ seen \in Nat

\* A call as record_open_call_chain_settlement or create_open_call inserts it.
NewCall(mode, total) ==
    [mode |-> mode, status |-> "open", answered |-> 0, units |-> Target,
     total |-> total, remaining |-> total, paid |-> 0, refunded |-> 0]

Init ==
    /\ \/ \E t \in Totals : call = NewCall("x402_solana_escrow", t)
       \/ call = NewCall("prepaid", Unit * Target)
    /\ agents = "due"
    /\ entry = [u \in Users |-> "none"]
    /\ dispute = [u \in Users |-> "none"]
    /\ earned = [u \in Users |-> 0]
    /\ resv = {}
    /\ owner = "here"
    /\ seen = 0

-----------------------------------------------------------------------------
(* What an accepted answer costs and does to the call *)

OnChain == call.mode = "x402_solana_escrow"

\* A mutated share: every answer takes one unit more when there is a remainder.
ShareRoundedUp == call.total \div Target
                    + IF call.total % Target > 0 THEN 1 ELSE 0

\* The next answer's share of an on-chain total: the first answers take the
\* remainder of the division, one atomic unit each.
Share == call.total \div Target
            + IF call.answered < call.total % Target THEN 1 ELSE 0

Price == IF OnChain THEN Share ELSE Unit

\* open_call_answer_atomic: an on-chain call whose next share is nothing, or
\* more than is left, refuses every answer, the voided ones too.
Payable == OnChain => Share > 0 /\ Share <= call.remaining

HasCapacity == call.status = "open" /\ call.answered < Target

\* A mutated update: the WHERE clause lacks the status, the count and the gate.
AcceptsAlways == Payable

\* The conditional update that takes one answer from the escrow.
Accepts == HasCapacity /\ call.units >= 1 /\ Payable

LeftAfter == IF call.remaining >= Price THEN call.remaining - Price ELSE 0

Accept(u) ==
    /\ Accepts
    /\ call' = [call EXCEPT
                  !.answered  = @ + 1,
                  !.units     = @ - 1,
                  !.remaining = LeftAfter,
                  !.paid      = @ + Price,
                  !.status    = IF call.answered + 1 >= Target THEN "filled" ELSE @]
    /\ earned' = [earned EXCEPT ![u] = @ + 1]

\* The last answer drops every reservation, an earlier one only its author's.
ReservationsAfter(u) == IF call.answered + 1 >= Target THEN {} ELSE resv \ {u}

\* run_call_agents holds the call's row; in one process a deletion holds the
\* connection.
Unlocked == agents # "running" /\ (OneProcess => owner # "leaving")

\* An accepted answer notifies the owner, whose row a deletion has locked; only
\* an insertion waits for the lock, not a notice that is there already.  The last
\* answer has a notice of its own.
CanNotify ==
    owner = "leaving" =>
        /\ ~OneProcess
        /\ call.answered + 1 < Target
        /\ \E v \in Users : earned[v] > 0 /\ dispute[v] # "approved"

SlotsLeft == Target - call.answered

\* A mutated count: off by one.
SlotForOneMore(u) == u \in resv \/ Cardinality(resv \ {u}) <= SlotsLeft

\* Some slot is not held by anybody but u.
SlotFor(u) == u \in resv \/ Cardinality(resv \ {u}) < SlotsLeft

-----------------------------------------------------------------------------
(* Reservations *)

\* reserve_open_call, which renews as well.
Reserve(u) ==
    /\ Unlocked /\ HasCapacity
    /\ entry[u] = "none"
    /\ SlotFor(u)
    /\ resv' = resv \cup {u}
    /\ UNCHANGED <<call, agents, entry, dispute, earned, owner, seen>>

\* release_open_call_reservation, or ten minutes without a renewal.
Unreserve(u) ==
    /\ u \in resv
    /\ resv' = resv \ {u}
    /\ UNCHANGED <<call, agents, entry, dispute, earned, owner, seen>>

-----------------------------------------------------------------------------
(* Answers *)

\* What submit_answer checks before it judges the answer.  It does not ask
\* whether the call is still open.
MayAnswer(u) ==
    /\ Unlocked
    /\ entry[u] = "none"
    /\ call.answered < Target
    /\ Payable
    /\ SlotFor(u)

\* The answer passes the quality rules: document, escrow, earning, claim.
AnswerSettles(u) ==
    /\ MayAnswer(u) /\ CanNotify
    /\ Accept(u)
    /\ entry' = [entry EXCEPT ![u] = "settled"]
    /\ resv' = ReservationsAfter(u)
    /\ UNCHANGED <<agents, dispute, owner, seen>>

\* The answer is voided: it is stored, and pays nothing.
AnswerVoided(u) ==
    /\ MayAnswer(u)
    /\ entry' = [entry EXCEPT ![u] = "voided"]
    /\ resv' = resv \ {u}
    /\ UNCHANGED <<call, agents, dispute, earned, owner, seen>>

-----------------------------------------------------------------------------
(* The memory agent, in a transaction of its own after the funding's *)

\* One candidate whose paid memory is reused.  An error would roll back the
\* whole pass; SlotsAreFunded says that none occurs.
AgentMatch(u) ==
    /\ agents \in {"due", "running"}
    /\ CanNotify
    /\ u \in Agents /\ entry[u] = "none"
    /\ Accept(u)
    /\ entry' = [entry EXCEPT ![u] = "reuse"]
    /\ resv' = IF call.answered + 1 >= Target THEN {} ELSE resv
    /\ agents' = "running"
    /\ UNCHANGED <<dispute, owner, seen>>

EndAgents ==
    /\ agents # "done"
    /\ agents' = "done"
    /\ UNCHANGED <<call, entry, dispute, earned, resv, owner, seen>>

-----------------------------------------------------------------------------
(* Disputes *)

SubmitDispute(u) ==
    /\ Unlocked
    /\ entry[u] = "voided" /\ dispute[u] = "none"
    /\ dispute' = [dispute EXCEPT ![u] = "pending"]
    /\ UNCHANGED <<call, agents, entry, earned, resv, owner, seen>>

\* A mutated check: neither the dispute nor the entry has to be undecided.
RestorableAgain(u) == Unlocked /\ dispute[u] # "none"

\* An answer that can still be restored; reservations are not asked for.
Restorable(u) == Unlocked /\ dispute[u] = "pending" /\ entry[u] = "voided"

Approve(u) ==
    /\ Restorable(u)
    /\ Accept(u)
    /\ entry' = [entry EXCEPT ![u] = "settled"]
    /\ dispute' = [dispute EXCEPT ![u] = "approved"]
    /\ UNCHANGED <<agents, resv, owner, seen>>

Reject(u) ==
    /\ Unlocked /\ dispute[u] = "pending"
    /\ dispute' = [dispute EXCEPT ![u] = "rejected"]
    /\ UNCHANGED <<call, agents, entry, earned, resv, owner, seen>>

-----------------------------------------------------------------------------
(* The end of a call *)

\* Mutated forms: the escrow is not emptied; a full call is cancelled too.
ReturnedKeeping(amount) ==
    [call EXCEPT !.status = IF @ = "open" THEN "cancelled" ELSE @,
                 !.refunded = @ + amount]
ReturnedAnyway(amount) ==
    [call EXCEPT !.status = "cancelled", !.units = 0, !.remaining = 0,
                 !.refunded = @ + amount]

\* The amount goes back as a claim or a prepaid credit, and the call is closed
\* if it is open.
Returned(amount) ==
    [call EXCEPT
       !.status    = IF @ = "open" THEN "cancelled" ELSE @,
       !.units     = IF call.status = "open" THEN 0 ELSE @,
       !.remaining = IF call.status = "open" THEN 0 ELSE @,
       !.refunded  = @ + amount]

\* The prepaid ledger takes one open_call_refund of a call.
CreditOnce(amount) == call.mode = "prepaid" /\ amount > 0 => call.refunded = 0

Cancellable == owner # "gone" /\ call.status = "open"

Cancel ==
    /\ Unlocked /\ Cancellable /\ CreditOnce(call.remaining)
    /\ call' = Returned(call.remaining)
    /\ resv' = {}
    /\ UNCHANGED <<agents, entry, dispute, earned, owner, seen>>

\* delete_account of the owner sums up what its open calls have left ...
DeletionReads ==
    /\ Unlocked /\ owner = "here"
    /\ owner' = "leaving"
    /\ seen' = IF call.status = "open" THEN call.remaining ELSE 0
    /\ UNCHANGED <<call, agents, entry, dispute, earned, resv>>

\* ... and then returns that and closes the calls that are still open, or rolls
\* back when the prepaid ledger refuses the credit.
DeletionWrites ==
    /\ agents # "running" /\ owner = "leaving"
    /\ IF CreditOnce(seen)
       THEN owner' = "gone" /\ call' = Returned(seen)
       ELSE owner' = "here" /\ UNCHANGED call
    /\ UNCHANGED <<agents, entry, dispute, earned, resv, seen>>

\* delete_account of a contributor: entry and dispute go, the reservation with
\* the user's row (ON DELETE CASCADE), and the payout claims stay.
ContributorDeletes(u) ==
    /\ Unlocked
    /\ entry[u] # "deleted"
    /\ entry' = [entry EXCEPT ![u] = "deleted"]
    /\ dispute' = [dispute EXCEPT ![u] = "none"]
    /\ resv' = resv \ {u}
    /\ UNCHANGED <<call, agents, earned, owner, seen>>

-----------------------------------------------------------------------------
UserStep(u) ==
    \/ Reserve(u) \/ Unreserve(u)
    \/ AnswerSettles(u) \/ AnswerVoided(u)
    \/ AgentMatch(u)
    \/ SubmitDispute(u) \/ Approve(u) \/ Reject(u)
    \/ ContributorDeletes(u)

Next == EndAgents \/ Cancel \/ DeletionReads \/ DeletionWrites \/ \E u \in Users : UserStep(u)

Spec == Init /\ [][Next]_vars

-----------------------------------------------------------------------------
(* Properties *)

\* Every atomic unit of the funding is left in the escrow, paid to a
\* contributor or returned to the payer: the shares of settle_agent_match,
\* submit_answer and review_dispute, the saturating draw-down of a prepaid call
\* and the refunds of cancel_open_call and delete_account add up.
Conserved == call.paid + call.refunded + call.remaining = call.total

\* A slot that is advertised can be paid: an open call with room never refuses
\* an answer because the escrow ran out through rounding, and a full call has
\* spent its whole total (open_call_answer_atomic, the KRW gate beside it).
SlotsAreFunded ==
    /\ HasCapacity => Accepts
    /\ call.status = "filled" => call.remaining = 0 /\ call.refunded = 0

\* A contributor earns at most once from a call, and exactly when the entry is
\* a settled answer or a reuse: not by answering beside the agent, by a second
\* review of a dispute, or by both an answer and a restoration.
AnswersPaidOnce ==
    \A u \in Users :
        /\ entry[u] \in {"none", "voided"} => earned[u] = 0
        /\ entry[u] \in {"settled", "reuse"} => earned[u] = 1
        /\ entry[u] = "deleted" => earned[u] <= 1
        /\ dispute[u] = "approved" => entry[u] = "settled"

\* Those who took a slot without regard to reservations.
Overtaking ==
    {u \in Users : earned[u] > 0
                    /\ (entry[u] \in {"reuse", "deleted"} \/ dispute[u] = "approved")}

\* Between contributors the reservations hold: renewals, releases, expiries and
\* answers never leave more holders than slots, except by the slots that a
\* restored or reused answer took (reserve_open_call and submit_answer count
\* the others' reservations only; review_dispute and settle_agent_match count
\* none).
HoldersFit ==
    call.status = "open"
        => Cardinality(resv) <= SlotsLeft + Cardinality(Overtaking)

\* A closed call stays as it is: no late approval, answer, agent, cancellation
\* or deletion draws on it or opens it again.
ClosedIsFinal == [][call.status # "open" => call' = call]_vars

===============================================================================
