--------------------------- MODULE SettlementProgram ---------------------------
(***************************************************************************)
(* The on-chain settlement program (programs/obulus-settlement): one       *)
(* invoice account, the escrow token account its address owns, and the six *)
(* instructions of processor.rs.  A Solana transaction is atomic, so one   *)
(* instruction is one action.  Accounts, hashes and keys are model values; *)
(* the account checks that only tell one address from another (owner,      *)
(* mint, PDA derivation) hold for every call enumerated here and are not   *)
(* repeated.                                                               *)
(***************************************************************************)
EXTENDS Naturals, FiniteSets, FiniteSetsExt

CONSTANTS
    Accounts,       \* recipient token accounts a line item may name, none of
                    \* them the escrow account itself
    RefundAccount,  \* the buyer's token account, refund_token_account
    Docs,           \* (document_hash, document_version) pairs
    Amounts,        \* amounts of the line items, 0 among them
    Totals,         \* totals and fees an instruction may carry
    Windows,        \* dispute windows an instruction may carry
    MinWindow,      \* MIN_DISPUTE_WINDOW_SECONDS
    MaxWindow,      \* MAX_DISPUTE_WINDOW_SECONDS
    MaxLineItems,   \* MAX_LINE_ITEMS
    MaxU64,         \* the largest amount
    MaxSafe,        \* Number.MAX_SAFE_INTEGER, the library's latest expiry
    MaxDonation,    \* bound: tokens outsiders send to the escrow account
    MaxExpiry,      \* bound: the latest expires_at an instruction may carry
    MaxTime         \* bound: the clock stops here, after every deadline

ASSUME ProgramAssumption ==
    /\ {MinWindow, MaxWindow, MaxLineItems, MaxU64, MaxSafe, MaxDonation,
        MaxExpiry, MaxTime} \subseteq Nat
    /\ MinWindow > 0
    /\ MaxTime > 0
    /\ MaxExpiry + MaxWindow <= MaxTime
    /\ Amounts \cup Totals \subseteq 0..MaxU64
    /\ Windows \subseteq Nat

VARIABLES
    now,        \* Clock::get()?.unix_timestamp
    invoice,    \* the invoice account: its arguments, status and times
    escrow,     \* balance of the escrow token account
    paid,       \* the line items the program has transferred
    refunded,   \* what it has sent back to the refund account
    donated,    \* what anyone else has sent to the escrow account
    closed,     \* token accounts that no longer unpack
    verdict     \* the resolver's decisions so far

vars == <<now, invoice, escrow, paid, refunded, donated, closed, verdict>>

TokenAccounts == Accounts \cup {RefundAccount}

-----------------------------------------------------------------------------
(* The invoice's economics *)

\* A payout.  kind 0 is a contributor's, 1 is the protocol fee.
LineItem == [to : Accounts, doc : Docs, kind : 0..1, amount : Amounts]

\* One to MaxLineItems line items, as a set: document_identities refuses a list
\* that names an identity twice.
LineItems ==
    {{v[k] : k \in 1..MaxLineItems} : v \in [1..MaxLineItems -> LineItem]}

Sum(I) == MapThenSumSet(LAMBDA i : i.amount, I)
FeeItems(I) == {i \in I : i.kind = 1}

OneItemPerIdentity(I) ==
    \A i, j \in I : i.doc = j.doc /\ i.kind = j.kind => i = j

\* The two fee rules a set of line items must meet whoever checks it.
Balanced(total, fee, I) ==
    /\ total # 0
    /\ \A i \in I : i.amount # 0
    /\ OneItemPerIdentity(I)
    /\ Sum(I) = total
    /\ Sum(FeeItems(I)) = fee
    /\ Cardinality(FeeItems(I)) = IF fee = 0 THEN 0 ELSE 1

SaturatingMul(a, b) == IF a * b > MaxU64 THEN MaxU64 ELSE a * b

\* Mutant: the fee cap is rounded up.
ValidArgsRoundingUp(total, fee, I, expires, window) ==
    /\ window \in MinWindow..MaxWindow
    /\ expires > now + window
    /\ fee <= (SaturatingMul(total, 1000) + 9999) \div 10000
    /\ Balanced(total, fee, I)

\* InvoiceAccount::validate_args.
ValidArgs(total, fee, I, expires, window) ==
    /\ window \in MinWindow..MaxWindow
    /\ expires > now + window
    /\ fee <= SaturatingMul(total, 1000) \div 10000
    /\ Sum(I) <= MaxU64
    /\ Balanced(total, fee, I)

\* validateOnchainInvoice: the browser library's check of the same arguments.
\* An expiry is an i64 for the program and a JavaScript number for the library.
LibraryAccepts(total, fee, I, expires, window) ==
    /\ expires \in 1..MaxSafe
    /\ window \in MinWindow..MaxWindow
    /\ {total, fee} \cup {i.amount : i \in I} \subseteq 0..MaxU64
    /\ fee * 10000 <= total * 1000
    /\ Balanced(total, fee, I)

-----------------------------------------------------------------------------
Open == {"Funded", "Delivered", "Disputed", "RefundApproved"}
Final == {"Settled", "Refunded"}

NoInvoice == [status |-> "none"]

Init ==
    /\ now = 1
    /\ invoice = NoInvoice
    /\ escrow = 0
    /\ paid = {}
    /\ refunded = 0
    /\ donated = 0
    /\ closed = {}
    /\ verdict = {}

\* dispute_deadline
DisputeDeadline == invoice.delivered_at + invoice.window

\* Mutant: an expired invoice is refunded even if it was delivered.
RefundWheneverExpired ==
    \/ invoice.status = "RefundApproved"
    \/ /\ invoice.status \in {"Funded", "Delivered"}
       /\ now >= invoice.expires_at

\* refund_is_allowed
RefundIsAllowed ==
    \/ invoice.status = "RefundApproved"
    \/ invoice.status = "Funded" /\ now >= invoice.expires_at

\* create_and_fund: the invoice account must not exist yet, and the refund
\* account and every recipient account must unpack.
CreateAndFund ==
    /\ invoice = NoInvoice
    /\ \E I \in LineItems, total, fee \in Totals, window \in Windows,
          expires \in 0..MaxExpiry :
        /\ ValidArgs(total, fee, I, expires, window)
        /\ RefundAccount \notin closed
        /\ \A i \in I : i.to \notin closed
        /\ invoice' = [status |-> "Funded", total |-> total, fee |-> fee,
                       items |-> I, window |-> window, expires_at |-> expires,
                       delivered_at |-> 0, settled_at |-> 0]
        /\ escrow' = escrow + total
    /\ UNCHANGED <<now, paid, refunded, donated, closed, verdict>>

MayAcknowledge ==
    /\ invoice.status = "Funded"
    /\ now < invoice.expires_at

AcknowledgeDelivery ==
    /\ MayAcknowledge
    /\ invoice' = [invoice EXCEPT !.status = "Delivered", !.delivered_at = now]
    /\ UNCHANGED <<now, escrow, paid, refunded, donated, closed, verdict>>

\* Mutant: the deadline itself still belongs to the buyer.
MayDisputeAtDeadline ==
    /\ invoice.status = "Delivered"
    /\ now <= DisputeDeadline

MayDispute ==
    /\ invoice.status = "Delivered"
    /\ now < DisputeDeadline

Dispute ==
    /\ MayDispute
    /\ invoice' = [invoice EXCEPT !.status = "Disputed"]
    /\ UNCHANGED <<now, escrow, paid, refunded, donated, closed, verdict>>

\* Mutant: a rejected dispute has a status of its own.
ResolveRejected(refund) ==
    /\ invoice.status = "Disputed"
    /\ invoice' = [invoice EXCEPT !.status =
                       IF refund THEN "RefundApproved" ELSE "Rejected"]
    /\ verdict' = verdict \cup {refund}
    /\ UNCHANGED <<now, escrow, paid, refunded, donated, closed>>

ResolveDispute(refund) ==
    /\ invoice.status = "Disputed"
    /\ invoice' = [invoice EXCEPT !.status =
                       IF refund THEN "RefundApproved" ELSE "Delivered"]
    /\ verdict' = verdict \cup {refund}
    /\ UNCHANGED <<now, escrow, paid, refunded, donated, closed>>

\* Mutant: an expired invoice is not settled.
MaySettleUnexpired ==
    /\ invoice.status = "Delivered"
    /\ now \in DisputeDeadline..invoice.expires_at

MaySettle ==
    /\ invoice.status = "Delivered"
    /\ now >= DisputeDeadline

\* Mutant: the status is saved by nobody.
SettleUnsaved ==
    /\ MaySettle
    /\ escrow >= invoice.total
    /\ \A i \in invoice.items : i.to \notin closed
    /\ paid' = paid \cup invoice.items
    /\ escrow' = escrow - Sum(invoice.items)
    /\ UNCHANGED <<now, invoice, refunded, donated, closed, verdict>>

\* settle: every line item is transferred, or the transaction fails as a whole
\* (a recipient account that does not unpack fails it).
Settle ==
    /\ MaySettle
    /\ escrow >= invoice.total
    /\ \A i \in invoice.items : i.to \notin closed
    /\ paid' = paid \cup invoice.items
    /\ escrow' = escrow - Sum(invoice.items)
    /\ invoice' = [invoice EXCEPT !.status = "Settled", !.settled_at = now]
    /\ UNCHANGED <<now, refunded, donated, closed, verdict>>

\* refund: anyone may call it; it empties the escrow account into the refund
\* account, which must unpack even if there is nothing to send.
Refund ==
    /\ invoice.status \notin Final \cup {"none"}
    /\ RefundIsAllowed
    /\ RefundAccount \notin closed
    /\ refunded' = refunded + escrow
    /\ escrow' = 0
    /\ invoice' = [invoice EXCEPT !.status = "Refunded"]
    /\ UNCHANGED <<now, paid, donated, closed, verdict>>

\* The chain around the program: time passes, a recipient or the buyer closes
\* its token account, somebody sends tokens to the escrow account.  Times are
\* relative to the invoice, so the clock starts with it.
Tick ==
    /\ invoice # NoInvoice
    /\ now < MaxTime
    /\ now' = now + 1
    /\ UNCHANGED <<invoice, escrow, paid, refunded, donated, closed, verdict>>

CloseAccount(a) ==
    /\ a \notin closed
    /\ closed' = closed \cup {a}
    /\ UNCHANGED <<now, invoice, escrow, paid, refunded, donated, verdict>>

Donate ==
    /\ donated < MaxDonation
    /\ donated' = donated + 1
    /\ escrow' = escrow + 1
    /\ UNCHANGED <<now, invoice, paid, refunded, closed, verdict>>

Next ==
    \/ CreateAndFund
    \/ AcknowledgeDelivery
    \/ Dispute
    \/ \E refund \in BOOLEAN : ResolveDispute(refund)
    \/ Settle
    \/ Refund
    \/ Tick
    \/ \E a \in TokenAccounts : CloseAccount(a)
    \/ Donate

Spec == Init /\ [][Next]_vars

\* Settlement and refund are permissionless, so whoever is owed can have them
\* executed; the resolver answers; time passes.  The buyer and the delivering
\* agent owe nothing.
FairSpec ==
    /\ Spec
    /\ WF_vars(Tick)
    /\ WF_vars(Settle)
    /\ WF_vars(Refund)
    /\ WF_vars(\E refund \in BOOLEAN : ResolveDispute(refund))

-----------------------------------------------------------------------------
(* Properties *)

\* Every variable has its type.
TypeOK ==
    /\ now \in 1..MaxTime
    /\ \/ invoice = NoInvoice
       \/ invoice \in [status : Open \cup Final, total : Nat, fee : Nat,
                       items : SUBSET LineItem, window : Nat,
                       expires_at : Nat, delivered_at : Nat, settled_at : Nat]
    /\ escrow \in Nat
    /\ paid \subseteq LineItem
    /\ refunded \in Nat
    /\ donated \in 0..MaxDonation
    /\ closed \subseteq TokenAccounts
    /\ verdict \subseteq BOOLEAN

\* While an invoice is open the escrow account can pay it in full; once it is
\* final exactly one side has the money: the recipients, every line item, or
\* the buyer, the whole balance (settle, refund).
OneSideIsPaid ==
    /\ invoice.status = "none" =>
        /\ escrow = donated
        /\ refunded = 0
    /\ invoice.status \in Open =>
        /\ escrow = invoice.total + donated
        /\ refunded = 0
    /\ invoice.status = "Settled" =>
        /\ escrow = donated
        /\ refunded = 0
        /\ paid = invoice.items
    /\ invoice.status = "Refunded" => refunded >= invoice.total
    /\ invoice.status # "Settled" => paid = {}

\* A delivered answer is never turned into a free refund by waiting: a refund
\* after the delivery was acknowledged has a verdict of the resolver behind it,
\* whatever the clock reads (refund_is_allowed, and the test
\* delivery_cannot_be_turned_into_a_free_expiry_refund).
NoFreeRefund ==
    invoice.status \in {"RefundApproved", "Refunded"} =>
        \/ TRUE \in verdict
        \/ invoice.delivered_at = 0 /\ now >= invoice.expires_at

\* The deadlines of two parties never overlap: at no moment can the agent
\* acknowledge what anybody may refund, nor the buyer dispute what anybody may
\* settle.  A settled invoice left the buyer the whole window, also when a
\* dispute was resolved against the buyer within it.
DeadlinesDisjoint ==
    /\ ~(MayAcknowledge /\ RefundIsAllowed)
    /\ ~(MayDispute /\ MaySettle)
    /\ invoice.status = "Settled" => invoice.settled_at >= DisputeDeadline

\* What the program accepts the browser library would have built, with one
\* exception, an expiry beyond the safe integers of JavaScript; and the fee is
\* at most a tenth of the total although the program's multiplication saturates
\* (validate_args, validateOnchainInvoice).
ValidatorsAgree ==
    invoice # NoInvoice =>
        /\ LibraryAccepts(invoice.total, invoice.fee, invoice.items,
                          invoice.expires_at, invoice.window)
             <=> invoice.expires_at <= MaxSafe
        /\ 10 * invoice.fee <= invoice.total

\* Nothing but a dispute moves this invoice: settle fails as a whole because a
\* recipient account does not unpack, or refund because the buyer's does not.
Stuck ==
    \/ /\ invoice.status = "Delivered"
       /\ \E i \in invoice.items : i.to \in closed
    \/ /\ invoice.status \in {"Funded", "RefundApproved"}
       /\ RefundAccount \in closed

\* An open invoice ends for good, however often it is disputed and resolved,
\* unless the side that would be paid cannot be: a recipient of a delivered
\* invoice, or the buyer of any other, closed its token account.
InvoiceEnds ==
    invoice.status \in Open ~> [](invoice.status \in Final \/ Stuck)
=============================================================================
