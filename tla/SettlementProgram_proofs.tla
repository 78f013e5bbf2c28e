------------------------ MODULE SettlementProgram_proofs ------------------------
(***************************************************************************)
(* Proofs about SettlementProgram, for every set of accounts, amounts and  *)
(* windows and every bound.                                                *)
(***************************************************************************)
EXTENDS SettlementProgram, TLAPS

\* What validate_args leaves true of the stored invoice, and what each status
\* says of the rest of the state.
InvoiceFacts ==
    /\ invoice # NoInvoice => Sum(invoice.items) = invoice.total
    /\ invoice.status = "Funded" => invoice.delivered_at = 0

IInv ==
    /\ TypeOK
    /\ OneSideIsPaid
    /\ InvoiceFacts

\* The floor of a division bounds what is at most it.
LEMMA FloorBounds ==
    ASSUME NEW x \in Nat, NEW d \in Nat \ {0}, NEW f \in Nat, f <= x \div d
    PROVE  f * d <= x
<1>1. x \div d \in Nat /\ d * (x \div d) <= x
  <2>1. x % d = x - d * (x \div d)
    BY SMT
  <2>2. x % d >= 0 /\ x \div d \in Nat
    BY SMT
  <2> QED BY <2>1, <2>2
<1> DEFINE q == x \div d
<1>2. f * d <= d * q
  <2> HIDE DEF q
  <2> SUFFICES ASSUME q \in Nat, f <= q PROVE f * d <= d * q
    BY <1>1 DEF q
  <2>1. q - f \in Nat
    OBVIOUS
  <2>2. (q - f) * d \in Nat
    BY <2>1
  <2>3. (q - f) * d = (d * q) - (f * d)
    BY <2>1
  <2>4. f * d \in Nat /\ d * q \in Nat
    OBVIOUS
  <2> QED BY <2>2, <2>3, <2>4
<1> QED BY <1>1, <1>2

\* A fee the program accepts is one the library accepts, and at most a tenth of
\* the total: saturation can only lower the cap.
LEMMA FeeCap ==
    ASSUME NEW total \in Nat, NEW fee \in Nat,
           fee <= SaturatingMul(total, 1000) \div 10000
    PROVE  /\ fee * 10000 <= total * 1000
           /\ 10 * fee <= total
<1>1. MaxU64 \in Nat
  BY ProgramAssumption
<1>2. SaturatingMul(total, 1000) \in Nat /\ SaturatingMul(total, 1000) <= total * 1000
  BY <1>1 DEF SaturatingMul
<1>3. fee * 10000 <= SaturatingMul(total, 1000)
  <2> HIDE DEF SaturatingMul
  <2> QED BY <1>2, FloorBounds
<1> QED BY <1>2, <1>3

\* The parts of an accepted instruction the invariants use.
LEMMA AcceptedArgs ==
    ASSUME TypeOK, NEW I \in LineItems, NEW total \in Totals, NEW fee \in Totals,
           NEW window \in Windows, NEW expires \in 0..MaxExpiry,
           ValidArgs(total, fee, I, expires, window)
    PROVE  /\ I \subseteq LineItem
           /\ total \in Nat /\ fee \in Nat /\ window \in Nat /\ expires \in Nat
           /\ Sum(I) = total
           /\ LibraryAccepts(total, fee, I, expires, window)
                <=> expires <= MaxSafe
           /\ 10 * fee <= total
<1>1. I \subseteq LineItem
  <2>1. PICK v \in [1..MaxLineItems -> LineItem] : I = {v[k] : k \in 1..MaxLineItems}
    BY DEF LineItems
  <2> QED BY <2>1
<1>2. total \in Nat /\ fee \in Nat /\ window \in Nat /\ expires \in Nat
  BY ProgramAssumption
<1>3. Sum(I) = total
  BY DEF ValidArgs, Balanced
<1>4. fee * 10000 <= total * 1000 /\ 10 * fee <= total
  BY <1>2, FeeCap DEF ValidArgs
<1>5. now \in Nat
  BY DEF TypeOK
<1>6. expires \in 1..MaxSafe <=> expires <= MaxSafe
  <2>1. expires > 0 /\ MaxSafe \in Nat
    BY <1>2, <1>5, ProgramAssumption DEF ValidArgs
  <2> QED BY <1>2, <2>1
<1>7. {total, fee} \cup {i.amount : i \in I} \subseteq 0..MaxU64
  BY <1>1, ProgramAssumption DEF LineItem
<1> QED BY <1>1, <1>2, <1>3, <1>4, <1>6, <1>7 DEF ValidArgs, LibraryAccepts

-----------------------------------------------------------------------------
LEMMA InitIInv == Init => IInv
BY ProgramAssumption
   DEF Init, IInv, TypeOK, OneSideIsPaid, InvoiceFacts, NoInvoice, Open, Final

LEMMA CreatePreserves == IInv /\ CreateAndFund => IInv'
<1> SUFFICES ASSUME IInv, CreateAndFund PROVE IInv'
  OBVIOUS
<1>1. PICK I \in LineItems, total \in Totals, fee \in Totals, window \in Windows,
          expires \in 0..MaxExpiry :
        /\ ValidArgs(total, fee, I, expires, window)
        /\ invoice' = [status |-> "Funded", total |-> total, fee |-> fee,
                       items |-> I, window |-> window, expires_at |-> expires,
                       delivered_at |-> 0, settled_at |-> 0]
        /\ escrow' = escrow + total
  BY DEF CreateAndFund
<1>2. /\ I \subseteq LineItem /\ total \in Nat /\ fee \in Nat /\ window \in Nat
      /\ expires \in Nat /\ Sum(I) = total
  BY <1>1, AcceptedArgs DEF IInv
<1>3. TypeOK'
  BY <1>1, <1>2 DEF IInv, TypeOK, CreateAndFund, Open
<1>4. OneSideIsPaid'
  BY <1>1, <1>2 DEF IInv, TypeOK, OneSideIsPaid, CreateAndFund, NoInvoice, Open
<1>5. InvoiceFacts'
  BY <1>1, <1>2 DEF InvoiceFacts
<1> QED BY <1>3, <1>4, <1>5 DEF IInv

LEMMA AcknowledgePreserves == IInv /\ AcknowledgeDelivery => IInv'
<1> SUFFICES ASSUME IInv, AcknowledgeDelivery PROVE IInv'
  OBVIOUS
<1>1. invoice # NoInvoice /\ invoice.status = "Funded"
  BY DEF AcknowledgeDelivery, MayAcknowledge, NoInvoice
<1>2. invoice' = [status |-> "Delivered", total |-> invoice.total,
                  fee |-> invoice.fee, items |-> invoice.items,
                  window |-> invoice.window, expires_at |-> invoice.expires_at,
                  delivered_at |-> now, settled_at |-> invoice.settled_at]
  BY <1>1 DEF IInv, TypeOK, AcknowledgeDelivery
<1>3. TypeOK'
  BY <1>1, <1>2, ProgramAssumption
     DEF IInv, TypeOK, AcknowledgeDelivery, NoInvoice, Open
<1>4. OneSideIsPaid'
  BY <1>1, <1>2 DEF IInv, OneSideIsPaid, AcknowledgeDelivery, Open
<1>5. InvoiceFacts'
  BY <1>1, <1>2 DEF IInv, InvoiceFacts
<1> QED BY <1>3, <1>4, <1>5 DEF IInv

LEMMA DisputePreserves == IInv /\ Dispute => IInv'
BY DEF IInv, TypeOK, OneSideIsPaid, InvoiceFacts, Dispute, MayDispute, NoInvoice,
       Open, Final

LEMMA ResolvePreserves ==
    ASSUME NEW refund \in BOOLEAN PROVE IInv /\ ResolveDispute(refund) => IInv'
BY DEF IInv, TypeOK, OneSideIsPaid, InvoiceFacts, ResolveDispute, NoInvoice, Open,
       Final

LEMMA SettlePreserves == IInv /\ Settle => IInv'
<1> SUFFICES ASSUME IInv, Settle PROVE IInv'
  OBVIOUS
<1>1. invoice # NoInvoice /\ Sum(invoice.items) = invoice.total
  BY DEF IInv, InvoiceFacts, Settle, MaySettle, NoInvoice
<1>2. escrow' = escrow - invoice.total
  BY <1>1 DEF Settle
<1>3. invoice' = [status |-> "Settled", total |-> invoice.total,
                  fee |-> invoice.fee, items |-> invoice.items,
                  window |-> invoice.window, expires_at |-> invoice.expires_at,
                  delivered_at |-> invoice.delivered_at, settled_at |-> now]
  BY <1>1 DEF IInv, TypeOK, Settle
<1>4. TypeOK'
  BY <1>1, <1>2, <1>3, ProgramAssumption
     DEF IInv, TypeOK, OneSideIsPaid, Settle, MaySettle, NoInvoice, Open, Final
<1>5. OneSideIsPaid'
  BY <1>1, <1>2, <1>3
     DEF IInv, TypeOK, OneSideIsPaid, Settle, MaySettle, NoInvoice, Open, Final
<1>6. InvoiceFacts'
  BY <1>1, <1>3 DEF InvoiceFacts
<1> QED BY <1>4, <1>5, <1>6 DEF IInv

LEMMA RefundPreserves == IInv /\ Refund => IInv'
BY DEF IInv, TypeOK, OneSideIsPaid, InvoiceFacts, Refund, RefundIsAllowed,
       NoInvoice, Open, Final

LEMMA ChainPreserves ==
    IInv /\ (Tick \/ (\E a \in TokenAccounts : CloseAccount(a)) \/ Donate) => IInv'
BY ProgramAssumption
   DEF IInv, TypeOK, OneSideIsPaid, InvoiceFacts, Tick, CloseAccount, Donate,
       NoInvoice, Open, Final

LEMMA StepIInv == IInv /\ [Next]_vars => IInv'
<1> SUFFICES ASSUME IInv, [Next]_vars PROVE IInv'
  OBVIOUS
<1>1. CASE UNCHANGED vars
  BY <1>1 DEF IInv, TypeOK, OneSideIsPaid, InvoiceFacts, vars
<1> QED BY <1>1, CreatePreserves, AcknowledgePreserves, DisputePreserves,
           ResolvePreserves, SettlePreserves, RefundPreserves, ChainPreserves
        DEF Next

LEMMA IInvHolds == Spec => []IInv
BY InitIInv, StepIInv, PTL DEF Spec

-----------------------------------------------------------------------------
\* Every variable keeps its type; the escrow balance never goes below zero.
THEOREM TypeCorrect == Spec => []TypeOK
BY IInvHolds, PTL DEF IInv

\* Exactly one side is ever paid out of the escrow account, and in full.
THEOREM OneSideIsPaidAlways == Spec => []OneSideIsPaid
BY IInvHolds, PTL DEF IInv

\* A refund after an acknowledged delivery has the resolver behind it.
THEOREM NoFreeRefundAlways == Spec => []NoFreeRefund
<1>1. Init => NoFreeRefund
  BY DEF Init, NoFreeRefund, NoInvoice
<1>2. IInv /\ NoFreeRefund /\ [Next]_vars => NoFreeRefund'
  <2> SUFFICES ASSUME IInv, NoFreeRefund, [Next]_vars PROVE NoFreeRefund'
    OBVIOUS
  <2> USE ProgramAssumption DEF IInv, TypeOK, NoFreeRefund, NoInvoice, Open, Final
  <2>0. /\ now \in Nat
        /\ invoice # NoInvoice => /\ invoice.expires_at \in Nat
                                  /\ invoice.status \in Open \cup Final
                                  /\ DOMAIN invoice = {"status", "total", "fee",
                                        "items", "window", "expires_at",
                                        "delivered_at", "settled_at"}
    OBVIOUS
  <2>1. CASE CreateAndFund
    BY <2>1 DEF CreateAndFund
  <2>2. CASE AcknowledgeDelivery
    BY <2>2 DEF AcknowledgeDelivery, MayAcknowledge
  <2>3. CASE Dispute
    BY <2>3 DEF Dispute, MayDispute
  <2>4. CASE \E refund \in BOOLEAN : ResolveDispute(refund)
    BY <2>4 DEF ResolveDispute
  <2>5. CASE Settle
    BY <2>5 DEF Settle, MaySettle
  <2>6. CASE Refund
    <3>1. invoice # NoInvoice
      BY <2>6 DEF Refund
    <3>2. /\ invoice'.delivered_at = invoice.delivered_at
          /\ invoice'.expires_at = invoice.expires_at
          /\ now' = now /\ verdict' = verdict
      BY <2>6, <3>1 DEF Refund
    <3>3. CASE invoice.status = "RefundApproved"
      BY <3>2, <3>3
    <3>4. CASE invoice.status = "Funded" /\ now >= invoice.expires_at
      BY <3>2, <3>4 DEF InvoiceFacts
    <3> QED BY <2>6, <3>3, <3>4 DEF Refund, RefundIsAllowed
  <2>7. CASE Tick
    <3>1. /\ now' = now + 1 /\ invoice' = invoice /\ verdict' = verdict
          /\ invoice # NoInvoice
      BY <2>7 DEF Tick
    <3>2. invoice.expires_at \in Nat /\ now \in Nat
      BY <2>0, <3>1
    <3>3. now >= invoice.expires_at => now + 1 >= invoice.expires_at
      BY <3>2
    <3> QED BY <3>1, <3>3
  <2>8. CASE (\E a \in TokenAccounts : CloseAccount(a)) \/ Donate
    BY <2>8 DEF CloseAccount, Donate
  <2>9. CASE UNCHANGED vars
    BY <2>9 DEF vars
  <2> QED BY <2>1, <2>2, <2>3, <2>4, <2>5, <2>6, <2>7, <2>8, <2>9 DEF Next
<1> QED BY <1>1, <1>2, IInvHolds, PTL DEF Spec

\* No two parties' deadlines overlap and a settlement waits for the window.
THEOREM DeadlinesAlwaysDisjoint == Spec => []DeadlinesDisjoint
<1> USE DEF IInv, TypeOK, DeadlinesDisjoint, NoInvoice, Open, Final,
            DisputeDeadline, MayAcknowledge, RefundIsAllowed, MayDispute, MaySettle
<1>1. Init => DeadlinesDisjoint
  BY DEF Init
<1>2. IInv /\ DeadlinesDisjoint /\ [Next]_vars => DeadlinesDisjoint'
  <2> SUFFICES ASSUME IInv, IInv', DeadlinesDisjoint, [Next]_vars
               PROVE  (invoice.status = "Settled" =>
                          invoice.settled_at >= DisputeDeadline)'
    BY StepIInv
  <2>1. CASE CreateAndFund
    BY <2>1 DEF CreateAndFund
  <2>2. CASE AcknowledgeDelivery \/ Dispute \/ Refund
             \/ \E refund \in BOOLEAN : ResolveDispute(refund)
    BY <2>2 DEF AcknowledgeDelivery, Dispute, Refund, ResolveDispute
  <2>3. CASE Settle
    BY <2>3 DEF Settle
  <2>4. CASE Tick \/ (\E a \in TokenAccounts : CloseAccount(a)) \/ Donate
             \/ UNCHANGED vars
    BY <2>4 DEF Tick, CloseAccount, Donate, vars
  <2> QED BY <2>1, <2>2, <2>3, <2>4 DEF Next
<1> QED BY <1>1, <1>2, IInvHolds, PTL DEF Spec

\* The browser library would have built whatever the program stores, unless
\* its expiry is beyond the safe integers of JavaScript, and then it would not;
\* and the fee is at most a tenth of the total (validate_args,
\* validateOnchainInvoice).
THEOREM ValidatorsAlwaysAgree == Spec => []ValidatorsAgree
<1>1. Init => ValidatorsAgree
  BY DEF Init, ValidatorsAgree
<1>2. IInv /\ ValidatorsAgree /\ [Next]_vars => ValidatorsAgree'
  <2> SUFFICES ASSUME IInv, ValidatorsAgree, [Next]_vars PROVE ValidatorsAgree'
    OBVIOUS
  <2>1. CASE CreateAndFund
    <3>1. PICK I \in LineItems, total \in Totals, fee \in Totals,
              window \in Windows, expires \in 0..MaxExpiry :
            /\ ValidArgs(total, fee, I, expires, window)
            /\ invoice' = [status |-> "Funded", total |-> total, fee |-> fee,
                           items |-> I, window |-> window,
                           expires_at |-> expires, delivered_at |-> 0,
                           settled_at |-> 0]
      BY <2>1 DEF CreateAndFund
    <3>2. /\ LibraryAccepts(total, fee, I, expires, window)
               <=> expires <= MaxSafe
          /\ 10 * fee <= total
      BY <3>1, AcceptedArgs DEF IInv
    <3> QED BY <3>1, <3>2 DEF ValidatorsAgree
  <2>2. CASE invoice = NoInvoice /\ ~CreateAndFund
    BY <2>2 DEF Next, vars, ValidatorsAgree, NoInvoice, Open, Final, Tick,
                CloseAccount, Donate, AcknowledgeDelivery, MayAcknowledge,
                Dispute, MayDispute, ResolveDispute, Settle, MaySettle, Refund
  <2>3. CASE invoice # NoInvoice /\ ~CreateAndFund
    <3>1. /\ invoice' # NoInvoice
          /\ invoice'.total = invoice.total /\ invoice'.fee = invoice.fee
          /\ invoice'.items = invoice.items /\ invoice'.window = invoice.window
          /\ invoice'.expires_at = invoice.expires_at
      BY <2>3 DEF IInv, TypeOK, Next, vars, NoInvoice, Open, Final, Tick,
                  CloseAccount, Donate, AcknowledgeDelivery, MayAcknowledge,
                  Dispute, MayDispute, ResolveDispute, Settle, MaySettle, Refund
    <3> QED BY <2>3, <3>1 DEF ValidatorsAgree
  <2> QED BY <2>1, <2>2, <2>3
<1> QED BY <1>1, <1>2, IInvHolds, PTL DEF Spec
=============================================================================
