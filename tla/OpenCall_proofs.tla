---------------------------- MODULE OpenCall_proofs ----------------------------
(***************************************************************************)
(* Theorems about OpenCall for any contributors, agents, target and totals. *)
(***************************************************************************)
EXTENDS OpenCall, FiniteSetTheorems, TLAPS

-----------------------------------------------------------------------------
(* Numbers *)

\* The two parts of an on-chain total are natural numbers.
LEMMA Division ==
    ASSUME NEW t \in Nat
    PROVE  t \div Target \in Nat /\ t % Target \in Nat
BY TargetAssumption

\* A funded total and the price of a prepaid call are natural numbers.
LEMMA Numbers ==
    /\ Target \in Nat /\ Target > 0 /\ 0 .. Target \subseteq Nat
    /\ Unit \in Nat /\ Unit > 0 /\ Unit * Target \in Nat
    /\ \A t \in Totals : t \in Nat
BY TargetAssumption, UnitAssumption, TotalsAssumption

\* An answer of a well-typed call costs a natural number.
LEMMA PriceType == ASSUME call \in Calls PROVE Price \in Nat
<1>1. call.total \div Target \in Nat /\ call.total % Target \in Nat
  BY Division DEF Calls
<1>2. Share \in Nat
  BY <1>1 DEF Share, Calls
<1> QED BY <1>2, Numbers DEF Price

-----------------------------------------------------------------------------
(* Type correctness *)

\* A row whose fields change within their types is a row.
LEMMA RowType ==
    ASSUME call \in Calls,
           NEW s \in {"open", "filled", "cancelled"},
           NEW n \in 0 .. Target, NEW k \in 0 .. Target,
           NEW r \in Nat, NEW p \in Nat, NEW f \in Nat,
           NEW row,
           row = [mode |-> call.mode, status |-> s, answered |-> n, units |-> k,
                  total |-> call.total, remaining |-> r, paid |-> p,
                  refunded |-> f]
    PROVE  /\ row \in Calls
           /\ row.mode = call.mode /\ row.total = call.total
           /\ row.status = s /\ row.answered = n /\ row.units = k
           /\ row.remaining = r /\ row.paid = p /\ row.refunded = f
<1>1. call.mode \in {"x402_solana_escrow", "prepaid"} /\ call.total \in Nat
  BY DEF Calls
<1> QED BY <1>1 DEF Calls

\* The row after an answer is taken from the escrow.
LEMMA AcceptRow ==
    ASSUME TypeOK, NEW u \in Users, Accept(u)
    PROVE  /\ call' \in Calls /\ earned' \in [Users -> Nat]
           /\ call'.mode = call.mode /\ call'.total = call.total
           /\ call'.answered = call.answered + 1
           /\ call'.units = call.units - 1
           /\ call'.remaining = LeftAfter /\ call'.paid = call.paid + Price
           /\ call'.refunded = call.refunded
           /\ call.status = "open" /\ call.answered < Target
           /\ call'.status = IF call.answered + 1 >= Target THEN "filled"
                                                           ELSE "open"
<1> DEFINE s == IF call.answered + 1 >= Target THEN "filled" ELSE call.status
           n == call.answered + 1
           k == call.units - 1
           r == LeftAfter
           p == call.paid + Price
<1>1. Price \in Nat
  BY PriceType DEF TypeOK
<1>2. r \in Nat /\ p \in Nat
  BY <1>1 DEF LeftAfter, TypeOK, Calls
<1>3. n \in 0 .. Target /\ k \in 0 .. Target
  BY Numbers DEF Accept, Accepts, HasCapacity, TypeOK, Calls
<1>4. s \in {"open", "filled", "cancelled"} /\ call \in Calls
  BY DEF TypeOK, Calls
<1>5. call' = [call EXCEPT !.answered = n, !.units = k, !.remaining = r,
                           !.paid = p, !.status = s]
  BY DEF Accept
<1>6. earned' \in [Users -> Nat]
  BY DEF Accept, TypeOK
<1>7. call.status = "open" /\ call.answered < Target
  BY DEF Accept, Accepts, HasCapacity
<1>8. call.refunded \in Nat
  BY DEF TypeOK, Calls
<1>9. s = IF call.answered + 1 >= Target THEN "filled" ELSE "open"
  BY <1>7
<1> HIDE DEF s, k, r, p, n
<1>10. call' = [mode |-> call.mode, status |-> s, answered |-> n, units |-> k,
                total |-> call.total, remaining |-> r, paid |-> p,
                refunded |-> call.refunded]
  BY <1>4, <1>5 DEF Calls
<1>11. /\ call' \in Calls
       /\ call'.mode = call.mode /\ call'.total = call.total
       /\ call'.status = s /\ call'.answered = n /\ call'.units = k
       /\ call'.remaining = r /\ call'.paid = p
       /\ call'.refunded = call.refunded
  BY <1>2, <1>3, <1>4, <1>8, <1>10, RowType
<1> QED BY <1>6, <1>7, <1>9, <1>11 DEF n, k, r, p

\* The row after its remainder went back.
LEMMA ReturnedRow ==
    ASSUME call \in Calls, NEW a \in Nat, NEW row, row = Returned(a)
    PROVE  /\ row \in Calls
           /\ row.mode = call.mode /\ row.total = call.total
           /\ row.answered = call.answered
           /\ row.paid = call.paid /\ row.refunded = call.refunded + a
           /\ row.status # "open"
           /\ row.remaining = IF call.status = "open" THEN 0
                                                      ELSE call.remaining
           /\ call.status # "open" => row.status = call.status
<1> DEFINE s == IF call.status = "open" THEN "cancelled" ELSE call.status
           k == IF call.status = "open" THEN 0 ELSE call.units
           r == IF call.status = "open" THEN 0 ELSE call.remaining
           f == call.refunded + a
<1>1. /\ s \in {"open", "filled", "cancelled"} /\ s # "open"
      /\ k \in 0 .. Target /\ r \in Nat /\ f \in Nat
      /\ call.answered \in 0 .. Target /\ call.paid \in Nat
  BY Numbers DEF Calls
<1>2. row = [call EXCEPT !.status = s, !.units = k, !.remaining = r, !.refunded = f]
  BY DEF Returned
<1>3. call.status # "open" => s = call.status
  OBVIOUS
<1> HIDE DEF s, k, r, f
<1>4. row = [mode |-> call.mode, status |-> s, answered |-> call.answered,
              units |-> k, total |-> call.total, remaining |-> r,
              paid |-> call.paid, refunded |-> f]
  BY <1>2 DEF Calls
<1>5. /\ row \in Calls
      /\ row.mode = call.mode /\ row.total = call.total
      /\ row.status = s /\ row.answered = call.answered
      /\ row.remaining = r /\ row.paid = call.paid /\ row.refunded = f
  BY <1>1, <1>4, RowType
<1> QED BY <1>1, <1>3, <1>5 DEF r, f

\* TypeOK holds at the start.
LEMMA InitType == Init => TypeOK
<1> SUFFICES ASSUME Init PROVE TypeOK
  OBVIOUS
<1>1. call \in Calls
  BY Numbers DEF Init, NewCall, Calls
<1> QED BY <1>1 DEF Init, TypeOK

\* Every step keeps the types.
LEMMA StepType == TypeOK /\ [Next]_vars => TypeOK'
<1> SUFFICES ASSUME TypeOK, [Next]_vars PROVE TypeOK'
  OBVIOUS
<1>1. CASE EndAgents
  BY <1>1 DEF EndAgents, TypeOK
<1>2. CASE Cancel
  <2>1. call' \in Calls
    BY <1>2, ReturnedRow DEF Cancel, TypeOK, Calls
  <2> QED BY <1>2, <2>1 DEF Cancel, TypeOK
<1>3. CASE DeletionReads
  <2>1. seen' \in Nat
    BY <1>3 DEF DeletionReads, TypeOK, Calls
  <2> QED BY <1>3, <2>1 DEF DeletionReads, TypeOK
<1>4. CASE DeletionWrites
  <2>1. call' \in Calls /\ owner' \in {"here", "leaving", "gone"}
    BY <1>4, ReturnedRow DEF DeletionWrites, TypeOK
  <2> QED BY <1>4, <2>1 DEF DeletionWrites, TypeOK
<1>5. ASSUME NEW u \in Users, UserStep(u) PROVE TypeOK'
  <2>1. CASE Reserve(u)
    BY <2>1 DEF Reserve, TypeOK
  <2>2. CASE Unreserve(u)
    BY <2>2 DEF Unreserve, TypeOK
  <2>3. CASE AnswerSettles(u)
    <3>1. call' \in Calls /\ earned' \in [Users -> Nat]
      BY <2>3, AcceptRow DEF AnswerSettles
    <3>2. resv' \subseteq Users
      BY <2>3 DEF AnswerSettles, ReservationsAfter, TypeOK
    <3> QED BY <2>3, <3>1, <3>2 DEF AnswerSettles, TypeOK
  <2>4. CASE AnswerVoided(u)
    BY <2>4 DEF AnswerVoided, TypeOK
  <2>5. CASE AgentMatch(u)
    <3>1. call' \in Calls /\ earned' \in [Users -> Nat]
      BY <2>5, AcceptRow DEF AgentMatch
    <3> QED BY <2>5, <3>1 DEF AgentMatch, TypeOK
  <2>6. CASE SubmitDispute(u)
    BY <2>6 DEF SubmitDispute, TypeOK
  <2>7. CASE Approve(u)
    <3>1. call' \in Calls /\ earned' \in [Users -> Nat]
      BY <2>7, AcceptRow DEF Approve
    <3> QED BY <2>7, <3>1 DEF Approve, TypeOK
  <2>8. CASE Reject(u)
    BY <2>8 DEF Reject, TypeOK
  <2>9. CASE ContributorDeletes(u)
    BY <2>9 DEF ContributorDeletes, TypeOK
  <2> QED
    BY <1>5, <2>1, <2>2, <2>3, <2>4, <2>5, <2>6, <2>7, <2>8, <2>9 DEF UserStep
<1>6. CASE UNCHANGED vars
  BY <1>6 DEF vars, TypeOK
<1> QED BY <1>1, <1>2, <1>3, <1>4, <1>5, <1>6 DEF Next

\* Every reachable state is well typed: no answer is counted beyond the target
\* and no unit of the escrow is drawn twice (the conditional updates of
\* submit_answer, settle_agent_match and review_dispute).
THEOREM TypeCorrect == Spec => []TypeOK
BY InitType, StepType, PTL DEF Spec

-----------------------------------------------------------------------------
(* A contributor earns once *)

\* An answer that pays u, who had no answer that counts, leaves the others alone.
LEMMA PaysOne ==
    ASSUME TypeOK, AnswersPaidOnce, NEW u \in Users, Accept(u),
           entry[u] \in {"none", "voided"},
           NEW e \in {"settled", "reuse"}, entry' = [entry EXCEPT ![u] = e],
           \/ dispute' = dispute
           \/ e = "settled" /\ dispute' = [dispute EXCEPT ![u] = "approved"]
    PROVE  AnswersPaidOnce'
<1>1. earned' = [earned EXCEPT ![u] = @ + 1]
  BY DEF Accept
<1>2. earned[u] = 0 /\ dispute[u] # "approved"
  BY DEF AnswersPaidOnce
<1>3. /\ entry'[u] = e /\ earned'[u] = 1
      /\ dispute'[u] = "approved" => e = "settled"
  BY <1>1, <1>2 DEF TypeOK
<1>4. ASSUME NEW v \in Users \ {u}
      PROVE  entry'[v] = entry[v] /\ earned'[v] = earned[v] /\ dispute'[v] = dispute[v]
  BY <1>1 DEF TypeOK
<1> QED BY <1>3, <1>4 DEF AnswersPaidOnce

\* Every step keeps AnswersPaidOnce.
LEMMA PaidOnceStep == TypeOK /\ AnswersPaidOnce /\ [Next]_vars => AnswersPaidOnce'
<1> SUFFICES ASSUME TypeOK, AnswersPaidOnce, [Next]_vars PROVE AnswersPaidOnce'
  OBVIOUS
<1>1. CASE EndAgents \/ Cancel \/ DeletionReads \/ DeletionWrites \/ UNCHANGED vars
  BY <1>1
     DEF EndAgents, Cancel, DeletionReads, DeletionWrites, vars, AnswersPaidOnce
<1>2. ASSUME NEW u \in Users, UserStep(u) PROVE AnswersPaidOnce'
  <2>1. CASE Reserve(u) \/ Unreserve(u)
    BY <2>1 DEF Reserve, Unreserve, AnswersPaidOnce
  <2>2. CASE AnswerSettles(u)
    BY <2>2, PaysOne DEF AnswerSettles, MayAnswer
  <2>3. CASE AnswerVoided(u)
    BY <2>3 DEF AnswerVoided, MayAnswer, AnswersPaidOnce, TypeOK
  <2>4. CASE AgentMatch(u)
    BY <2>4, PaysOne DEF AgentMatch
  <2>5. CASE SubmitDispute(u)
    BY <2>5 DEF SubmitDispute, AnswersPaidOnce, TypeOK
  <2>6. CASE Approve(u)
    BY <2>6, PaysOne DEF Approve, Restorable
  <2>7. CASE Reject(u)
    BY <2>7 DEF Reject, AnswersPaidOnce, TypeOK
  <2>8. CASE ContributorDeletes(u)
    <3>1. earned[u] <= 1
      BY DEF AnswersPaidOnce, TypeOK
    <3>2. entry'[u] = "deleted" /\ dispute'[u] = "none" /\ earned' = earned
      BY <2>8 DEF ContributorDeletes, TypeOK
    <3>3. ASSUME NEW v \in Users \ {u}
          PROVE  entry'[v] = entry[v] /\ dispute'[v] = dispute[v]
      BY <2>8 DEF ContributorDeletes, TypeOK
    <3> QED BY <3>1, <3>2, <3>3 DEF AnswersPaidOnce
  <2> QED BY <1>2, <2>1, <2>2, <2>3, <2>4, <2>5, <2>6, <2>7, <2>8 DEF UserStep
<1> QED BY <1>1, <1>2 DEF Next

\* No contributor earns twice from a call, and a settled or reused answer earns:
\* the document is unique per author and call, and review_dispute restores a
\* voided entry under a pending dispute only.
THEOREM AnswersPaidOnceCorrect == Spec => []AnswersPaidOnce
<1>1. Init => AnswersPaidOnce
  BY DEF Init, AnswersPaidOnce
<1>2. TypeOK /\ AnswersPaidOnce /\ [Next]_vars => AnswersPaidOnce'
  BY PaidOnceStep
<1> QED BY <1>1, <1>2, TypeCorrect, PTL DEF Spec

-----------------------------------------------------------------------------
(* The escrow.  While a call is open, what is left is the price of the      *)
(* answers still to come; what a deletion has read stays true.              *)

\* The price of the answers from the n-th (counted from 0) on.
Extra(c, n) == IF n < c.total % Target THEN (c.total % Target) - n ELSE 0
Owed(c, n) ==
    IF c.mode = "prepaid" THEN (Target - n) * Unit
    ELSE (Target - n) * (c.total \div Target) + Extra(c, n)

\* An on-chain call is funded with an atomic unit per answer or more.
Funding == call.mode # "prepaid" => call.total >= Target

Left ==
    /\ call.status = "open" =>
         /\ call.answered < Target
         /\ call.units = Target - call.answered
         /\ call.remaining = Owed(call, call.answered)
    /\ call.status = "filled" => call.remaining = 0
    /\ call.status # "cancelled" => call.refunded = 0

SeenLeft ==
    owner = "leaving" =>
        seen = IF call.status = "open" THEN call.remaining ELSE 0

EscrowInv == Conserved /\ Funding /\ Left /\ SeenLeft

\* A multiple, unrolled once.
LEMMA Unroll ==
    ASSUME NEW a \in Nat, a >= 1, NEW q \in Nat
    PROVE  a * q = (a - 1) * q + q /\ (a - 1) * q \in Nat
<1>1. a - 1 \in Nat
  OBVIOUS
<1>2. \A b \in Nat : b * q \in Nat /\ (b + 1) * q = b * q + q
  OBVIOUS
<1> QED BY <1>1, <1>2

\* The total of an on-chain call, divided.
LEMMA Parts ==
    ASSUME NEW t \in Nat
    PROVE  /\ t \div Target \in Nat /\ t % Target \in Nat
           /\ t % Target < Target
           /\ t % Target = t - Target * (t \div Target)
           /\ t >= Target => t \div Target >= 1
BY TargetAssumption

\* An open call with room can pay its next answer, and what is owed after it is
\* what is owed now without that price (the shares of open_call_answer_atomic).
LEMMA OwedStep ==
    ASSUME call \in Calls, Funding, NEW n, n = call.answered, n < Target
    PROVE  /\ Owed(call, n) = Owed(call, n + 1) + Price
           /\ Owed(call, n + 1) \in Nat
           /\ n + 1 >= Target => Owed(call, n + 1) = 0
           /\ Price > 0
<1> DEFINE q == call.total \div Target
           r == call.total % Target
<1>1. n \in Nat /\ n + 1 \in Nat /\ Target \in Nat
  BY Numbers DEF Calls
<1>2. q \in Nat /\ r \in Nat /\ r < Target /\ (call.total >= Target => q >= 1)
  BY Parts DEF Calls
<1>3. ASSUME NEW u \in Nat
      PROVE  /\ (Target - n) * u = (Target - (n + 1)) * u + u
             /\ (Target - (n + 1)) * u \in Nat
             /\ n + 1 >= Target => (Target - (n + 1)) * u = 0
  <2> DEFINE a == Target - n
  <2>1. a \in Nat /\ a >= 1 /\ a - 1 = Target - (n + 1)
    BY <1>1
  <2>2. a * u = (a - 1) * u + u /\ (a - 1) * u \in Nat
    BY <2>1, Unroll
  <2>3. n + 1 >= Target => a - 1 = 0
    BY <1>1
  <2> QED BY <2>1, <2>2, <2>3
<1>4. CASE call.mode = "prepaid"
  <2>1. Price = Unit
    BY <1>4 DEF Price, OnChain
  <2>2. \A k : Owed(call, k) = (Target - k) * Unit
    BY <1>4 DEF Owed
  <2> QED BY <1>3, <2>1, <2>2, Numbers
<1>5. CASE call.mode # "prepaid"
  <2>1. Price = q + IF n < r THEN 1 ELSE 0
    BY <1>5 DEF Price, OnChain, Share, Calls
  <2>2. \A k : Owed(call, k) = (Target - k) * q + IF k < r THEN r - k ELSE 0
    BY <1>5 DEF Owed, Extra
  <2>3. q >= 1
    BY <1>2, <1>5 DEF Funding
  <2> HIDE DEF q, r
  <2>4. /\ (Target - n) * q = (Target - (n + 1)) * q + q
        /\ (Target - (n + 1)) * q \in Nat
        /\ n + 1 >= Target => (Target - (n + 1)) * q = 0
    BY <1>2, <1>3
  <2> DEFINE x == (Target - n) * q
             y == (Target - (n + 1)) * q
  <2>5. /\ Owed(call, n) = x + IF n < r THEN r - n ELSE 0
        /\ Owed(call, n + 1) = y + IF n + 1 < r THEN r - (n + 1) ELSE 0
    BY <2>2
  <2>6. x = y + q /\ y \in Nat /\ (n + 1 >= Target => y = 0)
    BY <2>4
  <2> HIDE DEF x, y
  <2> QED BY <1>1, <1>2, <2>1, <2>3, <2>5, <2>6
<1> QED BY <1>4, <1>5

\* What is owed depends on the funding alone.
LEMMA OwedSame ==
    ASSUME NEW n, call'.mode = call.mode, call'.total = call.total
    PROVE  Owed(call', n) = Owed(call, n)
BY DEF Owed, Extra

\* EscrowInv holds at the start: the shares of the answers add up to the total.
LEMMA EscrowInit == Init => EscrowInv
<1> SUFFICES ASSUME Init PROVE EscrowInv
  OBVIOUS
<1>1. call \in Calls /\ seen = 0
  BY InitType DEF TypeOK, Init
<1>2. /\ call.status = "open" /\ call.answered = 0 /\ call.units = Target
      /\ call.remaining = call.total /\ call.paid = 0 /\ call.refunded = 0
      /\ \/ call.mode = "x402_solana_escrow" /\ call.total \in Totals
         \/ call.mode = "prepaid" /\ call.total = Unit * Target
  BY DEF Init, NewCall
<1>3. Funding
  BY <1>2, TotalsAssumption DEF Funding
<1>4. call.total = Owed(call, 0)
  <2>1. CASE call.mode = "prepaid"
    BY <1>2, <2>1, Numbers DEF Owed
  <2>2. CASE call.mode # "prepaid"
    <3> DEFINE t == call.total
               q == t \div Target
               r == t % Target
    <3>1. t \in Nat /\ q \in Nat /\ r \in Nat /\ r = t - Target * q
      BY <1>1, Parts DEF Calls
    <3>2. Owed(call, 0) = (Target - 0) * q + IF 0 < r THEN r - 0 ELSE 0
      BY <2>2 DEF Owed, Extra
    <3>3. Target - 0 = Target /\ Target * q \in Nat
      BY <3>1, Numbers
    <3> HIDE DEF t, q, r
    <3>4. Owed(call, 0) = Target * q + IF 0 < r THEN r - 0 ELSE 0
      BY <3>2, <3>3
    <3>5. Owed(call, 0) = t
      BY <3>1, <3>3, <3>4
    <3> QED BY <3>5 DEF t
  <2> QED BY <2>1, <2>2
<1>5. Conserved /\ Left
  BY <1>1, <1>2, <1>4, Numbers DEF Conserved, Left, Calls
<1>6. SeenLeft
  BY DEF Init, SeenLeft
<1> QED BY <1>3, <1>5, <1>6 DEF EscrowInv

\* An accepted answer is paid out of what is left.
LEMMA AcceptKeeps ==
    ASSUME TypeOK, EscrowInv, NEW u \in Users, Accept(u), owner # "leaving",
           owner' = owner
    PROVE  EscrowInv'
<1> DEFINE n == call.answered
<1>1. /\ call'.mode = call.mode /\ call'.total = call.total
      /\ call'.answered = n + 1 /\ call'.units = call.units - 1
      /\ call'.remaining = LeftAfter /\ call'.paid = call.paid + Price
      /\ call'.refunded = call.refunded
      /\ call.status = "open" /\ n < Target
      /\ call'.status = IF n + 1 >= Target THEN "filled" ELSE "open"
  BY AcceptRow
<1>2. call \in Calls /\ Price \in Nat
  BY PriceType DEF TypeOK
<1>3. /\ Owed(call, n) = Owed(call, n + 1) + Price
      /\ Owed(call, n + 1) \in Nat
      /\ n + 1 >= Target => Owed(call, n + 1) = 0
  BY <1>1, <1>2, OwedStep DEF EscrowInv
<1>4. /\ call.remaining = Owed(call, n) /\ call.units = Target - n
      /\ call.refunded = 0
  BY <1>1 DEF EscrowInv, Left
<1>5. LeftAfter = Owed(call, n + 1)
  BY <1>2, <1>3, <1>4 DEF LeftAfter
<1>6. Owed(call', n + 1) = Owed(call, n + 1)
  BY <1>1, OwedSame
<1>7. n \in Nat /\ Target \in Nat /\ call.paid \in Nat
  BY <1>2, Numbers DEF Calls
<1>8. Conserved'
  BY <1>1, <1>2, <1>3, <1>4, <1>5, <1>7 DEF EscrowInv, Conserved
<1>9. Funding'
  BY <1>1 DEF EscrowInv, Funding
<1>10. Left'
  <2>1. call'.answered = n + 1 /\ call'.units = Target - (n + 1)
        /\ call'.remaining = Owed(call', call'.answered)
        /\ call'.refunded = 0
    BY <1>1, <1>4, <1>5, <1>6, <1>7
  <2>2. CASE n + 1 >= Target
    BY <1>1, <1>3, <1>5, <2>1, <2>2 DEF Left
  <2>3. CASE ~(n + 1 >= Target)
    BY <1>1, <1>7, <2>1, <2>3 DEF Left
  <2> QED BY <2>2, <2>3
<1>11. SeenLeft'
  BY DEF SeenLeft
<1> QED BY <1>8, <1>9, <1>10, <1>11 DEF EscrowInv

\* The whole remainder goes back; a closed call has none.
LEMMA ReturnKeeps ==
    ASSUME TypeOK, EscrowInv, owner' # "leaving",
           NEW a, a = IF call.status = "open" THEN call.remaining ELSE 0,
           call' = Returned(a)
    PROVE  EscrowInv' /\ (call.status # "open" => call' = call)
<1>1. call \in Calls /\ a \in Nat
  BY DEF TypeOK, Calls
<1>2. /\ call'.mode = call.mode /\ call'.total = call.total
      /\ call'.paid = call.paid /\ call'.refunded = call.refunded + a
      /\ call'.status # "open"
      /\ call'.remaining = IF call.status = "open" THEN 0 ELSE call.remaining
      /\ call.status # "open" => call'.status = call.status
  BY <1>1, ReturnedRow
<1>3. Conserved' /\ Funding' /\ SeenLeft'
  BY <1>1, <1>2 DEF EscrowInv, Conserved, Funding, SeenLeft, Calls
<1>4. call.status # "open" => call' = call
  <2> SUFFICES ASSUME call.status # "open" PROVE call' = call
    OBVIOUS
  <2>1. call' = [call EXCEPT !.status = call.status, !.units = call.units,
                             !.remaining = call.remaining,
                             !.refunded = call.refunded + 0]
    BY DEF Returned
  <2>2. call.refunded + 0 = call.refunded
    BY <1>1 DEF Calls
  <2>3. call' = [call EXCEPT !.refunded = call.refunded]
    BY <1>1, <2>1, <2>2 DEF Calls
  <2> QED BY <1>1, <2>3 DEF Calls
<1>5. Left'
  <2>1. CASE call.status = "open"
    <3>1. call'.status = "cancelled"
      BY <1>1, <2>1 DEF Returned, Calls
    <3> QED BY <3>1 DEF Left
  <2>2. CASE call.status # "open"
    BY <1>4, <2>2 DEF EscrowInv, Left
  <2> QED BY <2>1, <2>2
<1> QED BY <1>3, <1>4, <1>5 DEF EscrowInv

\* In one process every step keeps EscrowInv and leaves a closed call alone: a
\* deletion that has read what is left holds the connection until it writes.
LEMMA EscrowStep ==
    ASSUME OneProcess, TypeOK, EscrowInv, [Next]_vars
    PROVE  EscrowInv' /\ (call.status # "open" => call' = call)
<1>1. CASE UNCHANGED <<call, owner, seen>>
  <2>1. call' = call /\ owner' = owner /\ seen' = seen
    BY <1>1
  <2>2. Conserved' /\ Funding' /\ SeenLeft'
    BY <2>1 DEF EscrowInv, Conserved, Funding, SeenLeft
  <2>3. Left'
    BY <2>1, OwedSame DEF EscrowInv, Left
  <2> QED BY <2>1, <2>2, <2>3 DEF EscrowInv
<1>2. CASE Cancel
  BY <1>2, ReturnKeeps DEF Cancel, Unlocked, Cancellable
<1>3. CASE DeletionReads
  BY <1>3
     DEF DeletionReads, EscrowInv, Conserved, Funding, Left, SeenLeft, Owed, Extra
<1>4. CASE DeletionWrites
  <2>1. CASE CreditOnce(seen)
    BY <1>4, <2>1, ReturnKeeps DEF DeletionWrites, EscrowInv, SeenLeft
  <2>2. CASE ~CreditOnce(seen)
    BY <1>4, <2>2
       DEF DeletionWrites, EscrowInv, Conserved, Funding, Left, SeenLeft, Owed, Extra
  <2> QED BY <2>1, <2>2
<1>5. ASSUME NEW u \in Users,
             AnswerSettles(u) \/ AgentMatch(u) \/ Approve(u)
      PROVE  EscrowInv' /\ (call.status # "open" => call' = call)
  <2>1. Accept(u) /\ owner' = owner /\ owner # "leaving"
    BY <1>5 DEF AnswerSettles, AgentMatch, Approve, CanNotify, Restorable, Unlocked
  <2>2. call.status = "open"
    BY <2>1, AcceptRow
  <2> QED BY <2>1, <2>2, AcceptKeeps
<1>6. ASSUME NEW u \in Users, UserStep(u),
             ~(AnswerSettles(u) \/ AgentMatch(u) \/ Approve(u))
      PROVE  UNCHANGED <<call, owner, seen>>
  BY <1>6
     DEF UserStep, Reserve, Unreserve, AnswerVoided, SubmitDispute, Reject,
         ContributorDeletes
<1>7. EndAgents \/ UNCHANGED vars => UNCHANGED <<call, owner, seen>>
  BY DEF EndAgents, vars
<1> QED BY <1>1, <1>2, <1>3, <1>4, <1>5, <1>6, <1>7 DEF Next

\* EscrowInv is an invariant of one process.
LEMMA EscrowCorrect ==
    ASSUME OneProcess
    PROVE  Spec => []EscrowInv
<1>1. TypeOK /\ EscrowInv /\ [Next]_vars => EscrowInv'
  BY EscrowStep
<1> QED BY <1>1, EscrowInit, TypeCorrect, PTL DEF Spec

\* With one API process nothing of the funding is lost or given out twice by
\* answers, agents, restorations, cancel_open_call and delete_account.
THEOREM ConservedCorrect ==
    ASSUME OneProcess
    PROVE  Spec => []Conserved
<1>1. EscrowInv => Conserved
  BY DEF EscrowInv
<1> QED BY <1>1, EscrowCorrect, PTL

\* With one API process every open call with room can pay its next answer and a
\* full call has spent its total, whatever the total leaves when it is divided
\* (open_call_answer_atomic).
THEOREM SlotsAreFundedCorrect ==
    ASSUME OneProcess
    PROVE  Spec => []SlotsAreFunded
<1>1. TypeOK /\ EscrowInv => SlotsAreFunded
  <2> SUFFICES ASSUME TypeOK, EscrowInv PROVE SlotsAreFunded
    OBVIOUS
  <2>1. ASSUME HasCapacity PROVE Accepts
    <3> DEFINE n == call.answered
    <3>1. /\ call.status = "open" /\ n < Target /\ call \in Calls
          /\ call.units = Target - n /\ call.remaining = Owed(call, n)
      BY <2>1 DEF HasCapacity, EscrowInv, Left, TypeOK
    <3>2. /\ Owed(call, n) = Owed(call, n + 1) + Price
          /\ Owed(call, n + 1) \in Nat /\ Price > 0 /\ Price \in Nat
      BY <3>1, OwedStep, PriceType DEF EscrowInv
    <3>3. Price > 0 /\ Price <= call.remaining
      BY <3>1, <3>2
    <3>4. Payable
      BY <3>3 DEF Payable, Price
    <3>5. call.units >= 1
      BY <3>1, Numbers DEF Calls
    <3> QED BY <2>1, <3>4, <3>5 DEF Accepts
  <2> QED BY <2>1 DEF SlotsAreFunded, EscrowInv, Left
<1> QED BY <1>1, EscrowCorrect, TypeCorrect, PTL

\* With one API process a closed call never changes.
THEOREM ClosedIsFinalCorrect ==
    ASSUME OneProcess
    PROVE  Spec => ClosedIsFinal
<1>1. TypeOK /\ EscrowInv /\ [Next]_vars => [call.status # "open" => call' = call]_vars
  BY EscrowStep
<1> QED BY <1>1, EscrowCorrect, TypeCorrect, PTL DEF Spec, ClosedIsFinal

-----------------------------------------------------------------------------
(* Reservations.  A call holds finitely many of them, whatever the number   *)
(* of contributors, and those that overtook them are as few as the answers  *)
(* that were restored or reused.                                            *)

FitInv == IsFiniteSet(resv) /\ IsFiniteSet(Overtaking) /\ HoldersFit

\* A set that lost an element or none has no more than it had.
LEMMA OneLess ==
    ASSUME NEW S, IsFiniteSet(S), NEW x
    PROVE  /\ IsFiniteSet(S \ {x}) /\ Cardinality(S \ {x}) \in Nat
           /\ Cardinality(S) \in Nat
           /\ Cardinality(S \ {x}) =
                IF x \in S THEN Cardinality(S) - 1 ELSE Cardinality(S)
BY FS_RemoveElement, FS_CardinalityType

\* A set that gained an element has one more.
LEMMA OneMore ==
    ASSUME NEW S, IsFiniteSet(S), NEW x
    PROVE  /\ IsFiniteSet(S \cup {x}) /\ Cardinality(S \cup {x}) \in Nat
           /\ Cardinality(S) \in Nat
           /\ Cardinality(S \cup {x}) =
                IF x \in S THEN Cardinality(S) ELSE Cardinality(S) + 1
BY FS_AddElement, FS_CardinalityType

\* An answer that overtakes takes a slot, whatever is reserved.
LEMMA OvertakerFits ==
    ASSUME TypeOK, AnswersPaidOnce, FitInv, NEW u \in Users, Accept(u),
           entry[u] \in {"none", "voided"},
           \/ dispute' = dispute /\ entry' = [entry EXCEPT ![u] = "reuse"]
           \/ /\ dispute' = [dispute EXCEPT ![u] = "approved"]
              /\ entry' = [entry EXCEPT ![u] = "settled"],
           resv' = resv \/ (call.answered + 1 >= Target /\ resv' = {})
    PROVE  FitInv'
<1>1. earned' = [earned EXCEPT ![u] = @ + 1] /\ earned[u] = 0
  BY DEF Accept, AnswersPaidOnce
<1>2. Overtaking' = Overtaking \cup {u} /\ u \notin Overtaking
  BY <1>1 DEF Overtaking, TypeOK
<1>3. /\ IsFiniteSet(Overtaking') /\ Cardinality(Overtaking) \in Nat
      /\ Cardinality(Overtaking') = Cardinality(Overtaking) + 1
  BY <1>2, OneMore DEF FitInv
<1>4. /\ call.status = "open" /\ call'.answered = call.answered + 1
      /\ call'.status = IF call.answered + 1 >= Target THEN "filled" ELSE "open"
      /\ call.answered \in Nat /\ Target \in Nat
  BY AcceptRow, Numbers DEF TypeOK, Calls
<1>5. IsFiniteSet(resv') /\ Cardinality(resv) \in Nat
  BY FS_EmptySet, FS_CardinalityType DEF FitInv
<1>6. HoldersFit'
  <2>1. CASE call.answered + 1 >= Target
    BY <1>4, <2>1 DEF HoldersFit
  <2>2. CASE ~(call.answered + 1 >= Target)
    <3>1. Cardinality(resv) <= Target - call.answered + Cardinality(Overtaking)
      BY <1>4 DEF FitInv, HoldersFit, SlotsLeft
    <3>2. Cardinality(resv) <=
            Target - (call.answered + 1) + (Cardinality(Overtaking) + 1)
      BY <1>3, <1>4, <1>5, <3>1
    <3> QED BY <1>3, <1>4, <2>2, <3>2 DEF HoldersFit, SlotsLeft
  <2> QED BY <2>1, <2>2
<1> QED BY <1>3, <1>5, <1>6 DEF FitInv

\* An answer under a reservation, or where a slot is free, leaves the others
\* theirs (SlotFor, in submit_answer).
LEMMA AnswerFits ==
    ASSUME TypeOK, AnswersPaidOnce, FitInv, NEW u \in Users, AnswerSettles(u)
    PROVE  FitInv'
<1>1. /\ entry[u] = "none" /\ Accept(u) /\ SlotFor(u)
      /\ entry' = [entry EXCEPT ![u] = "settled"] /\ dispute' = dispute
      /\ resv' = ReservationsAfter(u)
      /\ earned' = [earned EXCEPT ![u] = @ + 1]
  BY DEF AnswerSettles, MayAnswer, Accept
<1>2. Overtaking' = Overtaking
  BY <1>1 DEF Overtaking, AnswersPaidOnce, TypeOK
<1>3. /\ call.status = "open" /\ call'.answered = call.answered + 1
      /\ call'.status = IF call.answered + 1 >= Target THEN "filled" ELSE "open"
      /\ call.answered \in Nat /\ Target \in Nat
  BY <1>1, AcceptRow, Numbers DEF TypeOK, Calls
<1>4. Cardinality(Overtaking) \in Nat
  BY FS_CardinalityType DEF FitInv
<1>5. CASE call.answered + 1 >= Target
  BY <1>1, <1>2, <1>3, <1>5, FS_EmptySet
  DEF FitInv, HoldersFit, ReservationsAfter
<1>6. CASE ~(call.answered + 1 >= Target)
  <2>1. resv' = resv \ {u}
    BY <1>1, <1>6 DEF ReservationsAfter
  <2>2. /\ IsFiniteSet(resv \ {u}) /\ Cardinality(resv \ {u}) \in Nat
        /\ Cardinality(resv) \in Nat
        /\ Cardinality(resv \ {u}) =
             IF u \in resv THEN Cardinality(resv) - 1 ELSE Cardinality(resv)
    BY OneLess DEF FitInv
  <2>3. Cardinality(resv) <= Target - call.answered + Cardinality(Overtaking)
    BY <1>3 DEF FitInv, HoldersFit, SlotsLeft
  <2>4. Cardinality(resv \ {u}) <=
          Target - (call.answered + 1) + Cardinality(Overtaking)
    BY <1>1, <1>3, <1>4, <2>2, <2>3 DEF SlotFor, SlotsLeft
  <2> QED BY <1>2, <1>3, <2>1, <2>2, <2>4 DEF FitInv, HoldersFit, SlotsLeft
<1> QED BY <1>5, <1>6

\* A reservation is granted where a slot is free; giving one up frees it.
LEMMA ReservationFits ==
    ASSUME TypeOK, FitInv, NEW u \in Users,
           Reserve(u) \/ Unreserve(u)
    PROVE  FitInv'
<1>1. UNCHANGED <<call, entry, dispute, earned>>
  BY DEF Reserve, Unreserve
<1>2. Overtaking' = Overtaking /\ Cardinality(Overtaking) \in Nat
  BY <1>1, FS_CardinalityType DEF Overtaking, FitInv
<1>3. call.answered \in Nat /\ Target \in Nat
  BY Numbers DEF TypeOK, Calls
<1>4. CASE Reserve(u)
  <2>1. resv' = resv \cup {u} /\ SlotFor(u) /\ call.status = "open"
    BY <1>4 DEF Reserve, HasCapacity
  <2>2. CASE u \in resv
    <3>1. resv' = resv
      BY <2>1, <2>2
    <3> QED BY <1>1, <1>2, <3>1 DEF FitInv, HoldersFit, SlotsLeft
  <2>3. CASE u \notin resv
    <3>1. /\ IsFiniteSet(resv') /\ Cardinality(resv) \in Nat
          /\ Cardinality(resv') = Cardinality(resv) + 1
      BY <2>1, <2>3, OneMore DEF FitInv
    <3>2. resv \ {u} = resv
      BY <2>3
    <3>3. Cardinality(resv) < Target - call.answered
      BY <2>1, <2>3, <3>2 DEF SlotFor, SlotsLeft
    <3>4. Cardinality(resv') <=
            Target - call.answered + Cardinality(Overtaking)
      BY <1>2, <1>3, <3>1, <3>3
    <3> QED BY <1>1, <1>2, <3>1, <3>4 DEF FitInv, HoldersFit, SlotsLeft
  <2> QED BY <2>2, <2>3
<1>5. CASE Unreserve(u)
  <2>1. resv' = resv \ {u}
    BY <1>5 DEF Unreserve
  <2>2. /\ IsFiniteSet(resv') /\ Cardinality(resv') \in Nat
        /\ Cardinality(resv) \in Nat /\ Cardinality(resv') <= Cardinality(resv)
    BY <2>1, OneLess DEF FitInv
  <2> QED BY <1>1, <1>2, <1>3, <2>2 DEF FitInv, HoldersFit, SlotsLeft
<1> QED BY <1>4, <1>5

\* A contributor that leaves gives up a reservation and still counts as paid.
LEMMA DeletionFits ==
    ASSUME TypeOK, FitInv, NEW u \in Users, ContributorDeletes(u)
    PROVE  FitInv'
<1>1. /\ resv' = resv \ {u} /\ UNCHANGED <<call, earned>>
      /\ entry' = [entry EXCEPT ![u] = "deleted"]
      /\ dispute' = [dispute EXCEPT ![u] = "none"]
  BY DEF ContributorDeletes
<1>2. Overtaking' \in {Overtaking, Overtaking \cup {u}}
  BY <1>1 DEF Overtaking, TypeOK
<1>3. /\ IsFiniteSet(Overtaking') /\ Cardinality(Overtaking') \in Nat
      /\ Cardinality(Overtaking) \in Nat
      /\ Cardinality(Overtaking) <= Cardinality(Overtaking')
  BY <1>2, OneMore, FS_CardinalityType DEF FitInv
<1>4. /\ IsFiniteSet(resv') /\ Cardinality(resv') \in Nat
      /\ Cardinality(resv) \in Nat /\ Cardinality(resv') <= Cardinality(resv)
  BY <1>1, OneLess DEF FitInv
<1>5. call.answered \in Nat /\ Target \in Nat
  BY Numbers DEF TypeOK, Calls
<1> QED BY <1>1, <1>3, <1>4, <1>5 DEF FitInv, HoldersFit, SlotsLeft

\* Every step keeps the holders within their slots.
LEMMA FitStep ==
    ASSUME TypeOK, AnswersPaidOnce, FitInv, [Next]_vars
    PROVE  FitInv'
<1>1. ASSUME UNCHANGED <<call, resv, earned>>, Overtaking' = Overtaking
      PROVE  FitInv'
  BY <1>1 DEF FitInv, HoldersFit, SlotsLeft
<1>2. CASE EndAgents \/ DeletionReads \/ UNCHANGED vars
  BY <1>1, <1>2 DEF EndAgents, DeletionReads, vars, Overtaking
<1>3. CASE Cancel \/ DeletionWrites
  <2>1. UNCHANGED <<entry, dispute, earned>> /\ resv' \in {resv, {}}
    BY <1>3 DEF Cancel, DeletionWrites
  <2>2. Overtaking' = Overtaking
    BY <2>1 DEF Overtaking
  <2>3. (call' = call /\ resv' = resv) \/ call'.status # "open"
    <3>1. call.remaining \in Nat /\ seen \in Nat /\ call \in Calls
      BY DEF TypeOK, Calls
    <3> QED BY <1>3, <3>1, ReturnedRow DEF Cancel, DeletionWrites
  <2> QED BY <1>1, <2>1, <2>2, <2>3, FS_EmptySet DEF FitInv, HoldersFit
<1>4. ASSUME NEW u \in Users, UserStep(u)
      PROVE  FitInv'
  <2>1. CASE Reserve(u) \/ Unreserve(u)
    BY <2>1, ReservationFits
  <2>2. CASE AnswerSettles(u)
    BY <2>2, AnswerFits
  <2>3. CASE AnswerVoided(u)
    <3>1. /\ resv' = resv \ {u} /\ UNCHANGED <<call, earned, dispute>>
          /\ entry[u] = "none" /\ entry' = [entry EXCEPT ![u] = "voided"]
      BY <2>3 DEF AnswerVoided, MayAnswer
    <3>2. Overtaking' = Overtaking /\ Cardinality(Overtaking) \in Nat
      BY <3>1, FS_CardinalityType DEF Overtaking, AnswersPaidOnce, TypeOK,
                                      FitInv
    <3>3. /\ IsFiniteSet(resv') /\ Cardinality(resv') \in Nat
          /\ Cardinality(resv) \in Nat
          /\ Cardinality(resv') <= Cardinality(resv)
      BY <3>1, OneLess DEF FitInv
    <3>4. call.answered \in Nat /\ Target \in Nat
      BY Numbers DEF TypeOK, Calls
    <3> QED BY <3>1, <3>2, <3>3, <3>4 DEF FitInv, HoldersFit, SlotsLeft
  <2>4. CASE AgentMatch(u)
    BY <2>4, OvertakerFits DEF AgentMatch
  <2>5. CASE SubmitDispute(u) \/ Reject(u)
    <3>1. Overtaking' = Overtaking
      BY <2>5 DEF SubmitDispute, Reject, Overtaking, TypeOK
    <3> QED BY <1>1, <2>5, <3>1 DEF SubmitDispute, Reject
  <2>6. CASE Approve(u)
    BY <2>6, OvertakerFits DEF Approve, Restorable
  <2>7. CASE ContributorDeletes(u)
    BY <2>7, DeletionFits
  <2> QED BY <1>4, <2>1, <2>2, <2>3, <2>4, <2>5, <2>6, <2>7 DEF UserStep
<1> QED BY <1>2, <1>3, <1>4 DEF Next

\* Between contributors the reservations hold, for any number of them and of
\* answers, with one API process or several: reserve_open_call and submit_answer
\* never leave more holders than slots, except by the slots that a restored or
\* a reused answer took.
THEOREM HoldersFitCorrect == Spec => []HoldersFit
<1>1. Init => FitInv
  <2> SUFFICES ASSUME Init PROVE FitInv
    OBVIOUS
  <2>1. Overtaking = {} /\ resv = {}
    BY DEF Init, Overtaking
  <2>2. call.answered = 0
    BY DEF Init, NewCall
  <2> QED BY <2>1, <2>2, FS_EmptySet, Numbers
      DEF FitInv, HoldersFit, SlotsLeft
<1>2. TypeOK /\ AnswersPaidOnce /\ FitInv /\ [Next]_vars => FitInv'
  BY FitStep
<1>3. FitInv => HoldersFit
  BY DEF FitInv
<1> QED BY <1>1, <1>2, <1>3, TypeCorrect, AnswersPaidOnceCorrect, PTL DEF Spec

===============================================================================
