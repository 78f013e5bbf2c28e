-------------------------- MODULE OneTransfer_proofs --------------------------
(***************************************************************************)
(* What the promise of OneTransfer amounts to, and so what every module that*)
(* implements it has: one transfer pays at most, and a payment is closed    *)
(* for good, by that one.                                                   *)
(***************************************************************************)
EXTENDS OneTransfer, TLAPS

\* Nothing but the transfer on offer moves money, and it does so once.
PaysOnce ==
    /\ live \subseteq {offer} /\ paid \subseteq {offer}
    /\ live = {} \/ paid = {}
    /\ closed => paid = {offer}

\* Every step keeps it.
LEMMA PaysOnceStep ==
    ASSUME PaysOnce, [Next]_vars
    PROVE  PaysOnce'
<1>1. ASSUME NEW t \in Txs, Offer(t) \/ Release(t) \/ Pay(t)
      PROVE  PaysOnce'
  BY <1>1 DEF PaysOnce, Offer, Release, Pay, Idle
<1>2. CASE Lapse \/ Withdraw \/ Close
  BY <1>2 DEF PaysOnce, Lapse, Withdraw, Close, Idle
<1>3. CASE UNCHANGED vars
  BY <1>3 DEF PaysOnce, vars
<1> QED BY <1>1, <1>2, <1>3 DEF Next

\* It holds in every reachable state.
LEMMA PaysOnceInvariant == Spec => []PaysOnce
<1>1. Init => PaysOnce
  BY DEF Init, PaysOnce
<1>2. PaysOnce /\ [Next]_vars => PaysOnce'
  BY PaysOnceStep
<1> QED BY <1>1, <1>2, PTL DEF Spec

(* What implements OneTransfer (a claim that is paid out, exact-payout-v1; a*)
(* quote that is paid, claim_payment_attempt) moves money by one transfer   *)
(* at most.                                                                 *)
THEOREM OnePays == Spec => []\A s, t \in paid : s = t
<1>1. PaysOnce => \A s, t \in paid : s = t
  BY DEF PaysOnce
<1> QED BY <1>1, PaysOnceInvariant, PTL

(* ... and once it is recorded nothing about it changes any more: the       *)
(* transfer that paid stays on record (complete_payout_claim,               *)
(* record_chain_settlement).                                                *)
THEOREM ClosedForGood ==
    Spec => [][closed => paid = {offer} /\ UNCHANGED <<offer, paid, closed>>]_vars
<1>1. PaysOnce /\ [Next]_vars =>
        [closed => paid = {offer} /\ UNCHANGED <<offer, paid, closed>>]_vars
  <2> SUFFICES ASSUME PaysOnce, Next, closed
               PROVE  paid = {offer} /\ UNCHANGED <<offer, paid, closed>>
    BY DEF vars
  <2>1. paid = {offer}
    BY DEF PaysOnce
  <2>2. closed' = closed \/ Close
    BY DEF Next, Offer, Release, Pay, Lapse, Withdraw
  <2>3. offer' = offer /\ paid' = paid
    BY DEF Next, Offer, Release, Pay, Lapse, Withdraw, Close
  <2> QED BY <2>1, <2>2, <2>3 DEF Close
<1> QED BY <1>1, PaysOnceInvariant, PTL DEF Spec
===============================================================================
