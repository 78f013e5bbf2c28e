----------------------------- MODULE OneTransfer -----------------------------
(***************************************************************************)
(* What the ledger promises about one thing to pay, be it a claim that a    *)
(* worker pays out or a quote that a buyer pays: one signed transfer is on  *)
(* record at a time, only that one is ever given to the network, it leaves  *)
(* the record only when it can no longer move money, and the payment is     *)
(* closed once, by the transfer that did.                                   *)
(***************************************************************************)
CONSTANTS Txs, NoTx

VARIABLES
    offer,      \* the transfer on record
    live,       \* transfers in the network that may still move money
    paid,       \* transfers that moved money
    closed      \* the payment is recorded

vars == <<offer, live, paid, closed>>

\* Nothing moved money, or is about to.
Idle == live = {} /\ paid = {}

\* A signed transfer is put on record, before anybody else has it.
Offer(t) ==
    /\ offer = NoTx /\ Idle /\ ~closed
    /\ offer' = t
    /\ UNCHANGED <<live, paid, closed>>

\* It is given to the network.
Release(t) ==
    /\ offer = t /\ Idle /\ ~closed
    /\ live' = {t}
    /\ UNCHANGED <<offer, paid, closed>>

\* It moves money,
Pay(t) ==
    /\ live = {t} /\ offer = t /\ ~closed
    /\ live' = {} /\ paid' = {t}
    /\ UNCHANGED <<offer, closed>>

\* or fails, or outlives its blockhash.
Lapse ==
    /\ live' = {}
    /\ UNCHANGED <<offer, paid, closed>>

\* A transfer that did not and cannot move money is given up.
Withdraw ==
    /\ Idle /\ ~closed
    /\ offer' = NoTx
    /\ UNCHANGED <<live, paid, closed>>

\* The transfer that moved money is recorded.
Close ==
    /\ paid = {offer}
    /\ closed' = TRUE
    /\ UNCHANGED <<offer, live, paid>>

Init == offer = NoTx /\ live = {} /\ paid = {} /\ closed = FALSE

Next ==
    \/ \E t \in Txs : Offer(t) \/ Release(t) \/ Pay(t)
    \/ Lapse \/ Withdraw \/ Close

Spec == Init /\ [][Next]_vars
===============================================================================
