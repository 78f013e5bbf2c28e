------------------------------- MODULE PaidOnce -------------------------------
(***************************************************************************)
(* What the ledger promises about the budget of one research job: the price *)
(* of a document is held, then either spent once on a transfer and the      *)
(* document delivered, or returned once.  One transfer is open at a time,   *)
(* and nothing is returned while one is.                                    *)
(***************************************************************************)
CONSTANT Docs

VARIABLES
    money,      \* where the price of each document is
    closed      \* the job will spend nothing more

vars == <<money, closed>>

Places == {"held", "spent", "delivered", "returned"}

TypeOK == money \in [Docs -> Places] /\ closed \in BOOLEAN

Settled == \A d \in Docs : money[d] # "spent"

\* A transfer for d lands on the chain.
Spend(d) ==
    /\ ~closed /\ Settled
    /\ money[d] = "held"
    /\ money' = [money EXCEPT ![d] = "spent"]
    /\ UNCHANGED closed

\* The landed transfer is matched and the passage delivered.
Deliver(d) ==
    /\ money[d] = "spent"
    /\ money' = [money EXCEPT ![d] = "delivered"]
    /\ UNCHANGED closed

\* The job ends: whatever is still held goes back.
Close ==
    /\ ~closed /\ Settled
    /\ closed' = TRUE
    /\ money' = [d \in Docs |->
                    IF money[d] = "held" THEN "returned" ELSE money[d]]

Init == money = [d \in Docs |-> "held"] /\ closed = FALSE

Next == Close \/ \E d \in Docs : Spend(d) \/ Deliver(d)

Spec == Init /\ [][Next]_vars
===============================================================================
