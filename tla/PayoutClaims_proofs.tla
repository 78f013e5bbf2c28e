-------------------------- MODULE PayoutClaims_proofs --------------------------
(***************************************************************************)
(* Proofs about PayoutClaims for any number of workers, transfers and       *)
(* origins, and any bound on faults.                                        *)
(***************************************************************************)
EXTENDS PayoutClaims, FiniteSetTheorems, TLAPS

-----------------------------------------------------------------------------
(* Type correctness.  A worker waits for one request at a time, and for the *)
(* one its last await named.                                                *)

Matches(op, pc) ==
    \/ op \in {"lease", "take"} /\ pc = "leasing"
    \/ op \in {"prepare", "store"} /\ pc = "preparing"
    \/ op \in {"complete", "confirm"} /\ pc = "completing"
    \/ op \in {"abandon", "wipe", "note"} /\ pc = "abandoning"
    \/ op \in {"fail", "drop"} /\ pc = "failing"

Waiting ==
    \A c \in calls : c.open =>
        /\ Matches(c.op, worker[c.by].pc)
        /\ c.op \in {"prepare", "store"} => c.tx = worker[c.by].tx

Solo == \A c, d \in calls : c.open /\ d.open /\ c.by = d.by => c = d

\* These requests name a transfer.
Naming == {"prepare", "store", "complete", "abandon"}
CallTx == \A c \in calls : c.op \in Naming => c.tx \in Txs

RawHasTx == claim.raw => claim.tx \in Txs

CallInv == calls \subseteq Calls /\ CallTx /\ WorkerType /\ Waiting /\ Solo

IndType == Typed /\ CallInv /\ RawHasTx

\* A worker at pc, with what it had in hand, is a worker (At).
LEMMA AtType ==
    ASSUME WorkerType, NEW w \in Workers, NEW pc \in Pcs,
           pc \in Pass \cup {"preparing", "completing"} =>
               worker[w].tx \in Txs,
           worker' = At(w, pc)
    PROVE  /\ WorkerType' /\ worker'[w].pc = pc
           /\ pc # "idle" => worker'[w].tx = worker[w].tx
           /\ \A v \in Workers \ {w} : worker'[v] = worker[v]
<1>1. CASE pc = "idle"
  <2>1. worker' = [worker EXCEPT ![w] = Idle]
    BY <1>1 DEF At
  <2>2. Idle \in [pc : Pcs, tx : Txs \cup {NoTx}, late : BOOLEAN]
    BY DEF Idle, Pcs
  <2>3. worker' \in [Workers -> [pc : Pcs, tx : Txs \cup {NoTx},
                                late : BOOLEAN]]
    BY <2>1, <2>2 DEF WorkerType
  <2>4. Idle.pc = "idle" /\ "idle" \notin Pass \cup {"preparing", "completing"}
    BY DEF Idle, Pass, Resume, Watch
  <2> QED BY <1>1, <2>1, <2>3, <2>4 DEF WorkerType
<1>2. CASE pc # "idle"
  <2>1. worker' = [worker EXCEPT ![w] = [@ EXCEPT !.pc = pc]]
    BY <1>2 DEF At
  <2> QED BY <1>2, <2>1 DEF WorkerType
<1> QED BY <1>1, <1>2

\* A worker that looks again, for a transfer it has in hand.
LEMMA LookType ==
    ASSUME WorkerType, NEW w \in Workers, NEW pc \in Pcs, NEW late \in BOOLEAN,
           worker[w].tx \in Txs,
           worker' = [worker EXCEPT ![w].pc = pc, ![w].late = late]
    PROVE  /\ WorkerType' /\ worker'[w].pc = pc /\ worker'[w].late = late
           /\ worker'[w].tx = worker[w].tx
           /\ \A v \in Workers \ {w} : worker'[v] = worker[v]
BY DEF WorkerType

\* The requests left when w does not wait any more: none of its own is open.
Left(w, pending) ==
    \A d \in pending :
        \/ d \in calls /\ (d.open => d.by # w)
        \/ \E c \in calls : d = [c EXCEPT !.open = FALSE]

\* What remains of the requests is typed, and w waits for none of it.
LEMMA LeftCalls ==
    ASSUME CallInv, NEW w \in Workers, NEW pending, Left(w, pending),
           NEW d \in pending
    PROVE  /\ d \in Calls /\ (d.op \in Naming => d.tx \in Txs)
           /\ d.open => d \in calls /\ d.by \in Workers \ {w}
<1>1. CASE d \in calls /\ (d.open => d.by # w)
  BY <1>1 DEF CallInv, CallTx, Calls
<1>2. CASE \E c \in calls : d = [c EXCEPT !.open = FALSE]
  <2>1. PICK c \in calls : d = [c EXCEPT !.open = FALSE]
    BY <1>2
  <2>2. c \in Calls /\ (c.op \in Naming => c.tx \in Txs)
    BY DEF CallInv, CallTx
  <2> QED BY <2>1, <2>2 DEF Calls
<1> QED BY <1>1, <1>2 DEF Left

\* A worker that asks waits for that request alone (Ask).
LEMMA AskKeeps ==
    ASSUME CallInv, NEW w \in Workers, NEW pc \in Pcs, NEW op \in Ops,
           NEW pending, Left(w, pending),
           Ask(w, pc, pending, op), Matches(op, pc),
           pc \in {"preparing", "completing", "abandoning"} =>
               worker[w].tx \in Txs
    PROVE  CallInv'
<1> DEFINE new == Call(op, w, worker[w].tx, worker[w].late)
<1>1. calls' = pending \cup {new} /\ worker' = At(w, pc)
  BY DEF Ask
<1>2. new \in Calls /\ new.by = w /\ new.op = op /\ new.open
      /\ new.tx = worker[w].tx
  BY DEF Call, Calls, CallInv, WorkerType
<1>3. pc \notin {"idle", "sending"} \cup Resume \cup Watch
  BY DEF Matches, Resume, Watch
<1>4. /\ WorkerType' /\ worker'[w].pc = pc /\ worker'[w].tx = worker[w].tx
      /\ \A v \in Workers \ {w} : worker'[v] = worker[v]
  BY <1>1, <1>3, AtType DEF CallInv, Pass
<1>l. ASSUME NEW d \in pending
      PROVE  /\ d \in Calls /\ (d.op \in Naming => d.tx \in Txs)
             /\ d.open => d \in calls /\ d.by \in Workers \ {w}
  BY LeftCalls
<1> HIDE DEF new
<1>5. calls' \subseteq Calls
  BY <1>1, <1>2, <1>l
<1>6. CallTx'
  <2>1. op \in Naming => worker[w].tx \in Txs
    BY DEF Naming, Matches
  <2> QED BY <1>1, <1>2, <1>l, <2>1 DEF CallTx
<1>7. Waiting'
  <2> SUFFICES ASSUME NEW c \in calls', c.open
               PROVE  /\ Matches(c.op, worker'[c.by].pc)
                      /\ c.op \in {"prepare", "store"} =>
                           c.tx = worker'[c.by].tx
    BY DEF Waiting
  <2>1. CASE c = new
    BY <1>2, <1>4, <2>1
  <2>2. CASE c \in pending
    BY <1>4, <1>l, <2>2 DEF CallInv, Waiting
  <2> QED BY <1>1, <2>1, <2>2
<1>8. Solo'
  BY <1>1, <1>2, <1>l DEF CallInv, Solo
<1> QED BY <1>4, <1>5, <1>6, <1>7, <1>8 DEF CallInv

\* A worker that stops waiting has no request left (Answer, Thrown, Crash).
LEMMA MoveKeeps ==
    ASSUME CallInv, NEW w \in Workers, WorkerType',
           \A v \in Workers \ {w} : worker'[v] = worker[v],
           Left(w, calls')
    PROVE  CallInv'
<1>1. ASSUME NEW d \in calls'
      PROVE  /\ d \in Calls /\ (d.op \in Naming => d.tx \in Txs)
             /\ d.open => d \in calls /\ d.by \in Workers \ {w}
  BY LeftCalls
<1>2. calls' \subseteq Calls /\ CallTx'
  BY <1>1 DEF CallTx
<1>3. Waiting'
  BY <1>1 DEF Waiting, CallInv
<1>4. Solo'
  BY <1>1 DEF Solo, CallInv
<1> QED BY <1>2, <1>3, <1>4 DEF CallInv

\* The catch block keeps the types (processRefundClaims).
LEMMA ThrownKeeps ==
    ASSUME CallInv, NEW w \in Workers, NEW pending, Left(w, pending),
           Thrown(w, pending)
    PROVE  CallInv'
<1>1. CASE worker[w].pc \in {"leasing", "failing"}
  <2>1. worker' = At(w, "idle") /\ calls' = pending
    BY <1>1 DEF Thrown
  <2>2. WorkerType' /\ \A v \in Workers \ {w} : worker'[v] = worker[v]
    BY <2>1, AtType DEF CallInv, Pcs, Pass, Resume, Watch
  <2> QED BY <2>1, <2>2, MoveKeeps
<1>2. CASE worker[w].pc \notin {"leasing", "failing"}
  <2>1. Ask(w, "failing", pending, "fail")
    BY <1>2 DEF Thrown
  <2> QED BY <2>1, AskKeeps DEF Ops, Pcs, Matches
<1> QED BY <1>1, <1>2

\* The other requests of a waiting worker's process are not open (Solo).
LEMMA OthersClosed ==
    ASSUME CallInv, NEW c \in calls, c.open
    PROVE  /\ c.by \in Workers
           /\ Left(c.by, calls \ {c})
BY DEF CallInv, Solo, Calls, Left

\* A refusal keeps the types.
LEMMA RefuseKeeps ==
    ASSUME CallInv, NEW c \in calls, Refuse(c)
    PROVE  CallInv'
<1>1. CASE c.open
  BY <1>1, OthersClosed, ThrownKeeps DEF Refuse
<1>2. CASE ~c.open
  <2>1. calls' = calls \ {c} /\ worker' = worker
    BY <1>2 DEF Refuse
  <2> QED BY <2>1 DEF CallInv, CallTx, WorkerType, Waiting, Solo
<1> QED BY <1>1, <1>2

\* An answer keeps the types.
LEMMA AnswerKeeps ==
    ASSUME CallInv, NEW c \in calls, NEW pc \in {"idle", "sending"},
           pc = "sending" /\ c.open => worker[c.by].tx \in Txs,
           Answer(c, pc)
    PROVE  CallInv'
<1>1. CASE c.open
  <2>1. worker' = At(c.by, pc) /\ calls' = calls \ {c}
    BY <1>1 DEF Answer
  <2>2. WorkerType' /\ \A v \in Workers \ {c.by} : worker'[v] = worker[v]
    BY <1>1, <2>1, OthersClosed, AtType
    DEF CallInv, Pcs, Pass, Resume, Watch
  <2> QED BY <1>1, <2>1, <2>2, OthersClosed, MoveKeeps
<1>2. CASE ~c.open
  <2>1. calls' = calls \ {c} /\ worker' = worker
    BY <1>2 DEF Answer
  <2> QED BY <2>1 DEF CallInv, CallTx, WorkerType, Waiting, Solo
<1> QED BY <1>1, <1>2

\* The row a lease returns keeps the types (validatePayoutClaim).
LEMMA AnswerLeaseKeeps ==
    ASSUME CallInv, NEW c \in calls, NEW row,
           row.status \in {"leased", "prepared"},
           row.tx \in Txs \cup {NoTx},
           row.status = "prepared" => row.tx \in Txs,
           AnswerLease(c, row)
    PROVE  CallInv'
<1>1. CASE ~c.open
  <2>1. calls' = calls \ {c} /\ worker' = worker
    BY <1>1 DEF AnswerLease
  <2> QED BY <2>1 DEF CallInv, CallTx, WorkerType, Waiting, Solo
<1>2. CASE c.open /\ row.status = "leased" /\ row.tx # NoTx
  <2>1. Ask(c.by, "failing", calls \ {c}, "fail")
    BY <1>2 DEF AnswerLease
  <2> QED BY <1>2, <2>1, OthersClosed, AskKeeps DEF Ops, Pcs, Matches
<1>3. CASE c.open /\ ~(row.status = "leased" /\ row.tx # NoTx)
  <2>1. /\ calls' = calls \ {c}
        /\ worker' = [worker EXCEPT ![c.by] =
             [pc |-> IF row.status = "leased" THEN "signing" ELSE "resuming",
              tx |-> row.tx, late |-> FALSE]]
    BY <1>3 DEF AnswerLease
  <2>2. WorkerType' /\ \A v \in Workers \ {c.by} : worker'[v] = worker[v]
    BY <1>3, <2>1, OthersClosed
    DEF CallInv, WorkerType, Pcs, Pass, Resume, Watch
  <2> QED BY <1>3, <2>1, <2>2, OthersClosed, MoveKeeps
<1> QED BY <1>1, <1>2, <1>3

\* A handler that is to write later keeps the types.
LEMMA LaterKeeps ==
    ASSUME CallInv, NEW c \in calls, NEW write \in Writes, ~AtomicApi,
           Later(c, write),
           \/ c.op = "lease" /\ write = "take"
           \/ c.op = "prepare" /\ write = "store"
           \/ c.op = "complete" /\ write = "confirm"
           \/ c.op = "abandon" /\ write \in {"wipe", "note"}
           \/ c.op = "fail" /\ write = "drop"
    PROVE  CallInv'
<1> DEFINE new == [c EXCEPT !.op = write]
<1>1. calls' = (calls \ {c}) \cup {new} /\ worker' = worker
  BY DEF Later
<1>2. c \in Calls
  BY DEF CallInv
<1>3. /\ new \in Calls /\ new.op = write /\ new.by = c.by
      /\ new.open = c.open /\ new.tx = c.tx
  BY <1>2 DEF Calls, Ops
<1> HIDE DEF new
<1>4. calls' \subseteq Calls /\ CallTx'
  BY <1>1, <1>3 DEF CallInv, CallTx, Naming, Writes
<1>5. Waiting'
  BY <1>1, <1>3 DEF CallInv, Waiting, Matches
<1>6. Solo'
  BY <1>1, <1>3 DEF CallInv, Solo
<1>7. WorkerType'
  BY <1>1 DEF CallInv, WorkerType
<1> QED BY <1>4, <1>5, <1>6, <1>7 DEF CallInv

\* A row with the stored bytes has a signature.
RowTyped(row) == row \in Rows /\ (row.raw => row.tx \in Txs)

\* The handlers' writes keep rows typed.
LEMMA WritesTyped ==
    ASSUME NEW row, RowTyped(row), NEW w \in Workers
    PROVE  /\ RowTyped(Unleased(row)) /\ RowTyped(Leased(row, w))
           /\ \A t \in Txs : RowTyped(Stored(row, t))
           /\ RowTyped(Confirmed(row))
           /\ RowTyped(Abandoned(row)) /\ RowTyped(Noted(row))
           /\ RowTyped(Failed(row))
<1> USE DEF RowTyped, Rows
<1>1. RowTyped(Unleased(row)) /\ Unleased(row).raw = row.raw
      /\ Unleased(row).tx = row.tx
  BY DEF Unleased
<1>n. row.count + 1 \in Nat /\ Unleased(row).count + 1 \in Nat
  <2>1. row.count \in Nat /\ Unleased(row).count \in Nat
    BY <1>1
  <2> QED BY <2>1
<1>2. RowTyped(Leased(row, w))
  BY DEF Leased
<1>3. \A t \in Txs : RowTyped(Stored(row, t))
  BY <1>n DEF Stored
<1>4. RowTyped(Confirmed(row))
  BY <1>1 DEF Confirmed
<1>5. RowTyped(Abandoned(row))
  BY <1>1 DEF Abandoned
<1>6. RowTyped(Noted(row))
  BY <1>1 DEF Noted
<1>7. RowTyped(Failed(row))
  BY <1>1, <1>n DEF Failed
<1> QED BY <1>1, <1>2, <1>3, <1>4, <1>5, <1>6, <1>7

\* So does the release of an expired lease (lease_payout_claims).
LEMMA FreedTyped ==
    ASSUME RowTyped(claim)
    PROVE  RowTyped(Freed)
<1>1. CASE LeaseExpired
  <2>1. Freed = [Unleased(claim) EXCEPT
                   !.status = IF claim.raw THEN "prepared" ELSE "pending"]
    BY <1>1 DEF Freed
  <2> QED BY <2>1 DEF RowTyped, Rows, Unleased
<1>2. CASE ~LeaseExpired
  BY <1>2 DEF Freed
<1> QED BY <1>1, <1>2

\* A lease returns a row its worker can go on with.
LEMMA LeasedRow ==
    ASSUME NEW row, RowTyped(row), NEW w \in Workers
    PROVE  /\ Leased(row, w).status \in {"leased", "prepared"}
           /\ Leased(row, w).tx \in Txs \cup {NoTx}
           /\ Leased(row, w).status = "prepared" => Leased(row, w).tx \in Txs
BY DEF Leased, RowTyped, Rows

\* Every handler keeps the types.
LEMMA ServeKeeps ==
    ASSUME RowTyped(claim), CallInv, NEW c \in calls,
           ServeRead(c) \/ ServeWrite(c)
    PROVE  RowTyped(claim') /\ CallInv'
<1>c. /\ c \in Calls /\ c.by \in Workers /\ (c.op \in Naming => c.tx \in Txs)
  BY DEF CallInv, Calls, CallTx
<1>w. c.op \in Writes => ~AtomicApi
  BY <1>c DEF Calls, Ops, Writes
<1>s. c.op = "store" => c.tx \in Txs
  BY DEF CallInv, CallTx, Naming
<1>t. c.op \in {"prepare", "store"} /\ c.open => worker[c.by].tx \in Txs
  BY <1>c, <1>s DEF CallInv, Waiting, Naming
<1>0. ASSUME NEW row, RowTyped(row), claim' = Leased(row, c.by),
             AnswerLease(c, claim')
      PROVE  RowTyped(claim') /\ CallInv'
  <2>1. RowTyped(Leased(row, c.by))
    BY <1>0, <1>c, WritesTyped
  <2>2. AnswerLease(c, Leased(row, c.by))
    BY <1>0
  <2>3. CallInv'
    BY <1>0, <1>c, <2>2, LeasedRow, AnswerLeaseKeeps
  <2> QED BY <1>0, <2>1, <2>3
<1>1. CASE ServeLease(c)
  <2>1. CASE ~Leasable(Freed)
    BY <1>1, <2>1, FreedTyped, AnswerKeeps DEF ServeLease
  <2>2. CASE Leasable(Freed) /\ (AtomicApi \/ LeaseExpired)
    <3>1. claim' = Leased(Freed, c.by) /\ AnswerLease(c, claim')
      BY <1>1, <2>2 DEF ServeLease
    <3> QED BY <3>1, FreedTyped, <1>0
  <2>3. CASE Leasable(Freed) /\ ~(AtomicApi \/ LeaseExpired)
    <3>1. Later(c, "take") /\ c.op = "lease" /\ ~AtomicApi
      BY <1>1, <2>3 DEF ServeLease
    <3> QED BY <3>1, LaterKeeps DEF Writes, Later
  <2> QED BY <2>1, <2>2, <2>3
<1>2. CASE ServeTake(c)
  <2>1. claim' = Leased(claim, c.by) /\ AnswerLease(c, claim')
    BY <1>2 DEF ServeTake
  <2> QED BY <2>1, <1>0
<1>3. CASE ServePrepare(c)
  <2>o. c.op = "prepare"
    BY <1>3 DEF ServePrepare
  <2>1. CASE Answer(c, "sending") /\ claim' \in {claim, Stored(claim, c.tx)}
    BY <1>c, <1>t, <2>o, <2>1, AnswerKeeps, WritesTyped DEF Naming
  <2>2. CASE Later(c, "store") /\ ~AtomicApi
    BY <2>o, <2>2, LaterKeeps DEF Writes, Later
  <2>3. CASE Refuse(c)
    BY <2>3, RefuseKeeps DEF Refuse
  <2> QED BY <1>3, <2>1, <2>2, <2>3 DEF ServePrepare
<1>4. CASE ServeStore(c)
  BY <1>4, <1>c, <1>s, <1>t, AnswerKeeps, WritesTyped DEF ServeStore
<1>5. CASE ServeComplete(c)
  <2>1. CASE Answer(c, "idle") /\ claim' \in {claim, Confirmed(claim)}
    BY <1>c, <2>1, AnswerKeeps, WritesTyped
  <2>2. CASE Refuse(c)
    BY <2>2, RefuseKeeps DEF Refuse
  <2>3. CASE c.op = "complete" /\ Later(c, "confirm") /\ ~AtomicApi
    BY <2>3, LaterKeeps DEF Writes, Later
  <2> QED BY <1>5, <2>1, <2>2, <2>3 DEF ServeComplete
<1>6. CASE ServeConfirm(c)
  BY <1>6, <1>c, AnswerKeeps, WritesTyped DEF ServeConfirm
<1>7. CASE ServeAbandon(c)
  <2>1. CASE /\ Answer(c, "idle")
             /\ claim' \in {claim, Abandoned(claim), Noted(claim)}
    BY <1>c, <2>1, AnswerKeeps, WritesTyped
  <2>2. CASE Refuse(c)
    BY <2>2, RefuseKeeps DEF Refuse
  <2>3. CASE /\ c.op = "abandon" /\ ~AtomicApi
             /\ Later(c, "wipe") \/ Later(c, "note")
    BY <2>3, LaterKeeps DEF Writes, Later
  <2> QED BY <1>7, <2>1, <2>2, <2>3 DEF ServeAbandon
<1>8. CASE ServeWipe(c)
  BY <1>8, <1>c, AnswerKeeps, WritesTyped DEF ServeWipe
<1>9. CASE ServeNote(c)
  BY <1>9, <1>c, AnswerKeeps, WritesTyped DEF ServeNote
<1>10. CASE ServeFail(c)
  <2>1. CASE Answer(c, "idle") /\ claim' \in {claim, Failed(claim)}
    BY <1>c, <2>1, AnswerKeeps, WritesTyped
  <2>2. CASE Refuse(c)
    BY <2>2, RefuseKeeps DEF Refuse
  <2>3. CASE c.op = "fail" /\ Later(c, "drop") /\ ~AtomicApi
    BY <2>3, LaterKeeps DEF Writes, Later
  <2> QED BY <1>10, <2>1, <2>2, <2>3 DEF ServeFail
<1>11. CASE ServeDrop(c)
  BY <1>11, <1>c, AnswerKeeps, WritesTyped DEF ServeDrop
<1> QED
  BY <1>1, <1>2, <1>3, <1>4, <1>5, <1>6, <1>7, <1>8, <1>9, <1>10, <1>11
  DEF ServeRead, ServeWrite

\* Every step of a worker keeps the types.
LEMMA WorkerKeeps ==
    ASSUME Typed, CallInv, NEW w \in Workers, WorkerStep(w)
    PROVE  CallInv' /\ ChainType'
<1>n. worker[w].pc \notin {"leasing", "preparing", "completing",
                           "abandoning", "failing"}
      => Left(w, calls)
  BY DEF CallInv, Waiting, Matches, Left
<1>l. ASSUME NEW d \in calls, d.open, worker[w].pc = "signing"
      PROVE  d.by # w
  BY <1>l DEF CallInv, Waiting, Matches
<1>u. ASSUME UNCHANGED <<height, view, valid, sent, slot>>
      PROVE  ChainType'
  BY <1>u DEF Typed, ChainType
<1>1. CASE StartPass(w)
  BY <1>1, <1>n, <1>u, AskKeeps DEF StartPass, Ops, Pcs, Matches, chainVars
<1>2. CASE Sign(w)
  <2>1. PICK t \in Txs :
          /\ valid' = [valid EXCEPT ![t] = height + Lifetime]
          /\ worker' = [worker EXCEPT ![w].pc = "preparing", ![w].tx = t]
          /\ calls' = calls \cup {Call("prepare", w, t, FALSE)}
    BY <1>2 DEF Sign
  <2>2. worker[w].pc = "signing" /\ UNCHANGED <<height, view, sent, slot>>
    BY <1>2 DEF Sign
  <2>3. ChainType'
    <3>1. height + Lifetime \in Nat
      BY BoundsAssumption DEF Typed, ChainType
    <3> QED BY <2>1, <2>2, <3>1 DEF Typed, ChainType
  <2>4. /\ WorkerType' /\ worker'[w].pc = "preparing" /\ worker'[w].tx = t
        /\ \A v \in Workers \ {w} : worker'[v] = worker[v]
    BY <2>1 DEF CallInv, WorkerType, Pcs
  <2> DEFINE new == Call("prepare", w, t, FALSE)
  <2>5. /\ new \in Calls /\ new.by = w /\ new.op = "prepare" /\ new.open
        /\ new.tx = t
    BY DEF Call, Calls, Ops
  <2>6. calls' = calls \cup {new}
    BY <2>1
  <2> HIDE DEF new
  <2>7. calls' \subseteq Calls /\ CallTx'
    BY <2>5, <2>6 DEF CallInv, CallTx
  <2>8. Waiting'
    <3> SUFFICES ASSUME NEW c \in calls', c.open
                 PROVE  /\ Matches(c.op, worker'[c.by].pc)
                        /\ c.op \in {"prepare", "store"} =>
                             c.tx = worker'[c.by].tx
      BY DEF Waiting
    <3>1. CASE c = new
      BY <2>4, <2>5, <3>1 DEF Matches
    <3>2. CASE c \in calls
      <4>1. c.by \in Workers \ {w}
        BY <1>l, <2>2, <3>2 DEF CallInv, Calls
      <4> QED BY <2>4, <3>2, <4>1 DEF CallInv, Waiting
    <3> QED BY <2>6, <3>1, <3>2
  <2>9. Solo'
    BY <1>l, <2>2, <2>5, <2>6 DEF CallInv, Solo
  <2> QED BY <2>3, <2>4, <2>7, <2>8, <2>9 DEF CallInv
<1>3. CASE SignFails(w)
  BY <1>3, <1>n, <1>u, ThrownKeeps DEF SignFails, chainVars
<1>4. CASE Broadcast(w)
  <2>1. worker[w].pc = "sending" /\ worker[w].tx \in Txs
    BY <1>4 DEF Broadcast, CallInv, WorkerType, Pass
  <2>2. WorkerType' /\ \A v \in Workers \ {w} : worker'[v] = worker[v]
    BY <1>4, <2>1, AtType DEF Broadcast, CallInv, Pcs, Watch
  <2>3. CallInv'
    BY <1>4, <1>n, <2>1, <2>2, MoveKeeps DEF Broadcast
  <2>4. ChainType'
    BY <1>4, <2>1 DEF Broadcast, Typed, ChainType
  <2> QED BY <2>3, <2>4
<1>5. CASE BroadcastFails(w)
  <2>1. worker[w].pc = "sending" /\ worker[w].tx \in Txs
    BY <1>5 DEF BroadcastFails, CallInv, WorkerType, Pass
  <2>3. CallInv'
    BY <1>5, <1>n, <2>1, ThrownKeeps DEF BroadcastFails
  <2>4. ChainType'
    BY <1>5, <2>1 DEF BroadcastFails, Typed, ChainType
  <2> QED BY <2>3, <2>4
<1>6. CASE TimesOut(w)
  BY <1>6, <1>n, <1>u, ThrownKeeps DEF TimesOut, chainVars
<1>i. ASSUME Inconclusive(w), worker[w].tx \in Txs, Left(w, calls)
      PROVE  CallInv'
  <2>1. PICK pc \in {"sending", "watching"} :
          /\ worker' = [worker EXCEPT ![w].pc = pc, ![w].late = FALSE]
          /\ calls' = calls
    BY <1>i DEF Inconclusive
  <2>2. WorkerType' /\ \A v \in Workers \ {w} : worker'[v] = worker[v]
    BY <1>i, <2>1, LookType DEF CallInv, Pcs, Watch
  <2> QED BY <1>i, <2>1, <2>2, MoveKeeps
<1>p. ASSUME worker[w].pc \in Resume \cup Watch
      PROVE  worker[w].tx \in Txs /\ Left(w, calls)
  <2>1. worker[w].tx \in Txs
    BY <1>p DEF CallInv, WorkerType, Pass
  <2> QED BY <1>n, <1>p, <2>1 DEF Resume, Watch
<1>7. CASE AskStatuses(w)
  <2>0. ChainType'
    BY <1>7, <1>u DEF AskStatuses, chainVars
  <2>1. worker[w].tx \in Txs /\ Left(w, calls)
    BY <1>7, <1>p DEF AskStatuses, Resume, Watch
  <2>2. CASE Ask(w, "completing", calls, "complete")
    BY <2>0, <2>1, <2>2, AskKeeps DEF Ops, Pcs, Matches
  <2>3. CASE Inconclusive(w)
    BY <1>i, <2>0, <2>1, <2>3
  <2>4. CASE /\ calls' = calls
             /\ worker' = [worker EXCEPT
                  ![w].pc = IF @ \in Resume THEN "resume_heights"
                                            ELSE "watch_heights",
                  ![w].late = OutlivedByAll(worker[w].tx)]
    <3>1. OutlivedByAll(worker[w].tx) \in BOOLEAN
      BY DEF OutlivedByAll
    <3>2. PICK pc \in {"resume_heights", "watch_heights"} :
            worker' = [worker EXCEPT ![w].pc = pc,
                                     ![w].late = OutlivedByAll(worker[w].tx)]
      BY <2>4
    <3>3. WorkerType' /\ \A v \in Workers \ {w} : worker'[v] = worker[v]
      BY <2>1, <3>1, <3>2, LookType DEF CallInv, Pcs, Resume, Watch
    <3> QED BY <2>0, <2>1, <2>4, <3>3, MoveKeeps
  <2> QED BY <1>7, <2>2, <2>3, <2>4 DEF AskStatuses
<1>8. CASE AskHeights(w)
  <2>0. ChainType'
    BY <1>8, <1>u DEF AskHeights, chainVars
  <2>1. worker[w].tx \in Txs /\ Left(w, calls)
    BY <1>8, <1>p DEF AskHeights, Resume, Watch
  <2>2. CASE Ask(w, "abandoning", calls, "abandon")
    BY <2>0, <2>1, <2>2, AskKeeps DEF Ops, Pcs, Matches, Pass
  <2>3. CASE Inconclusive(w)
    BY <1>i, <2>0, <2>1, <2>3
  <2> QED BY <1>8, <2>2, <2>3 DEF AskHeights
<1> QED
  BY <1>1, <1>2, <1>3, <1>4, <1>5, <1>6, <1>7, <1>8 DEF WorkerStep

\* Timeouts, repeated requests and crashes keep the types.
LEMMA FaultKeeps ==
    ASSUME CallInv, Fault
    PROVE  CallInv'
<1>l. ASSUME NEW w \in Workers
      PROVE  Left(w, (calls \ OpenCalls(w)) \cup Orphaned(OpenCalls(w)))
  BY DEF Left, Orphaned, OpenCalls
<1>1. ASSUME NEW w \in Workers, GiveUp(w)
      PROVE  CallInv'
  BY <1>1, <1>l, ThrownKeeps DEF GiveUp
<1>2. ASSUME NEW w \in Workers, Crash(w)
      PROVE  CallInv'
  <2>1. WorkerType' /\ \A v \in Workers \ {w} : worker'[v] = worker[v]
    BY <1>2, AtType DEF Crash, CallInv, Pcs, Pass, Resume, Watch
  <2> QED BY <1>2, <1>l, <2>1, MoveKeeps DEF Crash
<1>3. ASSUME NEW c \in calls, Duplicate(c)
      PROVE  CallInv'
  <2> DEFINE copy == [c EXCEPT !.open = FALSE]
  <2>1. calls' = calls \cup {copy} /\ worker' = worker
    BY <1>3 DEF Duplicate, Orphaned
  <2>2. c \in Calls /\ (c.op \in Naming => c.tx \in Txs)
    BY DEF CallInv, CallTx
  <2>3. copy \in Calls /\ (copy.op \in Naming => copy.tx \in Txs) /\ ~copy.open
    BY <2>2 DEF Calls
  <2> HIDE DEF copy
  <2> QED BY <2>1, <2>3 DEF CallInv, CallTx, WorkerType, Waiting, Solo
<1> QED BY <1>1, <1>2, <1>3 DEF Fault

\* The row, too, is touched only by the handlers and by time.
LEMMA IndTypeStep ==
    ASSUME IndType, [Next]_vars
    PROVE  IndType'
<1> SUFFICES RowTyped(claim') /\ CallInv' /\ ChainType' /\ faults' \in Nat
  BY DEF IndType, Typed, RowTyped, RawHasTx, CallInv
<1>t. /\ RowTyped(claim) /\ CallInv /\ ChainType /\ Typed /\ faults \in Nat
  BY DEF IndType, Typed, RowTyped, RawHasTx
<1>u. ASSUME UNCHANGED <<height, view, valid, sent, slot>>
      PROVE  ChainType'
  BY <1>t, <1>u DEF ChainType
<1>c. ASSUME UNCHANGED <<calls, worker>>
      PROVE  CallInv'
  BY <1>t, <1>c DEF CallInv, CallTx, WorkerType, Waiting, Solo
<1>1. CASE Serve
  <2>1. PICK c \in calls : ServeRead(c) \/ ServeWrite(c)
    BY <1>1 DEF Serve
  <2>2. UNCHANGED <<chainVars, faults>>
    BY <2>1 DEF ServeRead, ServeWrite, ServeLease, ServePrepare, ServeComplete,
         ServeAbandon, ServeFail, ServeTake, ServeStore, ServeConfirm,
         ServeWipe, ServeNote, ServeDrop
  <2> QED BY <1>t, <1>u, <2>1, <2>2, ServeKeeps DEF chainVars
<1>2. CASE LeaseExpires
  <2>1. RowTyped(claim')
    BY <1>t, <1>2 DEF LeaseExpires, RowTyped, Rows
  <2> QED BY <1>t, <1>u, <1>c, <1>2, <2>1 DEF LeaseExpires, chainVars
<1>3. CASE AbsenceRipens
  <2>1. RowTyped(claim')
    BY <1>t, <1>3 DEF AbsenceRipens, RowTyped, Rows
  <2> QED BY <1>t, <1>u, <1>c, <1>3, <2>1 DEF AbsenceRipens, chainVars
<1>4. ASSUME NEW w \in Workers, WorkerStep(w)
      PROVE  RowTyped(claim') /\ CallInv' /\ ChainType' /\ faults' \in Nat
  <2>1. claim' = claim /\ faults' = faults
    BY <1>4 DEF WorkerStep, StartPass, Sign, SignFails, Broadcast,
         BroadcastFails, TimesOut, AskStatuses, AskHeights
  <2> QED BY <1>t, <1>4, <2>1, WorkerKeeps
<1>5. CASE Fault
  <2>1. /\ claim' = claim /\ faults' \in Nat
        /\ UNCHANGED <<height, view, valid, sent, slot>>
    <3>1. faults' = faults + 1 /\ UNCHANGED <<claim, chainVars>>
      BY <1>5 DEF Fault, GiveUp, Crash, Duplicate
    <3> QED BY <1>t, <3>1 DEF chainVars
  <2> QED BY <1>t, <1>u, <1>5, <2>1, FaultKeeps
<1>6. CASE Chain
  <2>1. UNCHANGED <<claim, calls, worker, faults>>
    BY <1>6 DEF Chain, Tick, Land, Finalize
  <2>2. ChainType'
    <3>1. CASE Tick
      BY <1>t, <3>1 DEF Tick, ChainType
    <3>2. ASSUME NEW t \in Txs, Land(t) PROVE ChainType'
      BY <1>t, <3>2 DEF Land, ChainType
    <3>3. ASSUME NEW o \in Honest, Finalize(o) PROVE ChainType'
      BY <1>t, <3>3 DEF Finalize, ChainType
    <3> QED BY <1>6, <3>1, <3>2, <3>3 DEF Chain
  <2> QED BY <1>t, <1>c, <2>1, <2>2
<1>7. CASE UNCHANGED vars
  BY <1>t, <1>u, <1>c, <1>7 DEF vars, chainVars
<1> QED BY <1>1, <1>2, <1>3, <1>4, <1>5, <1>6, <1>7 DEF Next

\* The initial state is typed.
LEMMA IndTypeInit ==
    ASSUME Init
    PROVE  IndType
<1>1. RowTyped(claim)
  BY DEF Init, NewClaim, RowTyped, Rows
<1>2. CallInv
  BY DEF Init, Idle, CallInv, CallTx, Waiting, Solo, WorkerType, Pcs, Pass,
     Resume, Watch
<1>3. ChainType
  BY DEF Init, ChainType
<1> QED BY <1>1, <1>2, <1>3
    DEF Init, IndType, Typed, RowTyped, RawHasTx, CallInv

-----------------------------------------------------------------------------
(* The invariant of one API process.                                        *)

\* t can never land any more.
Dead(t) == valid[t] # 0 /\ slot[t] = 0 /\ height > valid[t]

ChainInv ==
    /\ \A t \in Txs : Landed(t) => t \in sent /\ slot[t] <= valid[t]
    /\ \A o \in Honest : view[o] < height

\* Whatever a worker, a request or the chain holds was signed.
SignedInv ==
    /\ claim.tx # NoTx => valid[claim.tx] # 0
    /\ \A w \in Workers : worker[w].tx # NoTx => valid[worker[w].tx] # 0
    /\ \A c \in calls : c.tx # NoTx => valid[c.tx] # 0

\* What still moves is on record, or can never land.
RecordInv ==
    /\ \A t \in sent : claim.tx = t \/ Dead(t)
    /\ \A w \in Workers : worker[w].pc \in Pass =>
         claim.tx = worker[w].tx \/ Dead(worker[w].tx)

\* A question asked late finds the transfer absent only if it is dead.
LateInv ==
    /\ \A w \in Workers :
         worker[w].pc \in Asking /\ worker[w].late => Dead(worker[w].tx)
    /\ \A c \in calls : c.op = "abandon" /\ c.late => Dead(c.tx)

\* A ripe absence is about the transfer everybody has in hand.
RipeInv ==
    claim.absence = "ripe" =>
        /\ claim.tx \in Txs /\ OutlivedByAll(claim.tx)
        /\ \A w \in Workers :
             /\ worker[w].pc \in Pass => worker[w].tx = claim.tx
             /\ worker[w].pc \in Asking => worker[w].late
        /\ \A c \in calls : c.op = "abandon" => c.tx = claim.tx /\ c.late

\* A completion is asked for a transfer that landed.
PaidInv ==
    /\ claim.done => Landed(claim.tx)
    /\ \A c \in calls : c.op = "complete" => Landed(c.tx)

Inv ==
    /\ Shaped(claim) /\ ChainInv /\ SignedInv
    /\ RecordInv /\ LateInv /\ RipeInv /\ PaidInv
-----------------------------------------------------------------------------
(* One step, as the invariant sees it: the row keeps a transfer that may    *)
(* still land, workers carry on with it or stop, requests are about it, and *)
(* the chain moves on.                                                      *)

Displaced ==
    /\ claim'.tx = claim.tx \/ claim.tx = NoTx \/ Dead(claim.tx)
    /\ claim'.tx # NoTx => valid'[claim'.tx] # 0
    /\ claim'.absence = "ripe" => claim.absence = "ripe" /\ claim'.tx = claim.tx

Harmless(w) ==
    /\ worker'[w].pc \notin Pass
    /\ worker'[w].tx # NoTx => valid'[worker'[w].tx] # 0

Picks(w) ==
    worker'[w].pc \in {"sending", "resuming"} /\ worker'[w].tx = claim'.tx

Looks(w) ==
    /\ worker[w].pc \in Pass /\ worker'[w].pc \in Pass
    /\ worker'[w].tx = worker[w].tx
    /\ worker'[w].pc \in Asking =>
         /\ worker'[w].late => Dead(worker[w].tx)
         /\ claim.absence = "ripe" => worker'[w].late

Moves ==
    \A w \in Workers :
        worker'[w] = worker[w] \/ Harmless(w) \/ Picks(w) \/ Looks(w)

Requests ==
    \A c \in calls' :
        \/ c \in calls
        \/ \E d \in calls : c = [d EXCEPT !.open = FALSE]
        \/ /\ c.tx # NoTx => valid'[c.tx] # 0
           /\ c.op = "complete" => Landed(c.tx)
           /\ c.op = "abandon" =>
                /\ c.late => Dead(c.tx)
                /\ claim.absence = "ripe" => c.tx = claim.tx /\ c.late

Onward ==
    /\ \A t \in Txs :
         /\ Dead(t) => Dead(t)'
         /\ Landed(t) => Landed(t)'
         /\ valid[t] # 0 => valid'[t] = valid[t]
    /\ \A o \in Honest : view'[o] >= view[o]
    /\ \A t \in sent' : \/ t \in sent
                        \/ \E w \in Workers :
                             worker[w].pc = "sending" /\ worker[w].tx = t

\* A completion or an abandonment names a transfer.
LEMMA NamedType ==
    ASSUME IndType, NEW c \in calls
    PROVE  /\ c \in Calls
           /\ c.op \in {"complete", "abandon"} => c.tx \in Txs
BY DEF IndType, CallInv, CallTx, Naming

\* A worker in its pass has a transfer in hand.
LEMMA HandType ==
    ASSUME IndType, NEW w \in Workers
    PROVE  /\ worker[w].tx \in Txs \cup {NoTx}
           /\ worker[w].pc \in Pass => worker[w].tx \in Txs
BY DEF IndType, CallInv, WorkerType

\* Such a step keeps the parts of the invariant about workers and requests.
LEMMA StepKeeps ==
    ASSUME IndType, IndType', SignedInv, RecordInv, LateInv, RipeInv, PaidInv,
           Displaced, Moves, Requests, Onward
    PROVE  /\ SignedInv' /\ RecordInv' /\ LateInv' /\ RipeInv'
           /\ \A c \in calls' : c.op = "complete" => Landed(c.tx)'
<1>t. /\ claim.tx \in Txs \cup {NoTx} /\ claim'.tx \in Txs \cup {NoTx}
      /\ valid \in [Txs -> Nat] /\ valid' \in [Txs -> Nat]
      /\ view \in [Honest -> Nat] /\ view' \in [Honest -> Nat]
      /\ sent \subseteq Txs /\ NoTx \notin Txs
  BY NamesAssumption DEF IndType, Typed, ChainType, Rows
<1>w. ASSUME NEW w \in Workers
      PROVE  /\ worker[w].tx \in Txs \cup {NoTx}
             /\ worker'[w].tx \in Txs \cup {NoTx}
             /\ worker[w].pc \in Pass => worker[w].tx \in Txs
             /\ worker'[w].pc \in Pass => worker'[w].tx \in Txs
  BY HandType DEF IndType, CallInv, WorkerType
<1>c. ASSUME NEW c \in calls'
      PROVE  \/ \E d \in calls : /\ c.op = d.op /\ c.tx = d.tx /\ c.late = d.late
                                 /\ d.op \in {"complete", "abandon"} => d.tx \in Txs
                                 /\ d.tx \in Txs \cup {NoTx}
             \/ /\ c.tx # NoTx => valid'[c.tx] # 0
                /\ c.tx \in Txs \cup {NoTx}
                /\ c.op \in {"complete", "abandon"} => c.tx \in Txs
                /\ c.op = "complete" => Landed(c.tx)
                /\ c.op = "abandon" =>
                     /\ c.late => Dead(c.tx)
                     /\ claim.absence = "ripe" => c.tx = claim.tx /\ c.late
  <2>0. /\ c \in Calls
        /\ c.op \in {"complete", "abandon"} => c.tx \in Txs
    BY DEF IndType, CallInv, CallTx, Naming
  <2>1. CASE c \in calls
    BY <2>1, NamedType DEF Calls
  <2>2. CASE \E d \in calls : c = [d EXCEPT !.open = FALSE]
    <3>1. PICK d \in calls : c = [d EXCEPT !.open = FALSE]
      BY <2>2
    <3>2. d \in Calls
      BY NamedType
    <3>3. c.op = d.op /\ c.tx = d.tx /\ c.late = d.late
      BY <3>1, <3>2 DEF Calls
    <3> QED BY <3>2, <3>3, NamedType DEF Calls
  <2> QED BY <2>0, <2>1, <2>2 DEF Requests, Calls
<1>1. SignedInv'
  <2>1. claim'.tx # NoTx => valid'[claim'.tx] # 0
    BY DEF Displaced
  <2>2. ASSUME NEW w \in Workers, worker'[w].tx # NoTx
        PROVE  valid'[worker'[w].tx] # 0
    BY <1>t, <1>w, <2>1, <2>2
    DEF SignedInv, Moves, Harmless, Picks, Looks, Onward
  <2>3. ASSUME NEW c \in calls', c.tx # NoTx
        PROVE  valid'[c.tx] # 0
    BY <1>t, <1>c, <2>3 DEF SignedInv, Onward
  <2> QED BY <2>1, <2>2, <2>3 DEF SignedInv
<1>d. \A t \in Txs : claim.tx = t \/ Dead(t) => claim'.tx = t \/ Dead(t)'
  BY <1>t DEF Displaced, Onward
<1>2. RecordInv'
  <2>1. ASSUME NEW t \in sent'
        PROVE  claim'.tx = t \/ Dead(t)'
    BY <1>t, <1>w, <1>d DEF RecordInv, Onward, Pass
  <2>2. ASSUME NEW w \in Workers, worker'[w].pc \in Pass
        PROVE  (claim.tx = worker[w].tx \/ Dead(worker[w].tx))'
    <3>1. claim'.tx = worker'[w].tx
          \/ claim.tx = worker'[w].tx \/ Dead(worker'[w].tx)
      BY <1>t, <1>w, <2>2 DEF RecordInv, Moves, Harmless, Picks, Looks
    <3>2. PICK t \in Txs : t = worker'[w].tx
      BY <1>w, <2>2
    <3>3. claim'.tx = t \/ Dead(t)'
      BY <1>d, <3>1, <3>2
    <3> QED BY <3>2, <3>3 DEF Dead
  <2> QED BY <2>1, <2>2 DEF RecordInv
<1>3. LateInv'
  <2>1. ASSUME NEW w \in Workers, worker'[w].pc \in Asking, worker'[w].late
        PROVE  Dead(worker[w].tx)'
    <3>1. worker'[w].pc \in Pass /\ worker'[w].pc \notin {"sending", "resuming"}
      BY <2>1 DEF Asking, Pass, Resume, Watch
    <3>2. Dead(worker'[w].tx)
      BY <2>1, <3>1 DEF LateInv, Moves, Harmless, Picks, Looks
    <3>3. PICK t \in Txs : t = worker'[w].tx
      BY <1>w, <3>1
    <3>4. Dead(t)'
      BY <3>2, <3>3 DEF Onward
    <3> QED BY <3>3, <3>4 DEF Dead
  <2>2. ASSUME NEW c \in calls', c.op = "abandon", c.late
        PROVE  Dead(c.tx)'
    <3>1. Dead(c.tx) /\ c.tx \in Txs
      BY <1>c, <2>2 DEF LateInv
    <3> QED BY <3>1 DEF Onward
  <2> QED BY <2>1, <2>2 DEF LateInv
<1>4. RipeInv'
  <2> SUFFICES ASSUME claim'.absence = "ripe"
               PROVE  /\ claim'.tx \in Txs /\ OutlivedByAll(claim.tx)'
                      /\ \A w \in Workers :
                           /\ worker'[w].pc \in Pass => worker'[w].tx = claim'.tx
                           /\ worker'[w].pc \in Asking => worker'[w].late
                      /\ \A c \in calls' :
                           c.op = "abandon" => c.tx = claim'.tx /\ c.late
    BY DEF RipeInv
  <2>1. claim.absence = "ripe" /\ claim'.tx = claim.tx
    BY DEF Displaced
  <2>2. claim.tx \in Txs /\ OutlivedByAll(claim.tx)
    BY <2>1 DEF RipeInv
  <2>3. OutlivedByAll(claim.tx)'
    <3>1. valid'[claim.tx] = valid[claim.tx]
      BY <1>t, <2>2 DEF SignedInv, Onward
    <3>2. ASSUME NEW o \in Honest
          PROVE  view'[o] > valid[claim.tx]
      <4>1. view[o] > valid[claim.tx] /\ view'[o] >= view[o]
        BY <2>2 DEF OutlivedByAll, Outlived, Onward
      <4> QED BY <1>t, <2>2, <4>1
    <3> QED BY <2>1, <3>1, <3>2 DEF OutlivedByAll, Outlived, Honest
  <2>4. ASSUME NEW w \in Workers
        PROVE  /\ worker'[w].pc \in Pass => worker'[w].tx = claim'.tx
               /\ worker'[w].pc \in Asking => worker'[w].late
    <3>1. worker'[w].pc \in Asking =>
            worker'[w].pc \in Pass /\ worker'[w].pc \notin {"sending", "resuming"}
      BY DEF Asking, Pass, Resume, Watch
    <3> QED BY <2>1, <3>1 DEF RipeInv, Moves, Harmless, Picks, Looks
  <2>5. ASSUME NEW c \in calls', c.op = "abandon"
        PROVE  c.tx = claim'.tx /\ c.late
    BY <1>c, <2>1, <2>5 DEF RipeInv
  <2> QED BY <2>1, <2>2, <2>3, <2>4, <2>5
<1>5. ASSUME NEW c \in calls', c.op = "complete"
      PROVE  Landed(c.tx)'
  <2>1. Landed(c.tx) /\ c.tx \in Txs
    BY <1>c, <1>5 DEF PaidInv
  <2> QED BY <2>1 DEF Onward
<1> QED BY <1>1, <1>2, <1>3, <1>4, <1>5

\* The catch block stops the worker and asks for nothing it did not sign.
LEMMA ThrownMoves ==
    ASSUME IndType, SignedInv, NEW w \in Workers, NEW pending,
           \A d \in pending : \/ d \in calls
                              \/ \E c \in calls : d = [c EXCEPT !.open = FALSE],
           Thrown(w, pending), valid' = valid
    PROVE  Moves /\ Requests
<1>t. worker[w].tx \in Txs \cup {NoTx} /\ WorkerType
  BY HandType DEF IndType, CallInv
<1>s. worker[w].tx # NoTx => valid[worker[w].tx] # 0
  BY DEF SignedInv
<1>a. ASSUME NEW pc \in {"idle", "failing"}, worker' = At(w, pc)
      PROVE  Moves
  <2>1. pc \in Pcs /\ pc \notin Pass \cup {"preparing", "completing"}
    BY DEF Pcs, Pass, Resume, Watch
  <2>2. worker'[w].pc = pc /\ \A v \in Workers \ {w} : worker'[v] = worker[v]
    BY <1>a, <1>t, <2>1, AtType
  <2>3. worker'[w].tx \in {worker[w].tx, NoTx}
    <3>1. CASE pc = "idle"
      BY <1>a, <1>t, <3>1 DEF At, Idle, WorkerType
    <3>2. CASE pc # "idle"
      BY <1>a, <1>t, <2>1, <3>2, AtType
    <3> QED BY <3>1, <3>2
  <2> QED BY <1>s, <2>1, <2>2, <2>3 DEF Moves, Harmless
<1>1. CASE worker[w].pc \in {"leasing", "failing"}
  BY <1>a, <1>1 DEF Thrown, Requests
<1>2. CASE worker[w].pc \notin {"leasing", "failing"}
  <2>1. /\ worker' = At(w, "failing")
        /\ calls' = pending \cup
                      {Call("fail", w, worker[w].tx, worker[w].late)}
    BY <1>2 DEF Thrown, Ask
  <2> QED BY <1>a, <1>s, <2>1 DEF Requests, Call
<1> QED BY <1>1, <1>2

\* A refusal stops the worker that asked.
LEMMA RefuseMoves ==
    ASSUME IndType, SignedInv, NEW c \in calls, Refuse(c), valid' = valid
    PROVE  Moves /\ Requests
<1>1. c.by \in Workers
  BY NamedType DEF Calls
<1>2. CASE c.open
  BY <1>1, <1>2, ThrownMoves DEF Refuse
<1>3. CASE ~c.open
  BY <1>3 DEF Refuse, Moves, Requests
<1> QED BY <1>2, <1>3

\* An answer ends the pass, or sends the worker on with what is on record.
LEMMA AnswerMoves ==
    ASSUME IndType, SignedInv, NEW c \in calls, NEW pc \in {"idle", "sending"},
           Answer(c, pc), valid' = valid,
           pc = "sending" /\ c.open =>
             worker[c.by].tx \in Txs /\ claim'.tx = worker[c.by].tx
    PROVE  Moves /\ Requests
<1>1. c.by \in Workers /\ WorkerType
  BY NamedType DEF Calls, IndType, CallInv
<1>2. Requests
  BY DEF Answer, Requests
<1>3. CASE ~c.open
  BY <1>2, <1>3 DEF Answer, Moves
<1>4. CASE c.open /\ pc = "idle"
  <2>1. worker' = [worker EXCEPT ![c.by] = Idle]
    BY <1>4 DEF Answer, At
  <2> QED BY <1>1, <1>2, <2>1
      DEF WorkerType, Idle, Moves, Harmless, Pass, Resume, Watch
<1>5. CASE c.open /\ pc = "sending"
  <2>1. worker' = At(c.by, "sending") /\ "sending" \in Pcs
    BY <1>5 DEF Answer, Pcs
  <2>2. /\ worker'[c.by].pc = "sending" /\ worker'[c.by].tx = worker[c.by].tx
        /\ \A v \in Workers \ {c.by} : worker'[v] = worker[v]
    BY <1>1, <1>5, <2>1, AtType
  <2> QED BY <1>2, <1>5, <2>2 DEF Moves, Picks
<1> QED BY <1>3, <1>4, <1>5

\* A lease hands out what is on record (validatePayoutClaim).
LEMMA AnswerLeaseMoves ==
    ASSUME IndType, SignedInv, NEW c \in calls, AnswerLease(c, claim'),
           claim'.status \in {"leased", "prepared"}, Shaped(claim'),
           valid' = valid
    PROVE  Moves /\ Requests
<1>1. c.by \in Workers /\ WorkerType
  BY NamedType DEF Calls, IndType, CallInv
<1>2. CASE ~c.open
  BY <1>2 DEF AnswerLease, Moves, Requests
<1>3. CASE c.open
  <2>1. ~(claim'.status = "leased" /\ claim'.tx # NoTx)
    BY DEF Shaped
  <2>2. /\ calls' = calls \ {c}
        /\ worker' = [worker EXCEPT ![c.by] =
             [pc |-> IF claim'.status = "leased" THEN "signing" ELSE "resuming",
              tx |-> claim'.tx, late |-> FALSE]]
    BY <1>3, <2>1 DEF AnswerLease
  <2>3. CASE claim'.status = "leased"
    BY <1>1, <2>1, <2>2, <2>3
    DEF WorkerType, Moves, Requests, Harmless, Pass, Resume, Watch
  <2>4. CASE claim'.status = "prepared"
    BY <1>1, <2>2, <2>4 DEF WorkerType, Moves, Requests, Picks
  <2> QED BY <2>3, <2>4
<1> QED BY <1>2, <1>3

\* The writes of the handlers keep the columns in agreement.
LEMMA WritesShaped ==
    ASSUME NEW row, RowTyped(row), Shaped(row), NEW w \in Workers
    PROVE  /\ Leasable(row) => /\ Shaped(Leased(row, w))
                               /\ Leased(row, w).tx = row.tx
                               /\ Leased(row, w).absence = row.absence
                               /\ Leased(row, w).done = row.done
                               /\ Leased(row, w).status \in {"leased", "prepared"}
           /\ \A t \in Txs : row.status = "leased" => Shaped(Stored(row, t))
           /\ row.status = "prepared" =>
                Shaped(Confirmed(row)) /\ Shaped(Abandoned(row))
                /\ Shaped(Noted(row))
           /\ row.status # "confirmed" => Shaped(Failed(row))
<1> USE DEF RowTyped, Rows, Shaped
<1>1. Leasable(row) => /\ Shaped(Leased(row, w))
                       /\ Leased(row, w).tx = row.tx
                       /\ Leased(row, w).absence = row.absence
                       /\ Leased(row, w).done = row.done
                       /\ Leased(row, w).status \in {"leased", "prepared"}
  BY NamesAssumption DEF Leasable, Leased
<1>2. \A t \in Txs : row.status = "leased" => Shaped(Stored(row, t))
  BY DEF Stored
<1>3. row.status = "prepared" => Shaped(Confirmed(row))
  BY DEF Confirmed, Unleased
<1>4. row.status = "prepared" => Shaped(Abandoned(row))
  BY DEF Abandoned, Unleased
<1>5. row.status = "prepared" => Shaped(Noted(row))
  BY DEF Noted, Unleased
<1>6. row.status # "confirmed" => Shaped(Failed(row))
  BY DEF Failed, Unleased
<1> QED BY <1>1, <1>2, <1>3, <1>4, <1>5, <1>6

\* The release of an expired lease leaves the evidence alone.
LEMMA FreedShaped ==
    ASSUME RowTyped(claim), Shaped(claim)
    PROVE  /\ Shaped(Freed) /\ Freed.tx = claim.tx
           /\ Freed.absence = claim.absence /\ Freed.done = claim.done
<1>1. CASE LeaseExpired
  <2>1. /\ Freed = [Unleased(claim) EXCEPT
                     !.status = IF claim.raw THEN "prepared" ELSE "pending"]
        /\ claim.status = "leased"
    BY <1>1 DEF Freed, LeaseExpired
  <2> QED BY <2>1 DEF RowTyped, Rows, Unleased, Shaped
<1>2. CASE ~LeaseExpired
  BY <1>2 DEF Freed
<1> QED BY <1>1, <1>2

\* What the handlers leave in the columns the invariant looks at.
LEMMA WritesColumns ==
    ASSUME NEW row, RowTyped(row)
    PROVE  /\ \A t \in Txs : /\ Stored(row, t).tx = t
                             /\ Stored(row, t).absence = "none"
                             /\ Stored(row, t).done = row.done
           /\ Confirmed(row).tx = row.tx /\ Confirmed(row).absence = "none"
           /\ Abandoned(row).tx = NoTx /\ Abandoned(row).absence = "none"
           /\ Abandoned(row).done = row.done
           /\ Noted(row).tx = row.tx /\ Noted(row).done = row.done
           /\ Noted(row).absence = "ripe" => row.absence = "ripe"
           /\ Failed(row).tx = row.tx /\ Failed(row).absence = "none"
           /\ Failed(row).done = row.done
BY DEF RowTyped, Rows, Stored, Confirmed, Abandoned, Noted, Failed, Unleased

\* A handler discards only a dead transfer, and confirms only one that landed
\* (lease, prepare, complete and fail_payout_claim).
LEMMA ServeMoves ==
    ASSUME IndType, Inv, AtomicApi, NEW c \in calls,
           ServeRead(c) \/ ServeWrite(c)
    PROVE  /\ Shaped(claim') /\ Displaced /\ Moves /\ Requests
           /\ claim'.done => Landed(claim'.tx)
<1>t. /\ RowTyped(claim) /\ Shaped(claim) /\ SignedInv
      /\ c \in Calls /\ c.by \in Workers
      /\ c.op \in {"complete", "abandon"} => c.tx \in Txs
  BY NamedType DEF IndType, Typed, RowTyped, RawHasTx, Inv, Calls
<1>o. c.op \notin Writes
  BY <1>t DEF Calls, Ops, Writes
<1>v. valid' = valid /\ ServeRead(c)
  BY <1>o DEF ServeRead, ServeWrite, ServeLease, ServePrepare, ServeComplete,
       ServeAbandon, ServeFail, ServeTake, ServeStore, ServeConfirm, ServeWipe,
       ServeNote, ServeDrop, Writes, chainVars
<1>k. ASSUME claim'.tx = claim.tx,
             claim'.absence = "ripe" => claim.absence = "ripe",
             claim'.done => claim.done
      PROVE  Displaced /\ (claim'.done => Landed(claim'.tx))
  BY <1>k, <1>v DEF Displaced, Inv, SignedInv, PaidInv
<1>e. ASSUME claim' = claim
      PROVE  /\ Shaped(claim') /\ Displaced
             /\ claim'.done => Landed(claim'.tx)
  BY <1>e, <1>k, <1>t
<1>1. CASE ServeLease(c)
  <2>1. CASE ~Leasable(Freed)
    <3>1. claim' = Freed /\ Answer(c, "idle")
      BY <1>1, <2>1 DEF ServeLease
    <3> QED BY <1>k, <1>t, <1>v, <3>1, FreedShaped, AnswerMoves
  <2>2. CASE Leasable(Freed)
    <3>1. claim' = Leased(Freed, c.by) /\ AnswerLease(c, claim')
      BY <1>1, <2>2 DEF ServeLease
    <3>2. /\ Shaped(claim') /\ claim'.tx = claim.tx
          /\ claim'.absence = claim.absence /\ claim'.done = claim.done
          /\ claim'.status \in {"leased", "prepared"}
      BY <1>t, <2>2, <3>1, FreedShaped, FreedTyped, WritesShaped
    <3>3. Moves /\ Requests
      BY <1>t, <1>v, <3>1, <3>2, AnswerLeaseMoves
    <3> QED BY <1>k, <3>2, <3>3
  <2> QED BY <2>1, <2>2
<1>2. CASE ServePrepare(c)
  <2>o. c.op = "prepare" /\ c.tx \in Txs
    BY <1>2 DEF ServePrepare, IndType, CallInv, CallTx, Naming
  <2>t. c.open => c.tx = worker[c.by].tx
    BY <2>o DEF IndType, CallInv, Waiting
  <2>1. CASE Repeated(c) /\ Answer(c, "sending") /\ claim' = claim
    <3>1. claim'.tx = c.tx
      BY <2>1 DEF Repeated
    <3> QED BY <1>e, <1>t, <1>v, <2>1, <2>o, <2>t, <3>1, AnswerMoves
  <2>2. CASE /\ claim.status = "leased" /\ Answer(c, "sending")
             /\ claim' = Stored(claim, c.tx)
    <3>1. /\ Shaped(claim') /\ claim'.tx = c.tx /\ claim'.absence = "none"
          /\ claim'.done = claim.done
      BY <1>t, <2>2, <2>o, WritesShaped, WritesColumns
    <3>2. Moves /\ Requests
      BY <1>t, <1>v, <2>2, <2>o, <2>t, <3>1, AnswerMoves
    <3>3. claim.tx = NoTx /\ ~claim.done
      BY <1>t, <2>2 DEF Shaped
    <3>4. valid'[c.tx] # 0
      BY <1>v, <2>o, NamesAssumption DEF Inv, SignedInv
    <3> QED BY <3>1, <3>2, <3>3, <3>4 DEF Displaced
  <2>3. CASE Refuse(c)
    BY <1>e, <1>t, <1>v, <2>3, RefuseMoves DEF Refuse
  <2> QED BY <1>2, <2>1, <2>2, <2>3 DEF ServePrepare
<1>3. CASE ServeComplete(c)
  <2>1. CASE Answer(c, "idle") /\ claim' = claim
    BY <1>e, <1>t, <1>v, <2>1, AnswerMoves
  <2>2. CASE Refuse(c)
    BY <1>e, <1>t, <1>v, <2>2, RefuseMoves DEF Refuse
  <2>3. CASE /\ c.op = "complete" /\ Completable(c) /\ Answer(c, "idle")
             /\ claim' = Confirmed(claim)
    <3>1. claim.status = "prepared" /\ claim.tx = c.tx
      BY <2>3 DEF Completable
    <3>2. Shaped(claim') /\ claim'.tx = claim.tx /\ claim'.absence = "none"
      BY <1>t, <2>3, <3>1, WritesShaped, WritesColumns
    <3>3. Landed(c.tx)
      BY <2>3 DEF Inv, PaidInv
    <3>4. Moves /\ Requests
      BY <1>t, <1>v, <2>3, AnswerMoves
    <3> QED BY <1>v, <3>1, <3>2, <3>3, <3>4 DEF Displaced, Inv, SignedInv
  <2> QED BY <1>3, <2>1, <2>2, <2>3 DEF ServeComplete
<1>4. CASE ServeAbandon(c)
  <2>1. CASE Answer(c, "idle") /\ claim' = claim
    BY <1>e, <1>t, <1>v, <2>1, AnswerMoves
  <2>2. CASE Refuse(c)
    BY <1>e, <1>t, <1>v, <2>2, RefuseMoves DEF Refuse
  <2>3. CASE /\ c.op = "abandon" /\ ConfirmedAbsence /\ Answer(c, "idle")
             /\ claim.status = "prepared" /\ claim' = Abandoned(claim)
    <3>1. Dead(claim.tx)
      BY <2>3 DEF ConfirmedAbsence, Inv, RipeInv, LateInv
    <3>2. /\ Shaped(claim') /\ claim'.tx = NoTx /\ claim'.absence = "none"
          /\ claim'.done = claim.done /\ ~claim.done
      BY <1>t, <2>3, WritesShaped, WritesColumns DEF Shaped
    <3>3. Moves /\ Requests
      BY <1>t, <1>v, <2>3, AnswerMoves
    <3> QED BY <3>1, <3>2, <3>3 DEF Displaced
  <2>4. CASE /\ claim.status = "prepared" /\ claim' = Noted(claim)
             /\ Answer(c, "idle")
    <3>1. /\ Shaped(claim') /\ claim'.tx = claim.tx /\ claim'.done = claim.done
          /\ claim'.absence = "ripe" => claim.absence = "ripe"
      BY <1>t, <2>4, WritesShaped, WritesColumns
    <3> QED BY <1>k, <1>t, <1>v, <2>4, <3>1, AnswerMoves
  <2> QED BY <1>4, <2>1, <2>2, <2>3, <2>4 DEF ServeAbandon
<1>5. CASE ServeFail(c)
  <2>1. CASE Answer(c, "idle") /\ claim' = claim
    BY <1>e, <1>t, <1>v, <2>1, AnswerMoves
  <2>2. CASE Refuse(c)
    BY <1>e, <1>t, <1>v, <2>2, RefuseMoves DEF Refuse
  <2>3. CASE /\ claim.status # "confirmed" /\ claim' = Failed(claim)
             /\ Answer(c, "idle")
    <3>1. /\ Shaped(claim') /\ claim'.tx = claim.tx /\ claim'.done = claim.done
          /\ claim'.absence = "none"
      BY <1>t, <2>3, WritesShaped, WritesColumns
    <3> QED BY <1>k, <1>t, <1>v, <2>3, <3>1, AnswerMoves
  <2> QED BY <1>5, <2>1, <2>2, <2>3 DEF ServeFail
<1> QED BY <1>v, <1>1, <1>2, <1>3, <1>4, <1>5 DEF ServeRead

\* A step of a worker hands out, and reports, only what it knows.
LEMMA WorkerMoves ==
    ASSUME IndType, Inv, NEW w \in Workers, WorkerStep(w)
    PROVE  Moves /\ Requests /\ Onward /\ ChainInv'
<1>t. /\ WorkerType /\ worker[w].tx \in Txs \cup {NoTx} /\ SignedInv
      /\ worker[w].pc \in Pass => worker[w].tx \in Txs
      /\ valid \in [Txs -> Nat] /\ slot \in [Txs -> Nat]
      /\ view \in [Honest -> Nat] /\ height \in Nat \ {0} /\ sent \subseteq Txs
  BY HandType DEF IndType, CallInv, Typed, ChainType, Inv
<1>s. worker[w].tx # NoTx => valid[worker[w].tx] # 0
  BY DEF Inv, SignedInv
<1>p. ASSUME valid' = valid, UNCHANGED <<height, view, slot>>,
             sent' \subseteq sent \cup {t \in Txs : worker[w].pc = "sending"
                                                    /\ worker[w].tx = t}
      PROVE  Onward
  BY <1>p, <1>t DEF Onward, Dead, Landed
<1>u. ASSUME UNCHANGED <<height, view, valid, slot>>, sent \subseteq sent'
      PROVE  ChainInv'
  BY <1>u DEF Inv, ChainInv, Landed
<1>c. UNCHANGED chainVars => Onward /\ ChainInv' /\ valid' = valid
  BY <1>p, <1>u DEF chainVars
<1>1. CASE StartPass(w)
  <2>1. /\ worker' = At(w, "leasing") /\ "leasing" \in Pcs
        /\ calls' = calls \cup {Call("lease", w, worker[w].tx, worker[w].late)}
    BY <1>1 DEF StartPass, Ask, Pcs
  <2>2. "leasing" \notin Pass \cup {"preparing", "completing", "idle"}
    BY DEF Pass, Resume, Watch
  <2>3. /\ worker'[w].pc = "leasing" /\ worker'[w].tx = worker[w].tx
        /\ \A v \in Workers \ {w} : worker'[v] = worker[v]
    BY <1>t, <2>1, <2>2, AtType
  <2>4. valid' = valid /\ Onward /\ ChainInv'
    BY <1>1, <1>c DEF StartPass
  <2> QED BY <1>s, <2>1, <2>2, <2>3, <2>4 DEF Moves, Harmless, Requests, Call
<1>2. CASE Sign(w)
  <2>1. PICK t \in Txs :
          /\ valid[t] = 0 /\ valid' = [valid EXCEPT ![t] = height + Lifetime]
          /\ worker' = [worker EXCEPT ![w].pc = "preparing", ![w].tx = t]
          /\ calls' = calls \cup {Call("prepare", w, t, FALSE)}
    BY <1>2 DEF Sign
  <2>2. UNCHANGED <<height, view, sent, slot>>
    BY <1>2 DEF Sign
  <2>3. height + Lifetime \in Nat /\ height + Lifetime # 0
    BY <1>t, BoundsAssumption
  <2>4. valid'[t] # 0 /\ \A u \in Txs : valid[u] # 0 => valid'[u] = valid[u]
    BY <1>t, <2>1, <2>3
  <2>5. ~Landed(t)
    BY <1>t, <2>1 DEF Inv, ChainInv, Landed
  <2>6. Onward
    BY <1>t, <2>2, <2>4 DEF Onward, Dead, Landed
  <2>7. ChainInv'
    BY <1>t, <2>1, <2>2, <2>5 DEF Inv, ChainInv, Landed
  <2>8. /\ worker'[w].pc = "preparing" /\ worker'[w].tx = t
        /\ \A v \in Workers \ {w} : worker'[v] = worker[v]
    BY <1>t, <2>1 DEF WorkerType
  <2>9. Moves
    BY <2>4, <2>8 DEF Moves, Harmless, Pass, Resume, Watch
  <2> QED BY <2>1, <2>4, <2>6, <2>7, <2>9 DEF Requests, Call
<1>3. CASE SignFails(w)
  <2>1. Onward /\ ChainInv' /\ valid' = valid
    BY <1>3, <1>c DEF SignFails
  <2> QED BY <1>3, <1>t, <2>1, ThrownMoves DEF SignFails
<1>4. CASE Broadcast(w)
  <2>1. /\ worker[w].pc = "sending" /\ sent' = sent \cup {worker[w].tx}
        /\ UNCHANGED <<height, view, valid, slot, calls>>
        /\ worker' = At(w, "watching")
    BY <1>4 DEF Broadcast
  <2>2. worker[w].pc \in Pass
    BY <2>1 DEF Pass
  <2>3. Onward /\ ChainInv'
    BY <1>p, <1>u, <1>t, <2>1, <2>2
  <2>4. /\ worker'[w].pc = "watching" /\ worker'[w].tx = worker[w].tx
        /\ \A v \in Workers \ {w} : worker'[v] = worker[v]
    BY <1>t, <2>1, <2>2, AtType DEF Pcs, Watch
  <2>5. "watching" \in Pass \ Asking
    BY DEF Pass, Watch, Asking
  <2>6. Moves
    BY <2>2, <2>4, <2>5 DEF Moves, Looks
  <2> QED BY <2>1, <2>3, <2>6 DEF Requests
<1>5. CASE BroadcastFails(w)
  <2>1. /\ worker[w].pc = "sending" /\ sent' \in {sent, sent \cup {worker[w].tx}}
        /\ UNCHANGED <<height, view, valid, slot>> /\ Thrown(w, calls)
    BY <1>5 DEF BroadcastFails
  <2>2. worker[w].pc \in Pass
    BY <2>1 DEF Pass
  <2>3. Onward /\ ChainInv'
    BY <1>p, <1>u, <1>t, <2>1, <2>2
  <2> QED BY <1>t, <2>1, <2>3, ThrownMoves
<1>6. CASE TimesOut(w)
  <2>1. Onward /\ ChainInv' /\ valid' = valid
    BY <1>6, <1>c DEF TimesOut
  <2> QED BY <1>6, <1>t, <2>1, ThrownMoves DEF TimesOut
<1>i. ASSUME Inconclusive(w), worker[w].pc \in Pass
      PROVE  Moves /\ Requests
  <2>1. PICK pc \in {"sending", "watching"} :
          /\ worker' = [worker EXCEPT ![w].pc = pc, ![w].late = FALSE]
          /\ calls' = calls
    BY <1>i DEF Inconclusive
  <2>2. /\ worker'[w].pc = pc /\ worker'[w].tx = worker[w].tx
        /\ \A v \in Workers \ {w} : worker'[v] = worker[v]
    BY <1>i, <1>t, <2>1, LookType DEF Pcs, Watch
  <2>3. pc \in Pass \ Asking
    BY DEF Pass, Watch, Asking
  <2> QED BY <1>i, <2>1, <2>2, <2>3 DEF Moves, Looks, Requests
<1>h. PICK h \in Origins : h \in Honest
  BY OriginsAssumption DEF Honest
<1>7. CASE AskStatuses(w)
  <2>0. Onward /\ ChainInv' /\ valid' = valid
    BY <1>7, <1>c DEF AskStatuses
  <2>1. worker[w].pc \in Pass /\ worker[w].tx \in Txs
    BY <1>7, <1>t DEF AskStatuses, Pass, Resume, Watch
  <2>2. PICK res \in [Origins -> Statuses] :
          /\ \A o \in Origins : MayAnswer(o, worker[w].tx, res[o])
          /\ \/ /\ Verdict(res) = "confirmed"
                /\ Ask(w, "completing", calls, "complete")
             \/ /\ Verdict(res) = "inconclusive"
                /\ Inconclusive(w)
             \/ /\ Verdict(res) = "heights"
                /\ worker' = [worker EXCEPT
                      ![w].pc = IF @ \in Resume THEN "resume_heights"
                                                ELSE "watch_heights",
                      ![w].late = OutlivedByAll(worker[w].tx)]
                /\ calls' = calls
    BY <1>7 DEF AskStatuses
  <2>3. CASE /\ Verdict(res) = "confirmed"
             /\ Ask(w, "completing", calls, "complete")
    <3>1. res[h] = "finalized"
      BY <1>h, <2>3 DEF Verdict
    <3>2. Landed(worker[w].tx)
      BY <1>h, <2>2, <3>1 DEF MayAnswer, Landed
    <3>3. /\ worker' = At(w, "completing")
          /\ calls' = calls \cup
                        {Call("complete", w, worker[w].tx, worker[w].late)}
      BY <2>3 DEF Ask
    <3>4. /\ worker'[w].pc = "completing" /\ worker'[w].tx = worker[w].tx
          /\ \A v \in Workers \ {w} : worker'[v] = worker[v]
      BY <1>t, <2>1, <3>3, AtType DEF Pcs
    <3>5. Moves
      BY <1>s, <2>0, <3>4 DEF Moves, Harmless, Pass, Resume, Watch
    <3>6. Requests
      BY <1>s, <2>0, <3>2, <3>3 DEF Requests, Call
    <3> QED BY <2>0, <3>5, <3>6
  <2>4. CASE Inconclusive(w)
    BY <1>i, <2>0, <2>1, <2>4
  <2>5. CASE /\ Verdict(res) = "heights"
             /\ worker' = [worker EXCEPT
                   ![w].pc = IF @ \in Resume THEN "resume_heights"
                                             ELSE "watch_heights",
                   ![w].late = OutlivedByAll(worker[w].tx)]
             /\ calls' = calls
    <3>1. res[h] = "absent"
      BY <1>h, <2>5 DEF Verdict
    <3>2. ~(slot[worker[w].tx] # 0 /\ slot[worker[w].tx] <= view[h])
      BY <1>h, <2>2, <3>1 DEF MayAnswer
    <3>3. ASSUME OutlivedByAll(worker[w].tx)
          PROVE  Dead(worker[w].tx)
      <4>1. view[h] > valid[worker[w].tx] /\ height > view[h]
        BY <1>h, <3>3 DEF OutlivedByAll, Outlived, Inv, ChainInv
      <4>2. slot[worker[w].tx] # 0 => slot[worker[w].tx] <= valid[worker[w].tx]
        BY <2>1 DEF Inv, ChainInv, Landed
      <4>3. /\ valid[worker[w].tx] \in Nat /\ slot[worker[w].tx] \in Nat
            /\ view[h] \in Nat /\ height \in Nat
        BY <1>t, <1>h, <2>1
      <4>4. slot[worker[w].tx] = 0 /\ height > valid[worker[w].tx]
        BY <3>2, <4>1, <4>2, <4>3
      <4> QED BY <1>s, <2>1, <4>4, NamesAssumption DEF Dead
    <3>4. claim.absence = "ripe" => OutlivedByAll(worker[w].tx)
      BY <2>1 DEF Inv, RipeInv
    <3>5. OutlivedByAll(worker[w].tx) \in BOOLEAN
      BY DEF OutlivedByAll
    <3>6. PICK pc \in {"resume_heights", "watch_heights"} :
            worker' = [worker EXCEPT ![w].pc = pc,
                                     ![w].late = OutlivedByAll(worker[w].tx)]
      BY <2>5
    <3>7. /\ worker'[w].pc = pc /\ worker'[w].tx = worker[w].tx
          /\ worker'[w].late = OutlivedByAll(worker[w].tx)
          /\ \A v \in Workers \ {w} : worker'[v] = worker[v]
      BY <1>t, <2>1, <3>5, <3>6, LookType DEF Pcs, Resume, Watch
    <3>8. pc \in Pass
      BY DEF Pass, Resume, Watch
    <3>9. Moves
      BY <2>1, <3>3, <3>4, <3>7, <3>8 DEF Moves, Looks
    <3> QED BY <2>0, <2>5, <3>9 DEF Requests
  <2> QED BY <2>2, <2>3, <2>4, <2>5
<1>8. CASE AskHeights(w)
  <2>0. Onward /\ ChainInv' /\ valid' = valid
    BY <1>8, <1>c DEF AskHeights
  <2>1. /\ worker[w].pc \in Pass /\ worker[w].pc \in Asking
        /\ worker[w].tx \in Txs
    BY <1>8, <1>t DEF AskHeights, Pass, Resume, Watch, Asking
  <2>2. CASE Ask(w, "abandoning", calls, "abandon")
    <3>1. /\ worker[w].late => Dead(worker[w].tx)
          /\ claim.absence = "ripe" =>
               worker[w].late /\ worker[w].tx = claim.tx
      BY <2>1 DEF Inv, LateInv, RipeInv
    <3>2. /\ worker' = At(w, "abandoning")
          /\ calls' = calls \cup
                        {Call("abandon", w, worker[w].tx, worker[w].late)}
      BY <2>2 DEF Ask
    <3>3. worker' = [worker EXCEPT ![w] = [@ EXCEPT !.pc = "abandoning"]]
      BY <3>2 DEF At
    <3>4. /\ worker'[w].pc = "abandoning" /\ worker'[w].tx = worker[w].tx
          /\ worker'[w].late = worker[w].late
          /\ \A v \in Workers \ {w} : worker'[v] = worker[v]
      BY <1>t, <3>3 DEF WorkerType
    <3>5. Moves
      BY <2>1, <3>1, <3>4 DEF Moves, Looks, Pass
    <3>6. Requests
      BY <1>s, <2>0, <3>1, <3>2 DEF Requests, Call
    <3> QED BY <2>0, <3>5, <3>6
  <2>3. CASE Inconclusive(w)
    BY <1>i, <2>0, <2>1, <2>3
  <2> QED BY <1>8, <2>2, <2>3 DEF AskHeights
<1> QED
  BY <1>1, <1>2, <1>3, <1>4, <1>5, <1>6, <1>7, <1>8 DEF WorkerStep

\* Faults only stop workers and repeat requests.
LEMMA FaultMoves ==
    ASSUME IndType, Inv, Fault
    PROVE  Moves /\ Requests
<1>t. SignedInv /\ WorkerType
  BY DEF Inv, IndType, CallInv
<1>o. ASSUME NEW w \in Workers,
             NEW d \in (calls \ OpenCalls(w)) \cup Orphaned(OpenCalls(w))
      PROVE  d \in calls \/ \E c \in calls : d = [c EXCEPT !.open = FALSE]
  BY DEF Orphaned, OpenCalls
<1>v. valid' = valid
  BY DEF Fault, GiveUp, Crash, Duplicate, chainVars
<1>1. ASSUME NEW w \in Workers, GiveUp(w)
      PROVE  Moves /\ Requests
  BY <1>1, <1>t, <1>o, <1>v, ThrownMoves DEF GiveUp
<1>2. ASSUME NEW w \in Workers, Crash(w)
      PROVE  Moves /\ Requests
  <2>1. worker' = [worker EXCEPT ![w] = Idle]
    BY <1>2 DEF Crash, At
  <2>2. Moves
    BY <1>t, <2>1 DEF WorkerType, Idle, Moves, Harmless, Pass, Resume, Watch
  <2> QED BY <1>2, <1>o, <2>2 DEF Crash, Requests
<1>3. ASSUME NEW c \in calls, Duplicate(c)
      PROVE  Moves /\ Requests
  BY <1>3 DEF Duplicate, Orphaned, Moves, Requests
<1> QED BY <1>1, <1>2, <1>3 DEF Fault

\* The chain moves on: what landed stays, what is dead stays dead.
LEMMA ChainMoves ==
    ASSUME IndType, Inv, Chain
    PROVE  Onward /\ ChainInv'
<1>t. /\ valid \in [Txs -> Nat] /\ slot \in [Txs -> Nat] /\ sent \subseteq Txs
      /\ view \in [Honest -> Nat] /\ height \in Nat \ {0} /\ ChainInv
  BY DEF IndType, Typed, ChainType, Inv
<1>1. CASE Tick
  <2>1. height' = height + 1 /\ UNCHANGED <<view, valid, sent, slot>>
    BY <1>1 DEF Tick
  <2> QED BY <1>t, <2>1 DEF Onward, ChainInv, Dead, Landed
<1>2. ASSUME NEW t \in Txs, Land(t)
      PROVE  Onward /\ ChainInv'
  <2>1. /\ t \in sent /\ slot[t] = 0 /\ height <= valid[t]
        /\ slot' = [slot EXCEPT ![t] = height]
        /\ UNCHANGED <<height, view, valid, sent>>
    BY <1>2 DEF Land
  <2>2. ~Dead(t)
    BY <1>t, <2>1 DEF Dead
  <2>3. Onward
    BY <1>t, <2>1, <2>2 DEF Onward, Dead, Landed
  <2>4. ChainInv'
    BY <1>t, <2>1 DEF ChainInv, Landed
  <2> QED BY <2>3, <2>4
<1>3. ASSUME NEW o \in Honest, Finalize(o)
      PROVE  Onward /\ ChainInv'
  <2>1. /\ view[o] + 1 < height /\ view' = [view EXCEPT ![o] = @ + 1]
        /\ UNCHANGED <<height, valid, sent, slot>>
    BY <1>3 DEF Finalize
  <2>2. Onward
    BY <1>t, <2>1 DEF Onward, Dead, Landed
  <2>3. ChainInv'
    BY <1>t, <2>1 DEF ChainInv, Landed
  <2> QED BY <2>2, <2>3
<1> QED BY <1>1, <1>2, <1>3 DEF Chain

\* Nothing is signed, asked or sent at first.
LEMMA InvInit ==
    ASSUME Init
    PROVE  Inv
BY NamesAssumption
DEF Init, Inv, NewClaim, Idle, Shaped, ChainInv, SignedInv, RecordInv, LateInv,
    RipeInv, PaidInv, Landed, Pass, Resume, Watch, Asking

\* The invariant is kept by every step, if one API process owns the ledger.
LEMMA InvStep ==
    ASSUME IndType, IndType', Inv, AtomicApi, [Next]_vars
    PROVE  Inv'
<1>i. SignedInv /\ RecordInv /\ LateInv /\ RipeInv /\ PaidInv
  BY DEF Inv
<1>o. ASSUME UNCHANGED chainVars
      PROVE  Onward /\ ChainInv'
  <2>1. view \in [Honest -> Nat]
    BY DEF IndType, Typed, ChainType
  <2>2. Onward
    BY <1>o, <2>1 DEF chainVars, Onward, Dead, Landed
  <2>3. ChainInv'
    BY <1>o DEF Inv, ChainInv, Landed, chainVars
  <2> QED BY <2>2, <2>3
<1>s. ASSUME Shaped(claim'), ChainInv', Displaced, Moves, Requests, Onward,
             claim'.done => Landed(claim'.tx)
      PROVE  Inv'
  <2>1. /\ SignedInv' /\ RecordInv' /\ LateInv' /\ RipeInv'
        /\ \A c \in calls' : c.op = "complete" => Landed(c.tx)'
    BY <1>i, <1>s, StepKeeps
  <2>2. claim'.done => Landed(claim.tx)'
    <3>1. claim'.done => claim'.tx \in Txs
      BY <1>s DEF Shaped, IndType, Typed, Rows
    <3> QED BY <1>s, <3>1 DEF Onward, Landed
  <2>3. PaidInv'
    BY <2>1, <2>2 DEF PaidInv
  <2>4. Shaped(claim)'
    BY <1>s DEF Shaped
  <2> QED BY <1>s, <2>1, <2>3, <2>4 DEF Inv
<1>k. ASSUME claim'.tx = claim.tx, claim'.absence = claim.absence,
             claim'.done = claim.done, Onward
      PROVE  Displaced /\ (claim'.done => Landed(claim'.tx))
  <2>1. claim.tx \in Txs \cup {NoTx}
    BY DEF IndType, Typed, Rows
  <2> QED BY <1>k, <2>1 DEF Inv, Displaced, SignedInv, PaidInv, Onward
<1>1. CASE Serve
  <2>1. PICK c \in calls : ServeRead(c) \/ ServeWrite(c)
    BY <1>1 DEF Serve
  <2>2. UNCHANGED chainVars
    BY <2>1 DEF ServeRead, ServeWrite, ServeLease, ServePrepare, ServeComplete,
         ServeAbandon, ServeFail, ServeTake, ServeStore, ServeConfirm,
         ServeWipe, ServeNote, ServeDrop
  <2> QED BY <1>o, <1>s, <2>1, <2>2, ServeMoves
<1>2. CASE LeaseExpires
  <2>1. /\ claim' = [claim EXCEPT !.live = FALSE]
        /\ UNCHANGED <<calls, worker, chainVars>>
    BY <1>2 DEF LeaseExpires
  <2>2. /\ Shaped(claim') /\ claim'.tx = claim.tx /\ claim'.done = claim.done
        /\ claim'.absence = claim.absence
    BY <2>1 DEF Inv, Shaped, IndType, Typed, Rows
  <2>3. Moves /\ Requests /\ Onward /\ ChainInv'
    BY <1>o, <2>1 DEF Moves, Requests
  <2> QED BY <1>k, <1>s, <2>2, <2>3
<1>3. CASE AbsenceRipens
  <2>1. /\ claim' = [claim EXCEPT !.absence = "ripe"]
        /\ UNCHANGED <<calls, worker, height, view, valid, sent, slot>>
    BY <1>3 DEF AbsenceRipens, chainVars
  <2>2. claim.absence = "fresh"
    BY <1>3 DEF AbsenceRipens
  <2>3. /\ Shaped(claim') /\ claim'.tx = claim.tx /\ claim'.done = claim.done
    BY <2>1, <2>2 DEF Inv, Shaped, IndType, Typed, Rows
  <2>4. /\ ChainInv' /\ SignedInv' /\ RecordInv' /\ LateInv' /\ PaidInv'
    BY <2>1, <2>3
    DEF Inv, ChainInv, SignedInv, RecordInv, LateInv, PaidInv, Dead, Landed
  <2>5. RipeInv'
    <3>1. /\ claim.tx \in Txs
          /\ OutlivedByAll(claim.tx)
          /\ \A w \in Workers :
               /\ worker[w].pc \in Pass => worker[w].tx = claim.tx
               /\ worker[w].pc \in Asking => worker[w].late
          /\ \A c \in calls : c.op = "abandon" => c.tx = claim.tx /\ c.late
      BY <1>3 DEF AbsenceRipens, IndType, Typed, Rows
    <3> QED BY <2>1, <2>3, <3>1 DEF RipeInv, OutlivedByAll, Outlived
  <2>6. Shaped(claim)'
    BY <2>3 DEF Shaped
  <2> QED BY <2>4, <2>5, <2>6 DEF Inv
<1>4. ASSUME NEW w \in Workers, WorkerStep(w)
      PROVE  Inv'
  <2>1. claim' = claim
    BY <1>4 DEF WorkerStep, StartPass, Sign, SignFails, Broadcast,
         BroadcastFails, TimesOut, AskStatuses, AskHeights
  <2>2. Moves /\ Requests /\ Onward /\ ChainInv'
    BY <1>4, WorkerMoves
  <2>3. Shaped(claim')
    BY <2>1 DEF Inv
  <2> QED BY <1>k, <1>s, <2>1, <2>2, <2>3
<1>5. CASE Fault
  <2>1. claim' = claim /\ UNCHANGED chainVars
    BY <1>5 DEF Fault, GiveUp, Crash, Duplicate
  <2>2. Moves /\ Requests /\ Onward /\ ChainInv'
    BY <1>5, <1>o, <2>1, FaultMoves
  <2>3. Shaped(claim')
    BY <2>1 DEF Inv
  <2> QED BY <1>k, <1>s, <2>1, <2>2, <2>3
<1>6. CASE Chain
  <2>1. UNCHANGED <<claim, calls, worker>>
    BY <1>6 DEF Chain, Tick, Land, Finalize
  <2>2. Moves /\ Requests
    BY <2>1 DEF Moves, Requests
  <2>3. Onward /\ ChainInv'
    BY <1>6, ChainMoves
  <2>4. Shaped(claim')
    BY <2>1 DEF Inv
  <2> QED BY <1>k, <1>s, <2>1, <2>2, <2>3, <2>4
<1>7. CASE UNCHANGED vars
  <2>1. UNCHANGED <<claim, calls, worker, chainVars>>
    BY <1>7 DEF vars
  <2>2. Moves /\ Requests /\ Onward /\ ChainInv'
    BY <1>o, <2>1 DEF Moves, Requests
  <2>3. Shaped(claim')
    BY <2>1 DEF Inv
  <2> QED BY <1>k, <1>s, <2>1, <2>2, <2>3
<1> QED BY <1>1, <1>2, <1>3, <1>4, <1>5, <1>6, <1>7 DEF Next

\* The invariant holds in every reachable state.
LEMMA InvCorrect ==
    ASSUME AtomicApi
    PROVE  Spec => [](IndType /\ Inv)
<1>1. Init => IndType /\ Inv
  BY IndTypeInit, InvInit
<1>2. (IndType /\ Inv) /\ [Next]_vars => (IndType /\ Inv)'
  BY IndTypeStep, InvStep
<1> QED BY <1>1, <1>2, PTL DEF Spec

-----------------------------------------------------------------------------
(* What one API process promises.                                           *)

\* What is sent, or about to be, and not on record is dead.
LEMMA InvOnRecord ==
    ASSUME IndType, Inv
    PROVE  OnRecord
<1> SUFFICES ASSUME NEW t \in Txs, MayPay(t)
             PROVE  claim.tx = t
  BY DEF OnRecord
<1>t. valid \in [Txs -> Nat] /\ slot \in [Txs -> Nat] /\ height \in Nat
  BY DEF IndType, Typed, ChainType
<1>1. CASE Landed(t)
  BY <1>1 DEF Inv, ChainInv, RecordInv, Dead, Landed
<1>2. CASE height <= valid[t] /\ t \in sent
  BY <1>t, <1>2 DEF Inv, RecordInv, Dead
<1>3. ASSUME height <= valid[t], NEW w \in Workers, worker[w].pc = "sending",
             worker[w].tx = t
      PROVE  claim.tx = t
  <2>1. worker[w].pc \in Pass
    BY <1>3 DEF Pass
  <2> QED BY <1>t, <1>3, <2>1 DEF Inv, RecordInv, Dead
<1> QED BY <1>1, <1>2, <1>3 DEF MayPay

\* One row has one signature.
LEMMA OnRecordOnce ==
    ASSUME OnRecord
    PROVE  PaidOnce
<1>1. {t \in Txs : Landed(t)} \in SUBSET {claim.tx}
  BY DEF OnRecord, MayPay
<1>2. /\ IsFiniteSet({claim.tx}) /\ Cardinality({claim.tx}) = 1
  BY FS_Singleton
<1>3. /\ IsFiniteSet({t \in Txs : Landed(t)})
      /\ Cardinality({t \in Txs : Landed(t)}) <= Cardinality({claim.tx})
  BY <1>1, <1>2, FS_Subset
<1> QED BY <1>2, <1>3 DEF PaidOnce

(* The type invariant: every variable has its type, whether one API process *)
(* owns the ledger or several interleave the halves of its handlers; with   *)
(* one, the columns of payout_claims also agree with its status, so that    *)
(* lease_payout_claims finds every claim that is not confirmed.             *)
THEOREM TypeCorrect == Spec => []TypeOK
<1>1. CASE AtomicApi
  <2>1. IndType /\ Inv => TypeOK
    BY DEF IndType, Inv, TypeOK
  <2> QED BY <1>1, <2>1, InvCorrect, PTL
<1>2. CASE ~AtomicApi
  <2>1. Init => IndType
    BY IndTypeInit
  <2>2. IndType /\ [Next]_vars => IndType'
    BY IndTypeStep
  <2>3. IndType => TypeOK
    BY <1>2 DEF IndType, TypeOK
  <2> QED BY <2>1, <2>2, <2>3, PTL DEF Spec
<1> QED BY <1>1, <1>2

(* When one API process owns the ledger, only the transfer on record has    *)
(* moved money or still may: fail_payout_claim discards no evidence that    *)
(* can still land, and prepare_payout_claim replaces none.                  *)
THEOREM OnRecordCorrect ==
    ASSUME AtomicApi
    PROVE  Spec => []OnRecord
<1>1. IndType /\ Inv => OnRecord
  BY InvOnRecord
<1> QED BY <1>1, InvCorrect, PTL

(* ... so a claim is paid at most once, for any number of workers, leases   *)
(* that expire at any moment, late calls, crashes and lying origins.        *)
THEOREM PaidOnceCorrect ==
    ASSUME AtomicApi
    PROVE  Spec => []PaidOnce
<1>1. IndType /\ Inv => PaidOnce
  BY InvOnRecord, OnRecordOnce
<1> QED BY <1>1, InvCorrect, PTL

(* ... and complete_payout_claim confirms it only with the transfer that    *)
(* landed, as long as one of the origins a worker asks is honest.           *)
THEOREM ConfirmedIsPaidCorrect ==
    ASSUME AtomicApi
    PROVE  Spec => []ConfirmedIsPaid
<1>1. IndType /\ Inv => ConfirmedIsPaid
  BY DEF IndType, Typed, Rows, Inv, Shaped, PaidInv, ConfirmedIsPaid
<1> QED BY <1>1, InvCorrect, PTL

\* No step changes a confirmed row or forgets evidence.
LEMMA EvidenceStep ==
    ASSUME IndType, Inv, AtomicApi, [Next]_vars
    PROVE  [/\ claim.done => claim' = claim
            /\ claim.raw /\ ~claim'.raw =>
                 claim'.done \/ claim.absence = "ripe"]_vars
<1> DEFINE Kept == /\ claim.done => claim' = claim
                   /\ claim.raw /\ ~claim'.raw =>
                        claim'.done \/ claim.absence = "ripe"
<1> SUFFICES ASSUME Next
             PROVE  Kept
  OBVIOUS
<1>t. RowTyped(claim) /\ Shaped(claim)
  BY DEF IndType, Typed, RowTyped, RawHasTx, Inv
<1>d. ASSUME claim.done
      PROVE  /\ claim.status = "confirmed" /\ ~claim.live /\ ~claim.raw
             /\ claim.absence = "none"
  BY <1>d, <1>t DEF Shaped, RowTyped, Rows
<1>e. claim' = claim => Kept
  BY <1>t DEF RowTyped, Rows
<1>1. CASE Serve
  <2>1. PICK c \in calls : ServeRead(c) \/ ServeWrite(c)
    BY <1>1 DEF Serve
  <2>o. c.op \notin Writes
    BY NamedType DEF Calls, Ops, Writes
  <2>2. ServeRead(c)
    BY <2>1, <2>o DEF ServeWrite, ServeTake, ServeStore, ServeConfirm,
         ServeWipe, ServeNote, ServeDrop, Writes
  <2>3. CASE ServeLease(c)
    <3>1. claim' \in {Freed, Leased(Freed, c.by)}
      BY <2>3 DEF ServeLease
    <3>2. claim.done => ~Leasable(Freed) /\ Freed = claim
      BY <1>d DEF Freed, LeaseExpired, Leasable
    <3>3. claim.done => claim' = claim
      BY <2>3, <3>2 DEF ServeLease
    <3>4. Freed.raw = claim.raw /\ RowTyped(Freed)
      BY <1>t, FreedTyped DEF Freed, Unleased, RowTyped, Rows
    <3>5. Leased(Freed, c.by).raw = Freed.raw
      BY <3>4 DEF Leased, RowTyped, Rows
    <3> QED BY <3>1, <3>3, <3>4, <3>5
  <2>4. CASE ~ServeLease(c)
    <3>1. ~Owns(c.by) => claim' = claim
      BY <2>2, <2>4 DEF ServeRead, ServePrepare, ServeComplete, ServeAbandon,
           ServeFail, Repeated, Completable, Refuse
    <3>2. claim.done => ~Owns(c.by)
      BY <1>d DEF Owns
    <3>3. \/ claim' = claim \/ claim' = Stored(claim, c.tx)
          \/ claim' = Confirmed(claim) \/ claim' = Noted(claim)
          \/ claim' = Failed(claim)
          \/ ConfirmedAbsence /\ claim' = Abandoned(claim)
      BY <2>2, <2>4 DEF ServeRead, ServePrepare, ServeComplete, ServeAbandon,
           ServeFail, Refuse
    <3>4. /\ Stored(claim, c.tx).raw /\ Confirmed(claim).done
          /\ Noted(claim).raw = claim.raw /\ Failed(claim).raw = claim.raw
      BY <1>t DEF Stored, Confirmed, Noted, Failed, Unleased, RowTyped, Rows
    <3> QED BY <1>t, <3>1, <3>2, <3>3, <3>4
        DEF ConfirmedAbsence, RowTyped, Rows
  <2> QED BY <2>3, <2>4
<1>2. CASE LeaseExpires
  <2>1. claim.live /\ claim' = [claim EXCEPT !.live = FALSE]
    BY <1>2 DEF LeaseExpires
  <2> QED BY <1>t, <1>d, <2>1 DEF RowTyped, Rows
<1>3. CASE AbsenceRipens
  <2>1. claim.absence = "fresh" /\ claim' = [claim EXCEPT !.absence = "ripe"]
    BY <1>3 DEF AbsenceRipens
  <2> QED BY <1>t, <1>d, <2>1 DEF RowTyped, Rows
<1>4. ASSUME NEW w \in Workers, WorkerStep(w)
      PROVE  claim' = claim
  BY <1>4 DEF WorkerStep, StartPass, Sign, SignFails, Broadcast,
       BroadcastFails, TimesOut, AskStatuses, AskHeights
<1>5. CASE Fault \/ Chain
  BY <1>5, <1>e DEF Fault, GiveUp, Crash, Duplicate, Chain, Tick, Land, Finalize
<1> QED BY <1>e, <1>1, <1>2, <1>3, <1>4, <1>5 DEF Next

(* ... and a confirmed row never changes again, while signed evidence       *)
(* leaves a row only by a confirmation or an absence noted two minutes ago. *)
THEOREM EvidenceKeptCorrect ==
    ASSUME AtomicApi
    PROVE  Spec => EvidenceKept
<1>1. IndType /\ Inv /\ [Next]_vars =>
        [/\ claim.done => claim' = claim
         /\ claim.raw /\ ~claim'.raw =>
              claim'.done \/ claim.absence = "ripe"]_vars
  BY EvidenceStep
<1> QED BY <1>1, InvCorrect, PTL DEF Spec, EvidenceKept
-----------------------------------------------------------------------------
(* What holds of several API processes too: whoever asks to confirm a claim *)
(* has seen a transfer for it finalized, and a landing is for ever.         *)

\* The requests that confirm, and the second half of one.
Confirming == {"complete", "confirm"}

\* They name a transfer that landed, and so does a confirmed row's history.
PaymentInv ==
    /\ claim.done => \E t \in Txs : Landed(t)
    /\ \A c \in calls : c.op \in Confirming => c.tx \in Txs /\ Landed(c.tx)

\* No request to confirm is new, but for the second half of an older one.
NothingNew ==
    \A e \in calls' : e.op \in Confirming =>
        \E c \in calls : c.op \in Confirming /\ c.tx = e.tx

\* The catch block around a claim asks only to fail.
LEMMA ThrownAddsNothing ==
    ASSUME NEW w \in Workers, NEW pending, Thrown(w, pending),
           \A e \in pending : e.op \in Confirming =>
               \E c \in calls : c.op \in Confirming /\ c.tx = e.tx
    PROVE  NothingNew
BY DEF Thrown, Ask, Call, NothingNew, Confirming

\* Orphaned calls are the same calls.
LEMMA OrphansAddNothing ==
    ASSUME NEW cs \in SUBSET calls, calls \subseteq Calls,
           NEW e \in (calls \ cs) \cup Orphaned(cs)
    PROVE  \E c \in calls : c.op = e.op /\ c.tx = e.tx
BY DEF Orphaned, Calls

\* Where nothing is new, what was paid stays paid.
LEMMA PaymentStays ==
    ASSUME PaymentInv, NothingNew,
           \A t \in Txs : Landed(t) => Landed(t)',
           claim'.done => claim.done
    PROVE  PaymentInv'
BY DEF PaymentInv, NothingNew

\* The rows other handlers write are confirmed only if they were.
LEMMA WritesConfirmNothing ==
    ASSUME NEW row \in Rows, NEW w \in Workers, NEW t \in Txs \cup {NoTx}
    PROVE  \A new \in {Leased(row, w), Stored(row, t), Abandoned(row),
                       Noted(row), Failed(row), Unleased(row)} :
               new.done = row.done
BY DEF Rows, Leased, Stored, Abandoned, Noted, Failed, Unleased

\* The ledger confirms only what it was asked to confirm.
LEMMA ServePays ==
    ASSUME IndType, PaymentInv, NEW c \in calls, ServeRead(c) \/ ServeWrite(c)
    PROVE  PaymentInv'
<1>c. /\ c \in Calls /\ c.by \in Workers /\ c.tx \in Txs \cup {NoTx}
      /\ calls \subseteq Calls /\ claim \in Rows
  BY DEF IndType, Typed, Calls
<1>s. slot' = slot
  BY DEF ServeRead, ServeWrite, ServeLease, ServePrepare, ServeComplete,
     ServeAbandon, ServeFail, ServeTake, ServeStore, ServeConfirm, ServeWipe,
     ServeNote, ServeDrop, chainVars
<1>l. \A t \in Txs : Landed(t) => Landed(t)'
  BY <1>s DEF Landed
<1>a. ASSUME NEW pc, Answer(c, pc)
      PROVE  NothingNew
  BY <1>a DEF Answer, NothingNew
<1>r. ASSUME Refuse(c)
      PROVE  NothingNew /\ claim' = claim
  BY <1>c, <1>r, ThrownAddsNothing DEF Refuse, NothingNew
<1>w. ASSUME NEW write, Later(c, write),
             write \in Confirming => c.op \in Confirming
      PROVE  NothingNew /\ claim' = claim
  BY <1>c, <1>w DEF Later, NothingNew, Calls
<1>y. ASSUME NEW row, AnswerLease(c, row)
      PROVE  NothingNew
  BY <1>y DEF AnswerLease, Ask, Call, NothingNew, Confirming
<1>f. Freed \in Rows /\ Freed.done = claim.done
  BY <1>c DEF Freed, Unleased, Rows
<1>1. CASE ServeLease(c)
  <2>1. CASE ~Leasable(Freed)
    BY <1>1, <1>a, <1>f, <1>l, <2>1, PaymentStays DEF ServeLease
  <2>2. CASE Leasable(Freed) /\ (AtomicApi \/ LeaseExpired)
    <3>1. claim' = Leased(Freed, c.by) /\ AnswerLease(c, claim')
      BY <1>1, <2>2 DEF ServeLease
    <3>2. claim'.done = claim.done
      BY <1>c, <1>f, <3>1, WritesConfirmNothing
    <3> QED BY <1>y, <1>l, <3>1, <3>2, PaymentStays
  <2>3. CASE Leasable(Freed) /\ ~(AtomicApi \/ LeaseExpired)
    BY <1>1, <1>w, <1>l, <2>3, PaymentStays DEF ServeLease, Confirming
  <2> QED BY <2>1, <2>2, <2>3
<1>2. CASE ServeTake(c)
  <2>1. claim'.done = claim.done
    BY <1>2, <1>c, WritesConfirmNothing DEF ServeTake
  <2> QED BY <1>2, <1>y, <1>l, <2>1, PaymentStays DEF ServeTake
<1>3. CASE ServePrepare(c) \/ ServeStore(c)
  <2>1. NothingNew
    BY <1>3, <1>a, <1>r, <1>w DEF ServePrepare, ServeStore, Confirming
  <2>2. claim'.done = claim.done
    BY <1>3, <1>c, <1>r, <1>w, WritesConfirmNothing
    DEF ServePrepare, ServeStore, Confirming
  <2> QED BY <1>l, <2>1, <2>2, PaymentStays
<1>4. CASE ServeAbandon(c) \/ ServeWipe(c) \/ ServeNote(c)
  <2>1. NothingNew
    BY <1>4, <1>a, <1>r, <1>w DEF ServeAbandon, ServeWipe, ServeNote,
                                  Confirming
  <2>2. claim'.done = claim.done
    BY <1>4, <1>c, <1>r, <1>w, WritesConfirmNothing
    DEF ServeAbandon, ServeWipe, ServeNote, Confirming
  <2> QED BY <1>l, <2>1, <2>2, PaymentStays
<1>5. CASE ServeFail(c) \/ ServeDrop(c)
  <2>1. NothingNew
    BY <1>5, <1>a, <1>r, <1>w DEF ServeFail, ServeDrop, Confirming
  <2>2. claim'.done = claim.done
    BY <1>5, <1>c, <1>r, <1>w, WritesConfirmNothing
    DEF ServeFail, ServeDrop, Confirming
  <2> QED BY <1>l, <2>1, <2>2, PaymentStays
<1>6. CASE ServeComplete(c) \/ ServeConfirm(c)
  <2>1. c.op \in Confirming
    BY <1>6 DEF ServeComplete, ServeConfirm, Confirming
  <2>2. NothingNew
    BY <1>6, <1>a, <1>r, <1>w, <2>1 DEF ServeComplete, ServeConfirm
  <2>3. \E t \in Txs : Landed(t)'
    BY <1>l, <2>1 DEF PaymentInv
  <2> QED BY <1>l, <2>2, <2>3 DEF PaymentInv, NothingNew
<1> QED BY <1>1, <1>2, <1>3, <1>4, <1>5, <1>6 DEF ServeRead, ServeWrite

\* A worker asks to confirm only what an honest origin has finalized.
LEMMA WorkerPays ==
    ASSUME IndType, PaymentInv, NEW w \in Workers, WorkerStep(w)
    PROVE  PaymentInv'
<1>s. claim' = claim /\ slot' = slot
  BY DEF WorkerStep, StartPass, Sign, SignFails, Broadcast, BroadcastFails,
     TimesOut, AskStatuses, AskHeights, chainVars
<1>l. \A t \in Txs : Landed(t) => Landed(t)'
  BY <1>s DEF Landed
<1>1. ASSUME NothingNew
      PROVE  PaymentInv'
  BY <1>1, <1>s, <1>l, PaymentStays
<1>2. CASE \/ StartPass(w) \/ Sign(w) \/ Broadcast(w) \/ AskHeights(w)
  <2>1. NothingNew
    BY <1>2 DEF StartPass, Sign, Broadcast, AskHeights, Inconclusive, Ask,
                Call, NothingNew, Confirming
  <2> QED BY <1>1, <2>1
<1>3. CASE SignFails(w) \/ BroadcastFails(w) \/ TimesOut(w)
  <2>1. Thrown(w, calls)
    BY <1>3 DEF SignFails, BroadcastFails, TimesOut
  <2> QED BY <1>1, <2>1, ThrownAddsNothing
<1>4. CASE AskStatuses(w)
  <2>1. PICK res \in [Origins -> Statuses] :
          /\ \A o \in Origins : MayAnswer(o, worker[w].tx, res[o])
          /\ \/ /\ Verdict(res) = "confirmed"
                /\ Ask(w, "completing", calls, "complete")
             \/ calls' = calls
    BY <1>4 DEF AskStatuses, Inconclusive
  <2>2. CASE calls' = calls
    BY <1>1, <2>2 DEF NothingNew
  <2>3. CASE /\ Verdict(res) = "confirmed"
             /\ Ask(w, "completing", calls, "complete")
    <3>1. PICK o \in Origins : o \in Honest
      BY OriginsAssumption DEF Honest
    <3>2. res[o] = "finalized"
      BY <2>3, <3>1 DEF Verdict
    <3>3. worker[w].tx \in Txs
      BY <1>4 DEF AskStatuses, IndType, Typed, WorkerType, Pass, Resume,
                  Watch
    <3>4. Landed(worker[w].tx)
      BY <2>1, <3>1, <3>2 DEF MayAnswer, Landed
    <3> QED BY <1>s, <1>l, <2>3, <3>3, <3>4 DEF Ask, Call, PaymentInv
  <2> QED BY <2>1, <2>2, <2>3
<1> QED BY <1>2, <1>3, <1>4 DEF WorkerStep

\* Every step keeps what was paid.
LEMMA PaymentStep ==
    ASSUME IndType, PaymentInv, [Next]_vars
    PROVE  PaymentInv'
<1>c. calls \subseteq Calls /\ claim \in Rows
  BY DEF IndType, Typed
<1>1. CASE LeaseExpires \/ AbsenceRipens \/ UNCHANGED vars
  <2>1. /\ calls' = calls /\ slot' = slot
        /\ claim'.done = claim.done
    BY <1>c, <1>1 DEF LeaseExpires, AbsenceRipens, vars, chainVars, Rows
  <2> QED BY <2>1, PaymentStays DEF NothingNew, Landed
<1>2. CASE Fault
  <2>1. claim' = claim /\ slot' = slot
    BY <1>2 DEF Fault, GiveUp, Crash, Duplicate, chainVars
  <2>2. NothingNew
    <3>1. ASSUME NEW w \in Workers, GiveUp(w)
          PROVE  NothingNew
      <4>1. OpenCalls(w) \in SUBSET calls
        BY DEF OpenCalls
      <4> QED BY <1>c, <3>1, <4>1, OrphansAddNothing, ThrownAddsNothing
          DEF GiveUp
    <3>2. ASSUME NEW w \in Workers, Crash(w)
          PROVE  NothingNew
      <4>1. OpenCalls(w) \in SUBSET calls
        BY DEF OpenCalls
      <4> QED BY <1>c, <3>2, <4>1, OrphansAddNothing DEF Crash, NothingNew
    <3>3. ASSUME NEW c \in calls, Duplicate(c)
          PROVE  NothingNew
      BY <1>c, <3>3 DEF Duplicate, Orphaned, NothingNew, Calls
    <3> QED BY <1>2, <3>1, <3>2, <3>3 DEF Fault
  <2> QED BY <2>1, <2>2, PaymentStays DEF Landed
<1>3. CASE Chain
  <2>1. claim' = claim /\ calls' = calls
    BY <1>3 DEF Chain, Tick, Land, Finalize
  <2>2. \A t \in Txs : Landed(t) => Landed(t)'
    BY <1>3 DEF Chain, Tick, Land, Finalize, Landed, IndType, Typed,
                ChainType
  <2> QED BY <2>1, <2>2, PaymentStays DEF NothingNew
<1> QED BY <1>1, <1>2, <1>3, ServePays, WorkerPays DEF Next, Serve

(* Even when several API processes interleave the halves of their handlers, *)
(* a claim is confirmed only after a transfer for it landed, as long as one *)
(* of the origins a worker asks is honest.                                  *)
THEOREM ConfirmedAfterPaymentCorrect == Spec => []ConfirmedAfterPayment
<1>1. Init => IndType /\ PaymentInv
  BY IndTypeInit DEF Init, NewClaim, PaymentInv
<1>2. (IndType /\ PaymentInv) /\ [Next]_vars => (IndType /\ PaymentInv)'
  BY IndTypeStep, PaymentStep
<1>3. PaymentInv => ConfirmedAfterPayment
  BY DEF PaymentInv, ConfirmedAfterPayment
<1> QED BY <1>1, <1>2, <1>3, PTL DEF Spec

-----------------------------------------------------------------------------
(* The refinement of OneTransfer, with one API process: the invariant above *)
(* maps the initial state to its initial state, and every step to a step of *)
(* it or to a stutter.                                                      *)

\* Only the transfer on record is alive or has paid, and a confirmed row's has.
LEMMA OnOfferOnly ==
    ASSUME IndType, Inv
    PROVE  /\ Live \subseteq {claim.tx} \cap Txs
           /\ Paid \subseteq {claim.tx} \cap Txs
           /\ Landed(claim.tx) => Live = {}
           /\ claim.done => claim.tx \in Txs /\ Landed(claim.tx)
<1>1. OnRecord /\ sent \subseteq Txs
  BY InvOnRecord DEF IndType, Typed, ChainType
<1>2. /\ Live \subseteq {claim.tx} \cap Txs
      /\ Paid \subseteq {claim.tx} \cap Txs
  BY <1>1 DEF OnRecord, MayPay, Live, Paid
<1>3. Landed(claim.tx) => Live = {}
  BY <1>2 DEF Live
<1>4. claim.done => claim.tx \in Txs /\ Landed(claim.tx)
  BY DEF IndType, Typed, Rows, Inv, Shaped, PaidInv
<1> QED BY <1>2, <1>3, <1>4

\* A handler puts a transfer on record only where there is none.
LEMMA ServeReplacesNone ==
    ASSUME IndType, Inv, AtomicApi, NEW c \in calls,
           ServeRead(c) \/ ServeWrite(c)
    PROVE  claim.tx = NoTx \/ claim'.tx \in {claim.tx, NoTx}
<1>t. RowTyped(claim) /\ Shaped(claim)
  BY DEF IndType, Typed, RowTyped, RawHasTx, Inv
<1>o. c.op \notin Writes
  BY NamedType DEF Calls, Ops, Writes
<1>1. ServeRead(c)
  BY <1>o DEF ServeWrite, ServeTake, ServeStore, ServeConfirm, ServeWipe,
       ServeNote, ServeDrop, Writes
<1>2. CASE ServeLease(c)
  <2>1. claim' \in {Freed, Leased(Freed, c.by)}
    BY <1>2 DEF ServeLease
  <2>2. Freed.tx = claim.tx /\ RowTyped(Freed)
    BY <1>t, FreedTyped DEF Freed, Unleased, RowTyped, Rows
  <2>3. Leased(Freed, c.by).tx = Freed.tx
    BY <2>2 DEF Leased, RowTyped, Rows
  <2> QED BY <2>1, <2>2, <2>3
<1>3. CASE ~ServeLease(c)
  <2>1. \/ claim' = claim \/ claim' = Confirmed(claim)
        \/ claim' = Noted(claim) \/ claim' = Failed(claim)
        \/ claim' = Abandoned(claim)
        \/ claim.status = "leased" /\ claim' = Stored(claim, c.tx)
    BY <1>1, <1>3 DEF ServeRead, ServePrepare, ServeComplete, ServeAbandon,
         ServeFail, Refuse
  <2>2. /\ Confirmed(claim).tx = claim.tx /\ Noted(claim).tx = claim.tx
        /\ Failed(claim).tx = claim.tx /\ Abandoned(claim).tx = NoTx
    BY <1>t DEF Confirmed, Noted, Failed, Abandoned, Unleased, RowTyped, Rows
  <2>3. claim.status = "leased" => claim.tx = NoTx
    BY <1>t DEF Shaped
  <2> QED BY <2>1, <2>2, <2>3
<1> QED BY <1>2, <1>3

\* The chain at rest: the row changes as OneTransfer lets it.
LEMMA RowTransfers ==
    ASSUME IndType, IndType', Inv, Inv', UNCHANGED chainVars,
           claim.done => claim' = claim,
           claim'.tx = claim.tx \/ claim.tx = NoTx
             \/ (claim'.tx = NoTx /\ Dead(claim.tx))
    PROVE  [Transfer!Next]_(Transfer!vars)
<1>c. Live' = Live /\ Paid' = Paid
  BY DEF chainVars, Live, Paid, Landed
<1>t. /\ claim.tx \in Txs \cup {NoTx} /\ claim'.tx \in Txs \cup {NoTx}
      /\ claim.done \in BOOLEAN /\ claim'.done \in BOOLEAN
  BY DEF IndType, Typed, Rows
<1>o. /\ Live \subseteq {claim.tx} \cap Txs
      /\ Paid \subseteq {claim.tx} \cap Txs
  BY OnOfferOnly
<1>d. claim'.done => claim'.tx \in Txs /\ claim'.tx \in Paid
  <2>1. claim'.done => claim'.tx \in Txs /\ slot'[claim'.tx] # 0
    BY DEF IndType, Typed, Rows, Inv, Shaped, PaidInv, Landed
  <2> QED BY <2>1 DEF Landed, chainVars, Paid
<1>1. CASE claim'.tx = claim.tx /\ claim'.done = claim.done
  BY <1>c, <1>1 DEF Transfer!vars
<1>2. CASE claim'.tx = claim.tx /\ claim'.done # claim.done
  <2>1. claim'.done = TRUE
    BY <1>2, <1>t
  <2>2. Paid = {claim.tx}
    BY <1>2, <1>d, <1>o, <2>1
  <2>3. Transfer!Close
    BY <1>2, <1>c, <2>1, <2>2 DEF Transfer!Close
  <2> QED BY <2>3 DEF Transfer!Next
<1>3. CASE claim'.tx # claim.tx
  <2>1. ~claim.done
    BY <1>3
  <2>2. ~claim'.done
    BY <1>3, <1>d, <1>o
  <2>3. CASE claim.tx = NoTx
    <3>1. Live = {} /\ Paid = {}
      BY <1>o, <2>3, NamesAssumption
    <3>2. claim'.tx \in Txs
      BY <1>3, <1>t, <2>3
    <3>3. Transfer!Offer(claim'.tx)
      BY <1>c, <1>t, <2>1, <2>2, <2>3, <3>1 DEF Transfer!Offer, Transfer!Idle
    <3> QED BY <3>2, <3>3 DEF Transfer!Next
  <2>4. CASE claim'.tx = NoTx /\ Dead(claim.tx)
    <3>1. claim.tx \notin Live
      <4>1. claim.tx \in Txs => valid[claim.tx] \in Nat /\ height \in Nat
        BY DEF IndType, Typed, ChainType
      <4> QED BY <1>o, <2>4, <4>1 DEF Dead, Live
    <3>2. claim.tx \notin Paid
      BY <2>4 DEF Dead, Landed, Paid
    <3>3. Live = {} /\ Paid = {}
      BY <1>o, <3>1, <3>2
    <3>4. Transfer!Withdraw
      BY <1>c, <1>t, <2>1, <2>2, <2>4, <3>3
      DEF Transfer!Withdraw, Transfer!Idle
    <3> QED BY <3>4 DEF Transfer!Next
  <2> QED BY <1>3, <2>3, <2>4
<1> QED BY <1>1, <1>2, <1>3

\* A step of a worker: what it gives to the network alive is on record.
LEMMA WorkerTransfers ==
    ASSUME IndType, Inv, NEW w \in Workers, WorkerStep(w)
    PROVE  [Transfer!Next]_(Transfer!vars)
<1>c. claim' = claim /\ height' = height /\ slot' = slot /\ Paid' = Paid
  BY DEF WorkerStep, StartPass, Sign, SignFails, Broadcast,
     BroadcastFails, TimesOut, AskStatuses, AskHeights, chainVars, Paid, Landed
<1>t. /\ height \in Nat \ {0} /\ valid \in [Txs -> Nat] /\ sent \subseteq Txs
      /\ claim.tx \in Txs \cup {NoTx}
  BY DEF IndType, Typed, ChainType, Rows
<1>o. /\ Live \subseteq {claim.tx} \cap Txs
      /\ Paid \subseteq {claim.tx} \cap Txs
      /\ claim.done => Landed(claim.tx)
  BY OnOfferOnly
<1>s. Live' = Live => UNCHANGED Transfer!vars
  BY <1>c DEF Transfer!vars
<1>1. CASE Sign(w)
  <2>1. PICK u \in Txs : /\ valid[u] = 0 /\ sent' = sent
                         /\ valid' = [valid EXCEPT ![u] = height + Lifetime]
    BY <1>1 DEF Sign
  <2>2. u \notin sent
    BY <1>t, <2>1, NamesAssumption DEF Inv, RecordInv, SignedInv, Dead
  <2>3. \A t \in sent : valid'[t] = valid[t]
    BY <1>t, <2>1, <2>2
  <2>4. Live' = Live
    BY <1>c, <2>1, <2>3 DEF Live, Landed
  <2> QED BY <1>s, <2>4
<1>2. CASE Broadcast(w) \/ BroadcastFails(w)
  <2> DEFINE t == worker[w].tx
  <2>1. /\ worker[w].pc = "sending" /\ valid' = valid
        /\ sent' \in {sent, sent \cup {t}}
    BY <1>2 DEF Broadcast, BroadcastFails
  <2>2. t \in Txs /\ (claim.tx = t \/ Dead(t))
    BY <2>1 DEF Inv, RecordInv, Pass, IndType, Typed, WorkerType
  <2>3. Live' = Live \/ Live' = Live \cup {t}
    BY <1>c, <2>1 DEF Live, Landed
  <2>4. CASE Live' = Live
    BY <1>s, <2>4
  <2>5. CASE Live' # Live
    <3>1. t \in Live' /\ t \notin Live
      BY <2>3, <2>5
    <3>2. height <= valid[t] /\ ~Landed(t)
      BY <1>c, <2>1, <3>1 DEF Live, Landed
    <3>3. claim.tx = t
      BY <1>t, <2>2, <3>2 DEF Dead
    <3>4. Live = {} /\ Paid = {} /\ ~claim.done
      BY <1>o, <3>1, <3>2, <3>3 DEF Paid
    <3>5. Transfer!Release(t)
      BY <1>c, <2>3, <2>5, <3>3, <3>4 DEF Transfer!Release, Transfer!Idle
    <3> QED BY <2>2, <3>5 DEF Transfer!Next
  <2> QED BY <2>4, <2>5
<1>3. CASE ~Sign(w) /\ ~Broadcast(w) /\ ~BroadcastFails(w)
  <2>1. UNCHANGED chainVars
    BY <1>3 DEF WorkerStep, StartPass, SignFails, TimesOut, AskStatuses,
       AskHeights
  <2>2. Live' = Live
    BY <2>1 DEF chainVars, Live, Landed
  <2> QED BY <1>s, <2>2
<1> QED BY <1>1, <1>2, <1>3

\* A step of the chain: the transfer on record lands, or expires.
LEMMA ChainTransfers ==
    ASSUME IndType, Inv, Chain
    PROVE  [Transfer!Next]_(Transfer!vars)
<1>c. claim' = claim /\ valid' = valid /\ sent' = sent
  BY DEF Chain, Tick, Land, Finalize
<1>t. /\ height \in Nat \ {0} /\ valid \in [Txs -> Nat] /\ sent \subseteq Txs
      /\ slot \in [Txs -> Nat]
  BY DEF IndType, Typed, ChainType
<1>o. /\ Live \subseteq {claim.tx} \cap Txs
      /\ Paid \subseteq {claim.tx} \cap Txs
      /\ claim.done => Landed(claim.tx)
  BY OnOfferOnly
<1>1. CASE Tick
  <2>1. height' = height + 1 /\ slot' = slot
    BY <1>1 DEF Tick
  <2>2. Paid' = Paid
    BY <2>1 DEF Paid, Landed
  <2>3. Live' \subseteq Live
    BY <1>c, <1>t, <2>1 DEF Live, Landed
  <2>4. CASE Live' = Live
    BY <1>c, <2>2, <2>4 DEF Transfer!vars
  <2>5. CASE Live' # Live
    <3>1. Live' = {}
      BY <1>o, <2>3, <2>5
    <3>2. Transfer!Lapse
      BY <1>c, <2>2, <3>1 DEF Transfer!Lapse
    <3> QED BY <3>2 DEF Transfer!Next
  <2> QED BY <2>4, <2>5
<1>2. ASSUME NEW t \in Txs, Land(t)
      PROVE  Transfer!Next
  <2>1. /\ t \in sent /\ slot[t] = 0 /\ height <= valid[t] /\ height' = height
        /\ slot' = [slot EXCEPT ![t] = height]
    BY <1>2 DEF Land
  <2>2. t \in Live
    BY <2>1 DEF Live, Landed
  <2>3. claim.tx = t /\ Live = {t}
    BY <1>o, <2>2
  <2>4. Paid = {} /\ ~claim.done
    BY <1>o, <2>1, <2>3 DEF Paid, Landed
  <2>5. slot'[t] # 0 /\ \A u \in Txs : u # t => slot'[u] = slot[u]
    BY <1>t, <2>1
  <2>6. Paid' = {t}
    BY <2>4, <2>5 DEF Paid, Landed
  <2>7. Live' = {}
    BY <1>c, <1>t, <2>1, <2>3, <2>5 DEF Live, Landed
  <2>8. Transfer!Pay(t)
    BY <1>c, <2>3, <2>4, <2>6, <2>7 DEF Transfer!Pay
  <2> QED BY <2>8 DEF Transfer!Next
<1>3. ASSUME NEW o \in Honest, Finalize(o)
      PROVE  UNCHANGED Transfer!vars
  BY <1>c, <1>3 DEF Finalize, Live, Paid, Landed, Transfer!vars
<1> QED BY <1>1, <1>2, <1>3 DEF Chain

\* Every step of the system is a step of OneTransfer, or a stutter.
LEMMA TransferStep ==
    ASSUME IndType, IndType', Inv, Inv', AtomicApi, [Next]_vars
    PROVE  [Transfer!Next]_(Transfer!vars)
<1>e. claim.done => claim' = claim
  <2>1. CASE Next
    BY <2>1, EvidenceStep DEF vars
  <2>2. CASE UNCHANGED vars
    BY <2>2 DEF vars
  <2> QED BY <2>1, <2>2
<1>1. CASE Serve
  <2>1. PICK c \in calls : ServeRead(c) \/ ServeWrite(c)
    BY <1>1 DEF Serve
  <2>2. UNCHANGED chainVars
    BY <2>1 DEF ServeRead, ServeWrite, ServeLease, ServePrepare, ServeComplete,
         ServeAbandon, ServeFail, ServeTake, ServeStore, ServeConfirm,
         ServeWipe, ServeNote, ServeDrop
  <2>3. claim'.tx = claim.tx \/ claim.tx = NoTx \/ Dead(claim.tx)
    BY <2>1, ServeMoves DEF Displaced
  <2>4. claim.tx = NoTx \/ claim'.tx \in {claim.tx, NoTx}
    BY <2>1, ServeReplacesNone
  <2> QED BY <1>e, <2>2, <2>3, <2>4, RowTransfers
<1>2. CASE LeaseExpires \/ AbsenceRipens \/ Fault \/ UNCHANGED vars
  <2>1. UNCHANGED chainVars /\ claim'.tx = claim.tx
    BY <1>2 DEF LeaseExpires, AbsenceRipens, Fault, GiveUp, Crash, Duplicate,
                vars, IndType, Typed, Rows
  <2> QED BY <1>e, <2>1, RowTransfers
<1> QED BY <1>1, <1>2, WorkerTransfers, ChainTransfers DEF Next

(* Ledger, workers and chain together keep the promise of OneTransfer when  *)
(* one API process owns the ledger: what a worker gives to the network is   *)
(* on record before (prepare_payout_claim) and until it landed or never can *)
(* (fail_payout_claim), and the transfer that landed closes the claim once. *)
THEOREM ImplementsOneTransferCorrect ==
    ASSUME AtomicApi
    PROVE  Spec => ImplementsOneTransfer
<1>1. Init => Transfer!Init
  BY DEF Init, Transfer!Init, NewClaim, Live, Paid, Landed
<1>2. IndType /\ Inv /\ (IndType /\ Inv)' /\ [Next]_vars
        => [Transfer!Next]_(Transfer!vars)
  BY TransferStep
<1> QED BY <1>1, <1>2, InvCorrect, PTL
        DEF Spec, ImplementsOneTransfer, Transfer!Spec
===============================================================================
