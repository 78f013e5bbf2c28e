------------------------ MODULE X402Settlement_proofs -------------------------
(***************************************************************************)
(* Theorems about X402Settlement for any payloads, requests, gateway       *)
(* instances and crashes, with and without the queue.                      *)
(***************************************************************************)
EXTENDS X402Settlement, TLAPS

-----------------------------------------------------------------------------
(* Type correctness *)

Rows == [pc : Pcs, p : PayloadOrNone, g : Gateways \cup {None}]
Cycles == [pc : {"idle", "scanned"}, p : PayloadOrNone, final : BOOLEAN,
           abs : BOOLEAN]

LEMMA NoneIsNoPayload == None \notin Payloads /\ Payloads \subseteq PayloadOrNone
BY BoundsAssumption DEF None, Payloads, PayloadOrNone

LEMMA OverIsPc == Over \subseteq Pcs
BY DEF Pcs

\* A request that moves on keeps its payload and its instance.
LEMMA AtType ==
    ASSUME TypeOK, NEW r \in Requests, NEW c \in Pcs \ {"new"},
           ~Is(r, "new"), At(r, c)
    PROVE  /\ req' \in [Requests -> Rows]
           /\ \A s \in Requests :
                /\ req'[s].p = req[s].p /\ req'[s].g = req[s].g
                /\ req'[s].pc = IF s = r THEN c ELSE req[s].pc
                /\ req'[s].pc # "new"
                      => req'[s].p \in Payloads /\ req'[s].g \in Gateways
           /\ req[r].p \in Payloads /\ req[r].g \in Gateways
<1> DEFINE row == [pc |-> c, p |-> req[r].p, g |-> req[r].g]
<1>1. req \in [Requests -> Rows] /\ req[r] \in Rows
  BY DEF TypeOK, Rows
<1>2. req' = [req EXCEPT ![r] = row]
  <2>1. [req[r] EXCEPT !.pc = c] = row
    BY <1>1 DEF Rows
  <2>2. req' = [req EXCEPT ![r] = [req[r] EXCEPT !.pc = c]]
    BY DEF At
  <2> QED BY <2>1, <2>2
<1>3. row \in Rows
  BY <1>1 DEF Rows
<1>4. req' \in [Requests -> Rows]
  BY <1>1, <1>2, <1>3
<1>5. /\ req'[r] = row
      /\ \A s \in Requests : s # r => req'[s] = req[s]
  BY <1>1, <1>2
<1>6. req[r].p \in Payloads /\ req[r].g \in Gateways
  BY DEF TypeOK
<1>7. \A s \in Requests :
        req[s].pc # "new" => req[s].p \in Payloads /\ req[s].g \in Gateways
  BY DEF TypeOK, Is
<1>8. row.pc = c /\ row.p = req[r].p /\ row.g = req[r].g
  OBVIOUS
<1> HIDE DEF row
<1>9. ASSUME NEW s \in Requests
      PROVE  /\ req'[s].p = req[s].p /\ req'[s].g = req[s].g
             /\ req'[s].pc = IF s = r THEN c ELSE req[s].pc
             /\ req'[s].pc # "new"
                    => req'[s].p \in Payloads /\ req'[s].g \in Gateways
  <2>1. CASE s = r
    BY <1>5, <1>6, <1>8, <2>1
  <2>2. CASE s # r
    BY <1>5, <1>7, <2>2
  <2> QED BY <2>1, <2>2
<1> QED BY <1>4, <1>6, <1>9

\* What a settlement that is handed to the queue and to the ledger changes.
LEMMA PersistType ==
    ASSUME TypeOK, NEW g \in Gateways, NEW p \in Payloads,
           NEW queued \in BOOLEAN, NEW answer \in Answers,
           Persist(g, p, queued, answer)
    PROVE  /\ quote' \in {"quoted", "expired", "settled"}
           /\ fence' \in PayloadOrNone /\ absent' \in BOOLEAN
           /\ absent' => fence' # None
           /\ booked' \subseteq booked \cup {p}
           /\ queue' \subseteq queue \cup {p}
           /\ pending' \in [Gateways -> SUBSET Payloads]
           /\ \A h \in Gateways : pending'[h] \subseteq pending[h] \cup {p}
           /\ \/ UNCHANGED ledger
              \/ Recordable(p) /\ Record(p)
<1>1. UNCHANGED ledger \/ (Recordable(p) /\ Record(p))
  BY DEF Persist
<1>2. /\ quote' \in {"quoted", "expired", "settled"}
      /\ fence' \in PayloadOrNone /\ absent' \in BOOLEAN
      /\ absent' => fence' # None
      /\ booked' \subseteq booked \cup {p}
  BY <1>1 DEF ledger, Record, TypeOK, PayloadOrNone
<1>3. queue' \subseteq queue \cup {p}
  BY DEF Persist
<1>4. /\ pending' \in [Gateways -> SUBSET Payloads]
      /\ \A h \in Gateways : pending'[h] \subseteq pending[h] \cup {p}
  BY DEF Persist, TypeOK
<1> QED BY <1>1, <1>2, <1>3, <1>4

\* The tracker after an attempt is forgotten.
LEMMA ForgetType ==
    ASSUME TypeOK, NEW g \in Gateways, NEW p, Forget(g, p) \/ UNCHANGED tracked
    PROVE  tracked' \in [Gateways -> PayloadOrNone]
BY DEF Forget, TypeOK, PayloadOrNone

\* A row that is released leaves no observed absence behind.
LEMMA UnfenceType ==
    ASSUME TypeOK, NEW p, Unfence(p) \/ UNCHANGED <<fence, absent>>
    PROVE  /\ fence' \in PayloadOrNone /\ absent' \in BOOLEAN
           /\ absent' => fence' # None /\ fence' = fence /\ absent
           /\ fence' = fence \/ (fence = p /\ fence' = None)
<1>1. CASE UNCHANGED <<fence, absent>>
  BY <1>1 DEF TypeOK
<1>2. CASE Unfence(p) /\ fence = p
  <2>1. fence' = None /\ absent' = FALSE
    BY <1>2 DEF Unfence
  <2> QED BY <1>2, <2>1 DEF PayloadOrNone
<1>3. CASE Unfence(p) /\ fence # p
  <2>1. fence' = fence /\ (absent' <=> absent)
    BY <1>3 DEF Unfence
  <2>2. absent' \in BOOLEAN
    BY <1>3 DEF Unfence
  <2> QED BY <2>1, <2>2 DEF TypeOK
<1> QED BY <1>1, <1>2, <1>3

LEMMA RestingType == Resting \in Cycles
BY DEF Resting, Cycles, PayloadOrNone

\* A cycle that ends leaves the others alone.
LEMMA RecIdleType ==
    ASSUME TypeOK, NEW g \in Gateways, RecIdle(g)
    PROVE  /\ rec' \in [Gateways -> Cycles]
           /\ \A h \in Gateways : rec'[h].pc = "scanned" => rec'[h] = rec[h]
<1>1. rec \in [Gateways -> Cycles]
  BY DEF TypeOK, Cycles
<1>2. rec'[g] = Resting /\ \A h \in Gateways : h # g => rec'[h] = rec[h]
  BY <1>1 DEF RecIdle
<1>3. rec' \in [Gateways -> Cycles]
  BY <1>1, RestingType DEF RecIdle
<1> QED BY <1>2, <1>3 DEF Resting

\* The parts of TypeOK.
LedgerType ==
    /\ quote \in {"quoted", "expired", "settled"}
    /\ fence \in PayloadOrNone /\ absent \in BOOLEAN
    /\ absent => fence # None
    /\ booked \subseteq Payloads /\ queue \subseteq Payloads

MemoryType ==
    /\ held \subseteq Gateways /\ settledAt \subseteq Gateways
    /\ tracked \in [Gateways -> PayloadOrNone]
    /\ pending \in [Gateways -> SUBSET Payloads]

RequestType ==
    /\ req \in [Requests -> Rows]
    /\ \A r \in Requests :
        ~Is(r, "new") => req[r].p \in Payloads /\ req[r].g \in Gateways

CycleType ==
    /\ rec \in [Gateways -> Cycles]
    /\ \A g \in Gateways :
        rec[g].pc = "scanned" => rec[g].p \in Payloads /\ route = "ledger"

NetworkType ==
    /\ chain \in [Payloads ->
                    {"signed", "sent", "landed", "failed", "final"}]
    /\ dead \subseteq Payloads
    /\ crashes \in Nat

ChoiceType == route \in {"ledger", "topup"} /\ retry \in {"patient", "eager"}

LEMMA Parts ==
    /\ TypeOK <=> /\ ChoiceType /\ LedgerType /\ MemoryType /\ RequestType
                  /\ CycleType /\ NetworkType
    /\ TypeOK' <=> /\ ChoiceType' /\ LedgerType' /\ MemoryType'
                   /\ RequestType' /\ CycleType' /\ NetworkType'
BY DEF TypeOK, ChoiceType, LedgerType, MemoryType, RequestType, CycleType,
       NetworkType, Rows, Cycles

LEMMA InitType == Init => TypeOK
<1> SUFFICES ASSUME Init PROVE TypeOK
  OBVIOUS
<1>1. ChoiceType /\ LedgerType
  BY RoutesAssumption, RetriesAssumption
     DEF Init, ChoiceType, LedgerType, PayloadOrNone
<1>2. MemoryType
  BY DEF Init, MemoryType, PayloadOrNone
<1>3. NewRequest \in Rows /\ NewRequest.pc = "new"
  BY DEF NewRequest, Rows, Pcs, PayloadOrNone
<1>4. RequestType
  BY <1>3 DEF Init, RequestType, Is
<1>5. CycleType
  <2>1. rec \in [Gateways -> Cycles]
    BY RestingType DEF Init
  <2>2. \A g \in Gateways : rec[g].pc = "idle"
    BY DEF Init, Resting
  <2> QED BY <2>1, <2>2 DEF CycleType
<1>6. NetworkType
  BY DEF Init, NetworkType
<1> QED BY <1>1, <1>2, <1>4, <1>5, <1>6, Parts

\* A step of a request.
LEMMA RequestSteps ==
    ASSUME TypeOK, NEW r \in Requests, RequestStep(r)
    PROVE  TypeOK'
<1> USE Parts
<1>0. /\ \A c \in Pcs \ {"new"} :
            ~Is(r, "new") /\ At(r, c) => RequestType'
      /\ ~Is(r, "new") => req[r].p \in Payloads /\ req[r].g \in Gateways
  <2>1. ASSUME NEW c \in Pcs \ {"new"}, ~Is(r, "new"), At(r, c)
        PROVE  RequestType'
    BY <2>1, AtType DEF RequestType, Is
  <2> QED BY <2>1 DEF TypeOK
<1> USE DEF Pcs, Over
<1>1. CASE Claim(r)
  <2>1. RequestType'
    BY <1>1, <1>0 DEF Claim, Is
  <2>2. LedgerType'
    <3>1. req[r].p \in Payloads
      BY <1>1, <1>0 DEF Claim, Is
    <3>2. CASE Fence(req[r].p)
      BY <1>1, <3>1, <3>2, NoneIsNoPayload
         DEF Claim, Fence, LedgerType
    <3>3. CASE UNCHANGED <<fence, absent>>
      BY <1>1, <3>3 DEF Claim, LedgerType
    <3> QED BY <1>1, <3>2, <3>3 DEF Claim
  <2>3. /\ UNCHANGED <<choices, queue, memory, rec, network, crashes>>
    BY <1>1 DEF Claim
  <2> QED BY <2>1, <2>2, <2>3 DEF choices, memory, network, ChoiceType,
            MemoryType, CycleType, NetworkType
<1>2. CASE Remember(r)
  <2>1. RequestType'
    BY <1>2, <1>0 DEF Remember, Is
  <2>2. MemoryType'
    BY <1>2, <1>0 DEF Remember, Is, MemoryType, PayloadOrNone
  <2>3. UNCHANGED <<choices, ledger, queue, rec, network, crashes>>
    BY <1>2 DEF Remember
  <2> QED BY <2>1, <2>2, <2>3 DEF choices, ledger, network, ChoiceType,
            LedgerType, CycleType, NetworkType
<1>3. CASE Undo(r)
  <2>1. RequestType'
    BY <1>3, <1>0 DEF Undo, Is
  <2>2. LedgerType'
    BY <1>3, UnfenceType DEF Undo, LedgerType
  <2>3. UNCHANGED <<choices, memory, rec, network, crashes>>
    BY <1>3 DEF Undo
  <2> QED BY <2>1, <2>2, <2>3 DEF choices, memory, network, ChoiceType,
            MemoryType, CycleType, NetworkType
<1>4. CASE Handle(r) \/ Facilitator(r) \/ Poll(r)
  <2>1. RequestType'
    BY <1>4, <1>0 DEF Handle, Facilitator, Poll, Is
  <2>2. UNCHANGED <<choices, ledger, queue, memory, rec, network, crashes>>
    BY <1>4 DEF Handle, Facilitator, Poll
  <2> QED BY <2>1, <2>2 DEF choices, ledger, memory, network, ChoiceType,
            LedgerType, MemoryType, CycleType, NetworkType
<1>5. CASE Cancel(r)
  <2>1. RequestType'
    BY <1>5, <1>0 DEF Cancel, Is
  <2>2. LedgerType'
    BY <1>5, UnfenceType DEF Cancel, LedgerType
  <2>3. tracked' \in [Gateways -> PayloadOrNone]
    BY <1>5, <1>0, ForgetType DEF Cancel, Is
  <2>4. UNCHANGED <<choices, held, settledAt, pending, rec, network, crashes>>
    BY <1>5 DEF Cancel
  <2> QED BY <2>1, <2>2, <2>3, <2>4 DEF choices, network, ChoiceType,
            MemoryType, CycleType, NetworkType
<1>6. CASE Settle(r)
  <2>1. RequestType'
    BY <1>6, <1>0 DEF Settle, Is
  <2>2. NetworkType'
    BY <1>6 DEF Settle, NetworkType
  <2>3. UNCHANGED <<choices, ledger, queue, memory, rec>>
    BY <1>6 DEF Settle
  <2> QED BY <2>1, <2>2, <2>3 DEF choices, ledger, memory, ChoiceType,
            LedgerType, MemoryType, CycleType
<1>7. CASE AfterSettle(r)
  <2>1. RequestType'
    BY <1>7, <1>0 DEF AfterSettle, Is
  <2>2. MemoryType'
    BY <1>7, <1>0 DEF AfterSettle, Is, MemoryType
  <2>3. UNCHANGED <<choices, ledger, queue, rec, network, crashes>>
    BY <1>7 DEF AfterSettle
  <2> QED BY <2>1, <2>2, <2>3 DEF choices, ledger, network, ChoiceType,
            LedgerType, CycleType, NetworkType
<1>8. CASE Book(r)
  <2>1. RequestType'
    BY <1>8, <1>0 DEF Book, Is
  <2>2. req[r].p \in Payloads /\ req[r].g \in Gateways
    BY <1>8, <1>0 DEF Book, Is
  <2>3. PICK queued \in BOOLEAN, answer \in Answers :
            /\ Persist(req[r].g, req[r].p, queued, answer)
            /\ Forget(req[r].g, req[r].p) \/ UNCHANGED tracked
            /\ held' \subseteq held
    BY <1>8 DEF Book
  <2>4. LedgerType' /\ pending' \in [Gateways -> SUBSET Payloads]
    BY <2>2, <2>3, PersistType DEF LedgerType
  <2>5. tracked' \in [Gateways -> PayloadOrNone]
    BY <2>2, <2>3, ForgetType
  <2>6. UNCHANGED <<choices, settledAt, rec, network, crashes>>
    BY <1>8 DEF Book
  <2> QED BY <2>1, <2>3, <2>4, <2>5, <2>6 DEF choices, network, ChoiceType,
            MemoryType, CycleType, NetworkType
<1> QED
  BY <1>1, <1>2, <1>3, <1>4, <1>5, <1>6, <1>7, <1>8 DEF RequestStep

\* A step of an instance's background work, or its death.
LEMMA GatewaySteps ==
    ASSUME TypeOK, NEW g \in Gateways,
           RetryPending(g) \/ Scan(g) \/ Reconcile(g) \/ Crash(g)
    PROVE  TypeOK'
<1> USE Parts
<1>1. CASE RetryPending(g)
  <2>1. PICK p \in pending[g], queued \in BOOLEAN, answer \in Answers :
            /\ Persist(g, p, queued, answer)
            /\ Forget(g, p) \/ UNCHANGED tracked
    BY <1>1 DEF RetryPending
  <2>2. p \in Payloads
    BY DEF TypeOK
  <2>3. LedgerType' /\ pending' \in [Gateways -> SUBSET Payloads]
    BY <2>1, <2>2, PersistType DEF LedgerType
  <2>4. tracked' \in [Gateways -> PayloadOrNone]
    BY <2>1, ForgetType
  <2>5. UNCHANGED <<choices, held, settledAt, req, rec, network, crashes>>
    BY <1>1 DEF RetryPending
  <2> QED BY <2>3, <2>4, <2>5 DEF choices, network, ChoiceType,
            MemoryType, CycleType, NetworkType, RequestType, Is
<1>2. CASE Scan(g)
  <2> DEFINE c == [pc |-> "scanned", p |-> fence, final |-> Final(fence),
                   abs |-> absent]
  <2>1. c \in Cycles /\ c.p \in Payloads /\ route = "ledger"
    BY <1>2 DEF Scan, Cycles, Final, TypeOK, PayloadOrNone
  <2>2. rec' = [rec EXCEPT ![g] = c]
    BY <1>2 DEF Scan
  <2>3. UNCHANGED <<choices, ledger, queue, memory, req, network, crashes>>
    BY <1>2 DEF Scan
  <2> HIDE DEF c
  <2>4. CycleType'
    BY <2>1, <2>2, <2>3 DEF CycleType, choices
  <2> QED BY <2>3, <2>4 DEF choices, ledger, memory, network, ChoiceType,
            LedgerType, MemoryType, NetworkType, RequestType, Is
<1>3. CASE ReconcileSettled(g)
  <2>1. rec[g].p \in Payloads
    BY <1>3 DEF ReconcileSettled, TypeOK
  <2>2. PICK queued \in BOOLEAN, answer \in Answers :
            /\ Persist(g, rec[g].p, queued, answer)
            /\ Forget(g, rec[g].p) \/ UNCHANGED tracked
    BY <1>3 DEF ReconcileSettled
  <2>3. LedgerType' /\ pending' \in [Gateways -> SUBSET Payloads]
    BY <2>1, <2>2, PersistType DEF LedgerType
  <2>4. tracked' \in [Gateways -> PayloadOrNone]
    BY <2>2, ForgetType
  <2>5. UNCHANGED <<choices, held, settledAt, req, network, crashes>>
    BY <1>3 DEF ReconcileSettled
  <2>6. CycleType'
    BY <1>3, <2>5, RecIdleType DEF ReconcileSettled, CycleType, choices
  <2> QED BY <2>3, <2>4, <2>5, <2>6 DEF choices, network, ChoiceType,
            MemoryType, NetworkType, RequestType, Is
<1>4. CASE ReconcileAbsent(g)
  <2>1. rec[g].p \in Payloads
    BY <1>4 DEF ReconcileAbsent, TypeOK
  <2>2. UNCHANGED <<choices, quote, booked, queue, memory, req, network,
                    crashes>>
    BY <1>4 DEF ReconcileAbsent
  <2>3. LedgerType'
    <3>1. CASE Unfence(rec[g].p)
      BY <2>2, <3>1, UnfenceType DEF LedgerType
    <3>2. CASE /\ absent' = (absent \/ (Decision(g) = "observe"
                                          /\ fence = rec[g].p))
               /\ UNCHANGED fence
      BY <2>1, <2>2, <3>2, NoneIsNoPayload DEF LedgerType
    <3> QED BY <1>4, <3>1, <3>2 DEF ReconcileAbsent
  <2>4. CycleType'
    BY <1>4, <2>2, RecIdleType DEF ReconcileAbsent, CycleType, choices
  <2> QED BY <2>2, <2>3, <2>4 DEF choices, memory, network, ChoiceType,
            MemoryType, NetworkType, RequestType, Is
<1>5. CASE Crash(g)
  <2>1. UNCHANGED <<choices, ledger, queue, network>>
    BY <1>5 DEF Crash
  <2>2. MemoryType' /\ crashes' \in Nat
    BY <1>5 DEF Crash, MemoryType, NetworkType, PayloadOrNone
  <2>3. CycleType'
    <3>1. rec' \in [Gateways -> Cycles]
      BY <1>5, RestingType DEF Crash, CycleType
    <3>2. \A h \in Gateways : rec'[h].pc = "scanned" => rec'[h] = rec[h]
      BY <1>5 DEF Crash, Resting, CycleType
    <3> QED BY <2>1, <3>1, <3>2 DEF CycleType, choices
  <2>4. RequestType'
    <3>1. \A r \in Requests :
            \/ req'[r] = req[r]
            \/ /\ req'[r] = [pc |-> "lost", p |-> req[r].p, g |-> req[r].g]
               /\ req[r].g = g
      BY <1>5 DEF Crash, RequestType, Rows
    <3> QED
      <4>0. "lost" \in Pcs
        BY DEF Pcs, Over
      <4> QED BY <1>5, <3>1, <4>0 DEF Crash, RequestType, Rows, Is
  <2> QED BY <2>1, <2>2, <2>3, <2>4 DEF choices, ledger, network, ChoiceType,
            LedgerType, NetworkType
<1> QED BY <1>1, <1>2, <1>3, <1>4, <1>5 DEF Reconcile

\* A step of the queue, of the chain, of the clock or of a payer.
LEMMA OtherSteps ==
    ASSUME TypeOK,
           \/ \E r \in Requests : Verify(r)
           \/ \E p \in Payloads :
                Deliver(p) \/ Land(p) \/ Finalize(p) \/ Expire(p)
           \/ QuoteExpires
    PROVE  TypeOK'
<1> USE Parts
<1>1. ASSUME NEW r \in Requests, Verify(r)
      PROVE  TypeOK'
  <2>1. PICK g \in Gateways, p \in Payloads :
            req' = [req EXCEPT ![r] = [pc |-> "verified", p |-> p, g |-> g]]
    BY <1>1 DEF Verify
  <2>2. [pc |-> "verified", p |-> p, g |-> g] \in Rows
    BY NoneIsNoPayload DEF Rows, Pcs
  <2>3. RequestType'
    BY <2>1, <2>2 DEF RequestType, Is
  <2>4. UNCHANGED <<choices, ledger, queue, memory, rec, network, crashes>>
    BY <1>1 DEF Verify
  <2> QED BY <2>3, <2>4 DEF choices, ledger, memory, network, ChoiceType,
            LedgerType, MemoryType, CycleType, NetworkType
<1>2. ASSUME NEW p \in Payloads, Deliver(p)
      PROVE  TypeOK'
  <2>1. LedgerType'
    BY <1>2 DEF Deliver, Record, LedgerType, PayloadOrNone
  <2>2. UNCHANGED <<choices, memory, req, rec, network, crashes>>
    BY <1>2 DEF Deliver
  <2> QED BY <2>1, <2>2 DEF choices, memory, network, ChoiceType,
            MemoryType, CycleType, NetworkType, RequestType, Is
<1>3. ASSUME NEW p \in Payloads, Land(p) \/ Finalize(p) \/ Expire(p)
      PROVE  TypeOK'
  <2>1. NetworkType'
    BY <1>3 DEF Land, Finalize, Expire, Move, NetworkType
  <2>2. UNCHANGED <<choices, ledger, queue, memory, req, rec>>
    BY <1>3 DEF Land, Finalize, Expire, Move
  <2> QED BY <2>1, <2>2 DEF choices, ledger, memory, ChoiceType,
            LedgerType, MemoryType, CycleType, RequestType, Is
<1>4. CASE QuoteExpires
  <2>1. LedgerType'
    BY <1>4 DEF QuoteExpires, LedgerType
  <2>2. UNCHANGED <<choices, memory, req, rec, network, crashes>>
    BY <1>4 DEF QuoteExpires
  <2> QED BY <2>1, <2>2 DEF choices, memory, network, ChoiceType,
            MemoryType, CycleType, NetworkType, RequestType, Is
<1> QED BY <1>1, <1>2, <1>3, <1>4

LEMMA NextType == TypeOK /\ [Next]_vars => TypeOK'
<1> SUFFICES ASSUME TypeOK, [Next]_vars PROVE TypeOK'
  OBVIOUS
<1>1. CASE UNCHANGED vars
  BY <1>1 DEF TypeOK, vars, choices, ledger, memory, network, Is
<1>2. CASE Next
  BY <1>2, RequestSteps, GatewaySteps, OtherSteps DEF Next
<1> QED BY <1>1, <1>2

(* Every reachable state is well typed; in particular an absence is only on *)
(* record for an attempt that is fenced (chain_payment_attempts).           *)
THEOREM TypeCorrect == Spec => []TypeOK
<1>1. Init => TypeOK
  BY InitType
<1>2. TypeOK /\ [Next]_vars => TypeOK'
  BY NextType
<1> QED BY <1>1, <1>2, PTL DEF Spec

-----------------------------------------------------------------------------
(* What a step does to each part of the state *)

Sent == {"asked", "polling", "settled", "booking", "held", "answered", "lost"}
Paid == {"settled", "booking", "answered"}

\* Requests: one arrives, or each goes on and keeps its payload.
RequestMove ==
    \A r \in Requests :
        /\ req'[r].p = req[r].p
        /\ req[r].pc \in Sent => req'[r].pc \in Sent
        /\ req[r].pc \in {"new", "refused"} => req'[r].pc = req[r].pc
        /\ req'[r].pc \in Paid => req[r].pc \in Paid \/ Final(req[r].p)

LEMMA RequestMoves ==
    ASSUME TypeOK, [Next]_vars
    PROVE  (\E r \in Requests : Verify(r)) \/ RequestMove
<1>1. CASE UNCHANGED req
  BY <1>1 DEF RequestMove
<1>2. ASSUME NEW r \in Requests, RequestStep(r)
      PROVE  RequestMove
  <2> USE DEF RequestMove, Is, Sent, Paid, Pcs, Over
  <2>1. CASE Claim(r)
    BY <2>1, AtType DEF Claim
  <2>2. CASE Remember(r)
    BY <2>2, AtType DEF Remember
  <2>3. CASE Undo(r) \/ Handle(r) \/ Cancel(r)
    BY <2>3, AtType DEF Undo, Handle, Cancel
  <2>4. CASE Settle(r) \/ Facilitator(r)
    BY <2>4, AtType DEF Settle, Facilitator
  <2>5. CASE Poll(r)
    BY <2>5, AtType DEF Poll
  <2>6. CASE AfterSettle(r) \/ Book(r)
    BY <2>6, AtType DEF AfterSettle, Book
  <2> QED
    BY <1>2, <2>1, <2>2, <2>3, <2>4, <2>5, <2>6 DEF RequestStep
<1>3. ASSUME NEW g \in Gateways, Crash(g)
      PROVE  RequestMove
  <2>1. \A r \in Requests :
            \/ req'[r] = req[r]
            \/ /\ req'[r] = [pc |-> "lost", p |-> req[r].p, g |-> req[r].g]
               /\ ~(req[r].pc \in Over \cup {"new"})
    BY <1>3 DEF Crash, TypeOK
  <2>2. ASSUME NEW r \in Requests, req'[r] # req[r]
        PROVE  /\ req'[r].p = req[r].p /\ req'[r].pc = "lost"
               /\ req[r].pc # "new" /\ req[r].pc # "refused"
    <3>1. /\ req'[r] = [pc |-> "lost", p |-> req[r].p, g |-> req[r].g]
          /\ ~(req[r].pc \in Over \cup {"new"})
      BY <2>1, <2>2
    <3>2. req'[r].p = req[r].p /\ req'[r].pc = "lost"
      BY <3>1
    <3>3. req[r].pc # "new" /\ req[r].pc # "refused"
      BY <3>1 DEF Over
    <3> QED BY <3>2, <3>3
  <2>3. "lost" \in Sent /\ "lost" \notin Paid
    BY DEF Sent, Paid
  <2>4. ASSUME NEW r \in Requests
        PROVE  /\ req'[r].p = req[r].p
               /\ req[r].pc \in Sent => req'[r].pc \in Sent
               /\ req[r].pc \in {"new", "refused"} => req'[r].pc = req[r].pc
               /\ req'[r].pc \in Paid => req[r].pc \in Paid
    BY <2>2, <2>3
  <2> QED BY <2>4 DEF RequestMove
<1>4. ASSUME NEW g \in Gateways, RetryPending(g) \/ Scan(g) \/ Reconcile(g)
      PROVE  UNCHANGED req
  BY <1>4 DEF RetryPending, Scan, Reconcile, ReconcileSettled, ReconcileAbsent
<1>5. ASSUME NEW p \in Payloads,
             Deliver(p) \/ Land(p) \/ Finalize(p) \/ Expire(p)
      PROVE  UNCHANGED req
  BY <1>5 DEF Deliver, Land, Finalize, Expire, Move
<1>6. CASE QuoteExpires
  BY <1>1, <1>6 DEF QuoteExpires
<1>7. CASE UNCHANGED vars
  BY <1>1, <1>7 DEF vars
<1> QED BY <1>1, <1>2, <1>3, <1>4, <1>5, <1>6, <1>7 DEF Next

\* The ledger: one of its operations, on the attempt its caller names.
LEMMA LedgerMoves ==
    ASSUME TypeOK, [Next]_vars
    PROVE  /\ UNCHANGED choices
           /\ \/ UNCHANGED ledger
              \/ \E p \in Payloads : Recordable(p) /\ Record(p)
              \/ /\ UNCHANGED <<quote, booked>>
                 /\ \/ \E p \in Payloads : Claimable(p) /\ Fence(p)
                    \/ \E r \in Requests :
                        /\ req[r].pc \in {"undoing", "canceling"}
                        /\ Unfence(req[r].p)
                    \/ \E g \in Gateways : ReconcileAbsent(g)
              \/ QuoteExpires
<1> DEFINE Goal == \/ UNCHANGED ledger
                   \/ \E p \in Payloads : Recordable(p) /\ Record(p)
                   \/ /\ UNCHANGED <<quote, booked>>
                      /\ \/ \E p \in Payloads : Claimable(p) /\ Fence(p)
                         \/ \E r \in Requests :
                             /\ req[r].pc \in {"undoing", "canceling"}
                             /\ Unfence(req[r].p)
                         \/ \E g \in Gateways : ReconcileAbsent(g)
                   \/ QuoteExpires
           Result == UNCHANGED choices /\ Goal
<1>1. ASSUME NEW r \in Requests, Verify(r) \/ RequestStep(r)
      PROVE  Result
  <2>1. CASE Claim(r)
    <3>1. /\ UNCHANGED <<choices, quote, booked>>
          /\ \/ Claimable(req[r].p) /\ Fence(req[r].p)
             \/ UNCHANGED <<fence, absent>>
          /\ req[r].p \in Payloads
      BY <2>1 DEF Claim, Is, TypeOK
    <3> QED BY <3>1 DEF ledger
  <2>2. CASE Undo(r) \/ Cancel(r)
    <3>1. /\ UNCHANGED <<choices, quote, booked>>
          /\ req[r].pc \in {"undoing", "canceling"}
          /\ Unfence(req[r].p) \/ UNCHANGED <<fence, absent>>
      BY <2>2 DEF Undo, Cancel, Is
    <3> QED BY <3>1 DEF ledger
  <2>3. CASE Book(r)
    <3>1. req[r].p \in Payloads /\ UNCHANGED choices
      BY <2>3 DEF Book, Is, TypeOK
    <3>2. UNCHANGED ledger \/ (Recordable(req[r].p) /\ Record(req[r].p))
      BY <2>3 DEF Book, Persist
    <3> QED BY <3>1, <3>2
  <2>4. CASE \/ Verify(r) \/ Remember(r) \/ Handle(r) \/ Settle(r)
             \/ Facilitator(r) \/ Poll(r) \/ AfterSettle(r)
    <3>1. UNCHANGED <<choices, ledger>>
      BY <2>4 DEF Verify, Remember, Handle, Settle, Facilitator, Poll,
                  AfterSettle
    <3> QED BY <3>1
  <2> QED BY <1>1, <2>1, <2>2, <2>3, <2>4 DEF RequestStep
<1>2. ASSUME NEW g \in Gateways,
             RetryPending(g) \/ Scan(g) \/ Reconcile(g) \/ Crash(g)
      PROVE  Result
  <2>1. CASE RetryPending(g)
    <3>1. PICK p \in pending[g] :
              UNCHANGED ledger \/ (Recordable(p) /\ Record(p))
      BY <2>1 DEF RetryPending, Persist
    <3>2. p \in Payloads /\ UNCHANGED choices
      BY <2>1 DEF RetryPending, TypeOK
    <3> QED BY <3>1, <3>2
  <2>2. CASE ReconcileSettled(g)
    <3>1. UNCHANGED ledger \/ (Recordable(rec[g].p) /\ Record(rec[g].p))
      BY <2>2 DEF ReconcileSettled, Persist
    <3>2. rec[g].p \in Payloads /\ UNCHANGED choices
      BY <2>2 DEF ReconcileSettled, TypeOK
    <3> QED BY <3>1, <3>2
  <2>3. CASE ReconcileAbsent(g)
    <3>1. UNCHANGED <<choices, quote, booked>>
      BY <2>3 DEF ReconcileAbsent
    <3> QED BY <2>3, <3>1
  <2>4. CASE Scan(g) \/ Crash(g)
    <3>1. UNCHANGED <<choices, ledger>>
      BY <2>4 DEF Scan, Crash
    <3> QED BY <3>1
  <2> QED BY <1>2, <2>1, <2>2, <2>3, <2>4 DEF Reconcile
<1>3. ASSUME NEW p \in Payloads,
             Deliver(p) \/ Land(p) \/ Finalize(p) \/ Expire(p)
      PROVE  Result
  <2>1. UNCHANGED choices
        /\ (UNCHANGED ledger \/ (Recordable(p) /\ Record(p)))
    BY <1>3 DEF Deliver, Land, Finalize, Expire, Move
  <2> QED BY <2>1
<1>4. CASE QuoteExpires
  BY <1>4 DEF QuoteExpires
<1>5. CASE UNCHANGED vars
  BY <1>5 DEF vars
<1> QED BY <1>1, <1>2, <1>3, <1>4, <1>5 DEF Next

\* Reconciliation cycles: each has scanned what it had scanned, or the fenced
\* attempt just now.
LEMMA CycleMoves ==
    ASSUME TypeOK, [Next]_vars, NEW g \in Gateways, rec'[g].pc = "scanned"
    PROVE  \/ rec'[g] = rec[g]
           \/ /\ rec'[g] = [pc |-> "scanned", p |-> fence,
                            final |-> Final(fence), abs |-> absent]
              /\ fence \in Payloads
<1>1. CASE UNCHANGED rec
  BY <1>1
<1>2. ASSUME NEW h \in Gateways, Scan(h)
      PROVE  \/ rec'[g] = rec[g]
             \/ /\ rec'[g] = [pc |-> "scanned", p |-> fence,
                              final |-> Final(fence), abs |-> absent]
                /\ fence \in Payloads
  BY <1>2 DEF Scan, TypeOK, PayloadOrNone
<1>3. ASSUME NEW h \in Gateways, Reconcile(h)
      PROVE  rec'[g] = rec[g]
  BY <1>3, RecIdleType DEF Reconcile, ReconcileSettled, ReconcileAbsent
<1>4. ASSUME NEW h \in Gateways, Crash(h)
      PROVE  rec'[g] = rec[g]
  BY <1>4 DEF Crash, Resting, TypeOK
<1>5. ASSUME NEW r \in Requests, Verify(r) \/ RequestStep(r)
      PROVE  UNCHANGED rec
  BY <1>5 DEF Verify, RequestStep, Claim, Remember, Undo, Handle, Cancel,
              Settle, Facilitator, Poll, AfterSettle, Book
<1>6. ASSUME NEW p \in Payloads,
             Deliver(p) \/ Land(p) \/ Finalize(p) \/ Expire(p)
      PROVE  UNCHANGED rec
  BY <1>6 DEF Deliver, Land, Finalize, Expire, Move
<1>7. ASSUME NEW h \in Gateways, RetryPending(h)
      PROVE  UNCHANGED rec
  BY <1>7 DEF RetryPending
<1>8. CASE QuoteExpires
  BY <1>1, <1>8 DEF QuoteExpires
<1>9. CASE UNCHANGED vars
  BY <1>1, <1>9 DEF vars
<1> QED
  BY <1>1, <1>2, <1>3, <1>4, <1>5, <1>6, <1>7, <1>8, <1>9 DEF Next

\* Transfers: what is final stays final, an expired blockhash stays expired
\* and lands nothing, and only a fenced settlement sends anything.
LEMMA NetworkMoves ==
    ASSUME TypeOK, [Next]_vars, NEW p \in Payloads
    PROVE  /\ chain[p] = "final" => chain'[p] = "final"
           /\ p \in dead => /\ p \in dead'
                            /\ chain[p] # "landed" =>
                                /\ chain'[p] # "landed"
                                /\ chain'[p] = "final" => chain[p] = "final"
           /\ p \in dead' => p \in dead \/ chain'[p] # "landed"
           /\ \/ MayMove(p)' => MayMove(p)
              \/ \E r \in Requests : Settle(r) /\ Fenced(r) /\ req[r].p = p
           /\ chain[p] = "signed" =>
                \/ chain'[p] = "signed"
                \/ \E r \in Requests : Settle(r) /\ req'[r].pc = "asked"
                                        /\ req[r].p = p
<1> USE DEF MayMove, Moved
<1>0. p \in DOMAIN chain /\ chain \in [Payloads ->
            {"signed", "sent", "landed", "failed", "final"}]
  BY DEF TypeOK
<1>1. CASE UNCHANGED <<chain, dead>>
  BY <1>1
<1>2. ASSUME NEW r \in Requests, Settle(r)
      PROVE  \/ UNCHANGED <<chain, dead>>
             \/ /\ UNCHANGED dead /\ Fenced(r) /\ At(r, "asked")
                /\ chain' = [chain EXCEPT ![req[r].p] =
                                IF @ = "signed" THEN "sent" ELSE @]
  BY <1>2 DEF Settle
<1>3. ASSUME NEW r \in Requests, Settle(r), UNCHANGED dead, Fenced(r),
             At(r, "asked"),
             chain' = [chain EXCEPT ![req[r].p] =
                            IF @ = "signed" THEN "sent" ELSE @]
      PROVE  /\ req[r].p # p => chain'[p] = chain[p]
             /\ req[r].p = p =>
                  chain'[p] = IF chain[p] = "signed" THEN "sent" ELSE chain[p]
             /\ req'[r].pc = "asked"
  <2>1. req'[r].pc = "asked"
    BY <1>3, AtType DEF Settle, Is, Pcs
  <2> QED BY <1>0, <1>3, <2>1
<1>4. ASSUME NEW q \in Payloads, Land(q) \/ Finalize(q)
      PROVE  /\ UNCHANGED dead
             /\ q # p => chain'[p] = chain[p]
             /\ q = p => \/ /\ p \notin dead /\ chain[p] = "sent"
                            /\ chain'[p] \in {"landed", "failed"}
                         \/ (chain[p] = "landed" /\ chain'[p] = "final")
  BY <1>0, <1>4 DEF Land, Finalize, Move
<1>5. ASSUME NEW q \in Payloads, Expire(q)
      PROVE  /\ UNCHANGED chain /\ dead' = dead \cup {q}
             /\ chain[q] # "landed"
  BY <1>5 DEF Expire
<1>6. ASSUME NEW r \in Requests,
             \/ Verify(r) \/ Claim(r) \/ Remember(r) \/ Undo(r) \/ Handle(r)
             \/ Cancel(r) \/ Facilitator(r) \/ Poll(r) \/ AfterSettle(r)
             \/ Book(r)
      PROVE  UNCHANGED <<chain, dead>>
  BY <1>6 DEF Verify, Claim, Remember, Undo, Handle, Cancel, Facilitator, Poll,
              AfterSettle, Book, network
<1>7. ASSUME NEW g \in Gateways,
             RetryPending(g) \/ Scan(g) \/ Reconcile(g) \/ Crash(g)
      PROVE  UNCHANGED <<chain, dead>>
  BY <1>7 DEF RetryPending, Scan, Reconcile, ReconcileSettled,
              ReconcileAbsent, Crash, network
<1>8. ASSUME NEW q \in Payloads, Deliver(q)
      PROVE  UNCHANGED <<chain, dead>>
  BY <1>8 DEF Deliver, network
<1>9. CASE QuoteExpires \/ UNCHANGED vars
  BY <1>1, <1>9 DEF QuoteExpires, vars, network
<1>10. CASE \E r \in Requests : Settle(r)
  <2>1. PICK r \in Requests : Settle(r)
    BY <1>10
  <2>2. CASE UNCHANGED <<chain, dead>>
    BY <1>1, <2>2
  <2>3. CASE ~UNCHANGED <<chain, dead>>
    <3>1. /\ UNCHANGED dead /\ Fenced(r) /\ req'[r].pc = "asked"
          /\ req[r].p # p => chain'[p] = chain[p]
          /\ req[r].p = p =>
                chain'[p] = IF chain[p] = "signed" THEN "sent" ELSE chain[p]
      BY <1>2, <1>3, <2>1, <2>3
    <3>2. CASE req[r].p = p
      BY <2>1, <3>1, <3>2
    <3>3. CASE req[r].p # p
      BY <3>1, <3>3
    <3> QED BY <3>2, <3>3
  <2> QED BY <2>2, <2>3
<1>11. CASE \E q \in Payloads : Land(q) \/ Finalize(q)
  BY <1>4, <1>11
<1>12. CASE \E q \in Payloads : Expire(q)
  BY <1>5, <1>12
<1> QED
  BY <1>1, <1>6, <1>7, <1>8, <1>9, <1>10, <1>11, <1>12 DEF Next, RequestStep

-----------------------------------------------------------------------------
(* Evidence: what is released or recorded is final                          *)

\* Wherever a settlement is held, its transfer is final: the ledger, the
\* queue, an instance's memory, a request past the gate, a conclusive cycle.
Evidence ==
    /\ \A p \in booked \cup queue : Final(p)
    /\ \A g \in Gateways : \A p \in pending[g] : Final(p)
    /\ \A r \in Requests : req[r].pc \in Paid => Final(req[r].p)
    /\ \A g \in Gateways :
        rec[g].pc = "scanned" /\ rec[g].final => Final(rec[g].p)

\* A quote of the ledger is settled by one transfer, which ends its fence.
OneBooked ==
    route = "ledger" =>
        /\ \A p, q \in booked : p = q
        /\ booked # {} => quote = "settled" /\ fence = None

LEMMA FinalStays ==
    ASSUME TypeOK, [Next]_vars, NEW p \in Payloads, Final(p)
    PROVE  Final(p)'
BY NetworkMoves DEF Final

\* Copies of settlements come from settlements, or from the one in hand.
CopiesOf(E) ==
    /\ booked' \cup queue' \subseteq booked \cup queue \cup E
    /\ \A g \in Gateways : pending'[g] \subseteq pending[g] \cup E

LEMMA PersistCopies ==
    ASSUME TypeOK, NEW g \in Gateways, NEW p \in Payloads,
           NEW queued \in BOOLEAN, NEW answer \in Answers,
           Persist(g, p, queued, answer)
    PROVE  CopiesOf({p})
BY PersistType DEF CopiesOf

\* Every copy that a step makes is of a final transfer.
LEMMA Copies ==
    ASSUME TypeOK, [Next]_vars, Evidence
    PROVE  \E E \in SUBSET Payloads :
                (\A p \in E : Final(p)) /\ CopiesOf(E)
<1> DEFINE Goal == \E E \in SUBSET Payloads :
                        (\A p \in E : Final(p)) /\ CopiesOf(E)
<1>1. ASSUME NEW p \in Payloads, Final(p), CopiesOf({p})
      PROVE  Goal
  BY <1>1
<1>2. ASSUME booked' = booked, queue' = queue, pending' = pending
      PROVE  Goal
  <2>1. CopiesOf({})
    BY <1>2 DEF CopiesOf
  <2> QED BY <2>1
<1> HIDE DEF Goal
<1>3. ASSUME NEW r \in Requests, Verify(r) \/ RequestStep(r)
      PROVE  Goal
  <2>1. CASE Book(r)
    <3>1. /\ req[r].p \in Payloads /\ req[r].g \in Gateways
          /\ req[r].pc = "booking"
      BY <2>1 DEF Book, Is, TypeOK
    <3>2. Final(req[r].p)
      BY <3>1 DEF Evidence, Paid
    <3>3. CopiesOf({req[r].p})
      BY <2>1, <3>1, PersistCopies DEF Book
    <3> QED BY <1>1, <3>1, <3>2, <3>3
  <2>2. CASE AfterSettle(r)
    <3>1. /\ req[r].p \in Payloads /\ req[r].g \in Gateways
          /\ req[r].pc = "settled"
      BY <2>2 DEF AfterSettle, Is, TypeOK
    <3>2. Final(req[r].p)
      BY <3>1 DEF Evidence, Paid
    <3>3. CopiesOf({req[r].p})
      <4>1. booked' = booked /\ queue' = queue
        BY <2>2 DEF AfterSettle, ledger
      <4>2. \A g \in Gateways : pending'[g] \subseteq pending[g] \cup {req[r].p}
        BY <2>2 DEF AfterSettle, TypeOK
      <4> QED BY <4>1, <4>2 DEF CopiesOf
    <3> QED BY <1>1, <3>1, <3>2, <3>3
  <2>3. CASE \/ Verify(r) \/ Claim(r) \/ Remember(r) \/ Undo(r) \/ Handle(r)
             \/ Cancel(r) \/ Settle(r) \/ Facilitator(r) \/ Poll(r)
    <3>1. booked' = booked /\ queue' = queue /\ pending' = pending
      BY <2>3 DEF Verify, Claim, Remember, Undo, Handle, Cancel, Settle,
                  Facilitator, Poll, ledger, memory
    <3> QED BY <1>2, <3>1
  <2> QED BY <1>3, <2>1, <2>2, <2>3 DEF RequestStep
<1>4. ASSUME NEW g \in Gateways,
             RetryPending(g) \/ Scan(g) \/ Reconcile(g) \/ Crash(g)
      PROVE  Goal
  <2>1. CASE RetryPending(g)
    <3>1. PICK p \in pending[g], queued \in BOOLEAN, answer \in Answers :
              Persist(g, p, queued, answer)
      BY <2>1 DEF RetryPending
    <3>2. p \in Payloads
      BY DEF TypeOK
    <3>3. Final(p) /\ CopiesOf({p})
      BY <3>1, <3>2, PersistCopies DEF Evidence
    <3> QED BY <1>1, <3>2, <3>3
  <2>2. CASE ReconcileSettled(g)
    <3>1. PICK queued \in BOOLEAN, answer \in Answers :
              Persist(g, rec[g].p, queued, answer)
      BY <2>2 DEF ReconcileSettled
    <3>2. rec[g].p \in Payloads
      BY <2>2 DEF ReconcileSettled, TypeOK
    <3>3. Final(rec[g].p) /\ CopiesOf({rec[g].p})
      BY <2>2, <3>1, <3>2, PersistCopies DEF ReconcileSettled, Evidence
    <3> QED BY <1>1, <3>2, <3>3
  <2>3. CASE Scan(g) \/ ReconcileAbsent(g)
    <3>1. booked' = booked /\ queue' = queue /\ pending' = pending
      BY <2>3 DEF Scan, ReconcileAbsent, ledger, memory
    <3> QED BY <1>2, <3>1
  <2>4. CASE Crash(g)
    <3>1. CopiesOf({})
      BY <2>4 DEF Crash, CopiesOf, ledger, TypeOK
    <3> QED BY <3>1 DEF Goal
  <2> QED BY <1>4, <2>1, <2>2, <2>3, <2>4 DEF Reconcile
<1>5. ASSUME NEW p \in Payloads,
             Deliver(p) \/ Land(p) \/ Finalize(p) \/ Expire(p)
      PROVE  Goal
  <2>1. CASE Deliver(p)
    <3>1. Final(p)
      BY <2>1 DEF Deliver, Evidence
    <3>2. CopiesOf({p})
      BY <2>1 DEF Deliver, Record, CopiesOf, memory
    <3> QED BY <1>1, <3>1, <3>2
  <2>2. CASE Land(p) \/ Finalize(p) \/ Expire(p)
    <3>1. booked' = booked /\ queue' = queue /\ pending' = pending
      BY <2>2 DEF Land, Finalize, Expire, Move, ledger, memory
    <3> QED BY <1>2, <3>1
  <2> QED BY <1>5, <2>1, <2>2
<1>6. ASSUME QuoteExpires \/ UNCHANGED vars
      PROVE  Goal
  <2>1. booked' = booked /\ queue' = queue /\ pending' = pending
    BY <1>6 DEF QuoteExpires, vars, ledger, memory
  <2> QED BY <1>2, <2>1
<1>7. Goal
  BY <1>3, <1>4, <1>5, <1>6 DEF Next
<1> QED BY <1>7 DEF Goal

LEMMA EvidenceStep ==
    ASSUME TypeOK, TypeOK', [Next]_vars, Evidence
    PROVE  Evidence'
<1>1. PICK E \in SUBSET Payloads : (\A p \in E : Final(p)) /\ CopiesOf(E)
  BY Copies
<1>2. \A p \in booked' \cup queue' : p \in Payloads /\ Final(p)
  BY <1>1 DEF CopiesOf, Evidence, TypeOK
<1>3. \A g \in Gateways : \A p \in pending'[g] : p \in Payloads /\ Final(p)
  BY <1>1 DEF CopiesOf, Evidence, TypeOK
<1>4. \A r \in Requests :
        req'[r].pc \in Paid => req'[r].p \in Payloads /\ Final(req'[r].p)
  <2>1. CASE \E r \in Requests : Verify(r)
    <3>1. PICK r \in Requests, g \in Gateways, p \in Payloads :
              req' = [req EXCEPT ![r] = [pc |-> "verified", p |-> p, g |-> g]]
      BY <2>1 DEF Verify
    <3>2. \A s \in Requests : req'[s].pc \in Paid => req'[s] = req[s]
      BY <3>1 DEF Paid, TypeOK
    <3> QED BY <3>2 DEF Evidence, TypeOK, Is, Paid
  <2>2. CASE RequestMove
    BY <2>2 DEF RequestMove, Evidence, TypeOK, Is, Paid
  <2> QED BY <2>1, <2>2, RequestMoves
<1>5. \A g \in Gateways :
        rec'[g].pc = "scanned" /\ rec'[g].final
            => rec'[g].p \in Payloads /\ Final(rec'[g].p)
  <2>1. SUFFICES ASSUME NEW g \in Gateways,
                        rec'[g].pc = "scanned", rec'[g].final
                 PROVE  rec'[g].p \in Payloads /\ Final(rec'[g].p)
    OBVIOUS
  <2>2. CASE rec'[g] = rec[g]
    BY <2>1, <2>2 DEF Evidence, TypeOK
  <2>3. CASE /\ rec'[g] = [pc |-> "scanned", p |-> fence,
                           final |-> Final(fence), abs |-> absent]
             /\ fence \in Payloads
    <3>1. rec'[g].p = fence /\ rec'[g].final = Final(fence)
      BY <2>3
    <3> QED BY <2>1, <2>3, <3>1
  <2> QED BY <2>1, <2>2, <2>3, CycleMoves
<1>6. \A p \in Payloads : Final(p) => Final(p)'
  BY FinalStays
<1>7. \A p \in Payloads : Final(p)' <=> chain'[p] = "final"
  BY DEF Final
<1>8. /\ \A p \in booked' \cup queue' : chain'[p] = "final"
      /\ \A g \in Gateways : \A p \in pending'[g] : chain'[p] = "final"
      /\ \A r \in Requests :
            req'[r].pc \in Paid => chain'[req'[r].p] = "final"
      /\ \A g \in Gateways :
            rec'[g].pc = "scanned" /\ rec'[g].final
                => chain'[rec'[g].p] = "final"
  BY <1>2, <1>3, <1>4, <1>5, <1>6, <1>7
<1> QED BY <1>8 DEF Evidence, Final

LEMMA OneBookedStep ==
    ASSUME TypeOK, [Next]_vars, OneBooked
    PROVE  OneBooked'
<1> SUFFICES ASSUME route' = "ledger"
             PROVE  /\ \A p, q \in booked' : p = q
                    /\ booked' # {} => quote' = "settled" /\ fence' = None
  BY DEF OneBooked
<1>0. route = "ledger" /\ (\A p, q \in booked : p = q)
      /\ (booked # {} => quote = "settled" /\ fence = None)
  BY LedgerMoves DEF choices, OneBooked
<1>1. CASE UNCHANGED ledger
  BY <1>0, <1>1 DEF ledger
<1>2. ASSUME NEW p \in Payloads, Recordable(p), Record(p)
      PROVE  /\ \A q, s \in booked' : q = s
             /\ quote' = "settled" /\ fence' = None
  BY <1>0, <1>2 DEF Recordable, Record
<1>3. ASSUME NEW p \in Payloads, Claimable(p), Fence(p), booked' = booked
      PROVE  booked' = {}
  BY <1>0, <1>3, NoneIsNoPayload DEF Claimable
<1>4. ASSUME NEW p, Unfence(p), UNCHANGED <<quote, booked>>
      PROVE  /\ booked' = booked /\ quote' = quote
             /\ fence = None => fence' = None
  BY <1>4 DEF Unfence
<1>5. ASSUME NEW g \in Gateways, ReconcileAbsent(g)
      PROVE  /\ booked' = booked /\ quote' = quote
             /\ fence = None => fence' = None
  BY <1>5 DEF ReconcileAbsent, Unfence
<1>6. CASE QuoteExpires
  BY <1>0, <1>6 DEF QuoteExpires
<1> QED BY <1>0, <1>1, <1>2, <1>3, <1>4, <1>5, <1>6, LedgerMoves

\* Nothing is recorded at the start.
LEMMA InitEvidence == Init => Evidence /\ OneBooked
BY DEF Init, Evidence, OneBooked, NewRequest, Resting, Paid

(* A paid response leaves a gateway, and a settlement or a credit is        *)
(* recorded, only for a finalized transfer (settleWithIndependentFinality,  *)
(* record_chain_settlement), whatever clients and the facilitator do.       *)
THEOREM OnlyFinalAlways == Spec => []OnlyFinal
<1> DEFINE IInv == TypeOK /\ Evidence /\ OneBooked
<1>1. Init => IInv
  BY InitType, InitEvidence
<1>2. IInv /\ [Next]_vars => IInv'
  BY NextType, EvidenceStep, OneBookedStep
<1>3. IInv => OnlyFinal
  BY DEF Evidence, OneBooked, OnlyFinal, Final, Paid, Is
<1> QED BY <1>1, <1>2, <1>3, PTL DEF Spec

-----------------------------------------------------------------------------
(* The fence                                                                *)

\* A recorded absence is that of a dead transfer, and so is an absence that a
\* cycle has read: it can no longer land (exactAbsenceDecision).
Absence ==
    /\ \A p \in dead : chain[p] # "landed"
    /\ absent => fence \in dead
    /\ \A g \in Gateways :
        rec[g].pc = "scanned" /\ rec[g].abs /\ ~rec[g].final
            => rec[g].p \in dead /\ chain[rec[g].p] # "final"

\* No request of p has reached the facilitator.
Unsent(p) == \A r \in Requests : req[r].p = p => req[r].pc \notin Sent

\* A patient client has one request under way for each payload, and nothing
\* is broadcast before such a request asks for it.
PatientSends ==
    retry = "patient" =>
        /\ \A r, s \in Requests :
            r # s /\ req[r].p \in Payloads /\ req[r].p = req[s].p
                => req[r].pc = "refused" \/ req[s].pc = "refused"
        /\ \A p \in Payloads : Unsent(p) => chain[p] = "signed"

LEMMA AbsenceStep ==
    ASSUME TypeOK, TypeOK', [Next]_vars, Absence
    PROVE  Absence'
<1>1. \A p \in dead' : chain'[p] # "landed"
  BY NetworkMoves DEF Absence, TypeOK
<1>2. dead \subseteq dead' /\ dead \subseteq Payloads
  BY NetworkMoves DEF TypeOK
<1>3. absent' => fence' \in dead'
  <2>1. SUFFICES ASSUME absent' PROVE fence' \in dead
    BY <1>2
  <2>2. CASE UNCHANGED ledger
    BY <2>1, <2>2 DEF ledger, Absence
  <2>3. ASSUME NEW p \in Payloads, Record(p)
        PROVE  fence' \in dead
    BY <2>1, <2>3 DEF Record, Absence
  <2>4. ASSUME NEW p \in Payloads, Fence(p)
        PROVE  fence' \in dead
    BY <2>1, <2>4 DEF Fence, Absence
  <2>5. ASSUME NEW p, Unfence(p)
        PROVE  fence' \in dead
    BY <2>1, <2>5 DEF Unfence, Absence
  <2>6. ASSUME NEW g \in Gateways, ReconcileAbsent(g)
        PROVE  fence' \in dead
    <3>1. CASE Unfence(rec[g].p)
      BY <2>5, <3>1
    <3>2. CASE /\ absent' = (absent \/ (Decision(g) = "observe"
                                          /\ fence = rec[g].p))
               /\ UNCHANGED fence
      <4>1. Decision(g) = "observe" => rec[g].p \in dead
        BY DEF Decision
      <4> QED BY <2>1, <3>2, <4>1 DEF Absence
    <3> QED BY <2>6, <3>1, <3>2 DEF ReconcileAbsent
  <2>7. CASE QuoteExpires
    BY <2>1, <2>7 DEF QuoteExpires, Absence
  <2> QED BY <2>2, <2>3, <2>4, <2>5, <2>6, <2>7, LedgerMoves
<1>4. ASSUME NEW g \in Gateways,
             rec'[g].pc = "scanned", rec'[g].abs, ~rec'[g].final
      PROVE  rec'[g].p \in dead /\ chain[rec'[g].p] # "final"
  <2>1. CASE rec'[g] = rec[g]
    BY <1>4, <2>1 DEF Absence
  <2>2. CASE rec'[g] = [pc |-> "scanned", p |-> fence,
                        final |-> Final(fence), abs |-> absent]
    <3>1. rec'[g].p = fence /\ rec'[g].final = Final(fence)
          /\ rec'[g].abs = absent
      BY <2>2
    <3> QED BY <1>4, <3>1 DEF Final, Absence
  <2> QED BY <1>4, <2>1, <2>2, CycleMoves
<1>5. \A p \in dead : chain[p] # "final" => chain'[p] # "final"
  BY <1>2, NetworkMoves DEF Absence
<1>6. \A g \in Gateways :
        rec'[g].pc = "scanned" /\ rec'[g].abs /\ ~rec'[g].final
            => rec'[g].p \in dead' /\ chain'[rec'[g].p] # "final"
  BY <1>2, <1>4, <1>5
<1> QED BY <1>1, <1>3, <1>6 DEF Absence

LEMMA PatientSendsStep ==
    ASSUME TypeOK, [Next]_vars, PatientSends
    PROVE  PatientSends'
<1> SUFFICES ASSUME retry' = "patient"
             PROVE  /\ \A r, s \in Requests :
                        r # s /\ req'[r].p \in Payloads /\ req'[r].p = req'[s].p
                          => req'[r].pc = "refused" \/ req'[s].pc = "refused"
                    /\ \A p \in Payloads : Unsent(p)' => chain'[p] = "signed"
  BY DEF PatientSends
<1>0. /\ retry = "patient"
      /\ \A r, s \in Requests :
            r # s /\ req[r].p \in Payloads /\ req[r].p = req[s].p
                => req[r].pc = "refused" \/ req[s].pc = "refused"
      /\ \A p \in Payloads : Unsent(p) => chain[p] = "signed"
  BY LedgerMoves DEF choices, PatientSends
<1>1. ASSUME NEW r \in Requests, Verify(r)
      PROVE  /\ \A a, b \in Requests :
                    a # b /\ req'[a].p \in Payloads /\ req'[a].p = req'[b].p
                      => req'[a].pc = "refused" \/ req'[b].pc = "refused"
             /\ \A p \in Payloads : Unsent(p)' => chain'[p] = "signed"
  <2>1. PICK g \in Gateways, p \in Payloads :
            /\ MaySend(p)
            /\ req' = [req EXCEPT ![r] = [pc |-> "verified", p |-> p, g |-> g]]
    BY <1>1 DEF Verify
  <2>2. /\ req'[r].p = p
        /\ \A s \in Requests : s # r => req'[s] = req[s]
    BY <2>1 DEF TypeOK
  <2>3. \A s \in Requests : req[s].p = p => req[s].pc = "refused"
    BY <1>0, <2>1 DEF MaySend, Is
  <2>4. req[r].pc = "new" /\ chain' = chain
    BY <1>1 DEF Verify, Is, network
  <2>5. \A q \in Payloads : Unsent(q)' => Unsent(q)
    BY <2>2, <2>4 DEF Unsent, Sent
  <2>6. \A a, b \in Requests :
            a # b /\ req'[a].p \in Payloads /\ req'[a].p = req'[b].p
              => req'[a].pc = "refused" \/ req'[b].pc = "refused"
    <3>1. SUFFICES ASSUME NEW a \in Requests, NEW b \in Requests, a # b,
                          req'[a].p \in Payloads, req'[a].p = req'[b].p
                   PROVE  req'[a].pc = "refused" \/ req'[b].pc = "refused"
      OBVIOUS
    <3>2. CASE a = r
      BY <2>2, <2>3, <3>1, <3>2
    <3>3. CASE b = r
      BY <2>2, <2>3, <3>1, <3>3
    <3>4. CASE a # r /\ b # r
      BY <1>0, <2>2, <3>1, <3>4
    <3> QED BY <3>2, <3>3, <3>4
  <2> QED BY <1>0, <2>4, <2>5, <2>6
<1>2. CASE RequestMove
  <2>1. /\ \A r \in Requests : req'[r].p = req[r].p
        /\ \A r \in Requests : req[r].pc = "refused" => req'[r].pc = "refused"
        /\ \A r \in Requests : req[r].pc \in Sent => req'[r].pc \in Sent
    BY <1>2 DEF RequestMove
  <2>2. \A p \in Payloads : Unsent(p)' => Unsent(p)
    BY <2>1 DEF Unsent
  <2>3. ASSUME NEW p \in Payloads, Unsent(p)'
        PROVE  chain'[p] = "signed"
    <3>1. chain[p] = "signed"
      BY <1>0, <2>2, <2>3
    <3>2. ~ \E r \in Requests : req'[r].pc = "asked" /\ req[r].p = p
      BY <2>1, <2>3 DEF Unsent, Sent
    <3> QED BY <3>1, <3>2, NetworkMoves
  <2>4. \A r, s \in Requests :
            r # s /\ req'[r].p \in Payloads /\ req'[r].p = req'[s].p
              => req'[r].pc = "refused" \/ req'[s].pc = "refused"
    BY <1>0, <2>1
  <2> QED BY <2>3, <2>4
<1> QED BY <1>1, <1>2, RequestMoves

\* A release before settlement, and one after two absences, is of a transfer
\* that cannot move money.
LEMMA ReleasedIsIdle ==
    ASSUME TypeOK, PatientSends, retry = "patient", NEW r \in Requests,
           req[r].pc \in {"undoing", "canceling"}
    PROVE  ~MayMove(req[r].p)
<1>1. req[r].p \in Payloads
  BY DEF TypeOK, Is
<1>2. Unsent(req[r].p)
  BY <1>1 DEF PatientSends, Unsent, Sent
<1>3. chain[req[r].p] = "signed"
  BY <1>1, <1>2 DEF PatientSends
<1> QED BY <1>3 DEF MayMove, Moved

LEMMA AbsentIsIdle ==
    ASSUME TypeOK, Absence, NEW g \in Gateways, ReconcileAbsent(g),
           fence' # fence
    PROVE  /\ fence = rec[g].p
           /\ ~MayMove(rec[g].p)
<1>1. /\ rec[g].pc = "scanned" /\ ~rec[g].final
      /\ Decision(g) = "release" /\ Unfence(rec[g].p)
  BY DEF ReconcileAbsent
<1>2. rec[g].p \in dead /\ rec[g].abs
  BY <1>1 DEF Decision
<1>3. chain[rec[g].p] # "final" /\ chain[rec[g].p] # "landed"
  BY <1>1, <1>2 DEF Absence
<1> QED BY <1>1, <1>2, <1>3 DEF Unfence, MayMove, Moved

LEMMA FenceStep ==
    ASSUME TypeOK, [Next]_vars, OneBooked, Absence, PatientSends, FenceStands
    PROVE  FenceStands'
<1> SUFFICES ASSUME route' = "ledger", retry' = "patient",
                    NEW p \in Payloads, MayMove(p)'
             PROVE  p \in booked' \/ fence' = p
  BY DEF FenceStands, FenceKept
<1>0. route = "ledger" /\ retry = "patient" /\ p # None
  BY LedgerMoves, NoneIsNoPayload DEF choices
<1>1. CASE \E r \in Requests : Settle(r) /\ Fenced(r) /\ req[r].p = p
  BY <1>0, <1>1 DEF Settle, Fenced, ledger
<1>2. CASE MayMove(p)
  <2>1. p \in booked \/ fence = p
    BY <1>0, <1>2 DEF FenceStands, FenceKept
  <2>2. CASE UNCHANGED ledger
    BY <2>1, <2>2 DEF ledger
  <2>3. ASSUME NEW q \in Payloads, Recordable(q), Record(q)
        PROVE  p \in booked'
    BY <1>0, <2>1, <2>3 DEF Recordable, Record
  <2>4. ASSUME NEW q \in Payloads, Claimable(q), Fence(q), booked' = booked
        PROVE  p \in booked' \/ fence' = p
    BY <1>0, <2>1, <2>4 DEF Claimable, Fence
  <2>5. ASSUME NEW r \in Requests, req[r].pc \in {"undoing", "canceling"},
               Unfence(req[r].p), booked' = booked
        PROVE  p \in booked' \/ fence' = p
    <3>1. req[r].p # p
      BY <1>0, <1>2, <2>5, ReleasedIsIdle
    <3> QED BY <2>1, <2>5, <3>1 DEF Unfence
  <2>6. ASSUME NEW g \in Gateways, ReconcileAbsent(g), booked' = booked
        PROVE  p \in booked' \/ fence' = p
    BY <1>2, <2>1, <2>6, AbsentIsIdle
  <2>7. CASE QuoteExpires
    BY <2>1, <2>7 DEF QuoteExpires
  <2> QED BY <2>2, <2>3, <2>4, <2>5, <2>6, <2>7, LedgerMoves
<1> QED BY <1>1, <1>2, NetworkMoves

LEMMA InitFence == Init => Absence /\ PatientSends /\ FenceStands
<1> SUFFICES ASSUME Init PROVE Absence /\ PatientSends /\ FenceStands
  OBVIOUS
<1>1. \A r \in Requests : req[r].pc = "new" /\ req[r].p = None
  BY DEF Init, NewRequest
<1>2. \A g \in Gateways : rec[g].pc = "idle"
  BY DEF Init, Resting
<1>3. /\ \A p \in Payloads : chain[p] = "signed"
      /\ dead = {} /\ absent = FALSE
  BY DEF Init
<1> QED BY <1>1, <1>2, <1>3, NoneIsNoPayload
       DEF Absence, PatientSends, FenceStands, FenceKept, MayMove, Moved

\* Everything the fence rests on.
FenceInv == TypeOK /\ OneBooked /\ Absence /\ PatientSends /\ FenceStands

LEMMA FenceInvariant == Spec => []FenceInv
<1>1. Init => FenceInv
  BY InitType, InitEvidence, InitFence DEF FenceInv
<1>2. FenceInv /\ [Next]_vars => FenceInv'
  BY NextType, OneBookedStep, AbsenceStep, PatientSendsStep, FenceStep
     DEF FenceInv
<1> QED BY <1>1, <1>2, PTL DEF Spec

(* As long as clients do not send a payload again while it may be settling, *)
(* a transfer that has moved money, or still may, keeps its fence until it  *)
(* is recorded (claim_payment_attempt, onSettleFailure), for any number of  *)
(* payloads, requests, instances and crashes.                               *)
THEOREM FenceStandsAlways == Spec => []FenceStands
<1>1. FenceInv => FenceStands
  BY DEF FenceInv
<1> QED BY <1>1, FenceInvariant, PTL

(* Under the same condition at most one transfer ever moves money for a     *)
(* quote of the ledger (claim_payment_attempt, exactAbsenceDecision).       *)
THEOREM PaidAtMostOnceAlways == Spec => []PaidAtMostOnce
<1>1. FenceInv => PaidAtMostOnce
  <2> SUFFICES ASSUME FenceInv, route = "ledger", retry = "patient",
                      NEW p \in Payloads, NEW q \in Payloads,
                      Moved(p), Moved(q)
               PROVE  p = q
    BY DEF PaidAtMostOnce
  <2>1. (p \in booked \/ fence = p) /\ (q \in booked \/ fence = q)
    BY DEF FenceInv, FenceStands, FenceKept, MayMove
  <2> QED BY <2>1, NoneIsNoPayload DEF FenceInv, OneBooked
<1> QED BY <1>1, FenceInvariant, PTL

-----------------------------------------------------------------------------
(* The refinement of OneTransfer: where the fence stands, every step of the *)
(* system is a step of it or a stutter.                                     *)

TransferInv == FenceInv /\ Evidence

\* The fence and the evidence hold together.
LEMMA TransferInvariant == Spec => []TransferInv
<1>1. Init => TransferInv
  BY InitType, InitEvidence, InitFence DEF TransferInv, FenceInv
<1>2. TransferInv /\ [Next]_vars => TransferInv'
  BY NextType, OneBookedStep, AbsenceStep, PatientSendsStep, FenceStep,
     EvidenceStep DEF TransferInv, FenceInv
<1> QED BY <1>1, <1>2, PTL DEF Spec

\* While nothing is booked the fence is on offer, and then what is booked.
LEMMA OfferIs ==
    ASSUME TransferInv, Fencing
    PROVE  /\ OnOffer = fence \/ OnOffer \in booked
           /\ booked = {} => OnOffer = fence
           /\ fence # None => booked = {}
           /\ booked # {} => quote = "settled"
           /\ \A p \in booked : OnOffer = p
           /\ OnOffer \in Payloads \cup {None}
BY DEF TransferInv, FenceInv, Fencing, OneBooked, OnOffer, TypeOK, PayloadOrNone

\* Only the transfer on offer is alive or has moved money.
LEMMA OnlyOnOffer ==
    ASSUME TransferInv, Fencing
    PROVE  /\ Alive \subseteq {OnOffer} \cap Payloads
           /\ Spent \subseteq {OnOffer} \cap Payloads
           /\ Alive = {} \/ Spent = {}
           /\ booked \subseteq Spent
           /\ booked # {} => Alive = {}
<1>1. /\ \A p \in Payloads : MayMove(p) => p \in booked \/ fence = p
      /\ booked \subseteq Payloads
      /\ \A p \in booked : Moved(p)
  BY DEF TransferInv, FenceInv, FenceStands, FenceKept, Fencing, TypeOK,
         Evidence, Final, Moved
<1>2. \A p \in Payloads : MayMove(p) => OnOffer = p
  BY <1>1, OfferIs, NoneIsNoPayload
<1>3. /\ Alive \subseteq {OnOffer} \cap Payloads
      /\ Spent \subseteq {OnOffer} \cap Payloads
  BY <1>2 DEF Alive, Spent, MayMove
<1>4. booked \subseteq Spent
  BY <1>1 DEF Spent
<1>5. Alive = {} \/ Spent = {}
  BY <1>3 DEF Alive, Spent
<1> QED BY <1>3, <1>4, <1>5

\* A step changes the ledger or the network, never both.
LEMMA OnePart ==
    ASSUME [Next]_vars
    PROVE  \/ UNCHANGED network
           \/ /\ UNCHANGED ledger
              /\ \/ \E r \in Requests : Settle(r)
                 \/ \E p \in Payloads : Land(p) \/ Finalize(p) \/ Expire(p)
<1>1. ASSUME NEW r \in Requests, Verify(r) \/ RequestStep(r), ~Settle(r)
      PROVE  UNCHANGED network
  BY <1>1 DEF Verify, RequestStep, Claim, Remember, Undo, Handle, Cancel,
              Facilitator, Poll, AfterSettle, Book
<1>2. ASSUME NEW g \in Gateways,
             RetryPending(g) \/ Scan(g) \/ Reconcile(g) \/ Crash(g)
      PROVE  UNCHANGED network
  BY <1>2 DEF RetryPending, Scan, Reconcile, ReconcileSettled,
              ReconcileAbsent, Crash
<1>3. ASSUME NEW r \in Requests, Settle(r)
      PROVE  UNCHANGED ledger
  BY <1>3 DEF Settle
<1>4. ASSUME NEW p \in Payloads, Land(p) \/ Finalize(p) \/ Expire(p)
      PROVE  UNCHANGED ledger
  BY <1>4 DEF Land, Finalize, Expire, Move
<1>5. ASSUME NEW p \in Payloads, Deliver(p)
      PROVE  UNCHANGED network
  BY <1>5 DEF Deliver
<1>6. CASE QuoteExpires \/ UNCHANGED vars
  BY <1>6 DEF QuoteExpires, vars
<1> QED BY <1>1, <1>2, <1>3, <1>4, <1>5, <1>6 DEF Next

\* A step of the network is one of OneTransfer.
LEMMA NetworkTransfers ==
    ASSUME TransferInv, Fencing, Fencing', UNCHANGED ledger,
           \/ \E r \in Requests : Settle(r)
           \/ \E p \in Payloads : Land(p) \/ Finalize(p) \/ Expire(p)
    PROVE  [Transfer!Next]_(Transfer!vars)
<1>c. OnOffer' = OnOffer /\ booked' = booked
  BY DEF ledger, OnOffer
<1>o. /\ Alive \subseteq {OnOffer} \cap Payloads
      /\ Spent \subseteq {OnOffer} \cap Payloads
      /\ Alive = {} \/ Spent = {}
      /\ booked # {} => Alive = {} /\ booked \subseteq Spent
  BY OnlyOnOffer
<1>t. /\ chain \in [Payloads -> {"signed", "sent", "landed", "failed", "final"}]
      /\ \A r \in Requests : ~Is(r, "new") => req[r].p \in Payloads
  BY DEF TransferInv, FenceInv, TypeOK
<1>s. Alive' = Alive /\ Spent' = Spent => UNCHANGED Transfer!vars
  BY <1>c DEF Transfer!vars
<1>1. ASSUME NEW r \in Requests, Settle(r)
      PROVE  [Transfer!Next]_(Transfer!vars)
  <2> DEFINE p == req[r].p
  <2>1. p \in Payloads /\ dead' = dead
    BY <1>t, <1>1 DEF Settle, Is
  <2>2. CASE UNCHANGED chain
    <3>1. Alive' = Alive /\ Spent' = Spent
      BY <2>1, <2>2 DEF Alive, Spent, MayMove, Moved, Fencing
    <3> QED BY <1>s, <3>1
  <2>3. CASE chain' # chain
    <3>1. /\ fence = p
          /\ chain' = [chain EXCEPT ![p] = IF @ = "signed" THEN "sent" ELSE @]
      BY <1>1, <2>3 DEF Settle, Fenced, Fencing
    <3>2. chain[p] = "signed" /\ chain' = [chain EXCEPT ![p] = "sent"]
      BY <1>t, <2>1, <2>3, <3>1
    <3>3. booked = {} /\ OnOffer = p
      BY <2>1, <3>1, OfferIs, NoneIsNoPayload
    <3>4. p \notin Alive /\ p \notin Spent
      BY <3>2 DEF Alive, Spent, MayMove, Moved
    <3>5. Alive = {} /\ Spent = {}
      BY <1>o, <3>3, <3>4
    <3>6. \A q \in Payloads : q # p => chain'[q] = chain[q]
      BY <1>t, <3>2
    <3>7. chain'[p] = "sent"
      BY <1>t, <2>1, <3>2
    <3>8. Spent' = {}
      BY <3>5, <3>6, <3>7 DEF Spent, Moved
    <3>9. \A q \in Payloads : q # p => q \notin Alive'
      BY <2>1, <3>5, <3>6 DEF Alive, MayMove, Moved
    <3>10. Alive' = {} \/ Alive' = {p}
      BY <3>9 DEF Alive
    <3>11. CASE Alive' = {}
      BY <1>s, <3>5, <3>8, <3>11
    <3>12. CASE Alive' = {p}
      <4>1. Transfer!Release(p)
        BY <1>c, <3>3, <3>5, <3>8, <3>12 DEF Transfer!Release, Transfer!Idle
      <4> QED BY <2>1, <4>1 DEF Transfer!Next
    <3> QED BY <3>10, <3>11, <3>12
  <2> QED BY <2>2, <2>3
<1>2. ASSUME NEW p \in Payloads, Land(p)
      PROVE  Transfer!Next
  <2>1. /\ p \notin dead /\ dead' = dead /\ chain[p] = "sent"
        /\ \/ chain' = [chain EXCEPT ![p] = "landed"]
           \/ chain' = [chain EXCEPT ![p] = "failed"]
    BY <1>2 DEF Land, Move
  <2>2. p \in Alive
    BY <2>1 DEF Alive, MayMove, Moved
  <2>3. OnOffer = p /\ Alive = {p} /\ Spent = {} /\ booked = {}
    BY <1>o, <2>2
  <2>4. \A q \in Payloads : q # p => chain'[q] = chain[q]
    BY <1>t, <2>1
  <2>5. chain'[p] \in {"landed", "failed"}
    BY <1>t, <2>1
  <2>6. Alive' = {}
    BY <2>1, <2>3, <2>4, <2>5 DEF Alive, MayMove, Moved
  <2>7. CASE chain'[p] = "landed"
    <3>1. Spent' = {p}
      BY <2>3, <2>4, <2>7 DEF Spent, Moved
    <3>2. Transfer!Pay(p)
      BY <1>c, <2>3, <2>6, <3>1 DEF Transfer!Pay
    <3> QED BY <3>2 DEF Transfer!Next
  <2>8. CASE chain'[p] = "failed"
    <3>1. Spent' = Spent
      BY <2>3, <2>4, <2>8 DEF Spent, Moved
    <3>2. Transfer!Lapse
      BY <1>c, <2>6, <3>1 DEF Transfer!Lapse, Fencing
    <3> QED BY <3>2 DEF Transfer!Next
  <2> QED BY <2>5, <2>7, <2>8
<1>3. ASSUME NEW p \in Payloads, Finalize(p)
      PROVE  UNCHANGED Transfer!vars
  <2>1. /\ chain[p] = "landed" /\ chain' = [chain EXCEPT ![p] = "final"]
        /\ dead' = dead
    BY <1>3 DEF Finalize, Move
  <2>2. \A q \in Payloads : chain'[q] = IF q = p THEN "final" ELSE chain[q]
    BY <1>t, <2>1
  <2>3. \A q \in Payloads : (Moved(q)' <=> Moved(q)) /\ (MayMove(q)' <=> MayMove(q))
    BY <2>1, <2>2 DEF Moved, MayMove
  <2>4. Alive' = Alive /\ Spent' = Spent
    BY <2>3 DEF Alive, Spent
  <2> QED BY <1>s, <2>4
<1>4. ASSUME NEW p \in Payloads, Expire(p)
      PROVE  [Transfer!Next]_(Transfer!vars)
  <2>1. chain' = chain /\ dead' = dead \cup {p}
    BY <1>4 DEF Expire
  <2>2. Spent' = Spent
    BY <2>1 DEF Spent, Moved
  <2>3. Alive' \subseteq Alive
    BY <2>1 DEF Alive, MayMove, Moved
  <2>4. CASE Alive' = Alive
    BY <1>s, <2>2, <2>4
  <2>5. CASE Alive' # Alive
    <3>1. Alive' = {}
      BY <1>o, <2>3, <2>5
    <3>2. Transfer!Lapse
      BY <1>c, <2>2, <3>1 DEF Transfer!Lapse, Fencing
    <3> QED BY <3>2 DEF Transfer!Next
  <2> QED BY <2>4, <2>5
<1> QED BY <1>1, <1>2, <1>3, <1>4

\* A step of the ledger is one of OneTransfer.
LEMMA LedgerTransfers ==
    ASSUME TransferInv, TransferInv', [Next]_vars, Fencing, Fencing',
           UNCHANGED network
    PROVE  [Transfer!Next]_(Transfer!vars)
<1>c. Alive' = Alive /\ Spent' = Spent
  BY DEF network, Alive, Spent, MayMove, Moved
<1>o. /\ Alive \subseteq {OnOffer} \cap Payloads
      /\ Spent \subseteq {OnOffer} \cap Payloads
  BY OnlyOnOffer
<1>l. /\ \A p \in booked' : p \in Spent
      /\ booked' = {} /\ fence' = None => Alive = {} /\ Spent = {}
  <2>1. /\ \A p \in Payloads : MayMove(p)' => p \in booked' \/ fence' = p
        /\ \A p \in booked' : p \in Payloads /\ chain'[p] = "final"
    BY DEF TransferInv, FenceInv, FenceStands, FenceKept, Fencing, TypeOK,
           Evidence, Final
  <2>2. /\ chain' = chain
        /\ \A p \in Payloads : MayMove(p)' <=> MayMove(p)
    BY DEF network, MayMove, Moved
  <2> QED BY <2>1, <2>2, NoneIsNoPayload DEF Alive, Spent, MayMove, Moved
<1>1. ASSUME booked' = booked, fence' = fence
      PROVE  UNCHANGED Transfer!vars
  BY <1>c, <1>1 DEF Transfer!vars, OnOffer
<1>2. ASSUME booked' = booked, fence' = None, fence # None
      PROVE  Transfer!Next
  <2>1. booked = {}
    BY <1>2, OfferIs
  <2>2. OnOffer' = None
    BY <1>2, <2>1 DEF OnOffer
  <2>3. Alive = {} /\ Spent = {}
    BY <1>2, <1>l, <2>1
  <2>4. Transfer!Withdraw
    BY <1>2, <1>c, <2>1, <2>2, <2>3 DEF Transfer!Withdraw, Transfer!Idle
  <2> QED BY <2>4 DEF Transfer!Next
<1>3. ASSUME NEW p \in Payloads, Recordable(p), Record(p)
      PROVE  [Transfer!Next]_(Transfer!vars)
  <2>1. booked' = booked \cup {p} /\ fence' = None
    BY <1>3 DEF Record, Fencing
  <2>2. CASE booked = {}
    <3>1. fence = p /\ booked' = {p}
      BY <1>3, <2>1, <2>2 DEF Recordable, Fencing
    <3>2. OnOffer = p /\ OnOffer' = p
      BY <2>2, <3>1 DEF OnOffer
    <3>3. Spent = {OnOffer}
      BY <1>l, <1>o, <3>1, <3>2
    <3>4. Transfer!Close
      BY <1>c, <3>1, <3>2, <3>3 DEF Transfer!Close
    <3> QED BY <3>4 DEF Transfer!Next
  <2>3. CASE booked # {}
    <3>1. fence = None /\ p \in booked
      BY <1>3, <2>3, OfferIs DEF Recordable, Fencing
    <3> QED BY <1>1, <2>1, <3>1
  <2> QED BY <2>2, <2>3
<1>4. ASSUME NEW p \in Payloads, Claimable(p), Fence(p), UNCHANGED booked
      PROVE  [Transfer!Next]_(Transfer!vars)
  <2>1. fence' = p
    BY <1>4 DEF Fence
  <2>2. CASE fence = p
    BY <1>1, <1>4, <2>1, <2>2
  <2>3. CASE fence = None /\ quote = "quoted"
    <3>1. booked = {} /\ OnOffer = None
      BY <2>3, OfferIs
    <3>2. Alive = {} /\ Spent = {}
      BY <1>o, <3>1, NoneIsNoPayload
    <3>3. OnOffer' = p
      BY <1>4, <2>1, <3>1 DEF OnOffer
    <3>4. Transfer!Offer(p)
      BY <1>4, <1>c, <3>1, <3>2, <3>3 DEF Transfer!Offer, Transfer!Idle
    <3> QED BY <3>4 DEF Transfer!Next
  <2> QED BY <1>4, <2>2, <2>3 DEF Claimable
<1>5. ASSUME NEW p, Unfence(p), UNCHANGED booked
      PROVE  [Transfer!Next]_(Transfer!vars)
  BY <1>1, <1>2, <1>5 DEF Unfence
<1>6. ASSUME NEW g \in Gateways, ReconcileAbsent(g)
      PROVE  [Transfer!Next]_(Transfer!vars)
  <2>1. booked' = booked /\ (fence' = fence \/ Unfence(rec[g].p))
    BY <1>6 DEF ReconcileAbsent
  <2> QED BY <1>1, <1>5, <2>1
<1>7. CASE UNCHANGED ledger \/ QuoteExpires
  <2>1. booked' = booked /\ fence' = fence
    BY <1>7 DEF ledger, QuoteExpires
  <2> QED BY <1>1, <2>1
<1>8. TypeOK
  BY DEF TransferInv, FenceInv
<1> QED BY <1>3, <1>4, <1>5, <1>6, <1>7, <1>8, LedgerMoves

\* Every step of the system is a step of OneTransfer, or a stutter.
LEMMA TransferStep ==
    ASSUME TransferInv, TransferInv', [Next]_vars
    PROVE  [Transfer!Next]_(Transfer!vars)
<1>1. Fencing' <=> Fencing
  BY LedgerMoves DEF TransferInv, FenceInv, Fencing, choices
<1>2. CASE ~Fencing
  <2>1. /\ OnOffer = None /\ OnOffer' = None
        /\ Alive = {} /\ Alive' = {} /\ Spent = {} /\ Spent' = {}
    BY <1>1, <1>2 DEF OnOffer, Alive, Spent
  <2>2. (Fencing /\ booked # {})' <=> (Fencing /\ booked # {})
    BY <1>1, <1>2
  <2> QED BY <2>1, <2>2 DEF Transfer!vars
<1>3. CASE Fencing
  BY <1>1, <1>3, OnePart, NetworkTransfers, LedgerTransfers
<1> QED BY <1>2, <1>3

(* Gateways, reconciler, ledger and chain together keep the promise of      *)
(* OneTransfer on the ledger's routes, as long as clients do not send a     *)
(* payload again while it may be settling: a transfer is broadcast only     *)
(* under its fence (claim_payment_attempt), the fence is lifted only when   *)
(* it can no longer land (exactAbsenceDecision), and the quote is settled   *)
(* once, by the transfer that landed (record_chain_settlement).             *)
THEOREM ImplementsOneTransferAlways == Spec => ImplementsOneTransfer
<1>1. Init => Transfer!Init
  BY DEF Init, Transfer!Init, OnOffer, Alive, Spent, MayMove, Moved
<1>2. TransferInv /\ TransferInv' /\ [Next]_vars
        => [Transfer!Next]_(Transfer!vars)
  BY TransferStep
<1> QED BY <1>1, <1>2, TransferInvariant, PTL
        DEF Spec, ImplementsOneTransfer, Transfer!Spec
===============================================================================
