-------------------------- MODULE Withdrawals_proofs --------------------------
(***************************************************************************)
(* Machine-checked safety of the withdrawal path, for any number of        *)
(* withdrawals, replicas, fee levels, faults and any depth of reorg: what  *)
(* each posting does to a ledger, the inductive invariant, one lemma per   *)
(* group of actions, and the invariants that follow.                       *)
(***************************************************************************)
EXTENDS Withdrawals, TLAPS

-------------------------------------------------------------------------------
(* The keys, the journal and the balances of a ledger after a posting.      *)

\* post_transaction journals its key, and nothing else, exactly once.
LEMMA KeysOfPost ==
    ASSUME NEW l, NEW key, NEW entries
    PROVE  Keys(PostTransaction(l, key, entries)) = Keys(l) \cup {key}
<1> DEFINE row == [key |-> key, entries |-> entries]
<1>1. CASE key \in Keys(l)
  BY <1>1 DEF PostTransaction
<1>2. CASE key \notin Keys(l)
  <2>1. PostTransaction(l, key, entries).journal = l.journal \cup {row}
    BY <1>2 DEF PostTransaction
  <2>2. row.key = key
    OBVIOUS
  <2> HIDE DEF row
  <2> QED
    BY <2>1, <2>2 DEF Keys
<1> QED
  BY <1>1, <1>2

\* A posting only adds to the journal.
LEMMA JournalOfPost ==
    ASSUME NEW l, NEW key, NEW entries
    PROVE  l.journal \subseteq PostTransaction(l, key, entries).journal
BY DEF PostTransaction

\* Integer amounts leave integer balances.
LEMMA BalanceOfPost ==
    ASSUME NEW l, l.balance \in [Accounts -> Int],
           NEW key, NEW entries, \A e \in entries : e.amount \in Int
    PROVE  PostTransaction(l, key, entries).balance \in [Accounts -> Int]
<1>1. \A account \in Accounts : DeltaOf(entries, account) \in Int
  <2> TAKE account \in Accounts
  <2>1. CASE \E e \in entries : e.account = account
    <3> DEFINE e == CHOOSE x \in entries : x.account = account
    <3>1. e \in entries
      BY <2>1
    <3>2. NaturalDelta(e) \in Int
      BY <3>1 DEF NaturalDelta
    <3> QED
      BY <2>1, <3>2 DEF DeltaOf
  <2>2. CASE ~ \E e \in entries : e.account = account
    BY <2>2 DEF DeltaOf
  <2> QED
    BY <2>1, <2>2
<1>2. CASE key \in Keys(l)
  BY <1>2 DEF PostTransaction
<1>3. CASE key \notin Keys(l)
  BY <1>1, <1>3 DEF PostTransaction
<1> QED
  BY <1>2, <1>3

\* The postings of the withdrawal path, seen through their keys.
LEMMA KeysOfOperations ==
    ASSUME NEW l, NEW w, NEW user, NEW amount
    PROVE  /\ Keys(ReserveWithdrawal(l, w, user, amount))
                = Keys(l) \cup {<<"withdrawal_reserve", w>>}
           /\ Keys(ReleaseReservation(l, w, user, amount))
                = Keys(l) \cup {<<"withdrawal_release", w>>}
           /\ Keys(RecordBroadcast(l, w, amount))
                = Keys(l) \cup {<<"withdrawal_broadcast", w>>}
           /\ Keys(SettleWithdrawal(l, w, user, amount))
                = Keys(l) \cup {<<"withdrawal_settle", w>>}
           /\ Keys(ReverseBroadcast(l, w, amount))
                = Keys(l) \cup {<<"withdrawal_broadcast_reversal", w>>}
           /\ Keys(RecordNetworkFee(l, w, amount)) \in
                {Keys(l), Keys(l) \cup {<<"network_fee", w>>}}
BY KeysOfPost DEF ReserveWithdrawal, ReleaseReservation, RecordBroadcast,
     SettleWithdrawal, ReverseBroadcast, RecordNetworkFee

\* ... through their journals ...
LEMMA JournalOfOperations ==
    ASSUME NEW l, NEW w, NEW user, NEW amount
    PROVE  /\ l.journal \subseteq ReserveWithdrawal(l, w, user, amount).journal
           /\ l.journal \subseteq ReleaseReservation(l, w, user, amount).journal
           /\ l.journal \subseteq RecordBroadcast(l, w, amount).journal
           /\ l.journal \subseteq SettleWithdrawal(l, w, user, amount).journal
           /\ l.journal \subseteq ReverseBroadcast(l, w, amount).journal
           /\ l.journal \subseteq RecordNetworkFee(l, w, amount).journal
BY JournalOfPost DEF ReserveWithdrawal, ReleaseReservation, RecordBroadcast,
     SettleWithdrawal, ReverseBroadcast, RecordNetworkFee

\* ... and through their balances.
LEMMA BalanceOfOperations ==
    ASSUME NEW l, l.balance \in [Accounts -> Int],
           NEW w, NEW user, NEW amount \in Int
    PROVE  /\ ReserveWithdrawal(l, w, user, amount).balance
                \in [Accounts -> Int]
           /\ ReleaseReservation(l, w, user, amount).balance
                \in [Accounts -> Int]
           /\ RecordBroadcast(l, w, amount).balance \in [Accounts -> Int]
           /\ SettleWithdrawal(l, w, user, amount).balance
                \in [Accounts -> Int]
           /\ ReverseBroadcast(l, w, amount).balance \in [Accounts -> Int]
           /\ RecordNetworkFee(l, w, amount).balance \in [Accounts -> Int]
<1>1. \A a, b : \A e \in {Debit(a, amount), Credit(b, amount)} : e.amount \in Int
  BY DEF Debit, Credit
<1> QED
  BY <1>1, BalanceOfPost, Zenon DEF ReserveWithdrawal, ReleaseReservation,
       RecordBroadcast, SettleWithdrawal, ReverseBroadcast, RecordNetworkFee

-------------------------------------------------------------------------------
(* The inductive invariant.                                                 *)

\* A recorded transaction pays its own withdrawal, with a nonce the counter
\* has passed.
RecordedNonces ==
    \A w \in Withdrawal : rows[w].signed # NoTx =>
        rows[w].signed.w = w /\ rows[w].signed.nonce < nextNonce

\* What is pending or mined was accepted once, and a nonce is mined once.
ChainIsOrderly ==
    /\ mempool \subseteq wire
    /\ \A m \in mined : m.tx \in wire
    /\ \A m1, m2 \in mined : m1.tx.nonce = m2.tx.nonce => m1 = m2

Claimed(p) == worker[p].queue \cup worker[p].then

\* What a replica may still assume of the rows it claimed, whatever the other
\* replicas did since: they exist, recovery and phase 2 work on signed rows, confirmation
\* on rows that were broadcast.
Knows(p) ==
    /\ \A w \in Claimed(p) : StatusOf(w) # "absent"
    /\ worker[p].pc \in {"recover", "resend", "mark_recovered", "mark_resent"} =>
         \A w \in Claimed(p) : rows[w].signed # NoTx
    /\ worker[p].pc = "send" =>
         \A w \in Withdrawal : Current(p, w) => rows[w].signed # NoTx
    /\ worker[p].pc \in {"confirm", "progress", "settle", "revert"} =>
         \A w \in Claimed(p) :
           StatusOf(w) \in {"broadcast", "confirming", "completed", "failed"}

ReplicasKnowTheirRows == \A p \in Workers : Knows(p)

IInv ==
    /\ TypeOK
    /\ SignedRowsCarryTheirHash
    /\ NoncesNeverShared
    /\ RecordedNonces
    /\ ChainIsOrderly
    /\ ReplicasKnowTheirRows

-------------------------------------------------------------------------------
(* Frame lemmas: what a step that leaves most of the state alone preserves.  *)

\* No step takes back what the replicas rely on.
RowsAdvance ==
    \A w \in Withdrawal :
        /\ rows[w].status # "absent" => rows'[w].status # "absent"
        /\ rows[w].signed # NoTx => rows'[w].signed # NoTx
        /\ rows[w].status \in {"broadcast", "confirming", "completed", "failed"}
             => rows'[w].status \in {"broadcast", "confirming", "completed",
                                     "failed"}

\* The other replicas keep what they know when one of them steps.
LEMMA OthersKnow ==
    ASSUME TypeOK, ReplicasKnowTheirRows, RowsAdvance, NEW p \in Workers,
           \A q \in Workers \ {p} : worker'[q] = worker[q],
           Knows(p)'
    PROVE  ReplicasKnowTheirRows'
<1> SUFFICES ASSUME NEW q \in Workers, q # p
             PROVE  Knows(q)'
  BY DEF ReplicasKnowTheirRows
<1>1. Knows(q) /\ worker'[q] = worker[q] /\ Claimed(q) \subseteq Withdrawal
  BY Zenon DEF ReplicasKnowTheirRows, TypeOK, LocalState, Claimed
<1> QED
  BY <1>1 DEF Knows, RowsAdvance, Claimed, Current, Batch, StatusOf

\* So do all of them when none steps.
LEMMA AllKnow ==
    ASSUME TypeOK, ReplicasKnowTheirRows, RowsAdvance, UNCHANGED worker
    PROVE  ReplicasKnowTheirRows'
<1> SUFFICES ASSUME NEW q \in Workers
             PROVE  Knows(q)'
  BY DEF ReplicasKnowTheirRows
<1>1. Knows(q) /\ Claimed(q) \subseteq Withdrawal
  BY DEF ReplicasKnowTheirRows, TypeOK, LocalState, Claimed
<1> QED
  BY <1>1 DEF Knows, RowsAdvance, Claimed, Current, Batch, StatusOf

\* A step that signs and sends nothing.
LEMMA NothingSigned ==
    ASSUME IInv, \A w \in Withdrawal : rows'[w].signed = rows[w].signed,
           UNCHANGED <<nextNonce, wire, mempool, mined>>
    PROVE  NoncesNeverShared' /\ RecordedNonces' /\ ChainIsOrderly'
BY DEF IInv, TypeOK, NoncesNeverShared, RecordedNonces, ChainIsOrderly, Tx

\* A replica's step that leaves the database and the chain alone.
LEMMA QuietStep ==
    ASSUME IInv, UNCHANGED <<db, chain>>, faultsLeft' \in Nat,
           NEW p \in Workers, NEW local \in LocalState,
           worker' = [worker EXCEPT ![p] = local],
           Knows(p)'
    PROVE  IInv'
<1> USE DEF IInv
<1>1. TypeOK'
  BY DEF TypeOK, db, chain
<1>2. SignedRowsCarryTheirHash'
  BY DEF SignedRowsCarryTheirHash, db, StatusOf
<1>3. NoncesNeverShared' /\ RecordedNonces' /\ ChainIsOrderly'
  BY NothingSigned DEF db, chain
<1>4. RowsAdvance
  BY DEF RowsAdvance, db
<1>5. ReplicasKnowTheirRows'
  BY <1>4, OthersKnow DEF TypeOK
<1> QED
  BY <1>1, <1>2, <1>3, <1>5

RecoverPCs == {"recover", "resend", "mark_recovered", "mark_resent"}
ConfirmPCs == {"confirm", "progress", "settle", "revert"}

\* The fault budget stays a natural number.
LEMMA FaultType ==
    ASSUME TypeOK, NoFault \/ \E kind : Fault(kind)
    PROVE  faultsLeft' \in Nat
BY DEF TypeOK, NoFault, Fault

\* The local effect of Goto, Finish and EndPass.
LEMMA GotoKnows ==
    ASSUME IInv, NEW p \in Workers, NEW pc \in ProgramCounter \ {"send"},
           Goto(p, pc), RowsAdvance,
           pc \in RecoverPCs => worker[p].pc \in RecoverPCs,
           pc \in ConfirmPCs => worker[p].pc \in ConfirmPCs
    PROVE  /\ Knows(p)'
           /\ \E local \in LocalState : worker' = [worker EXCEPT ![p] = local]
<1> DEFINE local == [worker[p] EXCEPT !.pc = pc]
<1>1. worker[p] \in LocalState /\ worker \in [Workers -> LocalState]
  BY DEF IInv, TypeOK
<1>2. local \in LocalState /\ worker' = [worker EXCEPT ![p] = local]
  BY <1>1 DEF Goto, LocalState
<1>3. /\ worker'[p].pc = pc
      /\ worker'[p].queue = worker[p].queue /\ worker'[p].then = worker[p].then
  BY <1>1, <1>2 DEF LocalState
<1>4. Knows(p) /\ Claimed(p)' = Claimed(p) /\ Claimed(p) \subseteq Withdrawal
  BY <1>1, <1>3 DEF IInv, ReplicasKnowTheirRows, Claimed, LocalState
<1>5. Knows(p)'
  BY <1>3, <1>4 DEF Knows, RecoverPCs, ConfirmPCs, RowsAdvance, StatusOf
<1> QED
  BY <1>2, <1>5, Zenon

\* Finish: replica p drops w from its claims and goes on with its loop.
LEMMA FinishKnows ==
    ASSUME IInv, NEW p \in Workers, NEW w \in Withdrawal,
           NEW stage \in {"approved", "recover", "confirm"},
           Finish(p, w, stage), RowsAdvance,
           stage = "recover" => worker[p].pc \in RecoverPCs,
           stage = "confirm" => worker[p].pc \in ConfirmPCs
    PROVE  /\ Knows(p)'
           /\ \E local \in LocalState : worker' = [worker EXCEPT ![p] = local]
<1> DEFINE local == [worker[p] EXCEPT !.pc = stage, !.queue = @ \ {w},
                                      !.then = @ \ {w}]
<1>1. worker[p] \in LocalState /\ worker \in [Workers -> LocalState]
  BY DEF IInv, TypeOK
<1>2. local \in LocalState /\ worker' = [worker EXCEPT ![p] = local]
  BY <1>1, Zenon DEF Finish, LocalState, ProgramCounter
<1>3. /\ worker'[p].pc = stage
      /\ worker'[p].queue \subseteq worker[p].queue
      /\ worker'[p].then \subseteq worker[p].then
  BY <1>1, <1>2 DEF LocalState
<1>4. /\ Knows(p) /\ Claimed(p)' \subseteq Claimed(p)
      /\ Claimed(p) \subseteq Withdrawal
  BY <1>1, <1>3 DEF IInv, ReplicasKnowTheirRows, Claimed, LocalState
<1>5. Knows(p)'
  BY <1>3, <1>4 DEF Knows, RecoverPCs, ConfirmPCs, RowsAdvance, StatusOf
<1> QED
  BY <1>2, <1>5, Zenon

\* EndPass: an idle replica claims nothing.
LEMMA EndPassKnows ==
    ASSUME IInv, NEW p \in Workers, EndPass(p)
    PROVE  /\ Knows(p)'
           /\ \E local \in LocalState : worker' = [worker EXCEPT ![p] = local]
<1>1. Idle \in LocalState
  BY DEF Idle, LocalState, ProgramCounter
<1>2. worker' = [worker EXCEPT ![p] = Idle] /\ worker'[p] = Idle
  BY DEF EndPass, IInv, TypeOK
<1>3. Knows(p)'
  BY <1>2 DEF Knows, Idle, Claimed
<1> QED
  BY <1>1, <1>2, <1>3, Zenon

\* BeginStage: the claims a stage starts with are what Knows asks of it.
LEMMA BeginStageKnows ==
    ASSUME IInv, NEW p \in Workers,
           NEW pc \in {"recover", "approved", "confirm"},
           NEW queue \in SUBSET Withdrawal, NEW then \in SUBSET Withdrawal,
           NEW seenHead \in Nat,
           BeginStage(p, pc, queue, then, seenHead), UNCHANGED rows,
           \A w \in queue \cup then : StatusOf(w) # "absent",
           pc = "recover" => \A w \in queue \cup then : StatusOf(w) = "signing",
           pc = "confirm" => \A w \in queue \cup then :
                               StatusOf(w) \in {"broadcast", "confirming"}
    PROVE  /\ Knows(p)'
           /\ \E local \in LocalState : worker' = [worker EXCEPT ![p] = local]
<1> DEFINE local == [pc |-> pc, queue |-> queue, then |-> then,
                     head |-> seenHead]
<1>1. local \in LocalState
  BY DEF LocalState, ProgramCounter
<1>2. worker' = [worker EXCEPT ![p] = local] /\ worker'[p] = local
  BY DEF BeginStage, IInv, TypeOK
<1>3. Knows(p)'
  BY <1>2 DEF Knows, Claimed, IInv, SignedRowsCarryTheirHash, StatusOf
<1> QED
  BY <1>1, <1>2, <1>3, Zenon

\* claim_by_status returns withdrawals of the status asked for.
LEMMA ClaimType ==
    ASSUME NEW status
    PROVE  /\ ClaimByStatus(status) \in SUBSET Withdrawal
           /\ \A w \in ClaimByStatus(status) : StatusOf(w) = status
BY DEF ClaimByStatus

-------------------------------------------------------------------------------
(* Each action preserves the invariant.                                      *)

\* Beginning and ending stages and passes, crashes included.
LEMMA PassPreserves ==
    ASSUME IInv, NEW p \in Workers, Pass(p) \/ Crash(p)
    PROVE  IInv'
<1>1. faultsLeft' \in Nat /\ UNCHANGED <<db, chain>> /\ UNCHANGED rows
  BY FaultType DEF IInv, Pass, StartRecovery, StartApproved, StartInFlight,
       PassDone, Crash, db
<1>2. /\ Knows(p)'
      /\ \E local \in LocalState : worker' = [worker EXCEPT ![p] = local]
  <2>1. CASE StartRecovery(p)
    <3>1. /\ {} \in SUBSET Withdrawal /\ 0 \in Nat
          /\ ClaimByStatus("signing") \in SUBSET Withdrawal
          /\ \A w \in ClaimByStatus("signing") \cup {} : StatusOf(w) = "signing"
      BY ClaimType
    <3> QED
      BY <1>1, <2>1, <3>1, BeginStageKnows, Zenon DEF StartRecovery
  <2>2. CASE StartApproved(p)
    <3>1. /\ {} \in SUBSET Withdrawal /\ 0 \in Nat
          /\ ClaimByStatus("approved") \in SUBSET Withdrawal
          /\ \A w \in ClaimByStatus("approved") \cup {} : StatusOf(w) = "approved"
      BY ClaimType
    <3> QED
      BY <1>1, <2>2, <3>1, BeginStageKnows, Zenon DEF StartApproved
  <2>3. CASE StartInFlight(p)
    <3>1. head \in Nat
      BY DEF IInv, TypeOK
    <3>2. /\ ClaimByStatus("broadcast") \in SUBSET Withdrawal
          /\ ClaimByStatus("confirming") \in SUBSET Withdrawal
          /\ \A w \in ClaimByStatus("broadcast") \cup ClaimByStatus("confirming") :
               StatusOf(w) \in {"broadcast", "confirming"}
      BY ClaimType
    <3> QED
      BY <1>1, <2>3, <3>1, <3>2, BeginStageKnows, Zenon DEF StartInFlight
  <2>4. CASE PassDone(p) \/ Crash(p)
    BY <2>4, EndPassKnows DEF PassDone, Crash
  <2> QED
    BY <2>1, <2>2, <2>3, <2>4 DEF Pass
<1> QED
  BY <1>1, <1>2, QuietStep, Zenon

\* Lookups, skips and errors: the replica alone moves.
LEMMA QuietItemPreserves ==
    ASSUME IInv, NEW p \in Workers, NEW w \in Withdrawal,
           \/ RecoverLookup(p, w) \/ SignSkipped(p, w) \/ SignFails(p, w)
           \/ MarkSkipped(p, w) \/ MarkFails(p, w)
           \/ CheckBeforeRelease(p, w) \/ ReleaseSkipped(p, w)
           \/ InFlightLookup(p, w) \/ SettleRefused(p, w) \/ RevertRefused(p, w)
    PROVE  IInv'
<1>1. faultsLeft' \in Nat /\ UNCHANGED <<db, chain>>
  BY FaultType DEF IInv, RecoverLookup, SignSkipped, SignFails, MarkSkipped,
       MarkFails, CheckBeforeRelease, ReleaseSkipped, InFlightLookup,
       SettleRefused, RevertRefused
<1>2. RowsAdvance
  BY <1>1, Zenon DEF RowsAdvance, db
<1> DEFINE Goal ==
      /\ Knows(p)'
      /\ \E local \in LocalState : worker' = [worker EXCEPT ![p] = local]
<1>3. Goal
  <2>1. ASSUME NEW pc \in ProgramCounter \ {"send"}, Goto(p, pc),
               pc \in RecoverPCs => worker[p].pc \in RecoverPCs,
               pc \in ConfirmPCs => worker[p].pc \in ConfirmPCs
        PROVE  Goal
    BY <1>2, <2>1, GotoKnows, Zenon
  <2>2. ASSUME NEW stage \in {"approved", "recover", "confirm"},
               Finish(p, w, stage),
               stage = "recover" => worker[p].pc \in RecoverPCs,
               stage = "confirm" => worker[p].pc \in ConfirmPCs
        PROVE  Goal
    BY <1>2, <2>2, FinishKnows, Zenon
  <2>3. ASSUME EndPass(p)
        PROVE  Goal
    BY <2>3, EndPassKnows, Zenon
  <2>4. CASE RecoverLookup(p, w)
    BY <2>1, <2>4, Zenon
       DEF RecoverLookup, At, ProgramCounter, RecoverPCs, ConfirmPCs
  <2>5. CASE SignSkipped(p, w) \/ ReleaseSkipped(p, w)
    BY <2>2, <2>5, Zenon DEF SignSkipped, ReleaseSkipped
  <2>6. CASE SignFails(p, w)
    BY <2>1, <2>6, Zenon DEF SignFails, ProgramCounter, RecoverPCs, ConfirmPCs
  <2>7. CASE MarkSkipped(p, w)
    BY <2>2, <2>7, Zenon DEF MarkSkipped, MarkStage, RecoverPCs
  <2>8. CASE MarkFails(p, w)
    BY <2>1, <2>2, <2>3, <2>8, Zenon
       DEF MarkFails, At, ProgramCounter, RecoverPCs, ConfirmPCs
  <2>9. CASE CheckBeforeRelease(p, w)
    BY <2>1, <2>2, <2>9, Zenon
       DEF CheckBeforeRelease, ProgramCounter, RecoverPCs, ConfirmPCs
  <2>10. CASE InFlightLookup(p, w)
    BY <2>1, <2>2, <2>10, Zenon
       DEF InFlightLookup, At, ProgramCounter, RecoverPCs, ConfirmPCs
  <2>11. CASE SettleRefused(p, w) \/ RevertRefused(p, w)
    BY <2>2, <2>3, <2>11, Zenon
       DEF SettleRefused, RevertRefused, At, ConfirmPCs
  <2> QED
    BY <2>4, <2>5, <2>6, <2>7, <2>8, <2>9, <2>10, <2>11, Zenon
<1> QED
  BY <1>1, <1>3, QuietStep, Zenon

(***************************************************************************)
(* The requests of the withdrawal service, with the facts about statuses   *)
(* and balances that the pipeline's writes share.                          *)
(***************************************************************************)

OnceBroadcast == {"broadcast", "confirming", "completed", "failed"}

\* A database transaction that signs nothing.
LEMMA UnsignedStep ==
    ASSUME IInv, rows' \in [Withdrawal -> Row],
           \A w \in Withdrawal : rows'[w].signed = rows[w].signed,
           SignedRowsCarryTheirHash', RowsAdvance,
           ledger'.balance \in [Accounts -> Int], outbox' \in SUBSET EventId,
           UNCHANGED <<nextNonce, chain>>, faultsLeft' \in Nat,
           \/ UNCHANGED worker
           \/ \E p \in Workers, local \in LocalState :
                worker' = [worker EXCEPT ![p] = local] /\ Knows(p)'
    PROVE  IInv'
<1> USE DEF IInv
<1>1. TypeOK'
  BY Zenon DEF TypeOK, chain
<1>2. NoncesNeverShared' /\ RecordedNonces' /\ ChainIsOrderly'
  BY NothingSigned, Zenon DEF chain
<1>3. ReplicasKnowTheirRows'
  <2>1. CASE UNCHANGED worker
    BY <2>1, AllKnow, Zenon
  <2>2. CASE \E p \in Workers, local \in LocalState :
               worker' = [worker EXCEPT ![p] = local] /\ Knows(p)'
    <3>1. PICK p \in Workers, local \in LocalState :
                 worker' = [worker EXCEPT ![p] = local] /\ Knows(p)'
      BY <2>2, Zenon
    <3>2. \A q \in Workers \ {p} : worker'[q] = worker[q]
      BY <3>1 DEF TypeOK
    <3> QED
      BY <3>1, <3>2, OthersKnow, Zenon
  <2> QED
    BY <2>1, <2>2, Zenon
<1> QED
  BY <1>1, <1>2, <1>3, Zenon

\* A status update along the edges of the lifecycle keeps the row facts.
LEMMA SetStatusFacts ==
    ASSUME IInv, NEW w \in Withdrawal, NEW status \in Status,
           SetStatus(w, status),
           status \in {"signing", "broadcast", "confirming", "completed"}
             => rows[w].signed # NoTx,
           status \in {"absent", "validated", "approved", "cancelled"}
             => rows[w].signed = NoTx,
           StatusOf(w) \in OnceBroadcast => status \in OnceBroadcast,
           status = "absent" => StatusOf(w) = "absent"
    PROVE  /\ rows' \in [Withdrawal -> Row]
           /\ \A v \in Withdrawal : rows'[v].signed = rows[v].signed
           /\ SignedRowsCarryTheirHash'
           /\ RowsAdvance
<1>1. rows \in [Withdrawal -> Row]
  BY DEF IInv, TypeOK
<1>2. /\ rows' \in [Withdrawal -> Row]
      /\ rows'[w].status = status /\ rows'[w].signed = rows[w].signed
      /\ \A v \in Withdrawal \ {w} : rows'[v] = rows[v]
  BY <1>1 DEF SetStatus, Row
<1> QED
  BY <1>2 DEF IInv, SignedRowsCarryTheirHash, StatusOf, RowsAdvance,
       OnceBroadcast

\* An enqueued event is one of the four of the lifecycle.
LEMMA EnqueueType ==
    ASSUME TypeOK, NEW w \in Withdrawal,
           NEW kind \in {"requested", "broadcast", "completed", "failed"},
           Enqueue(kind, w)
    PROVE  outbox' \in SUBSET EventId
BY DEF TypeOK, Enqueue, EventId

\* Amounts and the gas fee are integers.
LEMMA AmountType ==
    ASSUME NEW w \in Withdrawal
    PROVE  AmountOf[w] \in Int /\ GasFee \in Int
BY WithdrawalsAssumption

\* A release leaves integer balances.
LEMMA ReleaseType ==
    ASSUME TypeOK, NEW w \in Withdrawal
    PROVE  ReleaseIfReserved(w).balance \in [Accounts -> Int]
BY AmountType, BalanceOfOperations DEF TypeOK, ReleaseIfReserved

\* The trigger lets cancel commit before signing only.
LEMMA CancelEdge ==
    ASSUME NEW w \in Withdrawal, Cancel(w)
    PROVE  StatusOf(w) \in {"validated", "approved"}
<1>1. <<StatusOf(w), "cancelled">> \in Transitions
  BY DEF Cancel, SetStatus, CanTransitionTo, IsTerminal
<1> QED
  BY <1>1 DEF Transitions

\* create, approve and cancel.
LEMMA RequestPreserves ==
    ASSUME IInv, NEW w \in Withdrawal, Request(w)
    PROVE  IInv'
<1> USE DEF Status, OnceBroadcast
<1>0. TypeOK /\ SignedRowsCarryTheirHash /\ ledger.balance \in [Accounts -> Int]
  BY DEF IInv, TypeOK
<1>1. CASE CreateDenied(w)
  <2>1. faultsLeft' \in Nat
    BY <1>0, <1>1, FaultType DEF CreateDenied
  <2>2. outbox' \in SUBSET EventId
    BY <1>0, <1>1 DEF CreateDenied, TypeOK
  <2>3. /\ rows \in [Withdrawal -> Row] /\ rows[w].signed = NoTx
        /\ StatusOf(w) = "absent"
    BY <1>0, <1>1
       DEF TypeOK, SignedRowsCarryTheirHash, CreateDenied, NewRequest
  <2>4. /\ rows' \in [Withdrawal -> Row]
        /\ rows'[w].status = "failed" /\ rows'[w].signed = NoTx
        /\ \A v \in Withdrawal \ {w} : rows'[v] = rows[v]
    BY <1>1, <2>3, Zenon DEF CreateDenied, Row
  <2>5. SignedRowsCarryTheirHash' /\ RowsAdvance
    BY <1>0, <2>3, <2>4, Zenon
       DEF SignedRowsCarryTheirHash, RowsAdvance, StatusOf
  <2> QED
    BY <1>0, <1>1, <2>1, <2>2, <2>3, <2>4, <2>5, UnsignedStep, Zenon
       DEF CreateDenied
<1>2. ASSUME NEW held \in BOOLEAN, CreateReserved(w, held)
      PROVE  IInv'
  <2>1. faultsLeft' \in Nat
    BY <1>0, <1>2, FaultType, Zenon DEF CreateReserved
  <2>2. outbox' \in SUBSET EventId
    BY <1>0, <1>2, EnqueueType, Zenon DEF CreateReserved
  <2>3. ledger'.balance \in [Accounts -> Int]
    BY <1>0, <1>2, AmountType, BalanceOfOperations, Zenon DEF CreateReserved
  <2>4. rows \in [Withdrawal -> Row] /\ rows[w].signed = NoTx
    BY <1>0, <1>2, Zenon
       DEF TypeOK, SignedRowsCarryTheirHash, CreateReserved, NewRequest
  <2>5. /\ rows' \in [Withdrawal -> Row]
        /\ rows'[w].status \in {"validated", "approved"}
        /\ rows'[w].signed = NoTx
        /\ \A v \in Withdrawal \ {w} : rows'[v] = rows[v]
    BY <1>2, <2>4, Zenon DEF CreateReserved, Row
  <2>6. SignedRowsCarryTheirHash' /\ RowsAdvance
    BY <1>0, <1>2, <2>4, <2>5, Zenon
       DEF SignedRowsCarryTheirHash, RowsAdvance, StatusOf, CreateReserved,
           NewRequest
  <2> QED
    BY <1>2, <2>1, <2>2, <2>3, <2>4, <2>5, <2>6, UnsignedStep, Zenon
       DEF CreateReserved
<1>3. CASE Approve(w)
  <2>1. faultsLeft' \in Nat
    BY <1>0, <1>3, FaultType, Zenon DEF Approve
  <2>2. outbox' \in SUBSET EventId
    BY <1>0, <1>3, Zenon DEF Approve, TypeOK
  <2>3. rows[w].signed = NoTx
    BY <1>0, <1>3, Zenon DEF Approve, SignedRowsCarryTheirHash
  <2> QED
    BY <1>0, <1>3, <2>1, <2>2, <2>3, SetStatusFacts, UnsignedStep, Zenon
       DEF Approve
<1>4. CASE Cancel(w)
  <2>1. faultsLeft' \in Nat
    BY <1>0, <1>4, FaultType, Zenon DEF Cancel
  <2>2. outbox' \in SUBSET EventId
    BY <1>0, <1>4, Zenon DEF Cancel, TypeOK
  <2>3. rows[w].signed = NoTx
    BY <1>0, <1>4, CancelEdge, Zenon DEF SignedRowsCarryTheirHash
  <2>4. ledger'.balance \in [Accounts -> Int]
    BY <1>0, <1>4, ReleaseType, Zenon DEF Cancel
  <2> QED
    BY <1>4, <2>1, <2>2, <2>3, <2>4, CancelEdge, SetStatusFacts, UnsignedStep,
       Zenon
       DEF Cancel
<1> QED
  BY <1>1, <1>2, <1>3, <1>4, Zenon DEF Request

\* The withdrawal a replica works on is one it claimed.
LEMMA CurrentIsClaimed ==
    ASSUME TypeOK, NEW p \in Workers, NEW w, Current(p, w)
    PROVE  w \in Claimed(p) /\ w \in Withdrawal
BY Zenon DEF TypeOK, LocalState, Current, Batch, Claimed

\* The postings of a settlement leave integer balances.
LEMMA SettledTypes ==
    ASSUME TypeOK, NEW w \in Withdrawal
    PROVE  /\ Settled(w).balance \in [Accounts -> Int]
           /\ Reverted(w).balance \in [Accounts -> Int]
<1>0. AmountOf[w] \in Int /\ GasFee \in Int
  BY AmountType
<1>1. ledger.balance \in [Accounts -> Int]
  BY DEF TypeOK
<1>2. SettleWithdrawal(ledger, w, UserOf[w], AmountOf[w]).balance
        \in [Accounts -> Int]
  BY <1>0, <1>1, BalanceOfOperations
<1>3. ReverseBroadcast(ledger, w, AmountOf[w]).balance \in [Accounts -> Int]
  BY <1>0, <1>1, BalanceOfOperations, Zenon
<1>4. ReleaseReservation(ReverseBroadcast(ledger, w, AmountOf[w]),
                         w, UserOf[w], AmountOf[w]).balance
        \in [Accounts -> Int]
  BY <1>0, <1>3, BalanceOfOperations
<1> QED
  BY <1>0, <1>2, <1>4, BalanceOfOperations, Zenon DEF Settled, Reverted


-------------------------------------------------------------------------------
(* The actions that record an outcome, sign, send and mine preserve it.       *)

\* mark_broadcast, fail_and_release, update_confirmations and the two
\* settlements: one row changes its status, one replica finishes with it.
LEMMA RecordPreserves ==
    ASSUME IInv, NEW p \in Workers, NEW w \in Withdrawal,
           \/ MarkBroadcast(p, w) \/ FailAndRelease(p, w) \/ Progress(p, w)
           \/ SettleSuccess(p, w) \/ SettleFailure(p, w)
    PROVE  IInv'
<1> USE DEF Status, OnceBroadcast
<1>0. /\ TypeOK /\ SignedRowsCarryTheirHash
      /\ ledger.balance \in [Accounts -> Int] /\ outbox \in SUBSET EventId
      /\ rows[w].status \in Status
  BY Zenon DEF IInv, TypeOK, Row
<1>1. faultsLeft' \in Nat /\ UNCHANGED <<nextNonce, chain>>
  BY <1>0, FaultType, Zenon DEF MarkBroadcast, FailAndRelease, Progress,
       SettleSuccess, SettleFailure
<1> DEFINE RowsFine ==
      /\ rows' \in [Withdrawal -> Row]
      /\ \A v \in Withdrawal : rows'[v].signed = rows[v].signed
      /\ SignedRowsCarryTheirHash'
      /\ RowsAdvance
<1>2. ASSUME RowsFine, ledger'.balance \in [Accounts -> Int],
             outbox' \in SUBSET EventId,
             NEW stage \in {"approved", "recover", "confirm"},
             Finish(p, w, stage),
             stage = "recover" => worker[p].pc \in RecoverPCs,
             stage = "confirm" => worker[p].pc \in ConfirmPCs
      PROVE  IInv'
  <2>1. /\ Knows(p)'
        /\ \E local \in LocalState : worker' = [worker EXCEPT ![p] = local]
    BY <1>2, FinishKnows
  <2> QED
    BY <1>1, <1>2, <2>1, UnsignedStep, Zenon
<1>3. CASE MarkBroadcast(p, w)
  <2>1. RowsFine
    BY <1>0, <1>3, SetStatusFacts DEF MarkBroadcast, SignedRowsCarryTheirHash
  <2>2. ledger'.balance \in [Accounts -> Int]
    BY <1>0, <1>3, AmountType, BalanceOfOperations, Zenon DEF MarkBroadcast
  <2>3. outbox' \in SUBSET EventId
    BY <1>0, <1>3, EnqueueType, Zenon DEF MarkBroadcast
  <2> QED
    BY <1>2, <1>3, <2>1, <2>2, <2>3, Zenon
       DEF MarkBroadcast, MarkStage, RecoverPCs
<1>4. CASE FailAndRelease(p, w)
  <2>1. RowsFine
    BY <1>4, SetStatusFacts, Zenon DEF FailAndRelease
  <2>2. ledger'.balance \in [Accounts -> Int]
    BY <1>0, <1>4, ReleaseType, Zenon DEF FailAndRelease
  <2>3. outbox' \in SUBSET EventId
    BY <1>0, <1>4, EnqueueType, Zenon DEF FailAndRelease
  <2> QED
    BY <1>2, <1>4, <2>1, <2>2, <2>3, Zenon DEF FailAndRelease
<1>5. CASE Progress(p, w)
  <2>1. RowsFine
    BY <1>0, <1>5, SetStatusFacts, Zenon
       DEF Progress, SignedRowsCarryTheirHash, StatusOf
  <2> QED
    BY <1>0, <1>2, <1>5, <2>1 DEF Progress, At, ConfirmPCs
<1>6. CASE SettleSuccess(p, w)
  <2>1. RowsFine
    BY <1>0, <1>6, SetStatusFacts, Zenon
       DEF SettleSuccess, SignedRowsCarryTheirHash
  <2>2. ledger'.balance \in [Accounts -> Int]
    BY <1>0, <1>6, SettledTypes, Zenon DEF SettleSuccess
  <2>3. outbox' \in SUBSET EventId
    BY <1>0, <1>6, EnqueueType, Zenon DEF SettleSuccess
  <2> QED
    BY <1>2, <1>6, <2>1, <2>2, <2>3, Zenon DEF SettleSuccess, At, ConfirmPCs
<1>7. CASE SettleFailure(p, w)
  <2>1. RowsFine
    BY <1>7, SetStatusFacts, Zenon DEF SettleFailure
  <2>2. ledger'.balance \in [Accounts -> Int]
    BY <1>0, <1>7, SettledTypes, Zenon DEF SettleFailure
  <2>3. outbox' \in SUBSET EventId
    BY <1>0, <1>7, EnqueueType DEF SettleFailure
  <2> QED
    BY <1>2, <1>7, <2>1, <2>2, <2>3, Zenon DEF SettleFailure, At, ConfirmPCs
<1> QED
  BY <1>3, <1>4, <1>5, <1>6, <1>7, Zenon

\* Phase 2 and re-broadcast: what reaches a node spends the recorded nonce.
LEMMA SendPreserves ==
    ASSUME IInv, NEW p \in Workers, NEW w \in Withdrawal,
           Send(p, w) \/ \E fee \in EstimateFees : Resend(p, w, fee)
    PROVE  IInv'
<1>0. TypeOK /\ ReplicasKnowTheirRows
  BY DEF IInv
<1>1. faultsLeft' \in Nat
  BY <1>0, FaultType, Zenon DEF Send, Resend
<1>2. UNCHANGED db /\ RowsAdvance
  BY DEF Send, Resend, db, RowsAdvance
<1>3. /\ Knows(p)'
      /\ \E local \in LocalState : worker' = [worker EXCEPT ![p] = local]
  <2>1. CASE Send(p, w)
    <3>1. \/ Goto(p, "mark_signed") \/ Goto(p, "check")
      BY <2>1 DEF Send
    <3> QED
      BY <1>2, <3>1, GotoKnows DEF ProgramCounter, RecoverPCs, ConfirmPCs
  <2>2. CASE \E fee \in EstimateFees : Resend(p, w, fee)
    <3>1. /\ Goto(p, "mark_resent") \/ Finish(p, w, "recover")
          /\ worker[p].pc \in RecoverPCs
      BY <2>2 DEF Resend, At, RecoverPCs
    <3> QED
      BY <1>2, <3>1, GotoKnows, FinishKnows, Zenon
         DEF ProgramCounter, RecoverPCs, ConfirmPCs
  <2> QED
    BY <2>1, <2>2
<1>4. ReplicasKnowTheirRows'
  <2>1. \A q \in Workers \ {p} : worker'[q] = worker[q]
    BY <1>0, <1>3, Zenon DEF TypeOK
  <2> QED
    BY <1>0, <1>2, <1>3, <2>1, OthersKnow, Zenon
<1>5. rows[w].signed # NoTx /\ rows[w].signed \in Tx /\ rows[w].signed.w = w
  <2>1. Knows(p)
    BY <1>0 DEF ReplicasKnowTheirRows
  <2>2. rows[w].signed # NoTx
    <3>1. CASE Send(p, w)
      BY <2>1, <3>1, Zenon DEF Send, Knows, At
    <3>2. CASE \E fee \in EstimateFees : Resend(p, w, fee)
      BY <1>0, <2>1, <3>2, CurrentIsClaimed, Zenon DEF Resend, Knows, At
    <3> QED
      BY <3>1, <3>2, Zenon
  <2> QED
    BY <2>2 DEF IInv, TypeOK, Row, RecordedNonces
<1>6. \/ UNCHANGED chain
      \/ \E tx \in Tx : tx.w = w /\ tx.nonce = rows[w].signed.nonce /\ Accept(tx)
  <2>1. CASE Send(p, w)
    BY <1>5, <2>1, Zenon DEF Send
  <2>2. CASE \E fee \in EstimateFees : Resend(p, w, fee)
    <3>1. PICK fee \in EstimateFees : Resend(p, w, fee)
      BY <2>2, Zenon
    <3>2. /\ Resigned(w, fee) \in Tx /\ Resigned(w, fee).w = w
          /\ Resigned(w, fee).nonce = rows[w].signed.nonce
      BY <1>5, Zenon DEF Resigned, SignEvm, EstimateFees, Tx
    <3>3. UNCHANGED chain \/ Accept(Resigned(w, fee))
      BY <3>1, Zenon DEF Resend
    <3> QED
      BY <3>2, <3>3
  <2> QED
    BY <2>1, <2>2, Zenon
<1>7. /\ wire' \subseteq Tx /\ mempool' \subseteq Tx /\ UNCHANGED <<mined, head>>
      /\ mempool' \subseteq wire' /\ wire \subseteq wire'
      /\ \A tx \in wire' \ wire :
           tx.w = w /\ tx.nonce = rows[w].signed.nonce
  BY <1>6, Zenon DEF Accept, chain, IInv, TypeOK, ChainIsOrderly
<1>8. TypeOK'
  BY <1>0, <1>1, <1>2, <1>3, <1>7, Zenon DEF TypeOK, db
<1>9. SignedRowsCarryTheirHash' /\ RecordedNonces'
  BY <1>2, Zenon
     DEF IInv, SignedRowsCarryTheirHash, RecordedNonces, StatusOf, db
<1>10. NoncesNeverShared'
  BY <1>2, <1>5, <1>7, Zenon DEF IInv, NoncesNeverShared, db
<1>11. ChainIsOrderly'
  BY <1>7 DEF IInv, ChainIsOrderly
<1> QED
  BY <1>4, <1>8, <1>9, <1>10, <1>11 DEF IInv

\* Phase 1: the nonce is new, and its row was never signed.
LEMMA SignPreserves ==
    ASSUME IInv, NEW p \in Workers, NEW w \in Withdrawal,
           NEW hint \in {0} \cup PendingNonce, NEW fee \in EstimateFees,
           Sign(p, w, hint, fee)
    PROVE  IInv'
<1> DEFINE nonce == AllocateNonce(hint)
           tx == SignEvm(w, nonce, fee)
<1>0. TypeOK
  BY DEF IInv
<1>1. nonce \in Nat /\ nextNonce <= nonce /\ nextNonce' = nonce + 1 /\ tx \in Tx
  <2>1. hint \in Nat
    BY WithdrawalsAssumption DEF PendingNonce
  <2> QED
    BY <1>0, <2>1 DEF TypeOK, AllocateNonce, Sign, SignEvm, EstimateFees, Tx
<1>2. /\ rows[w].status = "approved" /\ rows[w].signed = NoTx
      /\ rows \in [Withdrawal -> Row]
  BY <1>0 DEF Sign, StatusOf, IInv, TypeOK, SignedRowsCarryTheirHash
<1>3. /\ rows' \in [Withdrawal -> Row]
      /\ rows'[w].status = "signing" /\ rows'[w].signed = tx
      /\ \A v \in Withdrawal \ {w} : rows'[v] = rows[v]
  <2>1. rows' = [rows EXCEPT ![w].status = "signing", ![w].signed = tx]
    BY DEF Sign
  <2> HIDE DEF nonce, tx
  <2>2. rows'[w] = [rows[w] EXCEPT !.status = "signing", !.signed = tx]
    BY <2>1, <1>2
  <2>3. rows'[w] \in Row /\ rows'[w].status = "signing" /\ rows'[w].signed = tx
    BY <2>2, <1>1, <1>2, Zenon DEF Row, Status
  <2> QED
    BY <2>1, <2>3, <1>2
<1>4. tx # NoTx /\ tx.w = w /\ tx.nonce = nonce
  BY <1>1, WithdrawalsAssumption DEF SignEvm
<1> HIDE DEF nonce, tx
<1>5. RowsAdvance
  BY <1>2, <1>3, <1>4 DEF RowsAdvance
<1>6. /\ worker' = [worker EXCEPT ![p].pc = "send"]
      /\ Current(p, w) /\ UNCHANGED <<ledger, outbox, chain, faultsLeft>>
  BY DEF Sign, Goto, NoFault
<1>7. TypeOK'
  BY <1>0, <1>1, <1>3, <1>6 DEF TypeOK, LocalState, ProgramCounter, chain
<1>8. SignedRowsCarryTheirHash'
  BY <1>3, <1>4 DEF IInv, SignedRowsCarryTheirHash, StatusOf
<1>9. RecordedNonces'
  <2> SUFFICES ASSUME NEW v \in Withdrawal, rows'[v].signed # NoTx
               PROVE  rows'[v].signed.w = v /\ rows'[v].signed.nonce < nextNonce'
    BY Zenon DEF RecordedNonces
  <2>1. CASE v = w
    BY <1>1, <1>3, <1>4, <2>1
  <2>2. CASE v # w
    <3>1. rows'[v] = rows[v] /\ rows[v].signed \in Tx
      BY <1>3, <2>2, <1>2, Zenon DEF Row
    <3> QED
      BY <1>0, <1>1, <3>1 DEF IInv, RecordedNonces, TypeOK, Tx
  <2> QED
    BY <2>1, <2>2, Zenon
<1>10. NoncesNeverShared'
  <2>1. UNCHANGED wire
    BY <1>6, Zenon DEF chain
  <2>2. \A t \in wire : t.w # w /\ t.w \in Withdrawal
    BY <1>0, <1>2, Zenon DEF IInv, NoncesNeverShared, TypeOK, Tx
  <2>3. \A t \in wire' : rows'[t.w].signed # NoTx /\ t.nonce = rows'[t.w].signed.nonce
    BY <1>3, <2>1, <2>2, Zenon DEF IInv, NoncesNeverShared
  <2>4. \A v \in Withdrawal \ {w} :
          rows'[v].signed # NoTx => rows'[v].signed.nonce < nextNonce
    BY <1>3, Zenon DEF IInv, RecordedNonces
  <2>5. \A v \in Withdrawal \ {w} :
          rows'[v].signed # NoTx => rows'[v].signed.nonce # nonce
    <3> SUFFICES ASSUME NEW v \in Withdrawal \ {w}, rows'[v].signed # NoTx
                 PROVE  rows'[v].signed.nonce # nonce
      BY Zenon
    <3>1. rows'[v].signed \in Tx
      BY <1>3, Zenon DEF Row
    <3>2. rows'[v].signed.nonce \in Nat /\ nextNonce \in Nat
      BY <1>0, <3>1, Zenon DEF Tx, TypeOK
    <3> QED
      BY <1>1, <2>4, <3>2
  <2>6. \A v1, v2 \in Withdrawal :
          /\ rows'[v1].signed # NoTx /\ rows'[v2].signed # NoTx
          /\ rows'[v1].signed.nonce = rows'[v2].signed.nonce
          => v1 = v2
    BY <1>3, <1>4, <2>5 DEF IInv, NoncesNeverShared
  <2> QED
    BY <2>3, <2>6 DEF NoncesNeverShared
<1>11. ChainIsOrderly'
  BY <1>6, Zenon DEF IInv, ChainIsOrderly, chain
<1>12. ReplicasKnowTheirRows'
  <2>1. /\ worker'[p].pc = "send" /\ Batch(p)' = Batch(p)
        /\ \A q \in Workers \ {p} : worker'[q] = worker[q]
    BY <1>0, <1>6, Zenon DEF TypeOK, LocalState, Batch
  <2>2. \A v \in Withdrawal : Current(p, v)' => v = w
    BY <1>6, <2>1, WithdrawalsAssumption DEF Current, Withdrawal
  <2>3. Knows(p)'
    <3>1. Claimed(p)' = Claimed(p) /\ Claimed(p) \subseteq Withdrawal
      BY <1>0, <1>6, Zenon DEF TypeOK, LocalState, Claimed
    <3>2. \A v \in Claimed(p)' : rows'[v].status # "absent"
      BY <1>5, <3>1, Zenon
         DEF IInv, ReplicasKnowTheirRows, Knows, RowsAdvance, StatusOf
    <3> QED
      BY <1>3, <1>4, <2>1, <2>2, <3>2, Zenon DEF Knows, StatusOf
  <2> QED
    BY <1>0, <1>5, <2>1, <2>3, OthersKnow, Zenon DEF IInv
<1> QED
  BY <1>7, <1>8, <1>9, <1>10, <1>11, <1>12, Zenon DEF IInv

\* Blocks, evictions and reorgs: no nonce is mined twice.
LEMMA NetworkPreserves ==
    ASSUME IInv, Network
    PROVE  IInv'
<1>0. TypeOK
  BY DEF IInv
<1>1. UNCHANGED <<db, worker, wire>> /\ faultsLeft' \in Nat
  <2>1. UNCHANGED <<db, worker, wire>>
    BY Zenon DEF Network, Block, MineEmpty, MineTx, Drop, Reorg
  <2>2. NoFault \/ \E kind : Fault(kind)
    BY Zenon DEF Network, Block, MineEmpty, MineTx, Drop, Reorg
  <2> QED
    BY <1>0, <2>1, <2>2, FaultType, Zenon
<1> DEFINE Goal ==
      /\ mempool' \subseteq Tx /\ mined' \subseteq Inclusion /\ head' \in Nat
      /\ ChainIsOrderly'
<1>2. Goal
  <2> USE DEF IInv, TypeOK, ChainIsOrderly, Inclusion
  <2>1. CASE MineEmpty
    BY <1>1, <2>1 DEF MineEmpty
  <2>2. ASSUME NEW tx \in mempool, NEW success \in BOOLEAN, MineTx(tx, success)
        PROVE  Goal
    <3> DEFINE m == [tx |-> tx, height |-> head + 1, success |-> success]
    <3>1. tx \in Tx /\ tx \in wire /\ m \in Inclusion /\ m.tx = tx
      OBVIOUS
    <3>2. mined' = mined \cup {m} /\ mempool' \subseteq mempool /\ head' = head + 1
      BY <2>2, Zenon DEF MineTx
    <3>3. \A i \in mined : i.tx.nonce # tx.nonce
      BY <2>2, Zenon DEF MineTx, TxNonces, MinedTxs
    <3> HIDE DEF m
    <3> QED
      BY <1>1, <3>1, <3>2, <3>3
  <2>3. ASSUME NEW tx \in mempool, Drop(tx)
        PROVE  Goal
    BY <1>1, <2>3, Zenon DEF Drop
  <2>4. ASSUME NEW depth \in 1 .. MaxReorg, Reorg(depth)
        PROVE  Goal
    <3>1. /\ mined' \subseteq mined /\ head' = head + 1
          /\ mempool' \subseteq mempool \cup {m.tx : m \in mined}
      BY <2>4, Zenon DEF Reorg
    <3> QED
      BY <1>1, <3>1
  <2> QED
    BY <2>1, <2>2, <2>3, <2>4, Zenon DEF Network, Block
<1>3. TypeOK'
  BY <1>0, <1>1, <1>2, Zenon DEF TypeOK, db
<1>4. SignedRowsCarryTheirHash' /\ RecordedNonces' /\ NoncesNeverShared'
  BY <1>1, Zenon
     DEF IInv, SignedRowsCarryTheirHash, RecordedNonces, NoncesNeverShared,
         StatusOf, db
<1>5. RowsAdvance
  BY <1>1 DEF RowsAdvance, db
<1> QED
  BY <1>1, <1>2, <1>3, <1>4, <1>5, AllKnow, Zenon DEF IInv

\* The empty tables satisfy the invariant.
LEMMA InitEstablishes == Init => IInv
<1> SUFFICES ASSUME Init PROVE IInv
  BY Zenon
<1>1. TypeOK
  BY WithdrawalsAssumption, OpeningAssumption, Zenon
     DEF Init, TypeOK, Row, Status, LocalState, Idle, ProgramCounter
<1>2. SignedRowsCarryTheirHash /\ NoncesNeverShared /\ RecordedNonces
  BY Zenon
     DEF Init, SignedRowsCarryTheirHash, NoncesNeverShared, RecordedNonces,
         StatusOf
<1>3. ChainIsOrderly
  BY Zenon DEF Init, ChainIsOrderly
<1>4. ReplicasKnowTheirRows
  BY Zenon DEF Init, ReplicasKnowTheirRows, Knows, Idle, Claimed
<1> QED
  BY <1>1, <1>2, <1>3, <1>4, Zenon DEF IInv

\* Every step of a request, a replica or the network preserves it.
LEMMA NextPreserves == IInv /\ [Next]_vars => IInv'
<1> SUFFICES ASSUME IInv, [Next]_vars PROVE IInv'
  BY Zenon
<1>1. CASE UNCHANGED vars
  BY <1>1 DEF vars, db, chain, IInv, TypeOK, SignedRowsCarryTheirHash,
       NoncesNeverShared, RecordedNonces, ChainIsOrderly,
       ReplicasKnowTheirRows, Knows, Claimed, Current, Batch, StatusOf
<1>2. ASSUME NEW w \in Withdrawal, Request(w) PROVE IInv'
  BY <1>2, RequestPreserves, Zenon
<1>3. ASSUME NEW p \in Workers, NEW w \in Withdrawal, ItemStep(p, w)
      PROVE  IInv'
  <2>1. CASE RecoverStep(p, w)
    BY <2>1, QuietItemPreserves, SendPreserves, Zenon DEF RecoverStep
  <2>2. CASE SignStep(p, w)
    BY <2>2, QuietItemPreserves, SendPreserves, SignPreserves, RecordPreserves,
       Zenon
       DEF SignStep
  <2>3. CASE MarkStep(p, w)
    BY <2>3, QuietItemPreserves, RecordPreserves, Zenon DEF MarkStep
  <2>4. CASE ConfirmStep(p, w)
    BY <2>4, QuietItemPreserves, RecordPreserves, Zenon DEF ConfirmStep
  <2> QED
    BY <1>3, <2>1, <2>2, <2>3, <2>4, Zenon DEF ItemStep
<1>4. ASSUME NEW p \in Workers, Pass(p) \/ Crash(p) PROVE IInv'
  BY <1>4, PassPreserves
<1>5. CASE Network
  BY <1>5, NetworkPreserves
<1> QED
  BY <1>1, <1>2, <1>3, <1>4, <1>5, Zenon DEF Next, Replica

\* The inductive invariant of the withdrawal path: typed state, hashes before
\* broadcasts, private nonces, and replicas whose stale snapshots still tell them
\* enough (pipeline.rs run_once).
THEOREM Invariance == Spec => []IInv
BY InitEstablishes, NextPreserves, PTL DEF Spec

\* Every reachable state is well typed.
THEOREM TypeCorrect == Spec => []TypeOK
<1>1. IInv => TypeOK
  BY DEF IInv
<1> QED
  BY <1>1, Invariance, PTL

\* The crash-safety hinge of sign_and_broadcast: a row in signing, or past it,
\* always has the durable hash recovery looks up.
THEOREM HashBeforeBroadcast == Spec => []SignedRowsCarryTheirHash
<1>1. IInv => SignedRowsCarryTheirHash
  BY DEF IInv
<1> QED
  BY <1>1, Invariance, PTL

\* No two withdrawals are ever signed with the same nonce, and nothing sent for
\* a withdrawal uses another nonce than the one it recorded.
THEOREM NonceSafety == Spec => []NoncesNeverShared
<1>1. IInv => NoncesNeverShared
  BY Zenon DEF IInv
<1> QED
  BY <1>1, Invariance, PTL

\* However often a withdrawal is re-signed and re-sent, by however many
\* replicas, across crashes and reorgs, it is paid at most once.
THEOREM PaidAtMostOnce == Spec => []AtMostOnePayout
<1>1. IInv => AtMostOnePayout
  <2> SUFFICES ASSUME IInv, NEW m1 \in mined, NEW m2 \in mined,
                      m1.tx.w = m2.tx.w
               PROVE  m1 = m2
    BY DEF AtMostOnePayout
  <2>1. m1.tx \in wire /\ m2.tx \in wire
    BY Zenon DEF IInv, ChainIsOrderly
  <2>2. m1.tx.nonce = m2.tx.nonce
    BY <2>1 DEF IInv, NoncesNeverShared
  <2> QED
    BY <2>2 DEF IInv, ChainIsOrderly
<1> QED
  BY <1>1, Invariance, PTL
===============================================================================
