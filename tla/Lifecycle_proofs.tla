--------------------------- MODULE Lifecycle_proofs ---------------------------
(***************************************************************************)
(* Journal, outbox, nonce counter, signed transactions and terminal        *)
(* statuses only grow; the ledger and the outbox follow the lifecycle of   *)
(* every withdrawal.                                                       *)
(***************************************************************************)
EXTENDS Withdrawals_proofs

\* The actions that write the tables the lifecycle is about.
Writes ==
    \/ \E w \in Withdrawal : Request(w)
    \/ \E p \in Workers, w \in Withdrawal :
         \/ \E hint \in {0} \cup PendingNonce, fee \in EstimateFees :
              Sign(p, w, hint, fee)
         \/ MarkBroadcast(p, w) \/ FailAndRelease(p, w) \/ Progress(p, w)
         \/ SettleSuccess(p, w) \/ SettleFailure(p, w)

\* A step is one of the database transactions, or leaves the tables alone.
LEMMA WritesOrNot ==
    ASSUME [Next]_vars
    PROVE  Writes \/ UNCHANGED db
<1>1. CASE UNCHANGED vars
  BY <1>1 DEF vars
<1>2. ASSUME NEW p \in Workers, NEW w \in Withdrawal, ItemStep(p, w)
      PROVE  Writes \/ UNCHANGED db
  <2>1. CASE RecoverStep(p, w)
    BY <2>1 DEF RecoverStep, RecoverLookup, Resend
  <2>2. CASE SignStep(p, w)
    BY <2>2 DEF SignStep, SignSkipped, SignFails, Send, CheckBeforeRelease,
         ReleaseSkipped, Writes
  <2>3. CASE MarkStep(p, w)
    BY <2>3 DEF MarkStep, MarkSkipped, MarkFails, Writes
  <2>4. CASE ConfirmStep(p, w)
    BY <2>4
       DEF ConfirmStep, InFlightLookup, SettleRefused, RevertRefused, Writes
  <2> QED
    BY <1>2, <2>1, <2>2, <2>3, <2>4, Zenon DEF ItemStep
<1>3. ASSUME NEW p \in Workers, Pass(p) \/ Crash(p)
      PROVE  UNCHANGED db
  BY <1>3
     DEF Pass, StartRecovery, StartApproved, StartInFlight, PassDone, Crash
<1>4. CASE Network
  BY <1>4 DEF Network, Block, MineEmpty, MineTx, Drop, Reorg
<1>5. CASE \E w \in Withdrawal : Request(w)
  BY <1>5 DEF Writes
<1> QED
  BY <1>1, <1>2, <1>3, <1>4, <1>5 DEF Next, Replica

\* Nothing recorded is ever taken back: journal, outbox, nonce counter, signed
\* transaction, terminal status.
THEOREM HistorySafety == Spec => HistoryOnlyGrows
<1>1. IInv /\ [Next]_vars => [HistoryStep]_vars
  <2> SUFFICES ASSUME IInv, [Next]_vars PROVE HistoryStep
    OBVIOUS
  <2>0. /\ rows \in [Withdrawal -> Row] /\ nextNonce \in Nat
        /\ SignedRowsCarryTheirHash
    BY DEF IInv, TypeOK
  <2>1. CASE UNCHANGED db
    BY <2>0, <2>1 DEF db, HistoryStep
  <2>2. ASSUME NEW w \in Withdrawal, Request(w) PROVE HistoryStep
    <3>1. /\ UNCHANGED nextNonce /\ ledger.journal \subseteq ledger'.journal
          /\ outbox \subseteq outbox'
      BY <2>2, JournalOfOperations DEF Request, CreateDenied, CreateReserved,
           Approve, Cancel, ReleaseIfReserved, Enqueue
    <3>2. /\ \A v \in Withdrawal \ {w} : rows'[v] = rows[v]
          /\ rows'[w].signed = rows[w].signed
          /\ StatusOf(w) \in {"absent", "validated", "approved"}
      BY <2>0, <2>2, CancelEdge
         DEF Request, CreateDenied, CreateReserved, NewRequest, Approve,
             Cancel, SetStatus, SignedRowsCarryTheirHash, Row
    <3> QED
      BY <2>0, <3>1, <3>2 DEF HistoryStep, IsTerminal, StatusOf
  <2>3. ASSUME NEW p \in Workers, NEW w \in Withdrawal,
               NEW hint \in {0} \cup PendingNonce, NEW fee \in EstimateFees,
               Sign(p, w, hint, fee)
        PROVE  HistoryStep
    <3>1. hint \in Nat
      BY WithdrawalsAssumption DEF PendingNonce
    <3>2. nextNonce <= nextNonce' /\ UNCHANGED <<ledger, outbox>>
      BY <2>0, <2>3, <3>1 DEF Sign, AllocateNonce
    <3>3. /\ \A v \in Withdrawal \ {w} : rows'[v] = rows[v]
          /\ rows[w].signed = NoTx /\ rows[w].status = "approved"
      BY <2>0, <2>3, Zenon DEF Sign, SignedRowsCarryTheirHash, StatusOf
    <3> QED
      BY <3>2, <3>3 DEF HistoryStep, IsTerminal
  <2>4. ASSUME NEW p \in Workers, NEW w \in Withdrawal,
               \/ MarkBroadcast(p, w) \/ FailAndRelease(p, w) \/ Progress(p, w)
               \/ SettleSuccess(p, w) \/ SettleFailure(p, w)
        PROVE  HistoryStep
    <3>1. UNCHANGED nextNonce /\ outbox \subseteq outbox'
      BY <2>4, Zenon
         DEF MarkBroadcast, FailAndRelease, Progress, SettleSuccess,
             SettleFailure, Enqueue
    <3>2. ledger.journal \subseteq ledger'.journal
      <4>1. ledger.journal \subseteq Settled(w).journal
        BY JournalOfOperations, Zenon DEF Settled
      <4>2. ledger.journal \subseteq Reverted(w).journal
        <5>1. ledger.journal \subseteq ReverseBroadcast(ledger, w, AmountOf[w]).journal
          BY JournalOfPost DEF ReverseBroadcast
        <5> QED
          BY <5>1, JournalOfOperations, Zenon DEF Reverted
      <4>3. ledger.journal \subseteq RecordBroadcast(ledger, w, AmountOf[w]).journal
        BY JournalOfPost DEF RecordBroadcast
      <4>4. ledger.journal \subseteq ReleaseIfReserved(w).journal
        BY JournalOfOperations, Zenon DEF ReleaseIfReserved
      <4> QED
        BY <2>4, <4>1, <4>2, <4>3, <4>4, Zenon
           DEF MarkBroadcast, FailAndRelease, Progress, SettleSuccess,
               SettleFailure
    <3>3. \E status : SetStatus(w, status)
      BY <2>4 DEF MarkBroadcast, FailAndRelease, Progress, SettleSuccess,
           SettleFailure
    <3>4. /\ \A v \in Withdrawal \ {w} : rows'[v] = rows[v]
          /\ rows'[w].signed = rows[w].signed
      BY <2>0, <3>3, Zenon DEF SetStatus, Row
    <3>5. IsTerminal(rows[w].status) => rows'[w] = rows[w]
      <4>1. CASE Progress(p, w)
        BY <2>0, <4>1, Zenon DEF Progress, SetStatus, Row, StatusOf, IsTerminal
      <4> QED
        BY <2>4, <4>1 DEF MarkBroadcast, FailAndRelease, SettleSuccess,
             SettleFailure, IsTerminal, StatusOf
    <3> QED
      BY <2>0, <3>1, <3>2, <3>4, <3>5 DEF HistoryStep
  <2> QED
    BY <2>1, <2>2, <2>3, <2>4, WritesOrNot, Zenon DEF Writes
<1> QED
  BY <1>1, Invariance, PTL DEF Spec, HistoryOnlyGrows

-------------------------------------------------------------------------------
(* What one step adds to the postings and events of a lifecycle.            *)

\* A step that touches only withdrawal w leaves the others' lifecycle alone.
LEMMA OtherLifecycles ==
    ASSUME NEW v \in Withdrawal, Lifecycle(v), rows'[v] = rows[v],
           \A kind : kind # "network_fee" =>
             (<<kind, v>> \in Keys(ledger') <=> <<kind, v>> \in Keys(ledger)),
           \A kind : <<kind, v>> \in outbox' <=> <<kind, v>> \in outbox
    PROVE  Lifecycle(v)'
BY DEF Lifecycle, Posted, StatusOf

\* One withdrawal changes its row, posts kinds and enqueues events.
LEMMA OneLifecycle ==
    ASSUME LedgerMatchesLifecycle, rows \in [Withdrawal -> Row],
           NEW w \in Withdrawal,
           \A v \in Withdrawal \ {w} : rows'[v] = rows[v],
           \A kind : \A v \in Withdrawal \ {w} : kind # "network_fee" =>
             (<<kind, v>> \in Keys(ledger') <=> <<kind, v>> \in Keys(ledger)),
           \A kind : \A v \in Withdrawal \ {w} :
             <<kind, v>> \in outbox' <=> <<kind, v>> \in outbox,
           Lifecycle(w)'
    PROVE  LedgerMatchesLifecycle'
<1> SUFFICES ASSUME NEW v \in Withdrawal, v # w
             PROVE  Lifecycle(v)'
  BY DEF LedgerMatchesLifecycle
<1> QED
  BY OtherLifecycles DEF LedgerMatchesLifecycle

\* Nothing of the database that the lifecycle reads changes.
LEMMA SameLifecycles ==
    ASSUME LedgerMatchesLifecycle, UNCHANGED <<rows, ledger, outbox>>
    PROVE  LedgerMatchesLifecycle'
BY Zenon DEF LedgerMatchesLifecycle, Lifecycle, Posted, StatusOf

\* The postings of settle_success and settle_failure, seen through their keys.
LEMMA SettlementKeys ==
    ASSUME NEW w
    PROVE  /\ Keys(Settled(w)) \in
                {Keys(ledger) \cup {<<"withdrawal_settle", w>>},
                 Keys(ledger) \cup {<<"withdrawal_settle", w>>,
                                   <<"network_fee", w>>}}
           /\ Keys(Reverted(w)) \in
                {Keys(ledger) \cup {<<"withdrawal_broadcast_reversal", w>>,
                                   <<"withdrawal_release", w>>},
                 Keys(ledger) \cup {<<"withdrawal_broadcast_reversal", w>>,
                                   <<"withdrawal_release", w>>,
                                   <<"network_fee", w>>}}
<1>1. Keys(SettleWithdrawal(ledger, w, UserOf[w], AmountOf[w]))
        = Keys(ledger) \cup {<<"withdrawal_settle", w>>}
  BY KeysOfOperations
<1>2. Keys(ReleaseReservation(ReverseBroadcast(ledger, w, AmountOf[w]),
                              w, UserOf[w], AmountOf[w]))
        = Keys(ledger) \cup {<<"withdrawal_broadcast_reversal", w>>,
                             <<"withdrawal_release", w>>}
  <2> DEFINE back == ReverseBroadcast(ledger, w, AmountOf[w])
  <2>1. Keys(back) = Keys(ledger) \cup {<<"withdrawal_broadcast_reversal", w>>}
    BY KeysOfPost DEF ReverseBroadcast
  <2> HIDE DEF back
  <2>2. Keys(ReleaseReservation(back, w, UserOf[w], AmountOf[w]))
          = Keys(back) \cup {<<"withdrawal_release", w>>}
    BY KeysOfOperations
  <2>3. Keys(ReleaseReservation(back, w, UserOf[w], AmountOf[w]))
          = Keys(ledger) \cup {<<"withdrawal_broadcast_reversal", w>>,
                               <<"withdrawal_release", w>>}
    BY <2>1, <2>2
  <2> QED
    BY <2>3 DEF back
<1>3. \A l : Keys(RecordNetworkFee(l, w, GasFee)) \in
               {Keys(l), Keys(l) \cup {<<"network_fee", w>>}}
  BY KeysOfOperations, Zenon
<1> QED
  BY <1>1, <1>2, <1>3 DEF Settled, Reverted

LEMMA KeysOfSettlement ==
    ASSUME NEW w
    PROVE  \A kind, v : kind # "network_fee" =>
             /\ <<kind, v>> \in Keys(Settled(w)) <=>
                  \/ <<kind, v>> \in Keys(ledger)
                  \/ v = w /\ kind = "withdrawal_settle"
             /\ <<kind, v>> \in Keys(Reverted(w)) <=>
                  \/ <<kind, v>> \in Keys(ledger)
                  \/ v = w /\ kind \in {"withdrawal_broadcast_reversal",
                                        "withdrawal_release"}
<1>1. ASSUME NEW kind, NEW v, kind # "network_fee"
      PROVE  <<kind, v>> # <<"network_fee", w>>
  BY <1>1
<1> QED
  BY <1>1, SettlementKeys

\* SetStatus touches one row, and its status only.
LEMMA OneRow ==
    ASSUME rows \in [Withdrawal -> Row], NEW w \in Withdrawal, NEW status,
           SetStatus(w, status)
    PROVE  /\ rows'[w].status = status /\ rows'[w].reserved = rows[w].reserved
           /\ \A v \in Withdrawal \ {w} : rows'[v] = rows[v]
BY DEF SetStatus, Row

\* A step neither posts this kind for w, nor enqueues this event.
KeepsPosting(kind, w) == Posted(kind, w)' <=> Posted(kind, w)
KeepsEvent(kind, w) == <<kind, w>> \in outbox' <=> <<kind, w>> \in outbox

\* Enqueue adds its event and no other.
LEMMA OneEvent ==
    ASSUME NEW w, NEW kind, Enqueue(kind, w)
    PROVE  \A k, v : <<k, v>> \in outbox' <=>
             <<k, v>> \in outbox \/ (k = kind /\ v = w)
BY DEF Enqueue

\* Releasing a reserved withdrawal adds the key of its release and no other.
LEMMA ReleaseKeys ==
    ASSUME NEW w \in Withdrawal, rows[w].reserved
    PROVE  \A k, v : <<k, v>> \in Keys(ReleaseIfReserved(w)) <=>
             <<k, v>> \in Keys(ledger) \/ (k = "withdrawal_release" /\ v = w)
BY KeysOfPost DEF ReleaseIfReserved, ReleaseReservation

\* create, approve and cancel keep the postings in step with the status.
LEMMA RequestLifecycle ==
    ASSUME IInv, LedgerMatchesLifecycle, NEW w \in Withdrawal, Request(w)
    PROVE  LedgerMatchesLifecycle'
<1> USE DEF FundsMayHaveLeft
<1>0. rows \in [Withdrawal -> Row] /\ Lifecycle(w)
  BY DEF IInv, TypeOK, LedgerMatchesLifecycle
<1>1. CASE CreateDenied(w)
  <2>1. /\ rows'[w].status = "failed" /\ rows'[w].reserved = rows[w].reserved
        /\ \A v \in Withdrawal \ {w} : rows'[v] = rows[v]
        /\ rows[w].status = "absent" /\ UNCHANGED <<ledger, outbox>>
    BY <1>0, <1>1 DEF CreateDenied, NewRequest, StatusOf, Row
  <2>2. Lifecycle(w)'
    BY <1>0, <2>1, Zenon DEF Lifecycle, Posted, StatusOf
  <2> QED
    BY <1>0, <2>1, <2>2, OneLifecycle
<1>2. ASSUME NEW held \in BOOLEAN, CreateReserved(w, held)
      PROVE  LedgerMatchesLifecycle'
  <2>1. \A k, v : <<k, v>> \in Keys(ledger') <=>
          <<k, v>> \in Keys(ledger) \/ (k = "withdrawal_reserve" /\ v = w)
    BY <1>2, KeysOfPost DEF CreateReserved, ReserveWithdrawal
  <2>2. \A k, v : <<k, v>> \in outbox' <=>
          <<k, v>> \in outbox \/ (k = "requested" /\ v = w)
    BY <1>2, OneEvent, Zenon DEF CreateReserved
  <2>3. /\ rows'[w].status \in {"validated", "approved"} /\ rows'[w].reserved
        /\ \A v \in Withdrawal \ {w} : rows'[v] = rows[v]
        /\ rows[w].status = "absent"
    BY <1>0, <1>2, Zenon DEF CreateReserved, NewRequest, StatusOf
  <2>4. /\ Posted("withdrawal_reserve", w)'
        /\ KeepsPosting("withdrawal_release", w)
        /\ KeepsPosting("withdrawal_settle", w)
        /\ KeepsPosting("withdrawal_broadcast", w)
        /\ KeepsPosting("withdrawal_broadcast_reversal", w)
    BY <2>1 DEF KeepsPosting, Posted
  <2>5. /\ <<"requested", w>> \in outbox' /\ KeepsEvent("broadcast", w)
        /\ KeepsEvent("completed", w) /\ KeepsEvent("failed", w)
    BY <2>2 DEF KeepsEvent
  <2>6. Lifecycle(w)'
    BY <1>0, <2>3, <2>4, <2>5, Zenon
       DEF Lifecycle, StatusOf, KeepsPosting, KeepsEvent
  <2> QED
    BY <1>0, <2>1, <2>2, <2>3, <2>6, OneLifecycle, Zenon
<1>3. CASE Approve(w)
  <2>1. /\ rows'[w].status = "approved" /\ rows'[w].reserved = rows[w].reserved
        /\ \A v \in Withdrawal \ {w} : rows'[v] = rows[v]
        /\ rows[w].status = "validated" /\ UNCHANGED <<ledger, outbox>>
    BY <1>0, <1>3, OneRow, Zenon DEF Approve, StatusOf
  <2>2. Lifecycle(w)'
    BY <1>0, <2>1, Zenon DEF Lifecycle, Posted, StatusOf
  <2> QED
    BY <1>0, <2>1, <2>2, OneLifecycle, Zenon
<1>4. CASE Cancel(w)
  <2>1. rows[w].reserved
    BY <1>0, <1>4, CancelEdge, Zenon DEF Lifecycle
  <2>2. \A k, v : <<k, v>> \in Keys(ledger') <=>
          <<k, v>> \in Keys(ledger) \/ (k = "withdrawal_release" /\ v = w)
    BY <1>4, <2>1, ReleaseKeys, Zenon DEF Cancel
  <2>3. /\ rows'[w].status = "cancelled" /\ rows'[w].reserved
        /\ rows[w].status \in {"validated", "approved"} /\ outbox' = outbox
    BY <1>0, <1>4, <2>1, CancelEdge, OneRow, Zenon DEF Cancel, StatusOf
  <2>4. /\ KeepsPosting("withdrawal_reserve", w)
        /\ Posted("withdrawal_release", w)'
        /\ KeepsPosting("withdrawal_settle", w)
        /\ KeepsPosting("withdrawal_broadcast", w)
        /\ KeepsPosting("withdrawal_broadcast_reversal", w)
    BY <2>2 DEF KeepsPosting, Posted
  <2>5. /\ KeepsEvent("requested", w) /\ KeepsEvent("broadcast", w)
        /\ KeepsEvent("completed", w) /\ KeepsEvent("failed", w)
    BY <2>3, Zenon DEF KeepsEvent
  <2>6. Lifecycle(w)'
    BY <1>0, <2>1, <2>3, <2>4, <2>5, Zenon
       DEF Lifecycle, StatusOf, KeepsPosting, KeepsEvent
  <2> QED
    BY <1>0, <1>4, <2>2, <2>6, OneRow, OneLifecycle, Zenon DEF Cancel
<1> QED
  BY <1>1, <1>2, <1>3, <1>4 DEF Request

\* The transactions of the pipeline that record an outcome keep the postings in
\* step with the status, too.
LEMMA RecordLifecycle ==
    ASSUME IInv, LedgerMatchesLifecycle, NEW p \in Workers,
           NEW w \in Withdrawal,
           \/ MarkBroadcast(p, w) \/ FailAndRelease(p, w) \/ Progress(p, w)
           \/ SettleSuccess(p, w) \/ SettleFailure(p, w)
    PROVE  LedgerMatchesLifecycle'
<1> USE DEF FundsMayHaveLeft, IsTerminal
<1>0. /\ rows \in [Withdrawal -> Row] /\ Lifecycle(w)
      /\ TypeOK /\ Knows(p) /\ StatusOf(w) \in Status
  BY Zenon
     DEF IInv, TypeOK, LedgerMatchesLifecycle, ReplicasKnowTheirRows, Row,
         StatusOf
<1>1. CASE MarkBroadcast(p, w)
  <2>1. \A k, v : <<k, v>> \in Keys(ledger') <=>
          <<k, v>> \in Keys(ledger) \/ (k = "withdrawal_broadcast" /\ v = w)
    <3>1. ledger' = RecordBroadcast(ledger, w, AmountOf[w])
      BY <1>1, Zenon DEF MarkBroadcast
    <3>2. Keys(RecordBroadcast(ledger, w, AmountOf[w]))
            = Keys(ledger) \cup {<<"withdrawal_broadcast", w>>}
      BY KeysOfPost, Zenon DEF RecordBroadcast
    <3>3. Keys(ledger') = Keys(ledger) \cup {<<"withdrawal_broadcast", w>>}
      BY <3>1, <3>2, Zenon
    <3> QED
      BY <3>3, Zenon
  <2>2. \A k, v : <<k, v>> \in outbox' <=>
          <<k, v>> \in outbox \/ (k = "broadcast" /\ v = w)
    BY <1>1, OneEvent, Zenon DEF MarkBroadcast
  <2>3. /\ rows'[w].status = "broadcast" /\ rows'[w].reserved = rows[w].reserved
        /\ rows[w].status = "signing"
    BY <1>0, <1>1, OneRow, Zenon DEF MarkBroadcast, StatusOf
  <2>4. /\ KeepsPosting("withdrawal_reserve", w)
        /\ KeepsPosting("withdrawal_release", w)
        /\ KeepsPosting("withdrawal_settle", w)
        /\ Posted("withdrawal_broadcast", w)'
        /\ KeepsPosting("withdrawal_broadcast_reversal", w)
    BY <2>1 DEF KeepsPosting, Posted
  <2>5. /\ KeepsEvent("requested", w) /\ <<"broadcast", w>> \in outbox'
        /\ KeepsEvent("completed", w) /\ KeepsEvent("failed", w)
    BY <2>2 DEF KeepsEvent
  <2>6. Lifecycle(w)'
    BY <1>0, <2>3, <2>4, <2>5, Zenon
       DEF Lifecycle, StatusOf, KeepsPosting, KeepsEvent
  <2> QED
    BY <1>0, <1>1, <2>1, <2>2, <2>6, OneRow, OneLifecycle, Zenon
       DEF MarkBroadcast
<1>2. CASE FailAndRelease(p, w)
  <2>0. StatusOf(w) # "absent"
    BY <1>0, <1>2, CurrentIsClaimed, Zenon DEF FailAndRelease, Knows
  <2>1. rows[w].reserved
    BY <1>0, <1>2, <2>0, Zenon DEF FailAndRelease, Lifecycle
  <2>2. \A k, v : <<k, v>> \in Keys(ledger') <=>
          <<k, v>> \in Keys(ledger) \/ (k = "withdrawal_release" /\ v = w)
    BY <1>2, <2>1, ReleaseKeys, Zenon DEF FailAndRelease
  <2>3. \A k, v : <<k, v>> \in outbox' <=>
          <<k, v>> \in outbox \/ (k = "failed" /\ v = w)
    BY <1>2, OneEvent, Zenon DEF FailAndRelease
  <2>4. /\ rows'[w].status = "failed" /\ rows'[w].reserved
        /\ ~IsTerminal(rows[w].status) /\ ~FundsMayHaveLeft(rows[w].status)
    BY <1>0, <1>2, <2>1, OneRow, Zenon DEF FailAndRelease, StatusOf
  <2>5. /\ KeepsPosting("withdrawal_reserve", w)
        /\ Posted("withdrawal_release", w)'
        /\ KeepsPosting("withdrawal_settle", w)
        /\ KeepsPosting("withdrawal_broadcast", w)
        /\ KeepsPosting("withdrawal_broadcast_reversal", w)
    BY <2>2 DEF KeepsPosting, Posted
  <2>6. /\ KeepsEvent("requested", w) /\ KeepsEvent("broadcast", w)
        /\ KeepsEvent("completed", w) /\ <<"failed", w>> \in outbox'
    BY <2>3 DEF KeepsEvent
  <2>7. Lifecycle(w)'
    BY <1>0, <2>1, <2>4, <2>5, <2>6, Zenon
       DEF Lifecycle, StatusOf, KeepsPosting, KeepsEvent
  <2> QED
    BY <1>0, <1>2, <2>2, <2>3, <2>7, OneRow, OneLifecycle, Zenon
       DEF FailAndRelease
<1>3. CASE Progress(p, w)
  <2>1. /\ UNCHANGED <<ledger, outbox>>
        /\ SetStatus(w, IF StatusOf(w) = "broadcast" THEN "confirming"
                        ELSE StatusOf(w))
    BY <1>3, Zenon DEF Progress
  <2>2. /\ rows'[w].status = IF StatusOf(w) = "broadcast" THEN "confirming"
                             ELSE StatusOf(w)
        /\ rows'[w].reserved = rows[w].reserved
        /\ \A v \in Withdrawal \ {w} : rows'[v] = rows[v]
    BY <1>0, <2>1, OneRow, Zenon
  <2>3. Lifecycle(w)'
    BY <1>0, <2>1, <2>2, Zenon DEF Lifecycle, Posted, StatusOf
  <2> QED
    BY <1>0, <2>1, <2>2, <2>3, OneLifecycle, Zenon
<1>4. CASE SettleSuccess(p, w)
  <2>1. \A k, v : k # "network_fee" =>
          (<<k, v>> \in Keys(ledger') <=>
             <<k, v>> \in Keys(ledger) \/ (v = w /\ k = "withdrawal_settle"))
    BY <1>4, KeysOfSettlement, Zenon DEF SettleSuccess
  <2>2. \A k, v : <<k, v>> \in outbox' <=>
          <<k, v>> \in outbox \/ (k = "completed" /\ v = w)
    BY <1>4, OneEvent, Zenon DEF SettleSuccess
  <2>3. /\ rows'[w].status = "completed" /\ rows'[w].reserved = rows[w].reserved
        /\ rows[w].status \in {"broadcast", "confirming"}
    BY <1>0, <1>4, OneRow, Zenon DEF SettleSuccess, StatusOf
  <2>4. /\ KeepsPosting("withdrawal_reserve", w)
        /\ KeepsPosting("withdrawal_release", w)
        /\ Posted("withdrawal_settle", w)'
        /\ KeepsPosting("withdrawal_broadcast", w)
        /\ KeepsPosting("withdrawal_broadcast_reversal", w)
    BY <2>1 DEF KeepsPosting, Posted
  <2>5. /\ KeepsEvent("requested", w) /\ KeepsEvent("broadcast", w)
        /\ <<"completed", w>> \in outbox' /\ KeepsEvent("failed", w)
    BY <2>2 DEF KeepsEvent
  <2>6. Lifecycle(w)'
    BY <1>0, <2>3, <2>4, <2>5, Zenon
       DEF Lifecycle, StatusOf, KeepsPosting, KeepsEvent
  <2> QED
    BY <1>0, <1>4, <2>1, <2>2, <2>6, OneRow, OneLifecycle, Zenon
       DEF SettleSuccess
<1>5. CASE SettleFailure(p, w)
  <2>1. \A k, v : k # "network_fee" =>
          (<<k, v>> \in Keys(ledger') <=>
             \/ <<k, v>> \in Keys(ledger)
             \/ v = w /\ k \in {"withdrawal_broadcast_reversal",
                                "withdrawal_release"})
    BY <1>5, KeysOfSettlement, Zenon DEF SettleFailure
  <2>2. \A k, v : <<k, v>> \in outbox' <=>
          <<k, v>> \in outbox \/ (k = "failed" /\ v = w)
    BY <1>5, OneEvent, Zenon DEF SettleFailure
  <2>3. StatusOf(w) \in {"broadcast", "confirming"}
    BY <1>0, <1>5, CurrentIsClaimed, Zenon DEF SettleFailure, Knows, At
  <2>4. rows'[w].status = "failed" /\ rows'[w].reserved = rows[w].reserved
    BY <1>0, <1>5, OneRow, Zenon DEF SettleFailure
  <2>5. /\ KeepsPosting("withdrawal_reserve", w)
        /\ Posted("withdrawal_release", w)'
        /\ KeepsPosting("withdrawal_settle", w)
        /\ KeepsPosting("withdrawal_broadcast", w)
        /\ Posted("withdrawal_broadcast_reversal", w)'
    BY <2>1 DEF KeepsPosting, Posted
  <2>6. /\ KeepsEvent("requested", w) /\ KeepsEvent("broadcast", w)
        /\ KeepsEvent("completed", w) /\ <<"failed", w>> \in outbox'
    BY <2>2 DEF KeepsEvent
  <2>7. Lifecycle(w)'
    BY <1>0, <2>3, <2>4, <2>5, <2>6, Zenon
       DEF Lifecycle, StatusOf, KeepsPosting, KeepsEvent
  <2> QED
    BY <1>0, <1>5, <2>1, <2>2, <2>7, OneRow, OneLifecycle, Zenon
       DEF SettleFailure
<1> QED
  BY <1>1, <1>2, <1>3, <1>4, <1>5, Zenon

\* Every other step leaves rows, ledger and outbox alone, or signs a row.
LEMMA SignLifecycle ==
    ASSUME IInv, LedgerMatchesLifecycle, NEW p \in Workers,
           NEW w \in Withdrawal, NEW hint, NEW fee, Sign(p, w, hint, fee)
    PROVE  LedgerMatchesLifecycle'
<1>0. rows \in [Withdrawal -> Row] /\ Lifecycle(w)
  BY Zenon DEF IInv, TypeOK, LedgerMatchesLifecycle
<1>1. /\ rows'[w].status = "signing" /\ rows'[w].reserved = rows[w].reserved
      /\ \A v \in Withdrawal \ {w} : rows'[v] = rows[v]
      /\ rows[w].status = "approved" /\ UNCHANGED <<ledger, outbox>>
  BY <1>0, Zenon DEF Sign, Row, StatusOf
<1>2. Lifecycle(w)'
  BY <1>0, <1>1 DEF Lifecycle, Posted, StatusOf, FundsMayHaveLeft
<1> QED
  BY <1>0, <1>1, <1>2, OneLifecycle, Zenon

\* The status of a withdrawal, its ledger postings and its events always tell
\* the same story: reserved once, closed once, never both released and settled.
THEOREM LifecycleSafety == Spec => []LedgerMatchesLifecycle
<1>1. Init => LedgerMatchesLifecycle
  <2> SUFFICES ASSUME Init, NEW w \in Withdrawal PROVE Lifecycle(w)
    BY Zenon DEF LedgerMatchesLifecycle
  <2>1. \A kind \in {"withdrawal_reserve", "withdrawal_release",
                     "withdrawal_settle", "withdrawal_broadcast",
                     "withdrawal_broadcast_reversal"} : ~Posted(kind, w)
    BY OpeningAssumption DEF Init, Posted
  <2> QED
    BY <2>1, Zenon DEF Init, Lifecycle, StatusOf, FundsMayHaveLeft
<1>2. IInv /\ LedgerMatchesLifecycle /\ [Next]_vars => LedgerMatchesLifecycle'
  <2> SUFFICES ASSUME IInv, LedgerMatchesLifecycle, [Next]_vars
               PROVE  LedgerMatchesLifecycle'
    OBVIOUS
  <2>1. CASE UNCHANGED db
    BY <2>1, SameLifecycles, Zenon DEF db
  <2>2. CASE Writes
    BY <2>2, RequestLifecycle, SignLifecycle, RecordLifecycle DEF Writes
  <2> QED
    BY <2>1, <2>2, WritesOrNot, Zenon
<1> QED
  BY <1>1, <1>2, Invariance, PTL DEF Spec
===============================================================================
