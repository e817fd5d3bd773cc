------------------------------ MODULE Withdrawals ------------------------------
(***************************************************************************)
(* The withdrawal path: the API's WithdrawalService (create, approve,      *)
(* cancel), the worker's WithdrawalPipeline (recover, sign, broadcast,     *)
(* confirm, settle) run by any number of replicas, the withdrawals and     *)
(* chain_nonces tables, the ledger, and the EVM network they send to.      *)
(*                                                                         *)
(* A database transaction that locks the withdrawal row first is one step. *)
(* RPC calls, unlocked reads and separate transactions of one handler are  *)
(* separate steps, so replicas interleave and crash between them.          *)
(***************************************************************************)
EXTENDS Ledger

CONSTANTS
    NumWithdrawals,  \* withdrawals, numbered in created_at order
    UserOf,          \* the requesting user of each withdrawal
    AmountOf,        \* its amount
    Workers,         \* replicas of the worker binary
    BatchSize,       \* WithdrawalPipeline::batch_size
    Required,        \* confirmations the chain's finality policy asks for
    MaxReorg,        \* deepest chain reorganisation
    FeeLevels,       \* fees estimate_fees may answer with
    GasFee,          \* fee_paid of a mined transaction
    Faults,          \* the faults this instance allows (AllFaults)
    MaxFaults,       \* how many of them may happen in a behaviour
    OpeningLedger,   \* the ledger before the first request
    NoTx             \* no signed transaction

AllFaults ==
    {"sign",        \* phase 1 errs: fee estimate, signer, database
     "rpc",         \* a broadcast never reaches a node
     "lost_reply",  \* a node accepts a broadcast, the answer is lost
     "db",          \* the transaction that records a broadcast aborts
     "crash",       \* a replica dies, or an error ends its pass
     "drop",        \* a node evicts a pending transaction
     "revert",      \* a transaction is mined and reverts
     "reorg"}       \* the last blocks are replaced by a longer branch

Withdrawal == 1 .. NumWithdrawals

\* A signed transaction; its hash is as unique as this record.
Tx == [w : Withdrawal, nonce : Nat, fee : FeeLevels]

Status == {"absent", "validated", "approved", "signing", "broadcast",
           "confirming", "completed", "failed", "cancelled"}

ProgramCounter == {"idle", "recover", "resend", "mark_recovered", "mark_resent",
                   "approved", "send", "mark_signed", "check", "release",
                   "confirm", "progress", "settle", "revert"}

ASSUME WithdrawalsAssumption ==
    /\ NumWithdrawals \in Nat /\ BatchSize \in Nat
    /\ \A w \in Withdrawal : UserOf[w] \in Users /\ AmountOf[w] \in Nat \ {0}
    /\ Required \in Nat /\ MaxReorg \in Nat
    /\ GasFee \in Nat /\ MaxFaults \in Nat /\ Faults \subseteq AllFaults
    /\ NoTx \notin Tx

\* The opening ledger is well formed and knows no withdrawal yet.
ASSUME OpeningAssumption ==
    /\ OpeningLedger.balance \in [Accounts -> Int]
    /\ \A key \in Keys(OpeningLedger) :
         key[1] \in {"deposit_credit", "deposit_reversal", "custody_funding"}

VARIABLES
    rows,       \* the withdrawals table
    nextNonce,  \* chain_nonces.next_nonce of the hot wallet, 0 when absent
    ledger,     \* the ledger tables
    outbox,     \* deterministic ids of the events enqueued
    worker,     \* the local state of each replica
    wire,       \* every transaction a node ever accepted
    mempool,    \* those now pending
    mined,      \* those now in a block
    head,       \* the chain's height
    faultsLeft

db == <<rows, nextNonce, ledger, outbox>>
chain == <<wire, mempool, mined, head>>
vars == <<db, worker, chain, faultsLeft>>

Row == [status : Status, reserved : BOOLEAN, signed : Tx \cup {NoTx}]
EventId == {"requested", "broadcast", "completed", "failed"} \X Withdrawal

LocalState ==
    [pc : ProgramCounter, queue : SUBSET Withdrawal, then : SUBSET Withdrawal,
     head : Nat]
Idle == [pc |-> "idle", queue |-> {}, then |-> {}, head |-> 0]

Inclusion == [tx : Tx, height : Nat, success : BOOLEAN]

Init ==
    /\ rows = [w \in Withdrawal |->
                 [status |-> "absent", reserved |-> FALSE, signed |-> NoTx]]
    /\ nextNonce = 0
    /\ ledger = OpeningLedger
    /\ outbox = {}
    /\ worker = [p \in Workers |-> Idle]
    /\ wire = {} /\ mempool = {} /\ mined = {} /\ head = 0
    /\ faultsLeft = MaxFaults

Fault(kind) ==
    /\ kind \in Faults
    /\ faultsLeft > 0
    /\ faultsLeft' = faultsLeft - 1

NoFault == UNCHANGED faultsLeft

StatusOf(w) == rows[w].status
IsTerminal(status) == status \in {"completed", "failed", "cancelled"}
FundsMayHaveLeft(status) == status \in {"broadcast", "confirming", "completed"}

\* withdrawals_guard_transition.  The status requested is never committed:
\* create leaves it in the transaction that inserts the row.
Transitions ==
    {<<"validated", "approved">>, <<"validated", "failed">>,
     <<"validated", "cancelled">>, <<"approved", "signing">>,
     <<"approved", "failed">>, <<"approved", "cancelled">>,
     <<"signing", "broadcast">>, <<"signing", "failed">>,
     <<"broadcast", "confirming">>, <<"broadcast", "completed">>,
     <<"broadcast", "failed">>, <<"confirming", "completed">>,
     <<"confirming", "failed">>}

CanTransitionTo(from, to) == from = to \/ <<from, to>> \in Transitions

\* An illegal transition raises, and the transaction it is part of rolls back.
SetStatus(w, status) ==
    /\ CanTransitionTo(StatusOf(w), status)
    /\ rows' = [rows EXCEPT ![w].status = status]

Enqueue(kind, w) == outbox' = outbox \cup {<<kind, w>>}

-------------------------------------------------------------------------------
(* WithdrawalService.  The risk decision is left open: allow, hold, deny.   *)

\* create_withdrawal inserts the row.  A retry with a known idempotency key
\* changes nothing: it is answered with the original, or refused.
NewRequest(w) ==
    /\ StatusOf(w) = "absent"
    /\ \A v \in Withdrawal : v < w => StatusOf(v) # "absent"

\* create, denied by the risk engine: the row stays, nothing is reserved.
CreateDenied(w) ==
    /\ NewRequest(w)
    /\ rows' = [rows EXCEPT ![w].status = "failed"]
    /\ UNCHANGED <<nextNonce, ledger, outbox, worker, chain>> /\ NoFault

\* create: insert, reserve under the account lock, approve unless held, enqueue
\* the event; one transaction.  An uncovered amount rolls all of it back.
CreateReserved(w, held) ==
    LET after == ReserveWithdrawal(ledger, w, UserOf[w], AmountOf[w])
    IN  /\ NewRequest(w)
        /\ ledger.balance[Available(UserOf[w])] >= AmountOf[w]
        /\ Commits(after)
        /\ rows' = [rows EXCEPT ![w] =
                      [status |-> IF held THEN "validated" ELSE "approved",
                       reserved |-> TRUE, signed |-> NoTx]]
        /\ ledger' = after
        /\ Enqueue("requested", w)
        /\ UNCHANGED <<nextNonce, worker, chain>> /\ NoFault

Approve(w) ==
    /\ StatusOf(w) = "validated"
    /\ SetStatus(w, "approved")
    /\ UNCHANGED <<nextNonce, ledger, outbox, worker, chain>> /\ NoFault

\* Mutant: the reservation is forgotten.
NeverRelease(w) == ledger

ReleaseIfReserved(w) ==
    IF rows[w].reserved
    THEN ReleaseReservation(ledger, w, UserOf[w], AmountOf[w])
    ELSE ledger

\* cancel.  The code lets a row in signing through; the trigger has no edge
\* from there to cancelled, and the whole transaction rolls back.
Cancel(w) ==
    LET after == ReleaseIfReserved(w)
    IN  /\ ~FundsMayHaveLeft(StatusOf(w)) /\ ~IsTerminal(StatusOf(w))
        /\ Commits(after)
        /\ ledger' = after
        /\ SetStatus(w, "cancelled")
        /\ UNCHANGED <<nextNonce, outbox, worker, chain>> /\ NoFault

-------------------------------------------------------------------------------
(* The network, modelled from what the adapter asks of a node.              *)

TxNonces(txs) == {tx.nonce : tx \in txs}
MinedTxs == {m.tx : m \in mined}

\* eth_getTransactionCount(hot wallet, "pending")
PendingNonce ==
    {n \in 0 .. NumWithdrawals :
        /\ n \notin TxNonces(MinedTxs \cup mempool)
        /\ \A k \in 0 .. n - 1 : k \in TxNonces(MinedTxs \cup mempool)}

\* estimate_fees, from the node's fee history: any level.
EstimateFees == FeeLevels

\* sign_evm is deterministic: the fields decide the bytes and the hash.
SignEvm(w, nonce, fee) == [w |-> w, nonce |-> nonce, fee |-> fee]

\* A node refuses what it already knows and a nonce already used.
Refused(tx) ==
    \/ tx \in mempool
    \/ tx.nonce \in TxNonces(MinedTxs)

Accept(tx) ==
    /\ ~Refused(tx)
    /\ wire' = wire \cup {tx}
    /\ mempool' = mempool \cup {tx}
    /\ UNCHANGED <<mined, head>>

\* FinalityPolicy::confirmations_for, saturating
ConfirmationsFor(seenHead, height) ==
    (IF seenHead > height THEN seenHead - height ELSE 0) + 1

Immature(m) == ConfirmationsFor(head, m.height) < Required

\* The next block includes one transaction, in nonce order, ...
MineTx(tx, success) ==
    /\ tx \in mempool
    /\ tx.nonce \notin TxNonces(MinedTxs)
    /\ \A k \in 0 .. tx.nonce - 1 : k \in TxNonces(MinedTxs)
    /\ IF success THEN NoFault ELSE Fault("revert")
    /\ mined' = mined \cup {[tx |-> tx, height |-> head + 1,
                             success |-> success]}
    /\ mempool' = {t \in mempool : t.nonce # tx.nonce}
    /\ head' = head + 1
    /\ UNCHANGED <<db, worker, wire>>

\* ... or only deepens an earlier one.
MineEmpty ==
    /\ \E m \in mined : Immature(m)
    /\ head' = head + 1
    /\ UNCHANGED <<db, worker, wire, mempool, mined>> /\ NoFault

Drop(tx) ==
    /\ Fault("drop")
    /\ tx \in mempool
    /\ mempool' = mempool \ {tx}
    /\ UNCHANGED <<db, worker, wire, mined, head>>

\* The last depth blocks give way to a longer branch; what they included is
\* pending again.
Reorg(depth) ==
    LET undone == {m \in mined : m.height > head - depth}
    IN  /\ Fault("reorg")
        /\ undone # {}
        /\ mined' = mined \ undone
        /\ mempool' = mempool \cup {m.tx : m \in undone}
        /\ head' = head + 1
        /\ UNCHANGED <<db, worker, wire>>

-------------------------------------------------------------------------------
(* WithdrawalPipeline::run_once.  A pass recovers, then signs, then confirms. *)
(* Each stage claims a batch, drops the row locks and works on the snapshot,  *)
(* oldest first.                                                              *)

ClaimByStatus(status) ==
    LET due == {w \in Withdrawal : StatusOf(w) = status}
    IN  {w \in due : Cardinality({v \in due : v < w}) < BatchSize}

At(p, pc) == worker[p].pc = pc

\* The claims replica p has still to work on: queue, oldest first, and then
\* then, oldest first.
Batch(p) == IF worker[p].queue # {} THEN worker[p].queue ELSE worker[p].then

\* The one it is working on.
Current(p, w) == w \in Batch(p) /\ \A v \in Batch(p) : w <= v

Goto(p, pc) == worker' = [worker EXCEPT ![p].pc = pc]

\* p is done with w; stage is where its loop over the batch stands.
Finish(p, w, stage) ==
    worker' = [worker EXCEPT ![p].pc = stage, ![p].queue = @ \ {w},
                             ![p].then = @ \ {w}]

\* An error propagated by `?` ends the pass.
EndPass(p) == worker' = [worker EXCEPT ![p] = Idle]

BeginStage(p, pc, queue, then, seenHead) ==
    worker' = [worker EXCEPT ![p] = [pc |-> pc, queue |-> queue, then |-> then,
                                     head |-> seenHead]]

\* Mutant: run_once without recover_signing.
SkipRecovery(p) ==
    /\ At(p, "idle")
    /\ BeginStage(p, "recover", {}, {}, 0)
    /\ UNCHANGED <<db, chain>> /\ NoFault

\* recover_signing claims the rows stranded in signing.
StartRecovery(p) ==
    /\ At(p, "idle")
    /\ BeginStage(p, "recover", ClaimByStatus("signing"), {}, 0)
    /\ UNCHANGED <<db, chain>> /\ NoFault

\* process_approved claims the approved rows.
StartApproved(p) ==
    /\ At(p, "recover") /\ Batch(p) = {}
    /\ BeginStage(p, "approved", ClaimByStatus("approved"), {}, 0)
    /\ UNCHANGED <<db, chain>> /\ NoFault

\* process_in_flight reads the head, then claims both in-flight states.
StartInFlight(p) ==
    /\ At(p, "approved") /\ Batch(p) = {}
    /\ BeginStage(p, "confirm",
                  ClaimByStatus("broadcast"), ClaimByStatus("confirming"), head)
    /\ UNCHANGED <<db, chain>> /\ NoFault

PassDone(p) ==
    /\ At(p, "confirm") /\ Batch(p) = {}
    /\ EndPass(p)
    /\ UNCHANGED <<db, chain>> /\ NoFault

\* A replica dies and restarts, or an RPC or database error ends its pass.
Crash(p) ==
    /\ ~At(p, "idle")
    /\ Fault("crash")
    /\ EndPass(p)
    /\ UNCHANGED <<db, chain>>

-------------------------------------------------------------------------------
(* recover_signing.  A row in signing always carries its hash (see           *)
(* SignedRowsCarryTheirHash), so the branch for a missing one is dead.       *)

\* transaction_status: unknown to the node, or pending or mined.
RecoverLookup(p, w) ==
    /\ At(p, "recover") /\ Current(p, w)
    /\ Goto(p, IF rows[w].signed \in mempool \cup MinedTxs
               THEN "mark_recovered" ELSE "resend")
    /\ UNCHANGED <<db, chain>> /\ NoFault

\* Mutant: a fresh nonce.
ResignedFresh(w, fee) == SignEvm(w, nextNonce, fee)

\* rebroadcast: build again with the recorded nonce and today's fee estimate,
\* sign, send.  An error is logged and the loop goes on.
Resigned(w, fee) == SignEvm(w, rows[w].signed.nonce, fee)

Resend(p, w, fee) ==
    LET tx == Resigned(w, fee)
    IN  /\ At(p, "resend") /\ Current(p, w)
        /\ \/ Accept(tx) /\ Goto(p, "mark_resent") /\ NoFault
           \/ Accept(tx) /\ Finish(p, w, "recover") /\ Fault("lost_reply")
           \/ Refused(tx) /\ Finish(p, w, "recover") /\ UNCHANGED chain /\ NoFault
           \/ Finish(p, w, "recover") /\ UNCHANGED chain /\ Fault("rpc")
        /\ UNCHANGED db

-------------------------------------------------------------------------------
(* process_approved and sign_and_broadcast.                                  *)

\* Mutants: the node's count alone; the counter off by one.
HintNonce(hint) == hint
LastNonce(hint) == IF nextNonce > hint THEN nextNonce - 1 ELSE hint - 1

\* allocate_nonce: the larger of the table's next nonce and the hint.
AllocateNonce(hint) == IF nextNonce > hint THEN nextNonce ELSE hint

\* Mutants: the transition commits before the hash; the status is not read
\* again under the lock.
SignWithoutHash(p, w, hint, fee) ==
    /\ At(p, "approved") /\ Current(p, w)
    /\ StatusOf(w) = "approved"
    /\ SetStatus(w, "signing")
    /\ Finish(p, w, "approved")
    /\ UNCHANGED <<nextNonce, ledger, outbox, chain>> /\ NoFault
SignUnchecked(p, w, hint, fee) ==
    LET nonce == AllocateNonce(hint)
    IN  /\ At(p, "approved") /\ Current(p, w)
        /\ rows' = [rows EXCEPT ![w].status = "signing",
                                ![w].signed = SignEvm(w, nonce, fee)]
        /\ nextNonce' = nonce + 1
        /\ Goto(p, "send")
        /\ UNCHANGED <<ledger, outbox, chain>> /\ NoFault

\* Phase 1, one transaction: lock, approved -> signing, nonce, build, sign,
\* persist the hash, commit.  The nonce hint is 0 when the node does not answer.
Sign(p, w, hint, fee) ==
    LET nonce == AllocateNonce(hint)
    IN  /\ At(p, "approved") /\ Current(p, w)
        /\ StatusOf(w) = "approved"
        /\ rows' = [rows EXCEPT ![w].status = "signing",
                                ![w].signed = SignEvm(w, nonce, fee)]
        /\ nextNonce' = nonce + 1
        /\ Goto(p, "send")
        /\ UNCHANGED <<ledger, outbox, chain>> /\ NoFault

\* Another replica took it, or it was cancelled since the claim.
SignSkipped(p, w) ==
    /\ At(p, "approved") /\ Current(p, w)
    /\ StatusOf(w) # "approved"
    /\ Finish(p, w, "approved")
    /\ UNCHANGED <<db, chain>> /\ NoFault

\* Phase 1 errs and rolls back, the nonce included.
SignFails(p, w) ==
    /\ At(p, "approved") /\ Current(p, w)
    /\ StatusOf(w) = "approved"
    /\ Fault("sign")
    /\ Goto(p, "check")
    /\ UNCHANGED <<db, chain>>

\* Phase 2.
Send(p, w) ==
    LET tx == rows[w].signed
    IN  /\ At(p, "send") /\ Current(p, w)
        /\ \/ Accept(tx) /\ Goto(p, "mark_signed") /\ NoFault
           \/ Accept(tx) /\ Goto(p, "check") /\ Fault("lost_reply")
           \/ Refused(tx) /\ Goto(p, "check") /\ UNCHANGED chain /\ NoFault
           \/ Goto(p, "check") /\ UNCHANGED chain /\ Fault("rpc")
        /\ UNCHANGED db

-------------------------------------------------------------------------------
(* mark_broadcast, reached after a broadcast, a recovery or a re-broadcast.  *)

MarkStage(pc) == IF pc = "mark_signed" THEN "approved" ELSE "recover"

MarkBroadcast(p, w) ==
    LET after == RecordBroadcast(ledger, w, AmountOf[w])
    IN  /\ worker[p].pc \in {"mark_signed", "mark_recovered", "mark_resent"}
        /\ Current(p, w)
        /\ StatusOf(w) = "signing"
        /\ Commits(after)
        /\ SetStatus(w, "broadcast")
        /\ ledger' = after
        /\ Enqueue("broadcast", w)
        /\ Finish(p, w, MarkStage(worker[p].pc))
        /\ UNCHANGED <<nextNonce, chain>> /\ NoFault

\* The row left signing since: nothing to record.
MarkSkipped(p, w) ==
    /\ worker[p].pc \in {"mark_signed", "mark_recovered", "mark_resent"}
    /\ Current(p, w)
    /\ StatusOf(w) # "signing"
    /\ Finish(p, w, MarkStage(worker[p].pc))
    /\ UNCHANGED <<db, chain>> /\ NoFault

\* The transaction aborts: custody cannot cover the amount, or the database
\* fails.  Each caller takes the error its own way.
MarkFails(p, w) ==
    /\ Current(p, w)
    /\ IF StatusOf(w) = "signing"
            /\ ~Commits(RecordBroadcast(ledger, w, AmountOf[w]))
       THEN NoFault ELSE Fault("db")
    /\ \/ At(p, "mark_signed") /\ Goto(p, "check")
       \/ At(p, "mark_recovered") /\ EndPass(p)
       \/ At(p, "mark_resent") /\ Finish(p, w, "recover")
    /\ UNCHANGED <<db, chain>>

-------------------------------------------------------------------------------
(* fail_before_broadcast and fail_and_release.                               *)

\* Mutant: every error releases.
AlwaysRelease(p, w) ==
    /\ At(p, "check") /\ Current(p, w)
    /\ Goto(p, "release")
    /\ UNCHANGED <<db, chain>> /\ NoFault

\* An unlocked read: leave a signed row to recovery, release any other.
CheckBeforeRelease(p, w) ==
    /\ At(p, "check") /\ Current(p, w)
    /\ IF StatusOf(w) = "signing" /\ rows[w].signed # NoTx
       THEN Finish(p, w, "approved")
       ELSE Goto(p, "release")
    /\ UNCHANGED <<db, chain>> /\ NoFault

\* Mutant: funds_may_have_left is not consulted.
ReleaseUnlessTerminal(p, w) ==
    LET after == ReleaseIfReserved(w)
    IN  /\ At(p, "release") /\ Current(p, w)
        /\ ~IsTerminal(StatusOf(w))
        /\ Commits(after)
        /\ ledger' = after
        /\ SetStatus(w, "failed")
        /\ Enqueue("failed", w)
        /\ Finish(p, w, "approved")
        /\ UNCHANGED <<nextNonce, chain>> /\ NoFault

FailAndRelease(p, w) ==
    LET after == ReleaseIfReserved(w)
    IN  /\ At(p, "release") /\ Current(p, w)
        /\ ~IsTerminal(StatusOf(w)) /\ ~FundsMayHaveLeft(StatusOf(w))
        /\ Commits(after)
        /\ ledger' = after
        /\ SetStatus(w, "failed")
        /\ Enqueue("failed", w)
        /\ Finish(p, w, "approved")
        /\ UNCHANGED <<nextNonce, chain>> /\ NoFault

ReleaseSkipped(p, w) ==
    /\ At(p, "release") /\ Current(p, w)
    /\ IsTerminal(StatusOf(w)) \/ FundsMayHaveLeft(StatusOf(w))
    /\ Finish(p, w, "approved")
    /\ UNCHANGED <<db, chain>> /\ NoFault

-------------------------------------------------------------------------------
(* process_in_flight, settle_success and settle_failure.                     *)

\* Mutant: one confirmation short.
LookupOneShort(p, w) ==
    /\ At(p, "confirm") /\ Current(p, w)
    /\ \E m \in mined :
         /\ m.tx = rows[w].signed
         /\ ConfirmationsFor(worker[p].head, m.height) + 1 >= Required
    /\ Goto(p, "settle")
    /\ UNCHANGED <<db, chain>> /\ NoFault

\* transaction_status against the head read when the pass began.
InFlightLookup(p, w) ==
    LET found == {m \in mined : m.tx = rows[w].signed}
        next(m) == IF ~m.success THEN "revert"
                   ELSE IF ConfirmationsFor(worker[p].head, m.height) >= Required
                        THEN "settle" ELSE "progress"
    IN  /\ At(p, "confirm") /\ Current(p, w)
        /\ \/ \E m \in found : Goto(p, next(m))
           \/ found = {} /\ Finish(p, w, "confirm")
        /\ UNCHANGED <<db, chain>> /\ NoFault

\* update_confirmations
Progress(p, w) ==
    /\ At(p, "progress") /\ Current(p, w)
    /\ SetStatus(w, IF StatusOf(w) = "broadcast" THEN "confirming"
                    ELSE StatusOf(w))
    /\ Finish(p, w, "confirm")
    /\ UNCHANGED <<nextNonce, ledger, outbox, chain>> /\ NoFault

Settled(w) ==
    RecordNetworkFee(SettleWithdrawal(ledger, w, UserOf[w], AmountOf[w]),
                     w, GasFee)

SettleSuccess(p, w) ==
    /\ At(p, "settle") /\ Current(p, w)
    /\ StatusOf(w) \in {"broadcast", "confirming"}
    /\ Commits(Settled(w))
    /\ ledger' = Settled(w)
    /\ SetStatus(w, "completed")
    /\ Enqueue("completed", w)
    /\ Finish(p, w, "confirm")
    /\ UNCHANGED <<nextNonce, chain>> /\ NoFault

\* Another replica completed it; or it was failed since, or custody cannot pay
\* the gas, and the error ends the pass.
SettleRefused(p, w) ==
    /\ At(p, "settle") /\ Current(p, w)
    /\ StatusOf(w) \in {"broadcast", "confirming"} => ~Commits(Settled(w))
    /\ IF StatusOf(w) = "completed" THEN Finish(p, w, "confirm") ELSE EndPass(p)
    /\ UNCHANGED <<db, chain>> /\ NoFault

Reverted(w) ==
    RecordNetworkFee(
        ReleaseReservation(ReverseBroadcast(ledger, w, AmountOf[w]),
                           w, UserOf[w], AmountOf[w]),
        w, GasFee)

SettleFailure(p, w) ==
    /\ At(p, "revert") /\ Current(p, w)
    /\ ~IsTerminal(StatusOf(w))
    /\ Commits(Reverted(w))
    /\ ledger' = Reverted(w)
    /\ SetStatus(w, "failed")
    /\ Enqueue("failed", w)
    /\ Finish(p, w, "confirm")
    /\ UNCHANGED <<nextNonce, chain>> /\ NoFault

RevertRefused(p, w) ==
    /\ At(p, "revert") /\ Current(p, w)
    /\ ~IsTerminal(StatusOf(w)) => ~Commits(Reverted(w))
    /\ IF IsTerminal(StatusOf(w)) THEN Finish(p, w, "confirm") ELSE EndPass(p)
    /\ UNCHANGED <<db, chain>> /\ NoFault

-------------------------------------------------------------------------------

Request(w) ==
    \/ CreateDenied(w)
    \/ \E held \in BOOLEAN : CreateReserved(w, held)
    \/ Approve(w)
    \/ Cancel(w)

Pass(p) ==
    \/ StartRecovery(p) \/ StartApproved(p) \/ StartInFlight(p) \/ PassDone(p)

RecoverStep(p, w) ==
    RecoverLookup(p, w) \/ \E fee \in EstimateFees : Resend(p, w, fee)

SignStep(p, w) ==
    \/ \E hint \in {0} \cup PendingNonce, fee \in EstimateFees :
          Sign(p, w, hint, fee)
    \/ SignSkipped(p, w) \/ SignFails(p, w)
    \/ Send(p, w)
    \/ CheckBeforeRelease(p, w) \/ FailAndRelease(p, w) \/ ReleaseSkipped(p, w)

MarkStep(p, w) == MarkBroadcast(p, w) \/ MarkSkipped(p, w) \/ MarkFails(p, w)

ConfirmStep(p, w) ==
    \/ InFlightLookup(p, w) \/ Progress(p, w)
    \/ SettleSuccess(p, w) \/ SettleRefused(p, w)
    \/ SettleFailure(p, w) \/ RevertRefused(p, w)

ItemStep(p, w) ==
    RecoverStep(p, w) \/ SignStep(p, w) \/ MarkStep(p, w) \/ ConfirmStep(p, w)

Replica(p) == Pass(p) \/ \E w \in Withdrawal : ItemStep(p, w)

Block == MineEmpty \/ \E tx \in mempool : MineTx(tx, TRUE)

Network ==
    \/ Block
    \/ \E tx \in mempool : MineTx(tx, FALSE) \/ Drop(tx)
    \/ \E depth \in 1 .. MaxReorg : Reorg(depth)

Next ==
    \/ \E w \in Withdrawal : Request(w)
    \/ \E p \in Workers : Replica(p) \/ Crash(p)
    \/ Network

Spec == Init /\ [][Next]_vars

\* WithdrawalPipeline::run loops for ever, and the chain goes on.
Fairness == (\A p \in Workers : WF_vars(Replica(p))) /\ WF_vars(Block)
FairSpec == Spec /\ Fairness

-------------------------------------------------------------------------------
(* Properties.                                                               *)

\* Type invariant of the tables, the replicas and the chain.
TypeOK ==
    /\ rows \in [Withdrawal -> Row]
    /\ nextNonce \in Nat
    /\ ledger.balance \in [Accounts -> Int]
    /\ outbox \in SUBSET EventId
    /\ worker \in [Workers -> LocalState]
    /\ wire \subseteq Tx /\ mempool \subseteq Tx /\ mined \subseteq Inclusion
    /\ head \in Nat
    /\ faultsLeft \in Nat

Posted(kind, w) == <<kind, w>> \in Keys(ledger)

Lifecycle(w) ==
    LET s == StatusOf(w) IN
    /\ Posted("withdrawal_reserve", w) <=> rows[w].reserved
    /\ s \notin {"absent", "failed"} => rows[w].reserved
    /\ s = "absent" => ~rows[w].reserved
    /\ Posted("withdrawal_release", w)
         <=> s \in {"failed", "cancelled"} /\ rows[w].reserved
    /\ Posted("withdrawal_settle", w) <=> s = "completed"
    /\ Posted("withdrawal_broadcast", w)
         <=> FundsMayHaveLeft(s) \/ Posted("withdrawal_broadcast_reversal", w)
    /\ Posted("withdrawal_broadcast_reversal", w) => s = "failed"
    /\ <<"requested", w>> \in outbox <=> rows[w].reserved
    /\ <<"broadcast", w>> \in outbox <=> Posted("withdrawal_broadcast", w)
    /\ <<"completed", w>> \in outbox <=> s = "completed"
    /\ <<"failed", w>> \in outbox <=> s = "failed" /\ rows[w].reserved

\* A reservation is opened once, and closed once: by its release or by its
\* settlement.  The status column, the postings and the events agree however
\* replicas, crashes and retries interleave (pipeline.rs, service.rs).
LedgerMatchesLifecycle == \A w \in Withdrawal : Lifecycle(w)

\* A row that was signed, and only such a row, carries a transaction; a row in
\* signing always does, so recovery never has to guess (pipeline.rs:305).
SignedRowsCarryTheirHash ==
    \A w \in Withdrawal :
        /\ StatusOf(w) \in {"signing", "broadcast", "confirming", "completed"}
             => rows[w].signed # NoTx
        /\ StatusOf(w) \in {"absent", "validated", "approved", "cancelled"}
             => rows[w].signed = NoTx

\* Everything that ever reached a node spends the nonce its withdrawal
\* recorded, and no two withdrawals recorded the same one.
NoncesNeverShared ==
    /\ \A tx \in wire : rows[tx.w].signed # NoTx
                          /\ tx.nonce = rows[tx.w].signed.nonce
    /\ \A v, w \in Withdrawal :
         /\ rows[v].signed # NoTx /\ rows[w].signed # NoTx
         /\ rows[v].signed.nonce = rows[w].signed.nonce
         => v = w

\* "Retrying can never produce a second transfer" (pipeline.rs:18): whatever
\* was re-signed and re-sent, one transaction per withdrawal is ever mined.
AtMostOnePayout ==
    \A m1, m2 \in mined : m1.tx.w = m2.tx.w => m1 = m2

\* Money that left is not also given back: no mined, successful payout
\* belongs to a withdrawal whose reservation was released.
NeverPaidAndReleased ==
    \A m \in mined : m.success => ~Posted("withdrawal_release", m.tx.w)

\* A completed withdrawal was paid by the transaction it recorded, and that
\* payment is as deep as the finality policy asks.
CompletedIsPaid ==
    \A w \in Withdrawal : StatusOf(w) = "completed" =>
        \E m \in mined :
            /\ m.tx = rows[w].signed /\ m.success
            /\ ConfirmationsFor(head, m.height) >= Required

AmountsOf(S) == MapThenSumSet(LAMBDA w : AmountOf[w], S)

\* user_reserved is the sum of the open reservations and withdrawal_clearing
\* the sum of what is in flight: no amount is lost or counted twice.
BalancesBackOpenWithdrawals ==
    /\ \A u \in Users :
         ledger.balance[Reserved(u)] =
           AmountsOf({w \in Withdrawal : /\ UserOf[w] = u
                                         /\ StatusOf(w) # "absent"
                                         /\ ~IsTerminal(StatusOf(w))})
    /\ ledger.balance[Clearing] =
         AmountsOf({w \in Withdrawal :
                      StatusOf(w) \in {"broadcast", "confirming"}})

\* When nothing is under way, what left custody in the ledger is what left the
\* hot wallet on chain.
BooksMatchChain ==
    (\A w \in Withdrawal : StatusOf(w) = "absent" \/ IsTerminal(StatusOf(w)))
        => OpeningLedger.balance[Custody(Asset)]
                - ledger.balance[Custody(Asset)]
             = AmountsOf({m.tx.w : m \in {i \in mined : i.success}})

\* verify_ledger_integrity finds nothing.
LedgerIsClean == IsClean(ledger)

\* The re-signed transaction is the recorded one: "same nonce, same bytes,
\* same hash" (pipeline.rs:16).
ResignedIsIdentical == \A tx \in wire : tx = rows[tx.w].signed

HistoryStep ==
    /\ ledger.journal \subseteq ledger'.journal
    /\ outbox \subseteq outbox'
    /\ nextNonce <= nextNonce'
    /\ \A w \in Withdrawal :
         /\ rows[w].signed # NoTx => rows'[w].signed = rows[w].signed
         /\ IsTerminal(rows[w].status) => rows'[w] = rows[w]

\* A step only adds to the journal and the outbox, never lowers the nonce
\* counter, never forgets or replaces a recorded transaction, and never leaves
\* a terminal status, whichever snapshot a replica is still working from.
HistoryOnlyGrows == [][HistoryStep]_vars

\* Payments of w reached a node, which no longer or never had the one the row
\* recorded: it was evicted, or recovery re-signed it with other fees.
Untraceable(w) ==
    /\ ~IsTerminal(StatusOf(w))
    /\ \E tx \in wire : tx.w = w
    /\ rows[w].signed \notin mempool \cup {m.tx : m \in mined}

\* A withdrawal that was approved reaches a terminal state, unless a payment
\* the pipeline waits for, this one's or an earlier nonce's, cannot be found.
ApprovedIsResolved ==
    \A w \in Withdrawal :
        StatusOf(w) = "approved"
          ~> IsTerminal(StatusOf(w)) \/ \E v \in Withdrawal : Untraceable(v)
===============================================================================
