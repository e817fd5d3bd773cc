------------------------------- MODULE Deposits -------------------------------
(***************************************************************************)
(* The deposit path of one chain (crates/deposits): the watchers that      *)
(* follow the chain block by block and undo what a reorganisation          *)
(* orphans, the confirmation engine, the consumers that credit confirmed   *)
(* deposits, the chain_blocks, chain_cursors, blockchain_transactions and  *)
(* deposits tables, the ledger, and the chain itself.                      *)
(*                                                                         *)
(* A block's hash is <<height, branch>>: every reorganisation opens a new  *)
(* branch.  Each RPC call and each database transaction of a tick is a     *)
(* step; recovery, which reads the deposits before it locks them, is two.  *)
(***************************************************************************)
EXTENDS Ledger, Sequences

CONSTANTS
    Transfers,      \* token transfers to tracked addresses: (tx_hash, log_index)
    UserOf,         \* the owner of the address a transfer pays
    AmountOf,       \* its amount
    Watchers,       \* watcher tasks of this chain, one per worker replica
    Consumers,      \* deposit_credit consumers
    BatchSize,      \* block_batch_size
    Required,       \* confirmations the finality policy asks for
    ScanDepth,      \* reorg_scan_depth
    MaxHeight,      \* bound on the chain's height
    MaxReorgs,      \* bound on the reorganisations
    MaxDepth,       \* the deepest of them
    Faults,         \* the faults this instance allows (AllFaults)
    MaxFaults,      \* how many of them may happen in a behaviour
    OpeningLedger,
    NoTransfer

AllFaults ==
    {"abandon",       \* a tick dies: a crash, an RPC or a database error
     "credit_error",  \* so does a consumer between its claim and its credit
     "mid_tick",      \* the chain reorganises while a watcher is in a tick
     "overlap",       \* a credit commits inside an open recovery transaction
     "stale"}         \* a tick works from a snapshot older than an address

\* AppConfig::validate asks for a scan window wider than the confirmations.
ASSUME DepositsAssumption ==
    /\ \A t \in Transfers : UserOf[t] \in Users /\ AmountOf[t] \in Nat \ {0}
    /\ BatchSize \in Nat \ {0} /\ Required \in Nat \ {0}
    /\ ScanDepth \in Nat /\ ScanDepth > Required
    /\ MaxHeight \in Nat /\ MaxReorgs \in Nat /\ MaxDepth \in Nat
    /\ MaxFaults \in Nat /\ Faults \subseteq AllFaults
    /\ NoTransfer \notin Transfers

VARIABLES
    chain,      \* the blocks above genesis: branch and tracked transfers
    branches,   \* reorganisations so far
    blocks,     \* the chain_blocks table
    cursor,     \* the chain_cursors row
    assigned,   \* the users that have a deposit address
    deposits,   \* per transfer: its blockchain_transactions and deposits rows
    ledger,     \* the ledger tables
    outbox,     \* deterministic ids of the events enqueued
    processed,  \* processed_events claims of deposit_credit
    watcher,    \* the local state of each watcher
    tracked,    \* the users in the address snapshot of each watcher's worker
    engine,     \* the head the confirmation engine read, -1 between passes
    consumer,   \* the deposit each consumer is about to credit
    faultsLeft

db == <<blocks, cursor, deposits, ledger, outbox, processed>>
network == <<chain, branches>>
addresses == <<assigned, tracked>>
vars == <<network, db, addresses, watcher, engine, consumer, faultsLeft>>

Heights == 0 .. MaxHeight
Hashes == Heights \X (0 .. MaxReorgs)
ZeroHash == <<0, -1>>
NoCursor == [height |-> -1, hash |-> ZeroHash]

\* set_cursor
CursorAt(hash) == [height |-> hash[1], hash |-> hash]

BlockRow == [hash : Hashes, height : Heights,
             parent : Hashes \cup {ZeroHash}, canonical : BOOLEAN]

DepositStatus ==
    {"absent", "observed", "confirming", "confirmed", "credited", "reorged"}
Absent == [status |-> "absent", block |-> ZeroHash, orphaned |-> FALSE,
           credited |-> FALSE, reversed |-> FALSE]

IdleWatcher ==
    [pc |-> "idle", head |-> 0, ancestor |-> 0, to |-> 0, headers |-> <<>>,
     logs |-> {}, orphaned |-> {}, seen |-> {}]

Init ==
    /\ chain = <<>> /\ branches = 0
    /\ blocks = {} /\ cursor = NoCursor
    /\ deposits = [t \in Transfers |-> Absent]
    /\ ledger = OpeningLedger
    /\ outbox = {} /\ processed = {}
    /\ assigned = {} /\ tracked = [p \in Watchers |-> {}]
    /\ watcher = [p \in Watchers |-> IdleWatcher]
    /\ engine = -1
    /\ consumer = [c \in Consumers |-> NoTransfer]
    /\ faultsLeft = MaxFaults

Fault(kind) ==
    /\ kind \in Faults
    /\ faultsLeft > 0
    /\ faultsLeft' = faultsLeft - 1

NoFault == UNCHANGED faultsLeft

-------------------------------------------------------------------------------
(* The chain, modelled from what the adapter asks of a node.                *)

Height == Len(chain)
HashAt(h) == <<h, IF h \in 1 .. Height THEN chain[h].branch ELSE 0>>
ParentAt(h) == IF h = 0 THEN ZeroHash ELSE HashAt(h - 1)
TransfersAt(h) == IF h = 0 THEN {} ELSE chain[h].transfers
Included(height) == UNION {TransfersAt(h) : h \in 0 .. height}

\* Transfers are to addresses their users were given.
Payable == {t \in Transfers : UserOf[t] \in assigned}

\* A block may include any transfer no earlier block of its branch includes.
Mine(included) ==
    /\ Height < MaxHeight
    /\ included \subseteq Payable \ Included(Height)
    /\ chain' = Append(chain, [branch |-> branches, transfers |-> included])
    /\ UNCHANGED <<branches, db, addresses, watcher, engine, consumer>> /\ NoFault

Quiet == \A p \in Watchers : watcher[p].pc = "idle"

\* A user is given a deposit address (claim_pool_address).
AssignAddress(user) ==
    /\ user \notin assigned
    /\ assigned' = assigned \cup {user}
    /\ IF Quiet THEN NoFault ELSE Fault("stale")
    /\ UNCHANGED <<network, db, tracked, watcher, engine, consumer>>

\* The last depth blocks give way to as many of a new branch.  The first of
\* them includes any of the transfers now left out.
Reorg(depth, included) ==
    /\ branches < MaxReorgs
    /\ depth <= Height
    /\ included \subseteq Payable \ Included(Height - depth)
    /\ IF Quiet THEN NoFault ELSE Fault("mid_tick")
    /\ branches' = branches + 1
    /\ chain' = [h \in 1 .. Height |->
                   IF h <= Height - depth
                   THEN chain[h]
                   ELSE [branch |-> branches + 1,
                         transfers |-> IF h = Height - depth + 1
                                       THEN included ELSE {}]]
    /\ UNCHANGED <<db, addresses, watcher, engine, consumer>>

\* A user withdraws all they hold, from the request to the settlement.
Spend(user) ==
    LET amount == ledger.balance[Available(user)]
        after == SettleWithdrawal(
                   RecordBroadcast(
                     ReserveWithdrawal(ledger, user, user, amount),
                     user, amount),
                   user, user, amount)
    IN  /\ amount > 0
        /\ <<"withdrawal_reserve", user>> \notin Keys(ledger)
        /\ Commits(after)
        /\ ledger' = after
        /\ UNCHANGED <<network, addresses, blocks, cursor, deposits, outbox, processed,
                       watcher, engine, consumer>>
        /\ NoFault

-------------------------------------------------------------------------------
(* Watcher::tick: reconcile, then scan the next range, then persist it.     *)

At(p, pc) == watcher[p].pc = pc
EndTick(p) == watcher' = [watcher EXCEPT ![p] = IdleWatcher]

CanonicalAt(h) == {b \in blocks : b.canonical /\ b.height = h}

\* Mutant: u64 arithmetic without saturation.
PlainSub(m, n) == m - n

SaturatingSub(m, n) == IF m >= n THEN m - n ELSE 0

\* refresh_if_stale keeps a snapshot until its time to live is over; then
\* adapter.head().
StartTick(p) ==
    /\ At(p, "idle")
    /\ \/ tracked' = [tracked EXCEPT ![p] = assigned] /\ NoFault
       \/ tracked[p] # assigned /\ UNCHANGED tracked /\ Fault("stale")
    /\ watcher' = [watcher EXCEPT ![p].pc = "detect", ![p].head = Height]
    /\ UNCHANGED <<network, db, assigned, engine, consumer>>

\* reconcile found no cursor: initialise_cursor, without scanning.  There is
\* no start_block.  Heights never shrink, so the node has the block.
InitialiseCursor(p) ==
    LET at == SaturatingSub(watcher[p].head, Required)
    IN  /\ At(p, "detect")
        /\ cursor = NoCursor
        /\ blocks' = blocks \cup {[hash |-> HashAt(at), height |-> at,
                                   parent |-> ZeroHash, canonical |-> TRUE]}
        /\ cursor' = CursorAt(HashAt(at))
        /\ EndTick(p)
        /\ UNCHANGED <<network, addresses, deposits, ledger, outbox, processed, engine,
                       consumer>>
        /\ NoFault

\* detect: the chain has the cursor's block.
NoReorg(p) ==
    /\ At(p, "detect")
    /\ cursor # NoCursor
    /\ HashAt(cursor.height) = cursor.hash
    /\ watcher' = [watcher EXCEPT ![p].pc = "range"]
    /\ UNCHANGED <<network, db, addresses, engine, consumer>> /\ NoFault

\* The walk back stops where the stored block is the chain's, or where no
\* block is stored, and fails below the scan window.
Agrees(h) == \A b \in CanonicalAt(h) : b.hash = HashAt(h)

\* Mutant: the walk gives up one block before the end of the scan window.
AncestorsOneShort ==
    {h \in SaturatingSub(cursor.height, ScanDepth) + 1 .. cursor.height - 1 :
        Agrees(h)}

Ancestors ==
    {h \in SaturatingSub(cursor.height, ScanDepth) .. cursor.height - 1 :
        Agrees(h)}

DetectReorg(p) ==
    /\ At(p, "detect")
    /\ cursor # NoCursor
    /\ HashAt(cursor.height) # cursor.hash
    /\ watcher' = [watcher EXCEPT ![p] =
                     IF Ancestors = {}
                     THEN IdleWatcher
                     ELSE [@ EXCEPT !.pc = "recover",
                                    !.ancestor = Max(Ancestors)]]
    /\ UNCHANGED <<network, db, addresses, engine, consumer>> /\ NoFault

-------------------------------------------------------------------------------
(* handle_in_tx, one database transaction.                                  *)

\* The block rows open recovery transactions other than p's have locked.
LockedByOthers(p) ==
    UNION {watcher[q].orphaned : q \in Watchers \ {p}}

\* orphan_blocks_above
BlocksAbove(h) ==
    {b.hash : b \in {b \in blocks : b.canonical /\ b.height > h}}

\* mark_transfers_orphaned
TransfersOf(orphaned) ==
    {t \in Transfers :
        /\ deposits[t].status # "absent"
        /\ deposits[t].block \in orphaned
        /\ ~deposits[t].orphaned}

\* deposits_for_transfers: only read, where the blocks and the transfers are
\* locked
DepositsSeen(orphans) == {<<t, deposits[t].status>> : t \in orphans}

BeginRecovery(p) ==
    LET orphaned == BlocksAbove(watcher[p].ancestor)
    IN  /\ At(p, "recover")
        /\ orphaned \cap LockedByOthers(p) = {}
        /\ watcher' = [watcher EXCEPT
                         ![p].pc = "commit",
                         ![p].orphaned = orphaned,
                         ![p].seen = DepositsSeen(TransfersOf(orphaned))]
        /\ UNCHANGED <<network, db, addresses, engine, consumer>> /\ NoFault

\* Mutant: the reversal is linked but never posted.
ReverseNone(credited) == ledger

ReverseAll(credited) ==
    FoldSet(LAMBDA t, l : ReverseDepositCredit(l, t, UserOf[t], AmountOf[t]),
            ledger, credited)

\* rewind_cursor; the zero hash where no canonical block is stored
RewoundTo(h) ==
    [height |-> h,
     hash |-> IF CanonicalAt(h) = {}
              THEN ZeroHash ELSE (CHOOSE b \in CanonicalAt(h) : TRUE).hash]

\* Mutant: the deposits of the orphaned blocks are left as they are.
ForgetOrphans(t, orphans, reversals) == deposits[t]

\* Mutant: the last status before the credit is taken for the credited one.
IsConfirmedStatus(status) == status = "confirmed"

\* DepositStatus::is_credited
IsCredited(status) == status = "credited"

\* mark_reorged, whatever the status has become meanwhile, with the reversal
\* the status seen calls for
Reorged(t, orphans, reversals) ==
    IF t \in orphans
    THEN [deposits[t] EXCEPT !.orphaned = TRUE, !.status = "reorged",
                             !.reversed = t \in reversals]
    ELSE deposits[t]

\* The rest of the transaction.  A reversal the ledger refuses aborts it.
CommitRecovery(p) ==
    LET orphans == {s[1] : s \in watcher[p].seen}
        reversals == {s[1] : s \in {s \in watcher[p].seen : IsCredited(s[2])}}
        after == ReverseAll(reversals)
    IN  /\ At(p, "commit")
        /\ EndTick(p)
        /\ UNCHANGED <<network, addresses, processed, engine, consumer>> /\ NoFault
        /\ IF Commits(after)
           THEN /\ blocks' = {[b EXCEPT !.canonical =
                                 @ /\ b.hash \notin watcher[p].orphaned] :
                                 b \in blocks}
                /\ deposits' = [t \in Transfers |->
                                  Reorged(t, orphans, reversals)]
                /\ ledger' = after
                /\ outbox' = outbox \cup {<<"reorged", t>> : t \in orphans}
                /\ cursor' = RewoundTo(watcher[p].ancestor)
           ELSE UNCHANGED <<blocks, deposits, ledger, outbox, cursor>>

-------------------------------------------------------------------------------
(* EvmAdapter::scan and persist_scan.                                       *)

\* Mutant: a batch starts at the block after the one due.
RangeOneLate(p) ==
    /\ At(p, "range")
    /\ watcher' = [watcher EXCEPT ![p] =
                     IF cursor.height + 1 >= watcher[p].head
                     THEN IdleWatcher
                     ELSE [@ EXCEPT !.pc = "headers",
                                    !.ancestor = cursor.height + 1,
                                    !.to = Min({watcher[p].head,
                                                cursor.height + BatchSize})]]
    /\ UNCHANGED <<network, db, addresses, engine, consumer>> /\ NoFault

\* The cursor is read again; ancestor is from here on the block before the
\* range.  A head at or behind the cursor ends the tick.
NextRange(p) ==
    /\ At(p, "range")
    /\ watcher' = [watcher EXCEPT ![p] =
                     IF cursor.height >= watcher[p].head
                     THEN IdleWatcher
                     ELSE [@ EXCEPT !.pc = "headers",
                                    !.ancestor = cursor.height,
                                    !.to = Min({watcher[p].head,
                                                cursor.height + BatchSize})]]
    /\ UNCHANGED <<network, db, addresses, engine, consumer>> /\ NoFault

\* One header_at call per height of the range.
FetchHeader(p) ==
    LET w == watcher[p]
        h == w.ancestor + Len(w.headers) + 1
    IN  /\ At(p, "headers")
        /\ h <= w.to
        /\ watcher' = [watcher EXCEPT ![p].headers =
                         Append(@, [hash |-> HashAt(h),
                                    parent |-> ParentAt(h)])]
        /\ UNCHANGED <<network, db, addresses, engine, consumer>> /\ NoFault

\* Mutant: the range ends before its last block.
LogsOneShort(from, to) ==
    {<<t, HashAt(h)>> :
        <<t, h>> \in {th \in Transfers \X (from .. to - 1) :
                        th[1] \in TransfersAt(th[2])}}

\* eth_getLogs: the transfers of the range, each with its block's hash
TransferLogs(from, to) ==
    {<<t, HashAt(h)>> :
        <<t, h>> \in {th \in Transfers \X (from .. to) :
                        th[1] \in TransfersAt(th[2])}}

\* scan_erc20, once all headers are in: one call for the whole range, of
\* which the transfers to addresses in the snapshot are kept.
FetchLogs(p) ==
    LET w == watcher[p]
    IN  /\ At(p, "headers")
        /\ w.ancestor + Len(w.headers) >= w.to
        /\ watcher' = [watcher EXCEPT
                         ![p].pc = "persist",
                         ![p].logs = {l \in TransferLogs(w.ancestor + 1, w.to) :
                                        UserOf[l[1]] \in tracked[p]}]
        /\ UNCHANGED <<network, db, addresses, engine, consumer>> /\ NoFault

RowOf(header) == [hash |-> header.hash, height |-> header.hash[1],
                  parent |-> header.parent, canonical |-> TRUE]

\* persist_header over the batch: the lowest occupied height with another
\* hash orphans every canonical block from there up; then each header's row
\* is inserted, or made canonical again.
Displaced(headers) ==
    LET clashes == {h.hash[1] : h \in {h \in headers :
                      \E b \in CanonicalAt(h.hash[1]) : b.hash # h.hash}}
    IN  IF clashes = {} THEN {}
        ELSE {b \in blocks : b.canonical /\ b.height >= Min(clashes)}

WithHeaders(headers) ==
    {IF \E h \in headers : h.hash = b.hash
     THEN [b EXCEPT !.canonical = TRUE]
     ELSE [b EXCEPT !.canonical = @ /\ b \notin Displaced(headers)] :
        b \in blocks}
    \cup {RowOf(h) : h \in {h \in headers :
                               \A b \in blocks : b.hash # h.hash}}

\* prune_blocks_below, after the batch is durable
Prune(stored, to) ==
    {b \in stored :
        \/ b.height >= to - ScanDepth * 4
        \/ \E t \in Transfers : deposits'[t].status # "absent"
                                  /\ deposits'[t].block = b.hash}

\* create_deposit
Observed(block) == [Absent EXCEPT !.status = "observed", !.block = block]

\* insert_transfer: one already recorded, whatever became of it, is a duplicate.
NewTransfers(logs) == {l \in logs : deposits[l[1]].status = "absent"}

\* persist_in_tx.  A new transfer whose block has no row violates the foreign
\* key and aborts the batch.
Persist(p) ==
    LET w == watcher[p]
        headers == {w.headers[i] : i \in 1 .. Len(w.headers)}
        tip == w.headers[Len(w.headers)].hash
        new == NewTransfers(w.logs)
        stored == WithHeaders(headers)
    IN  /\ At(p, "persist")
        /\ LockedByOthers(p) \cap ({h.hash : h \in headers}
             \cup {b.hash : b \in Displaced(headers)}) = {}
        /\ EndTick(p)
        /\ UNCHANGED <<network, addresses, ledger, processed, engine, consumer>>
        /\ NoFault
        /\ IF \A l \in new : \E b \in stored : b.hash = l[2]
           THEN /\ deposits' = [t \in Transfers |->
                     IF \E l \in new : l[1] = t
                     THEN Observed((CHOOSE l \in new : l[1] = t)[2])
                     ELSE deposits[t]]
                /\ blocks' = Prune(stored, tip[1])
                /\ cursor' = CursorAt(tip)
                /\ outbox' = outbox \cup {<<"block", h.hash>> : h \in headers}
                                    \cup {<<"observed", l[1]>> : l \in new}
           ELSE UNCHANGED <<deposits, blocks, cursor, outbox>>

\* An error or a crash ends the tick; an open transaction rolls back.
Abandon(p) ==
    /\ Fault("abandon")
    /\ ~At(p, "idle")
    /\ EndTick(p)
    /\ UNCHANGED <<network, db, addresses, engine, consumer>>

-------------------------------------------------------------------------------
(* ConfirmationEngine::run_once: the head, then one transaction.            *)

ReadHead ==
    /\ engine = -1
    /\ engine' = Height
    /\ UNCHANGED <<network, db, addresses, watcher, consumer>> /\ NoFault

\* FinalityPolicy::confirmations_for and is_confirmed
ConfirmationsFor(head, height) == SaturatingSub(head, height) + 1
IsConfirmed(head, height) == ConfirmationsFor(head, height) >= Required

StillCanonical(t) ==
    \E b \in CanonicalAt(deposits[t].block[1]) : b.hash = deposits[t].block

\* Mutant: only observed deposits are looked at.
AdvanceObserved(t) ==
    CASE deposits[t].status # "observed" -> deposits[t].status
      [] ~StillCanonical(t) -> deposits[t].status
      [] IsConfirmed(engine, deposits[t].block[1]) -> "confirmed"
      [] OTHER -> "confirming"

NextStatus(t) ==
    CASE deposits[t].status \notin {"observed", "confirming"} ->
           deposits[t].status
      [] ~StillCanonical(t) -> deposits[t].status
      [] IsConfirmed(engine, deposits[t].block[1]) -> "confirmed"
      [] OTHER -> "confirming"

\* claim_pending_deposits
Pending ==
    {t \in Transfers :
        deposits[t].status \in {"observed", "confirming", "confirmed"}}

\* The event's deterministic id makes a second enqueue a no-op.
ConfirmPass ==
    /\ engine # -1
    /\ deposits' = [t \in Transfers |->
                      IF t \in Pending
                      THEN [deposits[t] EXCEPT !.status = NextStatus(t)]
                      ELSE deposits[t]]
    /\ outbox' = outbox \cup {<<"confirmed", t>> : t \in {t \in Pending :
                     deposits[t].status # NextStatus(t)
                       /\ NextStatus(t) = "confirmed"}}
    /\ engine' = -1
    /\ UNCHANGED <<network, addresses, blocks, cursor, ledger, processed, watcher,
                   consumer>>
    /\ NoFault

-------------------------------------------------------------------------------
(* DepositCreditHandler::handle.  A deposit.confirmed event is delivered at   *)
(* any time after it was enqueued, any number of times.                       *)

\* The claim commits in a transaction of its own; a claimed event is done.
ClaimEvent(c, t) ==
    /\ consumer[c] = NoTransfer
    /\ <<"confirmed", t>> \in outbox
    /\ t \notin processed
    /\ processed' = processed \cup {t}
    /\ consumer' = [consumer EXCEPT ![c] = t]
    /\ UNCHANGED <<network, addresses, blocks, cursor, deposits, ledger, outbox, watcher,
                   engine>>
    /\ NoFault

\* Mutant: the handler credits whatever became of the deposit.
CreditAnything(c) ==
    LET t == consumer[c]
    IN  /\ t # NoTransfer
        /\ consumer' = [consumer EXCEPT ![c] = NoTransfer]
        /\ UNCHANGED <<network, addresses, blocks, cursor, processed, watcher, engine>>
        /\ NoFault
        /\ ledger' = CreditDeposit(ledger, t, UserOf[t], AmountOf[t])
        /\ deposits' = [deposits EXCEPT ![t].status = "credited",
                                        ![t].credited = TRUE]
        /\ outbox' = outbox \cup {<<"credited", t>>}

\* mark_credited
Credited(t) == [deposits[t] EXCEPT !.status = "credited", !.credited = TRUE]

\* credit: the deposit is locked, and credited only if it still is confirmed.
CreditConfirmed(c) ==
    LET t == consumer[c]
    IN  /\ t # NoTransfer
        /\ consumer' = [consumer EXCEPT ![c] = NoTransfer]
        /\ UNCHANGED <<network, addresses, blocks, cursor, processed, watcher, engine>>
        /\ IF \E p \in Watchers : At(p, "commit")
           THEN Fault("overlap") ELSE NoFault
        /\ IF deposits[t].status = "confirmed"
           THEN /\ ledger' = CreditDeposit(ledger, t, UserOf[t], AmountOf[t])
                /\ deposits' = [deposits EXCEPT ![t] = Credited(t)]
                /\ outbox' = outbox \cup {<<"credited", t>>}
           ELSE UNCHANGED <<ledger, deposits, outbox>>

\* The credit errs or its process dies.  The retry finds the claim and is done.
CreditFails(c) ==
    /\ Fault("credit_error")
    /\ consumer[c] # NoTransfer
    /\ consumer' = [consumer EXCEPT ![c] = NoTransfer]
    /\ UNCHANGED <<network, db, addresses, watcher, engine>>

-------------------------------------------------------------------------------
WatcherStep(p) ==
    \/ StartTick(p) \/ InitialiseCursor(p) \/ NoReorg(p) \/ DetectReorg(p)
    \/ BeginRecovery(p) \/ CommitRecovery(p)
    \/ NextRange(p) \/ FetchHeader(p) \/ FetchLogs(p) \/ Persist(p)

ConsumerStep(c) ==
    CreditConfirmed(c) \/ \E t \in Transfers : ClaimEvent(c, t)

Next ==
    \/ \E included \in SUBSET Transfers : Mine(included)
    \/ \E depth \in 1 .. MaxDepth, included \in SUBSET Transfers :
          Reorg(depth, included)
    \/ \E user \in Users : Spend(user) \/ AssignAddress(user)
    \/ \E p \in Watchers : WatcherStep(p) \/ Abandon(p)
    \/ ReadHead \/ ConfirmPass
    \/ \E c \in Consumers : ConsumerStep(c) \/ CreditFails(c)

Spec == Init /\ [][Next]_vars

\* The worker's loops never stop: an error backs off and tries again.
FairSpec ==
    /\ Spec
    /\ \A p \in Watchers : WF_vars(WatcherStep(p))
    /\ WF_vars(ReadHead) /\ WF_vars(ConfirmPass)
    /\ \A c \in Consumers : WF_vars(ConsumerStep(c))

-------------------------------------------------------------------------------
(* Properties.                                                              *)

\* Type invariant of the tables, the chain and the local states.
TypeOK ==
    /\ chain \in Seq([branch : 0 .. MaxReorgs, transfers : SUBSET Transfers])
    /\ branches \in 0 .. MaxReorgs /\ faultsLeft \in 0 .. MaxFaults
    /\ blocks \subseteq BlockRow
    /\ cursor.height \in Heights \cup {-1}
    /\ cursor.hash \in Hashes \cup {ZeroHash}
    /\ deposits \in [Transfers ->
         [status : DepositStatus, block : Hashes \cup {ZeroHash},
          orphaned : BOOLEAN, credited : BOOLEAN, reversed : BOOLEAN]]
    /\ ledger.balance \in [Accounts -> Int]
    /\ processed \subseteq Transfers
    /\ assigned \subseteq Users /\ tracked \in [Watchers -> SUBSET Users]
    /\ engine \in Heights \cup {-1}
    /\ consumer \in [Consumers -> Transfers \cup {NoTransfer}]

\* "No skipped blocks": from the cold start up to the cursor every height has
\* its canonical block.
NoBlockSkipped ==
    \A b \in blocks : b.canonical =>
        \A h \in b.height .. cursor.height : CanonicalAt(h) # {}

\* Every transfer in a scanned block the chain still has is recorded: "the
\* block range is re-scanned from the cursor, never skipped" (context.rs).
\* The block of the cold start, whose row has no parent, is not scanned.
ScannedTransfersAreRecorded ==
    \A b \in blocks :
        b.canonical /\ b.parent # ZeroHash /\ b.height <= Height
          /\ HashAt(b.height) = b.hash
        => \A t \in TransfersAt(b.height) : deposits[t].status # "absent"

\* Recovery leaves no deposit behind: one that is not reorged stands on a
\* block the database holds canonical.
LiveDepositsAreCanonical ==
    \A t \in Transfers :
        deposits[t].status \notin {"absent", "reorged"} => StillCanonical(t)

\* The deposit rows and the journal agree on what was credited and reversed.
LedgerMatchesDeposits ==
    \A t \in Transfers :
        LET d == deposits[t]
        IN  /\ d.credited = (<<"deposit_credit", t>> \in Keys(ledger))
            /\ d.reversed = (<<"deposit_reversal", t>> \in Keys(ledger))
            /\ d.reversed => d.credited
            /\ (d.status = "credited") => d.credited
            /\ d.credited => d.status \in {"credited", "reorged"}

\* A credited deposit whose block is orphaned is compensated by a reversal.
ReorgedCreditIsReversed ==
    \A t \in Transfers :
        deposits[t].status = "reorged" /\ deposits[t].credited
        => deposits[t].reversed

Total(transfers) == MapThenSumSet(LAMBDA t : AmountOf[t], transfers)
SpentBy(user) ==
    MapThenSumSet(LAMBDA row : DeltaOf(row.entries, Reserved(user)),
                  {row \in ledger.journal :
                     row.key = <<"withdrawal_reserve", user>>})

\* What a user has, less what they owe, is what was credited to them, less
\* what was reversed and what they withdrew: no path mints or burns.
BalancesMatchDeposits ==
    \A user \in Users :
        LET theirs == {t \in Transfers : UserOf[t] = user}
        IN  ledger.balance[Available(user)] - ledger.balance[Deficit(user)]
              = Total({t \in theirs : deposits[t].credited})
                  - Total({t \in theirs : deposits[t].reversed})
                  - SpentBy(user)

\* DepositStatus::can_transition_to
CanTransition(from, to) ==
    \/ from = to
    \/ from = "absent" /\ to = "observed"
    \/ from = "observed" /\ to \in {"confirming", "confirmed", "reorged"}
    \/ from = "confirming" /\ to \in {"confirmed", "reorged"}
    \/ from = "confirmed" /\ to \in {"credited", "reorged"}
    \/ from = "credited" /\ to = "reorged"

HistoryStep ==
    /\ \A t \in Transfers :
         /\ CanTransition(deposits[t].status, deposits'[t].status)
         /\ deposits[t].status # "absent"
              => deposits'[t].block = deposits[t].block
    /\ ledger.journal \subseteq ledger'.journal

\* No step takes a deposit outside its lifecycle, moves it to another block or
\* rewrites the journal, whichever snapshot a task still works from
\* (can_transition_to, mark_reorged, mark_credited).
DepositsOnlyAdvance == [][HistoryStep]_vars

\* A claim without its credit: redelivery finds it and skips the deposit.
Burnt(t) ==
    /\ t \in processed
    /\ deposits[t].status = "confirmed"
    /\ \A c \in Consumers : consumer[c] # t

\* An event is claimed together with its side effect, so no failure can leave
\* the one without the other.
NoClaimIsBurnt == \A t \in Transfers : ~Burnt(t)

\* A recorded transfer deep enough on the chain is credited in the end, unless
\* a reorganisation takes its block or a failed credit burns its claim.
DeepIsResolved ==
    \A t \in Transfers :
        deposits[t].status # "absent"
          /\ Height - deposits[t].block[1] + 1 >= Required
        ~> deposits[t].status \in {"credited", "reorged"} \/ Burnt(t)

\* A canonical row does not follow the one below it.  persist_header compares
\* no parent hash, so a batch fetched after a reorganisation that detect ran too
\* early to see is stored on top of the old branch, and moves the cursor to the
\* new one: detect, which compares the cursor's block alone, never walks back.
MixedLineage ==
    \E b \in blocks :
        /\ b.canonical /\ b.parent # ZeroHash
        /\ \E below \in CanonicalAt(b.height - 1) : below.hash # b.parent

\* The chain dropped the cursor's block and agrees with no stored block of the
\* scan window: detect fails on every tick until an operator acts (reorg.rs:103).
BeyondScanDepth ==
    /\ cursor # NoCursor
    /\ HashAt(cursor.height) # cursor.hash
    /\ \A h \in SaturatingSub(cursor.height, ScanDepth) .. cursor.height - 1 :
         ~Agrees(h)

\* A credit the chain took back is reversed in the end, unless the stored
\* lineage is mixed or the fork lies below the scan window.  The engine counts
\* confirmations from the live head but trusts the canonical blocks of the last
\* tick (confirmations.rs:81), so it may confirm, and a consumer credit, a
\* transfer that a reorganisation has removed; the watcher's next ticks undo it.
OffChainCreditIsUndone ==
    \A t \in Transfers :
        deposits[t].status = "credited" /\ t \notin Included(Height)
        ~> \/ deposits[t].status = "reorged"
           \/ t \in Included(Height)
           \/ MixedLineage \/ BeyondScanDepth
===============================================================================
