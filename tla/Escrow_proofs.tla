----------------------------- MODULE Escrow_proofs -----------------------------
(***************************************************************************)
(* Withdrawals implements Escrow, step by step, for every instance: each   *)
(* database transaction moves the row and the balances of one withdrawal   *)
(* as one step of Escrow does, and nothing else moves them at all.         *)
(***************************************************************************)
EXTENDS EscrowMapping, Lifecycle_proofs

-------------------------------------------------------------------------------
(* What the postings do to the three balances Escrow knows.                 *)

AvailableOf(l) == [u \in Users |-> l.balance[Available(u)]]
ReservedOf(l) == [u \in Users |-> l.balance[Reserved(u)]]
CustodyOf(l) == l.balance[Custody(Asset)]

\* The accounts of the withdrawal path are accounts of the ledger.
LEMMA AccountsExist ==
    /\ \A u \in Users : Available(u) \in Accounts /\ Reserved(u) \in Accounts
    /\ Clearing \in Accounts /\ NetworkFee \in Accounts
    /\ Custody(Asset) \in Accounts /\ Custody(NativeAsset) \in Accounts
  BY DEF Available, Reserved, Clearing, NetworkFee, Custody, UserAccount,
         SystemAccount, Accounts, UserTypes, SystemTypes

\* Accounts of different types, users or assets are different.
LEMMA AccountsDiffer ==
    /\ \A u, v : /\ Available(u) = Available(v) => u = v
                 /\ Reserved(u) = Reserved(v) => u = v
                 /\ Available(u) # Reserved(v)
    /\ \A u, a : /\ Available(u) # Custody(a) /\ Reserved(u) # Custody(a)
                 /\ Available(u) # Clearing /\ Reserved(u) # Clearing
                 /\ Available(u) # NetworkFee /\ Reserved(u) # NetworkFee
    /\ \A a, b : Custody(a) = Custody(b) => a = b
    /\ \A a : Custody(a) # Clearing /\ Custody(a) # NetworkFee
  BY DEF Available, Reserved, Clearing, NetworkFee, Custody, UserAccount,
         SystemAccount

\* The sign of an entry: user balances are credit-normal, custody and clearing
\* debit-normal.
LEMMA EntrySigns ==
    ASSUME NEW x
    PROVE  /\ \A u : /\ NaturalDelta(Debit(Available(u), x)) = -x
                     /\ NaturalDelta(Credit(Available(u), x)) = x
                     /\ NaturalDelta(Debit(Reserved(u), x)) = -x
                     /\ NaturalDelta(Credit(Reserved(u), x)) = x
           /\ \A a : /\ NaturalDelta(Debit(Custody(a), x)) = x
                     /\ NaturalDelta(Credit(Custody(a), x)) = -x
  BY DEF NaturalDelta, NormalBalance, Debit, Credit, Available, Reserved,
         Custody, UserAccount, SystemAccount

\* What debiting x to a and crediting it to b does to c.
Transfer(a, b, x, c) ==
    IF c = a THEN NaturalDelta(Debit(a, x))
    ELSE IF c = b THEN NaturalDelta(Credit(b, x)) ELSE 0

\* A posting of two entries on two accounts is a transfer, ...
LEMMA PairDelta ==
    ASSUME NEW a, NEW b, a # b, NEW x, NEW c
    PROVE  DeltaOf({Debit(a, x), Credit(b, x)}, c) = Transfer(a, b, x, c)
<1> DEFINE entries == {Debit(a, x), Credit(b, x)}
<1>1. Debit(a, x).account = a /\ Credit(b, x).account = b
  BY DEF Debit, Credit
<1>2. CASE c = a
  <2>1. \A e \in entries : e.account = c <=> e = Debit(a, x)
    BY <1>1, <1>2, Zenon
  <2>2. (CHOOSE e \in entries : e.account = c) = Debit(a, x)
    BY <2>1, Zenon
  <2> QED
    BY <1>1, <1>2, <2>2, Zenon DEF DeltaOf, Transfer
<1>3. CASE c = b
  <2>1. \A e \in entries : e.account = c <=> e = Credit(b, x)
    BY <1>1, <1>3, Zenon
  <2>2. (CHOOSE e \in entries : e.account = c) = Credit(b, x)
    BY <2>1, Zenon
  <2> QED
    BY <1>1, <1>3, <2>2, Zenon DEF DeltaOf, Transfer
<1>4. CASE c # a /\ c # b
  <2>1. ~ \E e \in entries : e.account = c
    BY <1>1, <1>4, Zenon
  <2> QED
    BY <1>4, <2>1, Zenon DEF DeltaOf, Transfer
<1> QED
  BY <1>2, <1>3, <1>4, Zenon

\* ... which its balances take when its key is new.
LEMMA PairPosted ==
    ASSUME NEW l, NEW key, key \notin Keys(l), NEW a, NEW b, a # b, NEW x
    PROVE  \A c \in Accounts :
             PostTransaction(l, key, {Debit(a, x), Credit(b, x)}).balance[c]
               = l.balance[c] + Transfer(a, b, x, c)
<1>1. \A c \in Accounts :
        PostTransaction(l, key, {Debit(a, x), Credit(b, x)}).balance[c]
          = l.balance[c] + DeltaOf({Debit(a, x), Credit(b, x)}, c)
  BY DEF PostTransaction
<1> QED
  BY <1>1, PairDelta, Zenon

\* What a reservation, and its release, do to the three balances.
IntoEscrow(l, after, user, x) ==
    /\ AvailableOf(after) = [AvailableOf(l) EXCEPT ![user] = @ - x]
    /\ ReservedOf(after) = [ReservedOf(l) EXCEPT ![user] = @ + x]
    /\ CustodyOf(after) = CustodyOf(l)

OutOfEscrow(l, after, user, x) ==
    /\ AvailableOf(after) = [AvailableOf(l) EXCEPT ![user] = @ + x]
    /\ ReservedOf(after) = [ReservedOf(l) EXCEPT ![user] = @ - x]
    /\ CustodyOf(after) = CustodyOf(l)

LEMMA ReserveEffect ==
    ASSUME NEW l, l.balance \in [Accounts -> Int], NEW w, NEW user \in Users,
           NEW x \in Int, <<"withdrawal_reserve", w>> \notin Keys(l)
    PROVE  IntoEscrow(l, ReserveWithdrawal(l, w, user, x), user, x)
<1> DEFINE after == ReserveWithdrawal(l, w, user, x)
<1>1. \A c \in Accounts :
        after.balance[c]
          = l.balance[c] + Transfer(Available(user), Reserved(user), x, c)
  BY AccountsDiffer, PairPosted DEF ReserveWithdrawal
<1> HIDE DEF after
<1>2. \A u \in Users : after.balance[Available(u)] =
        IF u = user THEN l.balance[Available(u)] - x
        ELSE l.balance[Available(u)]
  BY <1>1, AccountsExist, AccountsDiffer, EntrySigns DEF Transfer
<1>3. \A u \in Users : after.balance[Reserved(u)] =
        IF u = user THEN l.balance[Reserved(u)] + x ELSE l.balance[Reserved(u)]
  BY <1>1, AccountsExist, AccountsDiffer, EntrySigns DEF Transfer
<1>4. after.balance[Custody(Asset)] = l.balance[Custody(Asset)]
  BY <1>1, AccountsExist, AccountsDiffer DEF Transfer
<1>5. AvailableOf(after) = [AvailableOf(l) EXCEPT ![user] = @ - x]
  BY <1>2, Zenon DEF AvailableOf
<1>6. ReservedOf(after) = [ReservedOf(l) EXCEPT ![user] = @ + x]
  BY <1>3, Zenon DEF ReservedOf
<1> QED
  BY <1>4, <1>5, <1>6, Zenon DEF after, CustodyOf, IntoEscrow

LEMMA ReleaseEffect ==
    ASSUME NEW l, l.balance \in [Accounts -> Int], NEW w, NEW user \in Users,
           NEW x \in Int, <<"withdrawal_release", w>> \notin Keys(l)
    PROVE  OutOfEscrow(l, ReleaseReservation(l, w, user, x), user, x)
<1> DEFINE after == ReleaseReservation(l, w, user, x)
<1>1. \A c \in Accounts :
        after.balance[c]
          = l.balance[c] + Transfer(Reserved(user), Available(user), x, c)
  BY AccountsDiffer, PairPosted DEF ReleaseReservation
<1> HIDE DEF after
<1>2. \A u \in Users : after.balance[Available(u)] =
        IF u = user THEN l.balance[Available(u)] + x
        ELSE l.balance[Available(u)]
  BY <1>1, AccountsExist, AccountsDiffer, EntrySigns DEF Transfer
<1>3. \A u \in Users : after.balance[Reserved(u)] =
        IF u = user THEN l.balance[Reserved(u)] - x ELSE l.balance[Reserved(u)]
  <2>1. after.balance[Reserved(user)] = l.balance[Reserved(user)] + (-x)
    BY <1>1, AccountsExist, EntrySigns, Zenon DEF Transfer
  <2>2. \A u \in Users \ {user} :
          after.balance[Reserved(u)] = l.balance[Reserved(u)]
    BY <1>1, AccountsExist, AccountsDiffer DEF Transfer
  <2>3. l.balance[Reserved(user)] \in Int
    BY AccountsExist
  <2> QED
    BY <2>1, <2>2, <2>3
<1>4. after.balance[Custody(Asset)] = l.balance[Custody(Asset)]
  BY <1>1, AccountsExist, AccountsDiffer DEF Transfer
<1>5. AvailableOf(after) = [AvailableOf(l) EXCEPT ![user] = @ + x]
  BY <1>2, Zenon DEF AvailableOf
<1>6. ReservedOf(after) = [ReservedOf(l) EXCEPT ![user] = @ - x]
  BY <1>3, Zenon DEF ReservedOf
<1> QED
  BY <1>4, <1>5, <1>6 DEF after, CustodyOf, OutOfEscrow

LEMMA BroadcastEffect ==
    ASSUME NEW l, l.balance \in [Accounts -> Int], NEW w, NEW x \in Int,
           <<"withdrawal_broadcast", w>> \notin Keys(l)
    PROVE  LET after == RecordBroadcast(l, w, x) IN
           /\ AvailableOf(after) = AvailableOf(l)
           /\ ReservedOf(after) = ReservedOf(l)
           /\ CustodyOf(after) = CustodyOf(l) - x
<1> DEFINE after == RecordBroadcast(l, w, x)
<1>1. \A c \in Accounts :
        after.balance[c]
          = l.balance[c] + Transfer(Clearing, Custody(Asset), x, c)
  BY AccountsDiffer, PairPosted DEF RecordBroadcast
<1> HIDE DEF after
<1>2. \A u \in Users : /\ after.balance[Available(u)] = l.balance[Available(u)]
                       /\ after.balance[Reserved(u)] = l.balance[Reserved(u)]
  BY <1>1, AccountsExist, AccountsDiffer DEF Transfer
<1>3. after.balance[Custody(Asset)] = l.balance[Custody(Asset)] - x
  BY <1>1, AccountsExist, AccountsDiffer, EntrySigns DEF Transfer
<1> QED
  BY <1>2, <1>3 DEF after, AvailableOf, ReservedOf, CustodyOf

LEMMA SettleEffect ==
    ASSUME NEW l, l.balance \in [Accounts -> Int], NEW w, NEW user \in Users,
           NEW x \in Int, <<"withdrawal_settle", w>> \notin Keys(l)
    PROVE  LET after == SettleWithdrawal(l, w, user, x) IN
           /\ AvailableOf(after) = AvailableOf(l)
           /\ ReservedOf(after) = [ReservedOf(l) EXCEPT ![user] = @ - x]
           /\ CustodyOf(after) = CustodyOf(l)
<1> DEFINE after == SettleWithdrawal(l, w, user, x)
<1>1. \A c \in Accounts :
        after.balance[c]
          = l.balance[c] + Transfer(Reserved(user), Clearing, x, c)
  BY AccountsDiffer, PairPosted DEF SettleWithdrawal
<1> HIDE DEF after
<1>2. \A u \in Users : after.balance[Available(u)] = l.balance[Available(u)]
  BY <1>1, AccountsExist, AccountsDiffer DEF Transfer
<1>3. \A u \in Users : after.balance[Reserved(u)] =
        IF u = user THEN l.balance[Reserved(u)] - x ELSE l.balance[Reserved(u)]
  <2>1. after.balance[Reserved(user)] = l.balance[Reserved(user)] + (-x)
    <3>1. Transfer(Reserved(user), Clearing, x, Reserved(user)) = -x
      BY EntrySigns, Zenon DEF Transfer
    <3> QED
      BY <1>1, <3>1, AccountsExist, Zenon
  <2>2. \A u \in Users \ {user} :
          after.balance[Reserved(u)] = l.balance[Reserved(u)]
    <3>1. \A u \in Users \ {user} :
            /\ Reserved(u) # Reserved(user) /\ Reserved(u) # Clearing
            /\ Reserved(u) \in Accounts /\ l.balance[Reserved(u)] \in Int
      BY AccountsExist, AccountsDiffer, Zenon
    <3> QED
      BY <1>1, <3>1 DEF Transfer
  <2>3. l.balance[Reserved(user)] \in Int
    BY AccountsExist, Zenon
  <2> QED
    BY <2>1, <2>2, <2>3, Zenon
<1>4. after.balance[Custody(Asset)] = l.balance[Custody(Asset)]
  BY <1>1, AccountsExist, AccountsDiffer DEF Transfer
<1>5. ReservedOf(after) = [ReservedOf(l) EXCEPT ![user] = @ - x]
  BY <1>3, Zenon DEF ReservedOf
<1> QED
  BY <1>2, <1>4, <1>5, Zenon DEF after, AvailableOf, CustodyOf

LEMMA ReversalEffect ==
    ASSUME NEW l, l.balance \in [Accounts -> Int], NEW w, NEW x \in Int,
           <<"withdrawal_broadcast_reversal", w>> \notin Keys(l)
    PROVE  LET after == ReverseBroadcast(l, w, x) IN
           /\ AvailableOf(after) = AvailableOf(l)
           /\ ReservedOf(after) = ReservedOf(l)
           /\ CustodyOf(after) = CustodyOf(l) + x
<1> DEFINE after == ReverseBroadcast(l, w, x)
<1>1. \A c \in Accounts :
        after.balance[c]
          = l.balance[c] + Transfer(Custody(Asset), Clearing, x, c)
  BY AccountsDiffer, PairPosted DEF ReverseBroadcast
<1> HIDE DEF after
<1>2. \A u \in Users : /\ after.balance[Available(u)] = l.balance[Available(u)]
                       /\ after.balance[Reserved(u)] = l.balance[Reserved(u)]
  BY <1>1, AccountsExist, AccountsDiffer DEF Transfer
<1>3. after.balance[Custody(Asset)] = l.balance[Custody(Asset)] + x
  BY <1>1, AccountsExist, AccountsDiffer, EntrySigns, Zenon DEF Transfer
<1> QED
  BY <1>2, <1>3 DEF after, AvailableOf, ReservedOf, CustodyOf

\* Gas is paid from the custody of the native asset.
LEMMA FeeEffect ==
    ASSUME NEW l, l.balance \in [Accounts -> Int], NEW w,
           <<"network_fee", w>> \notin Keys(l)
    PROVE  LET after == RecordNetworkFee(l, w, GasFee) IN
           /\ AvailableOf(after) = AvailableOf(l)
           /\ ReservedOf(after) = ReservedOf(l)
           /\ CustodyOf(after) = CustodyOf(l) - GasOfAsset
<1> DEFINE after == RecordNetworkFee(l, w, GasFee)
<1>0. GasFee \in Int /\ l.balance[Custody(Asset)] \in Int
  BY WithdrawalsAssumption, AccountsExist DEF WithdrawalsAssumption
<1>1. CASE GasFee = 0
  BY <1>0, <1>1 DEF RecordNetworkFee, GasOfAsset, CustodyOf
<1>2. CASE GasFee # 0
  <2>1. \A c \in Accounts :
          after.balance[c]
          = l.balance[c] + Transfer(NetworkFee, Custody(NativeAsset), GasFee, c)
    BY <1>2, AccountsDiffer, PairPosted DEF RecordNetworkFee
  <2> HIDE DEF after
  <2>2. \A u \in Users :
          /\ after.balance[Available(u)] = l.balance[Available(u)]
          /\ after.balance[Reserved(u)] = l.balance[Reserved(u)]
    BY <2>1, AccountsExist, AccountsDiffer DEF Transfer
  <2>3. after.balance[Custody(Asset)] = l.balance[Custody(Asset)] - GasOfAsset
    BY <1>0, <2>1, AccountsExist, AccountsDiffer, EntrySigns
       DEF Transfer, GasOfAsset
  <2> QED
    BY <2>2, <2>3, Zenon DEF after, AvailableOf, ReservedOf, CustodyOf
<1> QED
  BY <1>1, <1>2, Zenon

\* A settlement, and a mined revert, each with its gas.
LEMMA SettledEffect ==
    ASSUME NEW w, ledger.balance \in [Accounts -> Int],
           UserOf[w] \in Users, AmountOf[w] \in Int,
           <<"withdrawal_settle", w>> \notin Keys(ledger),
           <<"network_fee", w>> \notin Keys(ledger)
    PROVE  /\ AvailableOf(Settled(w)) = AvailableOf(ledger)
           /\ ReservedOf(Settled(w)) =
                [ReservedOf(ledger) EXCEPT ![UserOf[w]] = @ - AmountOf[w]]
           /\ CustodyOf(Settled(w)) = CustodyOf(ledger) - GasOfAsset
<1>1. PICK mid : mid = SettleWithdrawal(ledger, w, UserOf[w], AmountOf[w])
  BY Zenon
<1>2. /\ AvailableOf(mid) = AvailableOf(ledger)
      /\ ReservedOf(mid) =
           [ReservedOf(ledger) EXCEPT ![UserOf[w]] = @ - AmountOf[w]]
      /\ CustodyOf(mid) = CustodyOf(ledger)
  BY <1>1, SettleEffect
<1>3. mid.balance \in [Accounts -> Int]
  BY <1>1, BalanceOfOperations, Zenon
<1>4. <<"network_fee", w>> \notin Keys(mid)
  BY <1>1, KeysOfOperations
<1>5. Settled(w) = RecordNetworkFee(mid, w, GasFee)
  BY <1>1, Zenon DEF Settled
<1> QED
  BY <1>2, <1>3, <1>4, <1>5, FeeEffect, Zenon

LEMMA RevertedEffect ==
    ASSUME NEW w, ledger.balance \in [Accounts -> Int],
           UserOf[w] \in Users, AmountOf[w] \in Int,
           <<"withdrawal_broadcast_reversal", w>> \notin Keys(ledger),
           <<"withdrawal_release", w>> \notin Keys(ledger),
           <<"network_fee", w>> \notin Keys(ledger)
    PROVE  /\ AvailableOf(Reverted(w)) =
                [AvailableOf(ledger) EXCEPT ![UserOf[w]] = @ + AmountOf[w]]
           /\ ReservedOf(Reverted(w)) =
                [ReservedOf(ledger) EXCEPT ![UserOf[w]] = @ - AmountOf[w]]
           /\ CustodyOf(Reverted(w)) =
                CustodyOf(ledger) + AmountOf[w] - GasOfAsset
<1>1. PICK back : back = ReverseBroadcast(ledger, w, AmountOf[w])
  BY Zenon
<1>2. /\ AvailableOf(back) = AvailableOf(ledger)
      /\ ReservedOf(back) = ReservedOf(ledger)
      /\ CustodyOf(back) = CustodyOf(ledger) + AmountOf[w]
  BY <1>1, ReversalEffect
<1>3. back.balance \in [Accounts -> Int]
  BY <1>1, BalanceOfOperations, Zenon
<1>4. Keys(back) = Keys(ledger) \cup {<<"withdrawal_broadcast_reversal", w>>}
  BY <1>1, KeysOfPost, Zenon DEF ReverseBroadcast
<1>5. PICK mid : mid = ReleaseReservation(back, w, UserOf[w], AmountOf[w])
  BY Zenon
<1>6. OutOfEscrow(back, mid, UserOf[w], AmountOf[w])
  <2>1. <<"withdrawal_release", w>> \notin Keys(back)
    BY <1>4, Zenon
  <2> QED
    BY <1>3, <1>5, <2>1, ReleaseEffect, Zenon
<1>7. mid.balance \in [Accounts -> Int]
  BY <1>3, <1>5, BalanceOfOperations, Zenon
<1>8. <<"network_fee", w>> \notin Keys(mid)
  BY <1>4, <1>5, KeysOfOperations
<1>9. Reverted(w) = RecordNetworkFee(mid, w, GasFee)
  BY <1>1, <1>5, Zenon DEF Reverted
<1>10. /\ AvailableOf(Reverted(w)) = AvailableOf(mid)
       /\ ReservedOf(Reverted(w)) = ReservedOf(mid)
       /\ CustodyOf(Reverted(w)) = CustodyOf(mid) - GasOfAsset
  BY <1>7, <1>8, <1>9, FeeEffect, Zenon
<1>11. AvailableOf(Reverted(w)) =
         [AvailableOf(ledger) EXCEPT ![UserOf[w]] = @ + AmountOf[w]]
  BY <1>2, <1>6, <1>10, Zenon DEF OutOfEscrow
<1>12. ReservedOf(Reverted(w)) =
         [ReservedOf(ledger) EXCEPT ![UserOf[w]] = @ - AmountOf[w]]
  BY <1>2, <1>6, <1>10, Zenon DEF OutOfEscrow
<1>13. CustodyOf(Reverted(w)) = CustodyOf(ledger) + AmountOf[w] - GasOfAsset
  <2>1. CustodyOf(mid) = CustodyOf(back)
    BY <1>6, Zenon DEF OutOfEscrow
  <2>2. CustodyOf(Reverted(w)) = CustodyOf(mid) - GasOfAsset
    BY <1>10, Zenon
  <2>3. CustodyOf(back) = CustodyOf(ledger) + AmountOf[w]
    BY <1>2, Zenon
  <2>4. CustodyOf(ledger) \in Int /\ GasOfAsset \in Int
    BY AccountsExist, WithdrawalsAssumption
       DEF CustodyOf, GasOfAsset, WithdrawalsAssumption
  <2> QED
    BY <2>1, <2>2, <2>3, <2>4
<1> QED
  BY <1>11, <1>12, <1>13, Zenon

\* A transaction commits only if custody covers it.
LEMMA CustodyCovers ==
    ASSUME NEW l, Commits(l)
    PROVE  CustodyOf(l) >= 0
<1>1. ~AllowsNegative(Custody(Asset))
  BY DEF AllowsNegative, Custody, SystemAccount
<1> QED
  BY <1>1, AccountsExist, Zenon DEF Commits, CustodyOf

-------------------------------------------------------------------------------
(* The gas of a withdrawal is booked once, when it ends.                    *)

\* Gas is booked only in the transaction that ends a withdrawal, settle_success
\* or settle_failure, so its idempotency key is free when they post it.
FeesAreFinal ==
    \A w \in Withdrawal : Posted("network_fee", w) => IsTerminal(StatusOf(w))

\* A step that books gas ends its withdrawal.
LEMMA FeeKeys ==
    ASSUME rows \in [Withdrawal -> Row], [Next]_vars, NEW v \in Withdrawal,
           <<"network_fee", v>> \in Keys(ledger'),
           <<"network_fee", v>> \notin Keys(ledger)
    PROVE  IsTerminal(rows'[v].status)
<1> DEFINE fee == <<"network_fee", v>>
<1>1. \A kind, w : kind # "network_fee" => <<kind, w>> # fee
  OBVIOUS
<1> HIDE DEF fee
<1>2. ASSUME NEW w \in Withdrawal
      PROVE  fee \notin Keys(ReleaseIfReserved(w))
  <2>1. Keys(ReleaseIfReserved(w)) \subseteq
          Keys(ledger) \cup {<<"withdrawal_release", w>>}
    BY KeysOfPost DEF ReleaseIfReserved, ReleaseReservation
  <2> QED
    BY <1>1, <2>1, Zenon DEF fee
<1>3. ASSUME NEW w \in Withdrawal, Request(w) PROVE FALSE
  <2>1. Keys(ReserveWithdrawal(ledger, w, UserOf[w], AmountOf[w]))
          = Keys(ledger) \cup {<<"withdrawal_reserve", w>>}
    BY KeysOfPost, Zenon DEF ReserveWithdrawal
  <2>2. fee \notin Keys(ReserveWithdrawal(ledger, w, UserOf[w], AmountOf[w]))
    BY <1>1, <2>1, Zenon DEF fee
  <2> QED
    BY <1>2, <1>3, <2>2, Zenon
       DEF Request, CreateDenied, CreateReserved, Approve, Cancel, fee
<1>4. ASSUME NEW p \in Workers, NEW w \in Withdrawal,
             \/ \E hint \in {0} \cup PendingNonce, gas \in EstimateFees :
                  Sign(p, w, hint, gas)
             \/ MarkBroadcast(p, w) \/ FailAndRelease(p, w) \/ Progress(p, w)
      PROVE  FALSE
  <2>1. Keys(RecordBroadcast(ledger, w, AmountOf[w]))
          = Keys(ledger) \cup {<<"withdrawal_broadcast", w>>}
    BY KeysOfPost, Zenon DEF RecordBroadcast
  <2>2. fee \notin Keys(RecordBroadcast(ledger, w, AmountOf[w]))
    BY <1>1, <2>1, Zenon DEF fee
  <2> QED
    BY <1>2, <1>4, <2>2, Zenon
       DEF Sign, MarkBroadcast, FailAndRelease, Progress, fee
<1>5. ASSUME NEW p \in Workers, NEW w \in Withdrawal,
             SettleSuccess(p, w) \/ SettleFailure(p, w)
      PROVE  IsTerminal(rows'[v].status)
  <2>1. fee \in Keys(Settled(w)) \/ fee \in Keys(Reverted(w))
    BY <1>5, Zenon DEF SettleSuccess, SettleFailure, fee
  <2>2. fee = <<"network_fee", w>>
    BY <1>1, <2>1, SettlementKeys DEF fee
  <2>3. v = w
    BY <2>2, Zenon DEF fee
  <2>4. rows'[w].status \in {"completed", "failed"}
    BY <1>5, OneRow, Zenon DEF SettleSuccess, SettleFailure
  <2> QED
    BY <2>3, <2>4, Zenon DEF IsTerminal
<1>6. ~ UNCHANGED db
  BY Zenon DEF db
<1> QED
  BY <1>3, <1>4, <1>5, <1>6, WritesOrNot, Zenon DEF Writes

\* settle_success and settle_failure alone book gas, and a terminal row stays.
THEOREM GasIsBookedOnce == Spec => []FeesAreFinal
<1>1. Init => FeesAreFinal
  <2> SUFFICES ASSUME Init, NEW w \in Withdrawal
               PROVE  ~Posted("network_fee", w)
    BY DEF FeesAreFinal
  <2> QED
    BY OpeningAssumption DEF Init, Posted
<1>2. IInv /\ FeesAreFinal /\ [Next]_vars /\ [HistoryStep]_vars
        => FeesAreFinal'
  <2> SUFFICES ASSUME IInv, FeesAreFinal, [Next]_vars, [HistoryStep]_vars,
                      NEW w \in Withdrawal, Posted("network_fee", w)'
               PROVE  IsTerminal(rows'[w].status)
    BY Zenon DEF FeesAreFinal, StatusOf, IsTerminal
  <2>1. rows \in [Withdrawal -> Row]
    BY Zenon DEF IInv, TypeOK
  <2>2. CASE Posted("network_fee", w)
    <3>1. IsTerminal(rows[w].status)
      BY <2>2, Zenon DEF FeesAreFinal, StatusOf
    <3>2. rows'[w] = rows[w]
      BY <3>1, Zenon DEF HistoryStep, vars, db
    <3> QED
      BY <3>1, <3>2, Zenon
  <2>3. CASE ~Posted("network_fee", w)
    BY <2>1, <2>3, FeeKeys, Zenon DEF Posted
  <2> QED
    BY <2>2, <2>3
<1> QED
  BY <1>1, <1>2, Invariance, HistorySafety, PTL DEF Spec, HistoryOnlyGrows

-------------------------------------------------------------------------------
(* The mapping.                                                             *)

PlaceFn == [w \in Withdrawal |-> Place(w)]

\* Where an amount is, status by status.
LEMMA PlaceOfStatus ==
    ASSUME NEW row
    PROVE  /\ ~row.reserved => PlaceOf(row) = "user"
           /\ row.reserved =>
                /\ row.status \in {"validated", "approved", "signing"}
                     => PlaceOf(row) = "escrow"
                /\ row.status \in {"broadcast", "confirming"}
                     => PlaceOf(row) = "in_flight"
                /\ row.status = "completed" => PlaceOf(row) = "paid"
                /\ row.status \in {"failed", "cancelled"}
                     => PlaceOf(row) = "returned"
  BY DEF PlaceOf

\* One row moves one amount.
LEMMA OnePlace ==
    ASSUME NEW w \in Withdrawal, NEW to, Place(w)' = to,
           \A v \in Withdrawal \ {w} : rows'[v] = rows[v]
    PROVE  PlaceFn' = [PlaceFn EXCEPT ![w] = to]
<1>1. \A v \in Withdrawal \ {w} : Place(v)' = Place(v)
  BY Zenon DEF Place
<1> QED
  BY <1>1, Zenon DEF PlaceFn

\* The steps of Escrow, in terms of the rows and the ledger.
LEMMA ReserveRefines ==
    ASSUME NEW w \in Withdrawal, Place(w) = "user",
           PlaceFn' = [PlaceFn EXCEPT ![w] = "escrow"],
           AvailableOf(ledger)[UserOf[w]] >= AmountOf[w],
           IntoEscrow(ledger, ledger', UserOf[w], AmountOf[w])
    PROVE  Abstract!Next
<1>1. Abstract!Reserve(w)
  BY DEF Abstract!Reserve, Abstract!Move, PlaceFn, AvailableOf, ReservedOf,
         CustodyOf, IntoEscrow
<1> QED
  BY <1>1, Zenon DEF Abstract!Next

LEMMA ReleaseRefines ==
    ASSUME NEW w \in Withdrawal, Place(w) = "escrow",
           PlaceFn' = [PlaceFn EXCEPT ![w] = "returned"],
           OutOfEscrow(ledger, ledger', UserOf[w], AmountOf[w])
    PROVE  Abstract!Next
<1>1. Abstract!Release(w)
  BY DEF Abstract!Release, Abstract!GiveBack, Abstract!Move, PlaceFn,
         AvailableOf, ReservedOf, CustodyOf, OutOfEscrow
<1> QED
  BY <1>1, Zenon DEF Abstract!Next

LEMMA SendRefines ==
    ASSUME NEW w \in Withdrawal, Place(w) = "escrow",
           PlaceFn' = [PlaceFn EXCEPT ![w] = "in_flight"],
           CustodyOf(ledger) >= AmountOf[w],
           AvailableOf(ledger') = AvailableOf(ledger),
           ReservedOf(ledger') = ReservedOf(ledger),
           CustodyOf(ledger') = CustodyOf(ledger) - AmountOf[w]
    PROVE  Abstract!Next
<1>1. Abstract!Send(w)
  BY DEF Abstract!Send, Abstract!Move, PlaceFn, AvailableOf, ReservedOf,
         CustodyOf
<1> QED
  BY <1>1, Zenon DEF Abstract!Next

LEMMA SettleRefines ==
    ASSUME NEW w \in Withdrawal, Place(w) = "in_flight",
           PlaceFn' = [PlaceFn EXCEPT ![w] = "paid"],
           CustodyOf(ledger) >= GasOfAsset,
           AvailableOf(ledger') = AvailableOf(ledger),
           ReservedOf(ledger') =
             [ReservedOf(ledger) EXCEPT ![UserOf[w]] = @ - AmountOf[w]],
           CustodyOf(ledger') = CustodyOf(ledger) - GasOfAsset
    PROVE  Abstract!Next
<1>1. Abstract!Settle(w)
  BY DEF Abstract!Settle, Abstract!Move, PlaceFn, AvailableOf, ReservedOf,
         CustodyOf
<1> QED
  BY <1>1, Zenon DEF Abstract!Next

LEMMA BounceRefines ==
    ASSUME NEW w \in Withdrawal, Place(w) = "in_flight",
           PlaceFn' = [PlaceFn EXCEPT ![w] = "returned"],
           CustodyOf(ledger) + AmountOf[w] >= GasOfAsset,
           AvailableOf(ledger') =
             [AvailableOf(ledger) EXCEPT ![UserOf[w]] = @ + AmountOf[w]],
           ReservedOf(ledger') =
             [ReservedOf(ledger) EXCEPT ![UserOf[w]] = @ - AmountOf[w]],
           CustodyOf(ledger') = CustodyOf(ledger) + AmountOf[w] - GasOfAsset
    PROVE  Abstract!Next
<1>1. Abstract!Bounce(w)
  BY DEF Abstract!Bounce, Abstract!GiveBack, Abstract!Move, PlaceFn,
         AvailableOf, ReservedOf, CustodyOf
<1> QED
  BY <1>1, Zenon DEF Abstract!Next

\* What Escrow sees of a state.
View == <<PlaceFn, AvailableOf(ledger), ReservedOf(ledger), CustodyOf(ledger)>>

Inv == IInv /\ LedgerMatchesLifecycle /\ FeesAreFinal

\* A step that leaves the place and the ledger alone, Escrow does not see.
LEMMA SameView ==
    ASSUME NEW w \in Withdrawal, UNCHANGED ledger, Place(w)' = Place(w),
           \A v \in Withdrawal \ {w} : rows'[v] = rows[v]
    PROVE  UNCHANGED View
<1>1. PlaceFn' = [PlaceFn EXCEPT ![w] = Place(w)]
  BY OnePlace, Zenon
<1>2. PlaceFn' = PlaceFn
  BY <1>1, Zenon DEF PlaceFn
<1> QED
  BY <1>2, Zenon DEF View, AvailableOf, ReservedOf, CustodyOf

\* create, approve and cancel.
LEMMA RequestRefines ==
    ASSUME Inv, NEW w \in Withdrawal, Request(w)
    PROVE  Abstract!Next \/ UNCHANGED View
<1>1. /\ rows \in [Withdrawal -> Row] /\ Lifecycle(w)
      /\ ledger.balance \in [Accounts -> Int]
      /\ UserOf[w] \in Users /\ AmountOf[w] \in Int
  BY WithdrawalsAssumption
     DEF Inv, IInv, TypeOK, LedgerMatchesLifecycle, WithdrawalsAssumption
<1>2. CASE CreateDenied(w)
  <2>1. /\ rows[w].status = "absent" /\ rows'[w].reserved = rows[w].reserved
        /\ \A v \in Withdrawal \ {w} : rows'[v] = rows[v]
        /\ UNCHANGED ledger
    BY <1>1, <1>2, Zenon DEF CreateDenied, NewRequest, StatusOf, Row
  <2>2. ~rows[w].reserved
    BY <1>1, <2>1, Zenon DEF Lifecycle, StatusOf
  <2>3. Place(w) = "user" /\ Place(w)' = "user"
    BY <2>1, <2>2, PlaceOfStatus, Zenon DEF Place
  <2> QED
    BY <1>2, <2>1, <2>3, SameView, Zenon DEF CreateDenied
<1>3. ASSUME NEW held \in BOOLEAN, CreateReserved(w, held)
      PROVE  Abstract!Next
  <2>1. /\ rows'[w].status \in {"validated", "approved"} /\ rows'[w].reserved
        /\ \A v \in Withdrawal \ {w} : rows'[v] = rows[v]
        /\ rows[w].status = "absent"
        /\ ledger' = ReserveWithdrawal(ledger, w, UserOf[w], AmountOf[w])
        /\ ledger.balance[Available(UserOf[w])] >= AmountOf[w]
    BY <1>1, <1>3, Zenon DEF CreateReserved, NewRequest, StatusOf
  <2>2. ~rows[w].reserved /\ <<"withdrawal_reserve", w>> \notin Keys(ledger)
    BY <1>1, <2>1, Zenon DEF Lifecycle, StatusOf, Posted
  <2>3. Place(w) = "user" /\ Place(w)' = "escrow"
    BY <2>1, <2>2, PlaceOfStatus, Zenon DEF Place
  <2>4. PlaceFn' = [PlaceFn EXCEPT ![w] = "escrow"]
    BY <2>1, <2>3, OnePlace, Zenon
  <2>5. AvailableOf(ledger)[UserOf[w]] >= AmountOf[w]
    BY <1>1, <2>1, Zenon DEF AvailableOf
  <2>6. IntoEscrow(ledger, ledger', UserOf[w], AmountOf[w])
    BY <1>1, <2>1, <2>2, ReserveEffect, Zenon
  <2> QED
    BY <2>3, <2>4, <2>5, <2>6, ReserveRefines, Zenon
<1>4. CASE Approve(w)
  <2>1. /\ rows[w].status = "validated" /\ rows'[w].status = "approved"
        /\ rows'[w].reserved = rows[w].reserved /\ UNCHANGED ledger
        /\ \A v \in Withdrawal \ {w} : rows'[v] = rows[v]
    BY <1>1, <1>4, OneRow, Zenon DEF Approve, StatusOf
  <2>2. Place(w)' = Place(w)
    BY <2>1, PlaceOfStatus, Zenon DEF Place
  <2> QED
    BY <2>1, <2>2, SameView, Zenon
<1>5. CASE Cancel(w)
  <2>1. /\ rows[w].status \in {"validated", "approved"}
        /\ rows'[w].status = "cancelled"
        /\ rows'[w].reserved = rows[w].reserved
        /\ \A v \in Withdrawal \ {w} : rows'[v] = rows[v]
        /\ ledger' = ReleaseIfReserved(w)
    BY <1>1, <1>5, CancelEdge, OneRow, Zenon DEF Cancel, StatusOf
  <2>2. rows[w].reserved /\ <<"withdrawal_release", w>> \notin Keys(ledger)
    BY <1>1, <2>1, Zenon DEF Lifecycle, StatusOf, Posted
  <2>3. Place(w) = "escrow" /\ Place(w)' = "returned"
    BY <2>1, <2>2, PlaceOfStatus, Zenon DEF Place
  <2>4. PlaceFn' = [PlaceFn EXCEPT ![w] = "returned"]
    BY <2>1, <2>3, OnePlace, Zenon
  <2>5. ledger' = ReleaseReservation(ledger, w, UserOf[w], AmountOf[w])
    BY <2>1, <2>2, Zenon DEF ReleaseIfReserved
  <2>6. OutOfEscrow(ledger, ledger', UserOf[w], AmountOf[w])
    BY <1>1, <2>2, <2>5, ReleaseEffect, Zenon
  <2> QED
    BY <2>3, <2>4, <2>6, ReleaseRefines, Zenon
<1> QED
  BY <1>2, <1>3, <1>4, <1>5, Zenon DEF Request

\* The outcomes the pipeline records.
LEMMA RecordRefines ==
    ASSUME Inv, NEW p \in Workers, NEW w \in Withdrawal,
           \/ MarkBroadcast(p, w) \/ FailAndRelease(p, w) \/ Progress(p, w)
           \/ SettleSuccess(p, w) \/ SettleFailure(p, w)
    PROVE  Abstract!Next \/ UNCHANGED View
<1>1. /\ rows \in [Withdrawal -> Row] /\ Lifecycle(w) /\ TypeOK /\ Knows(p)
      /\ ledger.balance \in [Accounts -> Int] /\ rows[w].status \in Status
      /\ UserOf[w] \in Users /\ AmountOf[w] \in Int
  BY WithdrawalsAssumption
     DEF Inv, IInv, TypeOK, LedgerMatchesLifecycle, WithdrawalsAssumption,
         ReplicasKnowTheirRows, Row
<1>2. CustodyOf(ledger) \in Int /\ GasOfAsset \in Int
  BY <1>1, AccountsExist, WithdrawalsAssumption
     DEF CustodyOf, GasOfAsset, WithdrawalsAssumption
<1>3. CASE MarkBroadcast(p, w)
  <2>1. /\ rows[w].status = "signing" /\ rows'[w].status = "broadcast"
        /\ rows'[w].reserved = rows[w].reserved
        /\ \A v \in Withdrawal \ {w} : rows'[v] = rows[v]
        /\ ledger' = RecordBroadcast(ledger, w, AmountOf[w])
        /\ Commits(ledger')
    BY <1>1, <1>3, OneRow, Zenon DEF MarkBroadcast, StatusOf
  <2>2. rows[w].reserved /\ <<"withdrawal_broadcast", w>> \notin Keys(ledger)
    BY <1>1, <2>1, Zenon DEF Lifecycle, StatusOf, Posted, FundsMayHaveLeft
  <2>3. Place(w) = "escrow" /\ Place(w)' = "in_flight"
    BY <2>1, <2>2, PlaceOfStatus, Zenon DEF Place
  <2>4. PlaceFn' = [PlaceFn EXCEPT ![w] = "in_flight"]
    BY <2>1, <2>3, OnePlace, Zenon
  <2>5. /\ AvailableOf(ledger') = AvailableOf(ledger)
        /\ ReservedOf(ledger') = ReservedOf(ledger)
        /\ CustodyOf(ledger') = CustodyOf(ledger) - AmountOf[w]
    BY <1>1, <2>1, <2>2, BroadcastEffect, Zenon
  <2>6. CustodyOf(ledger') >= 0
    BY <2>1, CustodyCovers, Zenon
  <2>7. CustodyOf(ledger) >= AmountOf[w]
    BY <1>1, <1>2, <2>5, <2>6
  <2> QED
    BY <2>3, <2>4, <2>5, <2>7, SendRefines, Zenon
<1>4. CASE FailAndRelease(p, w)
  <2>0. StatusOf(w) # "absent"
    BY <1>1, <1>4, CurrentIsClaimed, Zenon DEF FailAndRelease, Knows
  <2>1. /\ rows[w].status \in {"validated", "approved", "signing"}
        /\ rows'[w].status = "failed" /\ rows'[w].reserved = rows[w].reserved
        /\ \A v \in Withdrawal \ {w} : rows'[v] = rows[v]
        /\ ledger' = ReleaseIfReserved(w)
    BY <1>1, <1>4, <2>0, OneRow, Zenon
       DEF FailAndRelease, StatusOf, IsTerminal, FundsMayHaveLeft, Status
  <2>2. rows[w].reserved /\ <<"withdrawal_release", w>> \notin Keys(ledger)
    BY <1>1, <2>1, Zenon DEF Lifecycle, StatusOf, Posted
  <2>3. Place(w) = "escrow" /\ Place(w)' = "returned"
    BY <2>1, <2>2, PlaceOfStatus, Zenon DEF Place
  <2>4. PlaceFn' = [PlaceFn EXCEPT ![w] = "returned"]
    BY <2>1, <2>3, OnePlace, Zenon
  <2>5. ledger' = ReleaseReservation(ledger, w, UserOf[w], AmountOf[w])
    BY <2>1, <2>2, Zenon DEF ReleaseIfReserved
  <2>6. OutOfEscrow(ledger, ledger', UserOf[w], AmountOf[w])
    BY <1>1, <2>2, <2>5, ReleaseEffect, Zenon
  <2> QED
    BY <2>3, <2>4, <2>6, ReleaseRefines, Zenon
<1>5. CASE Progress(p, w)
  <2>0. rows[w].status \in {"broadcast", "confirming", "completed", "failed"}
    BY <1>1, <1>5, CurrentIsClaimed, Zenon DEF Progress, Knows, At, StatusOf
  <2>1. /\ rows'[w].status = IF rows[w].status = "broadcast"
                             THEN "confirming" ELSE rows[w].status
        /\ rows'[w].reserved = rows[w].reserved
        /\ \A v \in Withdrawal \ {w} : rows'[v] = rows[v]
        /\ UNCHANGED ledger
    BY <1>1, <1>5, OneRow, Zenon DEF Progress, StatusOf
  <2>2. Place(w)' = Place(w)
    BY <2>0, <2>1, PlaceOfStatus, Zenon DEF Place
  <2> QED
    BY <2>1, <2>2, SameView, Zenon
<1>6. CASE SettleSuccess(p, w)
  <2>1. /\ rows[w].status \in {"broadcast", "confirming"}
        /\ rows'[w].status = "completed"
        /\ rows'[w].reserved = rows[w].reserved
        /\ \A v \in Withdrawal \ {w} : rows'[v] = rows[v]
        /\ ledger' = Settled(w) /\ Commits(ledger')
    BY <1>1, <1>6, OneRow, Zenon DEF SettleSuccess, StatusOf
  <2>2. /\ rows[w].reserved /\ <<"withdrawal_settle", w>> \notin Keys(ledger)
        /\ <<"network_fee", w>> \notin Keys(ledger)
    BY <1>1, <2>1, Zenon
       DEF Lifecycle, StatusOf, Posted, Inv, FeesAreFinal, IsTerminal
  <2>3. Place(w) = "in_flight" /\ Place(w)' = "paid"
    BY <2>1, <2>2, PlaceOfStatus, Zenon DEF Place
  <2>4. PlaceFn' = [PlaceFn EXCEPT ![w] = "paid"]
    BY <2>1, <2>3, OnePlace, Zenon
  <2>5. /\ AvailableOf(ledger') = AvailableOf(ledger)
        /\ ReservedOf(ledger') =
             [ReservedOf(ledger) EXCEPT ![UserOf[w]] = @ - AmountOf[w]]
        /\ CustodyOf(ledger') = CustodyOf(ledger) - GasOfAsset
    BY <1>1, <2>1, <2>2, SettledEffect, Zenon
  <2>6. CustodyOf(ledger') >= 0
    BY <2>1, CustodyCovers, Zenon
  <2>7. CustodyOf(ledger) >= GasOfAsset
    BY <1>2, <2>5, <2>6
  <2> QED
    BY <2>3, <2>4, <2>5, <2>7, SettleRefines, Zenon
<1>7. CASE SettleFailure(p, w)
  <2>0. StatusOf(w) \in {"broadcast", "confirming"}
    BY <1>1, <1>7, CurrentIsClaimed, Zenon
       DEF SettleFailure, Knows, At, IsTerminal
  <2>1. /\ rows[w].status \in {"broadcast", "confirming"}
        /\ rows'[w].status = "failed" /\ rows'[w].reserved = rows[w].reserved
        /\ \A v \in Withdrawal \ {w} : rows'[v] = rows[v]
        /\ ledger' = Reverted(w) /\ Commits(ledger')
    BY <1>1, <1>7, <2>0, OneRow, Zenon DEF SettleFailure, StatusOf
  <2>2. /\ rows[w].reserved /\ <<"network_fee", w>> \notin Keys(ledger)
        /\ <<"withdrawal_broadcast_reversal", w>> \notin Keys(ledger)
        /\ <<"withdrawal_release", w>> \notin Keys(ledger)
    BY <1>1, <2>1, Zenon
       DEF Lifecycle, StatusOf, Posted, Inv, FeesAreFinal, IsTerminal
  <2>3. Place(w) = "in_flight" /\ Place(w)' = "returned"
    BY <2>1, <2>2, PlaceOfStatus, Zenon DEF Place
  <2>4. PlaceFn' = [PlaceFn EXCEPT ![w] = "returned"]
    BY <2>1, <2>3, OnePlace, Zenon
  <2>5. /\ AvailableOf(ledger') =
             [AvailableOf(ledger) EXCEPT ![UserOf[w]] = @ + AmountOf[w]]
        /\ ReservedOf(ledger') =
             [ReservedOf(ledger) EXCEPT ![UserOf[w]] = @ - AmountOf[w]]
        /\ CustodyOf(ledger') = CustodyOf(ledger) + AmountOf[w] - GasOfAsset
    BY <1>1, <2>1, <2>2, RevertedEffect, Zenon
  <2>6. CustodyOf(ledger') >= 0
    BY <2>1, CustodyCovers, Zenon
  <2>7. CustodyOf(ledger) + AmountOf[w] >= GasOfAsset
    BY <1>1, <1>2, <2>5, <2>6
  <2> QED
    BY <2>3, <2>4, <2>5, <2>7, BounceRefines, Zenon
<1> QED
  BY <1>3, <1>4, <1>5, <1>6, <1>7, Zenon

(***************************************************************************)
(* Every behaviour of the withdrawal path is one of Escrow: whatever the   *)
(* replicas interleave, lose and retry, an amount goes from the user into  *)
(* escrow and from there leaves custody for good or comes back, once, and  *)
(* the balances move by exactly that amount, and by the gas where it is of *)
(* the same asset (service.rs, pipeline.rs, operations.rs).                *)
(***************************************************************************)
THEOREM Refinement == Spec => ImplementsEscrow
<1>1. Init => Abstract!Init
  <2> SUFFICES ASSUME Init PROVE Abstract!Init
    BY Zenon
  <2>1. \A w \in Withdrawal : Place(w) = "user"
    BY PlaceOfStatus DEF Init, Place
  <2> QED
    BY <2>1 DEF Init, Abstract!Init
<1>2. Inv /\ [Next]_vars => [Abstract!Next]_View
  <2> SUFFICES ASSUME Inv, [Next]_vars PROVE Abstract!Next \/ UNCHANGED View
    BY Zenon
  <2>1. CASE UNCHANGED db
    BY <2>1, Zenon
       DEF db, View, PlaceFn, Place, AvailableOf, ReservedOf, CustodyOf
  <2>2. ASSUME NEW p \in Workers, NEW w \in Withdrawal, NEW hint, NEW fee,
               Sign(p, w, hint, fee)
        PROVE  UNCHANGED View
    <3>1. rows \in [Withdrawal -> Row]
      BY Zenon DEF Inv, IInv, TypeOK
    <3>2. /\ rows[w].status = "approved" /\ rows'[w].status = "signing"
          /\ rows'[w].reserved = rows[w].reserved /\ UNCHANGED ledger
          /\ \A v \in Withdrawal \ {w} : rows'[v] = rows[v]
      BY <2>2, <3>1, Zenon DEF Sign, Row, StatusOf
    <3>3. Place(w)' = Place(w)
      BY <3>2, PlaceOfStatus, Zenon DEF Place
    <3> QED
      BY <3>2, <3>3, SameView, Zenon
  <2> QED
    BY <2>1, <2>2, RequestRefines, RecordRefines, WritesOrNot, Zenon DEF Writes
<1>3. [Abstract!Next]_View =>
        [Abstract!Next]_<<[w \in Withdrawal |-> Place(w)],
                          [u \in Users |-> ledger.balance[Available(u)]],
                          [u \in Users |-> ledger.balance[Reserved(u)]],
                          ledger.balance[Custody(Asset)]>>
  BY Zenon DEF View, PlaceFn, AvailableOf, ReservedOf, CustodyOf
<1>4. Spec => []Inv
  BY Invariance, LifecycleSafety, GasIsBookedOnce, PTL DEF Inv
<1> QED
  BY <1>1, <1>2, <1>3, <1>4, PTL DEF Spec, ImplementsEscrow, Abstract!Spec
===============================================================================
