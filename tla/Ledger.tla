-------------------------------- MODULE Ledger --------------------------------
(***************************************************************************)
(* The append-only double-entry ledger: crates/ledger and                  *)
(* migrations/0003_ledger.sql.                                             *)
(*                                                                         *)
(* A ledger is a value, not a variable: the record of                      *)
(*   balance  the cached ledger_accounts.balance column, in natural sign;  *)
(*   journal  the ledger_transactions rows, each with its idempotency key  *)
(*            and its ledger_entries rows.                                 *)
(* An operation maps the ledger a database transaction reads to the ledger *)
(* it would commit.  Several postings of one database transaction compose, *)
(* and the transaction commits only if Commits holds of the result: the    *)
(* non-negative CHECK otherwise aborts it, business rows included.         *)
(*                                                                         *)
(* Users hold one asset; gas is booked in NativeAsset, which may be the    *)
(* same one.  Amounts are naturals: i128 and NUMERIC(78,0) do not wrap.    *)
(***************************************************************************)
EXTENDS Integers, FiniteSets, FiniteSetsExt

CONSTANTS Users, Asset, NativeAsset

UserTypes == {"user_available", "user_reserved", "user_deficit"}
SystemTypes == {"exchange_custody", "withdrawal_clearing", "network_fee",
                "treasury"}

UserAccount(type, user) == <<type, user, Asset>>
SystemAccount(type, asset) == <<type, "system", asset>>

Available(user) == UserAccount("user_available", user)
Reserved(user) == UserAccount("user_reserved", user)
Deficit(user) == UserAccount("user_deficit", user)
Custody(asset) == SystemAccount("exchange_custody", asset)
Clearing == SystemAccount("withdrawal_clearing", Asset)
NetworkFee == SystemAccount("network_fee", NativeAsset)
Treasury(asset) == SystemAccount("treasury", asset)

Accounts ==
    {UserAccount(type, user) : type \in UserTypes, user \in Users}
        \cup {SystemAccount(type, asset) :
                type \in SystemTypes, asset \in {Asset, NativeAsset}}

\* AccountType::normal_balance
NormalBalance(account) ==
    IF account[1] \in {"user_available", "user_reserved", "treasury"}
    THEN "credit" ELSE "debit"

\* AccountType::allows_negative, the allow_negative column
AllowsNegative(account) ==
    account[1] \in {"withdrawal_clearing", "treasury"}

Debit(account, amount) ==
    [account |-> account, direction |-> "debit", amount |-> amount]
Credit(account, amount) ==
    [account |-> account, direction |-> "credit", amount |-> amount]

-------------------------------------------------------------------------------

(***************************************************************************)
(* ledger_apply_entry: an entry matching the account's normal balance      *)
(* raises the natural balance, any other lowers it.                        *)
(***************************************************************************)
NaturalDelta(e) ==
    IF e.direction = NormalBalance(e.account) THEN e.amount ELSE -e.amount

\* What a posting does to one account.  No operation below puts two entries
\* of one posting on the same account.
DeltaOf(entries, account) ==
    IF \E e \in entries : e.account = account
    THEN NaturalDelta(CHOOSE e \in entries : e.account = account)
    ELSE 0

SumOf(entries) == MapThenSumSet(LAMBDA e : e.amount, entries)

\* Posting::validate, re-checked by ledger_assert_balanced at commit
Validate(entries) ==
    /\ Cardinality(entries) >= 2
    /\ \A e \in entries : e.amount > 0
    /\ SumOf({e \in entries : e.direction = "debit"})
         = SumOf({e \in entries : e.direction = "credit"})

Keys(ledger) == {row.key : row \in ledger.journal}

\* Mutant: only the debit entries move a balance.
PostDebitsOnly(ledger, key, entries) ==
    IF key \in Keys(ledger)
    THEN ledger
    ELSE [balance |-> [account \in Accounts |->
                         ledger.balance[account]
                           + DeltaOf({e \in entries : e.direction = "debit"},
                                     account)],
          journal |-> ledger.journal \cup {[key |-> key, entries |-> entries]}]

(***************************************************************************)
(* post_transaction: a key already in the journal writes nothing and       *)
(* returns the original transaction (AlreadyPosted); otherwise the entries *)
(* are journalled and each moves its account's cached balance.             *)
(***************************************************************************)
PostTransaction(ledger, key, entries) ==
    IF key \in Keys(ledger)
    THEN ledger
    ELSE [balance |-> [account \in Accounts |->
                         ledger.balance[account] + DeltaOf(entries, account)],
          journal |-> ledger.journal \cup {[key |-> key, entries |-> entries]}]

\* The CHECK ledger_accounts_non_negative and the balance trigger: a database
\* transaction that would leave this false aborts.
Commits(ledger) ==
    /\ \A account \in Accounts :
         ~AllowsNegative(account) => ledger.balance[account] >= 0
    /\ \A row \in ledger.journal : Validate(row.entries)

-------------------------------------------------------------------------------
(* The domain postings of operations.rs.                                    *)

CreditDeposit(ledger, deposit, user, amount) ==
    PostTransaction(ledger, <<"deposit_credit", deposit>>,
        {Debit(Custody(Asset), amount), Credit(Available(user), amount)})

\* Mutant: what the user cannot cover is written off against equity.
ReverseWrittenOff(ledger, deposit, user, amount) ==
    LET current == ledger.balance[Available(user)]
        fromAvailable == IF current >= amount THEN amount ELSE current
        shortfall == amount - fromAvailable
    IN  PostTransaction(ledger, <<"deposit_reversal", deposit>>,
            {e \in {Credit(Custody(Asset), amount),
                    Debit(Available(user), fromAvailable),
                    Debit(Treasury(Asset), shortfall)} : e.amount > 0})

\* The available balance is read under lock_user_account; what it cannot cover
\* becomes a receivable.  Legs of zero are left out.
ReverseDepositCredit(ledger, deposit, user, amount) ==
    LET current == ledger.balance[Available(user)]
        fromAvailable == IF current >= amount THEN amount ELSE current
        shortfall == amount - fromAvailable
    IN  PostTransaction(ledger, <<"deposit_reversal", deposit>>,
            {e \in {Credit(Custody(Asset), amount),
                    Debit(Available(user), fromAvailable),
                    Debit(Deficit(user), shortfall)} : e.amount > 0})

ReserveWithdrawal(ledger, withdrawal, user, amount) ==
    PostTransaction(ledger, <<"withdrawal_reserve", withdrawal>>,
        {Debit(Available(user), amount), Credit(Reserved(user), amount)})

ReleaseReservation(ledger, withdrawal, user, amount) ==
    PostTransaction(ledger, <<"withdrawal_release", withdrawal>>,
        {Debit(Reserved(user), amount), Credit(Available(user), amount)})

RecordBroadcast(ledger, withdrawal, amount) ==
    PostTransaction(ledger, <<"withdrawal_broadcast", withdrawal>>,
        {Debit(Clearing, amount), Credit(Custody(Asset), amount)})

\* Mutant: the settlement takes the amount from custody a second time.
SettleFromCustody(ledger, withdrawal, user, amount) ==
    PostTransaction(ledger, <<"withdrawal_settle", withdrawal>>,
        {Debit(Reserved(user), amount), Credit(Custody(Asset), amount)})

SettleWithdrawal(ledger, withdrawal, user, amount) ==
    PostTransaction(ledger, <<"withdrawal_settle", withdrawal>>,
        {Debit(Reserved(user), amount), Credit(Clearing, amount)})

ReverseBroadcast(ledger, withdrawal, amount) ==
    PostTransaction(ledger, <<"withdrawal_broadcast_reversal", withdrawal>>,
        {Debit(Custody(Asset), amount), Credit(Clearing, amount)})

\* A fee of zero posts nothing.
RecordNetworkFee(ledger, withdrawal, fee) ==
    IF fee = 0
    THEN ledger
    ELSE PostTransaction(ledger, <<"network_fee", withdrawal>>,
            {Debit(NetworkFee, fee), Credit(Custody(NativeAsset), fee)})

FundCustody(ledger, reference, asset, amount) ==
    PostTransaction(ledger, <<"custody_funding", reference>>,
        {Debit(Custody(asset), amount), Credit(Treasury(asset), amount)})

EmptyLedger ==
    [balance |-> [account \in Accounts |-> 0], journal |-> {}]

-------------------------------------------------------------------------------
(* What verify_ledger_integrity asks of a ledger.                           *)

SumOver(accounts, balance) ==
    MapThenSumSet(LAMBDA a : balance[a], accounts)

\* Per asset, the debit-normal balances equal the credit-normal ones.
TrialBalance(ledger) ==
    \A asset \in {Asset, NativeAsset} :
        LET side(direction) ==
              {a \in Accounts : a[3] = asset /\ NormalBalance(a) = direction}
        IN  SumOver(side("debit"), ledger.balance)
              = SumOver(side("credit"), ledger.balance)

\* The balance of the ledger_account_balances view: the sum over the entries.
DerivedBalance(ledger, account) ==
    MapThenSumSet(LAMBDA row : DeltaOf(row.entries, account), ledger.journal)

\* No balance drift: every cached balance is the sum of its entries.
CacheMatchesJournal(ledger) ==
    \A account \in Accounts :
        ledger.balance[account] = DerivedBalance(ledger, account)

\* Each idempotency key was journalled once.
KeysAreUnique(ledger) ==
    \A r1, r2 \in ledger.journal : r1.key = r2.key => r1 = r2

\* IntegrityReport::is_clean
IsClean(ledger) ==
    TrialBalance(ledger) /\ CacheMatchesJournal(ledger) /\ KeysAreUnique(ledger)
===============================================================================
