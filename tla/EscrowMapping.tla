----------------------------- MODULE EscrowMapping -----------------------------
(***************************************************************************)
(* How Withdrawals implements Escrow: the place of an amount is read off   *)
(* the row, the balances off the ledger.                                   *)
(***************************************************************************)
EXTENDS Withdrawals

\* Where a withdrawal's amount is, read off its row.
PlaceOf(row) ==
    IF ~row.reserved
    THEN "user"
    ELSE CASE row.status \in {"validated", "approved", "signing"} -> "escrow"
           [] row.status \in {"broadcast", "confirming"} -> "in_flight"
           [] row.status = "completed" -> "paid"
           [] row.status \in {"failed", "cancelled"} -> "returned"

Place(w) == PlaceOf(rows[w])

\* Gas is booked in the native asset: it leaves the custody of the withdrawn
\* asset only where the two are one.
GasOfAsset == IF NativeAsset = Asset THEN GasFee ELSE 0

Abstract == INSTANCE Escrow WITH
    OpeningAvailable <- [u \in Users |-> OpeningLedger.balance[Available(u)]],
    OpeningReserved <- [u \in Users |-> OpeningLedger.balance[Reserved(u)]],
    OpeningCustody <- OpeningLedger.balance[Custody(Asset)],
    Gas <- GasOfAsset,
    place <- [w \in Withdrawal |-> Place(w)],
    available <- [u \in Users |-> ledger.balance[Available(u)]],
    reserved <- [u \in Users |-> ledger.balance[Reserved(u)]],
    custody <- ledger.balance[Custody(Asset)]

\* The service and any number of replicas implement the escrow: whatever they
\* interleave, lose and retry, a step moves the rows and the balances of one
\* withdrawal together, by its amount and its gas, along escrow, in flight,
\* paid or returned (service.rs, pipeline.rs, operations.rs).
ImplementsEscrow == Abstract!Spec
===============================================================================
