---------------------------- MODULE MCWithdrawals ----------------------------
(* Withdrawals on small instances.                                          *)
EXTENDS EscrowMapping, TLC

CONSTANTS u1, u2, p1, p2

TwoWorkers == {p1, p2}

\* Replicas differ in nothing: no definition names one of them.
ReplicaSymmetry == Permutations(TwoWorkers)

MCUsers == {u1, u2}
TwoUserOf == <<u1, u2>>
MCAmountOf == <<2, 3>>

\* Each user was credited a deposit that covers one of the amounts with
\* something to spare, and the treasury funded the gas.
MCOpeningLedger ==
    FundCustody(
        CreditDeposit(CreditDeposit(EmptyLedger, "d1", u1, 4), "d2", u2, 4),
        "gas", NativeAsset, 2)
===============================================================================
