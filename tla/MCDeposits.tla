------------------------------ MODULE MCDeposits ------------------------------
(* Deposits on small instances.                                             *)
EXTENDS Deposits, TLC

CONSTANTS u1, t1, t2, w1, w2, c1

OneTransfer == {t1}
MCUserOf == [t \in {t1, t2} |-> u1]
MCAmountOf == (t1 :> 2) @@ (t2 :> 3)

\* The treasury backs what a reorganisation may take back.
MCOpeningLedger == FundCustody(EmptyLedger, "float", Asset, 2)
===============================================================================
