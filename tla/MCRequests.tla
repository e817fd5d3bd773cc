------------------------------ MODULE MCRequests ------------------------------
(* Requests on a small instance.                                            *)
EXTENDS Requests, TLC

CONSTANTS u1, u2, s1, s2, a1, a2, a3, out, hot

Post(user, key, amount, destination) ==
    [user |-> user, key |-> key, amount |-> amount, destination |-> destination]

\* One key with two bodies, one large amount, and one payment to what may be
\* the deposit address of the other user.
MCRequested ==
    {Post(u1, "k1", 1, out), Post(u1, "k1", 3, out),
     Post(u1, "k2", 1, out), Post(u1, "k3", 2, a1)}

\* A limit of the chain's own beside one of the asset.
MCPolicy ==
    [maintenance_mode |-> FALSE,
     allowed_chains |-> {Chain},
     destination_denylist |-> {},
     min_per_request |-> <<>>,
     max_per_request |-> <<Asset>> :> 3,
     max_per_user_per_day |-> (<<Chain, Asset>> :> 4) @@ (<<Asset>> :> 1),
     max_withdrawals_per_user_per_day |-> {2},
     manual_approval_threshold |-> <<Asset>> :> 2]

MCExported == <<a1, a2, a3>>

\* Sessions differ in nothing: no definition names one of them.
SessionSymmetry == Permutations({s1, s2})

MCOpeningLedger == CreditDeposit(EmptyLedger, "d1", u1, 5)
===============================================================================
