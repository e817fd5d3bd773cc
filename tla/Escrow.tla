-------------------------------- MODULE Escrow --------------------------------
(***************************************************************************)
(* What a withdrawal promises, without pipeline, replicas, hashes or       *)
(* chain: its amount is taken from the user's available funds into         *)
(* escrow, and from there it leaves custody for good or comes back, once.  *)
(* A step moves one withdrawal, and exactly its amount; what ended on      *)
(* chain also cost its gas.                                                *)
(***************************************************************************)
EXTENDS Integers

CONSTANTS Users, Withdrawal, UserOf, AmountOf, OpeningAvailable,
          OpeningReserved, OpeningCustody,
          Gas   \* what a mined payment costs, as far as it is of this asset

VARIABLES
    place,      \* where the amount of each withdrawal is
    available,  \* what each user may dispose of
    reserved,   \* what is in escrow for each user
    custody     \* what ChainRail holds

Places == {"user", "escrow", "in_flight", "paid", "returned"}

Init ==
    /\ place = [w \in Withdrawal |-> "user"]
    /\ available = OpeningAvailable
    /\ reserved = OpeningReserved
    /\ custody = OpeningCustody

Move(w, from, to) ==
    /\ place[w] = from
    /\ place' = [place EXCEPT ![w] = to]

Reserve(w) ==
    /\ Move(w, "user", "escrow")
    /\ available[UserOf[w]] >= AmountOf[w]
    /\ available' = [available EXCEPT ![UserOf[w]] = @ - AmountOf[w]]
    /\ reserved' = [reserved EXCEPT ![UserOf[w]] = @ + AmountOf[w]]
    /\ UNCHANGED custody

GiveBack(w) ==
    /\ available' = [available EXCEPT ![UserOf[w]] = @ + AmountOf[w]]
    /\ reserved' = [reserved EXCEPT ![UserOf[w]] = @ - AmountOf[w]]

\* Cancelled, or failed before it was sent.
Release(w) ==
    /\ Move(w, "escrow", "returned")
    /\ GiveBack(w)
    /\ UNCHANGED custody

Send(w) ==
    /\ Move(w, "escrow", "in_flight")
    /\ custody >= AmountOf[w]
    /\ custody' = custody - AmountOf[w]
    /\ UNCHANGED <<available, reserved>>

\* The payment is final.
Settle(w) ==
    /\ Move(w, "in_flight", "paid")
    /\ reserved' = [reserved EXCEPT ![UserOf[w]] = @ - AmountOf[w]]
    /\ custody >= Gas
    /\ custody' = custody - Gas
    /\ UNCHANGED available

\* The payment reverted on chain.
Bounce(w) ==
    /\ Move(w, "in_flight", "returned")
    /\ GiveBack(w)
    /\ custody + AmountOf[w] >= Gas
    /\ custody' = custody + AmountOf[w] - Gas

Next ==
    \E w \in Withdrawal :
        Reserve(w) \/ Release(w) \/ Send(w) \/ Settle(w) \/ Bounce(w)

Spec == Init /\ [][Next]_<<place, available, reserved, custody>>
===============================================================================
