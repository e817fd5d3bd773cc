------------------------------- MODULE Addresses -------------------------------
(***************************************************************************)
(* Deposit addresses: POST /v1/deposit-addresses, claim_pool_address, the  *)
(* seeding of the pool, and the deposit_address_pool and                   *)
(* deposit_addresses tables of one chain.                                  *)
(*                                                                         *)
(* A statement of the claiming transaction is a step; its row lock is the  *)
(* session's, its writes are seen when it commits.                         *)
(***************************************************************************)
EXTENDS Ledger, Sequences

CONSTANTS
    Exported,    \* the addresses the custody system exports, in this order
    Seeded,      \* how many of them are in the pool from the start
    Sessions,    \* requests the API serves at the same time
    NoUser,
    NoAddress

Addresses == {Exported[i] : i \in DOMAIN Exported}

\* The pool holds an address once (deposit_address_pool_key).
ASSUME AddressesAssumption ==
    /\ Len(Exported) \in Nat /\ DOMAIN Exported = 1 .. Len(Exported)
    /\ \A i, j \in DOMAIN Exported : Exported[i] = Exported[j] => i = j
    /\ Seeded \in 0 .. Len(Exported)
    /\ IsFiniteSet(Sessions)
    /\ NoUser \notin Users /\ NoAddress \notin Addresses

VARIABLES
    pool,     \* deposit_address_pool, oldest first
    address,  \* deposit_addresses: the address of each user
    claim,    \* the request each session serves
    told      \* the <<user, address>> pairs answered

poolVars == <<pool, address, claim, told>>

NoClaim == [pc |-> "idle", user |-> NoUser, row |-> 0]

FreeRow(a) == [address |-> a, assigned_to |-> NoUser]

PoolInit ==
    /\ pool = [i \in 1 .. Seeded |-> FreeRow(Exported[i])]
    /\ address = [u \in Users |-> NoAddress]
    /\ claim = [s \in Sessions |-> NoClaim]
    /\ told = {}

Claiming(s, pc) == claim[s].pc = pc
EndClaim(s) == claim' = [claim EXCEPT ![s] = NoClaim]

\* owner_of_address
OwnerOf(a) == {u \in Users : address[u] = a}

\* add_pool_address for the next export; one already there is left alone.
AddPoolAddress ==
    /\ Len(pool) < Len(Exported)
    /\ pool' = Append(pool, FreeRow(Exported[Len(pool) + 1]))
    /\ UNCHANGED <<address, claim, told>>

\* Mutant: the request does not look for an earlier assignment.
NeverAssigned(user) == FALSE

Assigned(user) == address[user] # NoAddress

\* create_deposit_address reads deposit_addresses, and claim_pool_address, in
\* its transaction, once more: a user who has an address is told it.
FindAddress(s, user) ==
    /\ Claiming(s, "idle")
    /\ IF Assigned(user)
       THEN /\ told' = told \cup {<<user, address[user]>>}
            /\ UNCHANGED claim
       ELSE /\ claim' = [claim EXCEPT
                           ![s] = [pc |-> "lock", user |-> user, row |-> 0]]
            /\ UNCHANGED told
    /\ UNCHANGED <<pool, address>>

\* The rows FOR UPDATE SKIP LOCKED may return.
FreeRows ==
    {i \in DOMAIN pool :
        /\ pool[i].assigned_to = NoUser
        /\ OwnerOf(pool[i].address) = {}
        /\ \A s \in Sessions : claim[s].row # i}

\* The oldest free row is locked; without one the answer is 503.
LockRow(s) ==
    /\ Claiming(s, "lock")
    /\ claim' = [claim EXCEPT
                   ![s] = IF FreeRows = {}
                          THEN NoClaim
                          ELSE [pc |-> "assign", user |-> claim[s].user,
                                row |-> Min(FreeRows)]]
    /\ UNCHANGED <<pool, address, told>>

\* Mutant: the second address replaces the first.
AssignLatest(user, a) == a

\* assign_deposit_address: ON CONFLICT (user_id, chain) returns the row there.
AssignDepositAddress(user, a) ==
    IF address[user] = NoAddress THEN a ELSE address[user]

\* The row is marked, the address assigned, the transaction commits.
AssignRow(s) ==
    LET user == claim[s].user
        row == claim[s].row
        result == AssignDepositAddress(user, pool[row].address)
    IN  /\ Claiming(s, "assign")
        /\ pool' = [pool EXCEPT ![row].assigned_to = user]
        /\ address' = [address EXCEPT ![user] = result]
        /\ told' = told \cup {<<user, result>>}
        /\ EndClaim(s)

\* A timeout, an error or a crash rolls the transaction back.
AbandonClaim(s) ==
    /\ ~Claiming(s, "idle")
    /\ EndClaim(s)
    /\ UNCHANGED <<pool, address, told>>

ClaimStep(s) == LockRow(s) \/ AssignRow(s) \/ AbandonClaim(s)

-------------------------------------------------------------------------------
(* Properties.                                                              *)

PoolTypeOK ==
    /\ pool \in Seq([address : Addresses, assigned_to : Users \cup {NoUser}])
    /\ address \in [Users -> Addresses \cup {NoAddress}]
    /\ told \subseteq Users \X Addresses

\* Whatever requests overlap, are retried or abandoned, a user is told one
\* address for ever, the one the watcher monitors for them, and no other user
\* is ever told it (claim_pool_address, deposit_address_pool_assigned_once_idx).
ToldOneAddress ==
    /\ \A t \in told : address[t[1]] = t[2]
    /\ \A t1, t2 \in told : t1[2] = t2[2] => t1[1] = t2[1]

\* Retries do not drain the pool: "a retried request would burn a second
\* address" only where the requests of one user overlap, each of the sessions
\* once (claim_pool_address).
RetriesBurnNoAddress ==
    \A u \in Users :
        Cardinality({i \in DOMAIN pool : pool[i].assigned_to = u})
          <= Cardinality(Sessions)
===============================================================================
