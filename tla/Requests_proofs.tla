---------------------------- MODULE Requests_proofs ----------------------------
(***************************************************************************)
(* Proofs about the API at work, for any number of sessions, users, rows   *)
(* and pool addresses: the deposit address requests first, then the        *)
(* withdrawal requests and the client that pages through the list.         *)
(***************************************************************************)
EXTENDS Requests, FiniteSetTheorems, WellFoundedInduction, TLAPS

-------------------------------------------------------------------------------
(* Least and greatest numbers.                                              *)

\* A nonempty set of naturals has a least element.
LEMMA MinOfNats ==
    ASSUME NEW S, S \subseteq Nat, S # {}
    PROVE  Min(S) \in S /\ \A y \in S : Min(S) <= y
<1>1. PICK x \in S : \A y \in S : <<y, x>> \notin OpToRel(<, Nat)
  BY NatLessThanWellFounded, WFMin, Zenon
<1>2. \A y \in S : ~ (y < x)
  BY <1>1, Zenon DEF OpToRel
<1>3. \E m \in S : \A y \in S : m <= y
  BY <1>2
<1> QED
  BY <1>3, Zenon DEF Min

\* A nonempty set of naturals up to n has a greatest element.
LEMMA MaxOfNats ==
    ASSUME NEW n \in Nat, NEW S, S \subseteq 0 .. n, S # {}
    PROVE  Max(S) \in S /\ \A y \in S : Max(S) >= y
<1> DEFINE Bounds == {b \in Nat : \A y \in S : y <= b}
<1>1. n \in Bounds
  OBVIOUS
<1>2. PICK b \in Bounds : \A c \in Bounds : b <= c
  BY <1>1, MinOfNats, Zenon
<1>3. b \in S
  <2>1. SUFFICES ASSUME b \notin S PROVE FALSE
    OBVIOUS
  <2>2. \A y \in S : y \in Nat /\ y < b
    BY <2>1
  <2>3. b - 1 \in Nat
    <3>1. PICK y \in S : y \in Nat /\ y < b
      BY <2>2, Zenon
    <3> QED
      BY <3>1
  <2>4. \A y \in S : y <= b - 1
    BY <2>2
  <2>5. b - 1 \in Bounds
    BY <2>3, <2>4
  <2> QED
    BY <1>2, <2>5
<1>4. \E m \in S : \A y \in S : m >= y
  BY <1>3
<1> QED
  BY <1>4, Zenon DEF Max

-------------------------------------------------------------------------------
(* The pool.                                                                *)

PoolRow == [address : Addresses, assigned_to : Users \cup {NoUser}]

ClaimState ==
    [pc : {"idle", "lock", "assign"}, user : Users \cup {NoUser}, row : Nat]

\* The rows of the pool marked for a user, and the requests of the user that
\* may still mark one.
RowsOf(u) == {i \in DOMAIN pool : pool[i].assigned_to = u}
ClaimsOf(u) == {s \in Sessions : claim[s].pc # "idle" /\ claim[s].user = u}

\* A row a request holds locked is free, its address nobody's, and no other
\* request holds it.
LockedRowIsFree(s) ==
    /\ claim[s].row \in DOMAIN pool
    /\ pool[claim[s].row].assigned_to = NoUser
    /\ \A u \in Users : address[u] # pool[claim[s].row].address
    /\ \A t \in Sessions \ {s} : claim[t].row # claim[s].row

ClaimsAreSound ==
    \A s \in Sessions :
        /\ claim[s].pc # "idle" => claim[s].user \in Users
        /\ claim[s].pc # "assign" => claim[s].row = 0
        /\ claim[s].pc = "assign" => LockedRowIsFree(s)

\* Addresses have one owner.
OneOwner ==
    \A u, v \in Users :
        address[u] = address[v] /\ address[u] # NoAddress => u = v

\* A user without an address has used none; one with an address uses up at
\* most one for each request that was under way when it was assigned.
PoolIsSpared ==
    \A u \in Users :
        /\ address[u] = NoAddress => RowsOf(u) = {}
        /\ Cardinality(RowsOf(u)) + Cardinality(ClaimsOf(u))
             <= Cardinality(Sessions)

PoolTypes ==
    /\ pool \in Seq(PoolRow) /\ Len(pool) <= Len(Exported)
    /\ \A i \in DOMAIN pool : pool[i].address = Exported[i]
    /\ address \in [Users -> Addresses \cup {NoAddress}]
    /\ claim \in [Sessions -> ClaimState]
    /\ told \subseteq Users \X Addresses

PoolInv ==
    /\ PoolTypes /\ ClaimsAreSound /\ OneOwner /\ PoolIsSpared
    /\ \A t \in told : address[t[1]] = t[2]

\* The sets counted are finite.
LEMMA Counts ==
    ASSUME PoolTypes, NEW u \in Users
    PROVE  /\ IsFiniteSet(RowsOf(u)) /\ Cardinality(RowsOf(u)) \in Nat
           /\ IsFiniteSet(ClaimsOf(u)) /\ Cardinality(ClaimsOf(u)) \in Nat
           /\ IsFiniteSet(Sessions) /\ Cardinality(Sessions) \in Nat
           /\ Cardinality(ClaimsOf(u)) <= Cardinality(Sessions)
<1>1. IsFiniteSet(Sessions)
  BY AddressesAssumption DEF AddressesAssumption
<1>2. ClaimsOf(u) \in SUBSET Sessions
  BY DEF ClaimsOf
<1>3. IsFiniteSet(1 .. Len(pool))
  BY FS_Interval DEF PoolTypes
<1>4. RowsOf(u) \in SUBSET (1 .. Len(pool))
  BY DEF RowsOf, PoolTypes
<1>5. IsFiniteSet(RowsOf(u)) /\ IsFiniteSet(ClaimsOf(u))
  BY <1>1, <1>2, <1>3, <1>4, FS_Subset
<1> QED
  BY <1>1, <1>2, <1>5, FS_Subset, FS_CardinalityType

\* A freshly seeded pool is in order.
LEMMA PoolInitEstablishes ==
    ASSUME PoolInit
    PROVE  PoolInv
<1>1. PoolTypes
  <2>1. \A i \in 1 .. Seeded : FreeRow(Exported[i]) \in PoolRow
    BY AddressesAssumption DEF PoolRow, FreeRow, AddressesAssumption, Addresses
  <2>2. pool \in Seq(PoolRow) /\ Len(pool) = Seeded
    BY <2>1, AddressesAssumption DEF PoolInit, AddressesAssumption
  <2>3. \A i \in DOMAIN pool : pool[i].address = Exported[i]
    BY DEF PoolInit, FreeRow
  <2>4. claim \in [Sessions -> ClaimState]
    BY DEF PoolInit, ClaimState, NoClaim
  <2> QED
    BY <2>2, <2>3, <2>4, AddressesAssumption
       DEF PoolInit, PoolTypes, AddressesAssumption
<1>2. ClaimsAreSound
  BY DEF PoolInit, ClaimsAreSound, NoClaim
<1>3. \A u \in Users : RowsOf(u) = {} /\ ClaimsOf(u) = {}
  BY AddressesAssumption
     DEF PoolInit, RowsOf, ClaimsOf, FreeRow, NoClaim, AddressesAssumption
<1>4. PoolIsSpared
  BY <1>1, <1>3, Counts, FS_EmptySet DEF PoolIsSpared
<1> QED
  BY <1>1, <1>2, <1>4 DEF PoolInit, PoolInv, OneOwner

\* Seeding adds a row no request knows.
LEMMA SeedPreserves ==
    ASSUME PoolInv, AddPoolAddress
    PROVE  PoolInv'
<1> USE DEF AddPoolAddress
<1>1. /\ Len(pool') = Len(pool) + 1
      /\ \A i \in DOMAIN pool : i \in DOMAIN pool' /\ pool'[i] = pool[i]
      /\ pool'[Len(pool) + 1] = FreeRow(Exported[Len(pool) + 1])
      /\ DOMAIN pool' = DOMAIN pool \cup {Len(pool) + 1}
      /\ FreeRow(Exported[Len(pool) + 1]) \in PoolRow
      /\ pool' \in Seq(PoolRow)
  BY AddressesAssumption
     DEF PoolInv, PoolTypes, FreeRow, PoolRow, AddressesAssumption, Addresses
<1>2. PoolTypes'
  BY <1>1 DEF PoolInv, PoolTypes, FreeRow
<1>3. ClaimsAreSound'
  BY <1>1 DEF PoolInv, ClaimsAreSound, LockedRowIsFree
<1>4. \A u \in Users : RowsOf(u)' = RowsOf(u) /\ ClaimsOf(u)' = ClaimsOf(u)
  BY <1>1, AddressesAssumption
     DEF RowsOf, ClaimsOf, FreeRow, AddressesAssumption
<1> QED
  BY <1>2, <1>3, <1>4, Zenon DEF PoolInv, OneOwner, PoolIsSpared

\* FindAddress tells an address or begins a claim, for a user without rows.
LEMMA FindPreserves ==
    ASSUME PoolInv, NEW s \in Sessions, NEW user \in Users,
           FindAddress(s, user)
    PROVE  PoolInv'
<1>0. PoolTypes /\ ClaimsAreSound /\ UNCHANGED <<pool, address>>
  BY Zenon DEF PoolInv, FindAddress
<1>1. CASE Assigned(user)
  <2>1. /\ told' = told \cup {<<user, address[user]>>} /\ UNCHANGED claim
        /\ address[user] \in Addresses
    BY <1>0, <1>1, Zenon DEF FindAddress, Assigned, PoolTypes
  <2>2. /\ told' \subseteq Users \X Addresses
        /\ \A t \in told' : address[t[1]] = t[2]
    BY <1>0, <2>1 DEF PoolInv, PoolTypes
  <2>3. \A u \in Users : RowsOf(u)' = RowsOf(u) /\ ClaimsOf(u)' = ClaimsOf(u)
    BY <1>0, <2>1, Zenon DEF RowsOf, ClaimsOf
  <2> QED
    BY <1>0, <2>1, <2>2, <2>3
       DEF PoolInv, PoolTypes, ClaimsAreSound, LockedRowIsFree, OneOwner,
           PoolIsSpared
<1>2. CASE ~Assigned(user)
  <2>1. /\ claim' = [claim EXCEPT
                       ![s] = [pc |-> "lock", user |-> user, row |-> 0]]
        /\ claim[s].pc = "idle" /\ UNCHANGED told /\ address[user] = NoAddress
    BY <1>2, Zenon DEF FindAddress, Assigned, Claiming
  <2>2. PoolTypes'
    BY <1>0, <2>1, Zenon DEF PoolTypes, ClaimState
  <2>3. \A t \in Sessions : claim'[t].row = claim[t].row
    BY <1>0, <2>1, Zenon DEF PoolTypes, ClaimsAreSound
  <2>4. ClaimsAreSound'
    BY <1>0, <2>1, <2>3 DEF PoolTypes, ClaimsAreSound, LockedRowIsFree
  <2>5. \A u \in Users : RowsOf(u)' = RowsOf(u)
    BY <1>0, Zenon DEF RowsOf
  <2>6. \A u \in Users \ {user} : ClaimsOf(u)' = ClaimsOf(u)
    BY <1>0, <2>1, AddressesAssumption, Zenon
       DEF ClaimsOf, PoolTypes, AddressesAssumption
  <2>7. RowsOf(user) = {}
    BY <2>1, Zenon DEF PoolInv, PoolIsSpared
  <2>8. /\ Cardinality(RowsOf(user)') = 0
        /\ Cardinality(ClaimsOf(user)') <= Cardinality(Sessions)
        /\ Cardinality(ClaimsOf(user)') \in Nat
    <3>1. ClaimsOf(user)' \in SUBSET Sessions
      BY Zenon DEF ClaimsOf
    <3> QED
      BY <2>5, <2>7, <3>1, AddressesAssumption, FS_EmptySet, FS_Subset,
         FS_CardinalityType, Zenon DEF AddressesAssumption
  <2>9. PoolIsSpared'
    BY <1>0, <2>1, <2>5, <2>6, <2>7, <2>8 DEF PoolInv, PoolIsSpared
  <2> QED
    BY <1>0, <2>1, <2>2, <2>4, <2>9, Zenon DEF PoolInv, OneOwner
<1> QED
  BY <1>1, <1>2, Zenon

\* A request that ends without an assignment frees what it held.
LEMMA EndPreserves ==
    ASSUME PoolInv, NEW s \in Sessions, EndClaim(s),
           UNCHANGED <<pool, address, told>>
    PROVE  PoolInv'
<1>0. PoolTypes /\ ClaimsAreSound
  BY Zenon DEF PoolInv
<1>1. /\ claim'[s] = NoClaim
      /\ \A t \in Sessions \ {s} : claim'[t] = claim[t]
      /\ claim' \in [Sessions -> ClaimState]
  BY <1>0, Zenon DEF EndClaim, PoolTypes, NoClaim, ClaimState
<1>2. PoolTypes'
  BY <1>0, <1>1, Zenon DEF PoolTypes
<1>3. ClaimsAreSound'
  <2> SUFFICES ASSUME NEW t \in Sessions
               PROVE  /\ claim'[t].pc # "idle" => claim'[t].user \in Users
                      /\ claim'[t].pc # "assign" => claim'[t].row = 0
                      /\ claim'[t].pc = "assign" => LockedRowIsFree(t)'
    BY Zenon DEF ClaimsAreSound
  <2>1. CASE t = s
    BY <1>1, <2>1 DEF NoClaim
  <2>2. CASE t # s
    <3>1. claim'[t] = claim[t]
      BY <1>1, <2>2, Zenon
    <3>2. ASSUME claim[t].pc = "assign" PROVE LockedRowIsFree(t)'
      <4>1. LockedRowIsFree(t) /\ claim[t].row # 0
        BY <1>0, <3>2 DEF ClaimsAreSound, LockedRowIsFree, PoolTypes
      <4> QED
        BY <1>1, <3>1, <4>1 DEF LockedRowIsFree, NoClaim
    <3> QED
      BY <1>0, <3>1, <3>2, Zenon DEF ClaimsAreSound
  <2> QED
    BY <2>1, <2>2, Zenon
<1>4. \A u \in Users : RowsOf(u)' = RowsOf(u)
  BY Zenon DEF RowsOf
<1>5. \A u \in Users : ClaimsOf(u)' \in SUBSET ClaimsOf(u)
  BY <1>1 DEF ClaimsOf, NoClaim
<1>6. \A u \in Users : /\ Cardinality(ClaimsOf(u)') \in Nat
                        /\ Cardinality(ClaimsOf(u)') <= Cardinality(ClaimsOf(u))
  BY <1>0, <1>5, Counts, FS_Subset, FS_CardinalityType, Zenon
<1>7. PoolIsSpared'
  <2> SUFFICES ASSUME NEW u \in Users
               PROVE  /\ address[u] = NoAddress => RowsOf(u)' = {}
                      /\ Cardinality(RowsOf(u)') + Cardinality(ClaimsOf(u)')
                           <= Cardinality(Sessions)
    BY DEF PoolIsSpared
  <2> QED
    BY <1>0, <1>4, <1>6, Counts DEF PoolInv, PoolIsSpared
<1> QED
  BY <1>2, <1>3, <1>7, Zenon DEF PoolInv, OneOwner

\* LockRow takes a row that is free and that no request holds.
LEMMA LockPreserves ==
    ASSUME PoolInv, NEW s \in Sessions, LockRow(s)
    PROVE  PoolInv'
<1>0. PoolTypes /\ ClaimsAreSound /\ UNCHANGED <<pool, address, told>>
  BY Zenon DEF PoolInv, LockRow
<1>1. CASE FreeRows = {}
  BY <1>0, <1>1, EndPreserves, Zenon DEF LockRow, EndClaim
<1>2. CASE FreeRows # {}
  <2>1. PICK i \in FreeRows : i = Min(FreeRows)
    <3>1. FreeRows \subseteq Nat
      BY <1>0 DEF FreeRows, PoolTypes
    <3> QED
      BY <1>2, <3>1, MinOfNats, Zenon
  <2>2. /\ claim[s].pc = "lock" /\ claim[s].user \in Users
        /\ claim' = [claim EXCEPT ![s] = [pc |-> "assign",
                       user |-> claim[s].user, row |-> i]]
    BY <1>0, <1>2, <2>1, Zenon DEF LockRow, Claiming, ClaimsAreSound
  <2>3. /\ i \in DOMAIN pool /\ i \in Nat \ {0}
        /\ pool[i].assigned_to = NoUser
        /\ \A u \in Users : address[u] # pool[i].address
        /\ \A t \in Sessions : claim[t].row # i
    BY <1>0 DEF FreeRows, OwnerOf, PoolTypes
  <2>4. /\ claim'[s] = [pc |-> "assign", user |-> claim[s].user, row |-> i]
        /\ \A t \in Sessions \ {s} : claim'[t] = claim[t]
        /\ claim' \in [Sessions -> ClaimState]
    BY <1>0, <2>2, <2>3 DEF PoolTypes, ClaimState
  <2>5. PoolTypes'
    BY <1>0, <2>4 DEF PoolTypes
  <2>6. ClaimsAreSound'
    <3> SUFFICES ASSUME NEW t \in Sessions
                 PROVE  /\ claim'[t].pc # "idle" => claim'[t].user \in Users
                        /\ claim'[t].pc # "assign" => claim'[t].row = 0
                        /\ claim'[t].pc = "assign" => LockedRowIsFree(t)'
      BY Zenon DEF ClaimsAreSound
    <3>1. CASE t = s
      BY <1>0, <2>2, <2>3, <2>4, <3>1, Zenon DEF LockedRowIsFree
    <3>2. CASE t # s
      <4>1. claim'[t] = claim[t]
        BY <2>4, <3>2, Zenon
      <4>2. ASSUME claim[t].pc = "assign" PROVE LockedRowIsFree(t)'
        <5>1. LockedRowIsFree(t)
          BY <1>0, <4>2, Zenon DEF ClaimsAreSound
        <5> QED
          BY <1>0, <2>3, <2>4, <4>1, <5>1 DEF LockedRowIsFree
      <4> QED
        BY <1>0, <4>1, <4>2, Zenon DEF ClaimsAreSound
    <3> QED
      BY <3>1, <3>2
  <2>7. \A u \in Users : RowsOf(u)' = RowsOf(u) /\ ClaimsOf(u)' = ClaimsOf(u)
    BY <1>0, <2>2, <2>4, Zenon DEF RowsOf, ClaimsOf
  <2> QED
    BY <1>0, <2>5, <2>6, <2>7 DEF PoolInv, OneOwner, PoolIsSpared
<1> QED
  BY <1>1, <1>2, Zenon

\* AssignRow marks the locked row.  The user gets its address or keeps the one
\* another request assigned meanwhile; either way one claim becomes one row.
LEMMA AssignPreserves ==
    ASSUME PoolInv, NEW s \in Sessions, AssignRow(s)
    PROVE  PoolInv'
<1>0. PoolTypes /\ ClaimsAreSound /\ OneOwner
  BY Zenon DEF PoolInv
<1>1. PICK user \in Users : user = claim[s].user
  BY <1>0, Zenon DEF AssignRow, Claiming, ClaimsAreSound
<1>2. PICK i \in DOMAIN pool : i = claim[s].row
  BY <1>0, Zenon DEF AssignRow, Claiming, ClaimsAreSound, LockedRowIsFree
<1>3. /\ claim[s].pc = "assign" /\ i \in Nat \ {0}
      /\ pool[i].assigned_to = NoUser /\ pool[i].address \in Addresses
      /\ \A u \in Users : address[u] # pool[i].address
      /\ \A t \in Sessions \ {s} : claim[t].row # i
  <2>1. claim[s].pc = "assign"
    BY Zenon DEF AssignRow, Claiming
  <2>2. LockedRowIsFree(s)
    BY <1>0, <2>1, Zenon DEF ClaimsAreSound
  <2>3. i \in Nat \ {0} /\ pool[i] \in PoolRow
    BY <1>0 DEF PoolTypes
  <2> QED
    BY <1>2, <2>1, <2>2, <2>3, Zenon DEF LockedRowIsFree, PoolRow
<1>4. PICK result : result = AssignDepositAddress(user, pool[i].address)
  BY Zenon
<1>5. /\ result \in Addresses /\ result # NoAddress
      /\ address[user] # NoAddress => result = address[user]
      /\ address[user] = NoAddress => result = pool[i].address
  BY <1>0, <1>3, <1>4, AddressesAssumption, Zenon
     DEF AssignDepositAddress, PoolTypes, AddressesAssumption
<1>6. /\ pool' = [pool EXCEPT ![i].assigned_to = user]
      /\ address' = [address EXCEPT ![user] = result]
      /\ told' = told \cup {<<user, result>>}
      /\ claim' = [claim EXCEPT ![s] = NoClaim]
  BY <1>1, <1>2, <1>4, Zenon DEF AssignRow, EndClaim
<1>7. /\ pool' \in Seq(PoolRow) /\ Len(pool') = Len(pool)
      /\ DOMAIN pool' = DOMAIN pool
      /\ \A j \in DOMAIN pool : pool'[j].address = pool[j].address
      /\ pool'[i].assigned_to = user
      /\ \A j \in DOMAIN pool \ {i} :
           pool'[j].assigned_to = pool[j].assigned_to
  <2>1. pool[i] \in PoolRow
    BY <1>0 DEF PoolTypes
  <2>2. PICK row : row = [pool[i] EXCEPT !.assigned_to = user]
    BY Zenon
  <2>3. /\ row \in PoolRow
        /\ row.address = pool[i].address /\ row.assigned_to = user
    BY <2>1, <2>2 DEF PoolRow
  <2>4. pool' = [pool EXCEPT ![i] = row]
    BY <1>6, <2>2, Zenon
  <2> QED
    BY <1>0, <2>3, <2>4 DEF PoolTypes
<1>8. /\ address' \in [Users -> Addresses \cup {NoAddress}]
      /\ address'[user] = result
      /\ \A u \in Users \ {user} : address'[u] = address[u]
  BY <1>0, <1>5, <1>6 DEF PoolTypes
<1>9. /\ claim' \in [Sessions -> ClaimState] /\ claim'[s] = NoClaim
      /\ \A t \in Sessions \ {s} : claim'[t] = claim[t]
  BY <1>0, <1>6 DEF PoolTypes, ClaimState, NoClaim
<1>10. PoolTypes'
  BY <1>0, <1>5, <1>6, <1>7, <1>8, <1>9 DEF PoolTypes
<1>11. ClaimsAreSound'
  <2> SUFFICES ASSUME NEW t \in Sessions
               PROVE  /\ claim'[t].pc # "idle" => claim'[t].user \in Users
                      /\ claim'[t].pc # "assign" => claim'[t].row = 0
                      /\ claim'[t].pc = "assign" => LockedRowIsFree(t)'
    BY Zenon DEF ClaimsAreSound
  <2>1. CASE t = s
    BY <1>9, <2>1 DEF NoClaim
  <2>2. CASE t # s
    <3>1. claim'[t] = claim[t] /\ claim[t].row # i
      BY <1>3, <1>9, <2>2, Zenon
    <3>2. ASSUME claim[t].pc = "assign" PROVE LockedRowIsFree(t)'
      <4>1. /\ LockedRowIsFree(t)
            /\ claim[t].row \in DOMAIN pool /\ claim[t].row # 0
        BY <1>0, <3>2 DEF ClaimsAreSound, LockedRowIsFree, PoolTypes
      <4>2. pool[claim[t].row].address # pool[i].address
        BY <1>0, <3>1, <4>1, AddressesAssumption
           DEF PoolTypes, AddressesAssumption
      <4>3. \A u \in Users : address'[u] # pool[claim[t].row].address
        BY <1>5, <1>8, <4>1, <4>2, Zenon DEF LockedRowIsFree
      <4>4. \A v \in Sessions \ {t} : claim'[v].row # claim[t].row
        BY <1>9, <4>1 DEF LockedRowIsFree, NoClaim
      <4> QED
        BY <1>7, <3>1, <4>1, <4>3, <4>4, Zenon DEF LockedRowIsFree
    <3> QED
      BY <1>0, <3>1, <3>2, Zenon DEF ClaimsAreSound
  <2> QED
    BY <2>1, <2>2, Zenon
<1>12. OneOwner'
  BY <1>0, <1>3, <1>5, <1>8 DEF OneOwner
<1>13. \A t \in told' : address'[t[1]] = t[2]
  <2>1. \A t \in told : t[1] \in Users /\ t[2] \in Addresses
    BY <1>0, Zenon DEF PoolTypes
  <2>2. \A t \in told : address'[t[1]] = t[2]
    BY <1>5, <1>8, <2>1, AddressesAssumption DEF PoolInv, AddressesAssumption
  <2> QED
    BY <1>6, <1>8, <2>2
<1>14. PoolIsSpared'
  <2>1. ASSUME NEW u \in Users \ {user}
        PROVE  /\ address'[u] = NoAddress => RowsOf(u)' = {}
               /\ Cardinality(RowsOf(u)') + Cardinality(ClaimsOf(u)')
                    <= Cardinality(Sessions)
    <3>1. RowsOf(u)' = RowsOf(u)
      BY <1>3, <1>7, AddressesAssumption, Zenon DEF RowsOf, AddressesAssumption
    <3>2. ClaimsOf(u)' = ClaimsOf(u)
      BY <1>1, <1>9 DEF ClaimsOf, NoClaim
    <3> QED
      BY <1>8, <3>1, <3>2, Zenon DEF PoolInv, PoolIsSpared
  <2>2. RowsOf(user)' = RowsOf(user) \cup {i} /\ i \notin RowsOf(user)
    BY <1>3, <1>7, AddressesAssumption, Zenon DEF RowsOf, AddressesAssumption
  <2>3. ClaimsOf(user)' = ClaimsOf(user) \ {s} /\ s \in ClaimsOf(user)
    BY <1>1, <1>3, <1>9 DEF ClaimsOf, NoClaim
  <2>4. /\ Cardinality(RowsOf(user)') = Cardinality(RowsOf(user)) + 1
        /\ Cardinality(ClaimsOf(user)') = Cardinality(ClaimsOf(user)) - 1
    <3>1. IsFiniteSet(RowsOf(user)) /\ IsFiniteSet(ClaimsOf(user))
      BY <1>0, Counts
    <3>2. Cardinality(RowsOf(user) \cup {i}) = Cardinality(RowsOf(user)) + 1
      BY <2>2, <3>1, FS_AddElement, Zenon
    <3>3. Cardinality(ClaimsOf(user) \ {s}) = Cardinality(ClaimsOf(user)) - 1
      BY <2>3, <3>1, FS_RemoveElement, Zenon
    <3> QED
      BY <2>2, <2>3, <3>2, <3>3, Zenon
  <2>5. /\ address'[user] # NoAddress
        /\ Cardinality(RowsOf(user)') + Cardinality(ClaimsOf(user)')
             <= Cardinality(Sessions)
    BY <1>0, <1>5, <1>8, <2>4, Counts DEF PoolInv, PoolIsSpared
  <2> QED
    BY <2>1, <2>5, Zenon DEF PoolIsSpared
<1> QED
  BY <1>10, <1>11, <1>12, <1>13, <1>14, Zenon DEF PoolInv

-------------------------------------------------------------------------------
(* The withdrawal requests.                                                 *)

Row == [body : Requested \cup {NoBody},
        status : {"absent", "requested", "validated", "approved", "failed",
                  "cancelled"},
        recent : BOOLEAN, counted : SUBSET Ids]

\* What a session read is whatever the statements returned.
SessionsAreTyped ==
    \E T : session \in
        [Sessions -> [pc : {"idle", "balance", "velocity", "owner", "decide"},
                      row : Nat, available : T, total : T, count : T,
                      foreign : T]]

\* An open transaction has inserted a row, its own.
SessionsOwnTheirRows ==
    \A s \in Sessions :
        /\ session[s].pc = "idle" => session[s].row = 0
        /\ session[s].pc # "idle" =>
             /\ session[s].row \in Ids
             /\ rows[session[s].row].status = "requested"
             /\ \A t \in Sessions \ {s} : session[t].row # session[s].row

RequestTypes ==
    /\ rows \in [Ids -> Row] /\ SessionsAreTyped
    /\ answered \subseteq Requested \X Ids
    /\ \A id \in Present : rows[id].body \in Requested

\* A client is owed committed rows it has not paged past.
WalkIsOnTrack ==
    /\ walk \in [before : Int, owed : SUBSET Ids]
    /\ \A id \in walk.owed : id \in Committed /\ id < walk.before

RequestInv ==
    /\ RequestTypes /\ SessionsOwnTheirRows /\ AnswersAgree
    /\ OnlyAcceptedPost

\* The id of an insert is new.
LEMMA NextIdIsFresh ==
    ASSUME NextId \in Ids
    PROVE  NextId \notin Present
<1>1. MaxRows \in Nat
  BY RequestsAssumption, Zenon DEF RequestsAssumption
<1>2. {0} \cup Present \subseteq 0 .. MaxRows
  BY <1>1 DEF Present, Ids
<1>3. PICK m : m = Max({0} \cup Present)
  BY Zenon
<1>4. m \in {0} \cup Present /\ \A id \in {0} \cup Present : m >= id
  BY <1>1, <1>2, <1>3, MaxOfNats, Zenon
<1>5. NextId = m + 1
  BY <1>3, Zenon DEF NextId
<1> QED
  BY <1>1, <1>2, <1>4, <1>5

\* post_transaction journals its key, and nothing else.
LEMMA KeysOfPost ==
    ASSUME NEW l, NEW key, NEW entries
    PROVE  Keys(PostTransaction(l, key, entries)) = Keys(l) \cup {key}
<1>1. CASE key \in Keys(l)
  BY <1>1, Zenon DEF PostTransaction
<1>2. CASE key \notin Keys(l)
  <2>1. PICK row : row = [key |-> key, entries |-> entries]
    BY Zenon
  <2>2. PostTransaction(l, key, entries).journal = l.journal \cup {row}
    BY <1>2, <2>1, Zenon DEF PostTransaction
  <2>3. row.key = key
    BY <2>1, Zenon
  <2> QED
    BY <2>2, <2>3 DEF Keys
<1> QED
  BY <1>1, <1>2, Zenon

\* Steps that read, or that change committed rows and neither their bodies nor
\* whether they are there.
LEMMA SameRows ==
    ASSUME RequestInv, rows' \in [Ids -> Row], SessionsAreTyped',
           \A t \in Sessions :
             /\ session'[t].row = session[t].row
             /\ session'[t].pc = "idle" <=> session[t].pc = "idle"
             /\ session[t].row \in Ids =>
                  rows'[session[t].row].status = rows[session[t].row].status,
           \A id \in Ids :
             /\ rows'[id].body = rows[id].body
             /\ rows'[id].status = "absent" <=> rows[id].status = "absent",
           UNCHANGED answered
    PROVE  /\ RequestTypes' /\ SessionsOwnTheirRows' /\ AnswersAgree'
           /\ Committed' = Committed
<1>1. Present' = Present /\ Uncommitted' = Uncommitted
  BY DEF Present, Uncommitted
<1>2. Committed' = Committed
  BY <1>1, Zenon DEF Committed
<1>3. \A id \in Present : id \in Ids
  BY Zenon DEF Present
<1>4. RequestTypes'
  BY <1>1, <1>3, Zenon DEF RequestInv, RequestTypes
<1>5. SessionsOwnTheirRows'
  BY DEF RequestInv, SessionsOwnTheirRows
<1>6. \A a \in answered : a[2] \in Ids
  BY Zenon DEF RequestInv, RequestTypes
<1>7. AnswersAgree'
  BY <1>1, <1>2, <1>3, <1>6 DEF RequestInv, AnswersAgree
<1> QED
  BY <1>2, <1>4, <1>5, <1>7, Zenon

\* A transaction that commits or rolls back touches its own row only.
LEMMA EndOfRequest ==
    ASSUME RequestInv, NEW s \in Sessions, session[s].pc # "idle",
           NEW own, own = session[s].row, NEW new \in Row, EndRequest(s),
           rows' = [rows EXCEPT ![own] = new]
    PROVE  /\ own \in Ids
           /\ own \notin Committed
           /\ rows[own].status = "requested"
           /\ rows[own].body \in Requested
           /\ rows' \in [Ids -> Row]
           /\ SessionsAreTyped'
           /\ SessionsOwnTheirRows'
           /\ rows'[own] = new
           /\ own \in Committed' <=> new.status # "absent"
           /\ \A id \in Ids \ {own} :
                /\ rows'[id] = rows[id]
                /\ id \in Committed' <=> id \in Committed
<1>1. PICK T : session \in
        [Sessions -> [pc : {"idle", "balance", "velocity", "owner", "decide"},
                      row : Nat, available : T, total : T, count : T,
                      foreign : T]]
  BY Zenon DEF RequestInv, RequestTypes, SessionsAreTyped
<1>2. own \in Ids
  BY Zenon DEF RequestInv, SessionsOwnTheirRows
<1>3. /\ rows[own].status = "requested"
      /\ \A t \in Sessions \ {s} : session[t].row # own
      /\ rows \in [Ids -> Row] /\ own \in Nat \ {0}
  BY <1>2, RequestsAssumption
     DEF RequestInv, RequestTypes, SessionsOwnTheirRows, Ids,
         RequestsAssumption
<1>4. rows[own].body \in Requested
  BY <1>2, <1>3, Zenon DEF RequestInv, RequestTypes, Present
<1>5. /\ session'[s] = Idle
      /\ \A t \in Sessions \ {s} : session'[t] = session[t]
      /\ session' \in [Sessions ->
            [pc : {"idle", "balance", "velocity", "owner", "decide"},
             row : Nat, available : T \cup {0, FALSE},
             total : T \cup {0, FALSE}, count : T \cup {0, FALSE},
             foreign : T \cup {0, FALSE}]]
  BY <1>1, Zenon DEF EndRequest, Idle
<1>6. SessionsAreTyped'
  BY <1>5, Zenon DEF SessionsAreTyped
<1>7. /\ rows' \in [Ids -> Row] /\ rows'[own] = new
      /\ \A id \in Ids \ {own} : rows'[id] = rows[id]
  BY <1>2, <1>3
<1>8. \A id \in Ids \ {own} : id \in Uncommitted' <=> id \in Uncommitted
  BY <1>2, <1>5, RequestsAssumption
     DEF Uncommitted, Idle, Ids, RequestsAssumption
<1>9. own \notin Uncommitted' /\ own \in Uncommitted
  BY <1>2, <1>3, <1>5 DEF Uncommitted, Idle
<1>10. /\ own \notin Committed
       /\ own \in Committed' <=> new.status # "absent"
       /\ \A id \in Ids \ {own} : id \in Committed' <=> id \in Committed
  BY <1>7, <1>8, <1>9 DEF Committed, Present
<1>11. SessionsOwnTheirRows'
  <2>0. session'[s].pc = "idle" /\ session'[s].row = 0
    BY <1>5 DEF Idle
  <2>1. SUFFICES ASSUME NEW t \in Sessions \ {s}
                 PROVE  /\ session[t].pc = "idle" => session[t].row = 0
                        /\ session[t].pc # "idle" =>
                             /\ session[t].row \in Ids \ {own}
                             /\ rows[session[t].row].status = "requested"
                             /\ \A v \in Sessions \ {t} :
                                  session'[v].row # session[t].row
    BY <1>5, <1>7, <2>0 DEF SessionsOwnTheirRows
  <2>2. session[t].pc # "idle" => session'[s].row # session[t].row
    BY <1>5, RequestsAssumption
       DEF RequestInv, SessionsOwnTheirRows, Idle, Ids, RequestsAssumption
  <2> QED
    BY <1>3, <1>5, <2>2 DEF RequestInv, SessionsOwnTheirRows
<1> QED
  BY <1>2, <1>3, <1>4, <1>6, <1>7, <1>10, <1>11, Zenon

\* Such an end keeps all but the postings in order, and makes at most its own
\* row an accepted one.
LEMMA EndKeepsOrder ==
    ASSUME RequestInv, NEW s \in Sessions, session[s].pc # "idle",
           NEW own, own = session[s].row, NEW new \in Row, EndRequest(s),
           rows' = [rows EXCEPT ![own] = new],
           new.status = "absent" \/ new.body = rows[own].body,
           \/ answered' = answered
           \/ /\ answered' = answered \cup {<<rows[own].body, own>>}
              /\ new.status # "absent"
    PROVE  /\ own \in Ids
           /\ RequestTypes' /\ SessionsOwnTheirRows' /\ AnswersAgree'
           /\ Committed \subseteq Committed'
           /\ ~ Accepted(own)
           /\ Accepted(own)' <=>
                new.status \in {"validated", "approved", "cancelled"}
           /\ \A id \in Ids \ {own} : Accepted(id)' <=> Accepted(id)
<1>1. /\ own \in Ids
      /\ own \notin Committed
      /\ rows[own].status = "requested"
      /\ rows[own].body \in Requested
      /\ rows' \in [Ids -> Row]
      /\ SessionsAreTyped'
      /\ SessionsOwnTheirRows'
      /\ rows'[own] = new
      /\ own \in Committed' <=> new.status # "absent"
      /\ \A id \in Ids \ {own} :
           /\ rows'[id] = rows[id]
           /\ id \in Committed' <=> id \in Committed
  BY EndOfRequest, Zenon
<1>2. Committed \subseteq Ids
  BY Zenon DEF Committed, Present
<1>3. Committed \subseteq Committed'
  BY <1>1, <1>2, Zenon
<1>4. \A id \in Present' :
        id \in Present /\ id \in Ids /\ rows'[id].body = rows[id].body
  BY <1>1, Zenon DEF Present
<1>5. answered' \subseteq Requested \X Ids
  BY <1>1 DEF RequestInv, RequestTypes
<1>6. RequestTypes'
  BY <1>1, <1>4, <1>5, Zenon DEF RequestInv, RequestTypes
<1>7. \A a \in answered' : a[2] \in Committed' /\ rows'[a[2]].body = a[1]
  <2>1. SUFFICES ASSUME NEW a \in answered'
                 PROVE  a[2] \in Committed' /\ rows'[a[2]].body = a[1]
    BY Zenon
  <2>2. CASE a \in answered
    <3>1. a[2] \in Committed /\ rows[a[2]].body = a[1]
      BY <2>2, Zenon DEF RequestInv, AnswersAgree
    <3> QED
      BY <1>1, <1>2, <3>1, Zenon
  <2>3. CASE a \notin answered
    <3>1. a = <<rows[own].body, own>> /\ new.status # "absent"
      BY <2>3, Zenon
    <3> QED
      BY <1>1, <3>1, Zenon
  <2> QED
    BY <2>2, <2>3, Zenon
<1>8. AnswersAgree'
  BY <1>4, <1>7 DEF RequestInv, AnswersAgree
<1>9. /\ ~ Accepted(own)
      /\ Accepted(own)' <=>
           new.status \in {"validated", "approved", "cancelled"}
      /\ \A id \in Ids \ {own} : Accepted(id)' <=> Accepted(id)
  BY <1>1, Zenon DEF Accepted
<1> QED
  BY <1>1, <1>3, <1>6, <1>8, <1>9

\* An open transaction names its row.
LEMMA OwnRow ==
    ASSUME RequestInv, NEW s \in Sessions, session[s].pc # "idle"
    PROVE  \E own \in Ids : /\ own = session[s].row
                            /\ rows[own] \in Row
                            /\ BodyOf(s) = rows[own].body
BY Zenon DEF RequestInv, RequestTypes, SessionsOwnTheirRows, BodyOf

\* An error, a timeout or a crash: the row goes, and nothing else had come.
LEMMA RollbackPreserves ==
    ASSUME RequestInv, NEW s \in Sessions, session[s].pc # "idle", Rollback(s)
    PROVE  RequestInv' /\ Committed \subseteq Committed'
<1>1. PICK own \in Ids : own = session[s].row
  BY OwnRow, Zenon
<1>2. PICK new \in Row : new = Absent
  BY Zenon DEF Row, Absent
<1>3. /\ EndRequest(s)
      /\ rows' = [rows EXCEPT ![own] = new]
      /\ new.status = "absent"
      /\ UNCHANGED <<ledger, outbox, answered>>
  BY <1>1, <1>2 DEF Rollback, Absent
<1>4. /\ RequestTypes' /\ SessionsOwnTheirRows' /\ AnswersAgree'
      /\ Committed \subseteq Committed'
      /\ ~ Accepted(own)
      /\ Accepted(own)' <=>
           new.status \in {"validated", "approved", "cancelled"}
      /\ \A id \in Ids \ {own} : Accepted(id)' <=> Accepted(id)
  BY <1>1, <1>2, <1>3, EndKeepsOrder, Zenon
<1>5. \A id \in Ids : Accepted(id)' <=> Accepted(id)
  BY <1>3, <1>4
<1>6. OnlyAcceptedPost'
  BY <1>3, <1>5, Zenon DEF RequestInv, OnlyAcceptedPost
<1> QED
  BY <1>4, <1>6, Zenon DEF RequestInv

\* A denial commits a failed row, with no event and no posting.
LEMMA DeniedPreserves ==
    ASSUME RequestInv, NEW s \in Sessions, CreateDenied(s)
    PROVE  RequestInv' /\ Committed \subseteq Committed'
<1>0. session[s].pc # "idle"
  BY Zenon DEF CreateDenied, InTransaction
<1>1. PICK own \in Ids : own = session[s].row /\ rows[own] \in Row
  BY <1>0, OwnRow, Zenon
<1>2. PICK new \in Row : new = Closed(rows[own], "failed")
  BY <1>1, Zenon DEF Row, Closed
<1>3. /\ EndRequest(s)
      /\ rows' = [rows EXCEPT ![own] = new]
      /\ new.status = "failed" /\ new.body = rows[own].body
      /\ UNCHANGED <<ledger, outbox, answered>>
  BY <1>1, <1>2 DEF CreateDenied, Closed
<1>4. /\ RequestTypes' /\ SessionsOwnTheirRows' /\ AnswersAgree'
      /\ Committed \subseteq Committed'
      /\ ~ Accepted(own)
      /\ Accepted(own)' <=>
           new.status \in {"validated", "approved", "cancelled"}
      /\ \A id \in Ids \ {own} : Accepted(id)' <=> Accepted(id)
  BY <1>0, <1>1, <1>2, <1>3, EndKeepsOrder, Zenon
<1>5. \A id \in Ids : Accepted(id)' <=> Accepted(id)
  BY <1>3, <1>4
<1>6. OnlyAcceptedPost'
  BY <1>3, <1>5, Zenon DEF RequestInv, OnlyAcceptedPost
<1> QED
  BY <1>4, <1>6, Zenon DEF RequestInv

\* An acceptance commits row, reservation, event and answer together.
LEMMA ReservedPreserves ==
    ASSUME RequestInv, NEW s \in Sessions, CreateReserved(s)
    PROVE  RequestInv' /\ Committed \subseteq Committed'
<1>0. session[s].pc # "idle"
  BY Zenon DEF CreateReserved, InTransaction
<1>1. PICK own \in Ids : /\ own = session[s].row /\ rows[own] \in Row
                         /\ BodyOf(s) = rows[own].body
  BY <1>0, OwnRow, Zenon
<1>2. PICK status \in {"validated", "approved"} :
        rows' = [rows EXCEPT ![own].status = status]
  BY <1>1, Zenon DEF CreateReserved
<1>3. PICK new \in Row : new = [rows[own] EXCEPT !.status = status]
  BY <1>1, Zenon DEF Row
<1>4. /\ EndRequest(s)
      /\ rows' = [rows EXCEPT ![own] = new]
      /\ new.status \in {"validated", "approved"}
      /\ new.status # "absent"
      /\ new.body = rows[own].body
  BY <1>1, <1>2, <1>3, Zenon DEF CreateReserved, Row
<1>5. /\ answered' = answered \cup {<<rows[own].body, own>>}
      /\ outbox' = outbox \cup {own}
      /\ Keys(ledger') = Keys(ledger) \cup {<<"withdrawal_reserve", own>>}
  BY <1>1, KeysOfPost, Zenon DEF CreateReserved, Reservation, ReserveWithdrawal
<1>6. /\ RequestTypes' /\ SessionsOwnTheirRows' /\ AnswersAgree'
      /\ Committed \subseteq Committed'
      /\ ~ Accepted(own)
      /\ Accepted(own)' <=>
           new.status \in {"validated", "approved", "cancelled"}
      /\ \A id \in Ids \ {own} : Accepted(id)' <=> Accepted(id)
  BY <1>0, <1>1, <1>3, <1>4, <1>5, EndKeepsOrder, Zenon
<1>7. Accepted(own)'
  BY <1>4, <1>6
<1>8. OnlyAcceptedPost'
  <2>1. SUFFICES ASSUME NEW id \in Ids
                 PROVE  /\ id \in outbox' <=> Accepted(id)'
                        /\ <<"withdrawal_reserve", id>> \in Keys(ledger')
                             <=> Accepted(id)'
    BY Zenon DEF OnlyAcceptedPost, Keys
  <2>2. <<"withdrawal_reserve", id>> = <<"withdrawal_reserve", own>> <=> id = own
    OBVIOUS
  <2>3. /\ id \in outbox <=> Accepted(id)
        /\ <<"withdrawal_reserve", id>> \in Keys(ledger) <=> Accepted(id)
    BY Zenon DEF RequestInv, OnlyAcceptedPost
  <2> QED
    BY <1>5, <1>6, <1>7, <2>2, <2>3, Zenon
<1> QED
  BY <1>6, <1>8, Zenon DEF RequestInv

\* An insert takes a fresh id, under a key that no row has.
LEMMA InsertPreserves ==
    ASSUME RequestInv, NEW s \in Sessions, NEW body \in Requested,
           CreateInsert(s, body)
    PROVE  RequestInv' /\ Committed \subseteq Committed'
<1>1. PICK new \in Ids : new = NextId
  BY Zenon DEF CreateInsert
<1>2. new \notin Present /\ new \in Nat \ {0}
  BY <1>1, NextIdIsFresh, RequestsAssumption DEF Ids, RequestsAssumption
<1>3. PICK row \in Row :
        /\ rows' = [rows EXCEPT ![new] = row]
        /\ row.body = body /\ row.status = "requested"
  <2>1. PICK row : row = [body |-> body, status |-> "requested",
                          recent |-> TRUE, counted |-> {}]
    BY Zenon
  <2>2. row \in Row /\ row.body = body /\ row.status = "requested"
    BY <2>1 DEF Row
  <2>3. rows' = [rows EXCEPT ![new] = row]
    BY <1>1, <2>1, Zenon DEF CreateInsert
  <2> QED
    BY <2>2, <2>3, Zenon
<1>4. /\ session[s].pc = "idle" /\ session[s].row = 0
      /\ UNCHANGED <<ledger, outbox, answered>>
  BY DEF CreateInsert, Receive, InTransaction, RequestInv, SessionsOwnTheirRows
<1>5. PICK T : session \in
        [Sessions -> [pc : {"idle", "balance", "velocity", "owner", "decide"},
                      row : Nat, available : T, total : T, count : T,
                      foreign : T]]
  BY Zenon DEF RequestInv, RequestTypes, SessionsAreTyped
<1>6. /\ session'[s].pc = "balance" /\ session'[s].row = new
      /\ \A t \in Sessions \ {s} : session'[t] = session[t]
      /\ session' \in [Sessions ->
            [pc : {"idle", "balance", "velocity", "owner", "decide"},
             row : Nat, available : T \cup {0, FALSE},
             total : T \cup {0, FALSE}, count : T \cup {0, FALSE},
             foreign : T \cup {0, FALSE}]]
  BY <1>1, <1>2, <1>5, Zenon DEF CreateInsert, Idle
<1>7. SessionsAreTyped'
  BY <1>6, Zenon DEF SessionsAreTyped
<1>8. /\ rows' \in [Ids -> Row] /\ rows'[new] = row
      /\ \A id \in Ids \ {new} : rows'[id] = rows[id]
  BY <1>3 DEF RequestInv, RequestTypes
<1>9. \A t \in Sessions : session[t].row # new
  BY <1>2 DEF RequestInv, SessionsOwnTheirRows, Present
<1>10. Present' = Present \cup {new} /\ Present \subseteq Ids
  BY <1>3, <1>8, Zenon DEF Present
<1>11. \A id \in Ids \ {new} : id \in Uncommitted' <=> id \in Uncommitted
  BY <1>4, <1>6, RequestsAssumption DEF Uncommitted, Ids, RequestsAssumption
<1>12. new \in Uncommitted'
  BY <1>6, Zenon DEF Uncommitted
<1>13. Committed' = Committed
  BY <1>2, <1>10, <1>11, <1>12, Zenon DEF Committed
<1>14. RequestTypes'
  BY <1>2, <1>3, <1>4, <1>7, <1>8, <1>10 DEF RequestInv, RequestTypes
<1>15. SessionsOwnTheirRows'
  <2>1. SUFFICES ASSUME NEW t \in Sessions \ {s}
                 PROVE  /\ session[t].pc = "idle" => session[t].row = 0
                        /\ session[t].pc # "idle" =>
                             /\ session[t].row \in Ids \ {new}
                             /\ rows[session[t].row].status = "requested"
                             /\ \A v \in Sessions \ {t} :
                                  session'[v].row # session[t].row
    BY <1>3, <1>6, <1>8, <1>9 DEF SessionsOwnTheirRows
  <2> QED
    BY <1>6, <1>9 DEF RequestInv, SessionsOwnTheirRows
<1>16. \A id \in Present :
         /\ rows'[id] = rows[id]
         /\ ~ (rows[id].body.user = body.user /\ rows[id].body.key = body.key)
  BY <1>2, <1>8, <1>10, Zenon DEF CreateInsert, SameKey
<1>17. AnswersAgree'
  <2>1. Committed \subseteq Present
    BY Zenon DEF Committed
  <2>2. \A a \in answered' : a[2] \in Committed' /\ rows'[a[2]].body = a[1]
    BY <1>4, <1>13, <1>16, <2>1 DEF RequestInv, AnswersAgree
  <2>3. ASSUME NEW id1 \in Present', NEW id2 \in Present',
               rows'[id1].body.user = rows'[id2].body.user,
               rows'[id1].body.key = rows'[id2].body.key
        PROVE  id1 = id2
    BY <1>3, <1>8, <1>10, <1>16, <2>3 DEF RequestInv, AnswersAgree
  <2> QED
    BY <2>2, <2>3, Zenon DEF AnswersAgree
<1>18. \A id \in Ids : Accepted(id)' <=> Accepted(id)
  BY <1>2, <1>8, <1>10, <1>13, Zenon DEF Accepted, Committed
<1>19. OnlyAcceptedPost'
  BY <1>4, <1>18, Zenon DEF RequestInv, OnlyAcceptedPost
<1> QED
  BY <1>13, <1>14, <1>15, <1>17, <1>19, Zenon DEF RequestInv

\* A replay answers with a committed row of the same body.
LEMMA ReplayPreserves ==
    ASSUME RequestInv, NEW s \in Sessions, NEW body \in Requested,
           CreateReplay(s, body)
    PROVE  RequestInv' /\ Committed \subseteq Committed'
<1>1. PICK id \in Committed :
        answered' = IF SameFingerprint(id, body)
                    THEN answered \cup {<<body, id>>} ELSE answered
  BY Zenon DEF CreateReplay
<1>2. /\ UNCHANGED <<rows, session, ledger, outbox>>
      /\ Present' = Present /\ Committed' = Committed /\ Committed \subseteq Ids
  BY DEF CreateReplay, tables, Present, Committed, Uncommitted
<1>3. \A a \in answered' :
        \/ a \in answered
        \/ a = <<body, id>> /\ rows[id].body = body
  BY <1>1 DEF SameFingerprint
<1>4. RequestTypes'
  BY <1>2, <1>3 DEF RequestInv, RequestTypes, SessionsAreTyped
<1>5. AnswersAgree'
  BY <1>2, <1>3 DEF RequestInv, AnswersAgree
<1>6. SessionsOwnTheirRows' /\ OnlyAcceptedPost'
  BY <1>2, Zenon
     DEF RequestInv, SessionsOwnTheirRows, OnlyAcceptedPost, Accepted, Keys
<1> QED
  BY <1>2, <1>4, <1>5, <1>6, Zenon DEF RequestInv

\* The statements that only read keep every row's body, status and session.
LEMMA ReadsPreserve ==
    ASSUME RequestInv, NEW s \in Sessions,
           ReadBalance(s) \/ ReadVelocity(s) \/ ReadOwner(s)
    PROVE  RequestInv' /\ Committed \subseteq Committed'
<1>0. session[s].pc # "idle"
  BY DEF ReadBalance, ReadVelocity, ReadOwner, InTransaction
<1>1. PICK own \in Ids : own = session[s].row /\ rows[own] \in Row
  BY <1>0, OwnRow
<1>2. PICK T : session \in
        [Sessions -> [pc : {"idle", "balance", "velocity", "owner", "decide"},
                      row : Nat, available : T, total : T, count : T,
                      foreign : T]]
  BY Zenon DEF RequestInv, RequestTypes, SessionsAreTyped
<1>3. CASE Rollback(s)
  BY <1>0, <1>3, RollbackPreserves, Zenon
<1>4. CASE ~ Rollback(s)
  <2>1. PICK state, V :
          /\ state \in
               [pc : {"balance", "velocity", "owner", "decide"},
                row : Nat, available : V, total : V, count : V, foreign : V]
          /\ T \subseteq V /\ state.row = own
          /\ session' = [session EXCEPT ![s] = state]
    <3>1. CASE ReadBalance(s)
      <4>1. PICK x : x = ledger.balance[Available(BodyOf(s).user)]
        BY Zenon
      <4>2. session' = [session EXCEPT ![s] =
              [session[s] EXCEPT !.pc = "velocity", !.available = x]]
        BY <1>2, <3>1, <4>1, Zenon DEF ReadBalance
      <4>3. PICK state : state = [session[s] EXCEPT !.pc = "velocity",
                                  !.available = x]
        BY Zenon
      <4>4. PICK V : V = T \cup {x}
        BY Zenon
      <4>5. /\ state \in
                [pc : {"balance", "velocity", "owner", "decide"},
                 row : Nat, available : V, total : V, count : V, foreign : V]
            /\ T \subseteq V /\ state.row = own
        BY <1>1, <1>2, <4>3, <4>4
      <4> QED
        BY <4>2, <4>3, <4>5, Zenon
    <3>2. CASE ReadVelocity(s)
      <4>1. PICK x, y : /\ x = AmountsOf(Counted(s))
                               - rows[session[s].row].body.amount
                        /\ y = Cardinality(Counted(s)) - 1
        BY Zenon
      <4>2. session' = [session EXCEPT ![s] =
              [session[s] EXCEPT !.pc = "owner", !.total = x, !.count = y]]
        BY <1>2, <1>4, <3>2, <4>1, Zenon DEF ReadVelocity
      <4>3. PICK state : state = [session[s] EXCEPT !.pc = "owner",
                                  !.total = x, !.count = y]
        BY Zenon
      <4>4. PICK V : V = T \cup {x, y}
        BY Zenon
      <4>5. /\ state \in
                [pc : {"balance", "velocity", "owner", "decide"},
                 row : Nat, available : V, total : V, count : V, foreign : V]
            /\ T \subseteq V /\ state.row = own
        BY <1>1, <1>2, <4>3, <4>4
      <4> QED
        BY <4>2, <4>3, <4>5, Zenon
    <3>3. CASE ReadOwner(s)
      <4>1. PICK x : x = (OwnerOf(BodyOf(s).destination)
                            \ {BodyOf(s).user} # {})
        BY Zenon
      <4>2. session' = [session EXCEPT ![s] =
              [session[s] EXCEPT !.pc = "decide", !.foreign = x]]
        BY <1>2, <3>3, <4>1, Zenon DEF ReadOwner
      <4>3. PICK state : state = [session[s] EXCEPT !.pc = "decide",
                                  !.foreign = x]
        BY Zenon
      <4>4. PICK V : V = T \cup {x}
        BY Zenon
      <4>5. /\ state \in
                [pc : {"balance", "velocity", "owner", "decide"},
                 row : Nat, available : V, total : V, count : V, foreign : V]
            /\ T \subseteq V /\ state.row = own
        BY <1>1, <1>2, <4>3, <4>4
      <4> QED
        BY <4>2, <4>3, <4>5, Zenon
    <3> QED
      BY <3>1, <3>2, <3>3, Zenon
  <2>2. /\ session' \in [Sessions ->
             [pc : {"idle", "balance", "velocity", "owner", "decide"},
              row : Nat, available : V, total : V, count : V, foreign : V]]
        /\ \A t \in Sessions :
             /\ session'[t].row = session[t].row
             /\ session'[t].pc = "idle" <=> session[t].pc = "idle"
    BY <1>0, <1>1, <1>2, <2>1
  <2>3. SessionsAreTyped'
    BY <2>2, Zenon DEF SessionsAreTyped
  <2>4. /\ rows' \in [Ids -> Row]
        /\ \A id \in Ids : /\ rows'[id].body = rows[id].body
                            /\ rows'[id].status = rows[id].status
    <3>1. CASE UNCHANGED rows
      BY <3>1, Zenon DEF RequestInv, RequestTypes
    <3>2. CASE ~ UNCHANGED rows
      <4>1. rows' = [rows EXCEPT ![own].counted = Counted(s) \ {own}]
        BY <1>1, <1>4, <3>2, Zenon
           DEF ReadBalance, ReadVelocity, ReadOwner, tables
      <4>2. PICK seen \in SUBSET Ids : seen = Counted(s) \ {own}
        BY Zenon DEF Counted, RecentWithdrawals, Present
      <4>3. rows' = [rows EXCEPT ![own].counted = seen]
        BY <4>1, <4>2
      <4> QED
        BY <4>3 DEF RequestInv, RequestTypes, Row
    <3> QED
      BY <3>1, <3>2, Zenon
  <2>5. UNCHANGED <<ledger, outbox, answered>>
    BY <1>4 DEF ReadBalance, ReadVelocity, ReadOwner, tables
  <2>6. /\ RequestTypes' /\ SessionsOwnTheirRows' /\ AnswersAgree'
        /\ Committed' = Committed
    BY <2>2, <2>3, <2>4, <2>5, SameRows
  <2>7. \A id \in Ids : Accepted(id)' <=> Accepted(id)
    BY <2>4, <2>6 DEF Accepted
  <2>8. OnlyAcceptedPost'
    BY <2>5, <2>7, Zenon DEF RequestInv, OnlyAcceptedPost
  <2> QED
    BY <2>6, <2>8, Zenon DEF RequestInv
<1> QED
  BY <1>3, <1>4

\* approve, cancel and the day rewrite a committed row and keep its body.
LEMMA CommittedRowChanges ==
    ASSUME RequestInv, NEW id \in Committed, NEW new \in Row,
           rows' = [rows EXCEPT ![id] = new],
           new.body = rows[id].body, new.status # "absent",
           UNCHANGED <<session, answered>>
    PROVE  /\ RequestTypes' /\ SessionsOwnTheirRows' /\ AnswersAgree'
           /\ Committed' = Committed
           /\ rows'[id] = new
           /\ \A other \in Ids \ {id} : rows'[other] = rows[other]
<1>1. /\ id \in Ids /\ rows[id].status # "absent" /\ rows \in [Ids -> Row]
      /\ \A t \in Sessions : session[t].row # id
  BY Zenon DEF Committed, Present, Uncommitted, RequestInv, RequestTypes
<1>2. /\ rows' \in [Ids -> Row] /\ rows'[id] = new
      /\ \A other \in Ids \ {id} : rows'[other] = rows[other]
  BY <1>1, Zenon
<1>3. SessionsAreTyped'
  BY Zenon DEF RequestInv, RequestTypes, SessionsAreTyped
<1>4. \A other \in Ids :
        /\ rows'[other].body = rows[other].body
        /\ rows'[other].status = "absent" <=> rows[other].status = "absent"
  BY <1>1, <1>2, Zenon
<1>5. \A t \in Sessions :
        /\ session'[t].row = session[t].row
        /\ session'[t].pc = "idle" <=> session[t].pc = "idle"
        /\ session[t].row \in Ids =>
             rows'[session[t].row].status = rows[session[t].row].status
  BY <1>1, <1>2, Zenon
<1>6. /\ RequestTypes' /\ SessionsOwnTheirRows' /\ AnswersAgree'
      /\ Committed' = Committed
  BY <1>2, <1>3, <1>4, <1>5, SameRows, Zenon
<1> QED
  BY <1>2, <1>6, Zenon

\* An operator's approval and the passing of a day accept nothing.
LEMMA ApprovePreserves ==
    ASSUME RequestInv, NEW id \in Ids, Approve(id) \/ DayPasses(id)
    PROVE  RequestInv' /\ Committed \subseteq Committed'
<1>1. id \in Committed /\ UNCHANGED <<session, answered, ledger, outbox>>
  BY Zenon DEF Approve, DayPasses
<1>2. rows[id] \in Row /\ rows[id].status # "absent" /\ rows \in [Ids -> Row]
  BY <1>1, Zenon DEF Committed, Present, RequestInv, RequestTypes
<1>3. PICK new \in Row :
        /\ rows' = [rows EXCEPT ![id] = new]
        /\ new.body = rows[id].body
        /\ new.status # "absent"
        /\ new.status \in {"validated", "approved", "cancelled"} <=>
             rows[id].status \in {"validated", "approved", "cancelled"}
  <2>1. CASE Approve(id)
    <3>1. PICK new : new = [rows[id] EXCEPT !.status = "approved"]
      BY Zenon
    <3>2. rows' = [rows EXCEPT ![id] = new] /\ rows[id].status = "validated"
      BY <1>2, <2>1, <3>1 DEF Approve
    <3>3. /\ new \in Row /\ new.body = rows[id].body
          /\ new.status = "approved"
      BY <1>2, <3>1 DEF Row
    <3> QED
      BY <3>2, <3>3, Zenon
  <2>2. CASE DayPasses(id)
    <3>1. PICK new : new = Closed(rows[id], rows[id].status)
      BY Zenon
    <3>2. rows' = [rows EXCEPT ![id] = new]
      BY <1>2, <2>2, <3>1 DEF DayPasses
    <3>3. /\ new \in Row /\ new.body = rows[id].body
          /\ new.status = rows[id].status
      BY <1>2, <3>1 DEF Row, Closed
    <3> QED
      BY <1>2, <3>2, <3>3, Zenon
  <2> QED
    BY <2>1, <2>2, Zenon
<1>4. /\ RequestTypes' /\ SessionsOwnTheirRows' /\ AnswersAgree'
      /\ Committed' = Committed
      /\ rows'[id] = new
      /\ \A other \in Ids \ {id} : rows'[other] = rows[other]
  BY <1>1, <1>3, CommittedRowChanges, Zenon
<1>5. \A other \in Ids : Accepted(other)' <=> Accepted(other)
  BY <1>3, <1>4 DEF Accepted
<1>6. OnlyAcceptedPost'
  BY <1>1, <1>5, Zenon DEF RequestInv, OnlyAcceptedPost
<1> QED
  BY <1>4, <1>6, Zenon DEF RequestInv

\* A cancellation posts the release, and the withdrawal stays one that was
\* accepted.
LEMMA CancelPreserves ==
    ASSUME RequestInv, NEW id \in Ids, Cancel(id)
    PROVE  RequestInv' /\ Committed \subseteq Committed'
<1>1. /\ id \in Committed /\ UNCHANGED <<session, answered, outbox>>
      /\ rows[id].status \in {"validated", "approved"}
  BY DEF Cancel
<1>2. rows[id] \in Row
  BY Zenon DEF RequestInv, RequestTypes
<1>3. PICK new \in Row : new = Closed(rows[id], "cancelled")
  BY <1>2, Zenon DEF Row, Closed
<1>4. /\ rows' = [rows EXCEPT ![id] = new]
      /\ new.body = rows[id].body /\ new.status = "cancelled"
  BY <1>3 DEF Cancel, Closed
<1>5. Keys(ledger') = Keys(ledger) \cup {<<"withdrawal_release", id>>}
  BY KeysOfPost, Zenon DEF Cancel, Released, ReleaseReservation
<1>6. /\ RequestTypes' /\ SessionsOwnTheirRows' /\ AnswersAgree'
      /\ Committed' = Committed
      /\ rows'[id] = new
      /\ \A other \in Ids \ {id} : rows'[other] = rows[other]
  BY <1>1, <1>3, <1>4, CommittedRowChanges, Zenon
<1>7. \A other \in Ids : Accepted(other)' <=> Accepted(other)
  BY <1>1, <1>4, <1>6 DEF Accepted
<1>8. \A other \in Ids : <<"withdrawal_reserve", other>> \in Keys(ledger') <=>
                         <<"withdrawal_reserve", other>> \in Keys(ledger)
  <2>1. \A other : <<"withdrawal_reserve", other>> # <<"withdrawal_release", id>>
    OBVIOUS
  <2> QED
    BY <1>5, <2>1, Zenon
<1>9. OnlyAcceptedPost'
  <2>1. Keys(ledger)' = Keys(ledger')
    BY Zenon DEF Keys
  <2> QED
    BY <1>1, <1>7, <1>8, <2>1, Zenon DEF RequestInv, OnlyAcceptedPost
<1> QED
  BY <1>6, <1>9 DEF RequestInv

-------------------------------------------------------------------------------
(* Paging.                                                                  *)

\* A page of n rows is all there is, or what it leaves out is older than the
\* row its cursor names.
LEMMA PageIsTop ==
    ASSUME NEW m \in Nat, NEW ids, ids \subseteq 1 .. m, NEW n \in Nat \ {0}
    PROVE  /\ Cardinality(ids) \in Nat
           /\ ~ (Cardinality(ids) > n) => Newest(ids, n) = ids
           /\ Cardinality(ids) > n =>
                /\ NextCursor(ids, n) \in ids
                /\ \A id \in ids \ Newest(ids, n) : id < NextCursor(ids, n)
<1> DEFINE Newer(id) == {other \in ids : other > id}
<1>1. IsFiniteSet(ids) /\ Cardinality(ids) \in Nat
  <2>1. IsFiniteSet(1 .. m)
    BY FS_Interval
  <2>2. IsFiniteSet(ids)
    BY <2>1, FS_Subset, Zenon
  <2> QED
    BY <2>2, FS_CardinalityType, Zenon
<1>2. \A id : /\ IsFiniteSet(Newer(id)) /\ Cardinality(Newer(id)) \in Nat
              /\ Newer(id) \subseteq ids
  <2>1. \A id : Newer(id) \in SUBSET ids
    OBVIOUS
  <2>2. \A id : IsFiniteSet(Newer(id))
    BY <1>1, <2>1, FS_Subset, Zenon
  <2> QED
    BY <2>1, <2>2, FS_CardinalityType, Zenon
<1>3. \A id : id \in Newest(ids, n) <=> id \in ids /\ Cardinality(Newer(id)) < n
  BY DEF Newest
<1>4. \A id \in ids : Cardinality(Newer(id)) < Cardinality(ids)
  <2>1. SUFFICES ASSUME NEW id \in ids
                 PROVE  Cardinality(Newer(id)) < Cardinality(ids)
    BY Zenon
  <2>2. Newer(id) \in SUBSET ids /\ id \notin Newer(id)
    OBVIOUS
  <2>3. /\ Cardinality(Newer(id)) <= Cardinality(ids)
        /\ Cardinality(ids) = Cardinality(Newer(id)) => ids = Newer(id)
    BY <1>1, <2>2, FS_Subset, Zenon
  <2> QED
    BY <1>1, <1>2, <2>2, <2>3
<1> HIDE DEF Newer
<1>5. ASSUME ~ (Cardinality(ids) > n)
      PROVE  Newest(ids, n) = ids
  <2>1. \A id \in ids : Cardinality(Newer(id)) < n
    BY <1>1, <1>2, <1>4, <1>5
  <2> QED
    BY <1>3, <2>1, Zenon
<1>6. ASSUME Cardinality(ids) > n
      PROVE  /\ NextCursor(ids, n) \in ids
             /\ \A id \in ids \ Newest(ids, n) : id < NextCursor(ids, n)
  <2>1. ids # {} /\ ids \subseteq 0 .. m
    BY <1>1, <1>6, FS_EmptySet
  <2>2. PICK top \in ids : \A id \in ids : top >= id
    BY <2>1, MaxOfNats, Zenon
  <2>3. Newer(top) = {}
    <3>1. \A id \in ids : ~ (id > top)
      BY <2>2
    <3> QED
      BY <3>1, Zenon DEF Newer
  <2>4. top \in Newest(ids, n)
    BY <1>3, <2>3, FS_EmptySet
  <2>5. Newest(ids, n) \subseteq ids /\ Newest(ids, n) \subseteq Nat
    <3>1. Newest(ids, n) \subseteq ids
      BY <1>3, Zenon
    <3>2. \A id \in ids : id \in Nat
      OBVIOUS
    <3> QED
      BY <3>1, <3>2, Zenon
  <2>6. PICK c : c = NextCursor(ids, n)
    BY Zenon
  <2>7. c \in Newest(ids, n)
    BY <2>4, <2>5, <2>6, MinOfNats, Zenon DEF NextCursor
  <2>8. ASSUME NEW id \in ids, id \notin Newest(ids, n)
        PROVE  id < c
    <3>1. SUFFICES ASSUME id >= c PROVE FALSE
      BY <2>5, <2>7
    <3>2. Newer(id) \in SUBSET Newer(c)
      <4>1. \A other \in ids : other > id => other > c
        BY <2>5, <2>7, <2>8, <3>1
      <4> QED
        BY <4>1, Zenon DEF Newer
    <3>3. Cardinality(Newer(id)) <= Cardinality(Newer(c))
      BY <1>2, <3>2, FS_Subset, Zenon
    <3> QED
      BY <1>2, <1>3, <2>7, <2>8, <3>3
  <2> QED
    BY <2>5, <2>6, <2>7, <2>8, Zenon
<1> QED
  BY <1>1, <1>5, <1>6, Zenon

\* page_size is at least one.
LEMMA PageSizeIsPositive ==
    ASSUME NEW requested \in PageLimits
    PROVE  PageSize(requested) \in Nat \ {0}
<1>1. requested \in Nat /\ MaxPage \in Nat
  BY RequestsAssumption, Zenon DEF RequestsAssumption
<1>2. PICK low \in Nat : low = Min({requested, MaxPage})
  BY <1>1, MinOfNats
<1>3. {1, low} \subseteq 0 .. low + 1
  OBVIOUS
<1>4. PICK n : n = Max({1, low})
  BY Zenon
<1>5. n \in {1, low} /\ n >= 1
  BY <1>3, <1>4, MaxOfNats
<1> QED
  BY <1>2, <1>4, <1>5 DEF PageSize

\* A page shows what it takes off the debt, and its cursor is above the rest.
LEMMA PagePreserves ==
    ASSUME WalkIsOnTrack, NEW requested \in PageLimits,
           ListWithdrawals(requested)
    PROVE  WalkIsOnTrack'
<1>1. PICK ids, n : ids = Listed(walk.before) /\ n = PageSize(requested)
  BY Zenon
<1>2. /\ n \in Nat \ {0} /\ MaxRows \in Nat /\ ids \subseteq 1 .. MaxRows
      /\ ids \subseteq Committed
  BY <1>1, PageSizeIsPositive, RequestsAssumption, Zenon
     DEF RequestsAssumption, Listed, Committed, Present, Ids
<1>3. walk.owed \subseteq ids
  BY <1>1 DEF WalkIsOnTrack, Listed
<1>4. PICK page, cursor : page = Newest(ids, n) /\ cursor = NextCursor(ids, n)
  BY Zenon
<1>5. /\ Cardinality(ids) \in Nat
      /\ ~ (Cardinality(ids) > n) => page = ids
      /\ Cardinality(ids) > n =>
           cursor \in ids /\ \A id \in ids \ page : id < cursor
  BY <1>2, <1>4, PageIsTop, Zenon
<1>6. walk' = [owed |-> walk.owed \ page,
               before |-> IF Cardinality(ids) > n THEN cursor ELSE 0]
  BY <1>1, <1>4, Zenon DEF ListWithdrawals
<1>7. Committed' = Committed
  BY Zenon DEF ListWithdrawals, tables, Committed, Present, Uncommitted
<1>8. CASE Cardinality(ids) > n
  <2>1. cursor \in Int /\ \A id \in walk.owed \ page : id < cursor
    <3>1. \A id \in ids : id \in Int
      BY <1>2
    <3>2. walk.owed \ page \subseteq ids \ page
      BY <1>3, Zenon
    <3> QED
      BY <1>5, <1>8, <3>1, <3>2, Zenon
  <2>2. walk'.before = cursor /\ walk'.owed = walk.owed \ page
    BY <1>6, <1>8, Zenon
  <2>3. walk' \in [before : Int, owed : SUBSET Ids]
    BY <1>6, <1>8, <2>1, Zenon DEF WalkIsOnTrack
  <2> QED
    BY <1>7, <2>1, <2>2, <2>3, Zenon DEF WalkIsOnTrack
<1>9. CASE ~ (Cardinality(ids) > n)
  <2>1. walk.owed \ page = {}
    BY <1>3, <1>5, <1>9, Zenon
  <2> QED
    BY <1>6, <1>9, <2>1 DEF WalkIsOnTrack
<1> QED
  BY <1>8, <1>9

-------------------------------------------------------------------------------
(* The API as a whole.                                                      *)

ApiInv == PoolInv /\ RequestInv /\ WalkIsOnTrack

\* Steps that leave one of the three parts alone keep its invariant.
LEMMA PoolUnchanged ==
    ASSUME PoolInv, UNCHANGED poolVars
    PROVE  PoolInv'
<1>1. UNCHANGED <<pool, address, claim, told>>
  BY Zenon DEF poolVars
<1>2. PoolTypes' /\ OneOwner'
  BY <1>1 DEF PoolInv, PoolTypes, OneOwner
<1>3. ClaimsAreSound'
  BY <1>1, Zenon DEF PoolInv, ClaimsAreSound, LockedRowIsFree
<1>4. PoolIsSpared'
  BY <1>1, Zenon DEF PoolInv, PoolIsSpared, RowsOf, ClaimsOf
<1> QED
  BY <1>1, <1>2, <1>3, <1>4, Zenon DEF PoolInv

\* The same, for the withdrawal requests.
LEMMA RequestsUnchanged ==
    ASSUME RequestInv, UNCHANGED <<tables, session, answered>>
    PROVE  RequestInv' /\ Committed' = Committed
<1>1. UNCHANGED <<rows, ledger, outbox, session, answered>>
  BY Zenon DEF tables
<1>2. Present' = Present /\ Committed' = Committed
  BY <1>1, Zenon DEF Present, Committed, Uncommitted
<1>3. RequestTypes' /\ SessionsOwnTheirRows' /\ AnswersAgree'
  BY <1>1, <1>2
     DEF RequestInv, RequestTypes, SessionsAreTyped, SessionsOwnTheirRows,
         AnswersAgree
<1>4. OnlyAcceptedPost'
  BY <1>1, <1>2, Zenon DEF RequestInv, OnlyAcceptedPost, Accepted, Keys
<1> QED
  BY <1>2, <1>3, <1>4, Zenon DEF RequestInv

\* A client between two pages loses nothing while committed rows stay.
LEMMA WalkUnchanged ==
    ASSUME WalkIsOnTrack, UNCHANGED walk, Committed \subseteq Committed'
    PROVE  WalkIsOnTrack'
BY DEF WalkIsOnTrack

\* Every statement of create.
LEMMA CreateStepPreserves ==
    ASSUME RequestInv, NEW s \in Sessions, CreateStep(s)
    PROVE  /\ RequestInv' /\ Committed \subseteq Committed'
           /\ UNCHANGED <<walk, poolVars>>
<1>1. ASSUME NEW body \in Requested,
             CreateReplay(s, body) \/ CreateInsert(s, body)
      PROVE  /\ RequestInv' /\ Committed \subseteq Committed'
             /\ UNCHANGED <<walk, poolVars>>
  <2>1. UNCHANGED <<walk, poolVars>>
    BY <1>1, Zenon DEF CreateReplay, CreateInsert
  <2> QED
    BY <1>1, <2>1, ReplayPreserves, InsertPreserves, Zenon
<1>2. CASE ReadBalance(s) \/ ReadVelocity(s) \/ ReadOwner(s)
  <2>1. UNCHANGED <<walk, poolVars>>
    BY <1>2, Zenon DEF ReadBalance, ReadVelocity, ReadOwner, Rollback
  <2> QED
    BY <1>2, <2>1, ReadsPreserve, Zenon
<1>3. CASE CreateDenied(s) \/ CreateReserved(s)
  <2>1. UNCHANGED <<walk, poolVars>>
    BY <1>3, Zenon DEF CreateDenied, CreateReserved
  <2> QED
    BY <1>3, <2>1, DeniedPreserves, ReservedPreserves, Zenon
<1>4. CASE CreateRefused(s) \/ Abandon(s)
  <2>1. Rollback(s) /\ session[s].pc # "idle"
    BY <1>4 DEF CreateRefused, Abandon, InTransaction
  <2>2. UNCHANGED <<walk, poolVars>>
    BY <2>1, Zenon DEF Rollback
  <2> QED
    BY <2>1, <2>2, RollbackPreserves, Zenon
<1> QED
  BY <1>1, <1>2, <1>3, <1>4, Zenon DEF CreateStep

\* Every statement of a deposit address request.
LEMMA AddressStepPreserves ==
    ASSUME PoolInv, AddressStep
    PROVE  PoolInv'
<1>1. CASE AddPoolAddress
  BY <1>1, SeedPreserves
<1>2. ASSUME NEW s \in Sessions, ClaimStep(s)
      PROVE  PoolInv'
  BY <1>2, LockPreserves, AssignPreserves, EndPreserves, Zenon
     DEF ClaimStep, AbandonClaim
<1>3. ASSUME NEW s \in Sessions, NEW user \in Users, FindAddress(s, user)
      PROVE  PoolInv'
  BY <1>3, FindPreserves, Zenon
<1> QED
  BY <1>1, <1>2, <1>3, Zenon DEF AddressStep

\* The three parts hold in the initial state.
LEMMA ApiInit ==
    ASSUME Init
    PROVE  ApiInv
<1>1. PoolInv
  BY PoolInitEstablishes, Zenon DEF Init
<1>2. /\ rows = [id \in Ids |-> Absent] /\ ledger = OpeningLedger
      /\ outbox = {} /\ answered = {} /\ walk = NoWalk
      /\ session = [s \in Sessions |-> Idle]
  BY Zenon DEF Init
<1>3. Present = {} /\ Committed = {}
  BY <1>2, Zenon DEF Present, Committed, Absent
<1>4. SessionsAreTyped
  <2>1. session \in
          [Sessions -> [pc : {"idle", "balance", "velocity", "owner", "decide"},
                        row : Nat, available : {0, FALSE}, total : {0, FALSE},
                        count : {0, FALSE}, foreign : {0, FALSE}]]
    BY <1>2, Zenon DEF Idle
  <2> QED
    BY <2>1, Zenon DEF SessionsAreTyped
<1>5. RequestTypes
  BY <1>2, <1>3, <1>4, Zenon DEF RequestTypes, Row, Absent
<1>6. SessionsOwnTheirRows /\ AnswersAgree
  BY <1>2, <1>3, Zenon DEF SessionsOwnTheirRows, AnswersAgree, Idle
<1>7. OnlyAcceptedPost
  <2>1. \A id : <<"withdrawal_reserve", id>>[1] = "withdrawal_reserve"
    BY Zenon
  <2>2. \A id : <<"withdrawal_reserve", id>> \notin Keys(OpeningLedger)
    BY <2>1, RequestsAssumption, Zenon DEF RequestsAssumption
  <2> QED
    BY <1>2, <1>3, <2>2, Zenon DEF OnlyAcceptedPost, Accepted
<1>8. WalkIsOnTrack
  BY <1>2 DEF WalkIsOnTrack, NoWalk
<1> QED
  BY <1>1, <1>5, <1>6, <1>7, <1>8, Zenon DEF ApiInv, RequestInv

\* Every step of the API keeps the three parts.
LEMMA ApiNext ==
    ASSUME ApiInv, [Next]_vars
    PROVE  ApiInv'
<1> USE DEF ApiInv
<1>1. ASSUME NEW s \in Sessions, CreateStep(s)
      PROVE  ApiInv'
  BY <1>1, CreateStepPreserves, PoolUnchanged, WalkUnchanged, Zenon
<1>2. ASSUME NEW id \in Ids, Approve(id) \/ Cancel(id) \/ DayPasses(id)
      PROVE  ApiInv'
  <2>1. UNCHANGED poolVars /\ UNCHANGED walk
    BY <1>2, Zenon DEF Approve, Cancel, DayPasses
  <2>2. RequestInv' /\ Committed \subseteq Committed'
    BY <1>2, ApprovePreserves, CancelPreserves, Zenon
  <2> QED
    BY <2>1, <2>2, PoolUnchanged, WalkUnchanged, Zenon
<1>3. CASE StartWalk
  <2>1. RequestInv' /\ Committed' = Committed /\ PoolInv'
    BY <1>3, RequestsUnchanged, PoolUnchanged, Zenon DEF StartWalk
  <2>2. WalkIsOnTrack'
    BY <1>3, <2>1, RequestsAssumption
       DEF StartWalk, WalkIsOnTrack, Listed, Committed, Present,
           RequestsAssumption
  <2> QED
    BY <2>1, <2>2, Zenon
<1>4. CASE EndWalk
  <2>1. RequestInv' /\ PoolInv'
    BY <1>4, RequestsUnchanged, PoolUnchanged, Zenon DEF EndWalk
  <2>2. WalkIsOnTrack'
    BY <1>4 DEF EndWalk, WalkIsOnTrack, NoWalk
  <2> QED
    BY <2>1, <2>2, Zenon
<1>5. ASSUME NEW requested \in PageLimits, ListWithdrawals(requested)
      PROVE  ApiInv'
  <2>1. UNCHANGED <<tables, session, answered, poolVars>>
    BY <1>5, Zenon DEF ListWithdrawals
  <2> QED
    BY <1>5, <2>1, PagePreserves, RequestsUnchanged, PoolUnchanged, Zenon
<1>6. CASE AddressStep
  <2>1. UNCHANGED <<tables, session, answered, walk>>
    BY <1>6, Zenon DEF AddressStep
  <2>2. RequestInv' /\ Committed' = Committed
    BY <2>1, RequestsUnchanged, Zenon
  <2> QED
    BY <1>6, <2>1, <2>2, AddressStepPreserves, WalkUnchanged, Zenon
<1>7. CASE UNCHANGED vars
  <2>1. UNCHANGED <<tables, session, answered, walk, poolVars>>
    BY <1>7 DEF vars
  <2> QED
    BY <2>1, RequestsUnchanged, PoolUnchanged, WalkUnchanged, Zenon
<1> QED
  BY <1>1, <1>2, <1>3, <1>4, <1>5, <1>6, <1>7, Zenon DEF Next

\* The inductive invariant of the API holds in every reachable state.
THEOREM ApiInvariant == Spec => []ApiInv
<1>1. Init => ApiInv
  BY ApiInit, Zenon
<1>2. ApiInv /\ [Next]_vars => ApiInv'
  BY ApiNext
<1> QED
  BY <1>1, <1>2, PTL DEF Spec

\* claim_pool_address and get_or_assign_deposit_address: however the requests
\* of any number of sessions overlap, a user is told one address, the one the
\* watcher monitors for them, and nobody else is told it.
THEOREM OneAddressForEver == Spec => []ToldOneAddress
<1>1. ApiInv => ToldOneAddress
  <2>1. SUFFICES ASSUME PoolInv PROVE ToldOneAddress
    BY Zenon DEF ApiInv
  <2>2. \A t \in told : address[t[1]] = t[2]
    BY <2>1, Zenon DEF PoolInv
  <2>3. \A t \in told : t[1] \in Users /\ t[2] # NoAddress
    BY <2>1, AddressesAssumption DEF PoolInv, PoolTypes, AddressesAssumption
  <2>4. \A t1, t2 \in told : t1[2] = t2[2] => t1[1] = t2[1]
    BY <2>1, <2>2, <2>3 DEF PoolInv, OneOwner
  <2> QED
    BY <2>2, <2>4, Zenon DEF ToldOneAddress
<1> QED
  BY <1>1, ApiInvariant, PTL

\* claim_pool_address: a user never uses up more rows of the pool than there
\* are sessions, whatever is retried or abandoned and however often.
THEOREM RetriesSparePool == Spec => []RetriesBurnNoAddress
<1>1. ApiInv => RetriesBurnNoAddress
  <2>1. SUFFICES ASSUME PoolInv, NEW u \in Users
                 PROVE  Cardinality(RowsOf(u)) <= Cardinality(Sessions)
    BY Zenon DEF ApiInv, RetriesBurnNoAddress, RowsOf
  <2>2. /\ Cardinality(RowsOf(u)) \in Nat /\ Cardinality(ClaimsOf(u)) \in Nat
        /\ Cardinality(Sessions) \in Nat
    BY <2>1, Counts, Zenon DEF PoolInv
  <2>3. Cardinality(RowsOf(u)) + Cardinality(ClaimsOf(u))
          <= Cardinality(Sessions)
    BY <2>1, Zenon DEF PoolInv, PoolIsSpared
  <2> QED
    BY <2>2, <2>3
<1> QED
  BY <1>1, ApiInvariant, PTL

\* WithdrawalService::create: the answers to one idempotency key speak of one
\* committed withdrawal with the body that was sent.
THEOREM RetriesAgree == Spec => []AnswersAgree
<1>1. ApiInv => AnswersAgree
  BY Zenon DEF ApiInv, RequestInv
<1> QED
  BY <1>1, ApiInvariant, PTL

\* WithdrawalService::create: a withdrawal has a requested event, and a
\* reservation posted, exactly when it was accepted; a denial, a refusal, an
\* error or a crash at any point leaves neither.
THEOREM FailureLeavesNothing == Spec => []OnlyAcceptedPost
<1>1. ApiInv => OnlyAcceptedPost
  BY Zenon DEF ApiInv, RequestInv
<1> QED
  BY <1>1, ApiInvariant, PTL

\* list_withdrawals: a client that follows the cursors to the end was shown
\* every withdrawal that was committed when it began, for every page size.
THEOREM PagingIsComplete == Spec => []WalkIsComplete
<1>1. ApiInv => WalkIsComplete
  <2>1. SUFFICES ASSUME WalkIsOnTrack, walk.before = 0
                 PROVE  walk.owed = {}
    BY Zenon DEF ApiInv, WalkIsComplete
  <2>2. \A id \in walk.owed : id \in Ids /\ id < 0
    BY <2>1, Zenon DEF WalkIsOnTrack
  <2>3. \A id \in Ids : ~ (id < 0)
    BY RequestsAssumption DEF Ids, RequestsAssumption
  <2> QED
    BY <2>2, <2>3, Zenon
<1> QED
  BY <1>1, ApiInvariant, PTL
===============================================================================
