---------------------------- MODULE Outbox_proofs ----------------------------
(***************************************************************************)
(* Proofs about the outbox, its relays and the consumer runners, for any   *)
(* number of events, partitions, relays and consumers and any faults.  Two *)
(* inductive invariants, one for each side of the log: RelayInv carries    *)
(* what the relays promise, GroupInv what the consumer group promises.     *)
(***************************************************************************)
EXTENDS Delivery, FiniteSetTheorems, TLAPS

(***************************************************************************)
(* The relays' side.                                                       *)
(***************************************************************************)

\* Where the log holds an event.
Copies(e) == {k \in DOMAIN log[PartitionOf[e]] : log[PartitionOf[e]][k] = e}

\* An event that was published once for its row: by a committed pass, or by a
\* pass that may still commit.
Accounted(e) ==
    \/ outbox[e].status = "published"
    \/ \E r \in Relays : e \in relay[r].published

\* SKIP LOCKED: a row in a pass is pending and in no other pass.
LocksAreExclusive ==
    \A r \in Relays : \A e \in Locked(r) :
        /\ outbox[e].status = "pending"
        /\ \A s \in Relays \ {r} : e \notin Locked(s)

\* What a pass has done so far: a row to come was not published by it, a row
\* it reschedules has attempts left, a row it will mark published is in the
\* log or among its dead letters.
PassesAreOrderly ==
    \A r \in Relays :
        /\ \A e \in relay[r].todo : e \notin relay[r].published
        /\ \A e \in relay[r].failed : outbox[e].attempts + 1 < MaxAttempts
        /\ \A e \in relay[r].published :
             e \in Range(log[PartitionOf[e]]) \/ e \in relay[r].dead

CopiesAreBounded ==
    \A e \in Events :
        Cardinality(Copies(e))
            <= (MaxFaults - faultsLeft) + (IF Accounted(e) THEN 1 ELSE 0)

(***************************************************************************)
(* The group's side.                                                       *)
(***************************************************************************)

Busy(c) == ~At(c, "idle")

Settled(p, k) == Handled(log[p][k]) \/ log[p][k] \in left

\* A runner works on a message of the log all of whose predecessors are
\* settled; it commits a message it handled, and its attempts are budgeted.
RunnersAreOrderly ==
    \A c \in Consumers :
        /\ Busy(c) =>
             \E p \in Partitions : \E k \in 1 .. Len(log[p]) :
                /\ consumer[c].message = <<p, k>>
                /\ \A j \in 1 .. k - 1 : Settled(p, j)
                /\ At(c, "commit") => Handled(log[p][k])
        /\ At(c, "check") => consumer[c].attempt = 0
        /\ At(c, "handle") => consumer[c].attempt < MaxAttempts

\* What was fetched from a partition is settled, but for the message its owner
\* works on; what was committed is settled.
OffsetsAreOrderly ==
    \A p \in Partitions :
        /\ committed[p] <= Len(log[p]) /\ position[p] <= Len(log[p])
        /\ \A k \in 1 .. committed[p] : Settled(p, k)
        /\ \A k \in 1 .. position[p] :
             \/ Settled(p, k)
             \/ /\ k = position[p] /\ Busy(owner[p])
                /\ consumer[owner[p]].message = <<p, k>>

RelayInv ==
    /\ LocksAreExclusive /\ PassesAreOrderly
    /\ PublishedIsDelivered /\ CopiesAreBounded

GroupInv == ClaimIsEffect /\ RunnersAreOrderly /\ OffsetsAreOrderly

IInv == TypeOK /\ RelayInv /\ GroupInv

(***************************************************************************)
(* The log.                                                                *)
(***************************************************************************)

\* Kafka's log is only appended to.
LogGrows ==
    \A p \in Partitions :
        /\ Len(log[p]) <= Len(log'[p])
        /\ \A k \in 1 .. Len(log[p]) : log'[p][k] = log[p][k]

\* The copies of an event in the log are finitely many.
LEMMA CopiesAreFinite ==
    ASSUME TypeOK, NEW e \in Events
    PROVE  IsFiniteSet(Copies(e)) /\ Cardinality(Copies(e)) \in Nat
<1>1. PartitionOf[e] \in Partitions
  BY DeliveryAssumption DEF DeliveryAssumption
<1>2. log[PartitionOf[e]] \in Seq(Events)
  BY <1>1 DEF TypeOK
<1>3. /\ Len(log[PartitionOf[e]]) \in Nat
      /\ Copies(e) \in SUBSET (1 .. Len(log[PartitionOf[e]]))
  BY <1>2 DEF Copies
<1>4. IsFiniteSet(1 .. Len(log[PartitionOf[e]]))
  BY <1>3, FS_Interval
<1>5. IsFiniteSet(Copies(e))
  BY <1>3, <1>4, FS_Subset
<1> QED
  BY <1>5, FS_CardinalityType

\* A publish appends one copy of its event and moves no other message.
LEMMA SendAppends ==
    ASSUME TypeOK, NEW e \in Events, Send(e)
    PROVE  /\ log' \in [Partitions -> Seq(Events)] /\ LogGrows
           /\ e \in Range(log'[PartitionOf[e]])
           /\ Cardinality(Copies(e)') = Cardinality(Copies(e)) + 1
           /\ \A f \in Events \ {e} : Copies(f)' = Copies(f)
<1>1. PartitionOf \in [Events -> Partitions]
  BY DeliveryAssumption DEF DeliveryAssumption
<1>q. PICK q \in Partitions : q = PartitionOf[e]
  BY <1>1
<1>2. log \in [Partitions -> Seq(Events)] /\ log[q] \in Seq(Events)
  BY DEF TypeOK
<1>n. PICK n \in Nat : n = Len(log[q])
  BY <1>2
<1>3. /\ log'[q] = Append(log[q], e)
      /\ \A p \in Partitions \ {q} : log'[p] = log[p]
      /\ DOMAIN log' = Partitions
  BY <1>q, <1>2 DEF Send
<1>4. /\ log'[q] \in Seq(Events) /\ Len(log'[q]) = n + 1
      /\ log'[q][n + 1] = e /\ \A k \in 1 .. n : log'[q][k] = log[q][k]
      /\ DOMAIN log'[q] = 1 .. n + 1 /\ DOMAIN log[q] = 1 .. n
  BY <1>2, <1>n, <1>3
<1>5. log' \in [Partitions -> Seq(Events)]
  BY <1>q, <1>2, <1>3, <1>4, Zenon DEF Send
<1>6. LogGrows
  <2>1. Len(log[q]) <= Len(log'[q])
    BY <1>n, <1>4
  <2>2. \A k \in 1 .. Len(log[q]) : log'[q][k] = log[q][k]
    BY <1>n, <1>4
  <2>3. \A p \in Partitions : Len(log[p]) <= Len(log[p])
    BY <1>2
  <2> QED
    BY <1>3, <2>1, <2>2, <2>3, Zenon DEF LogGrows
<1>7. e \in Range(log'[PartitionOf[e]])
  BY <1>q, <1>4 DEF Range
<1>8. Copies(e)' = Copies(e) \cup {n + 1} /\ n + 1 \notin Copies(e)
  <2>1. Copies(e) = {k \in 1 .. n : log[q][k] = e}
    BY <1>q, <1>4 DEF Copies
  <2>2. Copies(e)' = {k \in 1 .. n + 1 : log'[q][k] = e}
    BY <1>q, <1>4 DEF Copies
  <2> QED
    BY <1>4, <2>1, <2>2
<1>9. Cardinality(Copies(e)') = Cardinality(Copies(e)) + 1
  BY <1>8, CopiesAreFinite, FS_AddElement, Zenon
<1>10. ASSUME NEW f \in Events, f # e PROVE Copies(f)' = Copies(f)
  <2>1. CASE PartitionOf[f] = q
    <3>1. Copies(f) = {k \in 1 .. n : log[q][k] = f}
      BY <1>4, <2>1 DEF Copies
    <3>2. Copies(f)' = {k \in 1 .. n + 1 : log'[q][k] = f}
      BY <1>4, <2>1 DEF Copies
    <3> QED
      BY <1>4, <1>10, <3>1, <3>2
  <2>2. CASE PartitionOf[f] # q
    <3>1. log'[PartitionOf[f]] = log[PartitionOf[f]]
      BY <1>1, <1>3, <2>2
    <3> QED
      BY <3>1 DEF Copies
  <2> QED
    BY <2>1, <2>2
<1> QED
  BY <1>5, <1>6, <1>7, <1>9, <1>10

\* An event in the log stays there.
LEMMA LoggedStays ==
    ASSUME TypeOK, log' \in [Partitions -> Seq(Events)], LogGrows,
           NEW p \in Partitions
    PROVE  Range(log[p]) \subseteq Range(log'[p])
<1>1. log[p] \in Seq(Events) /\ log'[p] \in Seq(Events)
  BY DEF TypeOK
<1> QED
  BY <1>1 DEF LogGrows, Range

(***************************************************************************)
(* Each side keeps the other's invariant.                                  *)
(***************************************************************************)

LEMMA FaultsAddUp ==
    \A max, before, after \in Int :
        after <= before => max - before <= max - after
  OBVIOUS

\* The group neither touches the outbox nor writes to the log.
LEMMA GroupKeepsRelayInv ==
    ASSUME TypeOK, RelayInv, UNCHANGED <<outbox, relay, log>>,
           deadLetters \subseteq deadLetters',
           faultsLeft' \in 0 .. MaxFaults, faultsLeft' <= faultsLeft
    PROVE  RelayInv'
<1>1. \A r \in Relays : Locked(r)' = Locked(r)
  BY DEF Locked
<1>2. \A e \in Events : Copies(e)' = Copies(e) /\ Accounted(e)' = Accounted(e)
  BY DEF Copies, Accounted
<1>3. LocksAreExclusive' /\ PassesAreOrderly'
  BY <1>1 DEF RelayInv, LocksAreExclusive, PassesAreOrderly
<1>4. PublishedIsDelivered'
  BY DEF RelayInv, PublishedIsDelivered
<1>5. ASSUME NEW e \in Events
      PROVE  Cardinality(Copies(e)')
               <= (MaxFaults - faultsLeft') + (IF Accounted(e)' THEN 1 ELSE 0)
  <2>1. /\ Cardinality(Copies(e)) \in Nat /\ MaxFaults \in Nat
        /\ faultsLeft \in 0 .. MaxFaults
    BY CopiesAreFinite, DeliveryAssumption, Zenon
       DEF TypeOK, DeliveryAssumption
  <2>2. Cardinality(Copies(e))
          <= (MaxFaults - faultsLeft) + (IF Accounted(e) THEN 1 ELSE 0)
    BY DEF RelayInv, CopiesAreBounded
  <2>3. Copies(e)' = Copies(e) /\ Accounted(e)' = Accounted(e)
    BY <1>2
  <2>i. faultsLeft \in Int /\ faultsLeft' \in Int /\ MaxFaults \in Int
    BY <2>1
  <2>4. MaxFaults - faultsLeft <= MaxFaults - faultsLeft'
    BY <2>i, FaultsAddUp, Zenon
  <2>5. CASE Accounted(e)
    BY <2>1, <2>2, <2>3, <2>4, <2>5
  <2>6. CASE ~Accounted(e)
    BY <2>1, <2>2, <2>3, <2>4, <2>6
  <2> QED
    BY <2>5, <2>6, Zenon
<1> QED
  BY <1>3, <1>4, <1>5 DEF RelayInv, CopiesAreBounded

\* The relays neither touch the group's offsets nor a runner; the log they
\* append to keeps its messages.
LEMMA RelayKeepsGroupInv ==
    ASSUME TypeOK, GroupInv, log' \in [Partitions -> Seq(Events)], LogGrows,
           UNCHANGED <<owner, position, committed, processed, effects,
                       consumer, left>>,
           deadLetters \subseteq deadLetters'
    PROVE  GroupInv'
<1>1. \A p \in Partitions : Len(log[p]) \in Nat /\ Len(log'[p]) \in Nat
  BY DEF TypeOK
<1>2. \A e : Handled(e) => Handled(e)'
  BY DEF Handled
<1>3. \A p \in Partitions : \A k \in 1 .. Len(log[p]) :
        /\ log'[p][k] = log[p][k] /\ (Settled(p, k) => Settled(p, k)')
  BY <1>2, Zenon DEF Settled, LogGrows
<1>4. RunnersAreOrderly'
  <2> SUFFICES ASSUME NEW c \in Consumers, Busy(c)
               PROVE  \E p \in Partitions : \E k \in 1 .. Len(log'[p]) :
                        /\ consumer[c].message = <<p, k>>
                        /\ \A j \in 1 .. k - 1 : Settled(p, j)'
                        /\ At(c, "commit") => Handled(log[p][k])'
    BY DEF GroupInv, RunnersAreOrderly, Busy, At
  <2>p. PICK p \in Partitions : \E k \in 1 .. Len(log[p]) :
          /\ consumer[c].message = <<p, k>>
          /\ \A j \in 1 .. k - 1 : Settled(p, j)
          /\ At(c, "commit") => Handled(log[p][k])
    BY DEF GroupInv, RunnersAreOrderly
  <2>1. PICK k \in 1 .. Len(log[p]) :
          /\ consumer[c].message = <<p, k>>
          /\ \A j \in 1 .. k - 1 : Settled(p, j)
          /\ At(c, "commit") => Handled(log[p][k])
    BY <2>p
  <2>2. k \in 1 .. Len(log'[p])
    BY <1>1 DEF LogGrows
  <2>3. \A j \in 1 .. k - 1 : Settled(p, j)'
    BY <1>1, <1>3, <2>1
  <2>4. At(c, "commit") => Handled(log[p][k])'
    BY <1>2, <1>3, <2>1, Zenon
  <2> QED
    BY <2>1, <2>2, <2>3, <2>4, Zenon
<1>5. OffsetsAreOrderly'
  <2> SUFFICES ASSUME NEW p \in Partitions
               PROVE  /\ committed[p] <= Len(log'[p])
                      /\ position[p] <= Len(log'[p])
                      /\ \A k \in 1 .. committed[p] : Settled(p, k)'
                      /\ \A k \in 1 .. position[p] :
                           \/ Settled(p, k)'
                           \/ /\ k = position[p] /\ Busy(owner[p])
                              /\ consumer[owner[p]].message = <<p, k>>
    BY DEF OffsetsAreOrderly, Busy, At
  <2>1. /\ committed[p] \in Nat /\ position[p] \in Nat
        /\ committed[p] <= Len(log[p]) /\ position[p] <= Len(log[p])
    BY DEF GroupInv, OffsetsAreOrderly, TypeOK
  <2>2. Len(log[p]) <= Len(log'[p])
    BY DEF LogGrows
  <2>3. \A k \in 1 .. Len(log[p]) : Settled(p, k) => Settled(p, k)'
    BY <1>3
  <2>4. committed[p] <= Len(log'[p]) /\ position[p] <= Len(log'[p])
    BY <1>1, <2>1, <2>2
  <2>5. \A k \in 1 .. committed[p] : Settled(p, k)'
    <3>1. \A k \in 1 .. committed[p] : Settled(p, k) /\ k \in 1 .. Len(log[p])
      BY <1>1, <2>1 DEF GroupInv, OffsetsAreOrderly
    <3> QED
      BY <2>3, <3>1, Zenon
  <2>6. ASSUME NEW k \in 1 .. position[p]
        PROVE  \/ Settled(p, k)'
               \/ /\ k = position[p] /\ Busy(owner[p])
                  /\ consumer[owner[p]].message = <<p, k>>
    <3>1. k \in 1 .. Len(log[p])
      BY <1>1, <2>1
    <3> QED
      BY <2>3, <3>1, Zenon DEF GroupInv, OffsetsAreOrderly
  <2> QED
    BY <2>4, <2>5, <2>6, Zenon
<1>6. ClaimIsEffect'
  BY DEF GroupInv, ClaimIsEffect
<1> QED
  BY <1>4, <1>5, <1>6 DEF GroupInv

(***************************************************************************)
(* The steps of the relays.                                                *)
(***************************************************************************)

\* Everything a step of the outbox or of a relay leaves alone.
RelayFrame ==
    UNCHANGED <<owner, position, committed, processed, effects, consumer, left>>

\* A step of the relays' side that keeps the types and the relays' invariant
\* keeps everything.
LEMMA RelaySideStep ==
    ASSUME IInv, RelayFrame, TypeOK', RelayInv', LogGrows,
           deadLetters \subseteq deadLetters'
    PROVE  IInv'
<1>1. log' \in [Partitions -> Seq(Events)]
  BY DEF TypeOK
<1> QED
  BY <1>1, RelayKeepsGroupInv DEF IInv, RelayFrame

LEMMA SameLog ==
    ASSUME TypeOK, UNCHANGED log
    PROVE  LogGrows /\ \A e \in Events : Copies(e)' = Copies(e)
<1>1. \A p \in Partitions : Len(log[p]) \in Nat
  BY DEF TypeOK
<1> QED
  BY <1>1 DEF LogGrows, Copies

\* The bound on the copies of an event weakens when it becomes accounted for.
LEMMA MoreIsAccounted ==
    ASSUME TypeOK, CopiesAreBounded, UNCHANGED faultsLeft,
           \A f \in Events : Copies(f)' = Copies(f),
           \A f \in Events : Accounted(f) => Accounted(f)'
    PROVE  CopiesAreBounded'
<1> SUFFICES ASSUME NEW f \in Events
             PROVE  Cardinality(Copies(f))
                      <= MaxFaults - faultsLeft + (IF Accounted(f)' THEN 1 ELSE 0)
  BY DEF CopiesAreBounded
<1>1. Cardinality(Copies(f)) \in Nat /\ MaxFaults - faultsLeft \in Int
  BY CopiesAreFinite, DeliveryAssumption DEF TypeOK, DeliveryAssumption
<1>2. Cardinality(Copies(f))
        <= MaxFaults - faultsLeft + (IF Accounted(f) THEN 1 ELSE 0)
  BY DEF CopiesAreBounded
<1>3. CASE Accounted(f)
  BY <1>2, <1>3
<1>4. CASE ~Accounted(f)
  BY <1>1, <1>2, <1>4
<1> QED
  BY <1>3, <1>4

\* enqueue and the passing of a row's next_attempt_at change one row that no
\* pass has locked, or only its due date.
LEMMA RowPreserves ==
    ASSUME IInv, NEW e \in Events,
           \/ Elapse(e)
           \/ \E class \in ClassesOf[e] : Enqueue(e, class)
    PROVE  IInv'
<1>1. /\ UNCHANGED <<relay, log, deadLetters, faultsLeft>> /\ RelayFrame
  BY Zenon DEF Elapse, Enqueue, NoFault, kafka, handled, RelayFrame
<1>2. PICK row \in OutboxRow :
        /\ outbox' = [outbox EXCEPT ![e] = row]
        /\ row.attempts = outbox[e].attempts
        /\ \/ row.status = outbox[e].status
           \/ outbox[e].status = "absent" /\ row.status = "pending"
  <2>1. outbox[e] \in OutboxRow
    BY DEF IInv, TypeOK
  <2>2. CASE Elapse(e)
    <3> DEFINE row == [outbox[e] EXCEPT !.due = TRUE]
    <3>1. /\ row \in OutboxRow /\ row.attempts = outbox[e].attempts
          /\ row.status = outbox[e].status
      BY <2>1, Zenon DEF OutboxRow
    <3>2. outbox' = [outbox EXCEPT ![e] = row]
      BY <2>2 DEF Elapse
    <3> QED
      BY <3>1, <3>2, Zenon
  <2>3. ASSUME NEW class \in ClassesOf[e], Enqueue(e, class)
        PROVE  \E row \in OutboxRow :
                 /\ outbox' = [outbox EXCEPT ![e] = row]
                 /\ row.attempts = outbox[e].attempts
                 /\ outbox[e].status = "absent" /\ row.status = "pending"
    <3> DEFINE row == [outbox[e] EXCEPT !.status = "pending", !.class = class]
    <3>1. class \in AllClasses
      BY DeliveryAssumption DEF DeliveryAssumption
    <3>2. /\ row \in OutboxRow /\ row.attempts = outbox[e].attempts
          /\ row.status = "pending"
      BY <2>1, <3>1, Zenon DEF OutboxRow
    <3>3. outbox' = [outbox EXCEPT ![e] = row] /\ outbox[e].status = "absent"
      BY <2>3, Zenon DEF Enqueue
    <3> QED
      BY <3>2, <3>3, Zenon
  <2> QED
    BY <2>2, <2>3, Zenon
<1>3. outbox \in [Events -> OutboxRow]
  BY Zenon DEF IInv, TypeOK
<1>4. TypeOK'
  BY <1>1, <1>2, <1>3, Zenon DEF IInv, TypeOK, RelayFrame
<1>5. /\ \A f \in Events : outbox'[f].attempts = outbox[f].attempts
      /\ \A f \in Events : \/ outbox'[f].status = outbox[f].status
                          \/ /\ outbox[f].status = "absent"
                             /\ outbox'[f].status = "pending"
  BY <1>2, <1>3, Zenon
<1>6. LogGrows /\ \A f \in Events : Copies(f)' = Copies(f)
  BY <1>1, SameLog, Zenon DEF IInv
<1>7. \A r \in Relays : Locked(r)' = Locked(r) /\ Locked(r) \subseteq Events
  BY <1>1, Zenon DEF Locked, IInv, TypeOK, RelayPass
<1>8. LocksAreExclusive'
  BY <1>5, <1>7 DEF LocksAreExclusive, IInv, RelayInv
<1>9. PassesAreOrderly'
  <2>1. \A r \in Relays : relay[r].failed \subseteq Events
    BY Zenon DEF IInv, TypeOK, RelayPass
  <2> QED
    BY <1>1, <1>5, <2>1, Zenon DEF PassesAreOrderly, IInv, RelayInv
<1>10. PublishedIsDelivered'
  BY <1>1, <1>5, Zenon DEF PublishedIsDelivered, IInv, RelayInv
<1>11. CopiesAreBounded'
  <2>1. \A f \in Events : Accounted(f)' = Accounted(f)
    BY <1>1, <1>5, Zenon DEF Accounted
  <2> QED
    BY <1>1, <1>6, <2>1, Zenon DEF CopiesAreBounded, IInv, RelayInv
<1>12. RelayInv'
  BY <1>8, <1>9, <1>10, <1>11, Zenon DEF RelayInv
<1> QED
  BY <1>1, <1>4, <1>6, <1>12, RelaySideStep, Zenon

\* claim_batch locks rows that no other pass has.
LEMMA ClaimBatchPreserves ==
    ASSUME IInv, NEW r \in Relays, ClaimBatch(r)
    PROVE  IInv'
<1>1. UNCHANGED <<outbox, log, deadLetters, faultsLeft>> /\ RelayFrame
  BY DEF ClaimBatch, NoFault, kafka, handled, RelayFrame
<1>2. PICK batch \in SUBSET Due : relay' = [relay EXCEPT ![r].todo = batch]
  BY Zenon DEF ClaimBatch
<1>3. relay \in [Relays -> RelayPass] /\ relay[r] = IdleRelay
  BY DEF IInv, TypeOK, ClaimBatch, InTransaction
<1>4. batch \subseteq Events
  BY DEF Due
<1>5. /\ relay'[r].todo = batch /\ relay'[r].published = {}
      /\ relay'[r].failed = {} /\ relay'[r].dead = {}
      /\ \A s \in Relays \ {r} : relay'[s] = relay[s]
      /\ \A s \in Relays : relay'[s].published = relay[s].published
  BY <1>2, <1>3 DEF IdleRelay
<1>6. relay' \in [Relays -> RelayPass]
  BY <1>2, <1>3, <1>4 DEF RelayPass
<1>7. TypeOK'
  BY <1>1, <1>6 DEF IInv, TypeOK, RelayFrame
<1>8. LogGrows /\ \A f \in Events : Copies(f)' = Copies(f)
  BY <1>1, SameLog DEF IInv
<1>9. Locked(r)' = batch /\ \A s \in Relays \ {r} : Locked(s)' = Locked(s)
  BY <1>5 DEF Locked
<1>10. LocksAreExclusive'
  <2>1. \A e \in batch : /\ outbox[e].status = "pending"
                         /\ \A s \in Relays : e \notin Locked(s)
    BY Zenon DEF Due
  <2> QED
    BY <1>1, <1>9, <2>1 DEF LocksAreExclusive, IInv, RelayInv
<1>11. PassesAreOrderly'
  BY <1>1, <1>5, Zenon DEF PassesAreOrderly, IInv, RelayInv
<1>12. PublishedIsDelivered'
  BY <1>1, Zenon DEF PublishedIsDelivered, IInv, RelayInv
<1>13. CopiesAreBounded'
  <2>1. \A f \in Events : Accounted(f)' = Accounted(f)
    BY <1>1, <1>5, Zenon DEF Accounted
  <2> QED
    BY <1>1, <1>8, <2>1, Zenon DEF CopiesAreBounded, IInv, RelayInv
<1>14. RelayInv'
  BY <1>10, <1>11, <1>12, <1>13, Zenon DEF RelayInv
<1> QED
  BY <1>1, <1>7, <1>8, <1>14, RelaySideStep, Zenon

\* What a pass makes of its next row, and whether that row is then marked
\* published.
LEMMA PassOutcomes ==
    ASSUME NEW pass \in RelayPass, NEW e \in pass.todo, e \in Events
    PROVE  \A next \in {Sent(pass, e), GivenUp(pass, e), Rescheduled(pass, e)} :
             /\ next \in RelayPass
             /\ next.todo = pass.todo \ {e}
             /\ next.published \cup next.failed
                  = pass.published \cup pass.failed \cup {e}
             /\ pass.published \subseteq next.published
             /\ next.published \subseteq pass.published \cup {e}
             /\ next.failed \subseteq pass.failed \cup {e}
             /\ pass.dead \subseteq next.dead
<1>0. /\ pass.todo \subseteq Events /\ pass.published \subseteq Events
      /\ pass.failed \subseteq Events /\ pass.dead \subseteq Events
  BY DEF RelayPass
<1> DEFINE Fields(next, published, failed, dead) ==
             /\ next \in RelayPass /\ next.todo = pass.todo \ {e}
             /\ next.published = published /\ next.failed = failed
             /\ next.dead = dead
<1>1. Fields(Sent(pass, e), pass.published \cup {e}, pass.failed, pass.dead)
  BY <1>0, Zenon DEF Sent, RelayPass
<1>2. Fields(GivenUp(pass, e), pass.published \cup {e}, pass.failed,
             pass.dead \cup {e})
  BY <1>0, <1>1 DEF GivenUp, RelayPass
<1>3. Fields(Rescheduled(pass, e), pass.published, pass.failed \cup {e},
             pass.dead)
  BY <1>0, Zenon DEF Rescheduled, RelayPass
<1> DEFINE Outcome(next) ==
             /\ next \in RelayPass
             /\ next.todo = pass.todo \ {e}
             /\ next.published \cup next.failed
                  = pass.published \cup pass.failed \cup {e}
             /\ pass.published \subseteq next.published
             /\ next.published \subseteq pass.published \cup {e}
             /\ next.failed \subseteq pass.failed \cup {e}
             /\ pass.dead \subseteq next.dead
<1>4. Outcome(Sent(pass, e))
  BY <1>1
<1>5. Outcome(GivenUp(pass, e))
  BY <1>2, Zenon
<1>6. Outcome(Rescheduled(pass, e))
  BY <1>3, Zenon
<1> QED
  BY <1>4, <1>5, <1>6, Zenon

\* Handling the next row of a pass keeps the locks and the pass in order.
LEMMA PassStep ==
    ASSUME IInv, NEW r \in Relays, NEW e \in Events, NextRow(r, e),
           NEW pass \in {Sent(relay[r], e), GivenUp(relay[r], e),
                        Rescheduled(relay[r], e)},
           relay' = [relay EXCEPT ![r] = pass],
           UNCHANGED <<outbox, deadLetters>>, RelayFrame, LogGrows,
           log' \in [Partitions -> Seq(Events)],
           faultsLeft' \in 0 .. MaxFaults,
           e \in pass.failed => outbox[e].attempts + 1 < MaxAttempts,
           e \in pass.published =>
               e \in Range(log'[PartitionOf[e]]) \/ e \in pass.dead
    PROVE  /\ TypeOK' /\ LocksAreExclusive' /\ PassesAreOrderly'
           /\ PublishedIsDelivered'
           /\ \A f \in Events :
                /\ Accounted(f) => Accounted(f)'
                /\ f = e => ~Accounted(f) /\ (e \in pass.published => Accounted(f)')
<1>1. /\ relay \in [Relays -> RelayPass] /\ relay[r] \in RelayPass
      /\ relay'[r] = pass /\ \A s \in Relays \ {r} : relay'[s] = relay[s]
  BY Zenon DEF IInv, TypeOK
<1>2. e \in relay[r].todo
  BY Zenon DEF NextRow
<1>3. /\ pass \in RelayPass
      /\ pass.todo = relay[r].todo \ {e}
      /\ pass.published \cup pass.failed
           = relay[r].published \cup relay[r].failed \cup {e}
      /\ relay[r].published \subseteq pass.published
      /\ pass.published \subseteq relay[r].published \cup {e}
      /\ pass.failed \subseteq relay[r].failed \cup {e}
      /\ relay[r].dead \subseteq pass.dead
  BY <1>1, <1>2, PassOutcomes
<1>4. TypeOK'
  <2>1. relay' \in [Relays -> RelayPass]
    BY <1>1, <1>3, Zenon
  <2> QED
    BY <2>1, Zenon DEF IInv, TypeOK, RelayFrame
<1>5. \A s \in Relays : Locked(s)' = Locked(s)
  BY <1>1, <1>2, <1>3 DEF Locked
<1>6. LocksAreExclusive'
  BY <1>5 DEF LocksAreExclusive, IInv, RelayInv
<1>7. \A f \in Events :
        f \in Range(log[PartitionOf[f]]) => f \in Range(log'[PartitionOf[f]])
  BY LoggedStays, DeliveryAssumption, Zenon DEF IInv, DeliveryAssumption
<1>8. \A s \in Relays : relay[s].published \subseteq Events
  BY <1>1, Zenon DEF RelayPass
<1>9. PassesAreOrderly'
  <2> SUFFICES ASSUME NEW s \in Relays
               PROVE  /\ \A f \in relay'[s].todo : f \notin relay'[s].published
                      /\ \A f \in relay'[s].failed :
                           outbox[f].attempts + 1 < MaxAttempts
                      /\ \A f \in relay'[s].published :
                           \/ f \in Range(log'[PartitionOf[f]])
                           \/ f \in relay'[s].dead
    BY Zenon DEF PassesAreOrderly
  <2>1. /\ \A f \in relay[s].todo : f \notin relay[s].published
        /\ \A f \in relay[s].failed : outbox[f].attempts + 1 < MaxAttempts
        /\ \A f \in relay[s].published :
             f \in Range(log[PartitionOf[f]]) \/ f \in relay[s].dead
    BY Zenon DEF IInv, RelayInv, PassesAreOrderly
  <2>2. CASE s = r
    BY <1>1, <1>3, <1>7, <1>8, <2>1, <2>2
  <2>3. CASE s # r
    BY <1>1, <1>7, <1>8, <2>1, <2>3, Zenon
  <2> QED
    BY <2>2, <2>3, Zenon
<1>10. PublishedIsDelivered'
  <2>1. PublishedIsDelivered
    BY Zenon DEF IInv, RelayInv
  <2> QED
    BY <1>7, <2>1, Zenon DEF PublishedIsDelivered
<1>11. \A f \in Events : Accounted(f) => Accounted(f)'
  BY <1>1, <1>3, Zenon DEF Accounted
<1>12. ~Accounted(e)
  <2>1. e \in Locked(r)
    BY <1>2, Zenon DEF Locked
  <2>2. outbox[e].status # "published"
    BY <2>1, Zenon DEF IInv, RelayInv, LocksAreExclusive
  <2>3. e \notin relay[r].published
    BY <1>2, Zenon DEF IInv, RelayInv, PassesAreOrderly
  <2>4. \A s \in Relays \ {r} : e \notin relay[s].published
    BY <2>1, Zenon DEF IInv, RelayInv, LocksAreExclusive, Locked
  <2> QED
    BY <2>2, <2>3, <2>4, Zenon DEF Accounted
<1>13. e \in pass.published => Accounted(e)'
  BY <1>1 DEF Accounted
<1> QED
  BY <1>4, <1>6, <1>9, <1>10, <1>11, <1>12, <1>13, Zenon

\* A row that is no envelope goes to the dead letters, and nowhere else.
LEMMA DeadLetterMalformedPreserves ==
    ASSUME IInv, NEW r \in Relays, NEW e \in Events, DeadLetterMalformed(r, e)
    PROVE  IInv'
<1>1. UNCHANGED <<outbox, log, deadLetters, faultsLeft>> /\ RelayFrame
  BY Zenon DEF DeadLetterMalformed, NoFault, kafka, handled, RelayFrame
<1>2. NextRow(r, e) /\ relay' = [relay EXCEPT ![r] = GivenUp(relay[r], e)]
  BY DEF DeadLetterMalformed
<1>3. LogGrows /\ \A f \in Events : Copies(f)' = Copies(f)
  BY <1>1, SameLog, Zenon DEF IInv
<1>4. relay[r] \in RelayPass /\ log' \in [Partitions -> Seq(Events)]
      /\ faultsLeft' \in 0 .. MaxFaults
  BY <1>1 DEF IInv, TypeOK
<1>5. e \in GivenUp(relay[r], e).dead
  BY <1>4 DEF GivenUp, Sent, RelayPass
<1>6. GivenUp(relay[r], e).failed = relay[r].failed
  BY <1>4, Zenon DEF GivenUp, Sent, RelayPass
<1>7. \A f \in relay[r].failed : outbox[f].attempts + 1 < MaxAttempts
  BY Zenon DEF IInv, RelayInv, PassesAreOrderly
<1>8. /\ TypeOK' /\ LocksAreExclusive' /\ PassesAreOrderly'
      /\ PublishedIsDelivered'
      /\ \A f \in Events : Accounted(f) => Accounted(f)'
  BY <1>1, <1>2, <1>3, <1>4, <1>5, <1>6, <1>7, PassStep, Zenon
<1>9. CopiesAreBounded'
  BY <1>1, <1>3, <1>8, MoreIsAccounted DEF IInv, RelayInv
<1>10. RelayInv'
  BY <1>8, <1>9 DEF RelayInv
<1> QED
  BY <1>1, <1>3, <1>8, <1>10, RelaySideStep, Zenon

\* A publish adds a copy for the row it will mark published; a failed one may
\* add a copy, and is one of the faults.
LEMMA PublishPreserves ==
    ASSUME IInv, NEW r \in Relays, NEW e \in Events,
           Publish(r, e) \/ PublishFails(r, e)
    PROVE  IInv'
<1> DEFINE passes == {Sent(relay[r], e), GivenUp(relay[r], e),
                      Rescheduled(relay[r], e)}
           extra(f) == IF Accounted(f) THEN 1 ELSE 0
<1>1. UNCHANGED <<outbox, deadLetters>> /\ RelayFrame /\ NextRow(r, e)
  BY DEF Publish, PublishFails, NoFault, Fault, handled, RelayFrame
<1>2. Send(e) \/ UNCHANGED log
  BY Zenon DEF Publish, PublishFails
<1>3. /\ TypeOK /\ relay[r] \in RelayPass
      /\ faultsLeft \in 0 .. MaxFaults /\ MaxFaults \in Nat
  BY DeliveryAssumption, Zenon DEF IInv, TypeOK, DeliveryAssumption
<1>4. LogGrows /\ log' \in [Partitions -> Seq(Events)]
  BY <1>2, <1>3, SendAppends, SameLog, Zenon DEF TypeOK
<1>5. /\ \A f \in Events \ {e} : Copies(f)' = Copies(f)
      /\ \/ Cardinality(Copies(e)') = Cardinality(Copies(e))
         \/ Cardinality(Copies(e)') = Cardinality(Copies(e)) + 1
  BY <1>2, <1>3, SendAppends, SameLog, Zenon
<1>6. \A f \in relay[r].failed : outbox[f].attempts + 1 < MaxAttempts
  BY DEF IInv, RelayInv, PassesAreOrderly
<1>7. /\ Sent(relay[r], e).failed = relay[r].failed
      /\ e \in Sent(relay[r], e).published
      /\ GivenUp(relay[r], e).failed = relay[r].failed
      /\ e \in GivenUp(relay[r], e).dead
      /\ Rescheduled(relay[r], e).published = relay[r].published
  BY <1>3, Zenon DEF Sent, GivenUp, Rescheduled, RelayPass
<1>8. e \notin relay[r].published
  BY <1>1, Zenon DEF NextRow, IInv, RelayInv, PassesAreOrderly
<1>9. PICK pass \in passes :
        /\ relay' = [relay EXCEPT ![r] = pass]
        /\ e \in pass.failed => outbox[e].attempts + 1 < MaxAttempts
        /\ e \in pass.published =>
             e \in Range(log'[PartitionOf[e]]) \/ e \in pass.dead
        /\ \/ faultsLeft' = faultsLeft - 1 /\ faultsLeft > 0
           \/ faultsLeft' = faultsLeft /\ e \in pass.published
  <2>1. CASE Publish(r, e)
    <3>1. Send(e) /\ relay' = [relay EXCEPT ![r] = Sent(relay[r], e)]
          /\ UNCHANGED faultsLeft
      BY <2>1, Zenon DEF Publish, NoFault
    <3>2. e \in Range(log'[PartitionOf[e]])
      BY <1>3, <3>1, SendAppends, Zenon
    <3> QED
      BY <1>6, <1>7, <3>1, <3>2, Zenon
  <2>2. CASE PublishFails(r, e)
    <3>1. faultsLeft' = faultsLeft - 1 /\ faultsLeft > 0
      BY <2>2, Zenon DEF PublishFails, Fault
    <3>2. CASE Exhausted(e)
      <4>1. relay' = [relay EXCEPT ![r] = GivenUp(relay[r], e)]
        BY <2>2, <3>2, Zenon DEF PublishFails
      <4> QED
        BY <1>6, <1>7, <3>1, <4>1, Zenon
    <3>3. CASE ~Exhausted(e)
      <4>1. relay' = [relay EXCEPT ![r] = Rescheduled(relay[r], e)]
        BY <2>2, <3>3, Zenon DEF PublishFails
      <4>2. outbox[e].attempts \in Nat /\ MaxAttempts \in Nat
        BY <1>3, DeliveryAssumption DEF TypeOK, OutboxRow, DeliveryAssumption
      <4>3. outbox[e].attempts + 1 < MaxAttempts
        BY <3>3, <4>2 DEF Exhausted
      <4> QED
        BY <1>7, <1>8, <3>1, <4>1, <4>3, Zenon
    <3> QED
      BY <3>2, <3>3, Zenon
  <2> QED
    BY <2>1, <2>2, Zenon
<1>10. faultsLeft' \in 0 .. MaxFaults
  BY <1>3, <1>9
<1> HIDE DEF passes
<1>11. /\ TypeOK' /\ LocksAreExclusive' /\ PassesAreOrderly'
       /\ PublishedIsDelivered'
       /\ \A f \in Events : Accounted(f) => Accounted(f)'
       /\ ~Accounted(e) /\ (e \in pass.published => Accounted(e)')
  BY <1>1, <1>4, <1>9, <1>10, PassStep DEF passes
<1>12. ASSUME NEW f \in Events
       PROVE  Cardinality(Copies(f)') <= MaxFaults - faultsLeft' + extra(f)'
  <2>1. /\ Cardinality(Copies(f)) \in Nat
        /\ Cardinality(Copies(f)) <= MaxFaults - faultsLeft + extra(f)
    BY CopiesAreFinite DEF IInv, RelayInv, CopiesAreBounded
  <2>2. faultsLeft \in Int /\ faultsLeft' \in Int /\ MaxFaults \in Int
    BY <1>3, <1>10
  <2>3. extra(f) \in {0, 1} /\ extra(f)' \in {0, 1} /\ extra(f) <= extra(f)'
    BY <1>11
  <2>4. CASE f # e
    <3>1. Copies(f)' = Copies(f)
      BY <1>5, <2>4
    <3>2. faultsLeft' <= faultsLeft
      BY <1>9, <2>2
    <3> HIDE DEF extra
    <3> QED
      BY <2>1, <2>2, <2>3, <3>1, <3>2
  <2>5. CASE f = e
    <3>1. extra(f) = 0
      BY <1>11, <2>5, Zenon
    <3>2. \/ faultsLeft' = faultsLeft - 1
          \/ faultsLeft' = faultsLeft /\ extra(f)' = 1
      BY <1>9, <1>11, <2>5, Zenon
    <3>3. \/ Cardinality(Copies(f)') = Cardinality(Copies(f))
          \/ Cardinality(Copies(f)') = Cardinality(Copies(f)) + 1
      BY <1>5, <2>5, Zenon
    <3> HIDE DEF extra
    <3> QED
      BY <2>1, <2>2, <2>3, <3>1, <3>2, <3>3
  <2> QED
    BY <2>4, <2>5
<1>13. RelayInv'
  BY <1>11, <1>12 DEF RelayInv, CopiesAreBounded
<1> QED
  BY <1>1, <1>4, <1>11, <1>13, RelaySideStep
===============================================================================
