--------------------------- MODULE Delivery_proofs ---------------------------
(***************************************************************************)
(* The remaining steps, the end of a relay's pass and the receipt of a     *)
(* message, keep the invariant; what follows for every delivery.           *)
(***************************************************************************)
EXTENDS Runners_proofs

LEMMA Backoff ==
    ASSUME NEW row \in OutboxRow
    PROVE  /\ [row EXCEPT !.due = FALSE] \in OutboxRow
           /\ [row EXCEPT !.due = FALSE].status = row.status
<1>1. [row EXCEPT !.due = FALSE] \in OutboxRow
  BY Zenon DEF OutboxRow
<1>2. [row EXCEPT !.due = FALSE].status = row.status
  BY DEF OutboxRow
<1> QED
  BY <1>1, <1>2

\* What mark_published and mark_failed make of a row.
LEMMA MarkedRows ==
    ASSUME NEW row \in OutboxRow
    PROVE  /\ MarkPublished(row) \in OutboxRow
           /\ MarkPublished(row).status = "published"
           /\ row.attempts + 1 < MaxAttempts =>
                /\ MarkFailed(row) \in OutboxRow
                /\ MarkFailed(row).status = row.status
<1>1. MaxAttempts \in Nat /\ row.attempts \in 0 .. MaxAttempts - 1
  BY DeliveryAssumption DEF OutboxRow, DeliveryAssumption
<1>2. /\ MarkPublished(row) \in OutboxRow
      /\ MarkPublished(row).status = "published"
  BY DEF MarkPublished, OutboxRow
<1>3. ASSUME row.attempts + 1 < MaxAttempts
      PROVE  /\ MarkFailed(row) \in OutboxRow
             /\ MarkFailed(row).status = row.status
  <2> DEFINE tried == [row EXCEPT !.attempts = row.attempts + 1]
  <2>1. row.attempts + 1 \in 0 .. MaxAttempts - 1
    BY <1>1, <1>3
  <2>2. tried \in OutboxRow /\ tried.status = row.status
    BY <2>1 DEF OutboxRow
  <2>3. MarkFailed(row) = [tried EXCEPT !.due = FALSE]
    BY DEF MarkFailed
  <2> HIDE DEF tried
  <2> QED
    BY <2>2, <2>3, Backoff, Zenon
<1> QED
  BY <1>2, <1>3, Zenon

\* mark_published and mark_failed write the rows of the pass, which no other
\* pass has.
LEMMA CommitPassPreserves ==
    ASSUME IInv, NEW r \in Relays, CommitPass(r)
    PROVE  IInv'
<1>1. /\ UNCHANGED <<log, faultsLeft>> /\ RelayFrame
      /\ relay' = [relay EXCEPT ![r] = IdleRelay]
      /\ deadLetters' = deadLetters \cup {<<"relay", e>> : e \in relay[r].dead}
  BY Zenon DEF CommitPass, NoFault, kafka, handled, RelayFrame
<1>2. /\ relay \in [Relays -> RelayPass] /\ outbox \in [Events -> OutboxRow]
      /\ deadLetters \subseteq {"relay", "consumer"} \X Events
  BY Zenon DEF IInv, TypeOK
<1>3. /\ relay[r].published \subseteq Events /\ relay[r].failed \subseteq Events
      /\ relay[r].dead \subseteq Events
  BY <1>2 DEF RelayPass
<1>4. \A e \in relay[r].failed : outbox[e].attempts + 1 < MaxAttempts
  <2>1. PassesAreOrderly
    BY Zenon DEF IInv, RelayInv
  <2> QED
    BY <2>1 DEF PassesAreOrderly
<1>5. /\ DOMAIN outbox' = Events
      /\ \A e \in Events : outbox'[e] =
           IF e \in relay[r].published THEN MarkPublished(outbox[e])
           ELSE IF e \in relay[r].failed THEN MarkFailed(outbox[e])
           ELSE outbox[e]
      /\ outbox' = [e \in Events |-> outbox'[e]]
  BY DEF CommitPass
<1>6. ASSUME NEW e \in Events
      PROVE  /\ outbox'[e] \in OutboxRow
             /\ e \in relay[r].published => outbox'[e].status = "published"
             /\ e \notin relay[r].published =>
                  outbox'[e].status = outbox[e].status
  <2>0. outbox[e] \in OutboxRow
    BY <1>2
  <2>1. CASE e \in relay[r].published
    BY <1>5, <2>0, <2>1, MarkedRows
  <2>2. CASE e \notin relay[r].published /\ e \in relay[r].failed
    BY <1>4, <1>5, <2>0, <2>2, MarkedRows, Zenon
  <2>3. CASE e \notin relay[r].published /\ e \notin relay[r].failed
    <3>1. outbox'[e] = outbox[e]
      BY <1>5, <2>3, Zenon
    <3> QED
      BY <2>0, <2>3, <3>1, Zenon
  <2> QED
    BY <2>1, <2>2, <2>3, Zenon
<1>7. TypeOK'
  <2>1. outbox' \in [Events -> OutboxRow]
    BY <1>5, <1>6, Zenon
  <2>2. IdleRelay \in RelayPass
    BY DEF IdleRelay, RelayPass
  <2>3. relay' \in [Relays -> RelayPass]
    BY <1>1, <1>2, <2>2, Zenon
  <2>4. deadLetters' \subseteq {"relay", "consumer"} \X Events
    BY <1>1, <1>2, <1>3
  <2>5. TypeOK
    BY Zenon DEF IInv
  <2> QED
    BY <1>1, <2>1, <2>3, <2>4, <2>5, Zenon DEF TypeOK, RelayFrame
<1>8. LogGrows /\ \A e \in Events : Copies(e)' = Copies(e)
  BY <1>1, SameLog, Zenon DEF IInv
<1>9. /\ relay'[r] = IdleRelay /\ Locked(r)' = {}
      /\ \A s \in Relays \ {r} : relay'[s] = relay[s] /\ Locked(s)' = Locked(s)
  BY <1>1, <1>2, Zenon DEF Locked, IdleRelay
<1>10. \A s \in Relays \ {r} : \A e \in Locked(s) :
         e \in Events /\ outbox'[e] = outbox[e]
  <2> SUFFICES ASSUME NEW s \in Relays \ {r}, NEW e \in Locked(s)
               PROVE  e \in Events /\ outbox'[e] = outbox[e]
    OBVIOUS
  <2>1. e \in Events
    BY <1>2 DEF Locked, RelayPass
  <2>2. e \notin Locked(r)
    BY Zenon DEF IInv, RelayInv, LocksAreExclusive
  <2> QED
    BY <1>5, <2>1, <2>2, Zenon DEF Locked
<1>11. LocksAreExclusive'
  <2>1. LocksAreExclusive
    BY Zenon DEF IInv, RelayInv
  <2> QED
    BY <1>9, <1>10, <2>1 DEF LocksAreExclusive
<1>12. PassesAreOrderly'
  <2>1. PassesAreOrderly
    BY Zenon DEF IInv, RelayInv
  <2>2. \A s \in Relays \ {r} : \A e \in relay[s].failed : outbox'[e] = outbox[e]
    BY <1>10, Zenon DEF Locked
  <2> QED
    BY <1>1, <1>9, <2>1, <2>2 DEF PassesAreOrderly, IdleRelay
<1>13. PublishedIsDelivered'
  <2> SUFFICES ASSUME NEW e \in Events, outbox'[e].status = "published"
               PROVE  \/ e \in Range(log[PartitionOf[e]])
                      \/ <<"relay", e>> \in deadLetters'
    BY <1>1, Zenon DEF PublishedIsDelivered
  <2>1. CASE e \in relay[r].published
    <3>1. e \in Range(log[PartitionOf[e]]) \/ e \in relay[r].dead
      BY <2>1, Zenon DEF IInv, RelayInv, PassesAreOrderly
    <3> QED
      BY <1>1, <3>1
  <2>2. CASE e \notin relay[r].published
    <3>1. outbox[e].status = "published"
      BY <1>6, <2>2
    <3> QED
      BY <1>1, <3>1, Zenon DEF IInv, RelayInv, PublishedIsDelivered
  <2> QED
    BY <2>1, <2>2
<1>14. \A e \in Events : Accounted(e) => Accounted(e)'
  BY <1>6, <1>9, Zenon DEF Accounted
<1>15. CopiesAreBounded'
  BY <1>1, <1>8, <1>14, MoreIsAccounted, Zenon DEF IInv, RelayInv
<1>16. RelayInv'
  BY <1>11, <1>12, <1>13, <1>15, Zenon DEF RelayInv
<1>17. deadLetters \subseteq deadLetters'
  BY <1>1
<1> QED
  BY <1>1, <1>7, <1>8, <1>16, <1>17, RelaySideStep, Zenon

\* A pass that dies frees its locks; the copies it published are now without a
\* row to account for them, and its death is a fault.
LEMMA RelayCrashPreserves ==
    ASSUME IInv, NEW r \in Relays, RelayCrash(r)
    PROVE  IInv'
<1>1. /\ UNCHANGED <<outbox, log, deadLetters>> /\ RelayFrame
      /\ relay' = [relay EXCEPT ![r] = IdleRelay]
      /\ faultsLeft > 0 /\ faultsLeft' = faultsLeft - 1
  BY Zenon DEF RelayCrash, Fault, kafka, handled, RelayFrame
<1>2. /\ relay \in [Relays -> RelayPass] /\ MaxFaults \in Nat
      /\ faultsLeft \in 0 .. MaxFaults
  BY DeliveryAssumption, Zenon DEF IInv, TypeOK, DeliveryAssumption
<1>3. faultsLeft' \in 0 .. MaxFaults
  BY <1>1, <1>2
<1>4. TypeOK'
  <2>1. IdleRelay \in RelayPass
    BY DEF IdleRelay, RelayPass
  <2>2. relay' \in [Relays -> RelayPass]
    BY <1>1, <1>2, <2>1, Zenon
  <2> QED
    BY <1>1, <1>3, <2>2, Zenon DEF IInv, TypeOK, RelayFrame
<1>5. LogGrows /\ \A e \in Events : Copies(e)' = Copies(e)
  BY <1>1, SameLog, Zenon DEF IInv
<1>6. /\ relay'[r] = IdleRelay /\ Locked(r)' = {}
      /\ \A s \in Relays \ {r} : relay'[s] = relay[s] /\ Locked(s)' = Locked(s)
  BY <1>1, <1>2, Zenon DEF Locked, IdleRelay
<1>7. LocksAreExclusive' /\ PassesAreOrderly'
  <2>1. LocksAreExclusive /\ PassesAreOrderly
    BY Zenon DEF IInv, RelayInv
  <2>2. LocksAreExclusive'
    BY <1>1, <1>6, <2>1 DEF LocksAreExclusive
  <2>3. PassesAreOrderly'
    BY <1>1, <1>6, <2>1 DEF PassesAreOrderly, IdleRelay
  <2> QED
    BY <2>2, <2>3, Zenon
<1>8. PublishedIsDelivered'
  BY <1>1, Zenon DEF IInv, RelayInv, PublishedIsDelivered
<1>9. CopiesAreBounded'
  <2> SUFFICES ASSUME NEW e \in Events
               PROVE  Cardinality(Copies(e))
                        <= MaxFaults - faultsLeft'
                             + (IF Accounted(e)' THEN 1 ELSE 0)
    BY <1>5, Zenon DEF CopiesAreBounded
  <2>1. /\ Cardinality(Copies(e)) \in Nat
        /\ Cardinality(Copies(e))
             <= MaxFaults - faultsLeft + (IF Accounted(e) THEN 1 ELSE 0)
    BY CopiesAreFinite, Zenon DEF IInv, RelayInv, CopiesAreBounded
  <2>2. Cardinality(Copies(e)) <= MaxFaults - faultsLeft'
    BY <1>1, <1>2, <2>1
  <2> QED
    BY <1>2, <1>3, <2>1, <2>2
<1>10. RelayInv'
  BY <1>7, <1>8, <1>9, Zenon DEF RelayInv
<1> QED
  BY <1>1, <1>4, <1>5, <1>10, RelaySideStep, Zenon

\* Every step of a relay keeps the invariant.
LEMMA RelayStepPreserves ==
    ASSUME IInv, NEW r \in Relays, RelayStep(r)
    PROVE  IInv'
  BY ClaimBatchPreserves, CommitPassPreserves, RelayCrashPreserves,
     DeadLetterMalformedPreserves, PublishPreserves, Zenon DEF RelayStep

(***************************************************************************)
(* The receipt of a message.                                               *)
(***************************************************************************)

\* Its owner is idle, so whatever it fetched before is settled.
LEMMA ReceivePreserves ==
    ASSUME IInv, NEW c \in Consumers, NEW q \in Partitions, Receive(c, q)
    PROVE  IInv'
<1>1. /\ ~Busy(c) /\ owner[q] = c /\ position[q] < Len(log[q])
      /\ position' = [position EXCEPT ![q] = @ + 1]
      /\ UNCHANGED <<outbox, relay, log, owner, committed, processed, effects,
                     deadLetters, left, faultsLeft>>
  BY DEF Receive, handled, NoFault, Busy
<1>2. GroupGrows
  BY <1>1, Zenon DEF GroupGrows
<1>3. /\ consumer \in [Consumers -> Runner] /\ RunnersAreOrderly
      /\ OffsetsAreOrderly /\ owner \in [Partitions -> Consumers]
      /\ committed \in [Partitions -> Nat] /\ position \in [Partitions -> Nat]
      /\ log[q] \in Seq(Events)
  BY DEF IInv, TypeOK, GroupInv
<1>4. PICK n \in 1 .. Len(log[q]) : n = position[q] + 1 /\ n \in Nat
  BY <1>1, <1>3
<1>5. PICK run \in Runner :
        run = [pc |-> "check", message |-> <<q, n>>, attempt |-> 0]
  <2>1. <<q, n>> \in (Partitions \X Nat) \cup {NoMessage}
    BY <1>4
  <2>2. 0 \in 0 .. MaxAttempts
    BY DeliveryAssumption DEF DeliveryAssumption
  <2> QED
    BY <2>1, <2>2, Zenon DEF Runner
<1>6. run.pc = "check" /\ run.message = <<q, n>> /\ run.attempt = 0
  BY <1>5
<1>7. consumer' = [consumer EXCEPT ![c] = run]
  BY <1>4, <1>5, Zenon DEF Receive
<1>8. /\ consumer'[c] = run
      /\ \A d \in Consumers \ {c} : consumer'[d] = consumer[d]
  BY <1>3, <1>7, Zenon
<1>9. Busy(c)' /\ ~At(c, "commit")' /\ ~At(c, "handle")'
  BY <1>6, <1>8, Zenon DEF Busy, At
<1>10. /\ \A p \in Partitions : owner[p] = c =>
            \A k \in 1 .. position[p] : Settled(p, k)'
       /\ \A k \in 1 .. n - 1 : Settled(q, k)'
  <2>1. \A p \in Partitions : owner[p] = c =>
          \A k \in 1 .. position[p] : Settled(p, k)'
    BY <1>1, <1>2, <1>3, SettledStays, Zenon DEF OffsetsAreOrderly
  <2>2. n - 1 = position[q]
    BY <1>3, <1>4
  <2> QED
    BY <1>1, <2>1, <2>2, Zenon
<1>11. RunnersAreOrderly'
  <2> SUFFICES ASSUME NEW d \in Consumers PROVE Orderly(d)'
    BY Zenon DEF RunnersAreOrderly, Orderly
  <2>1. CASE d = c
    <3>1. consumer'[d].message = <<q, n>> /\ consumer'[d].attempt = 0
      BY <1>6, <1>8, <2>1, Zenon
    <3>2. n \in 1 .. Len(log'[q])
      BY <1>1, <1>4, Zenon
    <3> QED
      BY <1>9, <1>10, <2>1, <3>1, <3>2, Zenon DEF Orderly
  <2>2. CASE d # c
    <3>1. consumer'[d] = consumer[d] /\ Orderly(d)
      BY <1>3, <1>8, <2>2, Zenon DEF RunnersAreOrderly, Orderly
    <3> QED
      BY <1>2, <3>1, IdleBystander, Zenon
  <2> QED
    BY <2>1, <2>2, Zenon
<1>12. OffsetsAreOrderly'
  <2> SUFFICES ASSUME NEW p \in Partitions
               PROVE  /\ committed[p] <= Len(log[p])
                      /\ position'[p] <= Len(log[p])
                      /\ \A k \in 1 .. committed[p] : Settled(p, k)'
                      /\ \A k \in 1 .. position'[p] :
                           \/ Settled(p, k)'
                           \/ /\ k = position'[p] /\ Busy(owner[p])'
                              /\ consumer'[owner[p]].message = <<p, k>>
    BY <1>1 DEF OffsetsAreOrderly
  <2>1. /\ committed[p] <= Len(log[p]) /\ position[p] <= Len(log[p])
        /\ \A k \in 1 .. committed[p] : Settled(p, k)
        /\ \A k \in 1 .. position[p] :
             \/ Settled(p, k)
             \/ /\ k = position[p] /\ Busy(owner[p])
                /\ consumer[owner[p]].message = <<p, k>>
    BY <1>3, Zenon DEF OffsetsAreOrderly
  <2>2. CASE p = q
    <3>1. position'[p] = n
      BY <1>1, <1>3, <1>4, <2>2, Zenon
    <3>2. n <= Len(log[q]) /\ \A k \in 1 .. n : k = n \/ k \in 1 .. n - 1
      BY <1>3, <1>4
    <3>3. consumer'[owner[p]].message = <<p, n>> /\ Busy(owner[p])'
      BY <1>1, <1>6, <1>8, <1>9, <2>2, Zenon
    <3> QED
      BY <1>2, <1>10, <2>1, <2>2, <3>1, <3>2, <3>3, SettledStays, Zenon
  <2>3. CASE p # q
    <3>1. position'[p] = position[p]
      BY <1>1, <1>3, <2>3, Zenon
    <3>2. CASE owner[p] = c
      BY <1>2, <1>10, <2>1, <3>1, <3>2, SettledStays, Zenon
    <3>3. CASE owner[p] # c
      <4>1. consumer'[owner[p]] = consumer[owner[p]]
        BY <1>3, <1>8, <3>3, Zenon
      <4>2. Busy(owner[p])' = Busy(owner[p])
        BY <1>1, <4>1, Zenon DEF Busy, At
      <4> QED
        BY <1>2, <2>1, <3>1, <4>1, <4>2, SettledStays, Zenon
    <3> QED
      BY <3>2, <3>3, Zenon
  <2> QED
    BY <2>2, <2>3, Zenon
<1>13. /\ position' \in [Partitions -> Nat] /\ consumer' \in [Consumers -> Runner]
       /\ ClaimIsEffect'
  BY <1>1, <1>3, <1>7, GroupTypes DEF ClaimIsEffect
<1>14. TypeOK'
  BY <1>1, <1>13, Zenon DEF IInv, TypeOK
<1> QED
  BY <1>1, <1>2, <1>11, <1>12, <1>13, <1>14, GroupSideStep DEF GroupInv

(***************************************************************************)
(* The invariant, and what follows from it.                                *)
(***************************************************************************)

LEMMA ConsumerStepPreserves ==
    ASSUME IInv, NEW c \in Consumers, ConsumerStep(c)
    PROVE  IInv'
  BY CheckPreserves, HandlePreserves, HandleRejectedPreserves,
     HandleErrPreserves, DeadLetterPreserves, LeaveUncommittedPreserves,
     CommitMessagePreserves, CrashPreserves, ReceivePreserves, Zenon
     DEF ConsumerStep

LEMMA InitEstablishes ==
    ASSUME Init
    PROVE  IInv
<1>1. /\ MaxAttempts \in Nat \ {0} /\ MaxFaults \in Nat
      /\ PartitionOf \in [Events -> Partitions]
  BY DeliveryAssumption, Zenon DEF DeliveryAssumption
<1>2. outbox \in [Events -> OutboxRow]
  <2>1. Absent \in OutboxRow
    <3>1. 0 \in 0 .. MaxAttempts - 1
      BY <1>1
    <3> QED
      BY <3>1, Zenon DEF Absent, OutboxRow, AllClasses
  <2> QED
    BY <2>1, Zenon DEF Init
<1>3. relay \in [Relays -> RelayPass]
  <2>1. IdleRelay \in RelayPass
    BY DEF IdleRelay, RelayPass
  <2> QED
    BY <2>1, Zenon DEF Init
<1>4. consumer \in [Consumers -> Runner]
  <2>1. IdleConsumer \in Runner
    BY <1>1 DEF IdleConsumer, Runner
  <2> QED
    BY <2>1, Zenon DEF Init
<1>5. /\ log \in [Partitions -> Seq(Events)]
      /\ position \in [Partitions -> Nat] /\ committed \in [Partitions -> Nat]
      /\ effects \in [Events -> Nat]
      /\ \A p \in Partitions :
           log[p] = <<>> /\ position[p] = 0 /\ committed[p] = 0
  BY DEF Init
<1>6. faultsLeft \in 0 .. MaxFaults
  BY <1>1 DEF Init
<1>7. TypeOK
  BY <1>2, <1>3, <1>4, <1>5, <1>6, Zenon DEF Init, TypeOK
<1>8. \A e \in Events : outbox[e].status = "absent"
  BY DEF Init, Absent
<1>9. \A r \in Relays :
        /\ relay[r].todo = {} /\ relay[r].published = {} /\ relay[r].failed = {}
        /\ Locked(r) = {}
  BY DEF Init, IdleRelay, Locked
<1>10. CopiesAreBounded
  <2> SUFFICES ASSUME NEW e \in Events
               PROVE  Cardinality(Copies(e)) <= (MaxFaults - faultsLeft) + 0
    BY <1>8, <1>9 DEF CopiesAreBounded, Accounted
  <2>1. log[PartitionOf[e]] = <<>>
    BY <1>1, <1>5, Zenon
  <2>2. Copies(e) = {}
    BY <2>1 DEF Copies
  <2>3. Cardinality(Copies(e)) = 0
    BY <2>2, FS_EmptySet, Zenon
  <2> QED
    BY <1>1, <2>3 DEF Init
<1>11. LocksAreExclusive /\ PassesAreOrderly /\ PublishedIsDelivered
  BY <1>8, <1>9, Zenon
     DEF LocksAreExclusive, PassesAreOrderly, PublishedIsDelivered
<1>12. ClaimIsEffect
  BY Zenon DEF Init, ClaimIsEffect
<1>13. \A c \in Consumers : consumer[c].pc = "idle"
  BY Zenon DEF Init, IdleConsumer
<1>14. RunnersAreOrderly
  BY <1>13, Zenon DEF RunnersAreOrderly, Busy, At
<1>15. OffsetsAreOrderly
  BY <1>5 DEF OffsetsAreOrderly
<1> QED
  BY <1>7, <1>10, <1>11, <1>12, <1>14, <1>15, Zenon
     DEF IInv, RelayInv, GroupInv

\* A step that changes nothing keeps everything.
LEMMA StutterPreserves ==
    ASSUME IInv, UNCHANGED vars
    PROVE  IInv'
<1>1. GroupGrows /\ UNCHANGED faultsLeft
  BY Zenon DEF vars, kafka, handled, GroupGrows
<1>2. TypeOK'
  BY Zenon DEF vars, kafka, handled, IInv, TypeOK
<1>3. ClaimIsEffect' /\ OffsetsAreOrderly' /\ RunnersAreOrderly'
  BY DEF vars, kafka, handled, IInv, GroupInv, ClaimIsEffect,
         OffsetsAreOrderly, RunnersAreOrderly, Settled, Handled, Busy, At
<1> QED
  BY <1>1, <1>2, <1>3, GroupSideStep, Zenon DEF GroupInv

\* Every step of the relays, of the runners and of the group keeps IInv.
LEMMA NextPreserves ==
    ASSUME IInv, [Next]_vars
    PROVE  IInv'
<1>1. CASE UNCHANGED vars
  BY <1>1, StutterPreserves, Zenon
<1>2. CASE Next
  <2>1. ASSUME NEW e \in Events,
               \/ Elapse(e)
               \/ \E class \in ClassesOf[e] : Enqueue(e, class)
        PROVE  IInv'
    BY <2>1, RowPreserves, Zenon
  <2>2. ASSUME NEW r \in Relays, RelayStep(r) PROVE IInv'
    BY <2>2, RelayStepPreserves
  <2>3. ASSUME NEW c \in Consumers, ConsumerStep(c) PROVE IInv'
    BY <2>3, ConsumerStepPreserves, Zenon
  <2>4. ASSUME NEW p \in Partitions, NEW c \in Consumers, Rebalance(p, c)
        PROVE  IInv'
    BY <2>4, RebalancePreserves
  <2> QED
    BY <1>2, <2>1, <2>2, <2>3, <2>4, Zenon DEF Next
<1> QED
  BY <1>1, <1>2

(***************************************************************************)
(* The invariant holds in every state of every instance: rows, passes and  *)
(* runners have their types, a row is in one pass at a time, and a         *)
(* partition is settled up to what its owner works on (run_once of the     *)
(* relay, run and process of the runner).                                  *)
(***************************************************************************)
THEOREM Invariance == Spec => []IInv
<1>1. Init => IInv
  BY InitEstablishes
<1>2. IInv /\ [Next]_vars => IInv'
  BY NextPreserves
<1> QED
  BY <1>1, <1>2, PTL DEF Spec

(***************************************************************************)
(* run_once drops no event: whatever fails or crashes inside its           *)
(* transaction, a row marked published is in its partition's log or in     *)
(* dead_letters.                                                           *)
(***************************************************************************)
THEOREM NothingIsDropped == Spec => []PublishedIsDelivered
<1>1. IInv => PublishedIsDelivered
  BY Zenon DEF IInv, RelayInv
<1> QED
  BY <1>1, Invariance, PTL

(***************************************************************************)
(* FOR UPDATE SKIP LOCKED keeps concurrent relays apart: beyond one copy   *)
(* of an event in the log, each further copy cost a failed publish or a    *)
(* relay that died.                                                        *)
(***************************************************************************)
THEOREM RelaysDuplicateOnlyOnFaults == Spec => []DuplicatesNeedFaults
<1>1. ASSUME IInv PROVE DuplicatesNeedFaults
  <2> SUFFICES ASSUME NEW e \in Events
               PROVE  Cardinality(Copies(e)) <= 1 + (MaxFaults - faultsLeft)
    BY Zenon DEF DuplicatesNeedFaults, Copies
  <2>1. Cardinality(Copies(e))
          <= (MaxFaults - faultsLeft) + (IF Accounted(e) THEN 1 ELSE 0)
    BY <1>1, Zenon DEF IInv, RelayInv, CopiesAreBounded
  <2>2. Cardinality(Copies(e)) \in Nat
    BY <1>1, CopiesAreFinite, Zenon DEF IInv
  <2>3. faultsLeft \in Int /\ MaxFaults \in Int
    BY <1>1, DeliveryAssumption DEF IInv, TypeOK, DeliveryAssumption
  <2> QED
    BY <2>1, <2>2, <2>3
<1> QED
  BY <1>1, Invariance, PTL

(***************************************************************************)
(* handle_once has exactly-once effects: an event's effect is committed    *)
(* once if its claim is and never otherwise, however often the event is    *)
(* delivered and to whichever runners.                                     *)
(***************************************************************************)
THEOREM EffectsAreOnce == Spec => []ClaimIsEffect
<1>1. IInv => ClaimIsEffect
  BY Zenon DEF IInv, GroupInv
<1> QED
  BY <1>1, Invariance, PTL

(***************************************************************************)
(* The manual commits of run: behind the committed offset every message    *)
(* took effect, is in dead_letters or was left by a runner that could not  *)
(* even dead-letter it; crashes, rebalances and lost replies skip nothing. *)
(***************************************************************************)
THEOREM CommitsSkipNothing == Spec => []CommittedIsHandledOrLeft
<1>1. IInv => CommittedIsHandledOrLeft
  BY Zenon DEF IInv, GroupInv, OffsetsAreOrderly, CommittedIsHandledOrLeft,
               Settled
<1> QED
  BY <1>1, Invariance, PTL
===============================================================================
