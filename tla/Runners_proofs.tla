---------------------------- MODULE Runners_proofs ----------------------------
(***************************************************************************)
(* Proofs about the steps of the consumer runners and of their group: each *)
(* keeps the invariant of Outbox_proofs.                                   *)
(***************************************************************************)
EXTENDS Outbox_proofs

\* What is handled, dead-lettered or left stays so, and the log is not touched.
GroupGrows ==
    /\ UNCHANGED <<outbox, relay, log>>
    /\ processed \subseteq processed' /\ deadLetters \subseteq deadLetters'
    /\ left \subseteq left'

\* A step of the group that keeps the types and the group's invariant keeps
\* everything.
LEMMA GroupSideStep ==
    ASSUME IInv, GroupGrows, TypeOK', GroupInv',
           faultsLeft' = faultsLeft \/ faultsLeft' = faultsLeft - 1
    PROVE  IInv'
<1>1. faultsLeft' \in 0 .. MaxFaults /\ faultsLeft \in 0 .. MaxFaults
  BY Zenon DEF IInv, TypeOK
<1>2. MaxFaults \in Nat
  BY DeliveryAssumption DEF DeliveryAssumption
<1>3. faultsLeft' <= faultsLeft
  BY <1>1, <1>2
<1>4. RelayInv'
  BY <1>1, <1>3, GroupKeepsRelayInv, Zenon DEF IInv, GroupGrows
<1> QED
  BY <1>4, Zenon DEF IInv

LEMMA SettledStays ==
    ASSUME GroupGrows
    PROVE  /\ \A e : Handled(e) => Handled(e)'
           /\ \A p, k : Settled(p, k) => Settled(p, k)'
  BY DEF GroupGrows, Handled, Settled

\* The message a runner works on.
LEMMA WorksOn ==
    ASSUME IInv, NEW c \in Consumers, Busy(c)
    PROVE  \E p \in Partitions : \E k \in 1 .. Len(log[p]) :
             /\ consumer[c].message = <<p, k>>
             /\ EventOf(c) = log[p][k] /\ EventOf(c) \in Events
             /\ \A j \in 1 .. k - 1 : Settled(p, j)
             /\ At(c, "commit") => Handled(log[p][k])
<1>1. PICK p \in Partitions : \E k \in 1 .. Len(log[p]) :
        /\ consumer[c].message = <<p, k>>
        /\ \A j \in 1 .. k - 1 : Settled(p, j)
        /\ At(c, "commit") => Handled(log[p][k])
  BY Zenon DEF IInv, GroupInv, RunnersAreOrderly
<1>2. PICK k \in 1 .. Len(log[p]) :
        /\ consumer[c].message = <<p, k>>
        /\ \A j \in 1 .. k - 1 : Settled(p, j)
        /\ At(c, "commit") => Handled(log[p][k])
  BY <1>1
<1>3. EventOf(c) = log[p][k]
  BY <1>2 DEF EventOf
<1>4. log[p] \in Seq(Events)
  BY DEF IInv, TypeOK
<1>5. log[p][k] \in Events
  BY <1>4
<1> QED
  BY <1>2, <1>3, <1>5

\* What RunnersAreOrderly says of one runner.
Orderly(d) ==
    /\ Busy(d) =>
         \E p \in Partitions : \E k \in 1 .. Len(log[p]) :
            /\ consumer[d].message = <<p, k>>
            /\ \A j \in 1 .. k - 1 : Settled(p, j)
            /\ At(d, "commit") => Handled(log[p][k])
    /\ At(d, "check") => consumer[d].attempt = 0
    /\ At(d, "handle") => consumer[d].attempt < MaxAttempts

\* A runner that does not move stays in order.
LEMMA IdleBystander ==
    ASSUME GroupGrows, NEW d, Orderly(d), consumer'[d] = consumer[d]
    PROVE  Orderly(d)'
<1>1. \A pc : At(d, pc)' = At(d, pc)
  BY Zenon DEF At
<1>2. UNCHANGED log
  BY Zenon DEF GroupGrows
<1>3. ASSUME Busy(d)
      PROVE  \E p \in Partitions : \E k \in 1 .. Len(log[p]) :
               /\ consumer[d].message = <<p, k>>
               /\ \A j \in 1 .. k - 1 : Settled(p, j)'
               /\ At(d, "commit") => Handled(log[p][k])'
  BY <1>2, <1>3, SettledStays, Zenon DEF Orderly
<1> QED
  BY <1>1, <1>2, <1>3, Zenon DEF Orderly, Busy, At

\* A runner that goes on with its message: it may be ready to commit only if
\* the message is handled by then.
LEMMA RunnerGoesOn ==
    ASSUME IInv, GroupGrows, UNCHANGED <<owner, position, committed>>,
           NEW c \in Consumers, Busy(c), NEW run \in Runner,
           consumer' = [consumer EXCEPT ![c] = run],
           run.message = consumer[c].message, run.pc # "idle",
           run.pc = "commit" => Handled(EventOf(c))',
           run.pc = "check" => run.attempt = 0,
           run.pc = "handle" => run.attempt < MaxAttempts
    PROVE  RunnersAreOrderly' /\ OffsetsAreOrderly'
<1>1. /\ consumer \in [Consumers -> Runner] /\ RunnersAreOrderly
      /\ OffsetsAreOrderly /\ owner \in [Partitions -> Consumers]
  BY Zenon DEF IInv, TypeOK, GroupInv
<1>2. /\ consumer'[c] = run
      /\ \A d \in Consumers \ {c} : consumer'[d] = consumer[d]
  BY <1>1
<1>3. /\ \A d \in Consumers : Busy(d)' = Busy(d)
      /\ \A d \in Consumers : consumer'[d].message = consumer[d].message
  BY <1>2 DEF Busy, At
<1>4. UNCHANGED log
  BY DEF GroupGrows
<1>5. OffsetsAreOrderly'
  <2> SUFFICES ASSUME NEW p \in Partitions
               PROVE  /\ committed[p] <= Len(log[p])
                      /\ position[p] <= Len(log[p])
                      /\ \A k \in 1 .. committed[p] : Settled(p, k)'
                      /\ \A k \in 1 .. position[p] :
                           \/ Settled(p, k)'
                           \/ /\ k = position[p] /\ Busy(owner[p])'
                              /\ consumer'[owner[p]].message = <<p, k>>
    BY <1>4 DEF OffsetsAreOrderly
  <2>1. owner[p] \in Consumers
    BY <1>1
  <2>2. Busy(owner[p])' = Busy(owner[p])
    BY <1>3, <2>1, Zenon DEF Busy, At
  <2>3. /\ committed[p] <= Len(log[p]) /\ position[p] <= Len(log[p])
        /\ \A k \in 1 .. committed[p] : Settled(p, k)
        /\ \A k \in 1 .. position[p] :
             \/ Settled(p, k)
             \/ /\ k = position[p] /\ Busy(owner[p])
                /\ consumer[owner[p]].message = <<p, k>>
    BY <1>1, Zenon DEF OffsetsAreOrderly
  <2>4. consumer'[owner[p]].message = consumer[owner[p]].message
    BY <1>3, <2>1
  <2> QED
    BY <2>2, <2>3, <2>4, SettledStays, Zenon
<1>6. RunnersAreOrderly'
  <2> SUFFICES ASSUME NEW d \in Consumers PROVE Orderly(d)'
    BY Zenon DEF RunnersAreOrderly, Orderly
  <2>1. CASE d = c
    <3>1. PICK p \in Partitions : \E k \in 1 .. Len(log[p]) :
            /\ consumer[c].message = <<p, k>>
            /\ EventOf(c) = log[p][k]
            /\ \A j \in 1 .. k - 1 : Settled(p, j)
      BY WorksOn
    <3>2. PICK k \in 1 .. Len(log[p]) :
            /\ consumer[c].message = <<p, k>>
            /\ EventOf(c) = log[p][k]
            /\ \A j \in 1 .. k - 1 : Settled(p, j)
      BY <3>1
    <3>3. EventOf(c)' = log[p][k]
      BY <1>2, <1>4, <3>2, Zenon DEF EventOf
    <3>4. At(c, "commit")' => Handled(log[p][k])'
      BY <1>2, <1>4, <3>3, Zenon DEF At, Handled
    <3>5. \A j \in 1 .. k - 1 : Settled(p, j)'
      BY <3>2, SettledStays
    <3> QED
      BY <1>2, <1>4, <2>1, <3>2, <3>4, <3>5, Zenon DEF At, Orderly
  <2>2. CASE d # c
    <3>1. consumer'[d] = consumer[d] /\ Orderly(d)
      BY <1>1, <1>2, <2>2, Zenon DEF RunnersAreOrderly, Orderly
    <3> QED
      BY <3>1, IdleBystander
  <2> QED
    BY <2>1, <2>2
<1> QED
  BY <1>5, <1>6

\* A runner that goes back to receiving leaves the others in order.
LEMMA OthersGoOn ==
    ASSUME RunnersAreOrderly, GroupGrows, NEW c \in Consumers,
           consumer'[c] = IdleConsumer,
           \A d \in Consumers \ {c} : consumer'[d] = consumer[d]
    PROVE  RunnersAreOrderly'
<1> SUFFICES ASSUME NEW d \in Consumers PROVE Orderly(d)'
  BY Zenon DEF RunnersAreOrderly, Orderly
<1>1. CASE d = c
  BY <1>1 DEF Orderly, Busy, At, IdleConsumer
<1>2. CASE d # c
  <2>1. consumer'[d] = consumer[d] /\ Orderly(d)
    BY <1>2, Zenon DEF RunnersAreOrderly, Orderly
  <2> QED
    BY <2>1, IdleBystander
<1> QED
  BY <1>1, <1>2

\* A runner that is done with its message: the message is settled, and if its
\* offset is committed then so is everything before it.
LEMMA RunnerFinishes ==
    ASSUME IInv, GroupGrows, UNCHANGED <<owner, position>>,
           NEW c \in Consumers, Busy(c), Finish(c),
           NEW p \in Partitions, NEW k \in 1 .. Len(log[p]),
           consumer[c].message = <<p, k>>, Settled(p, k)',
           \A j \in 1 .. k - 1 : Settled(p, j),
           \/ UNCHANGED committed
           \/ committed' = [committed EXCEPT ![p] = k]
    PROVE  RunnersAreOrderly' /\ OffsetsAreOrderly'
<1>1. /\ consumer \in [Consumers -> Runner] /\ RunnersAreOrderly
      /\ OffsetsAreOrderly /\ owner \in [Partitions -> Consumers]
      /\ committed \in [Partitions -> Nat] /\ position \in [Partitions -> Nat]
      /\ Len(log[p]) \in Nat
  BY DEF IInv, TypeOK, GroupInv
<1>2. /\ consumer'[c] = IdleConsumer
      /\ \A d \in Consumers \ {c} : consumer'[d] = consumer[d]
  BY <1>1 DEF Finish
<1>3. UNCHANGED log
  BY Zenon DEF GroupGrows
<1>4. RunnersAreOrderly'
  BY <1>1, <1>2, OthersGoOn, Zenon
<1>5. OffsetsAreOrderly'
  <2> SUFFICES ASSUME NEW q \in Partitions
               PROVE  /\ committed'[q] <= Len(log[q])
                      /\ position[q] <= Len(log[q])
                      /\ \A j \in 1 .. committed'[q] : Settled(q, j)'
                      /\ \A j \in 1 .. position[q] :
                           \/ Settled(q, j)'
                           \/ /\ j = position[q] /\ Busy(owner[q])'
                              /\ consumer'[owner[q]].message = <<q, j>>
    BY <1>3, Zenon DEF OffsetsAreOrderly
  <2>1. /\ committed[q] <= Len(log[q]) /\ position[q] <= Len(log[q])
        /\ \A j \in 1 .. committed[q] : Settled(q, j)
    BY <1>1, Zenon DEF OffsetsAreOrderly
  <2>2. committed'[q] <= Len(log[q]) /\ \A j \in 1 .. committed'[q] : Settled(q, j)'
    <3>1. CASE committed'[q] = committed[q]
      BY <2>1, <3>1, SettledStays, Zenon
    <3>2. CASE q = p /\ committed'[q] = k
      <4>1. \A j \in 1 .. k : j = k \/ j \in 1 .. k - 1
        BY <1>1
      <4>2. \A j \in 1 .. k : Settled(p, j)'
        BY <4>1, SettledStays, Zenon
      <4>3. k <= Len(log[p])
        BY <1>1
      <4> QED
        BY <3>2, <4>2, <4>3, Zenon
    <3> QED
      BY <1>1, <3>1, <3>2, Zenon
  <2>3. ASSUME NEW j \in 1 .. position[q]
        PROVE  \/ Settled(q, j)'
               \/ /\ j = position[q] /\ Busy(owner[q])'
                  /\ consumer'[owner[q]].message = <<q, j>>
    <3>1. CASE Settled(q, j)
      BY <3>1, SettledStays, Zenon
    <3>2. CASE /\ j = position[q] /\ Busy(owner[q])
               /\ consumer[owner[q]].message = <<q, j>>
      <4>1. CASE owner[q] = c
        <5>1. q = p /\ j = k
          BY <3>2, <4>1
        <5> QED
          BY <5>1, Zenon
      <4>2. CASE owner[q] # c
        <5>1. consumer'[owner[q]] = consumer[owner[q]]
          BY <1>1, <1>2, <4>2, Zenon
        <5>2. Busy(owner[q])'
          BY <3>2, <5>1, Zenon DEF Busy, At
        <5> QED
          BY <3>2, <5>1, <5>2, Zenon
      <4> QED
        BY <4>1, <4>2, Zenon
    <3> QED
      BY <1>1, <3>1, <3>2, Zenon DEF OffsetsAreOrderly
  <2> QED
    BY <2>1, <2>2, <2>3, Zenon
<1> QED
  BY <1>4, <1>5, Zenon

\* What the group's steps may change has its type.
LEMMA GroupTypes ==
    ASSUME IInv
    PROVE  /\ ClaimIsEffect /\ processed \subseteq Events
           /\ effects \in [Events -> Nat] /\ left \subseteq Events
           /\ deadLetters \subseteq {"relay", "consumer"} \X Events
           /\ faultsLeft \in 0 .. MaxFaults
  BY Zenon DEF IInv, GroupInv, TypeOK

\* What a step of a runner that goes on with its message leaves alone.
LEMMA RunnerTypes ==
    ASSUME IInv, GroupGrows, UNCHANGED <<owner, position, committed>>,
           consumer' \in [Consumers -> Runner], left' \subseteq Events,
           faultsLeft' \in 0 .. MaxFaults,
           processed' \subseteq Events, effects' \in [Events -> Nat],
           deadLetters' \subseteq {"relay", "consumer"} \X Events
    PROVE  TypeOK'
  BY Zenon DEF IInv, TypeOK, GroupGrows

\* handle_once: the claim and the effect are one.
LEMMA ApplyClaims ==
    ASSUME TypeOK, ClaimIsEffect, NEW e \in Events, Apply(e)
    PROVE  /\ ClaimIsEffect' /\ processed' = processed \cup {e}
           /\ processed' \subseteq Events /\ effects' \in [Events -> Nat]
<1>1. processed \subseteq Events /\ effects \in [Events -> Nat]
  BY Zenon DEF TypeOK
<1>2. CASE e \in processed
  BY <1>1, <1>2, Zenon DEF Apply, handled, ClaimIsEffect
<1>3. CASE e \notin processed
  <2>1. /\ processed' = processed \cup {e}
        /\ effects' = [effects EXCEPT ![e] = @ + 1]
    BY <1>3, Zenon DEF Apply
  <2>2. effects[e] = 0
    BY <1>3 DEF ClaimIsEffect
  <2>3. effects'[e] = 1 /\ \A f \in Events \ {e} : effects'[f] = effects[f]
    BY <1>1, <2>1, <2>2
  <2>4. effects' \in [Events -> Nat]
    BY <1>1, <2>1, <2>2
  <2>5. \A f \in Events : effects'[f] = IF f \in processed' THEN 1 ELSE 0
    BY <2>1, <2>3, Zenon DEF ClaimIsEffect
  <2> QED
    BY <1>1, <2>1, <2>4, <2>5, Zenon DEF ClaimIsEffect
<1> QED
  BY <1>2, <1>3, Zenon

\* A fault is one of those left.
LEMMA FaultSpends ==
    ASSUME faultsLeft \in 0 .. MaxFaults, faultsLeft > 0,
           faultsLeft' = faultsLeft - 1
    PROVE  faultsLeft' \in 0 .. MaxFaults
  BY DeliveryAssumption DEF DeliveryAssumption

\* The fields of a runner.
LEMMA RunnerFields ==
    ASSUME IInv, NEW c \in Consumers
    PROVE  /\ consumer \in [Consumers -> Runner] /\ consumer[c] \in Runner
           /\ \A pc \in {"idle", "check", "handle", "dead_letter", "commit"} :
                /\ [consumer[c] EXCEPT !.pc = pc] \in Runner
                /\ [consumer[c] EXCEPT !.pc = pc].pc = pc
                /\ [consumer[c] EXCEPT !.pc = pc].message = consumer[c].message
                /\ [consumer[c] EXCEPT !.pc = pc].attempt = consumer[c].attempt
<1>1. consumer \in [Consumers -> Runner] /\ consumer[c] \in Runner
  BY Zenon DEF IInv, TypeOK
<1> QED
  BY <1>1, Zenon DEF Runner

\* A step to another point of the runner's loop.
LEMMA GotoPreserves ==
    ASSUME IInv, GroupGrows, UNCHANGED <<owner, position, committed>>,
           NEW c \in Consumers, Busy(c),
           NEW pc \in {"handle", "dead_letter", "commit"}, Goto(c, pc), NoFault,
           pc = "commit" => Handled(EventOf(c))',
           pc = "handle" => consumer[c].attempt < MaxAttempts,
           ClaimIsEffect', processed' \subseteq Events,
           effects' \in [Events -> Nat],
           deadLetters' \subseteq {"relay", "consumer"} \X Events
    PROVE  IInv'
<1>1. PICK run \in Runner : run = [consumer[c] EXCEPT !.pc = pc]
  BY RunnerFields, Zenon
<1>2. /\ run.pc = pc /\ run.message = consumer[c].message
      /\ run.attempt = consumer[c].attempt
  BY <1>1, RunnerFields
<1>3. consumer' = [consumer EXCEPT ![c] = run]
  BY <1>1, RunnerFields DEF Goto
<1>4. consumer' \in [Consumers -> Runner]
  BY <1>3, RunnerFields, Zenon
<1>5. RunnersAreOrderly' /\ OffsetsAreOrderly'
  BY <1>2, <1>3, RunnerGoesOn, Zenon
<1>6. UNCHANGED <<left, faultsLeft>>
  BY Zenon DEF NoFault
<1>7. left' \subseteq Events /\ faultsLeft' \in 0 .. MaxFaults
  BY <1>6, GroupTypes, Zenon
<1>8. TypeOK'
  BY <1>4, <1>7, RunnerTypes
<1> QED
  BY <1>5, <1>6, <1>8, GroupSideStep, Zenon DEF GroupInv

LEMMA CheckPreserves ==
    ASSUME IInv, NEW c \in Consumers, Check(c)
    PROVE  IInv'
<1>1. /\ At(c, "check") /\ Busy(c)
      /\ UNCHANGED <<outbox, relay, log, owner, position, committed, processed,
                     effects, deadLetters>>
      /\ NoFault
  BY DEF Check, kafka, handled, Busy, At
<1>2. PICK pc \in {"handle", "dead_letter", "commit"} :
        /\ Goto(c, pc)
        /\ pc = "commit" => EventOf(c) \in processed
  BY DEF Check
<1>3. GroupGrows
  BY <1>1, Zenon DEF GroupGrows, NoFault
<1>4. consumer[c].attempt = 0 /\ 0 < MaxAttempts
  BY <1>1, DeliveryAssumption
     DEF IInv, GroupInv, RunnersAreOrderly, DeliveryAssumption
<1>5. EventOf(c)' = EventOf(c)
  BY <1>1, <1>2, RunnerFields DEF EventOf, Goto
<1>6. pc = "commit" => Handled(EventOf(c))'
  BY <1>1, <1>2, <1>5, Zenon DEF Handled
<1>7. /\ ClaimIsEffect' /\ processed' \subseteq Events
      /\ effects' \in [Events -> Nat]
      /\ deadLetters' \subseteq {"relay", "consumer"} \X Events
  BY <1>1, GroupTypes, Zenon DEF ClaimIsEffect
<1> QED
  BY <1>1, <1>2, <1>3, <1>4, <1>6, <1>7, GotoPreserves

LEMMA HandlePreserves ==
    ASSUME IInv, NEW c \in Consumers, Handle(c)
    PROVE  IInv'
<1>1. /\ At(c, "handle") /\ Busy(c) /\ Apply(EventOf(c)) /\ Goto(c, "commit")
      /\ UNCHANGED <<outbox, relay, log, owner, position, committed,
                     deadLetters>>
      /\ NoFault
  BY Zenon DEF Handle, kafka, Busy, At
<1>2. PICK e \in Events : e = EventOf(c)
  BY <1>1, WorksOn
<1>3. /\ ClaimIsEffect' /\ processed' = processed \cup {e}
      /\ processed' \subseteq Events /\ effects' \in [Events -> Nat]
  BY <1>1, <1>2, ApplyClaims, Zenon DEF IInv, GroupInv
<1>4. GroupGrows
  <2>1. processed \subseteq processed'
    BY <1>3, Zenon
  <2> QED
    BY <1>1, <2>1, Zenon DEF GroupGrows, NoFault
<1>5. EventOf(c)' = e
  BY <1>1, <1>2, RunnerFields, Zenon DEF EventOf, Goto
<1>6. Handled(EventOf(c))'
  BY <1>3, <1>5, Zenon DEF Handled
<1>7. deadLetters' \subseteq {"relay", "consumer"} \X Events
  BY <1>1, GroupTypes, Zenon
<1> QED
  BY <1>1, <1>3, <1>4, <1>6, <1>7, GotoPreserves, Zenon

LEMMA HandleRejectedPreserves ==
    ASSUME IInv, NEW c \in Consumers, HandleRejected(c)
    PROVE  IInv'
<1>1. /\ At(c, "handle") /\ Busy(c) /\ Goto(c, "dead_letter")
      /\ UNCHANGED <<outbox, relay, log, owner, position, committed, processed,
                     effects, deadLetters>>
      /\ NoFault
  BY DEF HandleRejected, kafka, handled, Busy, At
<1>2. GroupGrows
  BY <1>1 DEF GroupGrows, NoFault
<1>3. /\ ClaimIsEffect' /\ processed' \subseteq Events
      /\ effects' \in [Events -> Nat]
      /\ deadLetters' \subseteq {"relay", "consumer"} \X Events
  BY <1>1, GroupTypes, Zenon DEF ClaimIsEffect
<1> QED
  BY <1>1, <1>2, <1>3, GotoPreserves, Zenon

LEMMA DeadLetterPreserves ==
    ASSUME IInv, NEW c \in Consumers, DeadLetter(c)
    PROVE  IInv'
<1>1. /\ At(c, "dead_letter") /\ Busy(c) /\ Goto(c, "commit")
      /\ deadLetters' = deadLetters \cup {<<"consumer", EventOf(c)>>}
      /\ UNCHANGED <<outbox, relay, log, owner, position, committed, processed,
                     effects>>
      /\ NoFault
  BY Zenon DEF DeadLetter, kafka, handled, Busy, At
<1>2. PICK e \in Events : e = EventOf(c)
  BY <1>1, WorksOn, Zenon
<1>3. GroupGrows
  BY <1>1, Zenon DEF GroupGrows, NoFault
<1>4. EventOf(c)' = e
  BY <1>1, <1>2, RunnerFields, Zenon DEF EventOf, Goto
<1>5. Handled(EventOf(c))'
  BY <1>1, <1>2, <1>4, Zenon DEF Handled
<1>6. /\ ClaimIsEffect' /\ processed' \subseteq Events
      /\ effects' \in [Events -> Nat]
      /\ deadLetters \subseteq {"relay", "consumer"} \X Events
  BY <1>1, GroupTypes, Zenon DEF ClaimIsEffect
<1>7. deadLetters' \subseteq {"relay", "consumer"} \X Events
  <2>1. <<"consumer", e>> \in {"relay", "consumer"} \X Events
    BY <1>2, Zenon
  <2> QED
    BY <1>1, <1>2, <1>6, <2>1, Zenon
<1> QED
  BY <1>1, <1>3, <1>5, <1>6, <1>7, GotoPreserves, Zenon

LEMMA HandleErrPreserves ==
    ASSUME IInv, NEW c \in Consumers, HandleErr(c)
    PROVE  IInv'
<1>1. /\ At(c, "handle") /\ Busy(c)
      /\ UNCHANGED <<outbox, relay, log, owner, position, committed,
                     deadLetters>>
      /\ UNCHANGED <<processed, effects>> \/ Apply(EventOf(c))
      /\ faultsLeft > 0 /\ faultsLeft' = faultsLeft - 1 /\ UNCHANGED left
  BY Zenon DEF HandleErr, kafka, handled, Busy, At, Fault
<1>2. PICK e \in Events : e = EventOf(c)
  BY <1>1, WorksOn, Zenon
<1>3. /\ ClaimIsEffect' /\ processed \subseteq processed'
      /\ processed' \subseteq Events /\ effects' \in [Events -> Nat]
  <2>1. CASE UNCHANGED <<processed, effects>>
    BY <2>1, GroupTypes, Zenon DEF ClaimIsEffect
  <2>2. CASE Apply(EventOf(c))
    BY <1>2, <2>2, ApplyClaims, Zenon DEF IInv, GroupInv
  <2> QED
    BY <1>1, <2>1, <2>2, Zenon
<1>4. GroupGrows
  BY <1>1, <1>3, Zenon DEF GroupGrows
<1>5. /\ consumer \in [Consumers -> Runner] /\ consumer[c] \in Runner
      /\ consumer[c].attempt \in 0 .. MaxAttempts
      /\ consumer[c].attempt < MaxAttempts /\ MaxAttempts \in Nat
  BY <1>1, RunnerFields, DeliveryAssumption, Zenon
     DEF IInv, GroupInv, RunnersAreOrderly, Runner, DeliveryAssumption
<1>6. PICK n \in 0 .. MaxAttempts : n = consumer[c].attempt + 1
  BY <1>5
<1>7. PICK pc \in {"dead_letter", "handle"} :
        pc = IF n >= MaxAttempts THEN "dead_letter" ELSE "handle"
  BY Zenon
<1>8. PICK run \in Runner :
        run = [pc |-> pc, message |-> consumer[c].message, attempt |-> n]
  BY <1>5, <1>6, <1>7, Zenon DEF Runner
<1>9. consumer' = [consumer EXCEPT ![c] = run]
  <2>1. Retried(consumer[c]) = run
    BY <1>6, <1>7, <1>8, Zenon DEF Retried
  <2>2. consumer' = [consumer EXCEPT ![c] = Retried(consumer[c])]
    BY <1>5, Zenon DEF HandleErr
  <2> QED
    BY <2>1, <2>2, Zenon
<1>10. /\ run.message = consumer[c].message /\ run.pc \notin {"idle", "commit", "check"}
       /\ run.pc = "handle" => run.attempt < MaxAttempts
  BY <1>5, <1>6, <1>7, <1>8
<1>11. RunnersAreOrderly' /\ OffsetsAreOrderly'
  BY <1>1, <1>4, <1>9, <1>10, RunnerGoesOn, Zenon
<1>12. /\ left' \subseteq Events /\ faultsLeft \in 0 .. MaxFaults
       /\ deadLetters' \subseteq {"relay", "consumer"} \X Events
  BY <1>1, GroupTypes, Zenon
<1>13. faultsLeft' \in 0 .. MaxFaults /\ consumer' \in [Consumers -> Runner]
  BY <1>1, <1>5, <1>9, <1>12, FaultSpends
<1>14. TypeOK'
  BY <1>1, <1>3, <1>4, <1>12, <1>13, RunnerTypes
<1> QED
  BY <1>1, <1>3, <1>4, <1>11, <1>14, GroupSideStep, Zenon DEF GroupInv

\* Back to receiving.
LEMMA FinishTypes ==
    ASSUME IInv, NEW c \in Consumers, Finish(c)
    PROVE  consumer' \in [Consumers -> Runner]
<1>1. IdleConsumer \in Runner
  BY DeliveryAssumption DEF IdleConsumer, Runner, DeliveryAssumption
<1> QED
  BY <1>1, RunnerFields, Zenon DEF Finish

LEMMA LeaveUncommittedPreserves ==
    ASSUME IInv, NEW c \in Consumers, LeaveUncommitted(c)
    PROVE  IInv'
<1>1. /\ Busy(c) /\ Finish(c)
      /\ UNCHANGED <<outbox, relay, log, owner, position, committed, processed,
                     effects, deadLetters>>
      /\ faultsLeft > 0 /\ faultsLeft' = faultsLeft - 1
      /\ left' = left \cup {EventOf(c)}
  BY DEF LeaveUncommitted, kafka, handled, Busy, At
<1>2. PICK p \in Partitions : \E k \in 1 .. Len(log[p]) :
        /\ consumer[c].message = <<p, k>>
        /\ EventOf(c) = log[p][k] /\ EventOf(c) \in Events
        /\ \A j \in 1 .. k - 1 : Settled(p, j)
  BY <1>1, WorksOn, Zenon
<1>3. PICK k \in 1 .. Len(log[p]) :
        /\ consumer[c].message = <<p, k>>
        /\ EventOf(c) = log[p][k] /\ EventOf(c) \in Events
        /\ \A j \in 1 .. k - 1 : Settled(p, j)
  BY <1>2, Zenon
<1>4. GroupGrows
  BY <1>1, Zenon DEF GroupGrows
<1>5. Settled(p, k)'
  BY <1>1, <1>3, Zenon DEF Settled
<1>6. RunnersAreOrderly' /\ OffsetsAreOrderly'
  BY <1>1, <1>3, <1>4, <1>5, RunnerFinishes, Zenon
<1>7. /\ left \subseteq Events /\ faultsLeft \in 0 .. MaxFaults
      /\ deadLetters' \subseteq {"relay", "consumer"} \X Events
      /\ ClaimIsEffect' /\ processed' \subseteq Events
      /\ effects' \in [Events -> Nat]
  BY <1>1, GroupTypes, Zenon DEF ClaimIsEffect
<1>8. left' \subseteq Events
  BY <1>1, <1>3, <1>7, Zenon
<1>9. faultsLeft' \in 0 .. MaxFaults /\ consumer' \in [Consumers -> Runner]
  BY <1>1, <1>7, FaultSpends, FinishTypes, Zenon
<1>10. TypeOK'
  BY <1>1, <1>4, <1>7, <1>8, <1>9, RunnerTypes, Zenon
<1> QED
  BY <1>1, <1>4, <1>6, <1>7, <1>10, GroupSideStep DEF GroupInv

LEMMA CommitMessagePreserves ==
    ASSUME IInv, NEW c \in Consumers, CommitMessage(c)
    PROVE  IInv'
<1>1. /\ At(c, "commit") /\ Busy(c) /\ Finish(c)
      /\ UNCHANGED <<outbox, relay, log, owner, position, processed, effects,
                     deadLetters, left, faultsLeft>>
  BY Zenon DEF CommitMessage, handled, Busy, At, NoFault
<1>2. PICK p \in Partitions : \E k \in 1 .. Len(log[p]) :
        /\ consumer[c].message = <<p, k>>
        /\ \A j \in 1 .. k - 1 : Settled(p, j)
        /\ Handled(log[p][k])
  BY <1>1, WorksOn, Zenon
<1>3. PICK k \in 1 .. Len(log[p]) :
        /\ consumer[c].message = <<p, k>>
        /\ \A j \in 1 .. k - 1 : Settled(p, j)
        /\ Handled(log[p][k])
  BY <1>2, Zenon
<1>4. GroupGrows
  BY <1>1, Zenon DEF GroupGrows
<1>5. Settled(p, k)'
  BY <1>1, <1>3, Zenon DEF Settled, Handled
<1>6. UNCHANGED committed \/ committed' = [committed EXCEPT ![p] = k]
  BY <1>3 DEF CommitMessage
<1>7. RunnersAreOrderly' /\ OffsetsAreOrderly'
  BY <1>1, <1>3, <1>4, <1>5, <1>6, RunnerFinishes, Zenon
<1>8. committed' \in [Partitions -> Nat]
  <2>1. committed \in [Partitions -> Nat] /\ Len(log[p]) \in Nat
    BY DEF IInv, TypeOK
  <2> QED
    BY <1>6, <2>1
<1>9. ClaimIsEffect' /\ consumer' \in [Consumers -> Runner]
  BY <1>1, FinishTypes, Zenon DEF IInv, GroupInv, ClaimIsEffect
<1>10. TypeOK'
  BY <1>1, <1>8, <1>9, Zenon DEF IInv, TypeOK
<1> QED
  BY <1>1, <1>4, <1>7, <1>9, <1>10, GroupSideStep, Zenon DEF GroupInv

\* The partitions of a runner that restarts are read from where they were
\* committed; no other runner notices.
LEMMA CrashPreserves ==
    ASSUME IInv, NEW c \in Consumers, Crash(c)
    PROVE  IInv'
<1>1. /\ Finish(c)
      /\ UNCHANGED <<outbox, relay, log, owner, committed, processed, effects,
                     deadLetters, left>>
      /\ faultsLeft > 0 /\ faultsLeft' = faultsLeft - 1
      /\ position' = [p \in Partitions |->
                        IF owner[p] = c THEN committed[p] ELSE position[p]]
  BY DEF Crash, handled, Fault
<1>2. GroupGrows
  BY <1>1, Zenon DEF GroupGrows
<1>3. /\ consumer \in [Consumers -> Runner] /\ RunnersAreOrderly
      /\ OffsetsAreOrderly /\ owner \in [Partitions -> Consumers]
      /\ committed \in [Partitions -> Nat] /\ position \in [Partitions -> Nat]
  BY Zenon DEF IInv, TypeOK, GroupInv
<1>4. /\ consumer'[c] = IdleConsumer
      /\ \A d \in Consumers \ {c} : consumer'[d] = consumer[d]
  BY <1>1, <1>3, Zenon DEF Finish
<1>5. RunnersAreOrderly'
  BY <1>2, <1>3, <1>4, OthersGoOn, Zenon
<1>6. OffsetsAreOrderly'
  <2> SUFFICES ASSUME NEW p \in Partitions
               PROVE  /\ committed[p] <= Len(log[p])
                      /\ position'[p] <= Len(log[p])
                      /\ \A k \in 1 .. committed[p] : Settled(p, k)'
                      /\ \A k \in 1 .. position'[p] :
                           \/ Settled(p, k)'
                           \/ /\ k = position'[p] /\ Busy(owner[p])'
                              /\ consumer'[owner[p]].message = <<p, k>>
    BY <1>1 DEF OffsetsAreOrderly
  <2>1. /\ committed[p] <= Len(log[p]) /\ position[p] <= Len(log[p])
        /\ \A k \in 1 .. committed[p] : Settled(p, k)
        /\ \A k \in 1 .. position[p] :
             \/ Settled(p, k)
             \/ /\ k = position[p] /\ Busy(owner[p])
                /\ consumer[owner[p]].message = <<p, k>>
    BY <1>3, Zenon DEF OffsetsAreOrderly
  <2>2. CASE owner[p] = c
    <3>1. position'[p] = committed[p]
      BY <1>1, <2>2, Zenon
    <3> QED
      BY <1>2, <2>1, <3>1, SettledStays, Zenon
  <2>3. CASE owner[p] # c
    <3>1. position'[p] = position[p]
      BY <1>1, <2>3, Zenon
    <3>2. consumer'[owner[p]] = consumer[owner[p]]
      BY <1>3, <1>4, <2>3, Zenon
    <3>3. Busy(owner[p])' = Busy(owner[p])
      BY <1>1, <3>2, Zenon DEF Busy, At
    <3> QED
      BY <1>2, <2>1, <3>1, <3>2, <3>3, SettledStays, Zenon
  <2> QED
    BY <2>2, <2>3, Zenon
<1>7. position' \in [Partitions -> Nat]
  BY <1>1, <1>3, Zenon
<1>8. /\ faultsLeft' \in 0 .. MaxFaults /\ consumer' \in [Consumers -> Runner]
      /\ ClaimIsEffect'
  BY <1>1, GroupTypes, FaultSpends, FinishTypes, Zenon DEF ClaimIsEffect
<1>9. TypeOK'
  BY <1>1, <1>7, <1>8, Zenon DEF IInv, TypeOK
<1> QED
  BY <1>1, <1>2, <1>5, <1>6, <1>8, <1>9, GroupSideStep, Zenon DEF GroupInv

\* The old owner's message is no longer the new owner's: it is read again.
LEMMA RebalancePreserves ==
    ASSUME IInv, NEW q \in Partitions, NEW c \in Consumers, Rebalance(q, c)
    PROVE  IInv'
<1>1. /\ UNCHANGED <<outbox, relay, log, consumer, committed, processed, effects,
                     deadLetters, left>>
      /\ faultsLeft > 0 /\ faultsLeft' = faultsLeft - 1
      /\ owner' = [owner EXCEPT ![q] = c]
      /\ position' = [position EXCEPT ![q] = committed[q]]
  BY DEF Rebalance, handled, Fault
<1>2. GroupGrows
  BY <1>1, Zenon DEF GroupGrows
<1>3. /\ consumer \in [Consumers -> Runner] /\ RunnersAreOrderly
      /\ OffsetsAreOrderly /\ owner \in [Partitions -> Consumers]
      /\ committed \in [Partitions -> Nat] /\ position \in [Partitions -> Nat]
  BY Zenon DEF IInv, TypeOK, GroupInv
<1>4. RunnersAreOrderly'
  <2> SUFFICES ASSUME NEW d \in Consumers PROVE Orderly(d)'
    BY Zenon DEF RunnersAreOrderly, Orderly
  <2>1. consumer'[d] = consumer[d] /\ Orderly(d)
    BY <1>1, <1>3, Zenon DEF RunnersAreOrderly, Orderly
  <2> QED
    BY <1>2, <2>1, IdleBystander, Zenon
<1>5. OffsetsAreOrderly'
  <2> SUFFICES ASSUME NEW p \in Partitions
               PROVE  /\ committed[p] <= Len(log[p])
                      /\ position'[p] <= Len(log[p])
                      /\ \A k \in 1 .. committed[p] : Settled(p, k)'
                      /\ \A k \in 1 .. position'[p] :
                           \/ Settled(p, k)'
                           \/ /\ k = position'[p] /\ Busy(owner'[p])
                              /\ consumer[owner'[p]].message = <<p, k>>
    BY <1>1 DEF OffsetsAreOrderly, Busy, At
  <2>1. /\ committed[p] <= Len(log[p]) /\ position[p] <= Len(log[p])
        /\ \A k \in 1 .. committed[p] : Settled(p, k)
        /\ \A k \in 1 .. position[p] :
             \/ Settled(p, k)
             \/ /\ k = position[p] /\ Busy(owner[p])
                /\ consumer[owner[p]].message = <<p, k>>
    BY <1>3, Zenon DEF OffsetsAreOrderly
  <2>2. CASE p = q
    <3>1. position'[p] = committed[p]
      BY <1>1, <1>3, <2>2, Zenon
    <3> QED
      BY <1>2, <2>1, <3>1, SettledStays, Zenon
  <2>3. CASE p # q
    <3>1. position'[p] = position[p] /\ owner'[p] = owner[p]
      BY <1>1, <1>3, <2>3, Zenon
    <3> QED
      BY <1>2, <2>1, <3>1, SettledStays, Zenon
  <2> QED
    BY <2>2, <2>3, Zenon
<1>6. position' \in [Partitions -> Nat] /\ owner' \in [Partitions -> Consumers]
  BY <1>1, <1>3, Zenon
<1>7. faultsLeft' \in 0 .. MaxFaults /\ ClaimIsEffect'
  BY <1>1, GroupTypes, FaultSpends, Zenon DEF ClaimIsEffect
<1>8. TypeOK'
  BY <1>1, <1>6, <1>7, Zenon DEF IInv, TypeOK
<1> QED
  BY <1>1, <1>2, <1>4, <1>5, <1>7, <1>8, GroupSideStep, Zenon DEF GroupInv
===============================================================================
