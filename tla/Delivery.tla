------------------------------- MODULE Delivery -------------------------------
(***************************************************************************)
(* From the outbox to a handler's effect (crates/events): the relays that  *)
(* move outbox rows to Kafka, the partitioned log and the group's offsets, *)
(* and the consumer runners that retry a handler, deduplicate and          *)
(* dead-letter.  The handler is the crate's claim-then-act wrapper,        *)
(* handle_once; the one handler that claims differently is in Deposits.    *)
(*                                                                         *)
(* An event is its rank by created_at.  A relay pass is one database       *)
(* transaction whose publishes leave before it commits.                    *)
(***************************************************************************)
EXTENDS Integers, Sequences, FiniteSets, Functions

CONSTANTS
    NumEvents,      \* events the business transactions enqueue
    Partitions,
    PartitionOf,    \* the partition of an event's key
    Relays,         \* outbox relays, one per worker replica
    Consumers,      \* runners of one handler: the members of its group
    BatchSize,      \* outbox_batch_size
    MaxAttempts,    \* max_delivery_attempts
    ClassesOf,      \* the classes each event may have (AllClasses)
    Faults,         \* the faults this instance allows (AllFaults)
    MaxFaults,      \* how many of them may happen in a behaviour
    NoMessage

Events == 1 .. NumEvents

AllClasses ==
    {"good",
     "malformed",    \* the outbox payload is no envelope
     "unsupported",  \* a version this consumer does not know
     "rejected"}     \* the handler can never accept it

AllFaults ==
    {"broker",       \* a publish fails, whether or not the record got through
     "relay_crash",  \* a relay dies inside its transaction
     "handler",      \* a handler errs and its transaction rolls back
     "commit_reply", \* it commits, but the reply is lost
     "crash",        \* a consumer dies
     "rebalance",    \* a partition moves while its consumer still works
     "db_down"}      \* the runner cannot read or write its own tables

ASSUME DeliveryAssumption ==
    /\ NumEvents \in Nat /\ BatchSize \in Nat \ {0}
    /\ MaxAttempts \in Nat \ {0} /\ MaxFaults \in Nat
    /\ PartitionOf \in [Events -> Partitions]
    /\ Consumers # {}
    /\ ClassesOf \in [Events -> SUBSET AllClasses]
    /\ Faults \subseteq AllFaults
    /\ NoMessage \notin Partitions \X Nat

VARIABLES
    outbox,      \* the outbox table, a row per event
    relay,       \* the open transaction of each relay
    log,         \* the Kafka log of each partition
    owner,       \* the consumer each partition is assigned to
    position,    \* the last offset the owner of a partition has fetched
    committed,   \* the last offset committed for it
    processed,   \* processed_events
    effects,     \* how often each event's effect was committed
    deadLetters, \* dead_letters: who gave up on which event
    consumer,    \* the local state of each consumer runner
    left,        \* history: the events whose offset a runner left uncommitted
    faultsLeft

kafka == <<log, owner, position, committed>>
handled == <<processed, effects>>
vars ==
    <<outbox, relay, kafka, handled, deadLetters, consumer, left, faultsLeft>>

Absent == [status |-> "absent", attempts |-> 0, due |-> TRUE, class |-> "good"]
IdleRelay == [todo |-> {}, published |-> {}, failed |-> {}, dead |-> {}]
IdleConsumer == [pc |-> "idle", message |-> NoMessage, attempt |-> 0]

Init ==
    /\ outbox = [e \in Events |-> Absent]
    /\ relay = [r \in Relays |-> IdleRelay]
    /\ log = [p \in Partitions |-> <<>>]
    /\ owner \in [Partitions -> Consumers]
    /\ position = [p \in Partitions |-> 0]
    /\ committed = [p \in Partitions |-> 0]
    /\ processed = {} /\ effects = [e \in Events |-> 0]
    /\ deadLetters = {}
    /\ consumer = [c \in Consumers |-> IdleConsumer]
    /\ left = {}
    /\ faultsLeft = MaxFaults

Fault(kind) ==
    /\ kind \in Faults
    /\ faultsLeft > 0
    /\ faultsLeft' = faultsLeft - 1
    /\ UNCHANGED left

NoFault == UNCHANGED <<left, faultsLeft>>

-------------------------------------------------------------------------------
(* The outbox and its relays.                                               *)

\* enqueue, in the transaction of the state change; rows keep creation order.
Enqueue(e, class) ==
    /\ outbox[e].status = "absent"
    /\ \A f \in 1 .. e - 1 : outbox[f].status # "absent"
    /\ outbox' = [outbox EXCEPT
         ![e] = [@ EXCEPT !.status = "pending", !.class = class]]
    /\ UNCHANGED <<relay, kafka, handled, deadLetters, consumer>> /\ NoFault

\* next_attempt_at passes.
Elapse(e) ==
    /\ outbox[e].status = "pending" /\ ~outbox[e].due
    /\ outbox' = [outbox EXCEPT ![e].due = TRUE]
    /\ UNCHANGED <<relay, kafka, handled, deadLetters, consumer>> /\ NoFault

InTransaction(r) == relay[r] # IdleRelay
Locked(r) == relay[r].todo \cup relay[r].published \cup relay[r].failed

\* Mutant: a row that failed once is never claimed again.
DueOnce ==
    {e \in Events : /\ outbox[e].status = "pending" /\ outbox[e].attempts = 0
                    /\ \A r \in Relays : e \notin Locked(r)}

\* Mutant: FOR UPDATE without SKIP LOCKED's exclusion.
DueUnlocked ==
    {e \in Events : outbox[e].status = "pending" /\ outbox[e].due}

\* The rows claim_batch may take: pending, due, and locked by no other relay.
Due ==
    {e \in Events : /\ outbox[e].status = "pending" /\ outbox[e].due
                    /\ \A r \in Relays : e \notin Locked(r)}

\* FOR UPDATE SKIP LOCKED: the oldest of them.
ClaimBatch(r) ==
    LET batch == {e \in Due : Cardinality({f \in Due : f < e}) < BatchSize}
    IN  /\ ~InTransaction(r)
        /\ batch # {}
        /\ relay' = [relay EXCEPT ![r].todo = batch]
        /\ UNCHANGED <<outbox, kafka, handled, deadLetters, consumer>>
        /\ NoFault

\* The rows of a batch go out oldest first.
NextRow(r, e) == e \in relay[r].todo /\ \A f \in relay[r].todo : e <= f

Send(e) == log' = [log EXCEPT ![PartitionOf[e]] = Append(@, e)]

\* What a pass does with its next row, to be committed with the pass.
Sent(pass, e) ==
    [pass EXCEPT !.todo = @ \ {e}, !.published = @ \cup {e}]
Rescheduled(pass, e) ==
    [pass EXCEPT !.todo = @ \ {e}, !.failed = @ \cup {e}]

\* Mutant: the row leaves the queue without a dead letter.
GivenUpSilently(pass, e) == Sent(pass, e)

\* A dead-lettered row is marked published to leave the queue.
GivenUp(pass, e) == [Sent(pass, e) EXCEPT !.dead = @ \cup {e}]

Exhausted(e) == outbox[e].attempts + 1 >= MaxAttempts

\* A payload that is no envelope will never succeed.
DeadLetterMalformed(r, e) ==
    /\ NextRow(r, e)
    /\ outbox[e].class = "malformed"
    /\ relay' = [relay EXCEPT ![r] = GivenUp(@, e)]
    /\ UNCHANGED <<outbox, kafka, handled, deadLetters, consumer>> /\ NoFault

Publish(r, e) ==
    /\ NextRow(r, e)
    /\ outbox[e].class # "malformed"
    /\ Send(e)
    /\ relay' = [relay EXCEPT ![r] = Sent(@, e)]
    /\ UNCHANGED <<outbox, owner, position, committed, handled, deadLetters,
                   consumer>>
    /\ NoFault

\* An error does not tell whether the broker has the record.  The row is
\* rescheduled, or dead-lettered once its attempts are used up.
PublishFails(r, e) ==
    /\ NextRow(r, e)
    /\ outbox[e].class # "malformed"
    /\ Fault("broker")
    /\ Send(e) \/ UNCHANGED log
    /\ relay' = [relay EXCEPT ![r] = IF Exhausted(e) THEN GivenUp(@, e)
                                     ELSE Rescheduled(@, e)]
    /\ UNCHANGED <<outbox, owner, position, committed, handled, deadLetters,
                   consumer>>

\* mark_published; mark_failed, which reschedules with a backoff.
MarkPublished(row) == [row EXCEPT !.status = "published"]
MarkFailed(row) == [row EXCEPT !.attempts = @ + 1, !.due = FALSE]

\* They commit together with the pass's dead letters.
CommitPass(r) ==
    /\ InTransaction(r) /\ relay[r].todo = {}
    /\ outbox' = [e \in Events |->
         IF e \in relay[r].published THEN MarkPublished(outbox[e])
         ELSE IF e \in relay[r].failed THEN MarkFailed(outbox[e])
         ELSE outbox[e]]
    /\ deadLetters' = deadLetters \cup {<<"relay", e>> : e \in relay[r].dead}
    /\ relay' = [relay EXCEPT ![r] = IdleRelay]
    /\ UNCHANGED <<kafka, handled, consumer>> /\ NoFault

\* The transaction rolls back; what was published stays published.
RelayCrash(r) ==
    /\ InTransaction(r)
    /\ Fault("relay_crash")
    /\ relay' = [relay EXCEPT ![r] = IdleRelay]
    /\ UNCHANGED <<outbox, kafka, handled, deadLetters, consumer>>

-------------------------------------------------------------------------------
(* The consumer runners.                                                    *)

At(c, pc) == consumer[c].pc = pc
Goto(c, pc) == consumer' = [consumer EXCEPT ![c].pc = pc]
Finish(c) == consumer' = [consumer EXCEPT ![c] = IdleConsumer]
EventOf(c) == log[consumer[c].message[1]][consumer[c].message[2]]
ClassOf(c) == outbox[EventOf(c)].class

\* recv: the next message of a partition this consumer owns.
Receive(c, p) ==
    /\ At(c, "idle") /\ owner[p] = c
    /\ position[p] < Len(log[p])
    /\ position' = [position EXCEPT ![p] = @ + 1]
    /\ consumer' = [consumer EXCEPT
         ![c] = [pc |-> "check", message |-> <<p, position[p] + 1>>,
                 attempt |-> 0]]
    /\ UNCHANGED <<outbox, relay, log, owner, committed, handled, deadLetters>>
    /\ NoFault

\* Mutant: an unknown version is skipped as if it had been handled.
SkipUnsupported(c) ==
    /\ At(c, "check")
    /\ Goto(c, IF ClassOf(c) = "unsupported" \/ EventOf(c) \in processed
               THEN "commit" ELSE "handle")
    /\ UNCHANGED <<outbox, relay, kafka, handled, deadLetters>> /\ NoFault

\* The head of process: the version, and the was_processed pre-check.
Check(c) ==
    /\ At(c, "check")
    /\ Goto(c, CASE ClassOf(c) = "unsupported" -> "dead_letter"
                 [] EventOf(c) \in processed   -> "commit"
                 [] OTHER                      -> "handle")
    /\ UNCHANGED <<outbox, relay, kafka, handled, deadLetters>> /\ NoFault

\* Mutant: the handler trusts the pre-check and does not look at its claim.
ApplyUnclaimed(e) ==
    /\ processed' = processed \cup {e}
    /\ effects' = [effects EXCEPT ![e] = @ + 1]

\* handle_once commits the claim and the effect, or finds the claim taken.
Apply(e) ==
    IF e \in processed
    THEN UNCHANGED handled
    ELSE /\ processed' = processed \cup {e}
         /\ effects' = [effects EXCEPT ![e] = @ + 1]

Handle(c) ==
    /\ At(c, "handle") /\ ClassOf(c) # "rejected"
    /\ Apply(EventOf(c))
    /\ Goto(c, "commit")
    /\ UNCHANGED <<outbox, relay, kafka, deadLetters>> /\ NoFault

\* Rejected: the claim is rolled back with everything else.
HandleRejected(c) ==
    /\ At(c, "handle") /\ ClassOf(c) = "rejected"
    /\ Goto(c, "dead_letter")
    /\ UNCHANGED <<outbox, relay, kafka, handled, deadLetters>> /\ NoFault

\* Another attempt, or none once max_delivery_attempts are used up.
Retried(run) ==
    [pc |-> IF run.attempt + 1 >= MaxAttempts THEN "dead_letter" ELSE "handle",
     message |-> run.message, attempt |-> run.attempt + 1]

\* An error, before the commit or in its reply, counts against the budget.
HandleErr(c) ==
    /\ At(c, "handle")
    /\ \/ Fault("handler") /\ UNCHANGED handled
       \/ /\ ClassOf(c) # "rejected"
          /\ Fault("commit_reply") /\ Apply(EventOf(c))
    /\ consumer' = [consumer EXCEPT ![c] = Retried(@)]
    /\ UNCHANGED <<outbox, relay, kafka, deadLetters>>

DeadLetter(c) ==
    /\ At(c, "dead_letter")
    /\ deadLetters' = deadLetters \cup {<<"consumer", EventOf(c)>>}
    /\ Goto(c, "commit")
    /\ UNCHANGED <<outbox, relay, kafka, handled>> /\ NoFault

\* process errs: the offset is left uncommitted and the loop receives on.
LeaveUncommitted(c) ==
    /\ At(c, "check") \/ At(c, "dead_letter")
    /\ "db_down" \in Faults /\ faultsLeft > 0
    /\ faultsLeft' = faultsLeft - 1
    /\ left' = left \cup {EventOf(c)}
    /\ Finish(c)
    /\ UNCHANGED <<outbox, relay, kafka, handled, deadLetters>>

\* commit_message.  The group drops the commit of a consumer that lost the
\* partition.
CommitMessage(c) ==
    LET p == consumer[c].message[1]
    IN  /\ At(c, "commit")
        /\ committed' = IF owner[p] = c
                        THEN [committed EXCEPT ![p] = consumer[c].message[2]]
                        ELSE committed
        /\ Finish(c)
        /\ UNCHANGED <<outbox, relay, log, owner, position, handled,
                       deadLetters>>
        /\ NoFault

\* A consumer restarts; its partitions are read from the committed offsets.
Crash(c) ==
    /\ Fault("crash")
    /\ Finish(c)
    /\ position' = [p \in Partitions |->
                      IF owner[p] = c THEN committed[p] ELSE position[p]]
    /\ UNCHANGED <<outbox, relay, log, owner, committed, handled, deadLetters>>

\* The group moves a partition; its old owner still works on its message.
Rebalance(p, c) ==
    /\ owner[p] # c
    /\ Fault("rebalance")
    /\ owner' = [owner EXCEPT ![p] = c]
    /\ position' = [position EXCEPT ![p] = committed[p]]
    /\ UNCHANGED <<outbox, relay, log, committed, handled, deadLetters,
                   consumer>>

-------------------------------------------------------------------------------

RelayStep(r) ==
    \/ ClaimBatch(r) \/ CommitPass(r) \/ RelayCrash(r)
    \/ \E e \in Events : \/ DeadLetterMalformed(r, e)
                         \/ Publish(r, e) \/ PublishFails(r, e)

ConsumerStep(c) ==
    \/ Check(c) \/ Handle(c) \/ HandleRejected(c) \/ HandleErr(c)
    \/ DeadLetter(c) \/ LeaveUncommitted(c) \/ CommitMessage(c) \/ Crash(c)
    \/ \E p \in Partitions : Receive(c, p)

Next ==
    \/ \E e \in Events : \/ Elapse(e)
                         \/ \E class \in ClassesOf[e] : Enqueue(e, class)
    \/ \E r \in Relays : RelayStep(r)
    \/ \E c \in Consumers : ConsumerStep(c)
    \/ \E p \in Partitions, c \in Consumers : Rebalance(p, c)

Spec == Init /\ [][Next]_vars

(***************************************************************************)
(* The relay and the runners are tokio loops that always take their next   *)
(* step, and timers fire.  Nothing is assumed of the faults, of the        *)
(* business transactions or of the group's assignment.                     *)
(***************************************************************************)
FairSpec ==
    /\ Spec
    /\ \A e \in Events : WF_vars(Elapse(e))
    /\ \A r \in Relays : WF_vars(RelayStep(r))
    /\ \A c \in Consumers : WF_vars(ConsumerStep(c))

-------------------------------------------------------------------------------

OutboxRow ==
    [status : {"absent", "pending", "published"},
     attempts : 0 .. MaxAttempts - 1, due : BOOLEAN, class : AllClasses]

RelayPass ==
    [todo : SUBSET Events, published : SUBSET Events, failed : SUBSET Events,
     dead : SUBSET Events]

Runner ==
    [pc : {"idle", "check", "handle", "dead_letter", "commit"},
     message : (Partitions \X Nat) \cup {NoMessage},
     attempt : 0 .. MaxAttempts]

\* The rows, transactions, offsets and runner states have their types; a row's
\* attempts stay below the budget (run_once).
TypeOK ==
    /\ outbox \in [Events -> OutboxRow]
    /\ relay \in [Relays -> RelayPass]
    /\ log \in [Partitions -> Seq(Events)]
    /\ owner \in [Partitions -> Consumers]
    /\ position \in [Partitions -> Nat] /\ committed \in [Partitions -> Nat]
    /\ processed \subseteq Events /\ effects \in [Events -> Nat]
    /\ left \subseteq Events
    /\ deadLetters \subseteq {"relay", "consumer"} \X Events
    /\ consumer \in [Consumers -> Runner]
    /\ faultsLeft \in 0 .. MaxFaults

(***************************************************************************)
(* A row the relay marked published reached its partition's log, or is in  *)
(* dead_letters: run_once never drops an event from the queue, whatever    *)
(* fails or crashes inside its transaction.                                *)
(***************************************************************************)
PublishedIsDelivered ==
    \A e \in Events :
        outbox[e].status = "published" =>
            e \in Range(log[PartitionOf[e]]) \/ <<"relay", e>> \in deadLetters

(***************************************************************************)
(* What makes several relays safe: SKIP LOCKED gives them disjoint rows,   *)
(* so the log holds an event more than once only as often as a publish     *)
(* failed or a relay died.                                                 *)
(***************************************************************************)
DuplicatesNeedFaults ==
    \A e \in Events :
        LET copies == {k \in DOMAIN log[PartitionOf[e]] :
                         log[PartitionOf[e]][k] = e}
        IN  Cardinality(copies) <= 1 + (MaxFaults - faultsLeft)

(***************************************************************************)
(* handle_once: an event's effect is committed once if its claim is, and   *)
(* never otherwise, however often it is delivered and whichever consumers  *)
(* still work on it after a rebalance.                                     *)
(***************************************************************************)
ClaimIsEffect ==
    effects = [e \in Events |-> IF e \in processed THEN 1 ELSE 0]

Handled(e) == e \in processed \/ <<"consumer", e>> \in deadLetters

(***************************************************************************)
(* Every message up to the committed offset took effect or is in           *)
(* dead_letters, except where the runner could not even dead-letter it:    *)
(* crashes, rebalances and lost replies never skip one (run, process).     *)
(***************************************************************************)
CommittedIsHandledOrLeft ==
    \A p \in Partitions : \A k \in 1 .. committed[p] :
        Handled(log[p][k]) \/ log[p][k] \in left

(***************************************************************************)
(* "an offset must only advance once the event is durably handled or       *)
(* dead-lettered" (the manual commits of ConsumerRunner::run), with no     *)
(* exception.                                                              *)
(***************************************************************************)
CommittedIsHandled ==
    \A p \in Partitions : \A k \in 1 .. committed[p] : Handled(log[p][k])

(***************************************************************************)
(* Every event a business transaction enqueued takes effect or is          *)
(* dead-lettered in the end, by the relay or by the consumer, unless its   *)
(* offset was left uncommitted.                                            *)
(***************************************************************************)
EveryEventIsSettled ==
    \A e \in Events :
        outbox[e].status = "pending"
            ~> Handled(e) \/ <<"relay", e>> \in deadLetters \/ e \in left
===============================================================================
