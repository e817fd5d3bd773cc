------------------------------ MODULE RpcGateway ------------------------------
(***************************************************************************)
(* The JSON-RPC gateway of one chain (crates/rpc): calls that fail over    *)
(* from endpoint to endpoint as their idempotency allows, a circuit        *)
(* breaker and a pool of permits per endpoint.                             *)
(*                                                                         *)
(* A call notes whether an endpoint has received it (arrived).             *)
(* The breaker's `until` is the time left until then.  Its two counters    *)
(* are only compared with their thresholds and saturate there.  Scores are *)
(* abstracted: a call may try the selectable endpoints in any order.       *)
(***************************************************************************)
EXTENDS Integers, Sequences, FiniteSets, Functions

CONSTANTS
    Endpoints,
    Callers,            \* tasks that call through the gateway
    FailureThreshold,   \* failure_threshold
    SuccessThreshold,   \* success_threshold
    ResetTimeout,       \* breaker_reset_ms, in ticks
    MaxInflight,        \* max_inflight
    MaxBad              \* bound on the attempts a node does not answer well

\* AppConfig::validate refuses a zero threshold and a zero max_inflight; the
\* endpoints are those of the configuration.
ASSUME GatewayAssumption ==
    /\ FailureThreshold \in Nat \ {0} /\ SuccessThreshold \in Nat \ {0}
    /\ ResetTimeout \in Nat \ {0} /\ MaxInflight \in Nat \ {0}
    /\ MaxBad \in Nat
    /\ IsFiniteSet(Endpoints) /\ IsFiniteSet(Callers)

VARIABLES
    health,     \* the EndpointHealth of each endpoint
    permits,    \* the free permits of each endpoint
    caller,     \* the call each task has in progress
    badLeft     \* bad answers still to come

vars == <<health, permits, caller, badLeft>>

Idempotency == {"safe", "unsafe_on_timeout"}
Outcomes == {"ok", "not_delivered", "ambiguous", "rejected"}

Healthy == [state |-> "closed", wait |-> 0, failures |-> 0, successes |-> 0]

NoCall ==
    [pc |-> "idle", idem |-> "safe", order |-> <<>>, outcome |-> "ok",
     arrived |-> FALSE]

Init ==
    /\ health = [e \in Endpoints |-> Healthy]
    /\ permits = [e \in Endpoints |-> MaxInflight]
    /\ caller = [c \in Callers |-> NoCall]
    /\ badLeft = MaxBad

Saturating(n, cap) == IF n < cap THEN n ELSE cap

-------------------------------------------------------------------------------
(* EndpointHealth.                                                          *)

\* score is Some: not tripped, or tripped long enough ago.
Selectable(h) == h.state # "open" \/ h.wait = 0

\* Mutant: the request is let through without a change of state.
AdmittedUnchanged(h) == h

\* allows_request opens the half-open window.
Admitted(h) ==
    IF h.state = "open"
    THEN [h EXCEPT !.state = "half_open", !.successes = 0]
    ELSE h

\* Mutant: any success closes the breaker.
SucceededCloses(h) ==
    [h EXCEPT !.failures = 0, !.state = "closed",
              !.successes = Saturating(@ + 1, SuccessThreshold)]

\* Mutant: closing forgets to clear the failures.
SucceededKeepsFailures(h) ==
    LET successes == Saturating(h.successes + 1, SuccessThreshold)
    IN  [h EXCEPT !.successes = successes,
                  !.state = IF @ = "half_open" /\ successes >= SuccessThreshold
                            THEN "closed" ELSE @]

\* record_success
Succeeded(h) ==
    LET successes == Saturating(h.successes + 1, SuccessThreshold)
    IN  [h EXCEPT !.failures = 0, !.successes = successes,
                  !.state = IF @ = "half_open" /\ successes >= SuccessThreshold
                            THEN "closed" ELSE @]

\* record_failure: also for a request sent before the breaker tripped, which
\* then trips it anew.
Failed(h) ==
    LET failures == Saturating(h.failures + 1, FailureThreshold)
    IN  IF h.state = "half_open" \/ failures >= FailureThreshold
        THEN [state |-> "open", wait |-> ResetTimeout, failures |-> failures,
              successes |-> 0]
        ELSE [h EXCEPT !.failures = failures, !.successes = 0]

\* Time passes for every tripped breaker.
Tick ==
    /\ \E e \in Endpoints : health[e].wait > 0
    /\ health' = [e \in Endpoints |->
         [health[e] EXCEPT !.wait = IF @ > 0 THEN @ - 1 ELSE 0]]
    /\ UNCHANGED <<permits, caller, badLeft>>

-------------------------------------------------------------------------------
(* RpcGateway::call and attempt.                                            *)

At(c, pc) == caller[c].pc = pc
Target(c) == Head(caller[c].order)

\* select_order is taken once; with no selectable endpoint the call fails.
Call(c, idem) ==
    LET selectable == {e \in Endpoints : Selectable(health[e])}
    IN  /\ At(c, "idle")
        /\ \E order \in Bijection(1 .. Cardinality(selectable), selectable) :
             caller' = [caller EXCEPT
               ![c] = [NoCall EXCEPT
                 !.idem = idem, !.order = order,
                 !.pc = IF order = <<>> THEN "done" ELSE "attempt",
                 !.outcome = IF order = <<>> THEN "not_delivered" ELSE "ok"]]
        /\ UNCHANGED <<health, permits, badLeft>>

\* Mutant: an ambiguous failure is retried whatever the call does.
AllowsRetryAmbiguous(outcome, idem) == outcome \in {"not_delivered", "ambiguous"}

\* AttemptFailure::allows_retry
AllowsRetry(outcome, idem) ==
    \/ outcome = "not_delivered"
    \/ outcome = "ambiguous" /\ idem = "safe"

\* The loop of call: the next endpoint, or the result of this attempt.
AfterAttempt(call, outcome) ==
    LET rest == Tail(call.order)
    IN  IF AllowsRetry(outcome, call.idem) /\ rest # <<>>
        THEN [call EXCEPT !.pc = "attempt", !.order = rest, !.outcome = "ok"]
        ELSE [call EXCEPT !.pc = "done", !.order = <<>>, !.outcome = outcome]

\* A breaker that tripped since the order was taken refuses: not delivered.
Attempt(c) ==
    LET e == Target(c)
    IN  /\ At(c, "attempt")
        /\ IF Selectable(health[e])
           THEN /\ health' = [health EXCEPT ![e] = Admitted(@)]
                /\ caller' = [caller EXCEPT ![c].pc = "permit"]
           ELSE /\ caller' = [caller EXCEPT
                     ![c] = AfterAttempt(@, "not_delivered")]
                /\ UNCHANGED health
        /\ UNCHANGED <<permits, badLeft>>

\* Mutant: the saturated path hands back a permit it does not hold.
AcquireUnheld(c) ==
    LET e == Target(c)
    IN  /\ At(c, "permit")
        /\ IF permits[e] > 0
           THEN /\ permits' = [permits EXCEPT ![e] = @ - 1]
                /\ caller' = [caller EXCEPT ![c].pc = "sent"]
           ELSE /\ caller' = [caller EXCEPT
                     ![c] = AfterAttempt(@, "not_delivered")]
                /\ permits' = [permits EXCEPT ![e] = @ + 1]
        /\ UNCHANGED <<health, badLeft>>

\* try_acquire_owned: a saturated endpoint is skipped, not waited for.
Acquire(c) ==
    LET e == Target(c)
    IN  /\ At(c, "permit")
        /\ IF permits[e] > 0
           THEN /\ permits' = [permits EXCEPT ![e] = @ - 1]
                /\ caller' = [caller EXCEPT ![c].pc = "sent"]
           ELSE /\ caller' = [caller EXCEPT
                     ![c] = AfterAttempt(@, "not_delivered")]
                /\ UNCHANGED permits
        /\ UNCHANGED <<health, badLeft>>

\* The node's side of an attempt: which outcomes mean the request arrived.
Arrives(outcome) ==
    CASE outcome \in {"ok", "rejected"} -> {TRUE}
      [] outcome = "not_delivered"      -> {FALSE}
      [] outcome = "ambiguous"          -> BOOLEAN

\* send returns and the permit is dropped before the answer is interpreted.
Respond(c, outcome) ==
    LET e == Target(c)
    IN  /\ At(c, "sent")
        /\ IF outcome = "ok"
           THEN UNCHANGED badLeft
           ELSE badLeft > 0 /\ badLeft' = badLeft - 1
        /\ permits' = [permits EXCEPT ![e] = @ + 1]
        /\ \E arrives \in Arrives(outcome) :
             caller' = [caller EXCEPT ![c].pc = "record",
                                      ![c].outcome = outcome,
                                      ![c].arrived = @ \/ arrives]
        /\ UNCHANGED health

\* The outcome moves the breaker, unless the node rejected the request.
Record(c) ==
    LET outcome == caller[c].outcome
    IN  /\ At(c, "record")
        /\ health' = [health EXCEPT
             ![Target(c)] = CASE outcome = "ok"       -> Succeeded(@)
                              [] outcome = "rejected" -> @
                              [] OTHER                -> Failed(@)]
        /\ caller' = [caller EXCEPT ![c] = AfterAttempt(@, outcome)]
        /\ UNCHANGED <<permits, badLeft>>

\* The caller takes the result.
Return(c) ==
    /\ At(c, "done")
    /\ caller' = [caller EXCEPT ![c] = NoCall]
    /\ UNCHANGED <<health, permits, badLeft>>

CallerStep(c) ==
    \/ \E idem \in Idempotency : Call(c, idem)
    \/ Attempt(c) \/ Acquire(c) \/ Record(c) \/ Return(c)
    \/ \E outcome \in Outcomes : Respond(c, outcome)

Next == Tick \/ \E c \in Callers : CallerStep(c)

Spec == Init /\ [][Next]_vars

(***************************************************************************)
(* Time passes, and the tasks behind the calls are polling loops: a call   *)
(* that began goes on (send has a timeout) and another one follows it.     *)
(***************************************************************************)
FairSpec ==
    /\ Spec
    /\ WF_vars(Tick)
    /\ \A c \in Callers : WF_vars(CallerStep(c))

-------------------------------------------------------------------------------

Health == [state : {"closed", "open", "half_open"}, wait : 0 .. ResetTimeout,
           failures : 0 .. FailureThreshold, successes : 0 .. SuccessThreshold]

CallState ==
    [pc : {"idle", "attempt", "permit", "sent", "record", "done"},
     idem : Idempotency, order : Seq(Endpoints), outcome : Outcomes,
     arrived : BOOLEAN]

\* Breakers, permits and calls have their types.
TypeOK ==
    /\ health \in [Endpoints -> Health]
    /\ permits \in [Endpoints -> 0 .. MaxInflight]
    /\ caller \in [Callers -> CallState]
    /\ badLeft \in 0 .. MaxBad

(***************************************************************************)
(* A call that is unsafe on timeout (eth_sendRawTransaction) goes to an    *)
(* endpoint only while no endpoint can have received it, and fails as not  *)
(* delivered only if none has: failover never sends it twice (call,        *)
(* allows_retry).                                                          *)
(***************************************************************************)
UnsafeIsNeverResent ==
    \A c \in Callers :
        /\ caller[c].idem = "unsafe_on_timeout"
        /\ \/ \E pc \in {"attempt", "permit", "sent"} : At(c, pc)
           \/ At(c, "done") /\ caller[c].outcome = "not_delivered"
        => ~caller[c].arrived

(***************************************************************************)
(* The permits of an endpoint are free or held by the requests in flight   *)
(* to it: no path through attempt leaks one or returns one twice.          *)
(***************************************************************************)
PermitsBalance ==
    \A e \in Endpoints :
        permits[e]
          + Cardinality({c \in Callers : At(c, "sent") /\ Target(c) = e})
            = MaxInflight

(***************************************************************************)
(* A closed breaker is below its failure threshold and a half-open one     *)
(* below its success threshold, although answers to requests of an earlier *)
(* state of the breaker are recorded in a later one.                       *)
(***************************************************************************)
BreakerMatchesCounters ==
    \A e \in Endpoints :
        /\ health[e].state = "closed" => health[e].failures < FailureThreshold
        /\ health[e].state = "half_open" =>
             health[e].successes < SuccessThreshold

(***************************************************************************)
(* A tripped breaker stays open until its timeout: a late success of a     *)
(* request sent before it tripped does not close it (record_success).      *)
(***************************************************************************)
TrippedStaysOpen ==
    [][\A e \in Endpoints :
         health[e].state = "open" /\ health[e].wait > 0
             => health'[e].state = "open"]_vars

(***************************************************************************)
(* Once nodes answer again, a gateway whose breakers all tripped has a     *)
(* closed one in the end, probed by the calls alone.                       *)
(***************************************************************************)
GatewayRecovers ==
    (\A e \in Endpoints : health[e].state # "closed")
        ~> (\E e \in Endpoints : health[e].state = "closed")
===============================================================================
