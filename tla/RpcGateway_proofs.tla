-------------------------- MODULE RpcGateway_proofs --------------------------
(***************************************************************************)
(* Proofs about the JSON-RPC gateway, for any endpoints, callers,          *)
(* thresholds and number of permits.  One inductive invariant carries the  *)
(* three safety invariants; the breaker's action property follows from it. *)
(***************************************************************************)
EXTENDS RpcGateway, FiniteSetTheorems, TLAPS

(***************************************************************************)
(* The inductive invariant.                                                *)
(***************************************************************************)

\* A call between two endpoints, or at one, has an endpoint to go to.
HasTarget(call) ==
    call.pc \in {"attempt", "permit", "sent", "record"} => call.order # <<>>

\* What UnsafeIsNeverResent says of one call, extended to the moment between
\* the answer and its interpretation.
NotYetReceived(call) ==
    /\ call.idem = "unsafe_on_timeout"
    /\ \/ call.pc \in {"attempt", "permit", "sent"}
       \/ call.pc \in {"record", "done"} /\ call.outcome = "not_delivered"
    => ~call.arrived

\* What BreakerMatchesCounters says of one breaker.
BelowThresholds(h) ==
    /\ h.state = "closed" => h.failures < FailureThreshold
    /\ h.state = "half_open" => h.successes < SuccessThreshold

InFlight(e) == {c \in Callers : At(c, "sent") /\ Target(c) = e}

IInv ==
    /\ TypeOK
    /\ \A e \in Endpoints :
         /\ BelowThresholds(health[e])
         /\ permits[e] + Cardinality(InFlight(e)) = MaxInflight
    /\ \A c \in Callers : HasTarget(caller[c]) /\ NotYetReceived(caller[c])

(***************************************************************************)
(* The operators of the model.                                             *)
(***************************************************************************)

\* The order select_order returns is a sequence of endpoints.
LEMMA OrdersAreSequences ==
    ASSUME NEW S \in SUBSET Endpoints
    PROVE  Bijection(1 .. Cardinality(S), S) \subseteq Seq(Endpoints)
<1>1. IsFiniteSet(S)
  BY FS_Subset, GatewayAssumption DEF GatewayAssumption
<1>2. Cardinality(S) \in Nat
  BY <1>1, FS_CardinalityType
<1> QED
  BY <1>2 DEF Bijection, Injection

\* allows_request, record_success, record_failure and the passing of time keep
\* a breaker's counters below the thresholds of its state.
LEMMA BreakerSteps ==
    ASSUME NEW h \in Health, BelowThresholds(h)
    PROVE  \A g \in {Admitted(h), Succeeded(h), Failed(h),
                     [h EXCEPT !.wait = IF @ > 0 THEN @ - 1 ELSE 0]} :
               g \in Health /\ BelowThresholds(g)
<1> USE DEF Health, BelowThresholds
<1>0. /\ FailureThreshold \in Nat \ {0} /\ SuccessThreshold \in Nat \ {0}
      /\ ResetTimeout \in Nat \ {0}
  BY GatewayAssumption DEF GatewayAssumption
<1>h. /\ h = [state |-> h.state, wait |-> h.wait, failures |-> h.failures,
              successes |-> h.successes]
      /\ h.state \in {"closed", "open", "half_open"}
      /\ h.wait \in 0 .. ResetTimeout /\ h.failures \in 0 .. FailureThreshold
      /\ h.successes \in 0 .. SuccessThreshold
  OBVIOUS
<1>1. Admitted(h) \in Health /\ BelowThresholds(Admitted(h))
  <2>1. CASE h.state = "open"
    <3>1. Admitted(h) = [state |-> "half_open", wait |-> h.wait,
                         failures |-> h.failures, successes |-> 0]
      BY <1>h, <2>1, Zenon DEF Admitted
    <3> QED
      BY <1>0, <1>h, <3>1
  <2> QED
    BY <2>1 DEF Admitted
<1>2. Succeeded(h) \in Health /\ BelowThresholds(Succeeded(h))
  <2> DEFINE successes == Saturating(h.successes + 1, SuccessThreshold)
             g(state) == [state |-> state, wait |-> h.wait, failures |-> 0,
                          successes |-> successes]
  <2>1. successes \in 0 .. SuccessThreshold
    BY <1>0, <1>h DEF Saturating
  <2> HIDE DEF successes
  <2>3. CASE h.state = "half_open" /\ successes >= SuccessThreshold
    <3>1. Succeeded(h) = [h EXCEPT !.failures = 0, !.successes = successes,
                                   !.state = "closed"]
      BY <2>3 DEF Succeeded, successes
    <3>2. Succeeded(h) = g("closed")
      BY <1>h, <3>1, Zenon
    <3> QED
      BY <1>0, <1>h, <2>1, <3>2
  <2>4. CASE ~(h.state = "half_open" /\ successes >= SuccessThreshold)
    <3>1. Succeeded(h) = [h EXCEPT !.failures = 0, !.successes = successes]
      BY <2>4, Zenon DEF Succeeded, successes
    <3>2. Succeeded(h) = g(h.state)
      BY <1>h, <3>1, Zenon
    <3> QED
      BY <1>0, <1>h, <2>1, <2>4, <3>2
  <2> QED
    BY <2>3, <2>4
<1>3. Failed(h) \in Health /\ BelowThresholds(Failed(h))
  <2> DEFINE failures == Saturating(h.failures + 1, FailureThreshold)
  <2>1. failures \in 0 .. FailureThreshold
    BY <1>0, <1>h DEF Saturating
  <2> HIDE DEF failures
  <2>2. CASE h.state = "half_open" \/ failures >= FailureThreshold
    <3>1. Failed(h) = [state |-> "open", wait |-> ResetTimeout,
                       failures |-> failures, successes |-> 0]
      BY <2>2 DEF Failed, failures
    <3> QED
      BY <1>0, <2>1, <3>1
  <2>3. CASE ~(h.state = "half_open" \/ failures >= FailureThreshold)
    <3>1. Failed(h) = [state |-> h.state, wait |-> h.wait,
                       failures |-> failures, successes |-> 0]
      BY <1>h, <2>3, Zenon DEF Failed, failures
    <3> QED
      BY <1>0, <1>h, <2>1, <2>3, <3>1
  <2> QED
    BY <2>2, <2>3
<1>4. LET g == [h EXCEPT !.wait = IF @ > 0 THEN @ - 1 ELSE 0]
      IN  g \in Health /\ BelowThresholds(g)
  BY <1>0, <1>h
<1> QED
  BY <1>1, <1>2, <1>3, <1>4

\* The loop of call keeps what is known of a call whose attempt ended: if an
\* unsafe call was not delivered by it, no endpoint has received that call.
LEMMA AfterAttemptSteps ==
    ASSUME NEW call \in CallState, call.order # <<>>, NEW outcome \in Outcomes,
           /\ call.idem = "unsafe_on_timeout" /\ outcome = "not_delivered"
           => ~call.arrived
    PROVE  LET next == AfterAttempt(call, outcome)
           IN  /\ next \in CallState /\ HasTarget(next) /\ NotYetReceived(next)
               /\ next.pc # "sent"
<1> DEFINE next == AfterAttempt(call, outcome)
<1>1. Tail(call.order) \in Seq(Endpoints) /\ <<>> \in Seq(Endpoints)
  BY DEF CallState
<1>2. next \in CallState /\ next.pc # "sent"
  BY <1>1, Zenon DEF AfterAttempt, CallState, Outcomes
<1>3. HasTarget(next)
  BY DEF AfterAttempt, CallState, HasTarget
<1>4. NotYetReceived(next)
  BY DEF AfterAttempt, CallState, NotYetReceived, AllowsRetry, Idempotency
<1> QED
  BY <1>2, <1>3, <1>4

\* A step of a call that is in flight neither before nor after it changes no
\* endpoint's requests in flight.
LEMMA SameFlights ==
    ASSUME caller \in [Callers -> CallState],
           NEW c \in Callers, ~At(c, "sent"),
           NEW call, call.pc # "sent", caller' = [caller EXCEPT ![c] = call],
           NEW e \in Endpoints
    PROVE  InFlight(e)' = InFlight(e)
  BY DEF InFlight, At, Target

\* The requests in flight to an endpoint are finitely many.
LEMMA FlightsAreFinite ==
    ASSUME NEW e \in Endpoints
    PROVE  IsFiniteSet(InFlight(e)) /\ Cardinality(InFlight(e)) \in Nat
<1>1. InFlight(e) \in SUBSET Callers
  BY DEF InFlight
<1>2. IsFiniteSet(InFlight(e))
  BY <1>1, FS_Subset, GatewayAssumption DEF GatewayAssumption
<1> QED
  BY <1>2, FS_CardinalityType

(***************************************************************************)
(* The invariant is inductive.                                             *)
(***************************************************************************)

\* A step of one call that takes and returns no permit keeps the invariant if
\* it keeps the call's part of it and the breakers'.
LEMMA CallStep ==
    ASSUME IInv, NEW c \in Callers, ~At(c, "sent"),
           NEW call \in CallState, call.pc # "sent",
           HasTarget(call), NotYetReceived(call),
           caller' = [caller EXCEPT ![c] = call],
           health' \in [Endpoints -> Health],
           \A e \in Endpoints : BelowThresholds(health'[e]),
           UNCHANGED <<permits, badLeft>>
    PROVE  IInv'
<1>1. TypeOK'
  BY DEF IInv, TypeOK
<1>2. \A e \in Endpoints : InFlight(e)' = InFlight(e)
  BY SameFlights, Zenon DEF IInv, TypeOK
<1>3. \A d \in Callers : HasTarget(caller'[d]) /\ NotYetReceived(caller'[d])
  BY DEF IInv, TypeOK
<1> QED
  BY <1>1, <1>2, <1>3 DEF IInv

\* A breaker that an attempt or an answer moved, the others left alone.
LEMMA OneBreaker ==
    ASSUME IInv, NEW e \in Endpoints, NEW g \in Health, BelowThresholds(g),
           health' = [health EXCEPT ![e] = g]
    PROVE  /\ health' \in [Endpoints -> Health]
           /\ \A f \in Endpoints : BelowThresholds(health'[f])
  BY DEF IInv, TypeOK

\* Where a call is going is an endpoint.
LEMMA TargetIsEndpoint ==
    ASSUME IInv, NEW c \in Callers,
           caller[c].pc \in {"attempt", "permit", "sent", "record"}
    PROVE  /\ caller[c] \in CallState /\ caller[c].order # <<>>
           /\ Target(c) \in Endpoints
<1>1. caller[c] \in CallState /\ caller[c].order # <<>>
  BY DEF IInv, TypeOK, HasTarget
<1>2. caller[c].order \in Seq(Endpoints)
  BY <1>1 DEF CallState
<1> QED
  BY <1>1, <1>2 DEF Target

LEMMA InitEstablishes == Init => IInv
<1> SUFFICES ASSUME Init PROVE IInv
  OBVIOUS
<1> USE GatewayAssumption DEF GatewayAssumption
<1>1. Healthy \in Health /\ BelowThresholds(Healthy)
  BY DEF Healthy, Health, BelowThresholds
<1>2. NoCall \in CallState /\ HasTarget(NoCall) /\ NotYetReceived(NoCall)
  BY DEF NoCall, CallState, Idempotency, Outcomes, HasTarget, NotYetReceived
<1>3. TypeOK
  BY <1>1, <1>2 DEF Init, TypeOK
<1>4. \A e \in Endpoints : InFlight(e) = {}
  BY DEF Init, InFlight, At, NoCall
<1>5. \A e \in Endpoints : permits[e] + Cardinality(InFlight(e)) = MaxInflight
  BY <1>4, FS_EmptySet DEF Init
<1> QED
  BY <1>1, <1>2, <1>3, <1>5 DEF Init, IInv

LEMMA CallPreserves ==
    ASSUME IInv, NEW c \in Callers, NEW idem \in Idempotency, Call(c, idem)
    PROVE  IInv'
<1> DEFINE selectable == {e \in Endpoints : Selectable(health[e])}
           begun(order) ==
             [NoCall EXCEPT
                !.idem = idem, !.order = order,
                !.pc = IF order = <<>> THEN "done" ELSE "attempt",
                !.outcome = IF order = <<>> THEN "not_delivered" ELSE "ok"]
<1>1. PICK order \in Bijection(1 .. Cardinality(selectable), selectable) :
        caller' = [caller EXCEPT ![c] = begun(order)]
  BY Zenon DEF Call
<1>2. order \in Seq(Endpoints)
  BY OrdersAreSequences
<1>3. /\ begun(order) \in CallState /\ begun(order).pc # "sent"
      /\ HasTarget(begun(order)) /\ NotYetReceived(begun(order))
  BY <1>2, Zenon DEF NoCall, CallState, Idempotency, Outcomes, HasTarget,
              NotYetReceived
<1>4. UNCHANGED <<health, permits, badLeft>> /\ ~At(c, "sent")
  BY DEF Call, At
<1>5. /\ health' \in [Endpoints -> Health]
      /\ \A e \in Endpoints : BelowThresholds(health'[e])
  BY <1>4 DEF IInv, TypeOK
<1> HIDE DEF begun
<1> QED
  BY <1>1, <1>3, <1>4, <1>5, CallStep, Zenon

LEMMA AttemptPreserves ==
    ASSUME IInv, NEW c \in Callers, Attempt(c)
    PROVE  IInv'
<1> DEFINE e == Target(c)
<1>1. caller[c] \in CallState /\ caller[c].order # <<>> /\ e \in Endpoints
  BY TargetIsEndpoint DEF Attempt, At
<1>2. ~At(c, "sent") /\ UNCHANGED <<permits, badLeft>>
  BY DEF Attempt, At
<1>3. NotYetReceived(caller[c]) /\ caller[c].pc = "attempt"
  BY DEF IInv, Attempt, At
<1>4. CASE Selectable(health[e])
  <2> DEFINE call == [caller[c] EXCEPT !.pc = "permit"]
  <2>1. caller' = [caller EXCEPT ![c] = call]
    BY <1>4 DEF Attempt
  <2>2. call \in CallState /\ call.pc # "sent"
    BY <1>1 DEF CallState
  <2>3. HasTarget(call) /\ NotYetReceived(call)
    BY <1>1, <1>3 DEF HasTarget, NotYetReceived, CallState
  <2>4. health[e] \in Health /\ BelowThresholds(health[e])
    BY <1>1 DEF IInv, TypeOK
  <2>5. health' = [health EXCEPT ![e] = Admitted(health[e])]
    BY <1>4 DEF Attempt
  <2>6. /\ health' \in [Endpoints -> Health]
        /\ \A f \in Endpoints : BelowThresholds(health'[f])
    BY <1>1, <2>4, <2>5, BreakerSteps, OneBreaker, Zenon
  <2> HIDE DEF call
  <2> QED
    BY <1>2, <2>1, <2>2, <2>3, <2>6, CallStep, Zenon
<1>5. CASE ~Selectable(health[e])
  <2> DEFINE call == AfterAttempt(caller[c], "not_delivered")
  <2>1. caller' = [caller EXCEPT ![c] = call] /\ UNCHANGED health
    BY <1>5 DEF Attempt
  <2>2. /\ call \in CallState /\ call.pc # "sent"
        /\ HasTarget(call) /\ NotYetReceived(call)
    BY <1>1, <1>3, AfterAttemptSteps DEF NotYetReceived, Outcomes
  <2>3. /\ health' \in [Endpoints -> Health]
        /\ \A f \in Endpoints : BelowThresholds(health'[f])
    BY <2>1 DEF IInv, TypeOK
  <2> HIDE DEF call
  <2> QED
    BY <1>2, <2>1, <2>2, <2>3, CallStep, Zenon
<1> QED
  BY <1>4, <1>5

\* A permit is taken for a request that leaves, and only for that one.
LEMMA AcquirePreserves ==
    ASSUME IInv, NEW c \in Callers, Acquire(c)
    PROVE  IInv'
<1>1. caller[c] \in CallState /\ caller[c].order # <<>>
  BY TargetIsEndpoint DEF Acquire, At
<1>e. PICK e \in Endpoints : e = Target(c)
  BY TargetIsEndpoint DEF Acquire, At
<1>2. ~At(c, "sent") /\ UNCHANGED <<health, badLeft>>
  BY DEF Acquire, At
<1>3. NotYetReceived(caller[c]) /\ caller[c].pc = "permit"
  BY DEF IInv, Acquire, At
<1>4. /\ health' \in [Endpoints -> Health]
      /\ \A f \in Endpoints : BelowThresholds(health'[f])
  BY <1>2, Zenon DEF IInv, TypeOK
<1>5. CASE permits[e] > 0
  <2> DEFINE call == [caller[c] EXCEPT !.pc = "sent"]
  <2>1. /\ caller' = [caller EXCEPT ![c] = call]
        /\ permits' = [permits EXCEPT ![e] = permits[e] - 1]
    BY <1>5, <1>e DEF Acquire
  <2>2. call \in CallState /\ call.pc = "sent" /\ call.order = caller[c].order
    BY <1>1 DEF CallState
  <2>3. HasTarget(call) /\ NotYetReceived(call)
    BY <1>1, <1>3 DEF HasTarget, NotYetReceived, CallState
  <2> HIDE DEF call
  <2>4. caller \in [Callers -> CallState]
    BY DEF IInv, TypeOK
  <2>5. \A f \in Endpoints :
          InFlight(f)' = IF f = e THEN InFlight(f) \cup {c} ELSE InFlight(f)
    BY <1>2, <1>e, <2>1, <2>2, <2>4, Zenon DEF InFlight, At, Target
  <2>6. c \notin InFlight(e)
    BY <1>2 DEF InFlight
  <2>7. Cardinality(InFlight(e) \cup {c}) = Cardinality(InFlight(e)) + 1
    BY <2>6, FlightsAreFinite, FS_AddElement, Zenon
  <2>8. /\ permits \in [Endpoints -> 0 .. MaxInflight] /\ MaxInflight \in Nat
        /\ \A f \in Endpoints :
             permits[f] + Cardinality(InFlight(f)) = MaxInflight
    BY GatewayAssumption DEF IInv, TypeOK, GatewayAssumption
  <2>9. /\ permits' \in [Endpoints -> 0 .. MaxInflight]
        /\ permits'[e] = permits[e] - 1
        /\ \A f \in Endpoints \ {e} : permits'[f] = permits[f]
    BY <1>5, <2>1, <2>8
  <2>10. permits'[e] + Cardinality(InFlight(e)') = MaxInflight
    <3>1. InFlight(e)' = InFlight(e) \cup {c}
      BY <2>5
    <3>2. Cardinality(InFlight(e)) \in Nat
      BY FlightsAreFinite
    <3>3. permits[e] \in 0 .. MaxInflight
      BY <2>8
    <3> QED
      BY <2>7, <2>8, <2>9, <3>1, <3>2, <3>3
  <2>11. \A f \in Endpoints :
           permits'[f] + Cardinality(InFlight(f)') = MaxInflight
    BY <2>5, <2>8, <2>9, <2>10
  <2>12. \A d \in Callers : HasTarget(caller'[d]) /\ NotYetReceived(caller'[d])
    BY <2>1, <2>3, <2>4 DEF IInv
  <2>13. TypeOK'
    BY <1>2, <1>4, <2>1, <2>2, <2>4, <2>9 DEF IInv, TypeOK
  <2> QED
    BY <1>4, <2>11, <2>12, <2>13 DEF IInv
<1>6. CASE ~(permits[e] > 0)
  <2> DEFINE call == AfterAttempt(caller[c], "not_delivered")
  <2>1. caller' = [caller EXCEPT ![c] = call] /\ UNCHANGED permits
    BY <1>6, <1>e DEF Acquire
  <2>2. /\ call \in CallState /\ call.pc # "sent"
        /\ HasTarget(call) /\ NotYetReceived(call)
    BY <1>1, <1>3, AfterAttemptSteps DEF NotYetReceived, Outcomes
  <2> HIDE DEF call
  <2> QED
    BY <1>2, <1>4, <2>1, <2>2, CallStep, Zenon
<1> QED
  BY <1>5, <1>6

\* The permit comes back with the answer, whatever the answer is.
LEMMA RespondPreserves ==
    ASSUME IInv, NEW c \in Callers, NEW outcome \in Outcomes,
           Respond(c, outcome)
    PROVE  IInv'
<1>1. caller[c] \in CallState /\ caller[c].order # <<>>
  BY TargetIsEndpoint DEF Respond, At
<1>e. PICK e \in Endpoints : e = Target(c)
  BY TargetIsEndpoint DEF Respond, At
<1>2. UNCHANGED health /\ badLeft' \in 0 .. MaxBad
  <2>1. MaxBad \in Nat /\ badLeft \in 0 .. MaxBad
    BY GatewayAssumption DEF IInv, TypeOK, GatewayAssumption
  <2>2. badLeft' = badLeft \/ (badLeft > 0 /\ badLeft' = badLeft - 1)
    BY DEF Respond
  <2>3. UNCHANGED health
    BY DEF Respond
  <2> QED
    BY <2>1, <2>2, <2>3
<1>3. NotYetReceived(caller[c]) /\ caller[c].pc = "sent"
  BY DEF IInv, Respond, At
<1>4. /\ health' \in [Endpoints -> Health]
      /\ \A f \in Endpoints : BelowThresholds(health'[f])
  BY <1>2, Zenon DEF IInv, TypeOK
<1> DEFINE answered(arrives) ==
      [caller[c] EXCEPT !.pc = "record", !.outcome = outcome,
                        !.arrived = caller[c].arrived \/ arrives]
<1>5. PICK arrives \in Arrives(outcome) :
        caller' = [caller EXCEPT ![c] = answered(arrives)]
  BY DEF Respond
<1> DEFINE call == answered(arrives)
<1>6. arrives \in BOOLEAN /\ (outcome = "not_delivered" => ~arrives)
  BY Zenon DEF Arrives, Outcomes
<1>7. call \in CallState /\ call.pc = "record"
  BY <1>1, <1>6, Zenon DEF CallState
<1>8. HasTarget(call) /\ NotYetReceived(call)
  BY <1>1, <1>3, <1>6 DEF HasTarget, NotYetReceived, CallState
<1> HIDE DEF call
<1>9. caller' = [caller EXCEPT ![c] = call] /\ caller \in [Callers -> CallState]
  BY <1>5 DEF call, IInv, TypeOK
<1>10. \A f \in Endpoints :
         InFlight(f)' = IF f = e THEN InFlight(f) \ {c} ELSE InFlight(f)
  BY <1>e, <1>7, <1>9 DEF InFlight, At, Target
<1>11. c \in InFlight(e)
  BY <1>3, <1>e DEF InFlight, At
<1>12. Cardinality(InFlight(e) \ {c}) = Cardinality(InFlight(e)) - 1
  BY <1>11, FlightsAreFinite, FS_RemoveElement, Zenon
<1>13. /\ permits \in [Endpoints -> 0 .. MaxInflight] /\ MaxInflight \in Nat
       /\ \A f \in Endpoints :
            permits[f] + Cardinality(InFlight(f)) = MaxInflight
  BY GatewayAssumption DEF IInv, TypeOK, GatewayAssumption
<1>14. Cardinality(InFlight(e)) > 0
  BY <1>11, FlightsAreFinite, FS_EmptySet
<1>15. /\ permits' \in [Endpoints -> 0 .. MaxInflight]
       /\ permits'[e] = permits[e] + 1
       /\ \A f \in Endpoints \ {e} : permits'[f] = permits[f]
  BY <1>e, <1>13, <1>14, FlightsAreFinite DEF Respond
<1>16. permits'[e] + Cardinality(InFlight(e)') = MaxInflight
  <2>1. InFlight(e)' = InFlight(e) \ {c}
    BY <1>10
  <2>2. Cardinality(InFlight(e)) \in Nat
    BY FlightsAreFinite
  <2>3. permits[e] \in 0 .. MaxInflight
    BY <1>13
  <2> QED
    BY <1>12, <1>13, <1>15, <2>1, <2>2, <2>3
<1>17. \A f \in Endpoints :
         permits'[f] + Cardinality(InFlight(f)') = MaxInflight
  BY <1>10, <1>13, <1>15, <1>16
<1>18. \A d \in Callers : HasTarget(caller'[d]) /\ NotYetReceived(caller'[d])
  BY <1>8, <1>9 DEF IInv
<1>19. TypeOK'
  BY <1>2, <1>4, <1>7, <1>9, <1>15, Zenon DEF IInv, TypeOK
<1> QED
  BY <1>4, <1>17, <1>18, <1>19 DEF IInv

LEMMA RecordPreserves ==
    ASSUME IInv, NEW c \in Callers, Record(c)
    PROVE  IInv'
<1> DEFINE e == Target(c)
           h == health[e]
           outcome == caller[c].outcome
           g == CASE outcome = "ok"       -> Succeeded(h)
                  [] outcome = "rejected" -> h
                  [] OTHER                -> Failed(h)
           call == AfterAttempt(caller[c], outcome)
<1>1. caller[c] \in CallState /\ caller[c].order # <<>> /\ e \in Endpoints
  BY TargetIsEndpoint DEF Record, At
<1>2. ~At(c, "sent") /\ UNCHANGED <<permits, badLeft>>
  BY DEF Record, At
<1>3. NotYetReceived(caller[c]) /\ caller[c].pc = "record"
  BY DEF IInv, Record, At
<1>4. h \in Health /\ BelowThresholds(h)
  BY <1>1 DEF IInv, TypeOK
<1>5. g \in Health /\ BelowThresholds(g)
  BY <1>4, BreakerSteps, Zenon
<1>6. health' = [health EXCEPT ![e] = g]
  BY DEF Record
<1>7. /\ health' \in [Endpoints -> Health]
      /\ \A f \in Endpoints : BelowThresholds(health'[f])
  <2> HIDE DEF e, g
  <2> QED
    BY <1>1, <1>5, <1>6, OneBreaker, Zenon
<1>8. caller' = [caller EXCEPT ![c] = call]
  BY DEF Record
<1>9. outcome \in Outcomes
  BY <1>1 DEF CallState
<1>10. /\ call \in CallState /\ call.pc # "sent"
       /\ HasTarget(call) /\ NotYetReceived(call)
  BY <1>1, <1>3, <1>9, AfterAttemptSteps DEF NotYetReceived
<1> HIDE DEF call
<1> QED
  BY <1>2, <1>7, <1>8, <1>10, CallStep, Zenon

LEMMA ReturnPreserves ==
    ASSUME IInv, NEW c \in Callers, Return(c)
    PROVE  IInv'
<1>1. ~At(c, "sent") /\ UNCHANGED <<health, permits, badLeft>>
  BY DEF Return, At
<1>2. caller' = [caller EXCEPT ![c] = NoCall]
  BY DEF Return
<1>3. /\ NoCall \in CallState /\ NoCall.pc # "sent"
      /\ HasTarget(NoCall) /\ NotYetReceived(NoCall)
  BY DEF NoCall, CallState, Idempotency, Outcomes, HasTarget, NotYetReceived
<1>4. /\ health' \in [Endpoints -> Health]
      /\ \A e \in Endpoints : BelowThresholds(health'[e])
  BY <1>1 DEF IInv, TypeOK
<1> QED
  BY <1>1, <1>2, <1>3, <1>4, CallStep, Zenon

LEMMA TickPreserves ==
    ASSUME IInv, Tick
    PROVE  IInv'
<1>1. UNCHANGED <<permits, caller, badLeft>>
  BY DEF Tick
<1>2. \A e \in Endpoints : health[e] \in Health /\ BelowThresholds(health[e])
  BY DEF IInv, TypeOK
<1>3. /\ health' \in [Endpoints -> Health]
      /\ \A e \in Endpoints : BelowThresholds(health'[e])
  BY <1>2, BreakerSteps DEF Tick
<1>4. \A e \in Endpoints : InFlight(e)' = InFlight(e)
  BY <1>1 DEF InFlight, At, Target
<1> QED
  BY <1>1, <1>3, <1>4 DEF IInv, TypeOK

LEMMA NextPreserves == IInv /\ [Next]_vars => IInv'
<1> SUFFICES ASSUME IInv, [Next]_vars PROVE IInv'
  OBVIOUS
<1>1. CASE Tick
  BY <1>1, TickPreserves
<1>2. ASSUME NEW c \in Callers, CallerStep(c) PROVE IInv'
  BY <1>2, CallPreserves, AttemptPreserves, AcquirePreserves, RecordPreserves,
     ReturnPreserves, RespondPreserves, Zenon DEF CallerStep
<1>3. CASE UNCHANGED vars
  <2>1. \A e \in Endpoints : InFlight(e)' = InFlight(e)
    BY <1>3 DEF vars, InFlight, At, Target
  <2> QED
    BY <1>3, <2>1 DEF vars, IInv, TypeOK
<1> QED
  BY <1>1, <1>2, <1>3 DEF Next

\* The inductive invariant holds throughout.
THEOREM Invariance == Spec => []IInv
  BY InitEstablishes, NextPreserves, PTL DEF Spec

(***************************************************************************)
(* The results.                                                            *)
(***************************************************************************)

\* RpcGateway::call: for any number of callers, endpoints and failures, a call
\* that is unsafe on timeout is sent on only while no endpoint can have it.
THEOREM FailoverIsSafe == Spec => []UnsafeIsNeverResent
<1>1. IInv => UnsafeIsNeverResent
  BY Zenon DEF IInv, NotYetReceived, UnsafeIsNeverResent, At
<1> QED
  BY <1>1, Invariance, PTL

\* RpcGateway::attempt: no interleaving of calls loses a permit of an endpoint
\* or returns one twice.
THEOREM PermitsAreConserved == Spec => []PermitsBalance
<1>1. IInv => PermitsBalance
  BY Zenon DEF IInv, InFlight, PermitsBalance
<1> QED
  BY <1>1, Invariance, PTL

\* EndpointHealth: the counters agree with the breaker's state, whichever
\* answers are recorded late.
THEOREM BreakersAreSound == Spec => []BreakerMatchesCounters
<1>1. IInv => BreakerMatchesCounters
  BY DEF IInv, BelowThresholds, BreakerMatchesCounters
<1> QED
  BY <1>1, Invariance, PTL

\* record_success and allows_request: nothing but its timeout lets a tripped
\* breaker out of the open state.
THEOREM TrippedSafety == Spec => TrippedStaysOpen
<1> DEFINE Kept(e) == health[e].state = "open" /\ health[e].wait > 0
                          => health'[e].state = "open"
<1>1. ASSUME IInv, [Next]_vars, NEW e \in Endpoints PROVE Kept(e)
  <2>t. /\ health \in [Endpoints -> Health] /\ health[e] \in Health
        /\ caller \in [Callers -> CallState]
    BY <1>1 DEF IInv, TypeOK
  <2>1. CASE Tick
    BY <2>1, <2>t DEF Tick, Health
  <2>2. ASSUME NEW c \in Callers, Attempt(c) PROVE Kept(e)
    <3>1. CASE Selectable(health[Target(c)])
      BY <2>2, <2>t, <3>1 DEF Attempt, Selectable, Health
    <3>2. CASE ~Selectable(health[Target(c)])
      BY <2>2, <3>2 DEF Attempt
    <3> QED
      BY <3>1, <3>2
  <2>3. ASSUME NEW c \in Callers, Record(c) PROVE Kept(e)
    <3>1. health[e].state = "open" => /\ Succeeded(health[e]).state = "open"
                                      /\ Failed(health[e]).state = "open"
      BY <2>t DEF Succeeded, Failed, Health
    <3>2. health'[e] = health[e] \/ health'[e] \in {Succeeded(health[e]),
                                                   Failed(health[e])}
      BY <2>3, <2>t DEF Record
    <3> QED
      BY <3>1, <3>2
  <2>4. CASE UNCHANGED health
    BY <2>4, Zenon
  <2>5. ASSUME NEW c \in Callers, CallerStep(c) PROVE Kept(e)
    BY <2>2, <2>3, <2>4, <2>5, Zenon
       DEF CallerStep, Call, Acquire, Return, Respond
  <2> QED
    BY <1>1, <2>1, <2>4, <2>5, Zenon DEF Next, vars
<1>2. IInv /\ [Next]_vars => [\A e \in Endpoints : Kept(e)]_vars
  BY <1>1
<1> QED
  BY <1>2, Invariance, PTL DEF Spec, TrippedStaysOpen
===============================================================================
