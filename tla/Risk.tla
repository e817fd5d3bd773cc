--------------------------------- MODULE Risk ---------------------------------
(***************************************************************************)
(* crates/risk: the policy, a pure function of the facts its caller        *)
(* gathered.  Policy is the RiskConfig; the optional values of the code    *)
(* are sets of at most one element, and a per-asset limit is a function    *)
(* from the keys the operator configured to amounts.                       *)
(***************************************************************************)
EXTENDS Integers, FiniteSetsExt

CONSTANTS
    Policy,
    MaxAmount   \* the largest Amount, i128::MAX

\* Amount::checked_add, of the non-negative amounts met here
Overflows(m, n) == m + n > MaxAmount

\* RiskEngine::limit: chain:SYMBOL, else SYMBOL, else none
Limit(limits, input) ==
    LET onChain == <<input.chain, input.asset_symbol>>
    IN  IF onChain \in DOMAIN limits THEN {limits[onChain]}
        ELSE {limits[key] : key \in DOMAIN limits \cap {<<input.asset_symbol>>}}

\* Mutant: the request that reaches the cap is let through.
DailyCountBeyond(input) ==
    \E cap \in Policy.max_withdrawals_per_user_per_day : input.daily_count > cap

DailyCountExceeded(input) ==
    \E cap \in Policy.max_withdrawals_per_user_per_day :
        input.daily_count >= cap

DailyLimitExceeded(input) ==
    \E cap \in Limit(Policy.max_per_user_per_day, input) :
        input.daily_total + input.amount > cap

Rule(code, broken) == [code |-> code, broken |-> broken]

\* The rules in the order they are tried.
Rules(input) ==
    <<Rule("maintenance_mode", Policy.maintenance_mode),
      Rule("invalid_amount", input.amount <= 0),
      Rule("asset_withdrawals_disabled",
           ~input.withdrawals_enabled_for_asset),
      Rule("chain_not_allowed",
           Policy.allowed_chains # {}
             /\ input.chain \notin Policy.allowed_chains),
      Rule("destination_denylisted",
           input.destination \in Policy.destination_denylist),
      Rule("destination_is_hot_wallet", input.destination \in input.hot_wallet),
      Rule("destination_is_internal", input.is_foreign_deposit_address),
      Rule("below_minimum",
           \E min \in Limit(Policy.min_per_request, input) :
               input.amount < min),
      Rule("above_maximum",
           \E max \in Limit(Policy.max_per_request, input) :
               input.amount > max),
      Rule("daily_count_exceeded", DailyCountExceeded(input)),
      Rule("amount_overflow",
           Limit(Policy.max_per_user_per_day, input) # {}
             /\ Overflows(input.daily_total, input.amount)),
      Rule("daily_limit_exceeded", DailyLimitExceeded(input)),
      Rule("insufficient_balance", input.available_balance < input.amount)>>

Allow == [verdict |-> "allow", code |-> "allow"]
ManualApproval ==
    [verdict |-> "manual_approval", code |-> "manual_approval_required"]
Deny(code) == [verdict |-> "deny", code |-> code]

\* RiskEngine::evaluate: the first rule broken denies; then large amounts are
\* held for an operator.
Evaluate(input) ==
    LET rules == Rules(input)
        denials == {i \in DOMAIN rules : rules[i].broken}
    IN  IF denials # {}
        THEN Deny(rules[Min(denials)].code)
        ELSE IF \E threshold \in Limit(Policy.manual_approval_threshold, input) :
                    input.amount > threshold
             THEN ManualApproval
             ELSE Allow
===============================================================================
