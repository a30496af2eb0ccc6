------------------------------- MODULE AIBudget -------------------------------
(*******************************************************************************)
(* The two daily AI budgets of an organization, backend/apps/ai/services.py:   *)
(* a token budget on the Organization row and an estimated cost budget on      *)
(* its provider configuration.  Callers reserve before the provider is asked   *)
(* and settle afterwards:                                                      *)
(*   job     execute_generation_job: both budgets, one commit per step         *)
(*   assist  BudgetedAIProvider outside a transaction: the cost budget only    *)
(*   plan    generate_mission_plan: both budgets inside one transaction, which *)
(*           keeps the two rows locked while the provider works                *)
(* Both budgets are set; an organization without one skips that half.          *)
(* Days pass at any moment, also while the provider works.  A call whose       *)
(* worker dies simply takes no further step.                                   *)
(*******************************************************************************)
EXTENDS Integers, FiniteSets, FiniteSetsExt

CONSTANTS
  Calls,
  Kind,          \* Kind[c]: "job", "assist" or "plan"
  TokenBudget,   \* ai_daily_token_budget
  R,             \* AI_CALL_RESERVATION_TOKENS
  CostBudget,    \* daily_budget_micros
  Estimate,      \* Estimate[c]: the cost reserved for c
  Bills,         \* what the provider may bill: records [tokens, micros]
  LastDay        \* bound on the days modelled

ASSUME CallsAssumption == IsFiniteSet(Calls) /\ Kind \in [Calls -> {"job", "assist", "plan"}]
ASSUME TokenAssumption == TokenBudget \in Nat \ {0} /\ R \in Nat \ {0}
ASSUME CostAssumption == CostBudget \in Nat \ {0} /\ Estimate \in [Calls -> Nat \ {0}]
ASSUME BillsAssumption == Bills \subseteq [tokens: Nat, micros: Nat]
ASSUME LastDayAssumption == LastDay \in Nat

VARIABLES
  today,
  used,     \* organization_daily_token_usage: tokens of ended runs started today
  tokens,   \* ai_daily_reserved_tokens and ai_daily_reserved_on
  cost,     \* daily_spent_micros, daily_reserved_micros and spent_on
  call,     \* where each call is, and on which day it took what it holds
  excess    \* what carried-over and underestimated calls explain of today's overshoot

vars == <<today, used, tokens, cost, call, excess>>

NoDay == -1
Days == 0..LastDay
Stages == {"new", "tokens", "denied", "reserved", "unopened", "uncharged", "open", "ended", "stranded"}

\* The stages in which c's reservation is still to be settled.
HoldsTokens == {"tokens", "denied", "reserved", "unopened", "open", "stranded"}
HoldsCost == {"reserved", "unopened", "uncharged", "open", "stranded"}

Is(c, kind, stage) == Kind[c] = kind /\ call[c].stage = stage
Moves(c, stage) == call' = [call EXCEPT ![c].stage = stage]

-----------------------------------------------------------------------------
Init ==
  /\ today = 0 /\ used = 0
  /\ tokens = [reserved |-> 0, on |-> NoDay]
  /\ cost = [spent |-> 0, reserved |-> 0, on |-> NoDay]
  /\ call = [c \in Calls |-> [stage |-> "new", tokensOn |-> NoDay, costOn |-> NoDay, runOn |-> NoDay]]
  /\ excess = [tokens |-> 0, micros |-> 0]

\* Counters of another day are reset, but only by a reservation (tokens) or by a
\* reservation or settlement (_reset_cost_day).
TokensOf(day) == IF tokens.on = day THEN tokens ELSE [reserved |-> 0, on |-> day]
CostOf(day) == IF cost.on = day THEN cost ELSE [spent |-> 0, reserved |-> 0, on |-> day]

TokensFit == used + TokensOf(today).reserved + R <= TokenBudget
CostFits_mut(c) == CostOf(today).spent + Estimate[c] <= CostBudget
CostFits(c) == CostOf(today).spent + CostOf(today).reserved + Estimate[c] <= CostBudget

Minus_mut(n, m) == n - m
Minus(n, m) == IF n > m THEN n - m ELSE 0

\* settle_ai_budget looks at no day.
SettledTokens == [tokens EXCEPT !.reserved = Minus(@, R)]
SettledCost(c, charge) ==
  [CostOf(today) EXCEPT !.reserved = Minus(@, Estimate[c]), !.spent = @ + charge]

\* What a settlement adds to today beyond what a reservation of today covered.
Overrun(day, charge, reservation) ==
  IF day = today THEN Minus(charge, reservation)
  ELSE IF charge > reservation THEN charge ELSE reservation

-----------------------------------------------------------------------------
(* reserve_ai_budget *)
ReserveTokens(c) ==
  /\ Is(c, "job", "new") /\ TokensFit
  /\ tokens' = [TokensOf(today) EXCEPT !.reserved = @ + R]
  /\ call' = [call EXCEPT ![c].stage = "tokens", ![c].tokensOn = today]
  /\ UNCHANGED <<today, used, cost, excess>>

RefuseTokens(c) ==
  /\ Is(c, "job", "new") /\ ~TokensFit
  /\ Moves(c, "ended")
  /\ UNCHANGED <<today, used, tokens, cost, excess>>

(* reserve_ai_cost.  A job that is denied still has its tokens to give back.  *)
ReserveCost(c) ==
  /\ Is(c, "job", "tokens") \/ Is(c, "assist", "new")
  /\ CostFits(c)
  /\ cost' = [CostOf(today) EXCEPT !.reserved = @ + Estimate[c]]
  /\ call' = [call EXCEPT ![c].stage = "reserved", ![c].costOn = today]
  /\ UNCHANGED <<today, used, tokens, excess>>

RefuseCost(c) ==
  /\ Is(c, "job", "tokens") \/ Is(c, "assist", "new")
  /\ ~CostFits(c)
  /\ Moves(c, IF Kind[c] = "job" THEN "denied" ELSE "ended")
  /\ UNCHANGED <<today, used, tokens, cost, excess>>

(* _create_run, or the failure to; then nothing was asked and nothing is charged. *)
OpenRun(c) ==
  /\ Is(c, "job", "reserved")
  /\ \/ call' = [call EXCEPT ![c].stage = "open", ![c].runOn = today]
     \/ Moves(c, "unopened")
  /\ UNCHANGED <<today, used, tokens, cost, excess>>

GiveBackTokens(c) ==
  /\ call[c].stage \in {"denied", "unopened"}
  /\ tokens' = SettledTokens
  /\ Moves(c, IF call[c].stage = "denied" THEN "ended" ELSE "uncharged")
  /\ excess' = [excess EXCEPT !.tokens = @ + Overrun(call[c].tokensOn, 0, R)]
  /\ UNCHANGED <<today, used, cost>>

GiveBackCost(c) ==
  /\ call[c].stage = "uncharged"
  /\ cost' = SettledCost(c, 0)
  /\ Moves(c, "ended")
  /\ excess' = [excess EXCEPT !.micros = @ + Overrun(call[c].costOn, 0, Estimate[c])]
  /\ UNCHANGED <<today, used, tokens>>

-----------------------------------------------------------------------------
(* The provider answered or failed.  Without usage in the answer no tokens   *)
(* are counted and the reservation is charged.                               *)

Charge(c, bill, known) == IF known THEN bill.micros ELSE Estimate[c]

\* _record_success or _record_failure in one transaction.  A canceled run keeps
\* no usage, so its tokens are never counted.
SettleJob(c, bill, known, counted) ==
  LET t == IF known /\ counted /\ call[c].runOn = today THEN bill.tokens ELSE 0
      charge == Charge(c, bill, known) IN
  /\ Is(c, "job", "open")
  /\ tokens' = SettledTokens
  /\ cost' = SettledCost(c, charge)
  /\ used' = used + t
  /\ excess' = [tokens |-> excess.tokens + Overrun(call[c].tokensOn, t, R),
                micros |-> excess.micros + Overrun(call[c].costOn, charge, Estimate[c])]
  /\ Moves(c, "ended")
  /\ UNCHANGED today

\* BudgetedAIProvider.generate, the finally clause.
SettleAssist(c, bill, known) ==
  LET charge == Charge(c, bill, known) IN
  /\ Is(c, "assist", "reserved")
  /\ cost' = SettledCost(c, charge)
  /\ excess' = [excess EXCEPT !.micros = @ + Overrun(call[c].costOn, charge, Estimate[c])]
  /\ Moves(c, "ended")
  /\ UNCHANGED <<today, used, tokens>>

\* The worker died after the provider was asked, or its job was reaped and the
\* settling transaction rolled back.
Strand(c) ==
  /\ Is(c, "job", "open") \/ Is(c, "assist", "reserved")
  /\ Moves(c, "stranded")
  /\ UNCHANGED <<today, used, tokens, cost, excess>>

(* generate_mission_plan.  Nobody else can reserve or settle before its      *)
(* transaction ends, by then perhaps on the next day.                        *)

\* The plan was accepted.  Its tokens were reserved and given back; its usage is
\* in no AIRun.
PlanSucceeds(c, bill, known) ==
  LET charge == Charge(c, bill, known) IN
  /\ Is(c, "plan", "new") /\ TokensFit /\ CostFits(c)
  /\ tokens' = TokensOf(today)
  /\ \/ /\ cost' = [CostOf(today) EXCEPT !.spent = @ + charge]
        /\ excess' = [excess EXCEPT !.micros = @ + Minus(charge, Estimate[c])]
        /\ UNCHANGED <<today, used>>
     \/ /\ today < LastDay
        /\ today' = today + 1 /\ used' = 0
        /\ cost' = [spent |-> charge, reserved |-> 0, on |-> today + 1]
        /\ excess' = [tokens |-> 0, micros |-> charge]
  /\ Moves(c, "ended")

\* Any failure, also of a validation after the answer, rolls everything back.
PlanFails(c) ==
  /\ Is(c, "plan", "new") /\ TokensFit /\ CostFits(c)
  /\ Moves(c, "ended")
  /\ UNCHANGED <<today, used, tokens, cost, excess>>

PlanRefused(c) ==
  /\ Is(c, "plan", "new") /\ ~(TokensFit /\ CostFits(c))
  /\ Moves(c, "ended")
  /\ UNCHANGED <<today, used, tokens, cost, excess>>

Midnight ==
  /\ today < LastDay
  /\ today' = today + 1
  /\ used' = 0
  /\ excess' = [tokens |-> 0, micros |-> 0]
  /\ UNCHANGED <<tokens, cost, call>>

-----------------------------------------------------------------------------
Reserving(c) ==
  \/ ReserveTokens(c) \/ RefuseTokens(c) \/ ReserveCost(c) \/ RefuseCost(c)
  \/ OpenRun(c) \/ GiveBackTokens(c) \/ GiveBackCost(c) \/ PlanRefused(c)

Settling(c) ==
  \/ Strand(c) \/ PlanFails(c)
  \/ \E bill \in Bills, known \in BOOLEAN :
       \/ SettleAssist(c, bill, known) \/ PlanSucceeds(c, bill, known)
       \/ \E counted \in BOOLEAN : SettleJob(c, bill, known, counted)

Next == (\E c \in Calls : Reserving(c) \/ Settling(c)) \/ Midnight

Spec == Init /\ [][Next]_vars

-----------------------------------------------------------------------------
(* Properties *)

TokenRow == [reserved: Nat, on: Days \cup {NoDay}]
CostRow == [spent: Nat, reserved: Nat, on: Days \cup {NoDay}]
CallRow == [stage: Stages, tokensOn: Days \cup {NoDay}, costOn: Days \cup {NoDay},
            runOn: Days \cup {NoDay}]

TypeOK ==
  /\ today \in Days /\ used \in Nat
  /\ tokens \in TokenRow /\ cost \in CostRow /\ call \in [Calls -> CallRow]
  /\ excess \in [tokens: Nat, micros: Nat]

\* Calls holding a token or cost reservation they took today.
TokenHolders == {c \in Calls : call[c].tokensOn = today /\ call[c].stage \in HoldsTokens}
CostHolders == {c \in Calls : call[c].costOn = today /\ call[c].stage \in HoldsCost}
Promised == MapThenSumSet(LAMBDA c : Estimate[c], CostHolders)
Held == R * Cardinality(TokenHolders)

(* The reserved tokens are those of calls that are still to settle: whatever   *)
(* is denied, fails to open, is canceled or settles late, nothing stays        *)
(* reserved that nobody holds, and only calls carried over from yesterday make *)
(* the row show less than today's calls hold.                                  *)
ReservationsAreHeld ==
  tokens.on = today =>
    tokens.reserved <= Held /\ Held <= tokens.reserved + excess.tokens

(* What today's runs used and what today's calls may still use stays within the  *)
(* token budget, but for calls that used more than was reserved for them and for *)
(* calls carried over midnight, whose settlement eats today's reservations.      *)
TokenOvershootIsExplained ==
  used + Held <= TokenBudget + excess.tokens

(* The same of the cost budget, where reservations differ from call to call.     *)
CostOvershootIsExplained ==
  (IF cost.on = today THEN cost.spent ELSE 0) + Promised <= CostBudget + excess.micros

(* The inductive invariant: a reservation of today is on today's row, and only *)
(* jobs reserve tokens one commit before they settle them.                     *)
OnTheRow ==
  /\ TokenHolders # {} => tokens.on = today
  /\ tokens.on <= today
  /\ \A c \in Calls :
       /\ call[c].tokensOn <= today
       /\ (Kind[c] # "job" \/ call[c].stage = "new") => call[c].tokensOn = NoDay

BudgetInv == TypeOK /\ OnTheRow /\ ReservationsAreHeld /\ TokenOvershootIsExplained
===============================================================================
