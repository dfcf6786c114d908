----------------------------- MODULE SellerPricing -----------------------------
(***************************************************************************)
(* The arithmetic of a listing's price, in cents of one currency: the      *)
(* floors below which nothing is sold, the place taken among the rivals,   *)
(* the configured strategies and the gate of the declared-stock selector.  *)
(* A price is net (what the seller gets, Eneba and Gamivo) or gross (what  *)
(* the buyer pays); rivals are gross, in ascending order.                  *)
(***************************************************************************)
EXTENDS Integers, Sequences, FiniteSetsExt, Functions

CONSTANTS
  Margin,         \* min_profit_margin_pct
  Commission,     \* commission_rate_percent
  Fee,            \* fixed_fee_cents
  ProviderFloor,  \* min_price_floor_cents
  Gap,            \* position_gap_threshold_pct
  MinDelta,       \* min_change_delta_cents
  Strategy,       \* price_strategy
  StrategyValue   \* price_strategy_value

ASSUME PercentType == Margin \in 1..99 /\ Commission \in 0..99
ASSUME CentsType == {Fee, ProviderFloor, Gap, MinDelta, StrategyValue} \subseteq Nat
ASSUME StrategyType ==
  Strategy \in {"fixed", "match_lowest", "undercut_fixed", "undercut_percent", "margin_target",
                "smart_compete"}
\* At a target margin of 100% the code, which refuses none, divides by zero.
ASSUME TargetMargin == Strategy = "margin_target" => StrategyValue # 100

CeilDiv(a, b) == -((-a) \div b)
Round(a, b) == (2 * a + b) \div (2 * b)

\* computeProfitabilityFloorCents; a net price owes no commission and no fee
ProfitFloor(cost, net) ==
  IF net THEN CeilDiv(cost * (100 + Margin), 100)
         ELSE CeilDiv(cost * (100 + Margin) + 100 * Fee, 100 - Commission)

BreakEven(cost, net) == IF net THEN cost ELSE CeilDiv(100 * (cost + Fee), 100 - Commission)

\* getEffectiveMinPrice without a manual floor
EffectiveMin(cost, net) == Max({BreakEven(cost, net), ProviderFloor, ProfitFloor(cost, net)})

\* reverseGrossToSellerPrice and reverseNetToGross: fees taken off, fees put on
Payout(gross) == Max({0, (gross * (100 - Commission)) \div 100 - Fee})
Published(price, net) == IF net THEN CeilDiv(100 * (price + Fee), 100 - Commission) ELSE price
-------------------------------------------------------------------------------
\* Mutant of Undercut: P1 is followed wherever it goes.
UndercutFreely(rivals, min) ==
  IF Len(rivals) > 1 /\ 100 * (rivals[2] - rivals[1]) > Gap * rivals[1]
    THEN rivals[2] - 1 ELSE rivals[1] - 1

\* computeUndampenedOptimalTarget: a cent below P2 when the gap to P1 is wide, else
\* below P1; when P1 is below the floor, below the first rival above the floor.
Undercut(rivals, min) ==
  LET wide == Len(rivals) > 1 /\ 100 * (rivals[2] - rivals[1]) > Gap * rivals[1]
      near == (IF wide THEN rivals[2] ELSE rivals[1]) - 1
      above == {p \in Range(rivals) : p > min + 1}
  IN  IF rivals[1] < min /\ above # {} /\ min + 1 \notin Range(rivals)
        THEN Min(above) - 1
        ELSE Max({near, min})

\* applySellerPriceStrategy, and its strategies that look at the rivals
Following(cost, rivals) ==
  LET p1 == rivals[1]
      next == IF Len(rivals) > 1 /\ rivals[2] > p1 THEN rivals[2] ELSE p1
  IN  CASE Strategy = "match_lowest" -> p1
        [] Strategy = "undercut_fixed" -> Max({p1 - StrategyValue, 1})
        [] Strategy = "undercut_percent" -> Max({p1 - Round(p1 * StrategyValue, 100), 1})
        [] Strategy = "smart_compete" -> Max({cost, next - 1})

ByStrategy(cost, rivals) ==
  CASE Strategy = "fixed" -> cost
    [] Strategy = "margin_target" ->
         IF StrategyValue < 100 THEN Round(100 * cost, 100 - StrategyValue)
                                ELSE Round(-100 * cost, StrategyValue - 100)
    [] OTHER -> IF rivals = << >> THEN cost ELSE Following(cost, rivals)

\* suggestPrice, which knows the cheapest rival only.  For a net listing the floor
\* it clamps to is net and yet treated as gross.
Suggested(cost, rivals, net) ==
  LET p1 == IF rivals = << >> THEN << >> ELSE <<rivals[1]>>
      raw == Max({ByStrategy(cost, p1), EffectiveMin(cost, net)})
  IN  IF net THEN Payout(raw) ELSE raw

\* analyzeOptimalPosition between the conversions of resolvePriceTarget: the ratio of
\* a net listing is what the marketplace publishes for it over what is stored.
Positioned(cost, rivals, net, stored, published) ==
  LET min == EffectiveMin(cost, net)
      target == Undercut(rivals, Round(min * published, stored))
  IN  IF ~net THEN Undercut(rivals, min)
      ELSE IF target = published THEN stored
      ELSE Max({min, Round(target * stored, published)})

\* isPriceChangeWorthIt for a free change
WorthIt(old, new) == new # old /\ (new - old >= MinDelta \/ old - new >= MinDelta)
-------------------------------------------------------------------------------
\* computeStrategyAwareCorrectedPrice
Corrected(cost, rivals, net) ==
  LET floorNet == CeilDiv(cost * (100 + Margin), 100)
      floorGross == CeilDiv(100 * (floorNet + Fee), 100 - Commission)
      gross == Max({floorGross, ByStrategy(floorGross, rivals)})
  IN  IF net THEN Max({floorNet, Payout(gross)}) ELSE gross

\* computeProfitabilityCeilingUsdCents: the most a unit may cost
CostCeiling(price, net) ==
  IF net THEN (price * (100 - Margin)) \div 100
  ELSE LET afterFee == price * (100 - Commission) - 100 * Fee IN
         IF afterFee <= 0 THEN 0 ELSE (afterFee * (100 - Margin)) \div 10000

\* findCheapestCreditedOffer
Credited(offers) == {o \in offers : o.credited}
Cheapest(offers) == CHOOSE o \in offers : \A p \in offers : o.cost <= p.cost

\* CreditAwareDeclaredStockSelectorUseCase: the offers that may back a listing
Backers(offers, price, net) ==
  {o \in Credited(offers) : price <= 0 \/ o.cost <= CostCeiling(price, net)}

\* The selector hides a listing whose supplier reports none; the branch that keeps
\* an uneconomic listing up always shows one.
CapQuantity(o) == o.available
AtLeastOne(o) == Max({1, o.available})
===============================================================================
