---------------------------- MODULE Listings_proofs ----------------------------
(***************************************************************************)
(* What holds of Listings for all sets of listings, runs, callbacks and    *)
(* rivals, all supplies and all settings.  First the arithmetic of         *)
(* SellerPricing: its floors are amounts, and what covers a floor does so  *)
(* whatever the rivals ask.  Then the books: the inductive invariant       *)
(* BooksInv says who is between the two writes of a listing's stock or     *)
(* price, and who is about to pause a listing whose breaker has been       *)
(* reached.  Last the costs: CostsCovered says that what a run which no    *)
(* other has overtaken plans to declare for a supplier is at a price that  *)
(* covers him, or is about to be.                                          *)
(***************************************************************************)
EXTENDS Listings, FiniteSetTheorems, TLAPS
-------------------------------------------------------------------------------
(* Least elements *)

\* A set of numbers that is not empty has a least element.
LEMMA LeastNumber ==
  ASSUME NEW S, S \subseteq Nat, S # {}
  PROVE  \E m \in S : \A n \in S : m <= n
<1>1. PICK b \in S : TRUE
  OBVIOUS
<1> DEFINE Below(m) == 0..m
           T == {Below(m) : m \in {k \in S : k <= b}}
<1>2. IsFiniteSet(0..b)
  BY FS_Interval
<1>3. T \subseteq FiniteSubsetsOf(0..b)
  <2>1. \A m \in S : m <= b => 0..m \subseteq 0..b
    OBVIOUS
  <2> QED BY <2>1, <1>2, FS_FiniteSubsetsOfFinite
<1>4. Below(b) \in T
  BY <1>1
<1>5. PICK x \in T : \A y \in T : <<y, x>> \notin StrictSubsetOrdering(0..b)
  <2> HIDE DEF T
  <2> QED BY <1>3, <1>4, FS_StrictSubsetOrderingWellFounded, WFMin
<1>6. PICK m \in S : m <= b /\ x = 0..m
  OBVIOUS
<1>7. ASSUME NEW n \in S, n < m
      PROVE  FALSE
  <2>1. 0..n \subseteq 0..m /\ 0..n # 0..m
    BY <1>7
  <2>2. 0..n \in T
    BY <1>6, <1>7
  <2>3. 0..n \subseteq 0..b /\ 0..m \subseteq 0..b
    BY <1>6, <1>7
  <2> QED BY <1>5, <1>6, <2>1, <2>2, <2>3 DEF StrictSubsetOrdering
<1> QED BY <1>6, <1>7

\* The cheapest of some offers is one of them, and none costs less.
LEMMA CheapestIsOne ==
  ASSUME NEW offers \in SUBSET Offer, offers # {}
  PROVE  Cheapest(offers) \in offers /\ \A p \in offers : Cheapest(offers).cost <= p.cost
<1> DEFINE costs == {o.cost : o \in offers}
<1>1. costs \subseteq Nat /\ costs # {}
  BY DEF Offer
<1>2. PICK c \in costs : \A d \in costs : c <= d
  <2> HIDE DEF costs
  <2> QED BY <1>1, LeastNumber
<1>3. \E o \in offers : \A p \in offers : o.cost <= p.cost
  BY <1>2
<1> QED BY <1>3 DEF Cheapest

\* The greater of two integers.
LEMMA MaxOfTwo ==
  ASSUME NEW a \in Int, NEW b \in Int
  PROVE  /\ Max({a, b}) \in {a, b} /\ Max({a, b}) \in Int /\ Max({a, b}) >= a /\ Max({a, b}) >= b
         /\ a >= 0 \/ b >= 0 => Max({a, b}) \in Nat
<1>1. Max({a, b}) \in {a, b} /\ Max({a, b}) >= a /\ Max({a, b}) >= b
  BY DEF Max
<1> QED BY <1>1

\* The greatest of three.
LEMMA MaxOfThree ==
  ASSUME NEW a \in Int, NEW b \in Int, NEW c \in Int
  PROVE  /\ Max({a, b, c}) \in {a, b, c}
         /\ Max({a, b, c}) >= a /\ Max({a, b, c}) >= b /\ Max({a, b, c}) >= c
BY DEF Max

\* The least of some numbers is one of them.
LEMMA MinIsOne ==
  ASSUME NEW S, S \subseteq Nat, S # {}
  PROVE  Min(S) \in S
BY LeastNumber DEF Min
-------------------------------------------------------------------------------
(* Prices *)

\* Divisions that round leave amounts amounts.
LEMMA CeilDivIsNat ==
  ASSUME NEW a \in Nat, NEW b \in Nat \ {0}
  PROVE  CeilDiv(a, b) \in Nat
BY DEF CeilDiv

\* Rounding yields an integer,
LEMMA RoundIsInt ==
  ASSUME NEW a \in Int, NEW b \in Nat \ {0}
  PROVE  Round(a, b) \in Int
BY DEF Round

\* and an amount when it is given one.
LEMMA RoundIsNat ==
  ASSUME NEW a \in Nat, NEW b \in Nat \ {0}
  PROVE  Round(a, b) \in Nat
BY DEF Round

\* Every floor of a price is an amount, and the effective one covers the margin.
LEMMA FloorsAreNat ==
  ASSUME NEW cost \in Nat, NEW net \in BOOLEAN
  PROVE  /\ ProfitFloor(cost, net) \in Nat /\ BreakEven(cost, net) \in Nat
         /\ EffectiveMin(cost, net) \in Nat
         /\ EffectiveMin(cost, net) >= ProfitFloor(cost, net)
<1>1. /\ Margin \in 1..99 /\ Commission \in 0..99 /\ Fee \in Nat /\ ProviderFloor \in Nat
      /\ 100 \in Nat \ {0} /\ 100 - Commission \in Nat \ {0}
  BY PercentType, CentsType
<1>2. /\ cost * (100 + Margin) \in Nat /\ cost * (100 + Margin) + 100 * Fee \in Nat
      /\ 100 * (cost + Fee) \in Nat
  BY <1>1
<1>3. ProfitFloor(cost, net) \in Nat
  BY <1>1, <1>2, CeilDivIsNat DEF ProfitFloor
<1>4. BreakEven(cost, net) \in Nat
  BY <1>1, <1>2, CeilDivIsNat DEF BreakEven
<1>5. ProviderFloor \in Int /\ ProfitFloor(cost, net) \in Int /\ BreakEven(cost, net) \in Int
  BY <1>1, <1>3, <1>4
<1> DEFINE m == Max({BreakEven(cost, net), ProviderFloor, ProfitFloor(cost, net)})
<1>6. m \in {BreakEven(cost, net), ProviderFloor, ProfitFloor(cost, net)} /\ m >= ProfitFloor(cost, net)
  BY <1>5, MaxOfThree
<1> HIDE DEF m
<1>7. m \in Nat
  BY <1>1, <1>3, <1>4, <1>6
<1> QED BY <1>3, <1>4, <1>6, <1>7 DEF EffectiveMin, m

\* What a buyer sees of a price is an amount.
LEMMA PublishedIsNat ==
  ASSUME NEW price \in Nat, NEW net \in BOOLEAN
  PROVE  Published(price, net) \in Nat
<1>1. Commission \in 0..99 /\ Fee \in Nat /\ 100 - Commission \in Nat \ {0} /\ 100 * (price + Fee) \in Nat
  BY PercentType, CentsType
<1> QED BY <1>1, CeilDivIsNat DEF Published

\* So is what the seller gets of one.
LEMMA PayoutIsNat ==
  ASSUME NEW gross \in Int
  PROVE  Payout(gross) \in Nat
<1>1. Commission \in 0..99 /\ Fee \in Nat /\ gross * (100 - Commission) \in Int
  BY PercentType, CentsType
<1>2. (gross * (100 - Commission)) \div 100 - Fee \in Int
  BY <1>1
<1> DEFINE a == (gross * (100 - Commission)) \div 100 - Fee
<1>3. Max({0, a}) \in Nat
  <2>1. a \in Int
    BY <1>2
  <2> HIDE DEF a
  <2> QED BY <2>1 DEF Max
<1> QED BY <1>3 DEF Payout

\* A place among the rivals is never below the floor it is sought above.
LEMMA UndercutCovers ==
  ASSUME NEW seen \in Seq(Nat), seen # << >>, NEW min \in Nat
  PROVE  Undercut(seen, min) \in Nat /\ Undercut(seen, min) >= min
<1> DEFINE wide == Len(seen) > 1 /\ 100 * (seen[2] - seen[1]) > Gap * seen[1]
           near == (IF wide THEN seen[2] ELSE seen[1]) - 1
           above == {p \in Range(seen) : p > min + 1}
<1>1. seen[1] \in Nat /\ (Len(seen) > 1 => seen[2] \in Nat) /\ Range(seen) \subseteq Nat
  BY DEF Range
<1>2. near \in Int
  BY <1>1
<1>3. Max({near, min}) \in Int /\ Max({near, min}) >= min
  <2> HIDE DEF near
  <2>1. near \in Int /\ min \in Int
    BY <1>2
  <2> QED BY <2>1, MaxOfTwo
<1>4. ASSUME above # {}
      PROVE  Min(above) - 1 \in Nat /\ Min(above) - 1 >= min
  <2>1. Min(above) \in above
    BY <1>1, <1>4, MinIsOne
  <2> HIDE DEF above
  <2>2. Min(above) \in Nat /\ Min(above) > min + 1
    BY <2>1, <1>1 DEF above
  <2> QED BY <2>2
<1> QED BY <1>3, <1>4 DEF Undercut

\* Whatever a strategy makes of a cost and the rivals is an integer.
LEMMA StrategyIsInt ==
  ASSUME NEW cost \in Nat, NEW seen \in Seq(Nat)
  PROVE  ByStrategy(cost, seen) \in Int
<1>1. StrategyValue \in Nat
  BY CentsType
<1>2. ASSUME Strategy = "margin_target"
      PROVE  (IF StrategyValue < 100 THEN Round(100 * cost, 100 - StrategyValue)
                                     ELSE Round(-100 * cost, StrategyValue - 100)) \in Int
  <2>1. CASE StrategyValue < 100
    <3>1. 100 - StrategyValue \in Nat \ {0} /\ 100 * cost \in Int
      BY <1>1, <2>1
    <3> QED BY <3>1, <2>1, RoundIsInt
  <2>2. CASE ~(StrategyValue < 100)
    <3>1. StrategyValue - 100 \in Nat \ {0} /\ -100 * cost \in Int
      BY <1>1, <1>2, <2>2, TargetMargin
    <3> QED BY <3>1, <2>2, RoundIsInt
  <2> QED BY <2>1, <2>2
<1>3. ASSUME seen # << >>, Strategy \notin {"fixed", "margin_target"}
      PROVE  Following(cost, seen) \in Int
  <2>1. seen[1] \in Nat /\ (Len(seen) > 1 => seen[2] \in Nat)
    BY <1>3
  <2> DEFINE after == IF Len(seen) > 1 /\ seen[2] > seen[1] THEN seen[2] ELSE seen[1]
  <2>2. after \in Nat
    BY <2>1
  <2>3. Round(seen[1] * StrategyValue, 100) \in Int
    <3>1. seen[1] * StrategyValue \in Int /\ 100 \in Nat \ {0}
      BY <2>1, <1>1
    <3> QED BY <3>1, RoundIsInt
  <2>4. /\ Max({seen[1] - StrategyValue, 1}) \in Int
        /\ Max({seen[1] - Round(seen[1] * StrategyValue, 100), 1}) \in Int
    <3> DEFINE a == seen[1] - StrategyValue
               b == seen[1] - Round(seen[1] * StrategyValue, 100)
    <3>1. a \in Int /\ b \in Int /\ 1 \in Int
      BY <2>1, <2>3, <1>1
    <3> HIDE DEF a, b
    <3>2. Max({a, 1}) \in Int /\ Max({b, 1}) \in Int
      BY <3>1, MaxOfTwo
    <3> QED BY <3>2 DEF a, b
  <2>5. Max({cost, after - 1}) \in Int
    <3> HIDE DEF after
    <3>1. cost \in Int /\ after - 1 \in Int
      BY <2>2
    <3> QED BY <3>1, MaxOfTwo
  <2>6. \/ Strategy = "match_lowest" \/ Strategy = "undercut_fixed"
        \/ Strategy = "undercut_percent" \/ Strategy = "smart_compete"
    BY <1>3, StrategyType
  <2> QED BY <2>1, <2>4, <2>5, <2>6 DEF Following
<1> QED BY <1>2, <1>3, StrategyType DEF ByStrategy

\* What is suggested without looking at the market is an amount, and for a gross
\* listing it covers the floor.
LEMMA SuggestedCovers ==
  ASSUME NEW cost \in Nat, NEW seen \in Seq(Nat), NEW net \in BOOLEAN
  PROVE  /\ Suggested(cost, seen, net) \in Nat
         /\ ~net => Suggested(cost, seen, net) >= EffectiveMin(cost, net)
<1> DEFINE p1 == IF seen = << >> THEN << >> ELSE <<seen[1]>>
           raw == Max({ByStrategy(cost, p1), EffectiveMin(cost, net)})
<1>1. p1 \in Seq(Nat)
  OBVIOUS
<1>2. ByStrategy(cost, p1) \in Int
  <2> HIDE DEF p1
  <2> QED BY <1>1, StrategyIsInt
<1>3. EffectiveMin(cost, net) \in Nat
  BY FloorsAreNat
<1>4. raw \in Nat /\ raw >= EffectiveMin(cost, net)
  <2> DEFINE a == ByStrategy(cost, p1)
             b == EffectiveMin(cost, net)
  <2>1. a \in Int /\ b \in Int /\ b >= 0
    BY <1>2, <1>3
  <2> HIDE DEF p1, a, b
  <2>2. Max({a, b}) \in Nat /\ Max({a, b}) >= b
    BY <2>1, MaxOfTwo
  <2> QED BY <2>2 DEF a, b
<1> HIDE DEF raw
<1>5. Payout(raw) \in Nat
  BY <1>4, PayoutIsNat
<1> QED BY <1>4, <1>5 DEF Suggested, raw

\* The place that smart pricing finds covers the floor, or is the price there was.
LEMMA PositionedCovers ==
  ASSUME NEW cost \in Nat, NEW seen \in Seq(Nat), seen # << >>, NEW net \in BOOLEAN,
         NEW stored \in Nat, NEW published \in Nat, net => stored > 0 /\ published > 0
  PROVE  LET p == Positioned(cost, seen, net, stored, published) IN
           p \in Nat /\ (p # stored => p >= EffectiveMin(cost, net))
<1> DEFINE min == EffectiveMin(cost, net)
           target == Undercut(seen, Round(min * published, stored))
<1>1. min \in Nat
  BY FloorsAreNat
<1> HIDE DEF min
<1>2. CASE ~net
  <2>1. Undercut(seen, min) \in Nat /\ Undercut(seen, min) >= min
    BY <1>1, UndercutCovers
  <2> QED BY <1>2, <2>1 DEF Positioned, min
<1>3. CASE net
  <2>1. Round(min * published, stored) \in Nat
    <3>1. min * published \in Nat /\ stored \in Nat \ {0}
      BY <1>1, <1>3
    <3> QED BY <3>1, RoundIsNat
  <2>2. target \in Nat
    BY <2>1, UndercutCovers
  <2> HIDE DEF target
  <2>3. ASSUME target # published
        PROVE  Max({min, Round(target * stored, published)}) \in Nat /\
               Max({min, Round(target * stored, published)}) >= min
    <3>1. Round(target * stored, published) \in Int
      <4>1. target * stored \in Int /\ published \in Nat \ {0}
        BY <2>2, <1>3
      <4> QED BY <4>1, RoundIsInt
    <3> DEFINE a == Round(target * stored, published)
    <3>2. a \in Int /\ min \in Int /\ min >= 0
      BY <3>1, <1>1
    <3> HIDE DEF a
    <3>3. Max({min, a}) \in Nat /\ Max({min, a}) >= min
      BY <3>2, MaxOfTwo
    <3> QED BY <3>3 DEF a
  <2> QED BY <2>3, <1>3 DEF Positioned, min, target
<1> QED BY <1>2, <1>3

\* A corrected price is an amount.
LEMMA CorrectedIsNat ==
  ASSUME NEW cost \in Nat, NEW seen \in Seq(Nat), NEW net \in BOOLEAN
  PROVE  Corrected(cost, seen, net) \in Nat
<1> DEFINE floorNet == CeilDiv(cost * (100 + Margin), 100)
           floorGross == CeilDiv(100 * (floorNet + Fee), 100 - Commission)
           gross == Max({floorGross, ByStrategy(floorGross, seen)})
<1>1. Margin \in 1..99 /\ Commission \in 0..99 /\ Fee \in Nat
  BY PercentType, CentsType
<1>2. floorNet \in Nat
  <2>1. cost * (100 + Margin) \in Nat
    BY <1>1
  <2> QED BY <2>1, CeilDivIsNat
<1>3. floorGross \in Nat
  <2> HIDE DEF floorNet
  <2>1. 100 * (floorNet + Fee) \in Nat /\ 100 - Commission \in Nat \ {0}
    BY <1>1, <1>2
  <2> QED BY <2>1, CeilDivIsNat
<1>4. gross \in Nat
  <2> HIDE DEF floorGross
  <2> DEFINE a == ByStrategy(floorGross, seen)
  <2>1. floorGross \in Int /\ floorGross >= 0 /\ a \in Int
    BY <1>3, StrategyIsInt
  <2> HIDE DEF a
  <2>2. Max({floorGross, a}) \in Nat
    BY <2>1, MaxOfTwo
  <2> QED BY <2>2 DEF a
<1>5. Max({floorNet, Payout(gross)}) \in Nat
  <2> HIDE DEF floorNet, gross
  <2> DEFINE a == Payout(gross)
  <2>1. floorNet \in Int /\ floorNet >= 0 /\ a \in Int
    BY <1>2, <1>4, PayoutIsNat
  <2> HIDE DEF a
  <2>2. Max({floorNet, a}) \in Nat
    BY <2>1, MaxOfTwo
  <2> QED BY <2>2 DEF a
<1> QED BY <1>4, <1>5 DEF Corrected
-------------------------------------------------------------------------------
(* Prices and costs *)

\* Factors keep an order.
LEMMA TimesKeepsOrder ==
  ASSUME NEW a \in Int, NEW b \in Int, NEW n \in Nat, a <= b
  PROVE  a * n <= b * n
<1>1. (b - a) * n >= 0
  <2> DEFINE d == b - a
  <2>1. d \in Nat
    OBVIOUS
  <2> HIDE DEF d
  <2>2. d * n >= 0
    BY <2>1
  <2> QED BY <2>2 DEF d
<1>2. (b - a) * n = b * n - a * n
  OBVIOUS
<1> QED BY <1>1, <1>2

\* What dividing up yields is the least number that gives at least the dividend.
LEMMA CeilDivIsLeast ==
  ASSUME NEW a \in Nat, NEW b \in Nat \ {0}, NEW c \in Int
  PROVE  CeilDiv(a, b) <= c <=> a <= c * b
<1> DEFINE q == (-a) \div b
<1>1. q \in Int /\ q * b <= -a /\ -a < q * b + b
  OBVIOUS
<1> HIDE DEF q
<1>2. ASSUME -q <= c
      PROVE  a <= c * b
  <2>1. (-q) * b <= c * b
    BY <1>1, <1>2, TimesKeepsOrder
  <2>2. (-q) * b = -(q * b)
    BY <1>1
  <2> QED BY <1>1, <2>1, <2>2
<1>3. ASSUME a <= c * b, ~(-q <= c)
      PROVE  FALSE
  <2>1. (q + 1) * b <= (-c) * b
    <3>1. q + 1 <= -c
      BY <1>1, <1>3
    <3> QED BY <1>1, <3>1, TimesKeepsOrder
  <2>2. (q + 1) * b = q * b + b /\ (-c) * b = -(c * b)
    BY <1>1
  <2> QED BY <1>1, <1>3, <2>1, <2>2
<1>4. CeilDiv(a, b) = -q
  BY DEF CeilDiv, q
<1> QED BY <1>1, <1>2, <1>3, <1>4

\* Dividing down yields no more than the dividend gives.
LEMMA DivIsBelow ==
  ASSUME NEW a \in Int, NEW b \in Nat \ {0}
  PROVE  a \div b \in Int /\ (a \div b) * b <= a
OBVIOUS

\* What is asked for something that costs something is not zero.
LEMMA FloorsArePositive ==
  ASSUME NEW cost \in Nat, cost > 0, NEW net \in BOOLEAN
  PROVE  ProfitFloor(cost, net) > 0 /\ EffectiveMin(cost, net) > 0
<1>1. /\ Margin \in 1..99 /\ Commission \in 0..99 /\ Fee \in Nat
      /\ 100 \in Nat \ {0} /\ 100 - Commission \in Nat \ {0}
  BY PercentType, CentsType
<1>2. cost * (100 + Margin) \in Nat /\ cost * (100 + Margin) > 0
  <2> DEFINE m == 100 + Margin
  <2>1. m \in Nat /\ m > 0
    BY <1>1
  <2> HIDE DEF m
  <2>2. 1 * m <= cost * m /\ cost * m \in Nat
    BY <2>1, TimesKeepsOrder
  <2> QED BY <2>1, <2>2 DEF m
<1>3. /\ cost * (100 + Margin) + 100 * Fee \in Nat /\ cost * (100 + Margin) + 100 * Fee > 0
  BY <1>1, <1>2
<1>4. ASSUME NEW a \in Nat, a > 0, NEW b \in Nat \ {0}
      PROVE  CeilDiv(a, b) > 0
  <2>1. CeilDiv(a, b) \in Nat /\ ~(CeilDiv(a, b) <= 0)
    BY <1>4, CeilDivIsNat, CeilDivIsLeast
  <2> QED BY <2>1
<1>5. ProfitFloor(cost, net) > 0
  BY <1>1, <1>2, <1>3, <1>4 DEF ProfitFloor
<1> QED BY <1>5, FloorsAreNat

\* A corrected price covers the margin on the cost it is corrected for.
LEMMA CorrectedCovers ==
  ASSUME NEW cost \in Nat, NEW seen \in Seq(Nat), NEW net \in BOOLEAN
  PROVE  Corrected(cost, seen, net) >= ProfitFloor(cost, net)
<1> DEFINE floorNet == CeilDiv(cost * (100 + Margin), 100)
           floorGross == CeilDiv(100 * (floorNet + Fee), 100 - Commission)
           gross == Max({floorGross, ByStrategy(floorGross, seen)})
<1>1. /\ Margin \in 1..99 /\ Commission \in 0..99 /\ Fee \in Nat
      /\ 100 \in Nat \ {0} /\ 100 - Commission \in Nat \ {0}
  BY PercentType, CentsType
<1>2. floorNet \in Nat /\ cost * (100 + Margin) \in Nat /\ cost * (100 + Margin) <= floorNet * 100
  <2>1. cost * (100 + Margin) \in Nat
    BY <1>1
  <2>2. floorNet \in Nat
    BY <1>1, <2>1, CeilDivIsNat
  <2> QED BY <1>1, <2>1, <2>2, CeilDivIsLeast
<1> HIDE DEF floorNet
<1>3. /\ 100 * (floorNet + Fee) \in Nat /\ floorGross \in Nat
      /\ 100 * (floorNet + Fee) <= floorGross * (100 - Commission)
  <2> DEFINE due == 100 * (floorNet + Fee)
             rate == 100 - Commission
  <2>1. due \in Nat /\ rate \in Nat \ {0}
    BY <1>1, <1>2
  <2> HIDE DEF due, rate
  <2>2. CeilDiv(due, rate) \in Nat /\ due <= CeilDiv(due, rate) * rate
    BY <2>1, CeilDivIsNat, CeilDivIsLeast
  <2> QED BY <2>1, <2>2 DEF due, rate
<1> HIDE DEF floorGross
<1>4. gross \in Int /\ gross >= floorGross
  <2> DEFINE wish == ByStrategy(floorGross, seen)
  <2>1. wish \in Int /\ floorGross \in Int
    BY <1>3, StrategyIsInt
  <2> HIDE DEF wish
  <2>2. Max({floorGross, wish}) \in Int /\ Max({floorGross, wish}) >= floorGross
    BY <2>1, MaxOfTwo
  <2> QED BY <2>2 DEF wish
<1> HIDE DEF gross
<1>5. CASE net
  <2> DEFINE got == Payout(gross)
  <2>1. got \in Int /\ floorNet \in Int
    BY <1>2, <1>4, PayoutIsNat
  <2> HIDE DEF got
  <2>2. Max({floorNet, got}) >= floorNet
    BY <2>1, MaxOfTwo
  <2> QED BY <1>5, <2>2 DEF Corrected, ProfitFloor, floorNet, floorGross, gross, got
<1>6. CASE ~net
  <2> DEFINE sum == cost * (100 + Margin) + 100 * Fee
             due == 100 * (floorNet + Fee)
             rate == 100 - Commission
  <2>1. sum \in Nat /\ due \in Nat /\ sum <= due /\ rate \in Nat \ {0} /\ due <= floorGross * rate
    BY <1>1, <1>2, <1>3
  <2> HIDE DEF sum, due, rate
  <2>2. floorGross * rate \in Int
    BY <1>3, <2>1
  <2>3. sum <= floorGross * rate
    BY <2>1, <2>2
  <2>4. CeilDiv(sum, rate) <= floorGross /\ CeilDiv(sum, rate) \in Nat
    <3>1. floorGross \in Int /\ sum \in Nat /\ rate \in Nat \ {0}
      BY <1>3, <2>1
    <3>2. CeilDiv(sum, rate) \in Nat
      BY <3>1, CeilDivIsNat
    <3>3. CeilDiv(sum, rate) <= floorGross
      BY <2>3, <3>1, CeilDivIsLeast
    <3> QED BY <3>2, <3>3
  <2>5. ProfitFloor(cost, net) = CeilDiv(sum, rate)
    BY <1>6 DEF ProfitFloor, sum, rate
  <2>6. Corrected(cost, seen, net) = gross
    BY <1>6 DEF Corrected, gross, floorGross, floorNet
  <2> QED BY <1>3, <1>4, <2>4, <2>5, <2>6
<1> QED BY <1>5, <1>6

\* The selector's ceiling on a cost and the floor under a price agree: a supplier that
\* may back a listing leaves the margin at the price it has.
LEMMA CeilingMeansFloor ==
  ASSUME NEW cost \in Nat, cost > 0, NEW price \in Nat, NEW net \in BOOLEAN, cost <= CostCeiling(price, net)
  PROVE  price >= ProfitFloor(cost, net)
<1>1. /\ Margin \in 1..99 /\ Commission \in 0..99 /\ Fee \in Nat
      /\ 100 \in Nat \ {0} /\ 100 - Commission \in Nat \ {0} /\ 10000 \in Nat \ {0}
  BY PercentType, CentsType
<1>2. ASSUME NEW x \in Nat, NEW y \in Nat, y * 100 <= x * (100 - Margin)
      PROVE  y * (100 + Margin) <= x * 100
  <2> DEFINE p == 100 + Margin
             m == 100 - Margin
  <2>1. p \in Nat /\ m \in Nat
    BY <1>1
  <2>2. m * p <= 10000
    <3>1. m * p = 10000 - Margin * Margin
      BY <1>1
    <3>2. Margin * Margin >= 0
      BY <1>1
    <3> QED BY <1>1, <3>1, <3>2
  <2> HIDE DEF p, m
  <2>3. (y * 100) * p <= (x * m) * p
    <3>1. y * 100 \in Int /\ x * m \in Int /\ y * 100 <= x * m
      BY <2>1, <1>2 DEF m
    <3> QED BY <2>1, <3>1, TimesKeepsOrder
  <2>4. (m * p) * x <= 10000 * x
    <3>1. m * p \in Int
      BY <2>1
    <3> QED BY <2>2, <3>1, TimesKeepsOrder
  <2>5. (y * 100) * p = 100 * (y * p) /\ (x * m) * p = (m * p) * x /\ y * p \in Int
    BY <2>1
  <2>6. ASSUME NEW a \in Int, NEW b \in Int, 100 * a <= b, b <= 10000 * x
        PROVE  a <= x * 100
    BY <2>6
  <2>7. y * p <= x * 100
    <3>1. (x * m) * p \in Int
      BY <2>1
    <3> QED BY <2>3, <2>4, <2>5, <2>6, <3>1
  <2> QED BY <2>7 DEF p
<1>3. CASE net
  <2>1. price * (100 - Margin) \in Int
    BY <1>1
  <2>2. cost <= (price * (100 - Margin)) \div 100
    BY <1>3 DEF CostCeiling
  <2>3. cost * 100 <= price * (100 - Margin)
    BY <1>1, <2>1, <2>2, DivIsBelow, TimesKeepsOrder
  <2>4. cost * (100 + Margin) <= price * 100
    BY <1>2, <2>3
  <2>5. cost * (100 + Margin) \in Nat
    BY <1>1
  <2>6. CeilDiv(cost * (100 + Margin), 100) <= price
    BY <1>1, <2>4, <2>5, CeilDivIsLeast
  <2> QED BY <1>3, <2>5, <2>6, CeilDivIsNat DEF ProfitFloor
<1>4. CASE ~net
  <2> DEFINE afterFee == price * (100 - Commission) - 100 * Fee
  <2>1. afterFee \in Int
    BY <1>1
  <2>2. afterFee > 0 /\ cost <= (afterFee * (100 - Margin)) \div 10000
    <3>1. CostCeiling(price, net) = IF afterFee <= 0 THEN 0 ELSE (afterFee * (100 - Margin)) \div 10000
      BY <1>4 DEF CostCeiling
    <3> HIDE DEF afterFee
    <3>2. ~(afterFee <= 0)
      BY <3>1
    <3> QED BY <2>1, <3>1, <3>2
  <2> HIDE DEF afterFee
  <2>3. cost * 10000 <= afterFee * (100 - Margin)
    <3>1. afterFee * (100 - Margin) \in Int
      BY <1>1, <2>1
    <3> QED BY <1>1, <2>2, <3>1, DivIsBelow, TimesKeepsOrder
  <2>4. (cost * 100) * (100 + Margin) <= afterFee * 100
    <3>1. cost * 100 \in Nat /\ afterFee \in Nat /\ (cost * 100) * 100 <= afterFee * (100 - Margin)
      BY <2>1, <2>2, <2>3
    <3> QED BY <1>2, <3>1
  <2>5. cost * (100 + Margin) <= afterFee
    <3>1. (cost * 100) * (100 + Margin) = 100 * (cost * (100 + Margin)) /\ cost * (100 + Margin) \in Nat
      BY <1>1
    <3> QED BY <2>1, <2>4, <3>1
  <2>6. /\ cost * (100 + Margin) + 100 * Fee \in Nat
        /\ cost * (100 + Margin) + 100 * Fee <= price * (100 - Commission)
    <3>1. cost * (100 + Margin) \in Nat /\ price * (100 - Commission) \in Int
      BY <1>1
    <3> QED BY <1>1, <2>5, <3>1 DEF afterFee
  <2>7. CeilDiv(cost * (100 + Margin) + 100 * Fee, 100 - Commission) <= price
    BY <1>1, <2>6, CeilDivIsLeast
  <2> QED BY <1>1, <1>4, <2>6, <2>7, CeilDivIsNat DEF ProfitFloor
<1> QED BY <1>3, <1>4
-------------------------------------------------------------------------------
(* The inductive invariant *)

Types ==
  /\ ListingTypeOK
  /\ mode \in [Listings -> Mode] /\ supply \in [Listings -> Supply] /\ rivals \in [Listings -> Rivals]

\* The listings of a run whose price is corrected.
FixesOf(r) == {l \in DOMAIN r.plan : r.plan[l].qty > 0 /\ r.plan[l].price > 0}

\* A run leaves nothing behind from one stage to the next, declares no negative stock,
\* corrects the prices it planned to, and only the pricing phase is done after prices.
InOrder(t, r) ==
  /\ r.at \in {"load", "decide", "prices", "push"} =>
       r.todo = {} /\ r.unpriced = {} /\ r.priced = {} /\ r.unsaved = {}
  /\ r.at \in {"saveprices", "fixeach"} => r.todo = {} /\ r.unsaved = {}
  /\ r.at = "saveprices" => r.unpriced = {}
  /\ r.at \in {"load", "decide"} => DOMAIN r.plan = {}
  /\ r.at = "load" => DOMAIN r.seen = {}
  /\ Pricing(t) /\ r.at \in {"prices", "saveprices"} => DOMAIN r.plan \subseteq DOMAIN r.seen
  /\ Pricing(t) => r.at \notin {"fixeach", "push", "flush"}
  /\ ~Pricing(t) => \A l \in DOMAIN r.plan : r.plan[l].qty \in Nat
  /\ ~Pricing(t) => r.priced \union r.unpriced \subseteq FixesOf(r)

\* Who is between the two writes of a field.
MidWrite(f, t) ==
  IF t \in Callbacks THEN f = StockOf(On(t)) /\ task[t].at \in {"hide", "save"}
  ELSE f[1] \in (IF f[2] = "stock" THEN run[t].unsaved ELSE run[t].priced)

WritersAreKnown == \A f \in Fields, t \in BookTasks : t \in writers[f] <=> MidWrite(f, t)

\* A callback that has not declared anything yet will hide its listing.
HidesNothing ==
  \A t \in Callbacks : task[t].at \in {"count", "pause", "trip", "spread", "hide"} => task[t].qty = 0

\* What the row has of a field, and whether the marketplace shows a value for it.
Kept(f) == IF f[2] = "stock" THEN row[f[1]].declared ELSE row[f[1]].price
Shows(f, v) ==
  IF f[2] = "stock" THEN shop[f[1]].stock = v ELSE shop[f[1]].price \in {v, Max({v, ProviderFloor})}

\* The value t is writing, and that it has written it on one side.
Writing(f, t) ==
  IF t \in Callbacks THEN task[t].qty
  ELSE IF f[2] = "stock" THEN run[t].plan[f[1]].qty ELSE run[t].plan[f[1]].price
HalfWritten(f, t) ==
  IF t \in Callbacks /\ task[t].at = "hide" THEN Kept(f) = 0 ELSE Shows(f, Writing(f, t))

\* A field nobody doubts has one writer at most, who has written one side of it, and is
\* the same on both sides when it has none; and no save of it is still to come.
Sound(f) ==
  f \notin doubt =>
    /\ \A t, u \in writers[f] : t = u
    /\ \A t \in writers[f] : HalfWritten(f, t)
    /\ writers[f] = {} => Shows(f, Kept(f))
    /\ \A s \in late : StockOf(s[1]) # f

\* A count at a threshold has a task that is about to pause the listing.
OnItsWay(l, where) == \E t \in Callbacks : On(t) = l /\ task[t].at = where
FailsHandled(l, n) == n >= PauseAt => OnItsWay(l, "pause")
OosHandled(l, n) == n >= OosPauseAt => OnItsWay(l, "trip")

\* While a listing is active and nobody resumed it, every count that is recorded, or
\* that was read and may yet be written back, is below the threshold or handled.
BreachesHandled(l) ==
  row[l].status = "active" /\ l \notin spared =>
    /\ FailsHandled(l, row[l].fails) /\ OosHandled(l, row[l].oos)
    /\ \A t \in Callbacks : On(t) = l /\ task[t].at = "count" =>
         /\ Seen(t).status = "active"
         /\ FailsHandled(l, Seen(t).fails) /\ OosHandled(l, Seen(t).oos)
    /\ \A t \in Runs : Pricing(t) /\ l \in DOMAIN run[t].seen => OosHandled(l, run[t].seen[l].oos)

BooksInv ==
  /\ Types /\ WritersAreKnown /\ HidesNothing
  /\ \A t \in Runs : InOrder(t, run[t])
  /\ \A f \in Fields : Sound(f)
  /\ \A l \in Listings : BreachesHandled(l)
-------------------------------------------------------------------------------
(* What a run decides *)

\* The cost that a floor is computed from is an amount.
LEMMA CostIsNat ==
  ASSUME Types, NEW l \in Listings
  PROVE  CostOf(l) \in Nat
<1>1. supply[l] \in Supply
  BY DEF Types
<1>2. supply[l].keyCost \in Nat /\ supply[l].offers \in SUBSET Offer
  BY <1>1 DEF Supply
<1>3. ASSUME supply[l].offers # {}
      PROVE  Cheapest(supply[l].offers).cost \in Nat
  <2>1. Cheapest(supply[l].offers) \in Offer
    BY <1>2, <1>3, CheapestIsOne
  <2> QED BY <2>1 DEF Offer
<1> QED BY <1>2, <1>3 DEF CostOf

\* The prices of rivals are amounts above zero.
LEMMA RivalsAreSeq ==
  ASSUME Types, NEW l \in Listings
  PROVE  rivals[l] \in Seq(Nat)
<1>1. rivals[l] \in Seq(Nat \ {0})
  BY RivalsType DEF Types
<1> QED BY <1>1

\* What the pricing phase aims at is an amount, and covers the floor when it is not the
\* price there was - but for a net listing without rivals or without smart pricing.
LEMMA TargetCovers ==
  ASSUME Types, NEW t \in Runs, NEW l \in DOMAIN run[t].seen
  PROVE  /\ TargetPrice(t, l) \in Nat
         /\ /\ mode[l].net => mode[l].smart /\ rivals[l] # << >>
            /\ TargetPrice(t, l) # run[t].seen[l].price
            => TargetPrice(t, l) >= EffectiveMin(CostOf(l), mode[l].net)
<1>1. l \in Listings /\ run[t].seen[l] \in Glimpse
  BY DEF Types, ListingTypeOK, RunTypeOK
<1> DEFINE cost == CostOf(l)
           net == mode[l].net
           stored == run[t].seen[l].price
           published == Published(shop[l].price, net)
<1>2. cost \in Nat /\ rivals[l] \in Seq(Nat)
  BY <1>1, CostIsNat, RivalsAreSeq
<1>3. net \in BOOLEAN /\ mode[l].smart \in BOOLEAN
  BY <1>1 DEF Types, Mode
<1>4. stored \in Nat
  BY <1>1 DEF Glimpse
<1>5. published \in Nat
  <2>1. shop[l].price \in Nat
    BY <1>1 DEF Types, ListingTypeOK
  <2> QED BY <1>3, <2>1, PublishedIsNat
<1> HIDE DEF cost, net, stored, published
<1> DEFINE min == EffectiveMin(cost, net)
<1>6. min \in Nat
  BY <1>2, <1>3, FloorsAreNat
<1>7. /\ Suggested(cost, rivals[l], net) \in Nat
      /\ ~net => Suggested(cost, rivals[l], net) >= min
  BY <1>2, <1>3, SuggestedCovers
<1>8. ASSUME rivals[l] # << >>, net => stored > 0 /\ published > 0
      PROVE  /\ Positioned(cost, rivals[l], net, stored, published) \in Nat
             /\ \/ Positioned(cost, rivals[l], net, stored, published) = stored
                \/ Positioned(cost, rivals[l], net, stored, published) >= min
  BY <1>2, <1>3, <1>4, <1>5, <1>8, PositionedCovers
<1> HIDE DEF min
<1>9. TargetPrice(t, l) \in Nat
  BY <1>3, <1>4, <1>5, <1>6, <1>7, <1>8 DEF TargetPrice, cost, net, stored, published, min
<1>10. ASSUME net => mode[l].smart /\ rivals[l] # << >>, TargetPrice(t, l) # stored
       PROVE  TargetPrice(t, l) >= min
  BY <1>3, <1>4, <1>5, <1>6, <1>7, <1>8, <1>10 DEF TargetPrice, cost, net, stored, published, min
<1> QED BY <1>9, <1>10 DEF min, net, cost, stored

\* A decision of the pricing phase has its shape, and its price covers the floor.
LEMMA PricingDecides ==
  ASSUME Types, NEW t \in Runs, NEW l \in DOMAIN run[t].seen
  PROVE  /\ PricingPlan(t, l) \in Planning
         /\ /\ mode[l].net => mode[l].smart /\ rivals[l] # << >>
            /\ PricingPlan(t, l) # Stay
            => PricingPlan(t, l).price >= EffectiveMin(PricingPlan(t, l).cost, mode[l].net)
<1>1. l \in Listings
  BY DEF Types, ListingTypeOK, RunTypeOK
<1>2. CostOf(l) \in Nat /\ TargetPrice(t, l) \in Nat
  BY <1>1, CostIsNat, TargetCovers
<1>3. \/ PricingPlan(t, l) = Stay
      \/ PricingPlan(t, l) = Plan(-1, TargetPrice(t, l), CostOf(l)) /\ TargetPrice(t, l) # run[t].seen[l].price
  BY DEF PricingPlan
<1>4. Stay \in Planning /\ Plan(-1, TargetPrice(t, l), CostOf(l)) \in Planning
  BY <1>2 DEF Stay, Plan, Planning
<1>5. /\ Plan(-1, TargetPrice(t, l), CostOf(l)).price = TargetPrice(t, l)
      /\ Plan(-1, TargetPrice(t, l), CostOf(l)).cost = CostOf(l)
  BY DEF Plan
<1> QED BY <1>3, <1>4, <1>5, TargetCovers

\* A stock phase leaves a listing alone or declares a number for it.
Declarable(d) == d = Stay \/ (d \in Planning /\ d.qty \in Nat)

\* A number, a price and a cost make a plan that can be declared.
LEMMA PlansAreDeclarable ==
  ASSUME NEW q \in Nat, NEW p \in Nat, NEW c \in Nat
  PROVE  Declarable(Plan(q, p, c))
BY DEF Declarable, Plan, Planning

\* The cheapest of some offers that stand behind a listing is one of them.
LEMMA OffersBack ==
  ASSUME Types, NEW l \in Listings, NEW S, S \subseteq supply[l].offers, S # {}
  PROVE  Cheapest(S) \in S /\ Cheapest(S).cost \in Nat /\ Cheapest(S).available \in Nat
<1>1. supply[l] \in Supply
  BY DEF Types
<1>2. S \in SUBSET Offer
  BY <1>1 DEF Supply
<1>3. Cheapest(S) \in S /\ Cheapest(S) \in Offer
  BY <1>2, CheapestIsOne
<1> QED BY <1>3 DEF Offer

\* Both stock phases decide on plans that can be declared.
LEMMA StockDecides ==
  ASSUME Types, NEW t \in Runs, NEW l \in DOMAIN run[t].seen
  PROVE  Declarable(DeclaredPlan(t, l)) /\ Declarable(RemotePlan(t, l))
<1>1. l \in Listings /\ run[t].seen[l].declared \in Nat
  BY DEF Types, ListingTypeOK, RunTypeOK, Glimpse
<1>2. supply[l] \in Supply /\ supply[l].keys \in Nat /\ mode[l] \in Mode /\ mode[l].net \in BOOLEAN
  BY <1>1 DEF Types, Supply, Mode
<1>3. rivals[l] \in Seq(Nat)
  BY <1>1, RivalsAreSeq
<1>4. Declarable(Stay) /\ Declarable(Plan(0, 0, 0)) /\ Declarable(Plan(supply[l].keys, 0, 0))
  <2>1. Declarable(Stay)
    BY DEF Declarable
  <2> QED BY <1>2, <2>1, PlansAreDeclarable
<1>5. Declarable(KeysPlan(t, l)) /\ Declarable(HiddenPlan(t, l)) /\ Declarable(HiddenOnce(t, l))
  BY <1>4 DEF KeysPlan, HiddenPlan, HiddenOnce
<1>6. ASSUME Credited(supply[l].offers) # {}
      PROVE  Declarable(UneconomicPlan(t, l))
  <2> DEFINE o == Cheapest(Credited(supply[l].offers))
             fixed == Corrected(o.cost, rivals[l], mode[l].net)
  <2>1. Credited(supply[l].offers) \subseteq supply[l].offers
    BY DEF Credited
  <2>2. o.cost \in Nat /\ o.available \in Nat
    BY <1>1, <1>6, <2>1, OffersBack
  <2>3. AtLeastOne(o) \in Nat
    BY <2>2 DEF AtLeastOne, Max
  <2>4. fixed \in Nat
    BY <1>2, <1>3, <2>2, CorrectedIsNat
  <2> HIDE DEF o, fixed
  <2>5. Declarable(Plan(AtLeastOne(o), fixed, o.cost)) /\ Declarable(Plan(AtLeastOne(o), 0, o.cost))
    BY <2>2, <2>3, <2>4, PlansAreDeclarable
  <2> QED BY <2>5 DEF UneconomicPlan, o, fixed
<1>7. ASSUME BackersOf(t, l) # {}
      PROVE  LET o == Cheapest(BackersOf(t, l)) IN
               /\ Declarable(Plan(CapQuantity(o), 0, o.cost))
               /\ Declarable(Plan(CapQuantity(o), Corrected(o.cost, rivals[l], mode[l].net), o.cost))
  <2> DEFINE o == Cheapest(BackersOf(t, l))
             fixed == Corrected(o.cost, rivals[l], mode[l].net)
  <2>1. BackersOf(t, l) \subseteq supply[l].offers
    BY DEF BackersOf, Backers, Credited
  <2>2. o.cost \in Nat /\ o.available \in Nat
    BY <1>1, <1>7, <2>1, OffersBack
  <2>3. fixed \in Nat
    BY <1>2, <1>3, <2>2, CorrectedIsNat
  <2> HIDE DEF o, fixed
  <2> QED BY <2>2, <2>3, PlansAreDeclarable DEF CapQuantity, o, fixed
<1>8. Declarable(DeclaredPlan(t, l))
  <2>1. CASE supply[l].keys > 0
    BY <1>2, <1>5, <2>1 DEF DeclaredPlan
  <2>2. CASE supply[l].keys = 0 /\ BackersOf(t, l) # {}
    BY <1>4, <1>7, <2>2 DEF DeclaredPlan
  <2>3. CASE supply[l].keys = 0 /\ BackersOf(t, l) = {}
    BY <1>5, <1>6, <2>3 DEF DeclaredPlan
  <2> QED BY <1>2, <2>1, <2>2, <2>3
<1>9. Declarable(RemotePlan(t, l))
  BY <1>5, <1>6, <1>7 DEF RemotePlan
<1> QED BY <1>8, <1>9
-------------------------------------------------------------------------------
(* What a step may do to a field *)

\* Stock and price of a listing are its fields, and it has no other.
LEMMA FieldsAre ==
  /\ \A l \in Listings : /\ StockOf(l) \in Fields /\ StockOf(l)[1] = l /\ StockOf(l)[2] = "stock"
                         /\ PriceOf(l) \in Fields /\ PriceOf(l)[1] = l /\ PriceOf(l)[2] = "price"
  /\ \A f \in Fields : /\ f[1] \in Listings
                       /\ (f[2] = "stock" /\ f = StockOf(f[1])) \/ (f[2] = "price" /\ f = PriceOf(f[1]))
  /\ \A l, k \in Listings : StockOf(l) # PriceOf(k) /\ (StockOf(l) = StockOf(k) => l = k) /\ (PriceOf(l) = PriceOf(k) => l = k)
BY DEF Fields, StockOf, PriceOf

\* Neither side of the field changes, nor who is writing it.
Untouched(f) ==
  /\ writers'[f] = writers[f]
  /\ f \in doubt => f \in doubt'
  /\ IF f[2] = "stock" THEN shop'[f[1]].stock = shop[f[1]].stock /\ row'[f[1]].declared = row[f[1]].declared
                       ELSE shop'[f[1]].price = shop[f[1]].price /\ row'[f[1]].price = row[f[1]].price

\* t writes one side of it, or the other after that, and nobody crosses.
Opened(f, t) == ~Crossed(f, t) /\ writers'[f] = writers[f] \union {t} /\ HalfWritten(f, t)'
Closed(f, t) == f \notin doubt /\ ~Crossed(f, t) /\ writers'[f] = writers[f] \ {t} /\ Shows(f, Kept(f))'

\* What a step of t does to each field leaves it sound.
LEMMA FieldsStaySound ==
  ASSUME NEW t, Types, \A f \in Fields : Sound(f),
         \A s \in late' : s \in late \/ StockOf(s[1]) \in doubt',
         \A f \in Fields : f \in doubt' \/ Untouched(f) \/ Opened(f, t) \/ Closed(f, t),
         \A f \in Fields, u \in BookTasks : u \in writers[f] /\ f \notin doubt' /\ Untouched(f) => (HalfWritten(f, u) => HalfWritten(f, u)')
  PROVE  \A f \in Fields : Sound(f)'
<1> SUFFICES ASSUME NEW f \in Fields, f \notin doubt'
             PROVE  /\ \A u, v \in writers'[f] : u = v
                    /\ \A u \in writers'[f] : HalfWritten(f, u)'
                    /\ writers'[f] = {} => Shows(f, Kept(f))'
                    /\ \A s \in late' : StockOf(s[1]) # f
  BY DEF Sound
<1>1. Sound(f) /\ writers[f] \subseteq BookTasks
  BY DEF Types, ListingTypeOK
<1>2. CASE Untouched(f)
  <2>1. /\ \A u, v \in writers[f] : u = v
        /\ \A u \in writers[f] : HalfWritten(f, u)
        /\ writers[f] = {} => Shows(f, Kept(f))
        /\ \A s \in late : StockOf(s[1]) # f
    BY <1>1, <1>2 DEF Sound, Untouched
  <2>2. \A s \in late' : StockOf(s[1]) # f
    BY <2>1
  <2>3. \A u \in writers'[f] : HalfWritten(f, u)'
    BY <1>1, <1>2, <2>1 DEF Untouched
  <2>4. Shows(f, Kept(f))' <=> Shows(f, Kept(f))
    BY <1>2 DEF Untouched, Shows, Kept
  <2> QED BY <1>2, <2>1, <2>2, <2>3, <2>4 DEF Untouched
<1>3. CASE Opened(f, t)
  <2>1. writers'[f] = {t} /\ \A s \in late : StockOf(s[1]) # f
    BY <1>3 DEF Opened, Crossed
  <2>2. HalfWritten(f, t)'
    BY <1>3 DEF Opened
  <2>3. \A s \in late' : StockOf(s[1]) # f
    BY <2>1
  <2> QED BY <2>1, <2>2, <2>3
<1>4. CASE Closed(f, t)
  <2>1. writers'[f] = {} /\ \A s \in late : StockOf(s[1]) # f
    BY <1>4 DEF Closed, Crossed
  <2>2. Shows(f, Kept(f))'
    BY <1>4 DEF Closed
  <2>3. \A s \in late' : StockOf(s[1]) # f
    BY <2>1
  <2> QED BY <2>1, <2>2, <2>3
<1> QED BY <1>2, <1>3, <1>4

\* What a task has written stays half written when it goes on writing.
LEMMA WritingStays ==
  ASSUME NEW f \in Fields, NEW u, Untouched(f), HalfWritten(f, u),
         IF u \in Callbacks THEN task'[u] = task[u]
         ELSE IF f[2] = "stock" THEN run'[u].plan[f[1]].qty = run[u].plan[f[1]].qty
                                ELSE run'[u].plan[f[1]].price = run[u].plan[f[1]].price
  PROVE  HalfWritten(f, u)'
BY DEF HalfWritten, Untouched, Shows, Kept, Writing

\* What settling fields does to doubt.
LEMMA SettlingEffect ==
  ASSUME NEW T \in SUBSET Fields, NEW F \in SUBSET Fields, NEW t, Settles(T, F, t), Types
  PROVE  /\ doubt' \subseteq Fields
         /\ \A f \in T : f \in doubt' \/ ~Crossed(f, t)
         /\ \A f \in F : f \in doubt'
         /\ \A f \in Fields : f \in doubt /\ f \notin T => f \in doubt'
BY DEF Settles, CrossedOf, Types, ListingTypeOK

\* And what saving one does.
LEMMA KeepingEffect ==
  ASSUME NEW f \in Fields, NEW t, Keeps(f, t), Types
  PROVE  /\ doubt' \subseteq Fields /\ doubt \subseteq doubt'
         /\ f \in doubt' \/ ~Crossed(f, t)
BY DEF Keeps, CrossedOf, Types, ListingTypeOK

\* Whom opening and closing fields leaves between two writes.
LEMMA OpeningEffect ==
  ASSUME NEW F \in SUBSET Fields, NEW t \in BookTasks, Opens(F, t), Types
  PROVE  /\ writers' \in [Fields -> SUBSET BookTasks]
         /\ \A f \in F : writers'[f] = writers[f] \union {t}
         /\ \A f \in Fields \ F : writers'[f] = writers[f]
BY DEF Opens, Types, ListingTypeOK

\* Opening a single field,
LEMMA OpeningOneEffect ==
  ASSUME NEW f \in Fields, NEW t \in BookTasks, Opens({f}, t), Types
  PROVE  /\ writers' \in [Fields -> SUBSET BookTasks]
         /\ writers'[f] = writers[f] \union {t}
         /\ \A g \in Fields : g # f => writers'[g] = writers[g]
BY DEF Opens, Types, ListingTypeOK

\* and closing it.
LEMMA ClosingEffect ==
  ASSUME NEW f \in Fields, NEW t \in BookTasks, Closes(f, t), Types
  PROVE  /\ writers' \in [Fields -> SUBSET BookTasks]
         /\ writers'[f] = writers[f] \ {t}
         /\ \A g \in Fields : g # f => writers'[g] = writers[g]
BY DEF Closes, Types, ListingTypeOK
-------------------------------------------------------------------------------
(* What a run may do *)

\* A run that rests, and one that begins.
LEMMA RestedIsRun ==
  /\ RunTypeOK(Rested) /\ Rested.at = "load" /\ DOMAIN Rested.seen = {} /\ DOMAIN Rested.plan = {}
  /\ Rested.todo = {} /\ Rested.unpriced = {} /\ Rested.priced = {} /\ Rested.unsaved = {}
  /\ \A t \in Runs : InOrder(t, Rested)
<1>1. DOMAIN NoPlan = {} /\ NoPlan \in [{} -> Glimpse] /\ NoPlan \in [{} -> Planning]
  BY DEF NoPlan
<1>2. /\ Rested.at = "load" /\ Rested.seen = NoPlan /\ Rested.plan = NoPlan
      /\ Rested.todo = {} /\ Rested.unpriced = {} /\ Rested.priced = {} /\ Rested.unsaved = {}
  BY DEF Rested
<1>3. RunTypeOK(Rested)
  BY <1>1, <1>2 DEF RunTypeOK, Rested
<1> QED BY <1>1, <1>2, <1>3 DEF InOrder, FixesOf

\* Giving way to the next stage keeps a run in order, with all it has still to save.
LEMMA OnwardInOrder ==
  ASSUME NEW t \in Runs, NEW r, RunTypeOK(r), InOrder(t, r)
  PROVE  /\ RunTypeOK(Onward(t, r)) /\ InOrder(t, Onward(t, r))
         /\ Onward(t, r).priced = r.priced /\ Onward(t, r).unsaved = r.unsaved
         /\ Onward(t, r) = Rested \/ (Onward(t, r).plan = r.plan /\ Onward(t, r).seen = r.seen)
<1> DEFINE s == [r EXCEPT !.at = "push"]
<1>1. /\ RunTypeOK(s) /\ s.at = "push" /\ s.seen = r.seen /\ s.plan = r.plan /\ s.todo = r.todo
      /\ s.unpriced = r.unpriced /\ s.priced = r.priced /\ s.unsaved = r.unsaved
  BY DEF RunTypeOK
<1> HIDE DEF s
<1>2. CASE r.at = "saveprices" /\ r.priced = {} /\ Pricing(t)
  <2>1. Onward(t, r) = Rested /\ r.unsaved = {}
    BY <1>2 DEF Onward, InOrder
  <2> QED BY <1>2, <2>1, RestedIsRun
<1>3. CASE r.at = "saveprices" /\ r.priced = {} /\ ~Pricing(t)
  <2>1. Onward(t, r) = s
    BY <1>3 DEF Onward, s
  <2> QED BY <1>1, <1>3, <2>1 DEF InOrder, FixesOf
<1>4. CASE r.at = "fixeach" /\ r.unpriced \union r.priced = {}
  <2>1. Onward(t, r) = s
    BY <1>4 DEF Onward, s
  <2> QED BY <1>1, <1>4, <2>1 DEF InOrder, FixesOf
<1>5. CASE r.at = "flush" /\ r.todo \union r.priced \union r.unsaved = {}
  <2>1. Onward(t, r) = Rested /\ r.unsaved = {} /\ r.priced = {}
    BY <1>5 DEF Onward
  <2> QED BY <2>1, RestedIsRun
<1>6. CASE /\ ~(r.at = "saveprices" /\ r.priced = {})
           /\ ~(r.at = "fixeach" /\ r.unpriced \union r.priced = {})
           /\ ~(r.at = "flush" /\ r.todo \union r.priced \union r.unsaved = {})
  <2>1. Onward(t, r) = r
    BY <1>6 DEF Onward
  <2> QED BY <2>1
<1> QED BY <1>2, <1>3, <1>4, <1>5, <1>6

\* The runs when one goes on as r.
LEMMA RunMoves ==
  ASSUME Types, \A u \in Runs : InOrder(u, run[u]), NEW t \in Runs, NEW A,
         NEW r, RunTypeOK(r), InOrder(t, r), Proceed(t, r, A)
  PROVE  /\ DOMAIN run' = Runs /\ past' \in [Listings -> SUBSET Runs]
         /\ \A u \in Runs : RunTypeOK(run'[u]) /\ InOrder(u, run'[u])
         /\ \A u \in Runs : u # t => run'[u] = run[u]
         /\ run'[t].priced = r.priced /\ run'[t].unsaved = r.unsaved
         /\ run'[t] = Rested \/ (run'[t].plan = r.plan /\ run'[t].seen = r.seen)
<1> DEFINE next == Onward(t, r)
<1>1. /\ RunTypeOK(next) /\ InOrder(t, next) /\ next.priced = r.priced /\ next.unsaved = r.unsaved
      /\ next = Rested \/ (next.plan = r.plan /\ next.seen = r.seen)
  BY OnwardInOrder
<1>2. run' = [run EXCEPT ![t] = next] /\ DOMAIN run = Runs
  BY DEF Proceed, Types, ListingTypeOK
<1> HIDE DEF next
<1>3. DOMAIN run' = Runs /\ run'[t] = next /\ \A u \in Runs : u # t => run'[u] = run[u]
  BY <1>2
<1>4. past' \in [Listings -> SUBSET Runs]
  <2>1. past \in [Listings -> SUBSET Runs] /\ Awake \subseteq Runs
    BY DEF Types, ListingTypeOK, Awake
  <2> QED BY <2>1 DEF Proceed
<1>5. \A u \in Runs : RunTypeOK(run'[u]) /\ InOrder(u, run'[u])
  BY <1>1, <1>3 DEF Types, ListingTypeOK
<1> QED BY <1>1, <1>3, <1>4, <1>5

\* Breakers, when no task moves and no active listing is counted or resumed.
LEMMA BreachFrame ==
  ASSUME \A l \in Listings : BreachesHandled(l), UNCHANGED task,
         \A l \in Listings : row'[l].status = "active" /\ l \notin spared' =>
           /\ row[l].status = "active" /\ l \notin spared
           /\ row'[l].fails = row[l].fails
           /\ \/ row'[l].oos = row[l].oos
              \/ \E t \in Runs : Pricing(t) /\ l \in DOMAIN run[t].seen /\ row'[l].oos = run[t].seen[l].oos
           /\ \A t \in Runs : Pricing(t) /\ l \in DOMAIN run'[t].seen =>
                \/ run'[t].seen[l].oos = row[l].oos
                \/ l \in DOMAIN run[t].seen /\ run'[t].seen[l].oos = run[t].seen[l].oos
  PROVE  \A l \in Listings : BreachesHandled(l)'
<1> SUFFICES ASSUME NEW l \in Listings, row'[l].status = "active", l \notin spared'
             PROVE  BreachesHandled(l)'
  BY DEF BreachesHandled
<1>1. BreachesHandled(l) /\ row[l].status = "active" /\ l \notin spared
  OBVIOUS
<1>2. (OnItsWay(l, "pause")' <=> OnItsWay(l, "pause")) /\ (OnItsWay(l, "trip")' <=> OnItsWay(l, "trip"))
  BY DEF OnItsWay, On
<1>3. \A t \in Runs : Pricing(t) /\ l \in DOMAIN run[t].seen => OosHandled(l, run[t].seen[l].oos)
  BY <1>1 DEF BreachesHandled
<1>4. FailsHandled(l, row[l].fails)' /\ OosHandled(l, row[l].oos)'
  BY <1>1, <1>2, <1>3 DEF BreachesHandled, FailsHandled, OosHandled
<1>5. \A t \in Callbacks : On(t) = l /\ task[t].at = "count" =>
        /\ Seen(t).status = "active" /\ FailsHandled(l, Seen(t).fails)' /\ OosHandled(l, Seen(t).oos)'
  BY <1>1, <1>2 DEF BreachesHandled, FailsHandled, OosHandled, Seen
<1>6. ASSUME NEW t \in Runs, Pricing(t), l \in DOMAIN run'[t].seen
      PROVE  OosHandled(l, run[t].seen[l].oos)'
  <2>1. \/ run'[t].seen[l].oos = row[l].oos
        \/ l \in DOMAIN run[t].seen /\ run'[t].seen[l].oos = run[t].seen[l].oos
    BY <1>6
  <2> QED BY <1>1, <1>2, <1>3, <1>6, <2>1 DEF BreachesHandled, OosHandled
<1> QED BY <1>4, <1>5, <1>6 DEF BreachesHandled, On, Seen, Pricing

Shop == [stock : Nat, price : Nat]

\* What a step of a run has to show to keep the invariant.
LEMMA RunWrites ==
  ASSUME BooksInv, NEW t \in Runs, NEW A, NEW r, RunTypeOK(r), InOrder(t, r), Proceed(t, r, A),
         r.plan = run[t].plan \/ (r.priced = {} /\ r.unsaved = {}),
         \A l \in DOMAIN r.seen : l \in DOMAIN run[t].seen /\ r.seen[l].oos = run[t].seen[l].oos,
         UNCHANGED <<mode, supply, rivals, spared, task>>,
         row' \in [Listings -> Row], shop' \in [Listings -> Shop],
         writers' \in [Fields -> SUBSET BookTasks], doubt' \subseteq Fields, late' \subseteq Listings \X Nat,
         \A l \in Listings :
           /\ row'[l].status = row[l].status /\ row'[l].fails = row[l].fails
           /\ \/ row'[l].oos = row[l].oos
              \/ Pricing(t) /\ l \in DOMAIN run[t].seen /\ row'[l].oos = run[t].seen[l].oos,
         \A s \in late' : s \in late \/ StockOf(s[1]) \in doubt',
         \A f \in Fields :
           /\ t \in writers'[f] <=> f[1] \in (IF f[2] = "stock" THEN r.unsaved ELSE r.priced)
           /\ \A u \in BookTasks : u # t => (u \in writers'[f] <=> u \in writers[f]),
         \A f \in Fields : f \in doubt' \/ Untouched(f) \/ Opened(f, t) \/ Closed(f, t)
  PROVE  BooksInv'
<1>1. Types /\ WritersAreKnown /\ HidesNothing /\ t \in BookTasks /\ \A u \in Runs : u \notin Callbacks
  BY TasksType DEF BooksInv, BookTasks
<1>2. /\ DOMAIN run' = Runs /\ past' \in [Listings -> SUBSET Runs]
      /\ \A u \in Runs : RunTypeOK(run'[u]) /\ InOrder(u, run'[u])
      /\ \A u \in Runs : u # t => run'[u] = run[u]
      /\ run'[t].priced = r.priced /\ run'[t].unsaved = r.unsaved
      /\ run'[t] = Rested \/ (run'[t].plan = r.plan /\ run'[t].seen = r.seen)
  BY <1>1, RunMoves DEF BooksInv
<1>3. Types'
  BY <1>1, <1>2 DEF Types, ListingTypeOK, Shop
<1>4. WritersAreKnown'
  <2> SUFFICES ASSUME NEW f \in Fields, NEW u \in BookTasks
               PROVE  u \in writers'[f] <=> MidWrite(f, u)'
    BY DEF WritersAreKnown
  <2>1. CASE u = t
    BY <1>1, <1>2, <2>1 DEF MidWrite
  <2>2. CASE u # t
    <3>1. u \in writers'[f] <=> MidWrite(f, u)
      BY <1>1, <2>2 DEF WritersAreKnown
    <3>2. u \in Callbacks \/ run'[u] = run[u]
      BY <1>2, <2>2 DEF BookTasks
    <3> QED BY <3>1, <3>2 DEF MidWrite, On
  <2> QED BY <2>1, <2>2
<1>5. HidesNothing'
  BY <1>1 DEF HidesNothing
<1>6. \A f \in Fields : Sound(f)'
  <2>1. ASSUME NEW f \in Fields, NEW u \in BookTasks, u \in writers[f], Untouched(f), HalfWritten(f, u)
        PROVE  HalfWritten(f, u)'
    <3>1. CASE u \in Callbacks
      BY <2>1, <3>1, WritingStays
    <3>2. CASE u \notin Callbacks /\ u # t
      <4>1. run'[u] = run[u]
        BY <1>2, <3>2 DEF BookTasks
      <4> QED BY <2>1, <3>2, <4>1, WritingStays
    <3>3. CASE u = t
      <4>1. f[1] \in (IF f[2] = "stock" THEN r.unsaved ELSE r.priced)
        BY <2>1, <3>3 DEF Untouched
      <4>2. run'[t].plan = run[t].plan
        <5>1. r.plan = run[t].plan /\ ~(r.priced = {} /\ r.unsaved = {})
          BY <4>1
        <5> QED BY <1>2, <5>1, RestedIsRun
      <4> QED BY <1>1, <2>1, <3>3, <4>2, WritingStays
    <3> QED BY <3>1, <3>2, <3>3
  <2> QED BY <1>1, <2>1, FieldsStaySound DEF BooksInv
<1>7. \A l \in Listings : BreachesHandled(l)'
  <2>1. ASSUME NEW l \in Listings, NEW u \in Runs, l \in DOMAIN run'[u].seen
        PROVE  l \in DOMAIN run[u].seen /\ run'[u].seen[l].oos = run[u].seen[l].oos
    BY <1>2, <2>1, RestedIsRun
  <2> QED BY <2>1, BreachFrame DEF BooksInv
<1> QED BY <1>2, <1>3, <1>4, <1>5, <1>6, <1>7 DEF BooksInv
-------------------------------------------------------------------------------
(* The runs *)

\* What is known of a run.
LEMMA RunFacts ==
  ASSUME BooksInv, NEW t \in Runs
  PROVE  /\ Types /\ t \in BookTasks /\ RunTypeOK(run[t]) /\ InOrder(t, run[t])
         /\ row \in [Listings -> Row] /\ shop \in [Listings -> Shop]
         /\ writers \in [Fields -> SUBSET BookTasks] /\ doubt \subseteq Fields /\ late \subseteq Listings \X Nat
         /\ Planned(t) \subseteq Listings
         /\ \A l \in Planned(t) : PlanOf(t, l) \in Planning
         /\ \A f \in Fields : t \in writers[f] <=> f[1] \in (IF f[2] = "stock" THEN run[t].unsaved ELSE run[t].priced)
<1>1. Types /\ t \in BookTasks /\ RunTypeOK(run[t]) /\ InOrder(t, run[t]) /\ t \notin Callbacks
  BY TasksType DEF BooksInv, BookTasks, Types, ListingTypeOK
<1>2. /\ row \in [Listings -> Row] /\ shop \in [Listings -> Shop]
      /\ writers \in [Fields -> SUBSET BookTasks] /\ doubt \subseteq Fields /\ late \subseteq Listings \X Nat
  BY <1>1 DEF Types, ListingTypeOK, Shop
<1>3. Planned(t) \subseteq Listings /\ \A l \in Planned(t) : PlanOf(t, l) \in Planning
  BY <1>1 DEF RunTypeOK, Planned, PlanOf
<1>4. \A f \in Fields : t \in writers[f] <=> f[1] \in (IF f[2] = "stock" THEN run[t].unsaved ELSE run[t].priced)
  BY <1>1 DEF BooksInv, WritersAreKnown, MidWrite
<1> QED BY <1>1, <1>2, <1>3, <1>4

\* Loading, a run reads counts that are below the thresholds or handled.
LEMMA LoadStep ==
  ASSUME BooksInv, NEW t \in Runs, Load(t), UNCHANGED task
  PROVE  BooksInv'
<1> DEFINE seen == [l \in Loaded(t) |-> [declared |-> row[l].declared, price |-> row[l].price, oos |-> row[l].oos]]
           r == [Rested EXCEPT !.at = "decide", !.seen = seen]
<1>1. /\ Types /\ run[t].at = "load" /\ UNCHANGED <<bookVars, task>> /\ run' = [run EXCEPT ![t] = r]
      /\ past' = [l \in Listings |-> past[l] \union (IF writers[PriceOf(l)] = {} THEN {} ELSE {t})]
  BY DEF BooksInv, Load, RunAt
<1>2. row \in [Listings -> Row] /\ DOMAIN run = Runs /\ past \in [Listings -> SUBSET Runs]
  BY <1>1 DEF Types, ListingTypeOK
<1>3. Loaded(t) \subseteq Listings /\ seen \in [Loaded(t) -> Glimpse]
  BY <1>2 DEF Loaded, Glimpse, Row
<1> HIDE DEF seen
<1>4. r.at = "decide" /\ r.seen = seen /\ DOMAIN r.seen = Loaded(t) /\ DOMAIN r.plan = {}
      /\ r.todo = {} /\ r.unpriced = {} /\ r.priced = {} /\ r.unsaved = {} /\ r.plan = Rested.plan
  BY <1>3, RestedIsRun DEF Rested
<1>5. RunTypeOK(r)
  BY <1>3, <1>4, RestedIsRun DEF RunTypeOK, Rested
<1>6. InOrder(t, r)
  BY <1>4 DEF InOrder, FixesOf
<1> HIDE DEF r
<1>7. run'[t] = r /\ DOMAIN run' = Runs /\ \A u \in Runs : u # t => run'[u] = run[u]
  BY <1>1, <1>2
<1>8. past' \in [Listings -> SUBSET Runs]
  BY <1>1, <1>2
<1>9. Types'
  BY <1>1, <1>5, <1>7, <1>8 DEF Types, ListingTypeOK, bookVars
<1>10. run[t].priced = {} /\ run[t].unsaved = {}
  BY <1>1 DEF BooksInv, InOrder
<1>11. WritersAreKnown'
  <2> SUFFICES ASSUME NEW f \in Fields, NEW u \in BookTasks
               PROVE  u \in writers'[f] <=> MidWrite(f, u)'
    BY DEF WritersAreKnown
  <2>1. u \in writers[f] <=> MidWrite(f, u)
    BY DEF BooksInv, WritersAreKnown
  <2>2. u \in Callbacks \/ (u = t \/ run'[u] = run[u])
    BY <1>7 DEF BookTasks
  <2> QED BY <1>1, <1>4, <1>7, <1>10, <2>1, <2>2 DEF MidWrite, On, bookVars
<1>12. HidesNothing' /\ \A u \in Runs : InOrder(u, run'[u])
  BY <1>1, <1>6, <1>7 DEF BooksInv, HidesNothing
<1>13. \A f \in Fields : Sound(f)'
  <2>1. \A f \in Fields : Untouched(f)
    BY <1>1 DEF Untouched, bookVars
  <2>2. ASSUME NEW f \in Fields, NEW u \in BookTasks, u \in writers[f], HalfWritten(f, u)
        PROVE  HalfWritten(f, u)'
    <3>1. CASE u \in Callbacks
      BY <1>1, <2>1, <2>2, <3>1, WritingStays
    <3>2. CASE u \notin Callbacks
      <4>1. MidWrite(f, u)
        BY <2>2 DEF BooksInv, WritersAreKnown
      <4>2. u # t
        BY <1>10, <3>2, <4>1 DEF MidWrite
      <4>3. run'[u] = run[u]
        BY <1>7, <3>2, <4>2 DEF BookTasks
      <4> QED BY <2>1, <2>2, <3>2, <4>3, WritingStays
    <3> QED BY <3>1, <3>2
  <2>3. t \in BookTasks /\ late' = late
    BY <1>1 DEF BookTasks, bookVars
  <2> QED BY <1>1, <2>1, <2>2, <2>3, FieldsStaySound DEF BooksInv
<1>14. \A l \in Listings : BreachesHandled(l)'
  <2>1. ASSUME NEW l \in Listings, NEW u \in Runs, l \in DOMAIN run'[u].seen
        PROVE  \/ run'[u].seen[l].oos = row[l].oos
               \/ l \in DOMAIN run[u].seen /\ run'[u].seen[l].oos = run[u].seen[l].oos
    <3>1. CASE u = t
      BY <1>4, <1>7, <2>1, <3>1 DEF seen
    <3>2. CASE u # t
      BY <1>7, <2>1, <3>2
    <3> QED BY <3>1, <3>2
  <2> QED BY <1>1, <2>1, BreachFrame DEF BooksInv, bookVars
<1> QED BY <1>9, <1>11, <1>12, <1>13, <1>14 DEF BooksInv

\* What a run decides for a listing it acts on has its shape.
LEMMA DecidesSoundly ==
  ASSUME Types, NEW t \in Runs, NEW l \in DOMAIN run[t].seen, Decision(t, l) # Stay
  PROVE  Decision(t, l) \in Planning /\ (~Pricing(t) => Decision(t, l).qty \in Nat)
<1>1. PhaseOf[t] \in Phases
  BY PhasesType
<1>2. CASE PhaseOf[t] = "pricing"
  BY <1>2, PricingDecides DEF Decision, Pricing
<1>3. CASE PhaseOf[t] \in {"declared", "remote"}
  <2>1. Declarable(DeclaredPlan(t, l)) /\ Declarable(RemotePlan(t, l))
    BY StockDecides
  <2> QED BY <1>3, <2>1 DEF Decision, Declarable
<1> QED BY <1>1, <1>2, <1>3 DEF Phases

\* A run that decides to act plans for the listings it acts on, or it rests.
LEMMA DecideEffect ==
  ASSUME BooksInv, NEW t \in Runs, Decide(t)
  PROVE  LET acts == {l \in DOMAIN run[t].seen : Decision(t, l) # Stay}
             plan == [l \in acts |-> Decision(t, l)]
         IN  \/ Proceed(t, Rested, {})
             \/ \E where \in {"prices", "push"} :
                  /\ Pricing(t) \/ FixesOf([plan |-> plan]) # {} => where = "prices"
                  /\ where = "prices" \/ ~Pricing(t)
                  /\ Proceed(t, [run[t] EXCEPT !.at = where, !.plan = plan,
                                               !.seen = IF Pricing(t) THEN @ ELSE NoPlan], {})
<1> DEFINE acts == {l \in DOMAIN run[t].seen : Decision(t, l) # Stay}
           plan == [l \in acts |-> Decision(t, l)]
           fixes == {l \in acts : Decision(t, l).qty > 0 /\ Decision(t, l).price > 0}
           where == IF Pricing(t) \/ fixes # {} THEN "prices" ELSE "push"
<1>1. \/ Proceed(t, Rested, {})
      \/ Proceed(t, [run[t] EXCEPT !.at = where, !.plan = plan, !.seen = IF Pricing(t) THEN @ ELSE NoPlan], {})
  BY DEF Decide
<1>2. FixesOf([plan |-> plan]) = fixes
  BY DEF FixesOf
<1> QED BY <1>1, <1>2

\* Deciding, a run writes nothing.
LEMMA DecideStep ==
  ASSUME BooksInv, NEW t \in Runs, Decide(t), UNCHANGED task
  PROVE  BooksInv'
<1> DEFINE acts == {l \in DOMAIN run[t].seen : Decision(t, l) # Stay}
           plan == [l \in acts |-> Decision(t, l)]
<1>1. /\ Types /\ run[t].at = "decide" /\ UNCHANGED bookVars /\ RunTypeOK(run[t]) /\ InOrder(t, run[t])
      /\ t \in BookTasks /\ row \in [Listings -> Row] /\ shop \in [Listings -> Shop]
      /\ writers \in [Fields -> SUBSET BookTasks] /\ doubt \subseteq Fields /\ late \subseteq Listings \X Nat
  BY RunFacts DEF Decide, RunAt
<1>2. run[t].priced = {} /\ run[t].unsaved = {} /\ run[t].todo = {} /\ run[t].unpriced = {}
  BY <1>1 DEF InOrder
<1>3. /\ \A f \in Fields : Untouched(f) /\ t \notin writers[f]
      /\ UNCHANGED <<mode, row, shop, supply, rivals, spared, writers, doubt, late>>
  <2>1. UNCHANGED <<mode, row, shop, supply, rivals, spared, writers, doubt, late>>
    BY <1>1 DEF bookVars
  <2> QED BY <1>2, <2>1, RunFacts DEF Untouched
<1>4. CASE Proceed(t, Rested, {})
  BY <1>1, <1>3, <1>4, RestedIsRun, RunWrites
<1>5. ASSUME NEW where \in {"prices", "push"}, where = "prices" \/ ~Pricing(t),
             Proceed(t, [run[t] EXCEPT !.at = where, !.plan = plan, !.seen = IF Pricing(t) THEN @ ELSE NoPlan], {})
      PROVE  BooksInv'
  <2> DEFINE r == [run[t] EXCEPT !.at = where, !.plan = plan, !.seen = IF Pricing(t) THEN @ ELSE NoPlan]
  <2>1. \A l \in acts : Decision(t, l) \in Planning /\ (~Pricing(t) => Decision(t, l).qty \in Nat)
    BY <1>1, DecidesSoundly
  <2>2. acts \subseteq DOMAIN run[t].seen /\ DOMAIN run[t].seen \subseteq Listings /\ DOMAIN NoPlan = {}
        /\ NoPlan \in [{} -> Glimpse] /\ run[t].seen \in [DOMAIN run[t].seen -> Glimpse]
    BY <1>1 DEF RunTypeOK, NoPlan
  <2> HIDE DEF acts
  <2>3. DOMAIN plan = acts /\ plan \in [acts -> Planning] /\ \A l \in acts : ~Pricing(t) => plan[l].qty \in Nat
    BY <2>1
  <2> HIDE DEF plan
  <2>4. /\ r.at = where /\ r.plan = plan /\ r.seen = (IF Pricing(t) THEN run[t].seen ELSE NoPlan)
        /\ r.todo = {} /\ r.unpriced = {} /\ r.priced = {} /\ r.unsaved = {}
    BY <1>1, <1>2 DEF RunTypeOK
  <2>5. RunTypeOK(r)
    <3>1. r \in [at : {where}, seen : {r.seen}, plan : {r.plan}, todo : {{}}, unpriced : {{}}, priced : {{}}, unsaved : {{}}]
      BY <1>1, <1>2, <2>4 DEF RunTypeOK
    <3>2. DOMAIN r.seen \subseteq Listings /\ r.seen \in [DOMAIN r.seen -> Glimpse]
      BY <2>2, <2>4
    <3>3. DOMAIN r.plan \subseteq Listings /\ r.plan \in [DOMAIN r.plan -> Planning]
      BY <2>2, <2>3, <2>4
    <3> HIDE DEF r
    <3> QED BY <3>1, <3>2, <3>3 DEF RunTypeOK
  <2>6. InOrder(t, r)
    <3> HIDE DEF r
    <3> QED BY <1>5, <2>2, <2>3, <2>4 DEF InOrder, FixesOf
  <2>7. Proceed(t, r, {})
    BY <1>5
  <2>8. \A l \in DOMAIN r.seen : l \in DOMAIN run[t].seen /\ r.seen[l].oos = run[t].seen[l].oos
    BY <2>2, <2>4
  <2> HIDE DEF r
  <2> QED BY <1>1, <1>3, <2>4, <2>5, <2>6, <2>7, <2>8, RunWrites
<1>6. \/ Proceed(t, Rested, {})
      \/ \E where \in {"prices", "push"} :
           /\ where = "prices" \/ ~Pricing(t)
           /\ Proceed(t, [run[t] EXCEPT !.at = where, !.plan = plan, !.seen = IF Pricing(t) THEN @ ELSE NoPlan], {})
  BY DecideEffect
<1> QED BY <1>4, <1>5, <1>6
\* What the marketplace asks after it took some prices, and that nothing else changes.
LEMMA AskingEffect ==
  ASSUME BooksInv, NEW t \in Runs, NEW A, A \subseteq Planned(t), NEW least \in {0, ProviderFloor}, AsksFrom(t, A, least)
  PROVE  /\ shop' \in [Listings -> Shop]
         /\ \A l \in Listings : shop'[l].stock = shop[l].stock
         /\ \A l \in Listings \ A : shop'[l].price = shop[l].price
         /\ \A l \in A : shop'[l].price = Max({PlanOf(t, l).price, least})
         /\ \A l \in A : Max({PlanOf(t, l).price, least}) \in {PlanOf(t, l).price, Max({PlanOf(t, l).price, ProviderFloor})}
<1>1. shop \in [Listings -> Shop] /\ A \subseteq Listings /\ ProviderFloor \in Nat
  BY RunFacts, CentsType
<1>2. ASSUME NEW l \in A
      PROVE  /\ Max({PlanOf(t, l).price, least}) \in Nat
             /\ Max({PlanOf(t, l).price, least}) \in {PlanOf(t, l).price, Max({PlanOf(t, l).price, ProviderFloor})}
  <2>1. PlanOf(t, l).price \in Nat
    BY RunFacts DEF Planning
  <2>2. ASSUME NEW p \in Nat
        PROVE  Max({p, least}) \in Nat /\ Max({p, least}) \in {p, Max({p, ProviderFloor})}
    <3>1. p \in Int /\ least \in Int
      BY <1>1
    <3>2. Max({p, least}) \in {p, least} /\ Max({p, least}) >= p
      BY <3>1, MaxOfTwo
    <3> QED BY <1>1, <3>2
  <2> QED BY <2>1, <2>2
<1> DEFINE asked(l) == Max({PlanOf(t, l).price, least})
<1>3. \A l \in A : asked(l) \in Nat
  BY <1>2
<1>4. shop' = [l \in Listings |-> IF l \in A THEN [shop[l] EXCEPT !.price = asked(l)] ELSE shop[l]]
  BY DEF AsksFrom
<1> HIDE DEF asked
<1>5. /\ shop' \in [Listings -> Shop]
      /\ \A l \in Listings : shop'[l].stock = shop[l].stock
      /\ \A l \in Listings \ A : shop'[l].price = shop[l].price
      /\ \A l \in A : shop'[l].price = asked(l)
  BY <1>1, <1>3, <1>4 DEF Shop
<1> QED BY <1>2, <1>5 DEF asked

\* Prices as fields.
LEMMA PricesAre ==
  ASSUME NEW A, A \subseteq Listings
  PROVE  /\ PricesOf(A) \in SUBSET Fields
         /\ \A f \in Fields : f \in PricesOf(A) <=> f[2] = "price" /\ f[1] \in A
<1>1. \A l \in A : PriceOf(l) \in Fields
  BY FieldsAre
<1>2. ASSUME NEW f \in Fields
      PROVE  f \in PricesOf(A) <=> f[2] = "price" /\ f[1] \in A
  <2>1. f \in PricesOf(A) => f[2] = "price" /\ f[1] \in A
    BY FieldsAre DEF PricesOf
  <2>2. f[2] = "price" /\ f[1] \in A => f \in PricesOf(A)
    BY FieldsAre DEF PricesOf
  <2> QED BY <2>1, <2>2
<1> QED BY <1>1, <1>2 DEF PricesOf

\* A run that pushes the prices P, and is to save some of them when it has an answer.
LEMMA PriceWrites ==
  ASSUME BooksInv, NEW t \in Runs, NEW P, P \subseteq Planned(t), NEW A, A \subseteq P, NEW saved, saved \subseteq P,
         NEW least \in {0, ProviderFloor}, NEW r, RunTypeOK(r), InOrder(t, r), Proceed(t, r, P),
         run[t].priced = {}, run[t].unsaved = {}, r.priced = saved, r.unsaved = {},
         r = Rested \/ (r.plan = run[t].plan /\ r.seen = run[t].seen),
         \/ A \subseteq saved /\ PricesAnswered(t, P, A, least) /\ Opens(PricesOf(saved), t)
         \/ saved = {} /\ PricesLost(t, P, least) /\ UNCHANGED writers,
         UNCHANGED <<mode, row, supply, rivals, late, spared, task>>
  PROVE  BooksInv'
<1>1. /\ Types /\ t \in BookTasks /\ t \notin Callbacks /\ P \subseteq Listings /\ A \subseteq Listings /\ saved \subseteq Listings
      /\ row \in [Listings -> Row] /\ late \subseteq Listings \X Nat
      /\ writers \in [Fields -> SUBSET BookTasks] /\ doubt \subseteq Fields
      /\ \A f \in Fields : t \notin writers[f]
  BY RunFacts, TasksType
<1>2. /\ saved # {} => r # Rested /\ r.plan = run[t].plan
      /\ r.plan = run[t].plan \/ (r.priced = {} /\ r.unsaved = {})
      /\ \A l \in DOMAIN r.seen : l \in DOMAIN run[t].seen /\ r.seen[l].oos = run[t].seen[l].oos
  BY RestedIsRun
<1>3. run'[t] = Rested \/ run'[t].plan = r.plan
  BY <1>1, RunMoves DEF BooksInv
<1>4. run'[t].priced = saved
  BY <1>1, RunMoves DEF BooksInv
<1>5. saved # {} => run'[t].plan = run[t].plan
  BY <1>2, <1>3, <1>4, RestedIsRun
<1>6. CASE A \subseteq saved /\ PricesAnswered(t, P, A, least) /\ Opens(PricesOf(saved), t)
  <2>1. /\ shop' \in [Listings -> Shop]
        /\ \A l \in Listings : shop'[l].stock = shop[l].stock
        /\ \A l \in Listings \ A : shop'[l].price = shop[l].price
        /\ \A l \in A : shop'[l].price \in {PlanOf(t, l).price, Max({PlanOf(t, l).price, ProviderFloor})}
    BY <1>6, AskingEffect DEF PricesAnswered
  <2>2. /\ doubt' \subseteq Fields
        /\ \A f \in PricesOf(A) : f \in doubt' \/ ~Crossed(f, t)
        /\ \A f \in PricesOf(P \ A) : f \in doubt'
        /\ \A f \in Fields : f \in doubt /\ f \notin PricesOf(A) => f \in doubt'
    BY <1>1, <1>6, SettlingEffect, PricesAre DEF PricesAnswered
  <2>3. /\ writers' \in [Fields -> SUBSET BookTasks]
        /\ \A f \in PricesOf(saved) : writers'[f] = writers[f] \union {t}
        /\ \A f \in Fields \ PricesOf(saved) : writers'[f] = writers[f]
    BY <1>1, <1>6, OpeningEffect, PricesAre
  <2>4. ASSUME NEW f \in Fields
        PROVE  f \in doubt' \/ Untouched(f) \/ Opened(f, t)
    <3>1. CASE f[2] = "price" /\ f[1] \in A
      <4>1. f \in PricesOf(A) /\ f \in PricesOf(saved)
        BY <1>1, <1>6, <3>1, PricesAre
      <4>2. Writing(f, t)' = PlanOf(t, f[1]).price
        BY <1>1, <1>5, <1>6, <3>1 DEF Writing, PlanOf
      <4>3. HalfWritten(f, t)'
        BY <1>1, <2>1, <3>1, <4>2 DEF HalfWritten, Shows
      <4> QED BY <2>2, <2>3, <4>1, <4>3 DEF Opened
    <3>2. CASE f[2] = "price" /\ f[1] \in P \ A
      <4>1. f \in PricesOf(P \ A)
        BY <1>1, <3>2, PricesAre
      <4> QED BY <2>2, <4>1
    <3>3. CASE ~(f[2] = "price" /\ f[1] \in P)
      <4>1. f \notin PricesOf(A) /\ f \notin PricesOf(saved)
        BY <1>1, <3>3, PricesAre
      <4>2. f[1] \in Listings /\ (f[2] = "stock" \/ f[1] \notin A)
        BY <3>3, FieldsAre
      <4> QED BY <2>1, <2>2, <2>3, <4>1, <4>2 DEF Untouched
    <3> QED BY <3>1, <3>2, <3>3
  <2>5. \A f \in Fields : f \in PricesOf(saved) <=> f[2] = "price" /\ f[1] \in saved
    BY <1>1, PricesAre
  <2>6. \A f \in Fields : f[2] = "stock" => f[2] # "price"
    OBVIOUS
  <2>7. ASSUME NEW f \in Fields
        PROVE  /\ t \in writers'[f] <=> f[1] \in (IF f[2] = "stock" THEN r.unsaved ELSE r.priced)
               /\ \A u \in BookTasks : u # t => (u \in writers'[f] <=> u \in writers[f])
    <3>1. f[2] = "stock" \/ f[2] = "price"
      BY FieldsAre
    <3> QED BY <1>1, <2>3, <2>5, <3>1
  <2> QED BY <1>1, <1>2, <2>1, <2>2, <2>3, <2>4, <2>7, RunWrites
<1>7. CASE saved = {} /\ PricesLost(t, P, least) /\ UNCHANGED writers
  <2>1. PICK B \in SUBSET P : AsksFrom(t, B, least)
    BY <1>7 DEF PricesLost
  <2>2. /\ shop' \in [Listings -> Shop]
        /\ \A l \in Listings : shop'[l].stock = shop[l].stock
        /\ \A l \in Listings \ P : shop'[l].price = shop[l].price
    BY <2>1, AskingEffect
  <2>3. doubt' = doubt \union PricesOf(P) /\ doubt' \subseteq Fields
    BY <1>1, <1>7, PricesAre DEF PricesLost
  <2>4. ASSUME NEW f \in Fields
        PROVE  f \in doubt' \/ Untouched(f)
    <3>1. CASE f[2] = "price" /\ f[1] \in P
      BY <1>1, <2>3, <3>1, PricesAre
    <3>2. CASE ~(f[2] = "price" /\ f[1] \in P)
      <4>1. f[1] \in Listings /\ (f[2] = "stock" \/ f[1] \notin P)
        BY <3>2, FieldsAre
      <4> QED BY <1>7, <2>2, <2>3, <4>1 DEF Untouched
    <3> QED BY <3>1, <3>2
  <2> QED BY <1>1, <1>2, <1>7, <2>2, <2>3, <2>4, RunWrites
<1> QED BY <1>6, <1>7

\* The pricing phase pushes what it decided.
LEMMA PushPricesStep ==
  ASSUME BooksInv, NEW t \in Runs, PushPrices(t), UNCHANGED task
  PROVE  BooksInv'
<1>1. /\ RunTypeOK(run[t]) /\ InOrder(t, run[t]) /\ run[t].at = "prices" /\ Pricing(t)
      /\ UNCHANGED <<mode, row, supply, rivals, late, spared>>
  BY RunFacts DEF PushPrices, RunAt
<1>2. /\ run[t].todo = {} /\ run[t].unpriced = {} /\ run[t].priced = {} /\ run[t].unsaved = {}
      /\ Planned(t) = DOMAIN run[t].plan /\ Planned(t) \subseteq DOMAIN run[t].seen
  BY <1>1 DEF InOrder, Planned
<1> DEFINE r == [run[t] EXCEPT !.at = "saveprices", !.priced = Planned(t)]
<1>3. ASSUME NEW A \in SUBSET Planned(t), PricesAnswered(t, Planned(t), A, ProviderFloor),
             Opens(PricesOf(Planned(t)), t), Proceed(t, r, Planned(t))
      PROVE  BooksInv'
  <2>1. /\ RunTypeOK(r) /\ r.at = "saveprices" /\ r.plan = run[t].plan /\ r.seen = run[t].seen
        /\ r.todo = {} /\ r.unpriced = {} /\ r.unsaved = {} /\ r.priced = Planned(t)
    BY <1>1, <1>2 DEF RunTypeOK
  <2> HIDE DEF r
  <2>2. InOrder(t, r)
    BY <1>1, <1>2, <2>1 DEF InOrder
  <2> QED BY <1>1, <1>2, <1>3, <2>1, <2>2, PriceWrites
<1>4. ASSUME PricesLost(t, Planned(t), ProviderFloor), Proceed(t, Rested, Planned(t)), UNCHANGED writers
      PROVE  BooksInv'
  BY <1>1, <1>2, <1>4, RestedIsRun, PriceWrites
<1> QED BY <1>3, <1>4 DEF PushPrices

\* A stock phase pushes the prices it corrects.
LEMMA FixPricesStep ==
  ASSUME BooksInv, NEW t \in Runs, FixPrices(t), UNCHANGED task
  PROVE  BooksInv'
<1>1. /\ RunTypeOK(run[t]) /\ InOrder(t, run[t]) /\ run[t].at = "prices" /\ ~Pricing(t)
      /\ UNCHANGED <<mode, row, supply, rivals, late, spared>>
  BY RunFacts DEF FixPrices, RunAt
<1>2. /\ run[t].todo = {} /\ run[t].unpriced = {} /\ run[t].priced = {} /\ run[t].unsaved = {}
      /\ Fixes(t) = FixesOf(run[t]) /\ Fixes(t) \subseteq Planned(t) /\ Fixes(t) \in SUBSET DOMAIN run[t].plan
      /\ \A l \in DOMAIN run[t].plan : run[t].plan[l].qty \in Nat
  BY <1>1 DEF InOrder, Planned, PlanOf, Fixes, FixesOf
<1>3. ASSUME NEW A \in SUBSET Fixes(t), PricesAnswered(t, Fixes(t), A, 0),
             LET saved == IF SavesPrices(t, A) THEN Fixes(t) ELSE {} IN
               /\ Opens(PricesOf(saved), t)
               /\ Proceed(t, [run[t] EXCEPT !.at = "saveprices", !.priced = saved], Fixes(t))
      PROVE  BooksInv'
  <2> DEFINE saved == IF SavesPrices(t, A) THEN Fixes(t) ELSE {}
             r == [run[t] EXCEPT !.at = "saveprices", !.priced = saved]
  <2>1. saved \subseteq Fixes(t) /\ A \subseteq saved
    BY DEF SavesPrices
  <2>2. Opens(PricesOf(saved), t) /\ Proceed(t, r, Fixes(t))
    BY <1>3
  <2> HIDE DEF saved
  <2>3. /\ RunTypeOK(r) /\ r.at = "saveprices" /\ r.plan = run[t].plan /\ r.seen = run[t].seen
        /\ r.todo = {} /\ r.unpriced = {} /\ r.unsaved = {} /\ r.priced = saved
    BY <1>1, <1>2, <2>1 DEF RunTypeOK
  <2> HIDE DEF r
  <2>4. InOrder(t, r)
    BY <1>1, <1>2, <2>1, <2>3 DEF InOrder, FixesOf
  <2> QED BY <1>1, <1>2, <1>3, <2>1, <2>2, <2>3, <2>4, PriceWrites
<1>4. ASSUME PricesLost(t, Fixes(t), 0), Proceed(t, [run[t] EXCEPT !.at = "fixeach", !.unpriced = Fixes(t)], Fixes(t)),
             UNCHANGED writers
      PROVE  BooksInv'
  <2> DEFINE r == [run[t] EXCEPT !.at = "fixeach", !.unpriced = Fixes(t)]
  <2>1. /\ RunTypeOK(r) /\ r.at = "fixeach" /\ r.plan = run[t].plan /\ r.seen = run[t].seen
        /\ r.todo = {} /\ r.unpriced = Fixes(t) /\ r.unsaved = {} /\ r.priced = {}
    BY <1>1, <1>2 DEF RunTypeOK
  <2>2. Proceed(t, r, Fixes(t))
    BY <1>4
  <2> HIDE DEF r
  <2>3. InOrder(t, r)
    BY <1>1, <1>2, <2>1 DEF InOrder, FixesOf
  <2> QED BY <1>1, <1>2, <1>4, <2>1, <2>2, <2>3, PriceWrites
<1> QED BY <1>3, <1>4 DEF FixPrices

\* One price is pushed and perhaps to be saved.
LEMMA FixOneStep ==
  ASSUME BooksInv, NEW t \in Runs, NEW l \in Listings, FixOne(t, l), UNCHANGED task
  PROVE  BooksInv'
<1> DEFINE rest == [run[t] EXCEPT !.unpriced = @ \ {l}]
           r == [rest EXCEPT !.priced = {l}]
<1>1. /\ RunTypeOK(run[t]) /\ InOrder(t, run[t]) /\ run[t].at \in {"fixeach", "flush"}
      /\ l \in run[t].unpriced /\ run[t].priced = {} /\ run[t].unsaved = {}
      /\ UNCHANGED <<mode, row, supply, rivals, late, spared>>
  BY RunFacts DEF FixOne, Turn
<1>2. \/ \E A \in SUBSET {l} : /\ PricesAnswered(t, {l}, A, 0) /\ Opens({PriceOf(l)}, t) /\ Proceed(t, r, {l})
      \/ PricesLost(t, {l}, 0) /\ Proceed(t, rest, {l}) /\ UNCHANGED writers
  BY DEF FixOne
<1>3. {l} \subseteq Planned(t) /\ {PriceOf(l)} = PricesOf({l})
  BY <1>1 DEF RunTypeOK, Planned, PricesOf
<1>4. /\ RunTypeOK(rest) /\ rest.at = run[t].at /\ rest.plan = run[t].plan /\ rest.seen = run[t].seen
      /\ rest.todo = run[t].todo /\ rest.unpriced = run[t].unpriced \ {l} /\ rest.unsaved = {} /\ rest.priced = {}
  BY <1>1 DEF RunTypeOK
<1>5. InOrder(t, rest)
  <2> HIDE DEF rest
  <2> QED BY <1>1, <1>4 DEF InOrder, FixesOf
<1>6. /\ RunTypeOK(r) /\ r.at = run[t].at /\ r.plan = run[t].plan /\ r.seen = run[t].seen
      /\ r.todo = run[t].todo /\ r.unpriced = run[t].unpriced \ {l} /\ r.unsaved = {} /\ r.priced = {l}
  <2> HIDE DEF rest
  <2> QED BY <1>1, <1>3, <1>4 DEF RunTypeOK, Planned
<1>7. InOrder(t, r)
  <2> HIDE DEF r
  <2> QED BY <1>1, <1>6 DEF InOrder, FixesOf
<1> HIDE DEF r, rest
<1>8. ASSUME NEW A \in SUBSET {l}, PricesAnswered(t, {l}, A, 0), Opens({PriceOf(l)}, t), Proceed(t, r, {l})
      PROVE  BooksInv'
  BY <1>1, <1>3, <1>6, <1>7, <1>8, PriceWrites
<1>9. ASSUME PricesLost(t, {l}, 0), Proceed(t, rest, {l}), UNCHANGED writers
      PROVE  BooksInv'
  BY <1>1, <1>3, <1>4, <1>5, <1>9, PriceWrites
<1> QED BY <1>2, <1>8, <1>9

\* A pushed price is saved, and by the pricing phase the count it had loaded.
LEMMA SavePriceStep ==
  ASSUME BooksInv, NEW t \in Runs, NEW l \in Listings, SavePrice(t, l), UNCHANGED task
  PROVE  BooksInv'
<1> DEFINE r == [run[t] EXCEPT !.priced = @ \ {l}]
           p == PlanOf(t, l).price
           n == IF Pricing(t) THEN run[t].seen[l].oos ELSE row[l].oos
<1>1. /\ Types /\ t \in BookTasks /\ RunTypeOK(run[t]) /\ InOrder(t, run[t]) /\ l \in run[t].priced
      /\ row \in [Listings -> Row] /\ shop \in [Listings -> Shop] /\ late \subseteq Listings \X Nat
      /\ writers \in [Fields -> SUBSET BookTasks]
      /\ Keeps(PriceOf(l), t) /\ Closes(PriceOf(l), t) /\ Proceed(t, r, {l})
      /\ UNCHANGED <<mode, shop, supply, rivals, late, spared>>
  BY RunFacts DEF SavePrice
<1>2. /\ row' = [row EXCEPT ![l] = [row[l] EXCEPT !.price = p, !.oos = n]]
  BY <1>1 DEF SavePrice
<1>3. l \in Planned(t) /\ l \in DOMAIN run[t].plan /\ p \in Nat
  BY <1>1, RunFacts DEF RunTypeOK, Planned, Planning
<1>4. n \in Nat /\ (n = row[l].oos \/ (Pricing(t) /\ l \in DOMAIN run[t].seen /\ n = run[t].seen[l].oos))
  <2>1. CASE Pricing(t)
    <3>1. run[t].at \in {"prices", "saveprices"}
      BY <1>1, <2>1 DEF InOrder, RunTypeOK
    <3>2. l \in DOMAIN run[t].seen /\ run[t].seen[l] \in Glimpse
      BY <1>1, <1>3, <2>1, <3>1 DEF InOrder, RunTypeOK
    <3> QED BY <2>1, <3>2 DEF Glimpse
  <2>2. CASE ~Pricing(t)
    BY <1>1, <2>2 DEF Row
  <2> QED BY <2>1, <2>2
<1> HIDE DEF p, n
<1>5. /\ row' \in [Listings -> Row] /\ row'[l].price = p /\ row'[l].oos = n
      /\ row'[l].status = row[l].status /\ row'[l].fails = row[l].fails /\ row'[l].declared = row[l].declared
      /\ \A k \in Listings : k # l => row'[k] = row[k]
  <2>1. [row[l] EXCEPT !.price = p, !.oos = n] \in Row
    BY <1>1, <1>3, <1>4 DEF Row
  <2> QED BY <1>1, <1>2, <2>1 DEF Row
<1>6. /\ RunTypeOK(r) /\ r.at = run[t].at /\ r.plan = run[t].plan /\ r.seen = run[t].seen
      /\ r.todo = run[t].todo /\ r.unpriced = run[t].unpriced /\ r.unsaved = run[t].unsaved /\ r.priced = run[t].priced \ {l}
  BY <1>1 DEF RunTypeOK
<1>7. Proceed(t, r, {l})
  BY <1>1
<1> HIDE DEF r
<1>8. InOrder(t, r)
  BY <1>1, <1>6 DEF InOrder, FixesOf
<1>9. PriceOf(l) \in Fields /\ PriceOf(l)[1] = l /\ PriceOf(l)[2] = "price"
  BY FieldsAre
<1>10. /\ doubt' \subseteq Fields /\ doubt \subseteq doubt'
       /\ PriceOf(l) \in doubt' \/ ~Crossed(PriceOf(l), t)
  BY <1>1, <1>9, KeepingEffect
<1>11. /\ writers' \in [Fields -> SUBSET BookTasks]
       /\ writers'[PriceOf(l)] = writers[PriceOf(l)] \ {t}
       /\ \A g \in Fields : g # PriceOf(l) => writers'[g] = writers[g]
  BY <1>1, <1>9, ClosingEffect
<1>12. t \in writers[PriceOf(l)] /\ t \notin Callbacks
  BY <1>1, <1>9, RunFacts, TasksType
<1>13. PriceOf(l) \in doubt' \/ Closed(PriceOf(l), t)
  <2> SUFFICES ASSUME PriceOf(l) \notin doubt'
               PROVE  Shows(PriceOf(l), Kept(PriceOf(l)))'
    BY <1>10, <1>11 DEF Closed
  <2>1. HalfWritten(PriceOf(l), t)
    BY <1>9, <1>10, <1>12 DEF BooksInv, Sound
  <2>2. Writing(PriceOf(l), t) = p
    BY <1>9, <1>12 DEF Writing, p, PlanOf
  <2>3. Shows(PriceOf(l), p)
    BY <1>12, <2>1, <2>2 DEF HalfWritten
  <2> QED BY <1>1, <1>5, <1>9, <2>3 DEF Shows, Kept
<1>14. ASSUME NEW f \in Fields
       PROVE  f \in doubt' \/ Untouched(f) \/ Closed(f, t)
  <2>1. CASE f = PriceOf(l)
    BY <1>13, <2>1
  <2>2. CASE f # PriceOf(l)
    <3>1. f[1] \in Listings /\ (f[2] = "stock" \/ f[1] # l)
      BY <2>2, FieldsAre
    <3> QED BY <1>1, <1>5, <1>10, <1>11, <2>2, <3>1 DEF Untouched
  <2> QED BY <2>1, <2>2
<1>15. ASSUME NEW f \in Fields
       PROVE  /\ t \in writers'[f] <=> f[1] \in (IF f[2] = "stock" THEN r.unsaved ELSE r.priced)
              /\ \A u \in BookTasks : u # t => (u \in writers'[f] <=> u \in writers[f])
  <2>1. t \in writers[f] <=> f[1] \in (IF f[2] = "stock" THEN run[t].unsaved ELSE run[t].priced)
    BY RunFacts
  <2>2. CASE f = PriceOf(l)
    BY <1>6, <1>9, <1>11, <2>2
  <2>3. CASE f # PriceOf(l)
    <3>1. f[2] = "stock" \/ f[1] # l
      BY <2>3, FieldsAre
    <3> QED BY <1>6, <1>11, <2>1, <2>3, <3>1
  <2> QED BY <2>2, <2>3
<1>16. \A k \in Listings :
         /\ row'[k].status = row[k].status /\ row'[k].fails = row[k].fails
         /\ row'[k].oos = row[k].oos \/ (Pricing(t) /\ k \in DOMAIN run[t].seen /\ row'[k].oos = run[t].seen[k].oos)
  BY <1>4, <1>5
<1> QED BY <1>1, <1>5, <1>6, <1>7, <1>8, <1>10, <1>11, <1>14, <1>15, <1>16, RunWrites
-------------------------------------------------------------------------------
(* The stock of a run *)

\* Stock as fields.
LEMMA StocksAre ==
  ASSUME NEW A, A \subseteq Listings
  PROVE  /\ StocksOf(A) \in SUBSET Fields
         /\ \A f \in Fields : f \in StocksOf(A) <=> f[2] = "stock" /\ f[1] \in A
<1>1. \A l \in A : StockOf(l) \in Fields
  BY FieldsAre
<1>2. ASSUME NEW f \in Fields
      PROVE  f \in StocksOf(A) <=> f[2] = "stock" /\ f[1] \in A
  <2>1. f \in StocksOf(A) => f[2] = "stock" /\ f[1] \in A
    BY FieldsAre DEF StocksOf
  <2>2. f[2] = "stock" /\ f[1] \in A => f \in StocksOf(A)
    BY FieldsAre DEF StocksOf
  <2> QED BY <2>1, <2>2
<1> QED BY <1>1, <1>2 DEF StocksOf

\* A run that declares the stock P and is to save it, or whose push of it failed: then
\* some of it may have been declared, and may be saved by somebody or later.
LEMMA StockWrites ==
  ASSUME BooksInv, NEW t \in Runs, NEW P, P \subseteq Planned(t), NEW A, A \subseteq P, NEW saved, saved \subseteq P,
         NEW r, RunTypeOK(r), InOrder(t, r), Proceed(t, r, {}),
         run[t].priced = {}, run[t].unsaved = {}, r.priced = {}, r.unsaved = saved,
         r.plan = run[t].plan \/ saved = {}, r.seen = run[t].seen, ~Pricing(t),
         shop' = ShopStock(t, A),
         Opens(StocksOf(saved), t),
         \/ A = P /\ saved = P /\ Settles(StocksOf(P), {}, t)
         \/ doubt' = doubt \union StocksOf(P),
         late' \subseteq Listings \X Nat, \A s \in late' : s \in late \/ s[1] \in P,
         doubt' = doubt \union StocksOf(P) \/ late' = late,
         UNCHANGED <<mode, row, supply, rivals, spared, task>>
  PROVE  BooksInv'
<1>1. /\ Types /\ t \in BookTasks /\ P \subseteq Listings /\ A \subseteq Listings /\ saved \subseteq Listings
      /\ row \in [Listings -> Row] /\ shop \in [Listings -> Shop] /\ t \notin Callbacks
      /\ writers \in [Fields -> SUBSET BookTasks] /\ doubt \subseteq Fields
      /\ InOrder(t, run[t]) /\ \A l \in P : PlanOf(t, l).qty \in Nat
      /\ \A f \in Fields : t \notin writers[f]
  <2>1. InOrder(t, run[t]) /\ \A l \in P : PlanOf(t, l).qty \in Nat
    BY RunFacts DEF InOrder, Planned, PlanOf
  <2> QED BY <2>1, RunFacts, TasksType
<1>2. /\ shop' \in [Listings -> Shop]
      /\ \A l \in Listings : shop'[l].price = shop[l].price
      /\ \A l \in Listings \ A : shop'[l].stock = shop[l].stock
      /\ \A l \in A : shop'[l].stock = PlanOf(t, l).qty
  BY <1>1 DEF ShopStock, Shop
<1>3. /\ writers' \in [Fields -> SUBSET BookTasks]
      /\ \A f \in StocksOf(saved) : writers'[f] = writers[f] \union {t}
      /\ \A f \in Fields \ StocksOf(saved) : writers'[f] = writers[f]
  BY <1>1, OpeningEffect, StocksAre
<1>4. ASSUME NEW f \in Fields
      PROVE  /\ t \in writers'[f] <=> f[1] \in (IF f[2] = "stock" THEN r.unsaved ELSE r.priced)
             /\ \A u \in BookTasks : u # t => (u \in writers'[f] <=> u \in writers[f])
  <2>1. (f[2] = "stock" \/ f[2] = "price") /\ (f \in StocksOf(saved) <=> f[2] = "stock" /\ f[1] \in saved)
    BY <1>1, FieldsAre, StocksAre
  <2> QED BY <1>1, <1>3, <2>1
<1>5. saved # {} => run'[t].plan = run[t].plan
  <2>1. run'[t].unsaved = saved /\ (run'[t] = Rested \/ run'[t].plan = r.plan)
    BY <1>1, RunMoves DEF BooksInv
  <2> QED BY <2>1, RestedIsRun
<1>6. ASSUME doubt' = doubt \union StocksOf(P), NEW f \in Fields
      PROVE  f \in doubt' \/ Untouched(f)
  <2>1. f \in StocksOf(P) <=> f[2] = "stock" /\ f[1] \in P
    BY <1>1, StocksAre
  <2>2. f \in StocksOf(saved) <=> f[2] = "stock" /\ f[1] \in saved
    BY <1>1, StocksAre
  <2>3. f[1] \in Listings
    BY FieldsAre
  <2> QED BY <1>1, <1>2, <1>3, <1>6, <2>1, <2>2, <2>3 DEF Untouched
<1>7. ASSUME A = P, saved = P, Settles(StocksOf(P), {}, t), NEW f \in Fields
      PROVE  f \in doubt' \/ Untouched(f) \/ Opened(f, t)
  <2>1. f \in StocksOf(P) <=> f[2] = "stock" /\ f[1] \in P
    BY <1>1, StocksAre
  <2>2. /\ \A g \in StocksOf(P) : g \in doubt' \/ ~Crossed(g, t)
        /\ \A g \in Fields : g \in doubt /\ g \notin StocksOf(P) => g \in doubt'
    BY <1>1, <1>7, SettlingEffect, StocksAre
  <2>3. f[1] \in Listings /\ (f[2] = "stock" \/ f[2] = "price")
    BY FieldsAre
  <2>4. CASE f \in StocksOf(P)
    <3>1. Writing(f, t)' = PlanOf(t, f[1]).qty
      BY <1>1, <1>5, <1>7, <2>1, <2>4 DEF Writing, PlanOf
    <3>2. HalfWritten(f, t)'
      BY <1>1, <1>2, <1>7, <2>1, <2>4, <3>1 DEF HalfWritten, Shows
    <3> QED BY <1>3, <1>7, <2>2, <2>4, <3>2 DEF Opened
  <2>5. CASE f \notin StocksOf(P)
    BY <1>1, <1>2, <1>3, <1>7, <2>1, <2>2, <2>3, <2>5 DEF Untouched
  <2> QED BY <2>4, <2>5
<1>8. \A f \in Fields : f \in doubt' \/ Untouched(f) \/ Opened(f, t)
  BY <1>6, <1>7
<1>9. \A s \in late' : s \in late \/ StockOf(s[1]) \in doubt'
  BY DEF StocksOf
<1>10. doubt' \subseteq Fields
  <2>1. StocksOf(P) \in SUBSET Fields
    BY <1>1, StocksAre
  <2>2. Settles(StocksOf(P), {}, t) => doubt' \subseteq Fields
    BY <1>1, <2>1, SettlingEffect
  <2> QED BY <1>1, <2>1, <2>2
<1>11. /\ \A l \in DOMAIN r.seen : l \in DOMAIN run[t].seen /\ r.seen[l].oos = run[t].seen[l].oos
       /\ r.plan = run[t].plan \/ (r.priced = {} /\ r.unsaved = {})
  OBVIOUS
<1> QED BY <1>1, <1>2, <1>3, <1>4, <1>8, <1>9, <1>10, <1>11, RunWrites

\* A run of a stock phase that has come to its stock is not a pricing run.
LEMMA PushPricesNothing ==
  ASSUME BooksInv, NEW t \in Runs, run[t].at \in {"push", "flush"}
  PROVE  /\ ~Pricing(t) /\ RunTypeOK(run[t]) /\ InOrder(t, run[t])
         /\ Planned(t) = DOMAIN run[t].plan /\ Planned(t) \in SUBSET DOMAIN run[t].plan
         /\ Fixes(t) = FixesOf(run[t]) /\ Fixes(t) \in SUBSET DOMAIN run[t].plan
         /\ \A l \in Planned(t) : PlanOf(t, l).qty \in Nat
BY RunFacts DEF InOrder, Planned, Fixes, FixesOf, PlanOf

\* A stock phase declares all it planned at once,
LEMMA PushStocksStep ==
  ASSUME BooksInv, NEW t \in Runs, PushStocks(t), UNCHANGED task
  PROVE  BooksInv'
<1>1. /\ run[t].at = "push" /\ UNCHANGED <<mode, row, supply, rivals, late, spared>>
      /\ late \subseteq Listings \X Nat
  BY RunFacts DEF PushStocks, RunAt
<1>2. /\ ~Pricing(t) /\ RunTypeOK(run[t]) /\ InOrder(t, run[t])
      /\ Planned(t) = DOMAIN run[t].plan
      /\ Fixes(t) = FixesOf(run[t]) /\ Fixes(t) \in SUBSET DOMAIN run[t].plan
      /\ \A l \in DOMAIN run[t].plan : run[t].plan[l].qty \in Nat
  BY <1>1, PushPricesNothing DEF PlanOf
<1>3. run[t].todo = {} /\ run[t].unpriced = {} /\ run[t].priced = {} /\ run[t].unsaved = {}
  BY <1>1, <1>2 DEF InOrder
<1>4. ASSUME shop' = ShopStock(t, Planned(t)), Settles(StocksOf(Planned(t)), {}, t), Opens(StocksOf(Planned(t)), t),
             Proceed(t, [run[t] EXCEPT !.at = "flush", !.unsaved = Planned(t)], {})
      PROVE  BooksInv'
  <2> DEFINE r == [run[t] EXCEPT !.at = "flush", !.unsaved = Planned(t)]
  <2>1. /\ RunTypeOK(r) /\ r.at = "flush" /\ r.plan = run[t].plan /\ r.seen = run[t].seen
        /\ r.todo = {} /\ r.unpriced = {} /\ r.unsaved = Planned(t) /\ r.priced = {}
    BY <1>2, <1>3 DEF RunTypeOK
  <2>2. Proceed(t, r, {})
    BY <1>4
  <2> HIDE DEF r
  <2>3. InOrder(t, r)
    BY <1>2, <2>1 DEF InOrder, FixesOf
  <2> QED BY <1>1, <1>2, <1>3, <1>4, <2>1, <2>2, <2>3, StockWrites
<1>5. ASSUME NEW A \in SUBSET Planned(t), shop' = ShopStock(t, A), doubt' = doubt \union StocksOf(Planned(t)),
             Proceed(t, [run[t] EXCEPT !.at = "flush", !.todo = Planned(t), !.unpriced = Fixes(t)], {}),
             UNCHANGED writers
      PROVE  BooksInv'
  <2> DEFINE r == [run[t] EXCEPT !.at = "flush", !.todo = Planned(t), !.unpriced = Fixes(t)]
  <2>1. /\ RunTypeOK(r) /\ r.at = "flush" /\ r.plan = run[t].plan /\ r.seen = run[t].seen
        /\ r.todo = Planned(t) /\ r.unpriced = Fixes(t) /\ r.unsaved = {} /\ r.priced = {}
    BY <1>2, <1>3 DEF RunTypeOK
  <2>2. Proceed(t, r, {})
    BY <1>5
  <2> HIDE DEF r
  <2>3. InOrder(t, r)
    BY <1>2, <2>1 DEF InOrder, FixesOf
  <2>4. Opens(StocksOf({}), t)
    BY <1>5, RunFacts DEF Opens, StocksOf
  <2> QED BY <1>1, <1>2, <1>3, <1>5, <2>1, <2>2, <2>3, <2>4, StockWrites
<1> QED BY <1>4, <1>5 DEF PushStocks

\* or one by one.
LEMMA PushOneStep ==
  ASSUME BooksInv, NEW t \in Runs, NEW l \in Listings, PushOne(t, l), UNCHANGED task
  PROVE  BooksInv'
<1> DEFINE q == PlanOf(t, l).qty
           rest == [run[t] EXCEPT !.todo = @ \ {l}]
           r == [rest EXCEPT !.unsaved = {l}]
<1>1. /\ run[t].at = "flush" /\ l \in run[t].todo /\ l \notin run[t].unpriced
      /\ run[t].priced = {} /\ run[t].unsaved = {}
      /\ UNCHANGED <<mode, row, supply, rivals, spared>> /\ late \subseteq Listings \X Nat
      /\ shop \in [Listings -> Shop] /\ writers \in [Fields -> SUBSET BookTasks]
  BY RunFacts DEF PushOne, RunAt, Turn
<1>2. /\ ~Pricing(t) /\ RunTypeOK(run[t]) /\ InOrder(t, run[t])
      /\ Planned(t) = DOMAIN run[t].plan
      /\ \A k \in Planned(t) : PlanOf(t, k).qty \in Nat
  BY <1>1, PushPricesNothing
<1>3. \/ /\ Declare(l, q) /\ Settles({StockOf(l)}, {}, t)
         /\ Opens({StockOf(l)}, t) /\ Proceed(t, r, {})
         /\ UNCHANGED <<late, moves>>
      \/ /\ DeclareFails(l, q)
         /\ \/ q = 0 /\ Opens({StockOf(l)}, t) /\ Proceed(t, r, {}) /\ UNCHANGED late
            \/ /\ late' \in {late, IF PhaseOf[t] = "declared" THEN late \union {<<l, q>>} ELSE late}
               /\ Proceed(t, rest, {})
               /\ UNCHANGED writers
  BY DEF PushOne
<1>4. {l} \subseteq Planned(t) /\ {StockOf(l)} = StocksOf({l}) /\ StocksOf({}) = {} /\ q \in Nat
  BY <1>1, <1>2 DEF RunTypeOK, StocksOf
<1>5. /\ RunTypeOK(rest) /\ rest.at = "flush" /\ rest.plan = run[t].plan /\ rest.seen = run[t].seen
      /\ rest.todo = run[t].todo \ {l} /\ rest.unpriced = run[t].unpriced /\ rest.unsaved = {} /\ rest.priced = {}
  BY <1>1, <1>2 DEF RunTypeOK
<1>6. InOrder(t, rest)
  <2> HIDE DEF rest
  <2> QED BY <1>1, <1>2, <1>5 DEF InOrder, FixesOf
<1>7. /\ RunTypeOK(r) /\ r.at = "flush" /\ r.plan = run[t].plan /\ r.seen = run[t].seen
      /\ r.todo = run[t].todo \ {l} /\ r.unpriced = run[t].unpriced /\ r.unsaved = {l} /\ r.priced = {}
  <2> HIDE DEF rest
  <2> QED BY <1>2, <1>4, <1>5 DEF RunTypeOK
<1>8. InOrder(t, r)
  <2> HIDE DEF r
  <2> QED BY <1>1, <1>2, <1>7 DEF InOrder, FixesOf
<1> HIDE DEF r, rest
<1>9. /\ ShopStock(t, {l}) = [shop EXCEPT ![l].stock = q]
      /\ ShopStock(t, {}) = shop
  BY <1>1 DEF ShopStock, Shop
<1> HIDE DEF q
<1>10. CASE Declare(l, q) /\ Settles({StockOf(l)}, {}, t) /\ Opens({StockOf(l)}, t) /\ Proceed(t, r, {}) /\ UNCHANGED late
  <2>1. shop' = ShopStock(t, {l})
    BY <1>9, <1>10 DEF Declare
  <2>2. {l} \subseteq {l} /\ (doubt' = doubt \union StocksOf({l}) \/ late' = late)
    BY <1>10
  <2>3. Settles(StocksOf({l}), {}, t) /\ Opens(StocksOf({l}), t)
    BY <1>4, <1>10
  <2> HIDE DEF ShopStock
  <2> QED BY <1>1, <1>2, <1>4, <1>7, <1>8, <1>10, <2>1, <2>2, <2>3, StockWrites
<1>11. CASE DeclareFails(l, q) /\ Opens({StockOf(l)}, t) /\ Proceed(t, r, {}) /\ UNCHANGED late
  <2>1. PICK A \in SUBSET {l} : shop' = ShopStock(t, A)
    BY <1>9, <1>11 DEF DeclareFails
  <2>2. doubt' = doubt \union StocksOf({l})
    BY <1>4, <1>11 DEF DeclareFails
  <2>3. Opens(StocksOf({l}), t) /\ late' = late
    BY <1>4, <1>11
  <2> HIDE DEF ShopStock
  <2> QED BY <1>1, <1>2, <1>4, <1>7, <1>8, <1>11, <2>1, <2>2, <2>3, StockWrites
<1>12. CASE /\ DeclareFails(l, q) /\ Proceed(t, rest, {}) /\ UNCHANGED writers
            /\ late' \in {late, IF PhaseOf[t] = "declared" THEN late \union {<<l, q>>} ELSE late}
  <2>1. PICK A \in SUBSET {l} : shop' = ShopStock(t, A)
    BY <1>9, <1>12 DEF DeclareFails
  <2>2. doubt' = doubt \union StocksOf({l})
    BY <1>4, <1>12 DEF DeclareFails
  <2>3. late' \subseteq Listings \X Nat /\ \A s \in late' : s \in late \/ s[1] \in {l}
    BY <1>1, <1>4, <1>12
  <2>4. Opens(StocksOf({}), t)
    BY <1>1, <1>4, <1>12 DEF Opens
  <2> QED BY <1>1, <1>2, <1>4, <1>5, <1>6, <1>12, <2>1, <2>2, <2>3, <2>4, StockWrites
<1> QED BY <1>3, <1>10, <1>11, <1>12

\* A declared stock is saved.
LEMMA SaveStockStep ==
  ASSUME BooksInv, NEW t \in Runs, NEW l \in Listings, SaveStock(t, l), UNCHANGED task
  PROVE  BooksInv'
<1> DEFINE r == [run[t] EXCEPT !.unsaved = @ \ {l}]
           q == PlanOf(t, l).qty
<1>1. /\ Types /\ t \in BookTasks /\ RunTypeOK(run[t]) /\ InOrder(t, run[t]) /\ l \in run[t].unsaved
      /\ row \in [Listings -> Row] /\ shop \in [Listings -> Shop] /\ late \subseteq Listings \X Nat
      /\ writers \in [Fields -> SUBSET BookTasks]
      /\ Keeps(StockOf(l), t) /\ Closes(StockOf(l), t) /\ Proceed(t, r, {})
      /\ UNCHANGED <<mode, shop, supply, rivals, late, spared>>
  BY RunFacts DEF SaveStock
<1>2. row' = [row EXCEPT ![l].declared = q]
  BY DEF SaveStock, SaveDeclared
<1>3. run[t].at = "flush" /\ ~Pricing(t)
  BY <1>1 DEF InOrder, RunTypeOK
<1>4. l \in Planned(t) /\ l \in DOMAIN run[t].plan /\ q \in Nat
  BY <1>1, <1>3, PushPricesNothing DEF RunTypeOK
<1> HIDE DEF q
<1>5. /\ row' \in [Listings -> Row] /\ row'[l].declared = q /\ row'[l].price = row[l].price
      /\ row'[l].status = row[l].status /\ row'[l].fails = row[l].fails /\ row'[l].oos = row[l].oos
      /\ \A k \in Listings : k # l => row'[k] = row[k]
  BY <1>1, <1>2, <1>4 DEF Row
<1>6. /\ RunTypeOK(r) /\ r.at = run[t].at /\ r.plan = run[t].plan /\ r.seen = run[t].seen
      /\ r.todo = run[t].todo /\ r.unpriced = run[t].unpriced /\ r.unsaved = run[t].unsaved \ {l} /\ r.priced = run[t].priced
  BY <1>1 DEF RunTypeOK
<1>7. Proceed(t, r, {})
  BY <1>1
<1> HIDE DEF r
<1>8. InOrder(t, r)
  BY <1>1, <1>6 DEF InOrder, FixesOf
<1>9. StockOf(l) \in Fields /\ StockOf(l)[1] = l /\ StockOf(l)[2] = "stock"
  BY FieldsAre
<1>10. /\ doubt' \subseteq Fields /\ doubt \subseteq doubt'
       /\ StockOf(l) \in doubt' \/ ~Crossed(StockOf(l), t)
  BY <1>1, <1>9, KeepingEffect
<1>11. /\ writers' \in [Fields -> SUBSET BookTasks]
       /\ writers'[StockOf(l)] = writers[StockOf(l)] \ {t}
       /\ \A g \in Fields : g # StockOf(l) => writers'[g] = writers[g]
  BY <1>1, <1>9, ClosingEffect
<1>12. t \in writers[StockOf(l)] /\ t \notin Callbacks
  BY <1>1, <1>9, RunFacts, TasksType
<1>13. StockOf(l) \in doubt' \/ Closed(StockOf(l), t)
  <2> SUFFICES ASSUME StockOf(l) \notin doubt'
               PROVE  Shows(StockOf(l), Kept(StockOf(l)))'
    BY <1>10, <1>11 DEF Closed
  <2>1. HalfWritten(StockOf(l), t)
    BY <1>9, <1>10, <1>12 DEF BooksInv, Sound
  <2>2. Writing(StockOf(l), t) = q
    BY <1>9, <1>12 DEF Writing, q, PlanOf
  <2>3. Shows(StockOf(l), q)
    BY <1>12, <2>1, <2>2 DEF HalfWritten
  <2> QED BY <1>1, <1>5, <1>9, <2>3 DEF Shows, Kept
<1>14. ASSUME NEW f \in Fields
       PROVE  f \in doubt' \/ Untouched(f) \/ Closed(f, t)
  <2>1. CASE f = StockOf(l)
    BY <1>13, <2>1
  <2>2. CASE f # StockOf(l)
    <3>1. f[1] \in Listings /\ (f[2] = "price" \/ (f[2] = "stock" /\ f[1] # l))
      BY <2>2, FieldsAre
    <3> QED BY <1>1, <1>5, <1>10, <1>11, <2>2, <3>1 DEF Untouched
  <2> QED BY <2>1, <2>2
<1>15. ASSUME NEW f \in Fields
       PROVE  /\ t \in writers'[f] <=> f[1] \in (IF f[2] = "stock" THEN r.unsaved ELSE r.priced)
              /\ \A u \in BookTasks : u # t => (u \in writers'[f] <=> u \in writers[f])
  <2>1. t \in writers[f] <=> f[1] \in (IF f[2] = "stock" THEN run[t].unsaved ELSE run[t].priced)
    BY RunFacts
  <2>2. CASE f = StockOf(l)
    BY <1>6, <1>9, <1>11, <2>2
  <2>3. CASE f # StockOf(l)
    <3>1. f[2] = "price" \/ (f[2] = "stock" /\ f[1] # l)
      BY <2>3, FieldsAre
    <3> QED BY <1>6, <1>11, <2>1, <2>3, <3>1
  <2> QED BY <2>2, <2>3
<1>16. \A k \in Listings : row'[k].status = row[k].status /\ row'[k].fails = row[k].fails /\ row'[k].oos = row[k].oos
  BY <1>5
<1> QED BY <1>1, <1>5, <1>6, <1>7, <1>8, <1>10, <1>11, <1>14, <1>15, <1>16, RunWrites

\* Every step of a run keeps the invariant.
LEMMA RunKeeps ==
  ASSUME BooksInv, NEW t \in Runs, RunStep(t), UNCHANGED task
  PROVE  BooksInv'
<1>1. ASSUME NEW l \in Listings, FixOne(t, l) \/ SavePrice(t, l) \/ PushOne(t, l) \/ SaveStock(t, l)
      PROVE  BooksInv'
  BY <1>1, FixOneStep, SavePriceStep, PushOneStep, SaveStockStep
<1> QED BY <1>1, LoadStep, DecideStep, PushPricesStep, FixPricesStep, PushStocksStep DEF RunStep
-------------------------------------------------------------------------------
(* Callbacks, administrators and the market *)

\* What a step that leaves the runs alone has to show.
LEMMA RunsRest ==
  ASSUME BooksInv, NEW t, UNCHANGED <<syncVars, mode>>,
         row' \in [Listings -> Row], shop' \in [Listings -> Shop], task' \in [Callbacks -> Task],
         supply' \in [Listings -> Supply], rivals' \in [Listings -> Rivals],
         writers' \in [Fields -> SUBSET BookTasks], doubt' \subseteq Fields, late' \subseteq late,
         \A u \in Callbacks : u # t => task'[u] = task[u],
         \A f \in Fields :
           \/ f \in doubt' \/ Opened(f, t) \/ Closed(f, t)
           \/ Untouched(f) /\ (t \in Callbacks /\ t \in writers[f] => task'[t] = task[t]),
         WritersAreKnown', HidesNothing', \A l \in Listings : BreachesHandled(l)'
  PROVE  BooksInv'
<1>1. Types'
  BY DEF BooksInv, Types, ListingTypeOK, Shop, syncVars
<1>2. \A u \in Runs : InOrder(u, run'[u])
  BY DEF BooksInv, syncVars
<1>3. ASSUME NEW f \in Fields, f \notin doubt', NEW u \in BookTasks, u \in writers[f], Untouched(f), HalfWritten(f, u)
      PROVE  HalfWritten(f, u)'
  <2>1. CASE u \in Callbacks /\ task'[u] = task[u]
    BY <1>3, <2>1, WritingStays
  <2>2. CASE u \notin Callbacks
    BY <1>3, <2>2, WritingStays DEF syncVars
  <2>3. CASE u \in Callbacks /\ task'[u] # task[u]
    <3>1. u = t
      BY <2>3
    <3>2. Opened(f, t) \/ Closed(f, t)
      BY <1>3, <2>3, <3>1
    <3>3. writers'[f] = writers[f] \ {t} \/ ~Crossed(f, t)
      BY <3>2 DEF Opened, Closed
    <3>4. CASE Opened(f, t)
      BY <3>1, <3>4 DEF Opened
    <3>5. CASE Closed(f, t)
      BY <1>3, <3>1, <3>5 DEF Closed, Untouched
    <3> QED BY <3>2, <3>4, <3>5
  <2> QED BY <2>1, <2>2, <2>3
<1>4. \A f \in Fields : f \in doubt' \/ Untouched(f) \/ Opened(f, t) \/ Closed(f, t)
  OBVIOUS
<1>5. \A f \in Fields : Sound(f)'
  BY <1>3, <1>4, FieldsStaySound DEF BooksInv
<1> QED BY <1>1, <1>2, <1>5 DEF BooksInv

\* A step of nobody: who writes what stays known, and a field is untouched or in doubt.
LEMMA NobodyMoves ==
  ASSUME BooksInv, UNCHANGED <<task, syncVars, mode, shop, writers>>,
         row' \in [Listings -> Row], supply' \in [Listings -> Supply], rivals' \in [Listings -> Rivals],
         late' \subseteq late, doubt' \subseteq Fields, doubt \subseteq doubt',
         \A l \in Listings :
           /\ StockOf(l) \in doubt' \/ row'[l].declared = row[l].declared
           /\ row'[l].price = row[l].price
           /\ row'[l].status = "active" /\ l \notin spared' =>
                /\ row[l].status = "active" /\ l \notin spared
                /\ row'[l].fails = row[l].fails /\ row'[l].oos = row[l].oos
  PROVE  BooksInv'
<1>1. /\ shop' \in [Listings -> Shop] /\ task' \in [Callbacks -> Task] /\ writers' \in [Fields -> SUBSET BookTasks]
  BY DEF BooksInv, Types, ListingTypeOK, Shop
<1>2. WritersAreKnown' /\ HidesNothing'
  BY DEF BooksInv, WritersAreKnown, HidesNothing, MidWrite, On, syncVars
<1>3. \A l \in Listings : BreachesHandled(l)'
  BY BreachFrame DEF BooksInv, syncVars
<1>4. ASSUME NEW f \in Fields
      PROVE  f \in doubt' \/ Untouched(f)
  <2>1. (f[2] = "stock" /\ f = StockOf(f[1]) /\ f[1] \in Listings) \/ (f[2] = "price" /\ f[1] \in Listings)
    BY FieldsAre
  <2> QED BY <2>1 DEF Untouched
<1> QED BY <1>1, <1>2, <1>3, <1>4, RunsRest

\* The market moves, and nobody has written anything.
LEMMA MarketMoves ==
  ASSUME BooksInv, SupplyMoves \/ RivalsMove, UNCHANGED <<task, syncVars>>
  PROVE  BooksInv'
<1>1. /\ Types /\ UNCHANGED <<mode, row, shop, spared, writers, doubt, late>>
      /\ supply' \in [Listings -> Supply] /\ rivals' \in [Listings -> Rivals]
      /\ row' \in [Listings -> Row] /\ doubt' \subseteq Fields
  BY SuppliesType DEF BooksInv, Types, ListingTypeOK, SupplyMoves, RivalsMove
<1> QED BY <1>1, NobodyMoves

\* Resuming by hand spares the listing; a deactivated offer pauses it.
LEMMA HandsMove ==
  ASSUME BooksInv, Recover \/ OfferDeactivated, UNCHANGED syncVars
  PROVE  BooksInv'
<1>1. /\ Types /\ UNCHANGED <<mode, shop, supply, rivals, writers, doubt, task, late>>
      /\ supply' \in [Listings -> Supply] /\ rivals' \in [Listings -> Rivals] /\ doubt' \subseteq Fields
  BY DEF BooksInv, Types, ListingTypeOK, Recover, OfferDeactivated
<1>2. /\ row' \in [Listings -> Row]
      /\ \A l \in Listings :
           /\ row'[l].declared = row[l].declared /\ row'[l].price = row[l].price
           /\ row'[l].status = "active" /\ l \notin spared' =>
                /\ row[l].status = "active" /\ l \notin spared
                /\ row'[l].fails = row[l].fails /\ row'[l].oos = row[l].oos
  <2>1. row \in [Listings -> Row]
    BY <1>1 DEF Types, ListingTypeOK
  <2>2. CASE Recover
    <3>1. PICK l \in Listings, reset \in BOOLEAN :
            /\ row' = [row EXCEPT ![l] = IF reset THEN [@ EXCEPT !.status = "active", !.fails = 0, !.won = 0, !.lost = 0]
                                                  ELSE [@ EXCEPT !.status = "active"]]
            /\ spared' = spared \union {l}
      BY <2>2 DEF Recover
    <3>2. CASE reset
      BY <2>1, <3>1, <3>2 DEF Row, Statuses
    <3>3. CASE ~reset
      BY <2>1, <3>1, <3>3 DEF Row, Statuses
    <3> QED BY <3>2, <3>3
  <2>3. CASE OfferDeactivated
    <3>1. PICK l \in Listings : row' = [row EXCEPT ![l].status = "paused"] /\ spared' = spared \ {l}
      BY <2>3 DEF OfferDeactivated
    <3> QED BY <2>1, <3>1 DEF Row, Statuses
  <2> QED BY <2>2, <2>3
<1> QED BY <1>1, <1>2, NobodyMoves

\* A save nobody waited for is of a stock that is in doubt.
LEMMA LateSaveKeeps ==
  ASSUME BooksInv, SavedLate
  PROVE  BooksInv'
<1>1. PICK s \in late : SaveDeclared(s[1], s[2]) /\ late' = late \ {s}
  BY DEF SavedLate, SaveLate
<1>2. /\ UNCHANGED <<mode, shop, supply, rivals, spared, writers, doubt, syncVars, task>>
      /\ Types /\ row \in [Listings -> Row] /\ late \subseteq Listings \X Nat
  BY DEF SavedLate, SaveLate, BooksInv, Types, ListingTypeOK
<1>3. s[1] \in Listings /\ s[2] \in Nat
  BY <1>2
<1>4. /\ supply' \in [Listings -> Supply] /\ rivals' \in [Listings -> Rivals] /\ doubt' \subseteq Fields
  BY <1>2 DEF Types, ListingTypeOK
<1>5. StockOf(s[1]) \in doubt
  <2>1. StockOf(s[1]) \in Fields
    BY <1>3, FieldsAre
  <2> QED BY <2>1 DEF BooksInv, Sound
<1>6. /\ row' \in [Listings -> Row]
      /\ \A l \in Listings : /\ l # s[1] => row'[l] = row[l]
                             /\ row'[l].price = row[l].price /\ row'[l].status = row[l].status
                             /\ row'[l].fails = row[l].fails /\ row'[l].oos = row[l].oos
  BY <1>1, <1>2, <1>3 DEF SaveDeclared, Row
<1>7. \A l \in Listings : StockOf(l) \in doubt' \/ row'[l].declared = row[l].declared
  BY <1>2, <1>5, <1>6
<1> QED BY <1>1, <1>2, <1>4, <1>6, <1>7, NobodyMoves

\* A task that rests.
LEMMA RestingIsTask ==
  Resting \in Task /\ Resting.at = "idle" /\ Resting.qty = 0
<1>1. (CHOOSE l \in Listings : TRUE) \in Listings
  BY TasksType
<1> QED BY <1>1 DEF Resting, Task, Outcomes, Statuses

Stages == {"idle", "count", "pause", "trip", "hide", "spread", "save"}

\* What moving a task on changes.
LEMMA TaskToEffect ==
  ASSUME Types, NEW t \in Callbacks, NEW where \in Stages, TaskTo(t, where)
  PROVE  /\ task' \in [Callbacks -> Task] /\ task'[t].at = where
         /\ \A u \in Callbacks : u # t => task'[u] = task[u]
         /\ where # "idle" => task'[t].on = On(t) /\ task'[t].qty = task[t].qty /\ task'[t].outcome = task[t].outcome
<1>1. task \in [Callbacks -> Task]
  BY DEF Types, ListingTypeOK
<1>2. CASE where = "idle"
  BY <1>1, <1>2, RestingIsTask DEF TaskTo
<1>3. CASE where # "idle"
  <2>1. task' = [task EXCEPT ![t].at = where]
    BY <1>3 DEF TaskTo
  <2>2. task[t] \in Task
    BY <1>1
  <2> QED BY <1>1, <1>3, <2>1, <2>2 DEF Task, On, Stages
<1> QED BY <1>2, <1>3

\* What is known of a task.
LEMMA TaskFacts ==
  ASSUME BooksInv, NEW t \in Callbacks
  PROVE  /\ Types /\ On(t) \in Listings /\ t \in BookTasks /\ t \notin Runs /\ task[t].outcome \in Outcomes
         /\ Seen(t).fails \in Nat /\ Seen(t).oos \in Nat /\ Seen(t).won \in Nat /\ Seen(t).lost \in Nat
         /\ task[t].qty \in Nat /\ task \in [Callbacks -> Task]
         /\ row \in [Listings -> Row] /\ shop \in [Listings -> Shop]
         /\ writers \in [Fields -> SUBSET BookTasks] /\ doubt \subseteq Fields
         /\ \A f \in Fields : t \in writers[f] <=> f = StockOf(On(t)) /\ task[t].at \in {"hide", "save"}
<1>1. Types /\ task[t] \in Task /\ t \in BookTasks /\ t \notin Runs
  BY TasksType DEF BooksInv, Types, ListingTypeOK, BookTasks
<1>2. \A f \in Fields : t \in writers[f] <=> f = StockOf(On(t)) /\ task[t].at \in {"hide", "save"}
  BY <1>1 DEF BooksInv, WritersAreKnown, MidWrite
<1> QED BY <1>1, <1>2 DEF Task, On, Seen, Types, ListingTypeOK, Shop

\* Only the task that pauses a listing keeps its breach on its way.
LEMMA BreachTaskFrame ==
  ASSUME \A l \in Listings : BreachesHandled(l), UNCHANGED syncVars, NEW t \in Callbacks,
         \A u \in Callbacks : u # t => task'[u] = task[u],
         task'[t].at # "count" \/ task'[t] = task[t],
         \A l \in Listings : row'[l].status = "active" /\ l \notin spared' =>
           /\ row[l].status = "active" /\ l \notin spared
           /\ row'[l].fails = row[l].fails /\ row'[l].oos = row[l].oos
           /\ task[t].at \in {"pause", "trip"} => On(t) # l
  PROVE  \A l \in Listings : BreachesHandled(l)'
<1> SUFFICES ASSUME NEW l \in Listings, row'[l].status = "active", l \notin spared'
             PROVE  BreachesHandled(l)'
  BY DEF BreachesHandled
<1>1. BreachesHandled(l) /\ row[l].status = "active" /\ l \notin spared /\ run' = run
  BY DEF syncVars
<1>2. (OnItsWay(l, "pause") => OnItsWay(l, "pause")') /\ (OnItsWay(l, "trip") => OnItsWay(l, "trip")')
  BY DEF OnItsWay, On
<1> QED BY <1>1, <1>2 DEF BreachesHandled, FailsHandled, OosHandled, On, Seen, Pricing

\* What a task has to show that may write the stock of k.
LEMMA TaskWrites ==
  ASSUME BooksInv, NEW t \in Callbacks, NEW k \in Listings, UNCHANGED <<syncVars, mode, late>>,
         supply' \in [Listings -> Supply], rivals' \in [Listings -> Rivals],
         row' \in [Listings -> Row], shop' \in [Listings -> Shop], task' \in [Callbacks -> Task],
         writers' \in [Fields -> SUBSET BookTasks], doubt' \subseteq Fields,
         \A u \in Callbacks : u # t => task'[u] = task[u],
         task'[t].at \in {"count", "pause", "trip", "spread", "hide"} => task'[t].qty = 0,
         task[t].at \in {"hide", "save"} => On(t) = k, task'[t].at \in {"hide", "save"} => task'[t].on = k,
         \A f \in Fields : f # StockOf(k) => Untouched(f) /\ writers'[f] = writers[f],
         \A u \in BookTasks : u # t => (u \in writers'[StockOf(k)] <=> u \in writers[StockOf(k)]),
         t \in writers'[StockOf(k)] <=> task'[t].at \in {"hide", "save"},
         \/ StockOf(k) \in doubt' \/ Opened(StockOf(k), t) \/ Closed(StockOf(k), t)
         \/ Untouched(StockOf(k)) /\ task[t].at \notin {"hide", "save"},
         \A l \in Listings : BreachesHandled(l)'
  PROVE  BooksInv'
<1>1. /\ t \in BookTasks /\ t \notin Runs /\ StockOf(k) \in Fields
      /\ \A f \in Fields : t \in writers[f] <=> f = StockOf(On(t)) /\ task[t].at \in {"hide", "save"}
  BY TaskFacts, FieldsAre
<1>2. WritersAreKnown'
  <2> SUFFICES ASSUME NEW f \in Fields, NEW u \in BookTasks
               PROVE  u \in writers'[f] <=> MidWrite(f, u)'
    BY DEF WritersAreKnown
  <2>1. u \in writers[f] <=> MidWrite(f, u)
    BY DEF BooksInv, WritersAreKnown
  <2>2. CASE u # t
    <3>1. u \in writers'[f] <=> u \in writers[f]
      BY <2>2
    <3>2. MidWrite(f, u)' <=> MidWrite(f, u)
      BY <2>2 DEF MidWrite, On, syncVars
    <3> QED BY <2>1, <3>1, <3>2
  <2>3. CASE u = t
    <3>1. MidWrite(f, t)' <=> f = StockOf(task'[t].on) /\ task'[t].at \in {"hide", "save"}
      BY DEF MidWrite, On
    <3>2. CASE f = StockOf(k)
      BY <2>3, <3>1, <3>2
    <3>3. CASE f # StockOf(k)
      BY <1>1, <2>3, <3>1, <3>3
    <3> QED BY <3>2, <3>3
  <2> QED BY <2>2, <2>3
<1>3. HidesNothing'
  BY DEF BooksInv, HidesNothing
<1>4. ASSUME NEW f \in Fields
      PROVE  \/ f \in doubt' \/ Opened(f, t) \/ Closed(f, t)
             \/ Untouched(f) /\ (t \in Callbacks /\ t \in writers[f] => task'[t] = task[t])
  <2>1. CASE f = StockOf(k)
    BY <1>1, <2>1
  <2>2. CASE f # StockOf(k)
    BY <1>1, <2>2
  <2> QED BY <2>1, <2>2
<1> QED BY <1>2, <1>3, <1>4, RunsRest

\* And one that writes none.
LEMMA TaskGoesOn ==
  ASSUME BooksInv, NEW t \in Callbacks, UNCHANGED <<syncVars, mode, late, shop, writers, doubt>>,
         supply' \in [Listings -> Supply], rivals' \in [Listings -> Rivals],
         row' \in [Listings -> Row], task' \in [Callbacks -> Task],
         \A u \in Callbacks : u # t => task'[u] = task[u],
         task[t].at \notin {"hide", "save"}, task'[t].at \notin {"hide", "save"},
         task'[t].at \in {"count", "pause", "trip", "spread"} => task'[t].qty = 0,
         \A l \in Listings : row'[l].declared = row[l].declared /\ row'[l].price = row[l].price,
         \A l \in Listings : BreachesHandled(l)'
  PROVE  BooksInv'
<1> DEFINE k == CHOOSE l \in Listings : TRUE
<1>1. k \in Listings
  BY TasksType
<1> HIDE DEF k
<1>2. /\ shop' \in [Listings -> Shop] /\ writers' \in [Fields -> SUBSET BookTasks] /\ doubt' \subseteq Fields
      /\ \A f \in Fields : t \notin writers[f]
  BY TaskFacts
<1>3. \A f \in Fields : Untouched(f)
  BY FieldsAre DEF Untouched
<1>4. StockOf(k) \in Fields
  BY <1>1, FieldsAre
<1> QED BY <1>1, <1>2, <1>3, <1>4, TaskWrites

\* A callback reads the counters of its listing.
LEMMA CallbackStepKeeps ==
  ASSUME BooksInv, NEW t \in Callbacks, Callback(t), UNCHANGED syncVars
  PROVE  BooksInv'
<1>1. Types /\ TaskAt(t, "idle") /\ UNCHANGED <<mode, row, shop, rivals, late, spared, writers, doubt>>
  BY DEF BooksInv, Callback
<1>2. PICK l \in Listings, o \in Outcomes :
        /\ o = "sold" => ~Dry(l)
        /\ task' = [task EXCEPT ![t] = [at |-> "count", on |-> l, outcome |-> o, qty |-> 0,
             seen |-> [status |-> row[l].status, fails |-> row[l].fails, oos |-> row[l].oos,
                       won |-> row[l].won, lost |-> row[l].lost]]]
        /\ supply' = IF o = "sold" /\ supply[l].keys > 0
                       THEN [supply EXCEPT ![l].keys = @ - 1] ELSE supply
  BY DEF Callback
<1> DEFINE new == [at |-> "count", on |-> l, outcome |-> o, qty |-> 0,
                   seen |-> [status |-> row[l].status, fails |-> row[l].fails, oos |-> row[l].oos,
                             won |-> row[l].won, lost |-> row[l].lost]]
<1>3. row[l] \in Row
  BY <1>1 DEF Types, ListingTypeOK
<1>4. new \in Task /\ new.at = "count" /\ new.on = l /\ new.qty = 0
      /\ new.seen.status = row[l].status /\ new.seen.fails = row[l].fails /\ new.seen.oos = row[l].oos
  BY <1>3 DEF Task, Row
<1> HIDE DEF new
<1>5. task \in [Callbacks -> Task] /\ task[t].at = "idle" /\ task' = [task EXCEPT ![t] = new]
  BY <1>1, <1>2, TaskFacts DEF TaskAt, new
<1>6. /\ task' \in [Callbacks -> Task] /\ task'[t] = new /\ \A u \in Callbacks : u # t => task'[u] = task[u]
  BY <1>4, <1>5
<1>7. supply' \in [Listings -> Supply]
  <2>1. supply \in [Listings -> Supply]
    BY <1>1 DEF Types
  <2>2. supply[l] \in Supply
    BY <2>1
  <2>3. supply[l].keys > 0 => [supply[l] EXCEPT !.keys = @ - 1] \in Supply
    BY <2>2 DEF Supply
  <2>4. supply' = supply \/ (supply[l].keys > 0 /\ supply' = [supply EXCEPT ![l] = [supply[l] EXCEPT !.keys = @ - 1]])
    BY <1>2, <2>1
  <2> QED BY <2>1, <2>3, <2>4
<1>8. \A k \in Listings : BreachesHandled(k)'
  <2> SUFFICES ASSUME NEW k \in Listings, row[k].status = "active", k \notin spared
               PROVE  BreachesHandled(k)'
    BY <1>1 DEF BreachesHandled
  <2>1. BreachesHandled(k)
    BY DEF BooksInv
  <2>2. (OnItsWay(k, "pause") => OnItsWay(k, "pause")') /\ (OnItsWay(k, "trip") => OnItsWay(k, "trip")')
    BY <1>5, <1>6 DEF OnItsWay, On
  <2> QED BY <1>1, <1>4, <1>6, <2>1, <2>2 DEF BreachesHandled, FailsHandled, OosHandled, On, Seen, Pricing, syncVars
<1>9. rivals' \in [Listings -> Rivals] /\ row' \in [Listings -> Row]
  BY <1>1 DEF Types, ListingTypeOK
<1> QED BY <1>1, <1>4, <1>5, <1>6, <1>7, <1>8, <1>9, TaskGoesOn

\* What a count writes back, and that a count which reaches a threshold goes on to pause.
LEMMA CountEffect ==
  ASSUME BooksInv, NEW t \in Callbacks, Count(t)
  PROVE  \E where \in {"idle", "pause", "trip", "spread"}, r \in Row :
           /\ TaskTo(t, where) /\ row' = [row EXCEPT ![On(t)] = r]
           /\ r.declared = row[On(t)].declared /\ r.price = row[On(t)].price /\ r.status = row[On(t)].status
           /\ Seen(t).status = "active" =>
                /\ r.fails \in {0, Seen(t).fails} \/ (r.fails >= PauseAt => where = "pause")
                /\ r.oos \in {0, row[On(t)].oos} \/ (r.oos >= OosPauseAt => where = "trip")
<1> DEFINE l == On(t)
           s == Seen(t)
<1>1. /\ l \in Listings /\ row[l] \in Row /\ row \in [Listings -> Row] /\ AfterHealth(t) \in {"idle", "spread"}
      /\ s.fails \in Nat /\ s.oos \in Nat /\ s.won \in Nat /\ s.lost \in Nat
  BY TaskFacts DEF AfterHealth
<1> HIDE DEF l, s
<1>2. CASE task[t].outcome = "sold"
  <2> DEFINE n == IF s.oos = 0 THEN row[l].oos ELSE 0
             where == IF Breached(t) /\ s.status = "active" THEN "pause" ELSE "idle"
             won == s.won + 1
             r == [row[l] EXCEPT !.fails = 0, !.oos = n, !.won = won, !.lost = s.lost]
  <2>1. TaskTo(t, where) /\ row' = [row EXCEPT ![l] = r]
    BY <1>1, <1>2 DEF Count, l, s
  <2>2. r \in Row /\ r.fails = 0 /\ r.oos \in {0, row[l].oos}
        /\ r.declared = row[l].declared /\ r.price = row[l].price /\ r.status = row[l].status
    <3>1. n \in Nat /\ won \in Nat /\ (n = 0 \/ n = row[l].oos)
      BY <1>1 DEF Row
    <3> HIDE DEF n, won
    <3> QED BY <1>1, <3>1 DEF Row
  <2>3. where \in {"idle", "pause", "trip", "spread"}
    OBVIOUS
  <2> HIDE DEF where, r
  <2> QED BY <2>1, <2>2, <2>3 DEF l, s
<1>3. CASE task[t].outcome = "out_of_stock"
  <2> DEFINE where == IF s.oos + 1 >= OosPauseAt /\ s.status = "active" THEN "trip" ELSE "spread"
             oos == s.oos + 1
             r == [row[l] EXCEPT !.fails = s.fails, !.oos = oos]
  <2>1. TaskTo(t, where) /\ row' = [row EXCEPT ![l] = r]
    BY <1>1, <1>3 DEF Count, l, s
  <2>2. r \in Row /\ r.fails = s.fails /\ r.oos = oos
        /\ r.declared = row[l].declared /\ r.price = row[l].price /\ r.status = row[l].status
    <3>1. oos \in Nat
      BY <1>1
    <3> HIDE DEF oos
    <3> QED BY <1>1, <3>1 DEF Row
  <2>3. where \in {"idle", "pause", "trip", "spread"} /\ (s.status = "active" /\ s.oos + 1 >= OosPauseAt => where = "trip")
    OBVIOUS
  <2> HIDE DEF where, r
  <2> QED BY <2>1, <2>2, <2>3 DEF l, s
<1>4. CASE task[t].outcome \notin {"sold", "out_of_stock"}
  <2> DEFINE where == IF Breached(t) /\ s.status = "active" THEN "pause" ELSE AfterHealth(t)
             fails == s.fails + 1
             lost == s.lost + 1
             r == [row[l] EXCEPT !.fails = fails, !.won = s.won, !.lost = lost]
  <2>1. TaskTo(t, where) /\ row' = [row EXCEPT ![l] = r]
    BY <1>1, <1>4 DEF Count, l, s
  <2>2. r \in Row /\ r.fails = fails /\ r.oos = row[l].oos
        /\ r.declared = row[l].declared /\ r.price = row[l].price /\ r.status = row[l].status
    <3>1. fails \in Nat /\ lost \in Nat
      BY <1>1
    <3> HIDE DEF fails, lost
    <3> QED BY <1>1, <3>1 DEF Row
  <2>3. where \in {"idle", "pause", "trip", "spread"}
    BY <1>1
  <2>4. s.status = "active" /\ s.fails + 1 >= PauseAt => where = "pause"
    BY <1>4 DEF Breached, s
  <2> HIDE DEF where, r
  <2> QED BY <2>1, <2>2, <2>3, <2>4 DEF l, s
<1> QED BY <1>2, <1>3, <1>4

\* It writes them back, as they were read and one further.
LEMMA CountStepKeeps ==
  ASSUME BooksInv, NEW t \in Callbacks, Count(t), UNCHANGED syncVars
  PROVE  BooksInv'
<1>1. /\ Types /\ task[t].at = "count" /\ task[t].qty = 0
      /\ UNCHANGED <<mode, shop, supply, rivals, late, spared, writers, doubt>>
  BY DEF BooksInv, Count, TaskAt, HidesNothing
<1> DEFINE l == On(t)
<1>2. PICK where \in {"idle", "pause", "trip", "spread"}, r \in Row :
        /\ TaskTo(t, where) /\ row' = [row EXCEPT ![l] = r]
        /\ r.declared = row[l].declared /\ r.price = row[l].price /\ r.status = row[l].status
        /\ Seen(t).status = "active" =>
             /\ r.fails \in {0, Seen(t).fails} \/ (r.fails >= PauseAt => where = "pause")
             /\ r.oos \in {0, row[l].oos} \/ (r.oos >= OosPauseAt => where = "trip")
  BY <1>1, CountEffect
<1>3. l \in Listings /\ row \in [Listings -> Row] /\ task \in [Callbacks -> Task]
  BY TaskFacts
<1>4. /\ task' \in [Callbacks -> Task] /\ task'[t].at = where
      /\ \A u \in Callbacks : u # t => task'[u] = task[u]
      /\ where # "idle" => task'[t].on = l /\ task'[t].qty = 0
  BY <1>1, <1>2, TaskToEffect DEF Stages
<1> HIDE DEF l
<1>5. /\ row' \in [Listings -> Row] /\ row'[l] = r /\ \A k \in Listings : k # l => row'[k] = row[k]
  BY <1>2, <1>3
<1>6. supply' \in [Listings -> Supply] /\ rivals' \in [Listings -> Rivals]
  BY <1>1 DEF Types
<1>7. ASSUME NEW k \in Listings, row'[k].status = "active", k \notin spared
      PROVE  BreachesHandled(k)'
  <2>1. BreachesHandled(k) /\ row[k].status = "active"
    BY <1>2, <1>5, <1>7 DEF BooksInv
  <2>2. (OnItsWay(k, "pause") => OnItsWay(k, "pause")') /\ (OnItsWay(k, "trip") => OnItsWay(k, "trip")')
    BY <1>1, <1>4 DEF OnItsWay, On
  <2>3. (k = l /\ where = "pause" => OnItsWay(k, "pause")') /\ (k = l /\ where = "trip" => OnItsWay(k, "trip")')
    BY <1>4 DEF OnItsWay, On
  <2>4. FailsHandled(k, row[k].fails)' /\ OosHandled(k, row[k].oos)'
    <3>1. CASE k # l
      BY <1>5, <1>7, <2>1, <2>2, <3>1 DEF BreachesHandled, FailsHandled, OosHandled
    <3>2. CASE k = l
      <4>1. Seen(t).status = "active" /\ FailsHandled(l, Seen(t).fails) /\ OosHandled(l, row[l].oos)
        BY <1>1, <1>7, <2>1, <3>2 DEF BreachesHandled, l
      <4>2. ~(0 >= PauseAt) /\ ~(0 >= OosPauseAt)
        BY ThresholdsType
      <4> QED BY <1>2, <1>5, <2>2, <2>3, <3>2, <4>1, <4>2 DEF FailsHandled, OosHandled
    <3> QED BY <3>1, <3>2
  <2> QED BY <1>1, <1>4, <1>7, <2>1, <2>2, <2>4 DEF BreachesHandled, FailsHandled, OosHandled, On, Seen, Pricing, syncVars
<1>8. \A k \in Listings : BreachesHandled(k)'
  BY <1>1, <1>7 DEF BreachesHandled
<1>9. \A k \in Listings : row'[k].declared = row[k].declared /\ row'[k].price = row[k].price
  BY <1>2, <1>5
<1> QED BY <1>1, <1>4, <1>5, <1>6, <1>8, <1>9, TaskGoesOn

\* A listing is paused, and its breach is no longer asked about.
LEMMA PauseStepKeeps ==
  ASSUME BooksInv, NEW t \in Callbacks, Pause(t), UNCHANGED syncVars
  PROVE  BooksInv'
<1>1. /\ Types /\ task[t].at = "pause" /\ task[t].qty = 0
      /\ row' = [row EXCEPT ![On(t)].status = "paused"] /\ spared' = spared \ {On(t)}
      /\ TaskTo(t, AfterHealth(t)) /\ AfterHealth(t) \in {"idle", "spread"}
      /\ UNCHANGED <<mode, shop, supply, rivals, late, writers, doubt>>
  BY DEF BooksInv, Pause, TaskAt, HidesNothing, AfterHealth
<1>2. On(t) \in Listings /\ row \in [Listings -> Row]
  BY TaskFacts
<1>3. /\ task' \in [Callbacks -> Task] /\ task'[t].at \in {"idle", "spread"}
      /\ \A u \in Callbacks : u # t => task'[u] = task[u]
      /\ task'[t].at = "spread" => task'[t].qty = 0
  BY <1>1, TaskToEffect DEF Stages
<1>4. /\ row' \in [Listings -> Row]
      /\ \A l \in Listings :
           /\ row'[l].declared = row[l].declared /\ row'[l].price = row[l].price
           /\ row'[l].status = "active" => On(t) # l /\ row'[l] = row[l]
  BY <1>1, <1>2 DEF Row, Statuses
<1>5. supply' \in [Listings -> Supply] /\ rivals' \in [Listings -> Rivals]
  BY <1>1 DEF Types
<1>6. \A l \in Listings : BreachesHandled(l)'
  BY <1>1, <1>3, <1>4, BreachTaskFrame DEF BooksInv
<1>7. /\ UNCHANGED <<syncVars, mode, late, shop, writers, doubt>>
      /\ task[t].at \notin {"hide", "save"} /\ task'[t].at \notin {"hide", "save"}
      /\ task'[t].at \in {"count", "pause", "trip", "spread"} => task'[t].qty = 0
      /\ \A l \in Listings : row'[l].declared = row[l].declared /\ row'[l].price = row[l].price
  BY <1>1, <1>3, <1>4
<1> QED BY <1>3, <1>4, <1>5, <1>6, <1>7, TaskGoesOn

\* The row of a listing out of stock says paused and hidden before the marketplace does.
LEMMA TripStepKeeps ==
  ASSUME BooksInv, NEW t \in Callbacks, Trip(t), UNCHANGED syncVars
  PROVE  BooksInv'
<1>1. PICK k \in Listings : k = On(t)
  BY TaskFacts
<1>2. /\ Types /\ task[t].at = "trip" /\ task[t].qty = 0
      /\ row' = [row EXCEPT ![k].status = "paused", ![k].declared = 0] /\ spared' = spared \ {k}
      /\ TaskTo(t, "hide") /\ Opens({StockOf(k)}, t) /\ Settles({StockOf(k)}, {}, t)
      /\ UNCHANGED <<mode, shop, supply, rivals, late>>
  BY <1>1 DEF BooksInv, Trip, TaskAt, HidesNothing
<1>3. /\ t \in BookTasks /\ row \in [Listings -> Row] /\ shop' \in [Listings -> Shop]
      /\ supply' \in [Listings -> Supply] /\ rivals' \in [Listings -> Rivals]
  BY <1>2, TaskFacts DEF Types
<1>4. /\ task' \in [Callbacks -> Task] /\ task'[t].at = "hide" /\ task'[t].on = k /\ task'[t].qty = 0
      /\ \A u \in Callbacks : u # t => task'[u] = task[u]
  BY <1>2, <1>1, TaskToEffect DEF Stages
<1>5. /\ row' \in [Listings -> Row]
      /\ \A l \in Listings :
           /\ row'[l].price = row[l].price
           /\ IF l = k THEN row'[l].status = "paused" /\ row'[l].declared = 0 ELSE row'[l] = row[l]
  <2> DEFINE new == [row[k] EXCEPT !.status = "paused", !.declared = 0]
  <2>1. row' = [row EXCEPT ![k] = new]
    BY <1>2
  <2>2. row[k] \in Row
    BY <1>3
  <2>3. new \in Row /\ new.price = row[k].price /\ new.status = "paused" /\ new.declared = 0
    BY <2>2 DEF Row, Statuses
  <2> HIDE DEF new
  <2> QED BY <1>3, <2>1, <2>3
<1>6. StockOf(k) \in Fields /\ StockOf(k)[1] = k /\ StockOf(k)[2] = "stock"
  BY FieldsAre
<1>7. /\ writers' \in [Fields -> SUBSET BookTasks]
      /\ writers'[StockOf(k)] = writers[StockOf(k)] \union {t}
      /\ \A f \in Fields : f # StockOf(k) => writers'[f] = writers[f]
  BY <1>2, <1>3, <1>6, OpeningOneEffect
<1>8. /\ doubt' \subseteq Fields
      /\ StockOf(k) \in doubt' \/ ~Crossed(StockOf(k), t)
      /\ \A f \in Fields : f \in doubt /\ f # StockOf(k) => f \in doubt'
  BY <1>2, <1>6, SettlingEffect
<1>9. HalfWritten(StockOf(k), t)'
  BY <1>4, <1>5, <1>6 DEF HalfWritten, Kept
<1>10. StockOf(k) \in doubt' \/ Opened(StockOf(k), t)
  BY <1>7, <1>8, <1>9 DEF Opened
<1>11. ASSUME NEW f \in Fields, f # StockOf(k)
       PROVE  Untouched(f)
  <2>1. f[1] \in Listings /\ (f[2] = "price" \/ (f[2] = "stock" /\ f[1] # k))
    BY <1>11, FieldsAre
  <2> QED BY <1>2, <1>5, <1>7, <1>8, <1>11, <2>1 DEF Untouched
<1>12. \A l \in Listings : BreachesHandled(l)'
  <2>1. \A l \in Listings : row'[l].status = "active" /\ l \notin spared' =>
          /\ row[l].status = "active" /\ l \notin spared
          /\ row'[l].fails = row[l].fails /\ row'[l].oos = row[l].oos
          /\ On(t) # l
    BY <1>1, <1>2, <1>5
  <2> QED BY <1>4, <2>1, BreachTaskFrame DEF BooksInv
<1>13. /\ \A u \in BookTasks : u # t => (u \in writers'[StockOf(k)] <=> u \in writers[StockOf(k)])
       /\ t \in writers'[StockOf(k)] <=> task'[t].at \in {"hide", "save"}
  BY <1>4, <1>7
<1> QED BY <1>2, <1>3, <1>4, <1>5, <1>7, <1>8, <1>10, <1>11, <1>12, <1>13, TaskWrites

\* What a task that pushes a stock, or saves one, leaves of the breakers.
LEMMA BreakersRest ==
  ASSUME BooksInv, NEW t \in Callbacks, UNCHANGED syncVars, spared' = spared,
         \A u \in Callbacks : u # t => task'[u] = task[u],
         task'[t].at # "count" \/ task'[t] = task[t], task[t].at \notin {"pause", "trip"},
         \A l \in Listings : /\ row'[l].status = row[l].status
                             /\ row'[l].fails = row[l].fails /\ row'[l].oos = row[l].oos
  PROVE  \A l \in Listings : BreachesHandled(l)'
BY BreachTaskFrame DEF BooksInv

\* What declaring a stock changes, whether it succeeds or may have.
LEMMA ShownEffect ==
  ASSUME BooksInv, NEW k \in Listings, NEW q \in Nat,
         Declare(k, q) \/ DeclareFails(k, q)
  PROVE  /\ shop' \in [Listings -> Shop]
         /\ \A l \in Listings : shop'[l].price = shop[l].price /\ (l # k => shop'[l].stock = shop[l].stock)
         /\ Declare(k, q) => shop'[k].stock = q
<1>1. shop \in [Listings -> Shop]
  BY DEF BooksInv, Types, ListingTypeOK, Shop
<1> QED BY <1>1 DEF Declare, DeclareFails, Shop

\* The marketplace follows, or the listing is in doubt.
LEMMA HideStepKeeps ==
  ASSUME BooksInv, NEW t \in Callbacks, Hide(t), UNCHANGED syncVars
  PROVE  BooksInv'
<1>1. PICK k \in Listings : k = On(t)
  BY TaskFacts
<1>2. /\ Types /\ task[t].at = "hide" /\ task[t].qty = 0
      /\ (Declare(k, 0) /\ Keeps(StockOf(k), t)) \/ DeclareFails(k, 0)
      /\ TaskTo(t, "spread") /\ Closes(StockOf(k), t)
      /\ UNCHANGED <<mode, row, supply, rivals, late, spared>>
  BY <1>1 DEF BooksInv, Hide, TaskAt, HidesNothing
<1>3. /\ t \in BookTasks /\ row' \in [Listings -> Row] /\ doubt \subseteq Fields
      /\ supply' \in [Listings -> Supply] /\ rivals' \in [Listings -> Rivals]
  BY <1>2, TaskFacts DEF Types
<1>4. /\ task' \in [Callbacks -> Task] /\ task'[t].at = "spread" /\ task'[t].on = k /\ task'[t].qty = 0
      /\ \A u \in Callbacks : u # t => task'[u] = task[u]
  BY <1>2, <1>1, TaskToEffect DEF Stages
<1>5. StockOf(k) \in Fields /\ StockOf(k)[1] = k /\ StockOf(k)[2] = "stock" /\ t \in writers[StockOf(k)]
  BY <1>1, <1>2, FieldsAre, TaskFacts
<1>6. /\ shop' \in [Listings -> Shop]
      /\ \A l \in Listings : shop'[l].price = shop[l].price /\ (l # k => shop'[l].stock = shop[l].stock)
      /\ Declare(k, 0) => shop'[k].stock = 0
  BY <1>2, ShownEffect
<1>7. /\ doubt' \subseteq Fields /\ doubt \subseteq doubt'
      /\ StockOf(k) \in doubt' \/ (~Crossed(StockOf(k), t) /\ Declare(k, 0))
  <2>1. CASE Declare(k, 0) /\ Keeps(StockOf(k), t)
    BY <1>2, <1>5, <2>1, KeepingEffect
  <2>2. CASE DeclareFails(k, 0)
    BY <1>3, <1>5, <2>2 DEF DeclareFails
  <2> QED BY <1>2, <2>1, <2>2
<1>8. /\ writers' \in [Fields -> SUBSET BookTasks]
      /\ writers'[StockOf(k)] = writers[StockOf(k)] \ {t}
      /\ \A g \in Fields : g # StockOf(k) => writers'[g] = writers[g]
  BY <1>2, <1>3, <1>5, ClosingEffect
<1>9. StockOf(k) \in doubt' \/ Closed(StockOf(k), t)
  <2> SUFFICES ASSUME StockOf(k) \notin doubt'
               PROVE  Shows(StockOf(k), Kept(StockOf(k)))'
    BY <1>7, <1>8 DEF Closed
  <2>1. HalfWritten(StockOf(k), t)
    BY <1>5, <1>7 DEF BooksInv, Sound
  <2>2. Kept(StockOf(k)) = 0
    BY <1>2, <2>1 DEF HalfWritten
  <2>3. Kept(StockOf(k))' = 0 /\ shop'[k].stock = 0
    BY <1>2, <1>5, <1>6, <1>7, <2>2 DEF Kept
  <2> QED BY <1>5, <2>3 DEF Shows
<1>10. ASSUME NEW f \in Fields, f # StockOf(k)
      PROVE  Untouched(f)
  <2>1. f[1] \in Listings /\ (f[2] = "price" \/ (f[2] = "stock" /\ f[1] # k))
    BY <1>10, FieldsAre
  <2> QED BY <1>2, <1>6, <1>7, <1>8, <1>10, <2>1 DEF Untouched
<1>11. \A l \in Listings : BreachesHandled(l)'
  BY <1>2, <1>4, BreakersRest
<1>12. /\ \A u \in BookTasks : u # t => (u \in writers'[StockOf(k)] <=> u \in writers[StockOf(k)])
       /\ t \in writers'[StockOf(k)] <=> task'[t].at \in {"hide", "save"}
  BY <1>4, <1>8
<1> QED BY <1>1, <1>2, <1>3, <1>4, <1>6, <1>7, <1>8, <1>9, <1>10, <1>11, <1>12, TaskWrites

\* A task that shows a stock which it is to save, or whose push of it failed.
LEMMA TaskShows ==
  ASSUME BooksInv, NEW t \in Callbacks, task[t].at \in {"idle", "spread"}, NEW k \in Listings, NEW q \in Nat,
         UNCHANGED <<syncVars, mode, row, supply, rivals, late, spared>>,
         task' \in [Callbacks -> Task], \A u \in Callbacks : u # t => task'[u] = task[u],
         \/ /\ Declare(k, q) /\ Settles({StockOf(k)}, {}, t) /\ Opens({StockOf(k)}, t)
            /\ task'[t].at = "save" /\ task'[t].on = k /\ task'[t].qty = q
         \/ /\ DeclareFails(k, q) /\ UNCHANGED writers
            /\ task'[t].at = "idle"
  PROVE  BooksInv'
<1>1. /\ Types /\ t \in BookTasks /\ row' \in [Listings -> Row] /\ doubt \subseteq Fields
      /\ writers \in [Fields -> SUBSET BookTasks]
      /\ supply' \in [Listings -> Supply] /\ rivals' \in [Listings -> Rivals]
      /\ \A f \in Fields : t \notin writers[f]
  BY TaskFacts DEF Types
<1>2. StockOf(k) \in Fields /\ StockOf(k)[1] = k /\ StockOf(k)[2] = "stock"
  BY FieldsAre
<1>3. /\ shop' \in [Listings -> Shop]
      /\ \A l \in Listings : shop'[l].price = shop[l].price /\ (l # k => shop'[l].stock = shop[l].stock)
      /\ Declare(k, q) => shop'[k].stock = q
  BY ShownEffect
<1>4. \A l \in Listings : BreachesHandled(l)'
  BY BreakersRest
<1>5. CASE /\ Declare(k, q) /\ Settles({StockOf(k)}, {}, t) /\ Opens({StockOf(k)}, t)
           /\ task'[t].at = "save" /\ task'[t].on = k /\ task'[t].qty = q
  <2>1. /\ writers' \in [Fields -> SUBSET BookTasks]
        /\ writers'[StockOf(k)] = writers[StockOf(k)] \union {t}
        /\ \A f \in Fields : f # StockOf(k) => writers'[f] = writers[f]
    BY <1>1, <1>2, <1>5, OpeningOneEffect
  <2>2. /\ doubt' \subseteq Fields
        /\ StockOf(k) \in doubt' \/ ~Crossed(StockOf(k), t)
        /\ \A f \in Fields : f \in doubt /\ f # StockOf(k) => f \in doubt'
    BY <1>1, <1>2, <1>5, SettlingEffect
  <2>3. HalfWritten(StockOf(k), t)'
    BY <1>2, <1>3, <1>5 DEF HalfWritten, Shows, Writing
  <2>4. StockOf(k) \in doubt' \/ Opened(StockOf(k), t)
    BY <2>1, <2>2, <2>3 DEF Opened
  <2>5. ASSUME NEW f \in Fields, f # StockOf(k)
        PROVE  Untouched(f)
    <3>1. f[1] \in Listings /\ (f[2] = "price" \/ (f[2] = "stock" /\ f[1] # k))
      BY <2>5, FieldsAre
    <3> QED BY <1>3, <2>1, <2>2, <2>5, <3>1 DEF Untouched
  <2>6. /\ \A u \in BookTasks : u # t => (u \in writers'[StockOf(k)] <=> u \in writers[StockOf(k)])
        /\ t \in writers'[StockOf(k)] <=> task'[t].at \in {"hide", "save"}
    BY <1>5, <2>1
  <2> QED BY <1>1, <1>3, <1>4, <1>5, <2>1, <2>2, <2>4, <2>5, <2>6, TaskWrites
<1>6. CASE DeclareFails(k, q) /\ UNCHANGED writers /\ task'[t].at = "idle"
  <2>1. doubt' = doubt \union {StockOf(k)} /\ doubt' \subseteq Fields
    BY <1>1, <1>2, <1>6 DEF DeclareFails
  <2>2. ASSUME NEW f \in Fields, f # StockOf(k)
        PROVE  Untouched(f)
    <3>1. f[1] \in Listings /\ (f[2] = "price" \/ (f[2] = "stock" /\ f[1] # k))
      BY <2>2, FieldsAre
    <3> QED BY <1>3, <1>6, <2>1, <2>2, <3>1 DEF Untouched
  <2>3. t \in writers'[StockOf(k)] <=> task'[t].at \in {"hide", "save"}
    BY <1>1, <1>2, <1>6
  <2> QED BY <1>1, <1>3, <1>4, <1>6, <2>1, <2>2, <2>3, TaskWrites
<1> QED BY <1>5, <1>6

\* A failed claim hides a listing that is active still.
LEMMA SpreadStepKeeps ==
  ASSUME BooksInv, NEW t \in Callbacks, Spread(t), UNCHANGED syncVars
  PROVE  BooksInv'
<1>1. PICK k \in Listings : k = On(t)
  BY TaskFacts
<1>2. /\ Types /\ task[t].at = "spread" /\ task[t].qty = 0
      /\ \/ Declare(k, 0) /\ Settles({StockOf(k)}, {}, t) /\ Opens({StockOf(k)}, t) /\ TaskTo(t, "save")
         \/ DeclareFails(k, 0) /\ TaskTo(t, "idle") /\ UNCHANGED writers
         \/ TaskTo(t, "idle") /\ UNCHANGED <<shop, writers, doubt>>
      /\ UNCHANGED <<mode, row, supply, rivals, late, spared>>
  BY <1>1 DEF BooksInv, Spread, TaskAt, HidesNothing
<1>3. CASE Declare(k, 0) /\ Settles({StockOf(k)}, {}, t) /\ Opens({StockOf(k)}, t) /\ TaskTo(t, "save")
  <2>1. /\ task' \in [Callbacks -> Task] /\ task'[t].at = "save" /\ task'[t].on = k /\ task'[t].qty = 0
        /\ \A u \in Callbacks : u # t => task'[u] = task[u]
    BY <1>1, <1>2, <1>3, TaskToEffect DEF Stages
  <2> QED BY <1>2, <1>3, <2>1, TaskShows
<1>4. CASE DeclareFails(k, 0) /\ TaskTo(t, "idle") /\ UNCHANGED writers
  <2>1. /\ task' \in [Callbacks -> Task] /\ task'[t].at = "idle"
        /\ \A u \in Callbacks : u # t => task'[u] = task[u]
    BY <1>2, <1>4, TaskToEffect DEF Stages
  <2>2. /\ 0 \in Nat /\ task[t].at \in {"idle", "spread"}
        /\ UNCHANGED <<mode, row, supply, rivals, late, spared>>
    BY <1>2
  <2>3. DeclareFails(k, 0) /\ UNCHANGED writers /\ task'[t].at = "idle"
    BY <1>4, <2>1
  <2> QED BY <2>1, <2>2, <2>3, TaskShows
<1>5. CASE TaskTo(t, "idle") /\ UNCHANGED <<shop, writers, doubt>>
  <2>1. /\ task' \in [Callbacks -> Task] /\ task'[t].at = "idle"
        /\ \A u \in Callbacks : u # t => task'[u] = task[u]
    BY <1>2, <1>5, TaskToEffect DEF Stages
  <2>2. supply' \in [Listings -> Supply] /\ rivals' \in [Listings -> Rivals] /\ row' \in [Listings -> Row]
    BY <1>2, TaskFacts DEF Types
  <2>3. \A l \in Listings : BreachesHandled(l)'
    BY <1>2, <2>1, BreakersRest
  <2> QED BY <1>2, <1>5, <2>1, <2>2, <2>3, TaskGoesOn
<1> QED BY <1>2, <1>3, <1>4, <1>5

\* What a task declared is saved.
LEMMA SaveShownStepKeeps ==
  ASSUME BooksInv, NEW t \in Callbacks, SaveShown(t), UNCHANGED syncVars
  PROVE  BooksInv'
<1>1. PICK k \in Listings, q \in Nat : k = On(t) /\ q = task[t].qty
  BY TaskFacts
<1>2. /\ Types /\ task[t].at = "save" /\ SaveDeclared(k, q)
      /\ Keeps(StockOf(k), t) /\ Closes(StockOf(k), t) /\ TaskTo(t, "idle")
      /\ UNCHANGED <<mode, shop, supply, rivals, late, spared>>
  BY <1>1 DEF BooksInv, SaveShown, TaskAt
<1>3. /\ t \in BookTasks /\ row \in [Listings -> Row] /\ shop' \in [Listings -> Shop]
      /\ supply' \in [Listings -> Supply] /\ rivals' \in [Listings -> Rivals]
  BY <1>2, TaskFacts DEF Types
<1>4. /\ task' \in [Callbacks -> Task] /\ task'[t].at = "idle"
      /\ \A u \in Callbacks : u # t => task'[u] = task[u]
  BY <1>2, <1>1, TaskToEffect DEF Stages
<1>5. StockOf(k) \in Fields /\ StockOf(k)[1] = k /\ StockOf(k)[2] = "stock" /\ t \in writers[StockOf(k)]
  BY <1>1, <1>2, FieldsAre, TaskFacts
<1>6. /\ row' \in [Listings -> Row]
      /\ \A l \in Listings :
           /\ row'[l].declared = IF l = k THEN q ELSE row[l].declared
           /\ row'[l].price = row[l].price /\ row'[l].status = row[l].status
           /\ row'[l].fails = row[l].fails /\ row'[l].oos = row[l].oos
  BY <1>2, <1>3 DEF SaveDeclared, Row
<1>7. /\ doubt' \subseteq Fields /\ doubt \subseteq doubt'
      /\ StockOf(k) \in doubt' \/ ~Crossed(StockOf(k), t)
  BY <1>2, <1>5, KeepingEffect
<1>8. /\ writers' \in [Fields -> SUBSET BookTasks]
      /\ writers'[StockOf(k)] = writers[StockOf(k)] \ {t}
      /\ \A g \in Fields : g # StockOf(k) => writers'[g] = writers[g]
  BY <1>2, <1>3, <1>5, ClosingEffect
<1>9. StockOf(k) \in doubt' \/ Closed(StockOf(k), t)
  <2> SUFFICES ASSUME StockOf(k) \notin doubt'
               PROVE  Shows(StockOf(k), Kept(StockOf(k)))'
    BY <1>7, <1>8 DEF Closed
  <2>1. HalfWritten(StockOf(k), t)
    BY <1>5, <1>7 DEF BooksInv, Sound
  <2>2. shop[k].stock = q
    BY <1>1, <1>2, <1>5, <2>1 DEF HalfWritten, Writing, Shows
  <2> QED BY <1>2, <1>5, <1>6, <2>2 DEF Shows, Kept
<1>10. ASSUME NEW f \in Fields, f # StockOf(k)
      PROVE  Untouched(f)
  <2>1. f[1] \in Listings /\ (f[2] = "price" \/ (f[2] = "stock" /\ f[1] # k))
    BY <1>10, FieldsAre
  <2> QED BY <1>2, <1>6, <1>7, <1>8, <1>10, <2>1 DEF Untouched
<1>11. \A l \in Listings : BreachesHandled(l)'
  BY <1>2, <1>4, <1>6, BreakersRest
<1>12. /\ \A u \in BookTasks : u # t => (u \in writers'[StockOf(k)] <=> u \in writers[StockOf(k)])
       /\ t \in writers'[StockOf(k)] <=> task'[t].at \in {"hide", "save"}
  BY <1>4, <1>8
<1> QED BY <1>1, <1>2, <1>3, <1>4, <1>6, <1>7, <1>8, <1>9, <1>10, <1>11, <1>12, TaskWrites

\* An administrator declares a stock, which is taken and to be saved, or in doubt.
LEMMA SetDeclaredStockKeeps ==
  ASSUME BooksInv, NEW t \in Callbacks, SetDeclaredStock(t), UNCHANGED syncVars
  PROVE  BooksInv'
<1>1. /\ task[t].at = "idle" /\ task \in [Callbacks -> Task]
      /\ UNCHANGED <<mode, row, supply, rivals, late, spared>>
  BY TaskFacts DEF SetDeclaredStock, TaskAt
<1>2. PICK k \in Listings, q \in 0..MaxShown :
        \/ /\ Declare(k, q) /\ Settles({StockOf(k)}, {}, t) /\ Opens({StockOf(k)}, t)
           /\ task' = [task EXCEPT ![t] = [Resting EXCEPT !.at = "save", !.on = k, !.qty = q]]
        \/ DeclareFails(k, q) /\ UNCHANGED <<task, writers>>
  BY DEF SetDeclaredStock
<1>3. q \in Nat
  BY NumbersType
<1>4. CASE /\ Declare(k, q) /\ Settles({StockOf(k)}, {}, t) /\ Opens({StockOf(k)}, t)
           /\ task' = [task EXCEPT ![t] = [Resting EXCEPT !.at = "save", !.on = k, !.qty = q]]
  <2> DEFINE new == [Resting EXCEPT !.at = "save", !.on = k, !.qty = q]
  <2>1. new \in Task /\ new.at = "save" /\ new.on = k /\ new.qty = q
    BY <1>3, RestingIsTask DEF Task
  <2> HIDE DEF new
  <2>2. task' = [task EXCEPT ![t] = new]
    BY <1>4 DEF new
  <2>3. task' \in [Callbacks -> Task] /\ task'[t] = new /\ \A u \in Callbacks : u # t => task'[u] = task[u]
    BY <1>1, <2>1, <2>2
  <2> QED BY <1>1, <1>3, <1>4, <2>1, <2>3, TaskShows
<1>5. CASE DeclareFails(k, q) /\ UNCHANGED <<task, writers>>
  <2>1. task' \in [Callbacks -> Task] /\ \A u \in Callbacks : u # t => task'[u] = task[u]
    BY <1>1, <1>5
  <2> QED BY <1>1, <1>3, <1>5, <2>1, TaskShows
<1> QED BY <1>2, <1>4, <1>5
-------------------------------------------------------------------------------
(* The whole system *)

\* A request begins.
LEMMA RequestedKeeps ==
  ASSUME BooksInv, NEW t \in Callbacks, Requested(t)
  PROVE  BooksInv'
BY CallbackStepKeeps, SetDeclaredStockKeeps DEF Requested

\* A task that serves one goes on.
LEMMA ServedKeeps ==
  ASSUME BooksInv, NEW t \in Callbacks, Served(t)
  PROVE  BooksInv'
BY CountStepKeeps, PauseStepKeeps, TripStepKeeps, HideStepKeeps, SpreadStepKeeps, SaveShownStepKeeps
   DEF Served, CallbackStep

\* A restart forgets the tasks and the runs, puts in doubt what was half written, and
\* spares the listings whose pause it cut off.
LEMMA RestartKeeps ==
  ASSUME BooksInv, Restart
  PROVE  BooksInv'
<1>1. /\ Types /\ UNCHANGED <<mode, row, shop, supply, rivals>> /\ late' = {}
      /\ doubt' = doubt \union {f \in Fields : writers[f] # {}} /\ doubt \subseteq Fields
      /\ writers' = [f \in Fields |-> {}]
      /\ task' = [t \in Callbacks |-> Resting]
      /\ run' = [t \in Runs |-> Rested] /\ past' = [l \in Listings |-> {}]
      /\ spared' = spared \union {On(t) : t \in {u \in Callbacks : TaskAt(u, "pause") \/ TaskAt(u, "trip")}}
  BY DEF BooksInv, Types, ListingTypeOK, Restart
<1>2. /\ \A t \in Callbacks : task'[t].at = "idle" /\ task'[t].qty = 0
      /\ task' \in [Callbacks -> Task]
  BY <1>1, RestingIsTask
<1>3. /\ DOMAIN run' = Runs /\ past' \in [Listings -> SUBSET Runs]
      /\ \A t \in Runs : RunTypeOK(run'[t]) /\ InOrder(t, run'[t])
      /\ \A t \in Runs : run'[t].priced = {} /\ run'[t].unsaved = {} /\ DOMAIN run'[t].seen = {}
  BY <1>1, RestedIsRun
<1>4. doubt' \subseteq Fields /\ late' \subseteq Listings \X Nat /\ writers' \in [Fields -> SUBSET BookTasks]
  BY <1>1
<1>5. Types'
  BY <1>1, <1>2, <1>3, <1>4 DEF Types, ListingTypeOK
<1>6. WritersAreKnown' /\ HidesNothing'
  BY <1>1, <1>2, <1>3 DEF WritersAreKnown, MidWrite, HidesNothing, BookTasks
<1>7. ASSUME NEW f \in Fields
      PROVE  Sound(f)'
  <2>1. f \notin doubt' => f \notin doubt /\ writers[f] = {}
    BY <1>1
  <2>2. f \notin doubt /\ writers[f] = {} => Shows(f, Kept(f))
    BY DEF BooksInv, Sound
  <2>3. Shows(f, Kept(f))' <=> Shows(f, Kept(f))
    BY <1>1 DEF Shows, Kept
  <2> QED BY <1>1, <2>1, <2>2, <2>3 DEF Sound
<1>8. ASSUME NEW l \in Listings
      PROVE  BreachesHandled(l)'
  <2> SUFFICES ASSUME row[l].status = "active", l \notin spared'
               PROVE  ~(row[l].fails >= PauseAt) /\ ~(row[l].oos >= OosPauseAt)
    BY <1>1, <1>2, <1>3 DEF BreachesHandled, FailsHandled, OosHandled
  <2>1. l \notin spared /\ ~OnItsWay(l, "pause") /\ ~OnItsWay(l, "trip")
    BY <1>1 DEF OnItsWay, TaskAt
  <2> QED BY <2>1 DEF BooksInv, BreachesHandled, FailsHandled, OosHandled
<1> QED BY <1>3, <1>5, <1>6, <1>7, <1>8 DEF BooksInv

\* In the beginning nothing is shown, and every price is the same on both sides.
LEMMA BooksStart ==
  ASSUME Init
  PROVE  BooksInv
<1>1. PICK start \in [Listings -> Starts] :
        /\ mode = [l \in Listings |-> start[l].mode]
        /\ supply = [l \in Listings |-> start[l].supply]
        /\ rivals = [l \in Listings |-> start[l].rivals]
  BY DEF Init, BooksInit
<1>2. /\ row = [l \in Listings |-> [status |-> "active", declared |-> 0, price |-> FirstPrice, fails |-> 0,
                                    oos |-> 0, won |-> 0, lost |-> 0]]
      /\ shop = [l \in Listings |-> [stock |-> 0, price |-> FirstPrice]]
      /\ writers = [f \in Fields |-> {}] /\ doubt = {} /\ late = {}
      /\ task = [t \in Callbacks |-> Resting] /\ run = [t \in Runs |-> Rested] /\ past = [l \in Listings |-> {}]
  BY DEF Init, BooksInit, HealthInit, SyncInit
<1>3. mode \in [Listings -> Mode] /\ supply \in [Listings -> Supply] /\ rivals \in [Listings -> Rivals]
  <2>1. \A l \in Listings : start[l] \in [mode : Mode, supply : Supplies, rivals : Rivals]
    BY StartsType
  <2>2. \A l \in Listings : start[l].mode \in Mode /\ start[l].supply \in Supply /\ start[l].rivals \in Rivals
    BY <2>1, SuppliesType
  <2> QED BY <1>1, <2>2
<1>4. row \in [Listings -> Row] /\ shop \in [Listings -> [stock : Nat, price : Nat]] /\ FirstPrice \in Nat
  BY <1>2, NumbersType DEF Row, Statuses
<1>5. /\ DOMAIN run = Runs /\ past \in [Listings -> SUBSET Runs]
      /\ \A t \in Runs : RunTypeOK(run[t]) /\ InOrder(t, run[t])
      /\ \A t \in Runs : run[t].priced = {} /\ run[t].unsaved = {} /\ DOMAIN run[t].seen = {}
  BY <1>2, RestedIsRun
<1>6. task \in [Callbacks -> Task] /\ \A t \in Callbacks : task[t].at = "idle" /\ task[t].qty = 0
  BY <1>2, RestingIsTask
<1>7. writers \in [Fields -> SUBSET BookTasks] /\ doubt \subseteq Fields /\ late \subseteq Listings \X Nat
  BY <1>2
<1>8. Types
  BY <1>3, <1>4, <1>5, <1>6, <1>7 DEF Types, ListingTypeOK
<1>9. WritersAreKnown /\ HidesNothing
  BY <1>2, <1>5, <1>6 DEF WritersAreKnown, MidWrite, HidesNothing, BookTasks
<1>10. ASSUME NEW f \in Fields
       PROVE  Sound(f)
  <2>1. f[1] \in Listings
    BY FieldsAre
  <2> QED BY <1>2, <2>1 DEF Sound, Shows, Kept
<1>11. ASSUME NEW l \in Listings
       PROVE  BreachesHandled(l)
  <2>1. row[l].fails = 0 /\ row[l].oos = 0 /\ ~(0 >= PauseAt) /\ ~(0 >= OosPauseAt)
    BY <1>2, ThresholdsType
  <2> QED BY <1>5, <1>6, <2>1 DEF BreachesHandled, FailsHandled, OosHandled
<1> QED BY <1>5, <1>8, <1>9, <1>10, <1>11 DEF BooksInv

\* The invariant speaks of the variables alone.
LEMMA StutterKeeps ==
  ASSUME BooksInv, UNCHANGED vars
  PROVE  BooksInv'
<1>1. UNCHANGED <<mode, row, shop, supply, rivals, spared, writers, doubt, late, task, syncVars>>
  BY DEF vars, bookVars
<1>2. /\ row' \in [Listings -> Row] /\ doubt' \subseteq Fields
      /\ supply' \in [Listings -> Supply] /\ rivals' \in [Listings -> Rivals]
  BY <1>1 DEF BooksInv, Types, ListingTypeOK
<1> QED BY <1>1, <1>2, NobodyMoves

\* Every step of everybody keeps the invariant.
LEMMA NextKeepsBooks ==
  ASSUME BooksInv, [Next]_vars
  PROVE  BooksInv'
<1>1. CASE Outside
  BY <1>1, MarketMoves, HandsMove DEF Outside
<1>2. CASE Restart
  BY <1>2, RestartKeeps
<1>3. CASE SavedLate
  BY <1>3, LateSaveKeeps
<1>4. CASE \E t \in Runs : Reconciled(t)
  BY <1>4, RunKeeps DEF Reconciled
<1>5. CASE \E t \in Callbacks : Requested(t) \/ Served(t)
  BY <1>5, RequestedKeeps, ServedKeeps
<1>6. CASE UNCHANGED vars
  BY <1>6, StutterKeeps
<1> QED BY <1>1, <1>2, <1>3, <1>4, <1>5, <1>6 DEF Next

-------------------------------------------------------------------------------
(* The books and the breakers *)

\* The invariant holds throughout, whoever overlaps with whom, whatever is refused or
\* lost, and wherever the process restarts.
THEOREM BooksInvariant == Spec => []BooksInv
<1>1. Init => BooksInv
  BY BooksStart
<1>2. BooksInv /\ [Next]_vars => BooksInv'
  BY NextKeepsBooks
<1> QED BY <1>1, <1>2, PTL DEF Spec

\* Rows, tasks and runs keep the shape they are given: a run plans for listings alone, never
\* declares or prices below zero, and has work left for what it planned alone.
THEOREM ListingTypes == Spec => []ListingTypeOK
<1>1. BooksInv => ListingTypeOK
  BY DEF BooksInv, Types
<1> QED BY <1>1, BooksInvariant, PTL

\* What seller_listings records of stock and price is what the marketplace shows, but for
\* the provider's floor, whenever nobody is between the two writes and no push of that
\* field failed or crossed another: for any number of runs and callbacks at once.
THEOREM BooksAgree == Spec => []BooksMatchShop
<1>1. BooksInv => BooksMatchShop
  <2> SUFFICES ASSUME BooksInv, NEW l \in Listings
               PROVE  /\ writers[StockOf(l)] = {} /\ StockOf(l) \notin doubt => row[l].declared = shop[l].stock
                      /\ writers[PriceOf(l)] = {} /\ PriceOf(l) \notin doubt
                           => shop[l].price \in {row[l].price, Max({row[l].price, ProviderFloor})}
    BY DEF BooksMatchShop
  <2>1. /\ StockOf(l) \in Fields /\ StockOf(l)[1] = l /\ StockOf(l)[2] = "stock"
        /\ PriceOf(l) \in Fields /\ PriceOf(l)[1] = l /\ PriceOf(l)[2] = "price"
    BY FieldsAre
  <2>2. Sound(StockOf(l)) /\ Sound(PriceOf(l))
    BY <2>1 DEF BooksInv
  <2> QED BY <2>1, <2>2 DEF Sound, Shows, Kept
<1> QED BY <1>1, BooksInvariant, PTL

\* No order of callbacks, of stale counters written back by them or by the pricing runs,
\* and of pauses lets an active listing that nobody is serving stand at a threshold.
THEOREM BreakersNeverOverrun == Spec => []BreakersHold
<1>1. BooksInv => BreakersHold
  <2> SUFFICES ASSUME BooksInv, NEW l \in Listings, row[l].status = "active", l \notin spared,
                      \A t \in Callbacks : TaskAt(t, "idle") \/ On(t) # l
               PROVE  row[l].fails < PauseAt /\ row[l].oos < OosPauseAt
    BY DEF BreakersHold
  <2>1. ~OnItsWay(l, "pause") /\ ~OnItsWay(l, "trip")
    BY DEF OnItsWay, TaskAt
  <2>2. row[l].fails \in Nat /\ row[l].oos \in Nat
    BY DEF BooksInv, Types, ListingTypeOK, Row
  <2> QED BY <2>1, <2>2, ThresholdsType DEF BooksInv, BreachesHandled, FailsHandled, OosHandled
<1> QED BY <1>1, BooksInvariant, PTL

\* A run that has decided rests, or has planned what it decided on.
LEMMA DecidedPlans ==
  ASSUME BooksInv, NEW t \in Runs, Decide(t)
  PROVE  /\ RunTypeOK(run[t]) /\ DOMAIN run = Runs /\ UNCHANGED bookVars
         /\ \A u \in Runs : u # t => run'[u] = run[u]
         /\ \A l \in Listings, u \in Runs : u \in past[l] => u \in past'[l] \/ (u = t /\ run'[t] = Rested)
         /\ \/ run'[t] = Rested
            \/ /\ run'[t].at \in {"prices", "push"}
               /\ DOMAIN run'[t].plan \subseteq DOMAIN run[t].seen
               /\ \A l \in DOMAIN run'[t].plan : run'[t].plan[l] = Decision(t, l) /\ Decision(t, l) # Stay
               /\ ~Pricing(t) /\ FixesOf(run'[t]) # {} => run'[t].at = "prices"
<1> DEFINE acts == {l \in DOMAIN run[t].seen : Decision(t, l) # Stay}
           plan == [l \in acts |-> Decision(t, l)]
<1>1. RunTypeOK(run[t]) /\ DOMAIN run = Runs /\ past \in [Listings -> SUBSET Runs] /\ UNCHANGED bookVars
  BY RunFacts DEF Types, ListingTypeOK, Decide
<1>2. CASE Proceed(t, Rested, {})
  <2>1. Onward(t, Rested) = Rested
    BY RestedIsRun DEF Onward
  <2> QED BY <1>1, <1>2, <2>1 DEF Proceed
<1>3. ASSUME NEW where \in {"prices", "push"},
             Pricing(t) \/ FixesOf([plan |-> plan]) # {} => where = "prices",
             Proceed(t, [run[t] EXCEPT !.at = where, !.plan = plan, !.seen = IF Pricing(t) THEN @ ELSE NoPlan], {})
      PROVE  /\ \A u \in Runs : u # t => run'[u] = run[u]
             /\ \A l \in Listings, u \in Runs : u \in past[l] => u \in past'[l] \/ (u = t /\ run'[t] = Rested)
             /\ run'[t].at = where /\ run'[t].plan = plan
  <2> DEFINE r == [run[t] EXCEPT !.at = where, !.plan = plan, !.seen = IF Pricing(t) THEN @ ELSE NoPlan]
  <2> HIDE DEF plan
  <2>1. r.at = where /\ r.plan = plan
    BY <1>1 DEF RunTypeOK
  <2>2. Proceed(t, r, {})
    BY <1>3
  <2> HIDE DEF r
  <2>3. Onward(t, r) = r
    BY <2>1 DEF Onward
  <2>4. run' = [run EXCEPT ![t] = r]
    BY <2>2, <2>3 DEF Proceed
  <2>5. run'[t] = r /\ \A u \in Runs : u # t => run'[u] = run[u]
    BY <1>1, <2>4
  <2>6. \A l \in Listings, u \in Runs : u \in past[l] => u \in past'[l] \/ (u = t /\ run'[t] = Rested)
    BY <2>2, <2>3, <2>5 DEF Proceed
  <2> QED BY <2>1, <2>5, <2>6
<1>4. \/ Proceed(t, Rested, {})
      \/ \E where \in {"prices", "push"} :
           /\ Pricing(t) \/ FixesOf([plan |-> plan]) # {} => where = "prices"
           /\ Proceed(t, [run[t] EXCEPT !.at = where, !.plan = plan, !.seen = IF Pricing(t) THEN @ ELSE NoPlan], {})
  BY DecideEffect
<1>5. CASE \E where \in {"prices", "push"} :
           /\ Pricing(t) \/ FixesOf([plan |-> plan]) # {} => where = "prices"
           /\ Proceed(t, [run[t] EXCEPT !.at = where, !.plan = plan, !.seen = IF Pricing(t) THEN @ ELSE NoPlan], {})
  <2>1. PICK where \in {"prices", "push"} :
           /\ Pricing(t) \/ FixesOf([plan |-> plan]) # {} => where = "prices"
           /\ Proceed(t, [run[t] EXCEPT !.at = where, !.plan = plan, !.seen = IF Pricing(t) THEN @ ELSE NoPlan], {})
    BY <1>5
  <2>2. /\ \A u \in Runs : u # t => run'[u] = run[u]
        /\ \A l \in Listings, u \in Runs : u \in past[l] => u \in past'[l] \/ (u = t /\ run'[t] = Rested)
        /\ run'[t].at = where /\ run'[t].plan = plan
    BY <1>3, <2>1
  <2>3. FixesOf(run'[t]) = FixesOf([plan |-> plan])
    BY <2>2 DEF FixesOf
  <2> QED BY <1>1, <2>1, <2>2, <2>3
<1> QED BY <1>2, <1>4, <1>5

\* Whatever the strategy, the rivals and the fees, a pricing run never decides on a price
\* below the floor of the listing (of a net one when it has rivals and smart pricing).
THEOREM PricesCoverFloors == Spec => NeverPricedBelowFloor
<1> DEFINE Covers == \A t \in Runs : Decide(t) /\ Pricing(t) =>
              \A l \in DOMAIN run'[t].plan :
                (mode[l].net => mode[l].smart /\ rivals[l] # << >>)
                  => run'[t].plan[l].price >= EffectiveMin(run'[t].plan[l].cost, mode[l].net)
<1>1. BooksInv /\ [Next]_vars => [Covers]_vars
  <2> SUFFICES ASSUME BooksInv, NEW t \in Runs, Decide(t), Pricing(t), NEW l \in DOMAIN run'[t].plan,
                      mode[l].net => mode[l].smart /\ rivals[l] # << >>
               PROVE  run'[t].plan[l].price >= EffectiveMin(run'[t].plan[l].cost, mode[l].net)
    OBVIOUS
  <2>1. run'[t] # Rested
    BY RestedIsRun
  <2>2. l \in DOMAIN run[t].seen /\ run'[t].plan[l] = Decision(t, l) /\ Decision(t, l) # Stay
    BY <2>1, DecidedPlans
  <2>3. Decision(t, l) = PricingPlan(t, l)
    BY DEF Decision, Pricing
  <2> QED BY <2>2, <2>3, PricingDecides DEF BooksInv
<1> QED BY <1>1, BooksInvariant, PTL DEF Spec, NeverPricedBelowFloor
-------------------------------------------------------------------------------
(* No stock of a supplier is declared at a loss *)

\* A run that decides sees the price that is recorded, and nobody is about to record another.
SeenNow(t, l) ==
  run[t].at = "decide" /\ l \in DOMAIN run[t].seen
    => run[t].seen[l].price = row[l].price /\ writers[PriceOf(l)] = {}

\* A price that is planned with stock of a supplier covers its cost and the margin; once it
\* has been pushed, and where none is planned for a listing that has one, so does the price
\* that is asked.
PlanCovers(t, l) ==
  ~Pricing(t) /\ l \in Planned(t) /\ mode[l].autoPrice /\ PlanOf(t, l).qty > 0 /\ PlanOf(t, l).cost > 0 =>
    /\ PlanOf(t, l).price > 0 => PlanOf(t, l).price >= ProfitFloor(PlanOf(t, l).cost, mode[l].net)
    /\ /\ PriceOf(l) \notin doubt
       /\ PlanOf(t, l).price = 0 => row[l].price > 0
       /\ ~(RunAt(t, "prices") /\ PlanOf(t, l).price > 0)
       => shop[l].price >= ProfitFloor(PlanOf(t, l).cost, mode[l].net)

Costs(t, l) == t \notin past[l] => SeenNow(t, l) /\ PlanCovers(t, l)
CostsCovered == \A t \in Runs, l \in Listings : Costs(t, l)

\* The price of a listing is left alone on both sides, and no doubt of it is settled.
PriceStays(l) ==
  /\ shop'[l].price = shop[l].price /\ row'[l].price = row[l].price
  /\ writers'[PriceOf(l)] = writers[PriceOf(l)] /\ (PriceOf(l) \in doubt => PriceOf(l) \in doubt')

\* What a run knows of a listing's price outlasts what leaves the run and that price alone.
LEMMA CostsStay ==
  ASSUME NEW t \in Runs, NEW l \in Listings, Costs(t, l), run'[t] = run[t], mode' = mode,
         t \in past[l] => t \in past'[l],
         t \notin past'[l] /\ RunAt(t, "load") => DOMAIN run[t].seen = {} /\ DOMAIN run[t].plan = {},
         t \notin past'[l] => PriceStays(l) \/ RunAt(t, "load")
  PROVE  Costs(t, l)'
<1> SUFFICES ASSUME t \notin past'[l]
             PROVE  SeenNow(t, l)' /\ PlanCovers(t, l)'
  BY DEF Costs
<1>1. CASE RunAt(t, "load")
  BY <1>1 DEF SeenNow, PlanCovers, Planned
<1>2. CASE PriceStays(l)
  BY <1>2 DEF Costs, SeenNow, PlanCovers, PriceStays, Planned, PlanOf, RunAt
<1> QED BY <1>1, <1>2

\* A run that rests plans nothing.
LEMMA RestCovers ==
  ASSUME NEW t, NEW l, run'[t] = Rested
  PROVE  Costs(t, l)'
BY RestedIsRun DEF Costs, SeenNow, PlanCovers, Planned

\* What a step that leaves all prices and all runs alone keeps.
LEMMA PricesLeftAlone ==
  ASSUME BooksInv, CostsCovered, UNCHANGED <<mode, syncVars>>, \A l \in Listings : PriceStays(l)
  PROVE  CostsCovered'
<1> SUFFICES ASSUME NEW t \in Runs, NEW l \in Listings
             PROVE  Costs(t, l)'
  BY DEF CostsCovered
<1>1. Costs(t, l) /\ run'[t] = run[t] /\ past'[l] = past[l] /\ PriceStays(l)
  BY DEF CostsCovered, syncVars
<1>2. RunAt(t, "load") => DOMAIN run[t].seen = {} /\ DOMAIN run[t].plan = {}
  BY DEF BooksInv, InOrder, RunAt
<1> QED BY <1>1, <1>2, CostsStay

\* Plans are floors away from loss: the numbers of a plan and of its floor.
LEMMA PlanNumbers ==
  ASSUME BooksInv, NEW t \in Runs, NEW l \in Planned(t)
  PROVE  /\ l \in Listings /\ PlanOf(t, l).price \in Nat /\ PlanOf(t, l).cost \in Nat
         /\ ProfitFloor(PlanOf(t, l).cost, mode[l].net) \in Nat
<1>1. l \in Listings /\ PlanOf(t, l) \in Planning /\ Types
  BY RunFacts
<1>2. PlanOf(t, l).price \in Nat /\ PlanOf(t, l).cost \in Nat /\ mode[l].net \in BOOLEAN
  BY <1>1 DEF Planning, Types, Mode
<1> QED BY <1>1, <1>2, FloorsAreNat

\* A run that has decided and goes on, having written the prices of A, keeps what it and
\* the others know: the others are overtaken there, and of its own it asked what it planned.
LEMMA RunCovers ==
  ASSUME BooksInv, BooksInv', CostsCovered, NEW u \in Runs, NEW A, A \subseteq Listings, NEW r, Proceed(u, r, A), mode' = mode,
         r = Rested \/ (r.plan = run[u].plan /\ r.at \in {"saveprices", "fixeach", "push", "flush"}),
         \A l \in Listings \ A : PriceStays(l),
         ~Pricing(u) => \A l \in A :
           /\ l \in Planned(u) /\ PlanOf(u, l).price > 0
           /\ \/ PriceOf(l) \in doubt' \/ shop'[l].price >= PlanOf(u, l).price
              \/ /\ ~RunAt(u, "prices") /\ shop'[l].price = shop[l].price
                 /\ PriceOf(l) \in doubt => PriceOf(l) \in doubt',
         ~Pricing(u) /\ RunAt(u, "prices") => A = Fixes(u)
  PROVE  CostsCovered'
<1>1. /\ DOMAIN run = Runs /\ past \in [Listings -> SUBSET Runs]
      /\ run' = [run EXCEPT ![u] = Onward(u, r)]
      /\ past' = [l \in Listings |-> (past[l] \union (IF l \in A THEN Awake \ {u} ELSE {}))
                                        \ (IF Onward(u, r) = Rested THEN {u} ELSE {})]
  BY DEF BooksInv, Types, ListingTypeOK, Proceed
<1>2. run'[u] = Onward(u, r) /\ \A t \in Runs : t # u => run'[t] = run[t]
  BY <1>1
<1>3. \/ Onward(u, r) = Rested
      \/ Onward(u, r).plan = run[u].plan /\ Onward(u, r).at \in {"saveprices", "fixeach", "push", "flush"}
  <2>1. CASE r = Rested
    BY <2>1, RestedIsRun DEF Onward
  <2>2. CASE r.plan = run[u].plan /\ r.at \in {"saveprices", "fixeach", "push", "flush"}
    <3>1. Onward(u, r) \in {r, Rested, [r EXCEPT !.at = "push"]}
      BY DEF Onward
    <3>2. [r EXCEPT !.at = "push"].plan = r.plan /\ [r EXCEPT !.at = "push"].at \in {"push", r.at}
      <4>1. RunTypeOK(run'[u])
        BY DEF BooksInv, Types, ListingTypeOK
      <4> QED OBVIOUS
    <3> QED BY <2>2, <3>1, <3>2
  <2> QED BY <2>1, <2>2
<1>4. ASSUME NEW t \in Runs, NEW l \in Listings, t # u
      PROVE  Costs(t, l)'
  <2>1. Costs(t, l) /\ run'[t] = run[t] /\ (t \in past[l] => t \in past'[l])
    BY <1>1, <1>2, <1>4 DEF CostsCovered
  <2>2. RunAt(t, "load") => DOMAIN run[t].seen = {} /\ DOMAIN run[t].plan = {}
    BY DEF BooksInv, InOrder, RunAt
  <2>3. ASSUME t \notin past'[l], ~RunAt(t, "load")
        PROVE  PriceStays(l)
    <3>1. t \in Awake \ {u}
      BY <1>4, <2>3 DEF Awake
    <3> QED BY <1>1, <1>4, <2>3, <3>1
  <2> QED BY <2>1, <2>2, <2>3, CostsStay
<1>5. ASSUME NEW l \in Listings
      PROVE  Costs(u, l)'
  <2>1. CASE run'[u] = Rested
    BY <2>1, RestCovers
  <2>2. CASE run'[u] # Rested
    <3>1. /\ run'[u].plan = run[u].plan /\ run'[u].at \in {"saveprices", "fixeach", "push", "flush"}
          /\ u \in past[l] => u \in past'[l]
      BY <1>1, <1>2, <1>3, <2>2
    <3> SUFFICES ASSUME u \notin past'[l], ~Pricing(u), l \in Planned(u), mode[l].autoPrice,
                        PlanOf(u, l).qty > 0, PlanOf(u, l).cost > 0
                 PROVE  LET F == ProfitFloor(PlanOf(u, l).cost, mode[l].net) IN
                        /\ PlanOf(u, l).price > 0 => PlanOf(u, l).price >= F
                        /\ PriceOf(l) \notin doubt' /\ (PlanOf(u, l).price = 0 => row'[l].price > 0) => shop'[l].price >= F
      BY <3>1 DEF Costs, SeenNow, PlanCovers, Planned, PlanOf
    <3> DEFINE F == ProfitFloor(PlanOf(u, l).cost, mode[l].net)
    <3>2. /\ PlanOf(u, l).price > 0 => PlanOf(u, l).price >= F
          /\ /\ PriceOf(l) \notin doubt
             /\ PlanOf(u, l).price = 0 => row[l].price > 0
             /\ ~(RunAt(u, "prices") /\ PlanOf(u, l).price > 0)
             => shop[l].price >= F
      BY <3>1 DEF CostsCovered, Costs, PlanCovers
    <3>3. PlanOf(u, l).price \in Nat /\ F \in Nat
      BY PlanNumbers
    <3>4. shop'[l].price \in Nat
      BY DEF BooksInv, Types, ListingTypeOK
    <3> HIDE DEF F
    <3>5. CASE l \in A
      BY <3>2, <3>3, <3>4, <3>5 DEF F
    <3>6. CASE l \notin A
      <4>1. PriceStays(l) /\ ~(RunAt(u, "prices") /\ PlanOf(u, l).price > 0)
        BY <3>6 DEF Fixes
      <4> QED BY <3>2, <4>1 DEF PriceStays, F
    <3> QED BY <3>5, <3>6
  <2> QED BY <2>1, <2>2
<1> QED BY <1>4, <1>5 DEF CostsCovered

\* Loading, a run sees the prices that are recorded, or somebody is about to record one.
LEMMA LoadCovers ==
  ASSUME BooksInv, CostsCovered, NEW u \in Runs, Load(u)
  PROVE  CostsCovered'
<1> DEFINE seen == [l \in Loaded(u) |-> [declared |-> row[l].declared, price |-> row[l].price, oos |-> row[l].oos]]
<1>1. /\ DOMAIN run = Runs /\ UNCHANGED bookVars
      /\ run' = [run EXCEPT ![u] = [Rested EXCEPT !.at = "decide", !.seen = seen]]
      /\ past' = [l \in Listings |-> past[l] \union (IF writers[PriceOf(l)] = {} THEN {} ELSE {u})]
  BY DEF BooksInv, Types, ListingTypeOK, Load
<1>2. /\ \A t \in Runs : t # u => run'[t] = run[t]
      /\ run'[u].at = "decide" /\ run'[u].seen = seen /\ DOMAIN run'[u].plan = {}
  <2> HIDE DEF seen
  <2> QED BY <1>1 DEF Rested, NoPlan
<1>3. ASSUME NEW t \in Runs, NEW l \in Listings, t # u
      PROVE  Costs(t, l)'
  <2>1. Costs(t, l) /\ run'[t] = run[t] /\ mode' = mode /\ (t \in past[l] => t \in past'[l]) /\ PriceStays(l)
    BY <1>1, <1>2, <1>3 DEF CostsCovered, PriceStays, bookVars
  <2>2. RunAt(t, "load") => DOMAIN run[t].seen = {} /\ DOMAIN run[t].plan = {}
    BY DEF BooksInv, InOrder, RunAt
  <2> QED BY <2>1, <2>2, CostsStay
<1>4. ASSUME NEW l \in Listings
      PROVE  Costs(u, l)'
  <2>1. u \notin past'[l] => writers[PriceOf(l)] = {}
    BY <1>1
  <2>2. l \in DOMAIN seen => seen[l].price = row[l].price
    OBVIOUS
  <2> HIDE DEF seen
  <2> QED BY <1>1, <1>2, <2>1, <2>2 DEF Costs, SeenNow, PlanCovers, Planned, bookVars
<1> QED BY <1>3, <1>4 DEF CostsCovered

\* A decision d for l asks what it costs, or relies on a price that does.
Covering(d, l) ==
  d.qty > 0 /\ d.cost > 0 =>
    /\ d.price > 0 => d.price >= ProfitFloor(d.cost, mode[l].net)
    /\ d.price = 0 /\ PriceOf(l) \notin doubt /\ row[l].price > 0 => shop[l].price >= ProfitFloor(d.cost, mode[l].net)

\* Keys, hiding and leaving alone cost nothing.
LEMMA FreeIsCovering ==
  ASSUME NEW l, NEW q
  PROVE  Covering(Stay, l) /\ Covering(Plan(q, 0, 0), l)
BY DEF Covering, Stay, Plan

\* A corrected price covers.
LEMMA CorrectionIsCovering ==
  ASSUME Types, NEW l \in Listings, NEW cost \in Nat, NEW q
  PROVE  Covering(Plan(q, Corrected(cost, rivals[l], mode[l].net), cost), l)
<1>1. mode[l].net \in BOOLEAN /\ rivals[l] \in Seq(Nat)
  BY RivalsAreSeq DEF Types, Mode
<1> DEFINE p == Corrected(cost, rivals[l], mode[l].net)
           floor == ProfitFloor(cost, mode[l].net)
<1>2. p \in Nat /\ p >= floor /\ floor \in Nat /\ (cost > 0 => floor > 0)
  BY <1>1, CorrectedIsNat, CorrectedCovers, FloorsAreNat, FloorsArePositive
<1> HIDE DEF p, floor
<1>3. Plan(q, p, cost).price = p /\ Plan(q, p, cost).cost = cost
  BY DEF Plan
<1>4. Covering(Plan(q, p, cost), l)
  BY <1>2, <1>3 DEF Covering, floor
<1> QED BY <1>4 DEF p

\* Whatever a run that nobody has overtaken decides for the stock of a listing that is
\* priced automatically covers: a supplier that backs it leaves the margin at its price,
\* and else the price is corrected.
LEMMA StockDecisionsCover ==
  ASSUME BooksInv, NEW t \in Runs, RunAt(t, "decide"), ~Pricing(t), NEW l \in DOMAIN run[t].seen,
         SeenNow(t, l), mode[l].autoPrice
  PROVE  Covering(Decision(t, l), l)
<1>1. /\ Types /\ l \in Listings /\ run[t].seen[l].price \in Nat /\ ProviderFloor \in Nat
      /\ mode[l].net \in BOOLEAN /\ supply[l].keys \in Nat /\ rivals[l] \in Seq(Nat) /\ shop[l].price \in Nat
  <2>1. Types /\ l \in Listings
    BY DEF BooksInv, Types, ListingTypeOK, RunTypeOK
  <2> QED BY <2>1, RivalsAreSeq, CentsType DEF Types, ListingTypeOK, RunTypeOK, Glimpse, Mode, Supply
<1>2. /\ run[t].seen[l].price = row[l].price
      /\ PriceOf(l) \notin doubt => shop[l].price >= run[t].seen[l].price
  <2>1. run[t].seen[l].price = row[l].price /\ writers[PriceOf(l)] = {}
    BY DEF SeenNow, RunAt
  <2>2. PriceOf(l) \in Fields /\ PriceOf(l)[1] = l /\ PriceOf(l)[2] = "price"
    BY <1>1, FieldsAre
  <2>3. PriceOf(l) \notin doubt => shop[l].price \in {row[l].price, Max({row[l].price, ProviderFloor})}
    BY <2>1, <2>2 DEF BooksInv, Sound, Shows, Kept
  <2> DEFINE p == row[l].price
  <2>4. p \in Int /\ ProviderFloor \in Int
    BY <1>1, <2>1
  <2>5. Max({p, ProviderFloor}) >= p /\ p >= p
    <3> HIDE DEF p
    <3> QED BY <2>4, MaxOfTwo
  <2> QED BY <2>1, <2>3, <2>5
<1>3. Covering(KeysPlan(t, l), l) /\ Covering(HiddenPlan(t, l), l) /\ Covering(HiddenOnce(t, l), l)
  BY FreeIsCovering DEF KeysPlan, HiddenPlan, HiddenOnce
<1>4. ASSUME Credited(supply[l].offers) # {}
      PROVE  Covering(UneconomicPlan(t, l), l)
  <2> DEFINE o == Cheapest(Credited(supply[l].offers))
  <2>1. Credited(supply[l].offers) \subseteq supply[l].offers
    BY DEF Credited
  <2>2. o.cost \in Nat
    BY <1>1, <1>4, <2>1, OffersBack
  <2> HIDE DEF o
  <2>3. UneconomicPlan(t, l) = Plan(AtLeastOne(o), Corrected(o.cost, rivals[l], mode[l].net), o.cost)
    BY DEF UneconomicPlan, o
  <2> QED BY <1>1, <2>2, <2>3, CorrectionIsCovering
<1>5. ASSUME BackersOf(t, l) # {}
      PROVE  LET o == Cheapest(BackersOf(t, l)) IN
               /\ o.cost \in Nat
               /\ run[t].seen[l].price > 0 => o.cost <= CostCeiling(run[t].seen[l].price, mode[l].net)
  <2>1. BackersOf(t, l) \subseteq supply[l].offers
    BY DEF BackersOf, Backers, Credited
  <2>2. Cheapest(BackersOf(t, l)) \in BackersOf(t, l) /\ Cheapest(BackersOf(t, l)).cost \in Nat
    BY <1>1, <1>5, <2>1, OffersBack
  <2> QED BY <1>1, <2>2 DEF BackersOf, Backers
<1>6. ASSUME BackersOf(t, l) # {}, NEW q
      PROVE  LET o == Cheapest(BackersOf(t, l)) IN
               /\ Covering(Plan(q, Corrected(o.cost, rivals[l], mode[l].net), o.cost), l)
               /\ Covering(Plan(q, 0, o.cost), l)
  <2> DEFINE o == Cheapest(BackersOf(t, l))
             floor == ProfitFloor(o.cost, mode[l].net)
  <2>1. /\ o.cost \in Nat
        /\ run[t].seen[l].price > 0 => o.cost <= CostCeiling(run[t].seen[l].price, mode[l].net)
    BY <1>5, <1>6
  <2> HIDE DEF o
  <2>2. Covering(Plan(q, Corrected(o.cost, rivals[l], mode[l].net), o.cost), l)
    BY <1>1, <2>1, CorrectionIsCovering
  <2>3. o.cost > 0 /\ run[t].seen[l].price > 0 => run[t].seen[l].price >= floor
    BY <1>1, <2>1, CeilingMeansFloor
  <2>4. floor \in Nat
    BY <1>1, <2>1, FloorsAreNat
  <2>5. o.cost > 0 /\ row[l].price > 0 /\ PriceOf(l) \notin doubt => shop[l].price >= floor
    <3> HIDE DEF floor
    <3> QED BY <1>1, <1>2, <2>3, <2>4
  <2>6. Covering(Plan(q, 0, o.cost), l)
    BY <2>5 DEF Covering, Plan
  <2> QED BY <2>2, <2>6 DEF o
<1>7. Covering(DeclaredPlan(t, l), l)
  <2>1. CASE supply[l].keys > 0
    BY <1>1, <1>3, <2>1 DEF DeclaredPlan
  <2>2. CASE supply[l].keys = 0 /\ BackersOf(t, l) # {}
    BY <1>6, <2>2, FreeIsCovering DEF DeclaredPlan
  <2>3. CASE supply[l].keys = 0 /\ BackersOf(t, l) = {}
    BY <1>3, <1>4, <2>3 DEF DeclaredPlan
  <2> QED BY <1>1, <2>1, <2>2, <2>3
<1>8. Covering(RemotePlan(t, l), l)
  BY <1>3, <1>4, <1>6 DEF RemotePlan
<1>9. PhaseOf[t] \in {"declared", "remote"}
  BY PhasesType DEF Phases, Pricing
<1> QED BY <1>7, <1>8, <1>9 DEF Decision

\* What a run decides covers.
LEMMA DecideCovers ==
  ASSUME BooksInv, CostsCovered, NEW u \in Runs, Decide(u)
  PROVE  CostsCovered'
<1>1. /\ RunTypeOK(run[u]) /\ UNCHANGED bookVars
      /\ \A t \in Runs : t # u => run'[t] = run[t]
      /\ \A l \in Listings, t \in Runs : t \in past[l] => t \in past'[l] \/ (t = u /\ run'[u] = Rested)
      /\ \/ run'[u] = Rested
         \/ /\ run'[u].at \in {"prices", "push"}
            /\ DOMAIN run'[u].plan \subseteq DOMAIN run[u].seen
            /\ \A l \in DOMAIN run'[u].plan : run'[u].plan[l] = Decision(u, l) /\ Decision(u, l) # Stay
            /\ ~Pricing(u) /\ FixesOf(run'[u]) # {} => run'[u].at = "prices"
  BY DecidedPlans
<1>2. ASSUME NEW t \in Runs, NEW l \in Listings, t # u
      PROVE  Costs(t, l)'
  <2>1. Costs(t, l) /\ run'[t] = run[t] /\ mode' = mode /\ (t \in past[l] => t \in past'[l]) /\ PriceStays(l)
    BY <1>1, <1>2 DEF CostsCovered, PriceStays, bookVars
  <2>2. RunAt(t, "load") => DOMAIN run[t].seen = {} /\ DOMAIN run[t].plan = {}
    BY DEF BooksInv, InOrder, RunAt
  <2> QED BY <2>1, <2>2, CostsStay
<1>3. ASSUME NEW l \in Listings
      PROVE  Costs(u, l)'
  <2>1. CASE run'[u] = Rested
    BY <2>1, RestCovers
  <2>2. CASE run'[u] # Rested
    <3> DEFINE d == run'[u].plan[l]
    <3> SUFFICES ASSUME u \notin past'[l], ~Pricing(u), l \in DOMAIN run'[u].plan, mode[l].autoPrice, d.qty > 0, d.cost > 0
                 PROVE  LET F == ProfitFloor(d.cost, mode[l].net) IN
                        /\ d.price > 0 => d.price >= F
                        /\ PriceOf(l) \notin doubt /\ (d.price = 0 => row[l].price > 0) /\ ~(run'[u].at = "prices" /\ d.price > 0)
                             => shop[l].price >= F
      BY <1>1, <2>2 DEF Costs, SeenNow, PlanCovers, Planned, PlanOf, RunAt, bookVars
    <3>1. l \in DOMAIN run[u].seen /\ d = Decision(u, l) /\ Decision(u, l) # Stay /\ u \notin past[l] /\ RunAt(u, "decide")
      BY <1>1, <2>2 DEF Decide
    <3>2. SeenNow(u, l)
      BY <3>1 DEF CostsCovered, Costs
    <3>3. Covering(d, l)
      BY <3>1, <3>2, StockDecisionsCover
    <3>4. d.price \in Nat
      BY <3>1, DecidesSoundly DEF BooksInv, Planning
    <3>5. d.price > 0 => run'[u].at = "prices"
      BY <1>1, <2>2 DEF FixesOf
    <3> HIDE DEF d
    <3> QED BY <3>3, <3>4, <3>5 DEF Covering
  <2> QED BY <2>1, <2>2
<1> QED BY <1>2, <1>3 DEF CostsCovered

\* A step of a stock phase, or of a task, that leaves prices alone.
LEMMA StockLeavesPrices ==
  ASSUME NEW k \in Listings, NEW t,
         UNCHANGED row \/ \E q : SaveDeclared(k, q),
         BooksInv, \A l \in Listings : shop'[l].price = shop[l].price,
         UNCHANGED writers \/ Opens({StockOf(k)}, t) \/ Closes(StockOf(k), t),
         \/ Settles({StockOf(k)}, {}, t) \/ doubt \subseteq doubt'
  PROVE  \A l \in Listings : PriceStays(l)
<1> SUFFICES ASSUME NEW l \in Listings
             PROVE  PriceStays(l)
  OBVIOUS
<1>1. row \in [Listings -> Row] /\ writers \in [Fields -> SUBSET BookTasks]
  BY DEF BooksInv, Types, ListingTypeOK
<1>2. PriceOf(l) \in Fields /\ PriceOf(l) # StockOf(k) /\ StockOf(k) \in Fields
  BY FieldsAre
<1>3. row'[l].price = row[l].price
  BY <1>1 DEF SaveDeclared, Row
<1>4. writers'[PriceOf(l)] = writers[PriceOf(l)]
  BY <1>1, <1>2 DEF Opens, Closes
<1>5. PriceOf(l) \in doubt => PriceOf(l) \in doubt'
  BY <1>2 DEF Settles
<1> QED BY <1>3, <1>4, <1>5 DEF PriceStays

\* Pushing and saving prices, a run leaves the other prices alone.
LEMMA OtherPricesStay ==
  ASSUME BooksInv, NEW u \in Runs, NEW P, P \subseteq Planned(u), NEW least \in {0, ProviderFloor}, UNCHANGED row,
         \/ \E A \in SUBSET P, saved \in SUBSET P : PricesAnswered(u, P, A, least) /\ Opens(PricesOf(saved), u)
         \/ PricesLost(u, P, least) /\ UNCHANGED writers
  PROVE  /\ \A l \in Listings \ P : PriceStays(l)
         /\ \A l \in P : PriceOf(l) \in doubt' \/ shop'[l].price >= PlanOf(u, l).price
<1>1. /\ writers \in [Fields -> SUBSET BookTasks] /\ P \subseteq Listings /\ Types /\ u \in BookTasks
      /\ ProviderFloor \in Nat /\ \A l \in P : PlanOf(u, l).price \in Nat
  BY RunFacts, CentsType, PlanNumbers
<1>2. \A l \in Listings : PriceOf(l) \in Fields
  BY FieldsAre
<1>3. \A l \in P : Max({PlanOf(u, l).price, least}) >= PlanOf(u, l).price
  <2> SUFFICES ASSUME NEW l \in P
               PROVE  Max({PlanOf(u, l).price, least}) >= PlanOf(u, l).price
    OBVIOUS
  <2> DEFINE p == PlanOf(u, l).price
  <2>1. p \in Int /\ least \in Int
    BY <1>1
  <2> HIDE DEF p
  <2>2. Max({p, least}) >= p
    BY <2>1, MaxOfTwo
  <2> QED BY <2>2 DEF p
<1>4. ASSUME NEW A \in SUBSET P, NEW saved \in SUBSET P, PricesAnswered(u, P, A, least), Opens(PricesOf(saved), u)
      PROVE  /\ \A l \in Listings \ P : PriceStays(l)
             /\ \A l \in P : PriceOf(l) \in doubt' \/ shop'[l].price >= PlanOf(u, l).price
  <2>1. /\ \A l \in Listings \ A : shop'[l].price = shop[l].price
        /\ \A l \in A : shop'[l].price = Max({PlanOf(u, l).price, least})
    BY <1>1, <1>4, AskingEffect DEF PricesAnswered
  <2>2. /\ PricesOf(A) \in SUBSET Fields /\ PricesOf(P \ A) \in SUBSET Fields /\ PricesOf(saved) \in SUBSET Fields
        /\ \A l \in Listings : /\ PriceOf(l) \in PricesOf(A) <=> l \in A
                               /\ PriceOf(l) \in PricesOf(P \ A) <=> l \in P \ A
                               /\ PriceOf(l) \in PricesOf(saved) <=> l \in saved
    <3>1. A \subseteq Listings /\ P \ A \subseteq Listings /\ saved \subseteq Listings
      BY <1>1
    <3>2. \A l \in Listings : PriceOf(l) \in Fields /\ PriceOf(l)[1] = l /\ PriceOf(l)[2] = "price"
      BY FieldsAre
    <3> QED BY <3>1, <3>2, PricesAre
  <2>3. /\ \A f \in PricesOf(P \ A) : f \in doubt'
        /\ \A f \in Fields : f \in doubt /\ f \notin PricesOf(A) => f \in doubt'
    BY <1>1, <1>4, <2>2, SettlingEffect DEF PricesAnswered
  <2>4. \A f \in Fields \ PricesOf(saved) : writers'[f] = writers[f]
    BY <1>1, <1>4, <2>2, OpeningEffect
  <2>5. ASSUME NEW l \in Listings \ P
        PROVE  PriceStays(l)
    BY <1>2, <2>1, <2>2, <2>3, <2>4 DEF PriceStays
  <2>6. ASSUME NEW l \in P
        PROVE  PriceOf(l) \in doubt' \/ shop'[l].price >= PlanOf(u, l).price
    <3>1. CASE l \in A
      BY <1>3, <2>1, <3>1
    <3>2. CASE l \notin A
      BY <1>1, <2>2, <2>3, <3>2
    <3> QED BY <3>1, <3>2
  <2> QED BY <2>5, <2>6
<1>5. ASSUME PricesLost(u, P, least), UNCHANGED writers
      PROVE  /\ \A l \in Listings \ P : PriceStays(l)
             /\ \A l \in P : PriceOf(l) \in doubt' \/ shop'[l].price >= PlanOf(u, l).price
  <2>1. PICK A \in SUBSET P : AsksFrom(u, A, least)
    BY <1>5 DEF PricesLost
  <2>2. \A l \in Listings \ A : shop'[l].price = shop[l].price
    BY <1>1, <2>1, AskingEffect
  <2>3. doubt' = doubt \union PricesOf(P)
    BY <1>5 DEF PricesLost
  <2> QED BY <1>5, <2>2, <2>3 DEF PriceStays, PricesOf
<1> QED BY <1>4, <1>5

\* Every step of a run keeps what the runs know of costs.
LEMMA RunStepCovers ==
  ASSUME BooksInv, BooksInv', CostsCovered, NEW u \in Runs, RunStep(u)
  PROVE  CostsCovered'
<1>1. /\ RunTypeOK(run[u]) /\ InOrder(u, run[u]) /\ Planned(u) \subseteq Listings /\ Fixes(u) = FixesOf(run[u])
      /\ Fixes(u) \subseteq Planned(u) /\ {} \subseteq Planned(u) /\ {} \subseteq Listings
      /\ \A l \in Fixes(u) : PlanOf(u, l).price > 0
  BY RunFacts DEF Fixes, FixesOf, Planned, PlanOf
<1>2. CASE Load(u)
  BY <1>2, LoadCovers
<1>3. CASE Decide(u)
  BY <1>3, DecideCovers
<1>4. CASE PushPrices(u)
  <2>1. UNCHANGED <<mode, row>> /\ Pricing(u) /\ RunAt(u, "prices")
    BY <1>4 DEF PushPrices
  <2>2. \E r : /\ Proceed(u, r, Planned(u))
               /\ r = Rested \/ (r.plan = run[u].plan /\ r.at \in {"saveprices", "fixeach", "push", "flush"})
    <3> DEFINE r == [run[u] EXCEPT !.at = "saveprices", !.priced = Planned(u)]
    <3>1. Proceed(u, r, Planned(u)) \/ Proceed(u, Rested, Planned(u))
      BY <1>4 DEF PushPrices
    <3>2. r.plan = run[u].plan /\ r.at = "saveprices"
      BY <1>1 DEF RunTypeOK
    <3> HIDE DEF r
    <3> QED BY <3>1, <3>2
  <2>3. \A l \in Listings \ Planned(u) : PriceStays(l)
    <3>1. \/ \E A \in SUBSET Planned(u), saved \in SUBSET Planned(u) :
               PricesAnswered(u, Planned(u), A, ProviderFloor) /\ Opens(PricesOf(saved), u)
          \/ PricesLost(u, Planned(u), ProviderFloor) /\ UNCHANGED writers
      BY <1>4 DEF PushPrices
    <3> QED BY <1>1, <2>1, <3>1, OtherPricesStay
  <2> QED BY <1>1, <2>1, <2>2, <2>3, RunCovers
<1>5. CASE FixPrices(u)
  <2>1. UNCHANGED <<mode, row>> /\ ~Pricing(u) /\ RunAt(u, "prices")
    BY <1>5 DEF FixPrices
  <2>2. \E r : /\ Proceed(u, r, Fixes(u))
               /\ r.plan = run[u].plan /\ r.at \in {"saveprices", "fixeach", "push", "flush"}
    <3> DEFINE r(saved) == [run[u] EXCEPT !.at = "saveprices", !.priced = saved]
               s == [run[u] EXCEPT !.at = "fixeach", !.unpriced = Fixes(u)]
    <3>1. (\E saved : Proceed(u, r(saved), Fixes(u))) \/ Proceed(u, s, Fixes(u))
      BY <1>5 DEF FixPrices
    <3>2. /\ \A saved : r(saved).plan = run[u].plan /\ r(saved).at = "saveprices"
          /\ s.plan = run[u].plan /\ s.at = "fixeach"
      BY <1>1 DEF RunTypeOK
    <3> HIDE DEF r, s
    <3> QED BY <3>1, <3>2
  <2>3. /\ \A l \in Listings \ Fixes(u) : PriceStays(l)
        /\ \A l \in Fixes(u) : PriceOf(l) \in doubt' \/ shop'[l].price >= PlanOf(u, l).price
    <3>1. \/ \E A \in SUBSET Fixes(u), saved \in SUBSET Fixes(u) :
               PricesAnswered(u, Fixes(u), A, 0) /\ Opens(PricesOf(saved), u)
          \/ PricesLost(u, Fixes(u), 0) /\ UNCHANGED writers
      <4>1. \A A \in SUBSET Fixes(u) : (IF SavesPrices(u, A) THEN Fixes(u) ELSE {}) \in SUBSET Fixes(u)
        OBVIOUS
      <4> QED BY <1>5, <4>1 DEF FixPrices
    <3> QED BY <1>1, <2>1, <3>1, OtherPricesStay
  <2>4. Fixes(u) \subseteq Listings
    BY <1>1
  <2> QED BY <1>1, <2>1, <2>2, <2>3, <2>4, RunCovers
<1>6. ASSUME NEW l \in Listings, FixOne(u, l)
      PROVE  CostsCovered'
  <2>1. UNCHANGED <<mode, row>> /\ run[u].at \in {"fixeach", "flush"} /\ l \in run[u].unpriced
    BY <1>6 DEF FixOne
  <2>2. ~Pricing(u) /\ l \in Fixes(u) /\ {l} \subseteq Planned(u) /\ ~RunAt(u, "prices")
    BY <1>1, <2>1 DEF InOrder, RunAt
  <2>3. \E r : /\ Proceed(u, r, {l})
               /\ r.plan = run[u].plan /\ r.at \in {"saveprices", "fixeach", "push", "flush"}
    <3> DEFINE rest == [run[u] EXCEPT !.unpriced = @ \ {l}]
    <3>1. Proceed(u, [rest EXCEPT !.priced = {l}], {l}) \/ Proceed(u, rest, {l})
      BY <1>6 DEF FixOne
    <3>2. /\ rest.plan = run[u].plan /\ rest.at = run[u].at
          /\ [rest EXCEPT !.priced = {l}].plan = run[u].plan /\ [rest EXCEPT !.priced = {l}].at = run[u].at
      BY <1>1 DEF RunTypeOK
    <3> HIDE DEF rest
    <3> QED BY <2>1, <3>1, <3>2
  <2>4. /\ \A k \in Listings \ {l} : PriceStays(k)
        /\ \A k \in {l} : PriceOf(k) \in doubt' \/ shop'[k].price >= PlanOf(u, k).price
    <3>1. \/ \E A \in SUBSET {l}, saved \in SUBSET {l} :
               PricesAnswered(u, {l}, A, 0) /\ Opens(PricesOf(saved), u)
          \/ PricesLost(u, {l}, 0) /\ UNCHANGED writers
      <4>1. PricesOf({l}) = {PriceOf(l)}
        BY DEF PricesOf
      <4> QED BY <1>6, <4>1 DEF FixOne
    <3> QED BY <2>1, <2>2, <3>1, OtherPricesStay
  <2>5. \A k \in {l} : k \in Planned(u) /\ PlanOf(u, k).price > 0
    BY <1>1, <2>2
  <2>6. {l} \subseteq Listings
    OBVIOUS
  <2> QED BY <2>1, <2>2, <2>3, <2>4, <2>5, <2>6, RunCovers
<1>7. ASSUME NEW l \in Listings, SavePrice(u, l)
      PROVE  CostsCovered'
  <2>1. /\ UNCHANGED <<mode, shop>> /\ l \in run[u].priced /\ Keeps(PriceOf(l), u) /\ Closes(PriceOf(l), u)
        /\ row' = [row EXCEPT ![l].price = PlanOf(u, l).price,
                              ![l].oos = IF Pricing(u) THEN run[u].seen[l].oos ELSE @]
    BY <1>7 DEF SavePrice
  <2>2. /\ run[u].at \in {"saveprices", "fixeach", "push", "flush"} /\ ~RunAt(u, "prices")
        /\ ~Pricing(u) => l \in Fixes(u)
    BY <1>1, <2>1 DEF InOrder, RunAt, RunTypeOK
  <2>3. \E r : Proceed(u, r, {l}) /\ r.plan = run[u].plan /\ r.at = run[u].at
    <3> DEFINE r == [run[u] EXCEPT !.priced = @ \ {l}]
    <3>1. Proceed(u, r, {l}) /\ r.plan = run[u].plan /\ r.at = run[u].at
      BY <1>1, <1>7 DEF SavePrice, RunTypeOK
    <3> QED BY <3>1
  <2>4. doubt \subseteq doubt'
    BY <2>1 DEF Keeps
  <2>5. ASSUME NEW k \in Listings \ {l}
        PROVE  PriceStays(k)
    <3>1. PriceOf(k) \in Fields /\ PriceOf(k) # PriceOf(l) /\ row \in [Listings -> Row] /\ writers \in [Fields -> SUBSET BookTasks]
      BY FieldsAre, RunFacts
    <3> QED BY <2>1, <2>4, <3>1 DEF PriceStays, Closes
  <2>6. {l} \subseteq Listings /\ \A k \in {l} : shop'[k].price = shop[k].price
    BY <2>1
  <2>7. ~Pricing(u) => \A k \in {l} : k \in Planned(u) /\ PlanOf(u, k).price > 0
    BY <1>1, <2>2
  <2> QED BY <2>1, <2>2, <2>3, <2>4, <2>5, <2>6, <2>7, RunCovers
<1>8. CASE PushStocks(u)
  <2>1. UNCHANGED <<mode, row>> /\ RunAt(u, "push") /\ ~RunAt(u, "prices")
    BY <1>8 DEF PushStocks, RunAt
  <2>2. \E r : Proceed(u, r, {}) /\ r.plan = run[u].plan /\ r.at = "flush"
    <3> DEFINE r == [run[u] EXCEPT !.at = "flush", !.unsaved = Planned(u)]
               s == [run[u] EXCEPT !.at = "flush", !.todo = Planned(u), !.unpriced = Fixes(u)]
    <3>1. Proceed(u, r, {}) \/ Proceed(u, s, {})
      BY <1>8 DEF PushStocks
    <3>2. r.plan = run[u].plan /\ r.at = "flush" /\ s.plan = run[u].plan /\ s.at = "flush"
      BY <1>1 DEF RunTypeOK
    <3> HIDE DEF r, s
    <3> QED BY <3>1, <3>2
  <2>3. ASSUME NEW l \in Listings
        PROVE  PriceStays(l)
    <3>1. /\ PriceOf(l) \in Fields /\ PriceOf(l) \notin StocksOf(Planned(u))
          /\ shop \in [Listings -> Shop] /\ writers \in [Fields -> SUBSET BookTasks]
      <4>1. PriceOf(l) \in Fields /\ \A k \in Listings : PriceOf(l) # StockOf(k)
        BY FieldsAre
      <4> QED BY <1>1, <4>1, RunFacts DEF StocksOf
    <3>2. \E A \in SUBSET Planned(u) : shop' = ShopStock(u, A)
      BY <1>8 DEF PushStocks
    <3>3. shop'[l].price = shop[l].price
      BY <3>1, <3>2 DEF ShopStock, Shop
    <3>4. writers'[PriceOf(l)] = writers[PriceOf(l)] /\ (PriceOf(l) \in doubt => PriceOf(l) \in doubt')
      BY <1>8, <3>1 DEF PushStocks, Opens, Settles
    <3> QED BY <2>1, <3>3, <3>4 DEF PriceStays
  <2> QED BY <1>1, <2>1, <2>2, <2>3, RunCovers
<1>9. ASSUME NEW l \in Listings, PushOne(u, l)
      PROVE  CostsCovered'
  <2>1. UNCHANGED <<mode, row>> /\ RunAt(u, "flush") /\ ~RunAt(u, "prices")
    BY <1>9 DEF PushOne, RunAt
  <2> DEFINE rest == [run[u] EXCEPT !.todo = @ \ {l}]
  <2>2. \E r : Proceed(u, r, {}) /\ r.plan = run[u].plan /\ r.at = "flush"
    <3>1. Proceed(u, [rest EXCEPT !.unsaved = {l}], {}) \/ Proceed(u, rest, {})
      BY <1>9 DEF PushOne
    <3>2. /\ rest.plan = run[u].plan /\ rest.at = run[u].at
          /\ [rest EXCEPT !.unsaved = {l}].plan = run[u].plan /\ [rest EXCEPT !.unsaved = {l}].at = run[u].at
      BY <1>1 DEF RunTypeOK
    <3> HIDE DEF rest
    <3> QED BY <2>1, <3>1, <3>2 DEF RunAt
  <2>3. \A k \in Listings : shop'[k].price = shop[k].price
    <3>1. shop \in [Listings -> Shop]
      BY RunFacts
    <3>2. Declare(l, PlanOf(u, l).qty) \/ shop' = shop
      BY <1>9 DEF PushOne, DeclareFails, Declare
    <3> QED BY <3>1, <3>2 DEF Declare, Shop
  <2>4. \/ Opens({StockOf(l)}, u) \/ UNCHANGED writers
    BY <1>9 DEF PushOne
  <2>5. Settles({StockOf(l)}, {}, u) \/ doubt \subseteq doubt'
    BY <1>9 DEF PushOne, DeclareFails
  <2>6. \A k \in Listings : PriceStays(k)
    BY <2>1, <2>3, <2>4, <2>5, StockLeavesPrices
  <2> QED BY <1>1, <2>1, <2>2, <2>6, RunCovers
<1>10. ASSUME NEW l \in Listings, SaveStock(u, l)
      PROVE  CostsCovered'
  <2>1. UNCHANGED <<mode, shop>> /\ l \in run[u].unsaved
    BY <1>10 DEF SaveStock
  <2>2. RunAt(u, "flush") /\ ~RunAt(u, "prices")
    BY <1>1, <2>1 DEF InOrder, RunAt, RunTypeOK
  <2>3. \E r : Proceed(u, r, {}) /\ r.plan = run[u].plan /\ r.at = run[u].at
    <3> DEFINE r == [run[u] EXCEPT !.unsaved = @ \ {l}]
    <3>1. Proceed(u, r, {}) /\ r.plan = run[u].plan /\ r.at = run[u].at
      BY <1>1, <1>10 DEF SaveStock, RunTypeOK
    <3> QED BY <3>1
  <2>4. \A k \in Listings : PriceStays(k)
    <3>1. (\E q : SaveDeclared(l, q)) /\ Closes(StockOf(l), u) /\ doubt \subseteq doubt'
      BY <1>10 DEF SaveStock, Keeps
    <3> QED BY <2>1, <3>1, StockLeavesPrices
  <2> QED BY <1>1, <2>1, <2>2, <2>3, <2>4, RunCovers DEF RunAt
<1> QED BY <1>2, <1>3, <1>4, <1>5, <1>6, <1>7, <1>8, <1>9, <1>10 DEF RunStep

\* So does a callback,
LEMMA CallbackCovers ==
  ASSUME BooksInv, CostsCovered, NEW t \in Callbacks, Requested(t) \/ Served(t)
  PROVE  CostsCovered'
<1>1. /\ On(t) \in Listings /\ row \in [Listings -> Row] /\ shop \in [Listings -> Shop]
      /\ writers \in [Fields -> SUBSET BookTasks]
  BY TaskFacts
<1>2. UNCHANGED <<mode, syncVars>>
  BY DEF Requested, Served, Callback, SetDeclaredStock, CallbackStep, Count, Pause, Trip, Hide, Spread, SaveShown
<1>3. ASSUME NEW k \in Listings, NEW q, Declare(k, q) \/ DeclareFails(k, q)
      PROVE  \A l \in Listings : shop'[l].price = shop[l].price
  BY <1>1, <1>3 DEF Declare, DeclareFails, Shop
<1>4. ASSUME UNCHANGED <<shop, writers, doubt>>, \A l \in Listings : row'[l].price = row[l].price
      PROVE  \A l \in Listings : PriceStays(l)
  BY <1>4 DEF PriceStays
<1>5. CASE Callback(t)
  BY <1>2, <1>4, <1>5, PricesLeftAlone DEF Callback
<1>6. CASE SetDeclaredStock(t)
  <2>1. PICK k \in Listings, q \in 0..MaxShown :
          \/ Declare(k, q) /\ Settles({StockOf(k)}, {}, t) /\ Opens({StockOf(k)}, t)
          \/ DeclareFails(k, q) /\ UNCHANGED writers
    BY <1>6 DEF SetDeclaredStock
  <2>2. UNCHANGED row /\ (DeclareFails(k, q) => doubt \subseteq doubt')
    BY <1>6 DEF SetDeclaredStock, DeclareFails
  <2>3. \A l \in Listings : shop'[l].price = shop[l].price
    BY <1>3, <2>1
  <2>4. \A l \in Listings : PriceStays(l)
    BY <2>1, <2>2, <2>3, StockLeavesPrices
  <2> QED BY <1>2, <2>4, PricesLeftAlone
<1>7. CASE Count(t)
  <2>1. UNCHANGED <<shop, writers, doubt>> /\ \A l \in Listings : row'[l].price = row[l].price
    <3>1. PICK r \in Row : row' = [row EXCEPT ![On(t)] = r] /\ r.price = row[On(t)].price
      BY <1>7, CountEffect
    <3> QED BY <1>1, <1>7, <3>1 DEF Count
  <2> QED BY <1>2, <1>4, <2>1, PricesLeftAlone
<1>8. CASE Pause(t)
  <2>1. UNCHANGED <<shop, writers, doubt>> /\ \A l \in Listings : row'[l].price = row[l].price
    BY <1>1, <1>8 DEF Pause, Row
  <2> QED BY <1>2, <1>4, <2>1, PricesLeftAlone
<1>9. CASE Trip(t)
  <2>1. /\ UNCHANGED shop /\ \A l \in Listings : row'[l].price = row[l].price
        /\ Opens({StockOf(On(t))}, t) /\ Settles({StockOf(On(t))}, {}, t)
    BY <1>1, <1>9 DEF Trip, Row
  <2>2. ASSUME NEW l \in Listings
        PROVE  PriceStays(l)
    <3>1. PriceOf(l) \in Fields /\ PriceOf(l) # StockOf(On(t))
      BY <1>1, FieldsAre
    <3> QED BY <1>1, <2>1, <3>1 DEF PriceStays, Opens, Settles
  <2> QED BY <1>2, <2>2, PricesLeftAlone
<1>10. CASE Hide(t)
  <2>1. /\ UNCHANGED row /\ Closes(StockOf(On(t)), t)
        /\ (Declare(On(t), 0) /\ Keeps(StockOf(On(t)), t)) \/ DeclareFails(On(t), 0)
    BY <1>10 DEF Hide
  <2>2. \A l \in Listings : shop'[l].price = shop[l].price
    BY <1>1, <1>3, <2>1
  <2>3. doubt \subseteq doubt'
    BY <2>1 DEF Keeps, DeclareFails
  <2>4. \A l \in Listings : PriceStays(l)
    BY <1>1, <2>1, <2>2, <2>3, StockLeavesPrices
  <2> QED BY <1>2, <2>4, PricesLeftAlone
<1>11. CASE Spread(t)
  <2>1. /\ UNCHANGED row
        /\ \/ Declare(On(t), 0) /\ Settles({StockOf(On(t))}, {}, t) /\ Opens({StockOf(On(t))}, t)
           \/ DeclareFails(On(t), 0) /\ UNCHANGED writers
           \/ UNCHANGED <<shop, writers, doubt>>
    BY <1>11 DEF Spread
  <2>2. \A l \in Listings : shop'[l].price = shop[l].price
    BY <1>1, <1>3, <2>1
  <2>3. Settles({StockOf(On(t))}, {}, t) \/ doubt \subseteq doubt'
    BY <2>1 DEF DeclareFails
  <2>4. \A l \in Listings : PriceStays(l)
    BY <1>1, <2>1, <2>2, <2>3, StockLeavesPrices
  <2> QED BY <1>2, <2>4, PricesLeftAlone
<1>12. CASE SaveShown(t)
  <2>1. /\ UNCHANGED shop /\ (\E q : SaveDeclared(On(t), q)) /\ Closes(StockOf(On(t)), t)
        /\ doubt \subseteq doubt'
    BY <1>12 DEF SaveShown, Keeps
  <2>2. \A l \in Listings : PriceStays(l)
    BY <1>1, <2>1, StockLeavesPrices
  <2> QED BY <1>2, <2>2, PricesLeftAlone
<1> QED BY <1>5, <1>6, <1>7, <1>8, <1>9, <1>10, <1>11, <1>12 DEF Requested, Served, CallbackStep

\* and all that nobody does: the market, hands, late saves and restarts.
LEMMA NobodyUncovers ==
  ASSUME BooksInv, CostsCovered, Outside \/ SavedLate \/ Restart \/ UNCHANGED vars
  PROVE  CostsCovered'
<1>1. row \in [Listings -> Row] /\ late \subseteq Listings \X Nat
  BY DEF BooksInv, Types, ListingTypeOK
<1>2. ASSUME UNCHANGED <<mode, syncVars, shop, writers, doubt>>, \A l \in Listings : row'[l].price = row[l].price
      PROVE  CostsCovered'
  BY <1>2, PricesLeftAlone DEF PriceStays
<1>3. CASE Outside
  <2>1. UNCHANGED <<mode, syncVars, shop, writers, doubt>> /\ \A l \in Listings : row'[l].price = row[l].price
    <3>1. CASE SupplyMoves \/ RivalsMove
      BY <1>3, <3>1 DEF Outside, SupplyMoves, RivalsMove
    <3>2. CASE Recover
      <4>1. PICK k \in Listings, reset \in BOOLEAN :
              row' = [row EXCEPT ![k] = IF reset THEN [@ EXCEPT !.status = "active", !.fails = 0, !.won = 0, !.lost = 0]
                                                 ELSE [@ EXCEPT !.status = "active"]]
        BY <3>2 DEF Recover
      <4>2. \A l \in Listings : row'[l].price = row[l].price
        BY <1>1, <4>1 DEF Row
      <4> QED BY <1>3, <3>2, <4>2 DEF Outside, Recover
    <3>3. CASE OfferDeactivated
      <4>1. \A l \in Listings : row'[l].price = row[l].price
        BY <1>1, <3>3 DEF OfferDeactivated, Row
      <4> QED BY <1>3, <3>3, <4>1 DEF Outside, OfferDeactivated
    <3> QED BY <1>3, <3>1, <3>2, <3>3 DEF Outside
  <2> QED BY <1>2, <2>1
<1>4. CASE SavedLate
  <2>1. PICK s \in late : SaveDeclared(s[1], s[2])
    BY <1>4 DEF SavedLate, SaveLate
  <2>2. UNCHANGED <<mode, syncVars, shop, writers, doubt>> /\ \A l \in Listings : row'[l].price = row[l].price
    BY <1>1, <1>4, <2>1 DEF SavedLate, SaveLate, SaveDeclared, Row
  <2> QED BY <1>2, <2>2
<1>5. CASE Restart
  BY <1>5, RestCovers DEF Restart, CostsCovered
<1>6. CASE UNCHANGED vars
  BY <1>2, <1>6 DEF vars, bookVars
<1> QED BY <1>3, <1>4, <1>5, <1>6

\* What a run that no other has overtaken declares for a supplier asks a price that covers
\* him, or is about to.
THEOREM CostsAreCovered == Spec => []CostsCovered
<1>1. Init => CostsCovered
  BY RestedIsRun DEF Init, SyncInit, CostsCovered, Costs, SeenNow, PlanCovers, Planned
<1>2. BooksInv /\ CostsCovered /\ [Next]_vars => CostsCovered'
  <2> SUFFICES ASSUME BooksInv, CostsCovered, [Next]_vars
               PROVE  CostsCovered'
    OBVIOUS
  <2>1. BooksInv'
    BY NextKeepsBooks
  <2>2. ASSUME NEW u \in Runs, Reconciled(u)
        PROVE  CostsCovered'
    BY <2>1, <2>2, RunStepCovers DEF Reconciled
  <2> QED BY <2>2, CallbackCovers, NobodyUncovers DEF Next
<1> QED BY <1>1, <1>2, BooksInvariant, PTL DEF Spec

\* When a run declares a supplier's stock for a listing that is priced automatically and has
\* a price, the marketplace asks what covers the supplier and the margin, unless a push of
\* the price failed or crossed another or an overlapping run has priced the listing since:
\* whatever the fees, the strategy, the offers and the rivals, and however many runs overlap.
THEOREM StockIsDeclaredCovered == Spec => NeverDeclaredAtALoss
<1> DEFINE Safe == \A t \in Runs, l \in Listings :
             Declares(t, l) /\ mode[l].autoPrice /\ PriceOf(l) \notin doubt /\ t \notin past[l] /\ row[l].price > 0
               => shop[l].price >= ProfitFloor(PlanOf(t, l).cost, mode[l].net)
<1>1. BooksInv /\ CostsCovered /\ [Next]_vars => [Safe]_vars
  <2> SUFFICES ASSUME BooksInv, CostsCovered, NEW t \in Runs, NEW l \in Listings, Declares(t, l), mode[l].autoPrice,
                      PriceOf(l) \notin doubt, t \notin past[l], row[l].price > 0
               PROVE  shop[l].price >= ProfitFloor(PlanOf(t, l).cost, mode[l].net)
    OBVIOUS
  <2>1. run[t].at \in {"push", "flush"} /\ l \in Planned(t) /\ PlanOf(t, l).qty > 0 /\ PlanOf(t, l).cost > 0
    BY DEF Declares, PushStocks, PushOne, RunAt
  <2>2. ~Pricing(t)
    BY <2>1, PushPricesNothing
  <2> QED BY <2>1, <2>2 DEF CostsCovered, Costs, PlanCovers, RunAt
<1> QED BY <1>1, BooksInvariant, CostsAreCovered, PTL DEF Spec, NeverDeclaredAtALoss
===============================================================================
